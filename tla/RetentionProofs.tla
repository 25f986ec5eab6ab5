--------------------------- MODULE RetentionProofs ---------------------------
(***************************************************************************)
(* Proofs about the retention policy (Retention): evaluate is fail-closed  *)
(* for any number of operators who hold and release the message, and time  *)
(* never makes a due message undue.                                        *)
(***************************************************************************)
EXTENDS Retention, FiniteSetTheorems, TLAPS

-----------------------------------------------------------------------------
(* evaluate, read as the conjunction of what it does not complain about.   *)

\* No reason code applies.
NoReason ==
    /\ facts.enabled /\ facts.present
    /\ facts.identity \notin {"unproven", "incomplete", "incoherent"}
    /\ facts.link = "one"
    /\ facts.state = "archived"
    /\ facts.archivedAt # Missing /\ facts.archivedAt # Invalid
    /\ facts.days # Never /\ ~NotElapsed
    /\ facts.file \notin {"outside", "missing", "bad"}
    /\ facts.integrity = "verified"
    /\ ~(Cardinality(verified) < Required)
    /\ "keep-online" \notin controls /\ "legal-hold" \notin controls

\* A code whose condition holds is among the reasons.
LEMMA ReasonBlocks ==
    ASSUME Eligible
    PROVE  NoReason
BY DEF NoReason, Eligible, ReasonCodes, Reason

-----------------------------------------------------------------------------
(* The inductive invariant.                                                *)

\* Type correctness of the facts, the evidence and the controls.
TypeOK ==
    /\ now \in 0..MaxTime
    /\ facts \in FactRecords
    /\ verified \subseteq Repos /\ IsFiniteSet(verified)
    /\ controls \subseteq Kinds /\ held \subseteq Kinds
    /\ releasing \in [Procs -> Kinds \cup {"none"}]
    /\ sawOther \in [Procs -> BOOLEAN]

\* What an operator set and nobody released is still recorded.
HeldIsRecorded == held \subseteq controls

\* A release that will delete the row takes no control with it but its own.
DeletionIsHarmless ==
    \A e \in Procs : releasing[e] # "none" /\ ~sawOther[e] => held \subseteq {releasing[e]}

ControlInv == HeldIsRecorded /\ DeletionIsHarmless

-----------------------------------------------------------------------------
LEMMA InitType == Init => TypeOK
BY RetentionAssumption, FS_EmptySet DEF Init, TypeOK, Kinds

\* A fact that changes keeps the record well-formed.
LEMMA FactType ==
    ASSUME facts \in FactRecords, NEW f \in DOMAIN FactSpace, NEW v \in FactSpace[f]
    PROVE  [facts EXCEPT ![f] = v] \in FactRecords
<1>1. f \in {"enabled", "present", "identity", "link", "state", "archivedAt", "file",
             "integrity", "days"}
    BY RetentionAssumption DEF FactDomain
<1> QED
    BY <1>1 DEF FactRecords

LEMMA NextType == TypeOK /\ [Next]_vars => TypeOK'
<1> SUFFICES ASSUME TypeOK, [Next]_vars
             PROVE  TypeOK'
    OBVIOUS
<1> USE DEF TypeOK, releases
<1>1. CASE Tick
    BY <1>1, RetentionAssumption DEF Tick
<1>2. CASE \E f \in DOMAIN FactSpace : \E v \in FactSpace[f] : FactChanges(f, v)
    BY <1>2, FactType DEF FactChanges
<1>3. CASE \E r \in Repos : EvidenceChanges(r)
    BY <1>3, FS_AddElement, FS_RemoveElement DEF EvidenceChanges
<1>4. CASE \E e \in Procs, k \in Kinds : Hold(e, k)
    BY <1>4 DEF Hold
<1>5. CASE \E e \in Procs, k \in Kinds : ReleaseRead(e, k)
    BY <1>5 DEF ReleaseRead
<1>6. CASE \E e \in Procs : ReleaseWrite(e)
    BY <1>6 DEF ReleaseWrite
<1>7. CASE UNCHANGED vars
    BY <1>7 DEF vars
<1> QED
    BY <1>1, <1>2, <1>3, <1>4, <1>5, <1>6, <1>7 DEF Next

LEMMA TypeHolds == Spec => []TypeOK
BY InitType, NextType, PTL DEF Spec

LEMMA InitControl == Init => ControlInv
BY DEF Init, ControlInv, HeldIsRecorded, DeletionIsHarmless

LEMMA NextControl == TypeOK /\ ControlInv /\ [Next]_vars => ControlInv'
<1> SUFFICES ASSUME TypeOK, ControlInv, [Next]_vars
             PROVE  ControlInv'
    OBVIOUS
<1> USE DEF ControlInv, HeldIsRecorded, DeletionIsHarmless, TypeOK
<1>1. CASE UNCHANGED <<controls, held, releases>>
    BY <1>1 DEF releases
<1>2. ASSUME NEW e \in Procs, NEW k \in Kinds, Hold(e, k)
      PROVE  ControlInv'
  <2>1. CASE DeletionPending(k)
    BY <1>2, <2>1 DEF Hold, releases
  <2>2. CASE ~DeletionPending(k)
    BY <1>2, <2>2 DEF Hold, DeletionPending, releases
  <2> QED
    BY <2>1, <2>2
<1>3. ASSUME NEW e \in Procs, NEW k \in Kinds, ReleaseRead(e, k)
      PROVE  ControlInv'
  <2>1. /\ releasing' = [releasing EXCEPT ![e] = k]
        /\ sawOther' = [sawOther EXCEPT ![e] = controls \ {k} # {}]
        /\ controls' = controls /\ held' = held
    BY <1>3 DEF ReleaseRead
  <2>2. ASSUME ~sawOther'[e]
        PROVE  held' \subseteq {releasing'[e]}
    BY <2>1, <2>2
  <2>3. \A d \in Procs \ {e} : releasing'[d] = releasing[d] /\ sawOther'[d] = sawOther[d]
    BY <2>1
  <2> QED
    BY <2>1, <2>2, <2>3
<1>4. ASSUME NEW e \in Procs, ReleaseWrite(e)
      PROVE  ControlInv'
  <2>1. /\ releasing'[e] = "none" /\ held' \subseteq held
        /\ \A d \in Procs \ {e} : releasing'[d] = releasing[d] /\ sawOther'[d] = sawOther[d]
    BY <1>4 DEF ReleaseWrite
  <2>2. CASE CheckRejects(e)
    BY <1>4, <2>2 DEF ReleaseWrite
  <2>3. CASE ~CheckRejects(e) /\ sawOther[e]
    BY <1>4, <2>1, <2>3 DEF ReleaseWrite
  <2>4. CASE ~CheckRejects(e) /\ ~sawOther[e]
    BY <1>4, <2>1, <2>4 DEF ReleaseWrite
  <2> QED
    BY <2>2, <2>3, <2>4
<1>5. Tick \/ (\E f \in DOMAIN FactSpace : \E v \in FactSpace[f] : FactChanges(f, v))
           \/ (\E r \in Repos : EvidenceChanges(r)) \/ UNCHANGED vars
      => UNCHANGED <<controls, held, releases>>
    BY DEF Tick, FactChanges, EvidenceChanges, vars, releases
<1> QED
    BY <1>1, <1>2, <1>3, <1>4, <1>5 DEF Next

LEMMA ControlHolds == Spec => []ControlInv
BY InitControl, NextControl, TypeHolds, PTL DEF Spec

-----------------------------------------------------------------------------
\* A message evaluate calls eligible satisfies the whole deletion predicate of SAFETY.md, for
\* every combination of facts, any number of repositories and operators and any clock
\* (retention.py, evaluate and set_control).
THEOREM EvaluateIsFailClosed == Spec => []FailClosed
<1>1. TypeOK /\ ControlInv => FailClosed
  <2> SUFFICES ASSUME TypeOK, ControlInv, Eligible
               PROVE  DeletionIsSafe
    BY DEF FailClosed
  <2>1. NoReason
    BY ReasonBlocks
  <2>2. held = {}
    BY <2>1 DEF NoReason, TypeOK, ControlInv, HeldIsRecorded, Kinds
  <2>3. /\ facts.identity \in {"proven", "unproven", "incomplete", "incoherent"}
        /\ facts.file \in {"good", "bad", "missing", "outside"}
        /\ facts.archivedAt \in 0..MaxTime \cup {Missing, Invalid}
        /\ facts.days \in Nat \cup {Never}
    BY RetentionAssumption DEF TypeOK, FactRecords, FactDomain
  <2>4. now \in Nat /\ now >= facts.archivedAt + facts.days /\ facts.archivedAt \in Nat
    BY <2>1, <2>3, RetentionAssumption
       DEF NoReason, NotElapsed, Elapsed, Linked, TypeOK, Missing, Invalid, Never
  <2>5. Cardinality(verified) \in Nat
    BY FS_CardinalityType DEF TypeOK
  <2>6. Cardinality(verified) >= Required
    BY <2>1, <2>5, RetentionAssumption DEF NoReason
  <2> QED
    BY <2>1, <2>2, <2>3, <2>4, <2>6 DEF NoReason, DeletionIsSafe, Never
<1> QED
    BY <1>1, TypeHolds, ControlHolds, PTL

\* The passage of time alone never takes eligibility away (retention.py, evaluate: the deadline
\* is a lower bound).
THEOREM DueStaysDue == Spec => TimeNeverProtects
<1> DEFINE Step == facts' = facts /\ verified' = verified /\ controls' = controls /\ Eligible
                   => Eligible'
<1>1. TypeOK /\ TypeOK' /\ [Next]_vars => [Step]_now
  <2> SUFFICES ASSUME TypeOK, TypeOK', [Next]_vars, now' # now, Eligible,
                      facts' = facts, verified' = verified, controls' = controls
               PROVE  Eligible'
    OBVIOUS
  <2>1. now' = now + 1
    BY DEF Next, vars, Tick, FactChanges, EvidenceChanges, Hold, ReleaseRead, ReleaseWrite
  <2>2. NoReason
    BY ReasonBlocks
  <2>3. /\ facts.archivedAt \in 0..MaxTime \cup {Missing, Invalid}
        /\ facts.days \in Nat \cup {Never}
    BY RetentionAssumption DEF TypeOK, FactRecords, FactDomain
  <2>4. ~NotElapsed'
    BY <2>1, <2>2, <2>3, RetentionAssumption
       DEF NoReason, NotElapsed, Elapsed, Linked, TypeOK, Missing, Invalid, Never
  <2>5. NoReason'
    BY <2>2, <2>4 DEF NoReason
  <2>6. NoReason' => Eligible'
    BY DEF NoReason, Eligible, ReasonCodes, Reason, Linked, NotElapsed
  <2> QED
    BY <2>5, <2>6
<1> QED
    BY <1>1, TypeHolds, PTL DEF Spec, TimeNeverProtects

=============================================================================
