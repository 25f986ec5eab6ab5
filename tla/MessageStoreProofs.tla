------------------------- MODULE MessageStoreProofs -------------------------
(***************************************************************************)
(* Proofs about the life of one canonical message (MessageStore).  For any *)
(* number of processes: types, and that the row names the intact file.     *)
(* With one operator: no step removes the last intact copy.  With one      *)
(* process: durability, the separation of the quarantine, and the          *)
(* refinement of MessageLifecycle.                                         *)
(***************************************************************************)
EXTENDS MessageStore, TLAPS

\* The control points of _move_exact, after the decision.
MoveSteps == {"move", "install", "syncDest", "exists", "remove", "syncSource", "commit"}

\* A move goes to a storage state that has a tree of its own.
TargetIsState == \A e \in Procs : pc[e] \in MoveSteps => target[e] \in {"archived", "quarantined"}

TypeInv == TypeOK /\ TargetIsState

-----------------------------------------------------------------------------
(* Types.                                                                  *)

LEMMA InitType == Init => TypeInv
<1> SUFFICES ASSUME Init
             PROVE  TypeInv
    OBVIOUS
<1>1. NoRow \in Rows
    BY DEF NoRow, Row, Rows
<1>2. crashes \in 0..MaxCrashes /\ powerFailures \in 0..MaxPowerFailures /\ damage \in 0..MaxDamage
    BY StoreAssumption DEF Init
<1> QED
    BY <1>1, <1>2 DEF Init, TypeInv, TypeOK, TargetIsState, MoveSteps, Content, Pcs, Ops

LEMMA DirOfType == \A s : DirOf(s) \in Dirs /\ (DirOf(s) = "staging" <=> s \notin {"archived", "quarantined"})
BY DEF DirOf, Dirs

LEMMA RowType ==
    ASSUME NEW s \in States \cup {"none"}, NEW a \in BOOLEAN, NEW q \in BOOLEAN
    PROVE  /\ Row(s, a, q) \in Rows
           /\ Row(s, a, q).state = s /\ Row(s, a, q).archivedAt = a /\ Row(s, a, q).quarantinedAt = q
BY DEF Row, Rows

\* The process that takes a step, and the others.
LEMMA ExitFacts ==
    ASSUME TypeInv, NEW e \in Procs, Exit(e)
    PROVE  /\ pc' \in [Procs -> Pcs] /\ op' \in [Procs -> Ops] /\ snap' \in [Procs -> Rows]
           /\ verdict' \in [Procs -> Verdicts \cup {"none"}]
           /\ target' \in [Procs -> States \cup {"none", "known", "created", "reused"}]
           /\ pc'[e] = "idle"
           /\ \A d \in Procs \ {e} : /\ pc'[d] = pc[d] /\ op'[d] = op[d] /\ snap'[d] = snap[d]
                                     /\ verdict'[d] = verdict[d] /\ target'[d] = target[d]
BY RowType DEF TypeInv, TypeOK, Exit, Goto, NoRow, Pcs, Ops, States

LEMMA ContinueFacts ==
    ASSUME TypeInv, NEW e \in Procs, NEW label \in Pcs, Continue(e, label)
    PROVE  /\ pc' \in [Procs -> Pcs] /\ pc'[e] = label /\ \A d \in Procs \ {e} : pc'[d] = pc[d]
           /\ UNCHANGED <<op, snap, verdict, target>>
BY DEF TypeInv, TypeOK, Continue, Goto, locals

LEMMA StepType ==
    ASSUME TypeInv, NEW e \in Procs, Step(e)
    PROVE  TypeInv'
<1> USE DEF TypeInv, TypeOK, TargetIsState, MoveSteps, store, catalog, failures
<1>1. ASSUME Exit(e), UNCHANGED <<store, catalog, failures>>
      PROVE  TypeInv'
    BY <1>1, ExitFacts
<1>2. ASSUME NEW label \in Pcs, Continue(e, label), label \in MoveSteps => pc[e] \in MoveSteps,
             files' \in [Dirs -> Content], disk' \in [Dirs -> Content], UNCHANGED <<catalog, failures>>
      PROVE  TypeInv'
    BY <1>2, ContinueFacts
<1>3. /\ files[Source(e)] \in Content /\ files[Destination(e)] \in Content /\ files["staging"] \in Content
      /\ Source(e) \in Dirs /\ Destination(e) \in Dirs /\ "staging" \in Dirs
    BY DirOfType DEF Source, Destination, Dirs
<1>4. CASE CreateCheck(e)
    BY <1>1, <1>2, <1>4 DEF CreateCheck, Pcs
<1>5. CASE CreateLink(e)
    BY <1>1, <1>2, <1>5 DEF CreateLink, Pcs, Content
<1>6. CASE CreateSync(e)
    BY <1>2, <1>3, <1>6 DEF CreateSync, Pcs
<1>7. CASE Register(e)
  <2>1. row' \in Rows
    BY <1>7, RowType DEF Register, States
  <2> QED
    BY <1>7, <2>1 DEF Register, Goto, Pcs
<1>8. CASE IngestReturns(e)
  <2>1. CASE Exit(e)
    BY <1>1, <1>8, <2>1 DEF IngestReturns
  <2>2. CASE ~Exit(e)
    BY <1>8, <2>2 DEF IngestReturns, Continue, Goto, locals, Pcs, Verdicts
  <2> QED
    BY <2>1, <2>2
<1>9. CASE ClassifyPending(e)
  <2>1. CASE Exit(e)
    BY <1>1, <1>9, <2>1 DEF ClassifyPending
  <2>2. CASE ~Exit(e)
    BY <1>9, <2>2 DEF ClassifyPending, Goto, Pcs
  <2> QED
    BY <2>1, <2>2
<1>10. CASE Decide(e)
    BY <1>10 DEF Decide, Goto, Pcs, StateOf, States
<1>11. CASE MoveCheck(e)
    BY <1>1, <1>2, <1>11 DEF MoveCheck, Pcs
<1>12. CASE Install(e)
    BY <1>1, <1>2, <1>3, <1>12 DEF Install, Pcs
<1>13. CASE SyncDest(e)
    BY <1>2, <1>3, <1>13 DEF SyncDest, Pcs
<1>14. CASE RemoveCheck(e) \/ Remove(e)
    BY <1>1, <1>2, <1>3, <1>14 DEF RemoveCheck, Remove, Pcs, Content
<1>15. CASE SyncSource(e)
    BY <1>2, <1>3, <1>15 DEF SyncSource, Pcs
<1>16. CASE Commit(e)
  <2>1. target[e] \in {"archived", "quarantined"}
    BY <1>16 DEF Commit
  <2>2. row' \in Rows
    BY <1>16, <2>1, RowType DEF Commit, Transition, Rows, States
  <2>3. override' \in Verdicts \cup {"none"} /\ auto' \in Verdicts \cup {"none"}
    BY <1>16 DEF Commit
  <2> QED
    BY <1>16, <2>2, <2>3, ExitFacts DEF Commit
<1> QED
    BY <1>4, <1>5, <1>6, <1>7, <1>8, <1>9, <1>10, <1>11, <1>12, <1>13, <1>14, <1>15, <1>16 DEF Step

LEMMA NextType == TypeInv /\ [Next]_vars => TypeInv'
<1> SUFFICES ASSUME TypeInv, [Next]_vars
             PROVE  TypeInv'
    OBVIOUS
<1> USE DEF TypeInv, TypeOK, TargetIsState, MoveSteps, store, catalog, failures
<1>1. ASSUME NEW e \in Procs, NEW o \in {"sync", "import"}, Ingest(e, o)
      PROVE  TypeInv'
    BY <1>1 DEF Ingest, Goto, Pcs, Ops
<1>2. ASSUME NEW e \in Procs, ReconcilePending(e)
      PROVE  TypeInv'
    BY <1>2 DEF ReconcilePending, Goto, Pcs, Ops
<1>3. ASSUME NEW e \in Procs, NEW v \in Verdicts, ManualClassify(e, v)
      PROVE  TypeInv'
    BY <1>3 DEF ManualClassify, Goto, Pcs, Ops
<1>4. ASSUME NEW e \in Procs, Crash(e)
      PROVE  TypeInv'
  <2>1. crashes' \in 0..MaxCrashes
    BY <1>4, StoreAssumption DEF Crash
  <2> QED
    BY <1>4, <2>1, ExitFacts DEF Crash
<1>5. CASE PowerFailure
  <2>1. powerFailures' \in 0..MaxPowerFailures
    BY <1>5, StoreAssumption DEF PowerFailure
  <2>2. NoRow \in Rows
    BY DEF NoRow, Row, Rows
  <2> QED
    BY <1>5, <2>1, <2>2 DEF PowerFailure, Pcs, Ops
<1>6. ASSUME NEW D \in SUBSET Dirs, Damage(D)
      PROVE  TypeInv'
  <2>1. damage' \in 0..MaxDamage
    BY <1>6, StoreAssumption DEF Damage
  <2> QED
    BY <1>6, <2>1 DEF Damage, locals, Content
<1>7. CASE UNCHANGED vars
    BY <1>7 DEF vars
<1> QED
    BY <1>1, <1>2, <1>3, <1>4, <1>5, <1>6, <1>7, StepType, StoreAssumption DEF Next

LEMMA TypeInvHolds == Spec => []TypeInv
BY InitType, NextType, PTL DEF Spec

\* Files, rows and processes keep their types for any number of processes and failures; in
\* particular the row never holds a verdict where its storage state belongs.
THEOREM TypeCorrect == Spec => []TypeOK
<1>1. TypeInv => TypeOK
    BY DEF TypeInv
<1> QED
    BY <1>1, TypeInvHolds, PTL

-----------------------------------------------------------------------------
(* Where an operation comes from.                                          *)

\* Only operators overrule and import, and only a manual verdict moves a message that is no
\* longer pending.
Origin(e) ==
    /\ op[e] \in {"manual", "import"} => e \in ManualProcs
    /\ pc[e] \in {"create", "link", "linkSync", "register", "verify"} => op[e] \in {"sync", "import"}
    /\ pc[e] = "verify" /\ target[e] = "created" => snap[e].state = "pending"
    /\ pc[e] = "classify" => op[e] \in {"sync", "reconcile"} /\ snap[e].state = "pending"
    /\ pc[e] \in MoveSteps \cup {"decide"} =>
           verdict[e] \in Verdicts /\ (op[e] = "manual" \/ snap[e].state = "pending")

Origins == \A e \in Procs : Origin(e)

\* What every action of a process does to the processes: itself, and nobody else.
LEMMA OthersStand ==
    ASSUME TypeInv, NEW e \in Procs, NEW v \in Verdicts, NEW o \in Ops,
           Ingest(e, o) \/ ReconcilePending(e) \/ ManualClassify(e, v) \/ Step(e) \/ Crash(e)
    PROVE  \A d \in Procs \ {e} : /\ pc'[d] = pc[d] /\ op'[d] = op[d] /\ snap'[d] = snap[d]
                                  /\ verdict'[d] = verdict[d] /\ target'[d] = target[d]
<1> USE DEF TypeInv, TypeOK, Goto
<1>1. ASSUME Exit(e)
      PROVE  \A d \in Procs \ {e} : /\ pc'[d] = pc[d] /\ op'[d] = op[d] /\ snap'[d] = snap[d]
                                    /\ verdict'[d] = verdict[d] /\ target'[d] = target[d]
    BY <1>1, ExitFacts
<1>2. CASE Ingest(e, o) \/ ReconcilePending(e) \/ ManualClassify(e, v)
    BY <1>2 DEF Ingest, ReconcilePending, ManualClassify
<1>3. CASE Crash(e)
    BY <1>1, <1>3 DEF Crash
<1>4. CASE Step(e)
  <2>1. CASE Exit(e)
    BY <1>1, <2>1
  <2>2. CASE ~Exit(e)
    <3>1. CASE CreateCheck(e) \/ CreateLink(e) \/ CreateSync(e) \/ Register(e) \/ IngestReturns(e)
      BY <2>2, <3>1 DEF CreateCheck, CreateLink, CreateSync, Register, IngestReturns, Continue, locals
    <3>2. CASE ClassifyPending(e) \/ Decide(e) \/ MoveCheck(e) \/ Install(e) \/ SyncDest(e)
      BY <2>2, <3>2 DEF ClassifyPending, Decide, MoveCheck, Install, SyncDest, Continue, locals
    <3>3. CASE RemoveCheck(e) \/ Remove(e) \/ SyncSource(e) \/ Commit(e)
      BY <2>2, <3>3 DEF RemoveCheck, Remove, SyncSource, Commit, Continue, locals
    <3> QED
      BY <1>4, <3>1, <3>2, <3>3 DEF Step
  <2> QED
    BY <2>1, <2>2
<1> QED
    BY <1>2, <1>3, <1>4

LEMMA StepOrigin ==
    ASSUME TypeInv, NEW e \in Procs, Origin(e), Step(e)
    PROVE  Origin(e)'
<1> USE DEF TypeInv, TypeOK, Origin, MoveSteps
<1>1. ASSUME Exit(e)
      PROVE  Origin(e)'
    BY <1>1 DEF Exit, Goto
<1>2. ASSUME NEW label \in {"create", "link", "linkSync", "register"}, Continue(e, label),
             pc[e] \in {"create", "link", "linkSync"}
      PROVE  Origin(e)'
    BY <1>2 DEF Continue, Goto, locals
<1>3. ASSUME NEW label \in MoveSteps, Continue(e, label), pc[e] \in MoveSteps
      PROVE  Origin(e)'
    BY <1>3 DEF Continue, Goto, locals
<1>4. CASE CreateCheck(e) \/ CreateLink(e) \/ CreateSync(e)
    BY <1>1, <1>2, <1>4 DEF CreateCheck, CreateLink, CreateSync
<1>5. CASE Register(e)
  <2>1. pc'[e] = "verify" /\ op'[e] = op[e] /\ op[e] \in {"sync", "import"}
    BY <1>5 DEF Register, Goto
  <2>2. target'[e] = "created" => row.state = "none"
    BY <1>5 DEF Register
  <2>3. row.state = "none" => snap'[e].state = "pending"
    BY <1>5 DEF Register, Row
  <2> QED
    BY <2>1, <2>2, <2>3
<1>6. CASE IngestReturns(e)
  <2>1. CASE Exit(e)
    BY <1>1, <2>1
  <2>2. CASE ~Exit(e)
    BY <1>6, <2>2 DEF IngestReturns, Continue, Goto, locals, Verdicts
  <2> QED
    BY <2>1, <2>2
<1>7. CASE ClassifyPending(e)
  <2>1. CASE Exit(e)
    BY <1>1, <2>1
  <2>2. CASE ~Exit(e)
    BY <1>7, <2>2 DEF ClassifyPending, Goto
  <2> QED
    BY <2>1, <2>2
<1>8. CASE Decide(e)
    BY <1>8 DEF Decide, Goto
<1>9. CASE MoveCheck(e) \/ Install(e) \/ SyncDest(e) \/ RemoveCheck(e) \/ Remove(e) \/ SyncSource(e)
    BY <1>1, <1>3, <1>9 DEF MoveCheck, Install, SyncDest, RemoveCheck, Remove, SyncSource
<1>10. CASE Commit(e)
    BY <1>1, <1>10 DEF Commit
<1> QED
    BY <1>4, <1>5, <1>6, <1>7, <1>8, <1>9, <1>10 DEF Step

LEMMA NextOrigin == TypeInv /\ Origins /\ [Next]_vars => Origins'
<1> SUFFICES ASSUME TypeInv, Origins, [Next]_vars
             PROVE  Origins'
    OBVIOUS
<1>1. ASSUME NEW e \in Procs, NEW v \in Verdicts, NEW o \in Ops, Origin(e)',
             Ingest(e, o) \/ ReconcilePending(e) \/ ManualClassify(e, v) \/ Step(e) \/ Crash(e)
      PROVE  Origins'
    BY <1>1, OthersStand DEF Origins, Origin
<1> "ham" \in Verdicts /\ "sync" \in Ops /\ "import" \in Ops
    BY DEF Verdicts, Ops
<1>2. CASE \E e \in Procs : Step(e)
    BY <1>1, <1>2, StepOrigin DEF Origins
<1>3. ASSUME NEW e \in Procs, Crash(e)
      PROVE  Origin(e)'
    BY <1>3 DEF Crash, Exit, Goto, Origin, TypeInv, TypeOK, MoveSteps
<1>4. ASSUME NEW e \in Procs, NEW o \in {"sync", "import"}, o = "import" => e \in ManualProcs, Ingest(e, o)
      PROVE  Origin(e)'
    BY <1>4 DEF Ingest, Goto, Origin, TypeInv, TypeOK, MoveSteps
<1>5. ASSUME NEW e \in Procs, ReconcilePending(e)
      PROVE  Origin(e)'
    BY <1>5 DEF ReconcilePending, Goto, Origin, TypeInv, TypeOK, MoveSteps
<1>6. ASSUME NEW e \in ManualProcs, NEW v \in Verdicts, ManualClassify(e, v)
      PROVE  Origin(e)'
    BY <1>6, StoreAssumption DEF ManualClassify, Goto, Origin, TypeInv, TypeOK, MoveSteps
<1>7. CASE PowerFailure
    BY <1>7 DEF PowerFailure, Origins, Origin, MoveSteps
<1>8. CASE (\E D \in SUBSET Dirs : Damage(D)) \/ UNCHANGED vars
    BY <1>8 DEF Damage, vars, locals, Origins, Origin
<1> QED
    BY <1>1, <1>2, <1>3, <1>4, <1>5, <1>6, <1>7, <1>8, StoreAssumption DEF Next

LEMMA OriginsHold == Spec => [](TypeInv /\ Origins)
<1>1. Init => Origins
    BY DEF Init, Origins, Origin, MoveSteps
<1> QED
    BY <1>1, TypeInvHolds, NextOrigin, PTL DEF Spec

-----------------------------------------------------------------------------
(* The last intact copy.                                                   *)

\* Some tree that a classified message may be in has an intact copy.
Kept == files["mail"] = "good" \/ files["quarantine"] = "good"

\* One operator at a time overrules verdicts.  Two of them may each remove what the other one
\* has just installed.
OneOperator == \A d, e \in ManualProcs : d = e

\* What a move has hashed is intact until its source is gone, although other processes move the
\* message too.
MoveIsSafe(e) ==
    /\ pc[e] = "install" => files[Source(e)] # "bad"
    /\ pc[e] \in {"syncDest", "exists", "remove"} => Kept
    /\ pc[e] \in {"syncDest", "exists", "remove"} /\ e \in ManualProcs => files[Destination(e)] = "good"

MovesAreSafe == \A e \in Procs : MoveIsSafe(e)

LEMMA TargetIsKept ==
    ASSUME TypeInv, NEW e \in Procs, pc[e] \in MoveSteps
    PROVE  /\ Destination(e) \in {"mail", "quarantine"}
           /\ files[Destination(e)] = "good" => Kept
BY DEF TypeInv, TargetIsState, Destination, DirOf, Kept

\* A step that takes nothing away from the files leaves the moves of the others safe.
LEMMA OthersSafe ==
    ASSUME TypeInv, MovesAreSafe, NEW d \in Procs,
           pc'[d] = pc[d], snap'[d] = snap[d], target'[d] = target[d],
           \A x \in Dirs : files'[x] = files[x] \/ files'[x] = "good"
    PROVE  MoveIsSafe(d)'
<1>1. Source(d)' = Source(d) /\ Destination(d)' = Destination(d)
    BY DEF Source, Destination
<1>2. Source(d) \in Dirs /\ Destination(d) \in Dirs
    BY DirOfType DEF Source, Destination
<1>3. Kept => Kept'
    BY DEF Kept, Dirs
<1> QED
    BY <1>1, <1>2, <1>3 DEF MovesAreSafe, MoveIsSafe

LEMMA RemoveSafe ==
    ASSUME OneOperator, TypeInv, Origins, MovesAreSafe, NEW e \in Procs, Remove(e)
    PROVE  MovesAreSafe' /\ (Good # {} => Good' # {})
<1>1. pc[e] = "remove" /\ Kept /\ Destination(e) \in {"mail", "quarantine"}
    BY TargetIsKept DEF Remove, MovesAreSafe, MoveIsSafe, MoveSteps
<1>2. \A d \in Procs \ {e} : pc'[d] = pc[d] /\ snap'[d] = snap[d] /\ target'[d] = target[d]
    BY OthersStand DEF Step, Verdicts, Ops
<1>3. MoveIsSafe(e)'
  <2>1. pc'[e] \in {"syncSource", "idle", "commit"}
    BY DEF Remove, Continue, Exit, Goto, TypeInv, TypeOK
  <2> QED
    BY <2>1 DEF MoveIsSafe
<1>4. CASE UNCHANGED files
  <2>1. \A d \in Procs \ {e} : MoveIsSafe(d)'
    BY <1>2, <1>4, OthersSafe
  <2> QED
    BY <1>3, <1>4, <2>1 DEF MovesAreSafe, Good
<1>5. CASE files' # files
  <2>1. /\ Source(e) # Destination(e) /\ files[Source(e)] = "good"
        /\ files' = [files EXCEPT ![Source(e)] = "none"]
    BY <1>5 DEF Remove
  <2>2. Source(e) \in Dirs
    BY DirOfType DEF Source
  <2>3. files'[Source(e)] = "none" /\ \A x \in Dirs \ {Source(e)} : files'[x] = files[x]
    BY <2>1, <2>2 DEF TypeInv, TypeOK
  <2>4. Kept'
    <3>1. CASE Source(e) = "staging"
      BY <1>1, <2>3, <3>1 DEF Kept, Dirs
    <3>2. CASE Source(e) # "staging"
      <4>1. e \in ManualProcs
        BY <1>1, <3>2 DEF Origins, Origin, MoveSteps, Source, DirOf
      <4>2. files[Destination(e)] = "good"
        BY <1>1, <4>1 DEF MovesAreSafe, MoveIsSafe
      <4>3. files'[Destination(e)] = "good"
        BY <1>1, <2>1, <2>3, <4>2 DEF Dirs
      <4> QED
        BY <1>1, <4>3 DEF Kept
    <3> QED
      BY <3>1, <3>2
  <2>5. ASSUME NEW d \in Procs \ {e}
        PROVE  MoveIsSafe(d)'
    <3>1. Source(d)' = Source(d) /\ Destination(d)' = Destination(d) /\ pc'[d] = pc[d]
      BY <1>2 DEF Source, Destination
    <3>2. Source(d) \in Dirs
      BY DirOfType DEF Source
    <3>3. pc[d] = "install" => files'[Source(d)] # "bad"
      BY <2>3, <3>2 DEF MovesAreSafe, MoveIsSafe
    <3>4. ASSUME pc[d] \in {"syncDest", "exists", "remove"}, d \in ManualProcs
          PROVE  files'[Destination(d)] = "good"
      <4>1. files[Destination(d)] = "good" /\ Destination(d) \in {"mail", "quarantine"}
        BY <3>4, TargetIsKept DEF MovesAreSafe, MoveIsSafe, MoveSteps
      <4>2. e \notin ManualProcs
        BY <3>4 DEF OneOperator
      <4>3. Source(e) = "staging"
        BY <1>1, <4>2 DEF Origins, Origin, MoveSteps, Source, DirOf
      <4> QED
        BY <2>3, <4>1, <4>3 DEF Dirs
    <3> QED
      BY <2>4, <3>1, <3>3, <3>4 DEF MoveIsSafe
  <2>6. Good' # {}
    BY <2>4 DEF Kept, Good, Dirs
  <2> QED
    BY <1>3, <2>5, <2>6 DEF MovesAreSafe
<1> QED
    BY <1>4, <1>5

\* Every other step of a process takes no copy away.
LEMMA StepSafe ==
    ASSUME TypeInv, Origins, MovesAreSafe, NEW e \in Procs, Step(e), ~Remove(e)
    PROVE  /\ MovesAreSafe'
           /\ \A x \in Dirs : files'[x] = files[x] \/ files'[x] = "good"
<1> USE DEF TypeInv, TypeOK
<1>1. \A d \in Procs \ {e} : pc'[d] = pc[d] /\ snap'[d] = snap[d] /\ target'[d] = target[d]
    BY OthersStand DEF Verdicts, Ops
<1>2. Source(e) \in Dirs /\ Destination(e) \in Dirs
    BY DirOfType DEF Source, Destination
<1>3. ASSUME MoveIsSafe(e)', \A x \in Dirs : files'[x] = files[x] \/ files'[x] = "good"
      PROVE  MovesAreSafe'
  <2>1. \A d \in Procs \ {e} : MoveIsSafe(d)'
    BY <1>1, <1>3, OthersSafe
  <2> QED
    BY <1>3, <2>1 DEF MovesAreSafe
<1>4. ASSUME pc'[e] \notin {"install", "syncDest", "exists", "remove"}
      PROVE  MoveIsSafe(e)'
    BY <1>4 DEF MoveIsSafe
<1>5. CASE UNCHANGED files /\ pc[e] \notin {"move", "install", "syncDest", "exists"}
  <2>1. pc'[e] \notin {"install", "syncDest", "exists", "remove"}
    BY <1>5 DEF Step, CreateCheck, CreateLink, CreateSync, Register, IngestReturns, ClassifyPending,
                Decide, MoveCheck, Install, SyncDest, RemoveCheck, SyncSource, Commit, Continue, Exit, Goto
  <2> QED
    BY <1>3, <1>4, <1>5, <2>1
<1>6. CASE CreateLink(e)
  <2>1. \A x \in Dirs : files'[x] = files[x] \/ files'[x] = "good"
    BY <1>6 DEF CreateLink
  <2>2. pc'[e] \notin {"install", "syncDest", "exists", "remove"}
    BY <1>6 DEF CreateLink, Continue, Exit, Goto
  <2> QED
    BY <1>3, <1>4, <2>1, <2>2
<1>7. CASE MoveCheck(e)
  <2>1. UNCHANGED files
    BY <1>7 DEF MoveCheck, store
  <2>2. CASE Exit(e)
    BY <1>3, <1>4, <2>1, <2>2 DEF Exit, Goto
  <2>3. CASE ~Exit(e)
    <3>1. Source(e)' = Source(e) /\ Destination(e)' = Destination(e)
      BY <1>7, <2>3 DEF MoveCheck, Continue, locals, Source, Destination
    <3>2. \/ pc'[e] = "syncDest" /\ files[Destination(e)] = "good"
          \/ pc'[e] = "install" /\ files[Source(e)] = "good"
      BY <1>7, <2>3 DEF MoveCheck, Continue, Goto
    <3>3. files[Destination(e)] = "good" => Kept
      BY <1>7, TargetIsKept DEF MoveCheck, MoveSteps
    <3>4. MoveIsSafe(e)'
      BY <2>1, <3>1, <3>2, <3>3 DEF MoveIsSafe, Kept
    <3> QED
      BY <1>3, <2>1, <3>4
  <2> QED
    BY <2>2, <2>3
<1>8. CASE Install(e)
  <2>1. CASE Exit(e)
    BY <1>3, <1>4, <1>8, <2>1 DEF Install, Exit, Goto, Continue
  <2>2. CASE ~Exit(e)
    <3>1. Source(e)' = Source(e) /\ Destination(e)' = Destination(e)
      BY <1>8, <2>2 DEF Install, Continue, locals, Source, Destination
    <3>2. pc[e] = "install" /\ files[Source(e)] # "bad"
      BY <1>8 DEF Install, MovesAreSafe, MoveIsSafe
    <3>3. files'[Destination(e)] = "good" /\ \A x \in Dirs : files'[x] = files[x] \/ files'[x] = "good"
      BY <1>2, <1>8, <2>2, <3>2 DEF Install, Content
    <3>4. Kept'
      BY <3>2, <3>3, TargetIsKept DEF MoveSteps, Kept
    <3>5. pc'[e] = "syncDest"
      BY <1>8, <2>2 DEF Install, Continue, Goto
    <3>6. MoveIsSafe(e)'
      BY <3>1, <3>3, <3>4, <3>5 DEF MoveIsSafe
    <3> QED
      BY <1>3, <3>3, <3>6
  <2> QED
    BY <2>1, <2>2
<1>9. CASE SyncDest(e)
  <2>1. UNCHANGED files /\ pc[e] = "syncDest" /\ pc'[e] = "exists" /\ UNCHANGED <<snap, target>>
    BY <1>9 DEF SyncDest, Continue, Goto, locals
  <2>2. Destination(e)' = Destination(e)
    BY <2>1 DEF Destination
  <2>3. MoveIsSafe(e)'
    BY <2>1, <2>2 DEF MovesAreSafe, MoveIsSafe, Kept
  <2> QED
    BY <1>3, <2>1, <2>3
<1>11. CASE RemoveCheck(e)
  <2>1. /\ UNCHANGED files /\ pc[e] = "exists" /\ pc'[e] \in {"remove", "commit"}
        /\ UNCHANGED <<snap, target>>
    BY <1>11 DEF RemoveCheck, Continue, Goto, locals, store
  <2>2. Destination(e)' = Destination(e)
    BY <2>1 DEF Destination
  <2>3. MoveIsSafe(e)'
    BY <2>1, <2>2 DEF MovesAreSafe, MoveIsSafe, Kept
  <2> QED
    BY <1>3, <2>1, <2>3
<1>10. ASSUME ~CreateLink(e), ~MoveCheck(e), ~Install(e), ~SyncDest(e), ~RemoveCheck(e)
       PROVE  UNCHANGED files /\ pc[e] \notin {"move", "install", "syncDest", "exists"}
    BY <1>10 DEF Step, CreateCheck, CreateSync, Register, IngestReturns, ClassifyPending, Decide,
                 SyncSource, Commit, store
<1> QED
    BY <1>5, <1>6, <1>7, <1>8, <1>9, <1>10, <1>11

\* Each step leaves the moves safe, and no step but a failure takes the last copy away.
LEMMA NextSafe ==
    ASSUME OneOperator, TypeInv, Origins, MovesAreSafe, [Next]_vars
    PROVE  /\ MovesAreSafe'
           /\ damage' = damage /\ powerFailures' = powerFailures /\ Good # {} => Good' # {}
<1> USE DEF TypeInv, TypeOK
<1>1. ASSUME \A x \in Dirs : files'[x] = files[x] \/ files'[x] = "good", Good # {}
      PROVE  Good' # {}
    BY <1>1 DEF Good
<1>2. ASSUME NEW e \in Procs, Step(e)
      PROVE  MovesAreSafe' /\ (Good # {} => Good' # {})
    BY <1>1, <1>2, StepSafe, RemoveSafe
<1>3. ASSUME NEW e \in Procs, NEW v \in Verdicts, NEW o \in Ops,
             Ingest(e, o) \/ ReconcilePending(e) \/ ManualClassify(e, v) \/ Crash(e)
      PROVE  MovesAreSafe' /\ UNCHANGED files
  <2>1. UNCHANGED files /\ pc'[e] \notin {"install", "syncDest", "exists", "remove"}
    BY <1>3 DEF Ingest, ReconcilePending, ManualClassify, Crash, Exit, Goto, store
  <2>2. \A d \in Procs \ {e} : MoveIsSafe(d)'
    BY <1>3, <2>1, OthersStand, OthersSafe
  <2> QED
    BY <2>1, <2>2 DEF MovesAreSafe, MoveIsSafe
<1>4. CASE PowerFailure
  <2>1. powerFailures' # powerFailures
    BY <1>4 DEF PowerFailure
  <2> QED
    BY <1>4, <2>1 DEF PowerFailure, MovesAreSafe, MoveIsSafe
<1>5. ASSUME NEW D \in SUBSET Dirs, Damage(D)
      PROVE  MovesAreSafe' /\ damage' # damage
  <2>1. damage' # damage
    BY <1>5 DEF Damage
  <2> QED
    BY <1>5, <2>1 DEF Damage, MovesAreSafe, MoveIsSafe
<1>6. CASE UNCHANGED vars
  <2>1. \A d \in Procs : MoveIsSafe(d)'
    BY <1>6, OthersSafe DEF vars
  <2> QED
    BY <1>6, <2>1 DEF MovesAreSafe, vars, Good
<1>7. "ham" \in Verdicts /\ "sync" \in Ops /\ "import" \in Ops
    BY DEF Verdicts, Ops
<1> QED
    BY <1>1, <1>2, <1>3, <1>4, <1>5, <1>6, <1>7, StoreAssumption DEF Next, Good

\* _move_exact removes a source only after a durable destination is installed, so no step
\* takes the last intact copy away: with any number of syncs at work on the message, and
\* whatever failed before, as long as one operator at a time overrules them.
THEOREM CopiesAreKept ==
    ASSUME OneOperator
    PROVE  Spec => LastGoodCopyKept
<1>1. Init => MovesAreSafe
    BY DEF Init, MovesAreSafe, MoveIsSafe
<1>2. TypeInv /\ Origins /\ MovesAreSafe /\ [Next]_vars => MovesAreSafe'
    BY NextSafe
<1>3. TypeInv /\ Origins /\ MovesAreSafe /\ [Next]_vars
      => [damage' = damage /\ powerFailures' = powerFailures /\ Good # {} => Good' # {}]_files
    BY NextSafe
<1> QED
    BY <1>1, <1>2, <1>3, OriginsHold, PTL DEF Spec, LastGoodCopyKept

-----------------------------------------------------------------------------
(* The row and its file.                                                   *)

\* Nothing failed since the archive was set up.
Flawless == crashes = 0 /\ powerFailures = 0 /\ damage = 0

\* An operator's move has gone past its last check: it will commit an override.
OverrideIsDue == \E e \in Procs : IsManual(e) /\ pc[e] \in {"syncSource", "commit"}

\* Before any override, the row names an intact file, or the file was moved and the commit
\* that says where is due; every move that commits has an intact file to commit.
RowIsRight ==
    Flawless /\ override = "none" /\ ~OverrideIsDue =>
        /\ row.state # "none" => \/ files[DirOf(row.state)] = "good"
                                 \/ row.state = "pending" /\ \E e \in Procs : pc[e] \in {"syncSource", "commit"}
        /\ \A e \in Procs : pc[e] \in {"syncDest", "exists", "remove", "syncSource", "commit"} => files[Destination(e)] = "good"

\* Nothing is corrupt while nothing failed.
NothingBad == Flawless => \A d \in Dirs : files[d] # "bad"

\* Until a row exists nobody classifies, and what is about to be registered is staged.
Unregistered ==
    row.state = "none" =>
        \A e \in Procs : /\ pc[e] \in {"idle", "create", "link", "linkSync", "register"}
                         /\ Flawless /\ pc[e] \in {"linkSync", "register"} => files["staging"] = "good"

RowInv == RowIsRight /\ NothingBad /\ Unregistered

LEMMA InitRow == Init => RowInv
BY DEF Init, RowInv, RowIsRight, NothingBad, Unregistered, NoRow, Row, Dirs

\* Steps that change neither a file nor the row, and neither enter nor leave the end of a move.
LEMMA QuietRow ==
    ASSUME TypeInv, RowInv, NEW e \in Procs, UNCHANGED <<files, row, override>>,
           Flawless' => Flawless,
           \A d \in Procs \ {e} : /\ pc'[d] = pc[d] /\ op'[d] = op[d] /\ target'[d] = target[d],
           pc'[e] \notin {"syncDest", "exists", "remove", "syncSource", "commit"},
           pc[e] \notin {"syncSource", "commit"},
           row.state = "none" => pc'[e] \in {"idle", "create", "link"}
    PROVE  RowInv'
<1>1. ~OverrideIsDue' => ~OverrideIsDue
    BY DEF OverrideIsDue, IsManual
<1>2. \A d \in Procs \ {e} : Destination(d)' = Destination(d)
    BY DEF Destination
<1>3. \A d \in Procs : pc[d] \in {"syncSource", "commit"} => pc'[d] = pc[d]
    OBVIOUS
<1>4. RowIsRight'
    BY <1>1, <1>2, <1>3 DEF RowInv, RowIsRight
<1>5. NothingBad'
    BY DEF RowInv, NothingBad
<1>6. Unregistered'
    BY DEF RowInv, Unregistered
<1> QED
    BY <1>4, <1>5, <1>6 DEF RowInv

\* Admission stages the file before it registers the row.
LEMMA AdmitRow ==
    ASSUME TypeInv, RowInv, NEW e \in Procs,
           CreateCheck(e) \/ CreateLink(e) \/ CreateSync(e) \/ Register(e)
    PROVE  RowInv'
<1>1. \A d \in Procs \ {e} : pc'[d] = pc[d] /\ op'[d] = op[d] /\ target'[d] = target[d]
    BY OthersStand DEF Step, Verdicts, Ops
<1>2. /\ UNCHANGED <<override, crashes, powerFailures, damage>>
      /\ pc[e] \in {"create", "link", "linkSync", "register"}
      /\ pc'[e] \in {"idle", "link", "linkSync", "register", "verify"}
    BY DEF CreateCheck, CreateLink, CreateSync, Register, Continue, Exit, Goto, catalog, failures,
           TypeInv, TypeOK
<1>3. \A x \in Dirs : files'[x] = files[x] \/ files'[x] = "good"
    BY DEF CreateCheck, CreateLink, CreateSync, Register, store, TypeInv, TypeOK
<1>4. ~OverrideIsDue' => ~OverrideIsDue
    BY <1>1, <1>2 DEF OverrideIsDue, IsManual
<1>5. ASSUME NEW d \in Procs, pc'[d] \in {"syncDest", "exists", "remove", "syncSource", "commit"}
      PROVE  d # e /\ Destination(d)' = Destination(d) /\ Destination(d) \in Dirs
    BY <1>1, <1>2, <1>5, DirOfType DEF Destination
<1>6. NothingBad'
    BY <1>2, <1>3 DEF RowInv, NothingBad, Flawless
<1>7. CASE Register(e) /\ row.state = "none"
  <2>1. row'.state = "pending" /\ UNCHANGED files
    BY <1>7 DEF Register, Row, store
  <2>2. Flawless => files["staging"] = "good"
    BY <1>7 DEF Register, RowInv, Unregistered
  <2>3. RowIsRight'
    BY <1>1, <1>2, <1>3, <1>4, <1>5, <2>1, <2>2 DEF RowInv, RowIsRight, Flawless, DirOf
  <2>4. Unregistered'
    BY <2>1 DEF Unregistered
  <2> QED
    BY <1>6, <2>3, <2>4 DEF RowInv
<1>8. CASE ~(Register(e) /\ row.state = "none")
  <2>1. UNCHANGED row
    BY <1>8 DEF CreateCheck, CreateLink, CreateSync, Register, catalog
  <2>2. DirOf(row.state) \in Dirs
    BY DirOfType
  <2>3. \A d \in Procs : pc[d] \in {"syncSource", "commit"} => pc'[d] = pc[d]
    BY <1>1, <1>2
  <2>4. RowIsRight'
    BY <1>1, <1>2, <1>3, <1>4, <1>5, <2>1, <2>2, <2>3 DEF RowInv, RowIsRight, Flawless
  <2>5. ASSUME row.state = "none", Flawless, pc'[e] \in {"linkSync", "register"}
        PROVE  files'["staging"] = "good"
    BY <2>5 DEF CreateCheck, CreateLink, CreateSync, Register, Continue, Exit, Goto, store,
                TypeInv, TypeOK, RowInv, Unregistered, Dirs
  <2>6. row.state = "none" => pc'[e] # "verify"
    BY <1>8 DEF CreateCheck, CreateLink, CreateSync, Register, Continue, Exit, Goto, TypeInv, TypeOK
  <2>7. "staging" \in Dirs
    BY DEF Dirs
  <2>8. Unregistered'
    BY <1>1, <1>2, <1>3, <2>1, <2>5, <2>6, <2>7 DEF RowInv, Unregistered, Flawless
  <2> QED
    BY <1>6, <2>4, <2>8 DEF RowInv
<1> QED
    BY <1>7, <1>8

\* A move installs an intact file before it removes the source and commits.
LEMMA MoveRow ==
    ASSUME TypeInv, Origins, RowInv, NEW e \in Procs,
           MoveCheck(e) \/ Install(e) \/ SyncDest(e) \/ RemoveCheck(e) \/ Remove(e) \/ SyncSource(e)
    PROVE  RowInv'
<1>1. \A d \in Procs \ {e} : pc'[d] = pc[d] /\ op'[d] = op[d] /\ target'[d] = target[d]
    BY OthersStand DEF Step, Verdicts, Ops
<1>2. UNCHANGED <<row, override, crashes, powerFailures, damage>> /\ pc[e] \in MoveSteps
    BY DEF MoveCheck, Install, SyncDest, RemoveCheck, Remove, SyncSource, catalog, failures, MoveSteps
<1>3. row.state # "none"
    BY <1>2 DEF RowInv, Unregistered, MoveSteps
<1>4. Source(e) \in Dirs /\ Destination(e) \in {"mail", "quarantine"}
    BY <1>2, DirOfType, TargetIsKept DEF Source
<1>5. NothingBad'
  <2>1. \/ UNCHANGED files
        \/ files' = [files EXCEPT ![Destination(e)] = files[Source(e)]]
        \/ files' = [files EXCEPT ![Source(e)] = "none"]
    BY DEF MoveCheck, Install, SyncDest, RemoveCheck, Remove, SyncSource, store
  <2> QED
    BY <1>2, <1>4, <2>1 DEF RowInv, NothingBad, Flawless, TypeInv, TypeOK
<1>6. Unregistered'
    BY <1>2, <1>3 DEF Unregistered
<1>7. RowIsRight'
  <2> SUFFICES ASSUME Flawless, override = "none", ~OverrideIsDue'
               PROVE  /\ \/ files'[DirOf(row.state)] = "good"
                         \/ row.state = "pending" /\ \E d \in Procs : pc'[d] \in {"syncSource", "commit"}
                      /\ \A d \in Procs : pc'[d] \in {"syncDest", "exists", "remove", "syncSource", "commit"}
                                            => files'[Destination(d)'] = "good"
    BY <1>2 DEF RowIsRight, Flawless
  <2>1. pc[e] = "syncSource" => pc'[e] = "commit" /\ op'[e] = op[e]
    BY DEF MoveCheck, Install, SyncDest, RemoveCheck, Remove, SyncSource, Continue, Goto, locals, TypeInv, TypeOK
  <2>2. pc[e] # "commit"
    BY DEF MoveCheck, Install, SyncDest, RemoveCheck, Remove, SyncSource
  <2>3. ~OverrideIsDue
    BY <1>1, <2>1, <2>2 DEF OverrideIsDue, IsManual
  <2>4. /\ \/ files[DirOf(row.state)] = "good"
           \/ row.state = "pending" /\ \E d \in Procs : pc[d] \in {"syncSource", "commit"}
        /\ \A d \in Procs : pc[d] \in {"syncDest", "exists", "remove", "syncSource", "commit"}
                               => files[Destination(d)] = "good"
    BY <1>3, <2>3 DEF RowInv, RowIsRight
  <2>5. \A d \in Procs : pc[d] \in {"syncSource", "commit"} => pc'[d] \in {"syncSource", "commit"}
    BY <1>1, <2>1, <2>2
  <2>6. \A d \in Procs \ {e} : Destination(d)' = Destination(d)
    BY <1>1 DEF Destination
  <2>7. DirOf(row.state) \in Dirs
    BY DirOfType
  <2>8. CASE files' # files /\ Remove(e)
    <3>1. /\ Source(e) # Destination(e)
          /\ files' = [files EXCEPT ![Source(e)] = "none"]
          /\ pc'[e] = "syncSource" /\ op'[e] = op[e] /\ target'[e] = target[e] /\ pc[e] = "remove"
      BY <2>8 DEF Remove, Continue, Goto, locals, TypeInv, TypeOK
    <3>2. Source(e) = "staging"
      <4>1. op[e] # "manual"
        BY <3>1 DEF OverrideIsDue, IsManual
      <4> QED
        BY <1>2, <4>1 DEF Origins, Origin, Source, DirOf
    <3>3. \A x \in Dirs \ {"staging"} : files'[x] = files[x]
      BY <3>1, <3>2 DEF TypeInv, TypeOK
    <3>4. DirOf(row.state) = "staging" => row.state = "pending"
      BY <1>3, DirOfType DEF TypeInv, TypeOK, Rows, States
    <3>5. Destination(e)' = Destination(e)
      BY <3>1 DEF Destination
    <3>6. \A d \in Procs : pc'[d] \in {"syncDest", "exists", "remove", "syncSource", "commit"}
                              => Destination(d)' = Destination(d) /\ Destination(d) \in {"mail", "quarantine"}
                                 /\ files[Destination(d)] = "good"
      <4> SUFFICES ASSUME NEW d \in Procs, pc'[d] \in {"syncDest", "exists", "remove", "syncSource", "commit"}
                   PROVE  Destination(d)' = Destination(d) /\ Destination(d) \in {"mail", "quarantine"}
                          /\ files[Destination(d)] = "good"
        OBVIOUS
      <4>1. CASE d = e
        BY <1>4, <2>4, <3>1, <3>5, <4>1
      <4>2. CASE d # e
        BY <1>1, <2>4, <2>6, <4>2, TargetIsKept DEF MoveSteps
      <4> QED
        BY <4>1, <4>2
    <3>7. \A d \in Procs : pc'[d] \in {"syncDest", "exists", "remove", "syncSource", "commit"}
                              => files'[Destination(d)'] = "good"
      BY <3>3, <3>6 DEF Dirs
    <3> QED
      BY <2>4, <2>7, <3>1, <3>3, <3>4, <3>7
  <2>9. CASE ~(files' # files /\ Remove(e))
    <3>1. \A x \in Dirs : files'[x] = files[x] \/ files'[x] = "good"
      <4>1. CASE Install(e)
        <5>1. files[Source(e)] # "bad" /\ files[Source(e)] \in Content
          BY <1>4 DEF RowInv, NothingBad, TypeInv, TypeOK
        <5> QED
          BY <1>4, <4>1, <5>1 DEF Install, Content, TypeInv, TypeOK
      <4>2. CASE ~Install(e)
        BY <2>9, <4>2 DEF MoveCheck, SyncDest, RemoveCheck, SyncSource, store
      <4> QED
        BY <4>1, <4>2
    <3>2. ASSUME pc'[e] \in {"syncDest", "exists", "remove", "syncSource", "commit"}
          PROVE  files'[Destination(e)'] = "good"
      <4>1. ~Exit(e)
        BY <3>2 DEF Exit, Goto, TypeInv, TypeOK
      <4>2. UNCHANGED target /\ Destination(e)' = Destination(e) /\ Destination(e) \in Dirs
        BY <1>4, <4>1 DEF MoveCheck, Install, SyncDest, RemoveCheck, Remove, SyncSource, Continue, locals, Destination, Dirs
      <4>3. CASE pc[e] \in {"syncDest", "exists", "remove", "syncSource"}
        BY <2>4, <3>1, <4>2, <4>3
      <4>4. CASE MoveCheck(e)
        BY <3>1, <3>2, <4>1, <4>2, <4>4 DEF MoveCheck, Continue, Goto, TypeInv, TypeOK
      <4>5. CASE Install(e)
        <5>1. files[Source(e)] # "bad" /\ files[Source(e)] \in Content
          BY <1>4 DEF RowInv, NothingBad, TypeInv, TypeOK
        <5> QED
          BY <4>1, <4>2, <4>5, <5>1 DEF Install, Content, TypeInv, TypeOK
      <4> QED
        BY <4>3, <4>4, <4>5 DEF SyncDest, RemoveCheck, Remove, SyncSource
    <3>3. ASSUME NEW d \in Procs \ {e}, pc'[d] \in {"syncDest", "exists", "remove", "syncSource", "commit"}
          PROVE  files'[Destination(d)'] = "good"
      <4>1. Destination(d) \in Dirs
        BY DirOfType DEF Destination
      <4> QED
        BY <1>1, <2>4, <2>6, <3>1, <3>3, <4>1
    <3> QED
      BY <2>4, <2>5, <2>7, <3>1, <3>2, <3>3
  <2> QED
    BY <2>8, <2>9
<1> QED
    BY <1>5, <1>6, <1>7 DEF RowInv

LEMMA CommitRow ==
    ASSUME TypeInv, Origins, RowInv, NEW e \in Procs, Commit(e)
    PROVE  RowInv'
<1>1. \A d \in Procs \ {e} : pc'[d] = pc[d] /\ op'[d] = op[d] /\ target'[d] = target[d]
    BY OthersStand DEF Step, Verdicts, Ops
<1>2. /\ UNCHANGED <<files, crashes, powerFailures, damage>>
      /\ pc[e] = "commit" /\ pc'[e] = "idle"
    BY DEF Commit, Exit, Goto, store, failures, TypeInv, TypeOK
<1>3. target[e] \in {"archived", "quarantined"} /\ row'.state = target[e]
    BY DEF Commit, Transition, Row, TypeInv, TargetIsState, MoveSteps
<1>4. override' = "none" => override = "none" /\ ~IsManual(e)
    BY DEF Commit, Origins, Origin, MoveSteps, Verdicts
<1>5. ~IsManual(e) /\ ~OverrideIsDue' => ~OverrideIsDue
    BY <1>1 DEF OverrideIsDue, IsManual
<1>6. \A d \in Procs \ {e} : Destination(d)' = Destination(d)
    BY <1>1 DEF Destination
<1>7. RowIsRight'
    BY <1>1, <1>2, <1>3, <1>4, <1>5, <1>6 DEF RowInv, RowIsRight, Flawless, Destination
<1>8. NothingBad' /\ Unregistered'
    BY <1>2, <1>3 DEF RowInv, NothingBad, Flawless, Unregistered
<1> QED
    BY <1>7, <1>8 DEF RowInv

LEMMA NextRow == TypeInv /\ Origins /\ RowInv /\ [Next]_vars => RowInv'
<1> SUFFICES ASSUME TypeInv, Origins, RowInv, [Next]_vars
             PROVE  RowInv'
    OBVIOUS
<1>1. ASSUME NEW e \in Procs, Step(e)
      PROVE  RowInv'
  <2>1. CASE IngestReturns(e) \/ ClassifyPending(e) \/ Decide(e)
    <3>1. \A d \in Procs \ {e} : pc'[d] = pc[d] /\ op'[d] = op[d] /\ target'[d] = target[d]
      BY <1>1, OthersStand DEF Verdicts, Ops
    <3>2. /\ UNCHANGED <<files, row, override, crashes, powerFailures, damage>>
          /\ pc[e] \in {"verify", "classify", "decide"}
          /\ pc'[e] \in {"classify", "decide", "move", "idle"}
      BY <2>1 DEF IngestReturns, ClassifyPending, Decide, Continue, Exit, Goto, store, catalog,
                  failures, TypeInv, TypeOK
    <3>3. row.state # "none"
      BY <3>2 DEF RowInv, Unregistered
    <3> QED
      BY <3>1, <3>2, <3>3, QuietRow DEF Flawless
  <2> QED
    BY <1>1, <2>1, AdmitRow, MoveRow, CommitRow DEF Step
<1>2. ASSUME NEW e \in Procs, NEW v \in Verdicts, NEW o \in Ops,
             Ingest(e, o) \/ ReconcilePending(e) \/ ManualClassify(e, v)
      PROVE  RowInv'
  <2>1. \A d \in Procs \ {e} : pc'[d] = pc[d] /\ op'[d] = op[d] /\ target'[d] = target[d]
    BY <1>2, OthersStand
  <2>2. /\ UNCHANGED <<files, row, override, crashes, powerFailures, damage>>
        /\ pc[e] = "idle" /\ pc'[e] \in {"create", "register", "classify", "decide"}
        /\ row.state = "none" => pc'[e] = "create"
    BY <1>2 DEF Ingest, ReconcilePending, ManualClassify, Goto, store, catalog, failures,
                TypeInv, TypeOK
  <2> QED
    BY <2>1, <2>2, QuietRow DEF Flawless
<1>3. ASSUME NEW e \in Procs, Crash(e)
      PROVE  RowInv'
  <2>1. ~Flawless' /\ UNCHANGED row
    BY <1>3 DEF Crash, Flawless, catalog, TypeInv, TypeOK
  <2>2. pc'[e] = "idle" /\ \A d \in Procs \ {e} : pc'[d] = pc[d]
    BY <1>3, ExitFacts DEF Crash
  <2> QED
    BY <2>1, <2>2 DEF RowInv, RowIsRight, NothingBad, Unregistered
<1>4. CASE PowerFailure
  <2>1. ~Flawless' /\ \A d \in Procs : pc'[d] = "idle"
    BY <1>4 DEF PowerFailure, Flawless, TypeInv, TypeOK
  <2> QED
    BY <2>1 DEF RowInv, RowIsRight, NothingBad, Unregistered
<1>5. ASSUME NEW D \in SUBSET Dirs, Damage(D)
      PROVE  RowInv'
  <2>1. ~Flawless' /\ UNCHANGED <<row, pc>>
    BY <1>5 DEF Damage, Flawless, catalog, TypeInv, TypeOK
  <2> QED
    BY <2>1 DEF RowInv, RowIsRight, NothingBad, Unregistered
<1>6. CASE UNCHANGED vars
  <2>1. \A d \in Procs : Destination(d)' = Destination(d)
    BY <1>6 DEF vars, Destination
  <2> QED
    BY <1>6, <2>1 DEF vars, RowInv, RowIsRight, NothingBad, Unregistered, OverrideIsDue, IsManual,
                      Flawless
<1>7. "ham" \in Verdicts /\ "sync" \in Ops /\ "import" \in Ops
    BY DEF Verdicts, Ops
<1> QED
    BY <1>1, <1>2, <1>3, <1>4, <1>5, <1>6, <1>7, StoreAssumption DEF Next

\* canonical_messages.local_path names the intact file whenever nobody is at work, as long as
\* nothing failed and nobody overruled a verdict: for any number of syncs, imports and
\* reconciliations that moved the message at the same time (classification.py,
\* apply_classification, which takes no lock).
THEOREM RowNamesItsFile == Spec => []RowPointsToBytes
<1>1. TypeInv /\ RowInv => RowPointsToBytes
  <2> SUFFICES ASSUME TypeInv, RowInv, Idle, override = "none",
                      crashes + powerFailures + damage = 0, row.state # "none"
               PROVE  files[DirOf(row.state)] = "good"
    BY DEF RowPointsToBytes
  <2>1. Flawless
    BY DEF Flawless, TypeInv, TypeOK
  <2>2. ~OverrideIsDue /\ \A e \in Procs : pc[e] = "idle"
    BY DEF OverrideIsDue, Idle
  <2> QED
    BY <2>1, <2>2 DEF RowInv, RowIsRight
<1> QED
    BY <1>1, InitRow, NextRow, OriginsHold, PTL DEF Spec

-----------------------------------------------------------------------------
(* One process at a time.                                                  *)

\* The archive is used by one process at a time; nothing below holds for two.
OneProcess == \A d, e \in Procs : d = e

\* What an operation read is still so: it admits a message without a row, or moves the message
\* of the row to where its verdict says.
SnapIsFresh ==
    \A e \in Procs :
        /\ pc[e] \in {"create", "link", "linkSync"} => row.state = "none"
        /\ pc[e] \in MoveSteps \cup {"verify", "classify", "decide"} => snap[e] = row /\ row.state # "none"
        /\ pc[e] \in MoveSteps => target[e] = StateOf(verdict[e])

\* A message without a verdict has no override.
UnclassifiedRow ==
    /\ row.state = "none" => row = NoRow
    /\ row.state \in {"none", "pending"} => override = "none"

\* While nothing failed, mail/ holds the message only if it is archived, or on its way there.
MailIsArchived ==
    Flawless /\ files["mail"] # "none" =>
        \/ row.state = "archived" /\ \A e \in Procs : pc[e] \in {"syncSource", "commit"} => Destination(e) = "mail"
        \/ \E e \in Procs : pc[e] \in {"syncDest", "exists", "remove", "syncSource", "commit"} /\ Destination(e) = "mail"

\* The source that exists() saw is there when it is unlinked.
SourceIsThere == \A e \in Procs : pc[e] = "remove" => files[Source(e)] # "none"

SerialInv == SnapIsFresh /\ UnclassifiedRow /\ MailIsArchived /\ SourceIsThere

\* No process died and nothing was corrupted; the power may have failed.
Healthy == crashes = 0 /\ damage = 0

\* The entries that are not yet synced are those of the step under way.
Unsynced(d) ==
    \E e \in Procs : \/ pc[e] = "linkSync" /\ d = "staging"
                     \/ pc[e] = "syncDest" /\ d = Destination(e)
                     \/ pc[e] = "syncSource" /\ d = Source(e)

DiskInv ==
    Healthy =>
        /\ \A d \in Dirs : files[d] # "bad" /\ disk[d] # "bad" /\ (files[d] = disk[d] \/ Unsynced(d))
        /\ \A e \in Procs : /\ pc[e] \in {"syncDest", "exists", "remove"} => files[Destination(e)] = "good"
                            /\ pc[e] = "linkSync" => files["staging"] = "good"
                            /\ pc[e] = "register" /\ row.state = "none" =>
                                   files["staging"] = "good" /\ disk["staging"] = "good"
        /\ row.state # "none" => \E d \in Dirs : files[d] = "good" /\ disk[d] = "good"

\* What a step of the only process does to its snapshot and the row.
LEMMA SerialStep ==
    ASSUME OneProcess, TypeInv, Origins, SnapIsFresh, UnclassifiedRow, NEW e \in Procs, Step(e)
    PROVE  SnapIsFresh' /\ UnclassifiedRow'
<1> USE DEF TypeInv, TypeOK, MoveSteps
<1>1. ASSUME UNCHANGED <<row, override>>, pc'[e] = "idle"
      PROVE  SnapIsFresh' /\ UnclassifiedRow'
    BY <1>1 DEF OneProcess, SnapIsFresh, UnclassifiedRow
<1>2. ASSUME NEW label \in MoveSteps, Continue(e, label), pc[e] \in MoveSteps, UNCHANGED <<row, override>>
      PROVE  SnapIsFresh' /\ UnclassifiedRow'
    BY <1>2 DEF OneProcess, SnapIsFresh, UnclassifiedRow, Continue, Goto, locals
<1>3. CASE CreateCheck(e) \/ CreateLink(e) \/ CreateSync(e)
  <2>1. UNCHANGED <<row, override>>
    BY <1>3 DEF CreateCheck, CreateLink, CreateSync, catalog
  <2>2. pc[e] \in {"create", "link", "linkSync"} /\ pc'[e] \in {"idle", "link", "linkSync", "register"}
    BY <1>3 DEF CreateCheck, CreateLink, CreateSync, Continue, Exit, Goto
  <2> QED
    BY <2>1, <2>2 DEF OneProcess, SnapIsFresh, UnclassifiedRow
<1>4. CASE Register(e)
  <2>1. pc'[e] = "verify" /\ snap'[e] = row' /\ UNCHANGED override
    BY <1>4 DEF Register, Goto
  <2>2. row'.state # "none" /\ (row'.state = "pending" => override = "none")
    BY <1>4 DEF Register, Row, UnclassifiedRow
  <2> QED
    BY <2>1, <2>2 DEF OneProcess, SnapIsFresh, UnclassifiedRow
<1>5. CASE IngestReturns(e) \/ ClassifyPending(e)
  <2>1. UNCHANGED <<row, override>> /\ pc[e] \in {"verify", "classify"}
    BY <1>5 DEF IngestReturns, ClassifyPending, catalog
  <2>2. CASE Exit(e)
    BY <1>1, <2>1, <2>2 DEF Exit, Goto
  <2>3. CASE ~Exit(e)
    <3>1. pc'[e] \in {"classify", "decide"} /\ snap'[e] = snap[e]
      BY <1>5, <2>3 DEF IngestReturns, ClassifyPending, Continue, Goto, locals
    <3> QED
      BY <2>1, <3>1 DEF OneProcess, SnapIsFresh, UnclassifiedRow
  <2> QED
    BY <2>2, <2>3
<1>6. CASE Decide(e)
  <2>1. Decided(e) = verdict[e]
    BY <1>6 DEF Decide, Decided, IsManual, Origins, Origin, SnapIsFresh, UnclassifiedRow
  <2>2. /\ pc[e] = "decide" /\ pc'[e] = "move" /\ target'[e] = StateOf(verdict[e])
        /\ UNCHANGED <<row, override, snap, verdict>>
    BY <1>6, <2>1 DEF Decide, Goto, catalog
  <2> QED
    BY <2>2 DEF OneProcess, SnapIsFresh, UnclassifiedRow
<1>7. CASE MoveCheck(e) \/ Install(e) \/ SyncDest(e) \/ RemoveCheck(e) \/ Remove(e) \/ SyncSource(e)
  <2>1. UNCHANGED <<row, override>>
    BY <1>7 DEF MoveCheck, Install, SyncDest, RemoveCheck, Remove, SyncSource, catalog
  <2>2. CASE Exit(e)
    BY <1>1, <2>1, <2>2 DEF Exit, Goto
  <2>3. CASE ~Exit(e)
    BY <1>2, <1>7, <2>1, <2>3 DEF MoveCheck, Install, SyncDest, RemoveCheck, Remove, SyncSource
  <2> QED
    BY <2>2, <2>3
<1>8. CASE Commit(e)
  <2>1. target[e] \in {"archived", "quarantined"} /\ row'.state = target[e] /\ pc'[e] = "idle"
    BY <1>8 DEF Commit, Transition, Row, TargetIsState, Exit, Goto
  <2> QED
    BY <2>1 DEF OneProcess, SnapIsFresh, UnclassifiedRow
<1> QED
    BY <1>3, <1>4, <1>5, <1>6, <1>7, <1>8 DEF Step

LEMMA SerialMail ==
    ASSUME OneProcess, TypeInv, SnapIsFresh, MailIsArchived, SourceIsThere, NothingBad,
           NEW e \in Procs, Step(e)
    PROVE  MailIsArchived'
<1> USE DEF TypeInv, TypeOK
<1>1. UNCHANGED <<crashes, powerFailures, damage>>
    BY DEF Step, CreateCheck, CreateLink, CreateSync, Register, IngestReturns, ClassifyPending, Decide,
           MoveCheck, Install, SyncDest, RemoveCheck, Remove, SyncSource, Commit, failures
<1> SUFFICES ASSUME Flawless, files'["mail"] # "none"
             PROVE  \/ /\ row'.state = "archived"
                       /\ pc'[e] \in {"syncSource", "commit"} => Destination(e)' = "mail"
                    \/ pc'[e] \in {"syncDest", "exists", "remove", "syncSource", "commit"} /\ Destination(e)' = "mail"
    BY <1>1 DEF MailIsArchived, Flawless, OneProcess
<1> DEFINE MailKept == \/ /\ row.state = "archived"
                          /\ pc[e] \in {"syncSource", "commit"} => Destination(e) = "mail"
                       \/ pc[e] \in {"syncDest", "exists", "remove", "syncSource", "commit"} /\ Destination(e) = "mail"
<1>2. files["mail"] # "none" => MailKept
    BY DEF MailIsArchived, OneProcess
<1>3. CASE CreateCheck(e) \/ CreateLink(e) \/ CreateSync(e) \/ Register(e)
  <2>1. files'["mail"] = files["mail"]
    BY <1>3 DEF CreateCheck, CreateLink, CreateSync, Register, store, Dirs
  <2>2. row.state # "none" => UNCHANGED row
    BY <1>3 DEF CreateCheck, CreateLink, CreateSync, Register, catalog
  <2>3. /\ pc[e] \notin {"syncDest", "exists", "remove", "syncSource", "commit"}
        /\ pc'[e] \notin {"syncDest", "exists", "remove", "syncSource", "commit"}
    BY <1>3 DEF CreateCheck, CreateLink, CreateSync, Register, Continue, Exit, Goto
  <2> QED
    BY <1>2, <2>1, <2>2, <2>3
<1>4. CASE IngestReturns(e) \/ ClassifyPending(e) \/ Decide(e)
  <2>1. UNCHANGED <<files, row>>
    BY <1>4 DEF IngestReturns, ClassifyPending, Decide, store, catalog
  <2>2. /\ pc[e] \notin {"syncDest", "exists", "remove", "syncSource", "commit"}
        /\ pc'[e] \notin {"syncDest", "exists", "remove", "syncSource", "commit"}
    BY <1>4 DEF IngestReturns, ClassifyPending, Decide, Continue, Exit, Goto
  <2> QED
    BY <1>2, <2>1, <2>2
<1>5. ASSUME pc[e] \in MoveSteps
      PROVE  Source(e) = DirOf(row.state) /\ (Source(e) = "mail" <=> row.state = "archived")
    BY <1>5 DEF SnapIsFresh, Source, DirOf
<1>6. CASE MoveCheck(e) \/ Install(e)
  <2>1. UNCHANGED row /\ pc[e] \in {"move", "install"}
    BY <1>6 DEF MoveCheck, Install, catalog, store
  <2>2. pc'[e] \in {"idle", "install", "syncDest"}
    BY <1>6 DEF MoveCheck, Install, Continue, Exit, Goto
  <2>3. CASE files'["mail"] = files["mail"]
    BY <1>2, <2>1, <2>2, <2>3
  <2>4. CASE files'["mail"] # files["mail"]
    <3>1. files' = [files EXCEPT ![Destination(e)] = files[Source(e)]] /\ Continue(e, "syncDest")
      BY <1>6, <2>4 DEF MoveCheck, Install, store
    <3>2. Destination(e) = "mail" /\ pc'[e] = "syncDest" /\ UNCHANGED target
      BY <2>4, <3>1 DEF Continue, Goto, locals, Dirs
    <3> QED
      BY <3>2 DEF Destination
  <2> QED
    BY <2>3, <2>4
<1>7. CASE SyncDest(e) \/ SyncSource(e)
  <2>1. UNCHANGED <<files, row, target>>
    BY <1>7 DEF SyncDest, SyncSource, Continue, locals, catalog
  <2>2. (pc[e] = "syncDest" /\ pc'[e] = "exists") \/ (pc[e] = "syncSource" /\ pc'[e] = "commit")
    BY <1>7 DEF SyncDest, SyncSource, Continue, Goto
  <2> QED
    BY <1>2, <2>1, <2>2 DEF Destination
<1>10. CASE RemoveCheck(e)
  <2>1. UNCHANGED <<files, row, target>> /\ pc[e] = "exists" /\ pc'[e] \in {"remove", "commit"}
    BY <1>10 DEF RemoveCheck, Continue, Goto, locals, catalog, store
  <2>2. Destination(e)' = Destination(e)
    BY <2>1 DEF Destination
  <2>3. CASE Destination(e) = "mail"
    BY <2>1, <2>2, <2>3
  <2>4. CASE Destination(e) # "mail"
    <3>1. row.state = "archived" /\ Source(e) = "mail"
      BY <1>2, <1>5, <2>1, <2>4 DEF MoveSteps
    <3>2. pc'[e] = "remove"
      BY <1>10, <2>1, <2>4, <3>1 DEF RemoveCheck, Continue, Goto
    <3> QED
      BY <2>1, <3>1, <3>2
  <2> QED
    BY <2>3, <2>4
<1>8. CASE Remove(e)
  <2>1. pc[e] = "remove" /\ UNCHANGED row /\ Source(e) \in Dirs
    BY <1>8, DirOfType DEF Remove, catalog, Source
  <2>2. files[Source(e)] = "good"
    BY <2>1 DEF NothingBad, SourceIsThere, Content
  <2>3. UNCHANGED target /\ pc'[e] \in {"syncSource", "commit"} /\ Destination(e)' = Destination(e)
    BY <1>8, <2>2 DEF Remove, Continue, Goto, locals, Destination
  <2>4. CASE Destination(e) = "mail"
    BY <2>3, <2>4
  <2>5. CASE Destination(e) # "mail"
    <3>1. files'["mail"] = files["mail"] \/ files'["mail"] = "none"
      BY <1>8, <2>1 DEF Remove, Dirs
    <3>2. row.state = "archived" /\ Source(e) = "mail"
      BY <1>2, <1>5, <2>1, <2>5, <3>1 DEF MoveSteps
    <3>3. files'["mail"] = "none"
      BY <1>8, <2>2, <2>5, <3>2 DEF Remove, Dirs
    <3> QED
      BY <3>3
  <2> QED
    BY <2>4, <2>5
<1>9. CASE Commit(e)
  <2>1. UNCHANGED files /\ pc[e] = "commit" /\ pc'[e] = "idle"
    BY <1>9 DEF Commit, store, Exit, Goto
  <2>2. row'.state = target[e] /\ target[e] \in {"archived", "quarantined"}
    BY <1>9 DEF Commit, Transition, Row, TargetIsState, MoveSteps
  <2>3. Destination(e) = "mail"
    BY <1>2, <2>1
  <2> QED
    BY <2>1, <2>2, <2>3 DEF Destination, DirOf
<1> QED
    BY <1>3, <1>4, <1>6, <1>7, <1>8, <1>9, <1>10 DEF Step

\* A process about to unlink has seen the file, and nobody else removes one.
LEMMA SerialSource ==
    ASSUME OneProcess, TypeInv, NEW e \in Procs, Step(e)
    PROVE  SourceIsThere'
<1> SUFFICES ASSUME pc'[e] = "remove"
             PROVE  files'[Source(e)'] # "none"
    BY DEF SourceIsThere, OneProcess
<1>1. RemoveCheck(e)
    BY DEF Step, CreateCheck, CreateLink, CreateSync, Register, IngestReturns, ClassifyPending, Decide,
           MoveCheck, Install, SyncDest, Remove, SyncSource, Commit, Continue, Exit, Goto, TypeInv, TypeOK
<1>2. UNCHANGED <<files, snap>> /\ files[Source(e)] # "none"
    BY <1>1 DEF RemoveCheck, Continue, Goto, locals, store, TypeInv, TypeOK
<1> QED
    BY <1>2 DEF Source

LEMMA NextSerial ==
    ASSUME OneProcess, TypeInv, Origins, RowInv, SerialInv, [Next]_vars
    PROVE  SerialInv'
<1> USE DEF TypeInv, TypeOK
<1>1. ASSUME NEW e \in Procs, Step(e)
      PROVE  SerialInv'
    BY <1>1, SerialStep, SerialMail, SerialSource DEF SerialInv, RowInv
<1>2. ASSUME NEW e \in Procs, NEW v \in Verdicts, NEW o \in Ops,
             Ingest(e, o) \/ ReconcilePending(e) \/ ManualClassify(e, v)
      PROVE  SerialInv'
  <2>1. UNCHANGED <<files, row, override, crashes, powerFailures, damage>>
    BY <1>2 DEF Ingest, ReconcilePending, ManualClassify, store, catalog, failures
  <2>2. /\ pc[e] = "idle" /\ pc'[e] \in {"create", "register", "classify", "decide"}
        /\ pc'[e] = "create" <=> row.state = "none"
        /\ pc'[e] \in {"classify", "decide"} => snap'[e] = row
    BY <1>2 DEF Ingest, ReconcilePending, ManualClassify, Goto
  <2>3. SnapIsFresh' /\ UnclassifiedRow'
    BY <2>1, <2>2 DEF OneProcess, SerialInv, SnapIsFresh, UnclassifiedRow, MoveSteps
  <2>4. MailIsArchived'
    BY <2>1, <2>2 DEF OneProcess, SerialInv, MailIsArchived, Flawless
  <2>5. SourceIsThere'
    BY <2>2 DEF OneProcess, SourceIsThere
  <2> QED
    BY <2>3, <2>4, <2>5 DEF SerialInv
<1>3. ASSUME NEW e \in Procs, Crash(e)
      PROVE  SerialInv'
  <2>1. ~Flawless' /\ UNCHANGED <<row, override>> /\ pc'[e] = "idle"
    BY <1>3 DEF Crash, Flawless, catalog, Exit, Goto
  <2> QED
    BY <2>1 DEF OneProcess, SerialInv, SnapIsFresh, UnclassifiedRow, MailIsArchived, SourceIsThere,
                MoveSteps
<1>4. CASE PowerFailure
  <2>1. ~Flawless' /\ UNCHANGED <<row, override>> /\ \A e \in Procs : pc'[e] = "idle"
    BY <1>4 DEF PowerFailure, Flawless, catalog
  <2> QED
    BY <2>1 DEF SerialInv, SnapIsFresh, UnclassifiedRow, MailIsArchived, SourceIsThere, MoveSteps
<1>5. CASE \E D \in SUBSET Dirs : Damage(D)
  <2>1. /\ ~Flawless' /\ UNCHANGED <<row, override, pc, snap, verdict, target>>
        /\ \A e \in Procs : pc[e] # "remove"
    BY <1>5 DEF Damage, Flawless, catalog, locals
  <2> QED
    BY <2>1 DEF SerialInv, SnapIsFresh, UnclassifiedRow, MailIsArchived, SourceIsThere, MoveSteps
<1>6. CASE UNCHANGED vars
  <2>1. \A e \in Procs : Destination(e)' = Destination(e) /\ Source(e)' = Source(e)
    BY <1>6 DEF vars, Destination, Source
  <2> QED
    BY <1>6, <2>1 DEF vars, SerialInv, SnapIsFresh, UnclassifiedRow, MailIsArchived, SourceIsThere,
                      MoveSteps, Flawless
<1>7. "ham" \in Verdicts /\ "sync" \in Ops /\ "import" \in Ops
    BY DEF Verdicts, Ops
<1> QED
    BY <1>1, <1>2, <1>3, <1>4, <1>5, <1>6, <1>7, StoreAssumption DEF Next

LEMMA SerialHolds ==
    ASSUME OneProcess
    PROVE  Spec => [](TypeInv /\ Origins /\ RowInv /\ SerialInv)
<1>1. Init => SerialInv
    BY DEF Init, SerialInv, SnapIsFresh, UnclassifiedRow, MailIsArchived, SourceIsThere, MoveSteps,
           NoRow, Row, Dirs
<1>2. TypeInv /\ Origins /\ RowInv /\ SerialInv /\ [Next]_vars => SerialInv'
    BY NextSerial
<1> QED
    BY <1>1, <1>2, InitRow, NextRow, OriginsHold, PTL DEF Spec

\* While one process at a time works and nothing failed, mail/, the tree that ordinary searches
\* index, holds no message whose row says quarantined: an override that takes a message out of
\* the archive has removed its file when apply_classification returns.
THEOREM QuarantineStaysSeparate ==
    ASSUME OneProcess
    PROVE  Spec => []QuarantineIsSeparate
<1>1. TypeInv /\ SerialInv => QuarantineIsSeparate
  <2> SUFFICES ASSUME TypeInv, SerialInv, Idle, crashes + powerFailures + damage = 0,
                      row.state = "quarantined"
               PROVE  files["mail"] = "none"
    BY DEF QuarantineIsSeparate
  <2>1. Flawless
    BY DEF Flawless, TypeInv, TypeOK
  <2> QED
    BY <2>1 DEF SerialInv, MailIsArchived, Idle
<1> QED
    BY <1>1, SerialHolds, PTL

\* A step of the only process is one of the lifecycle's, or leaves the lifecycle alone.
LEMMA StepRefines ==
    ASSUME OneProcess, TypeInv, Origins, SerialInv, NEW e \in Procs, Step(e)
    PROVE  [Lifecycle!Next]_(Lifecycle!lifecycleVars)
<1> USE DEF Lifecycle!Next, Lifecycle!lifecycleVars
<1>1. CASE Register(e)
  <2>1. CASE row.state = "none"
    <3>1. row = NoRow /\ row' = Row("pending", FALSE, FALSE) /\ UNCHANGED override
      BY <1>1, <2>1 DEF Register, SerialInv, UnclassifiedRow
    <3> QED
      BY <3>1 DEF Lifecycle!Admit, NoRow, Row
  <2>2. CASE row.state # "none"
    BY <1>1, <2>2 DEF Register
  <2> QED
    BY <2>1, <2>2
<1>2. CASE Commit(e)
  <2>1. /\ pc[e] = "commit" /\ snap[e] = row /\ target[e] = StateOf(verdict[e]) /\ verdict[e] \in Verdicts
        /\ row.state # "none"
    BY <1>2 DEF Commit, SerialInv, SnapIsFresh, MoveSteps, Origins, Origin
  <2>2. /\ row'.state = StateOf(verdict[e])
        /\ row'.archivedAt = (row.archivedAt \/ row'.state = "archived")
    BY <1>2, <2>1 DEF Commit, Transition, Row
  <2>3. Lifecycle!Settle(verdict[e])
    BY <2>2 DEF Lifecycle!Settle, Lifecycle!Verdict2State, StateOf
  <2>4. CASE IsManual(e)
    <3>1. Lifecycle!Overrule(verdict[e])
      BY <1>2, <2>1, <2>3, <2>4 DEF Commit, Lifecycle!Overrule
    <3> QED
      BY <2>1, <3>1
  <2>5. CASE ~IsManual(e)
    <3>1. row.state = "pending" /\ override = "none" /\ UNCHANGED override
      BY <1>2, <2>1, <2>5 DEF Commit, IsManual, Origins, Origin, MoveSteps, SerialInv, UnclassifiedRow
    <3>2. Lifecycle!Classify(verdict[e])
      BY <2>3, <3>1 DEF Lifecycle!Classify
    <3> QED
      BY <2>1, <3>2
  <2> QED
    BY <2>4, <2>5
<1>3. CASE ~Register(e) /\ ~Commit(e)
  <2>1. UNCHANGED <<row, override>>
    BY <1>3 DEF Step, CreateCheck, CreateLink, CreateSync, IngestReturns, ClassifyPending, Decide,
                MoveCheck, Install, SyncDest, RemoveCheck, Remove, SyncSource, catalog
  <2> QED
    BY <2>1
<1> QED
    BY <1>1, <1>2, <1>3

\* Ingest and classification, system call by system call, with crashes, power failures and
\* corrupted files between them, implement the lifecycle that an operator is promised, as long
\* as one process at a time works on the message.  Two processes do not: each writes back the
\* dates and the state of the CanonicalMessage it read (apply_classification).
THEOREM LifecycleIsImplemented ==
    ASSUME OneProcess
    PROVE  Spec => ImplementsLifecycle
<1>1. Init => Lifecycle!Init
    BY DEF Init, Lifecycle!Init, NoRow, Row
<1>2. TypeInv /\ Origins /\ RowInv /\ SerialInv /\ [Next]_vars => [Lifecycle!Next]_(Lifecycle!lifecycleVars)
  <2> SUFFICES ASSUME TypeInv, Origins, SerialInv, [Next]_vars
               PROVE  [Lifecycle!Next]_(Lifecycle!lifecycleVars)
    OBVIOUS
  <2>1. CASE \E e \in Procs : Step(e)
    BY <2>1, StepRefines
  <2>2. CASE UNCHANGED <<row, override>>
    BY <2>2 DEF Lifecycle!lifecycleVars
  <2>3. ASSUME ~\E e \in Procs : Step(e)
        PROVE  UNCHANGED <<row, override>>
    BY <2>3 DEF Next, Ingest, ReconcilePending, ManualClassify, Crash, PowerFailure, Damage, vars, catalog
  <2> QED
    BY <2>1, <2>2, <2>3
<1> QED
    BY <1>1, <1>2, SerialHolds, PTL DEF Spec, ImplementsLifecycle, Lifecycle!Spec

-----------------------------------------------------------------------------
(* Durability, one process at a time.                                      *)

\* DiskInv, read for the only process.
LEMMA DiskFacts ==
    ASSUME OneProcess, TypeInv, DiskInv, Healthy, NEW e \in Procs
    PROVE  /\ \A d \in Dirs : files[d] # "bad" /\ disk[d] # "bad"
           /\ \A d \in Dirs : \/ files[d] = disk[d]
                              \/ pc[e] = "linkSync" /\ d = "staging"
                              \/ pc[e] = "syncDest" /\ d = Destination(e)
                              \/ pc[e] = "syncSource" /\ d = Source(e)
           /\ pc[e] \in {"syncDest", "exists", "remove"} => files[Destination(e)] = "good"
           /\ pc[e] = "linkSync" => files["staging"] = "good"
           /\ pc[e] = "register" /\ row.state = "none" => files["staging"] = "good" /\ disk["staging"] = "good"
           /\ row.state # "none" => \E d \in Dirs : files[d] = "good" /\ disk[d] = "good"
BY DEF OneProcess, DiskInv, Unsynced

LEMMA DiskFromFacts ==
    ASSUME OneProcess, NEW e \in Procs,
           \A d \in Dirs : files'[d] # "bad" /\ disk'[d] # "bad",
           \A d \in Dirs : \/ files'[d] = disk'[d]
                           \/ pc'[e] = "linkSync" /\ d = "staging"
                           \/ pc'[e] = "syncDest" /\ d = Destination(e)'
                           \/ pc'[e] = "syncSource" /\ d = Source(e)',
           pc'[e] \in {"syncDest", "exists", "remove"} => files'[Destination(e)'] = "good",
           pc'[e] = "linkSync" => files'["staging"] = "good",
           pc'[e] = "register" /\ row'.state = "none" => files'["staging"] = "good" /\ disk'["staging"] = "good",
           row'.state # "none" => \E d \in Dirs : files'[d] = "good" /\ disk'[d] = "good"
    PROVE  DiskInv'
<1>1. \A d \in Dirs : files'[d] = disk'[d] \/ Unsynced(d)'
    BY DEF Unsynced
<1>2. \A d \in Procs : d = e
    BY DEF OneProcess
<1> QED
    BY <1>1, <1>2 DEF DiskInv

LEMMA StepDisk ==
    ASSUME OneProcess, TypeInv, SerialInv, DiskInv, NEW e \in Procs, Step(e)
    PROVE  DiskInv'
<1> USE DEF TypeInv, TypeOK
<1>1. UNCHANGED <<crashes, powerFailures, damage>>
    BY DEF Step, CreateCheck, CreateLink, CreateSync, Register, IngestReturns, ClassifyPending, Decide,
           MoveCheck, Install, SyncDest, RemoveCheck, Remove, SyncSource, Commit, failures
<1>2. CASE ~Healthy
    BY <1>1, <1>2 DEF Healthy, DiskInv
<1>3. CASE Healthy
  <2> USE <1>3, DiskFacts
  <2>1. Source(e) \in Dirs /\ Destination(e) \in Dirs /\ "staging" \in Dirs
    BY DirOfType DEF Source, Destination, Dirs
  <2>2. ASSUME UNCHANGED <<files, disk>>, row'.state # "none" => row.state # "none",
               pc[e] \notin {"linkSync", "syncDest", "syncSource"},
               pc'[e] \notin {"linkSync", "syncDest", "exists", "remove", "register"}
        PROVE  DiskInv'
    BY <2>2, DiskFromFacts
  <2>3. CASE CreateCheck(e)
    <3>1. UNCHANGED <<files, disk, row>> /\ pc[e] = "create"
      BY <2>3 DEF CreateCheck, store, catalog
    <3>2. pc'[e] \in {"idle", "register", "link"} /\ (pc'[e] = "register" => files["staging"] = "good")
      BY <2>3 DEF CreateCheck, Continue, Exit, Goto
    <3> QED
      BY <2>1, <3>1, <3>2, DiskFromFacts
  <2>4. CASE CreateLink(e)
    <3>1. UNCHANGED <<disk, row>> /\ pc[e] = "link" /\ files["staging"] # "bad"
      BY <2>1, <2>4 DEF CreateLink, catalog
    <3>2. files' = [files EXCEPT !["staging"] = "good"] /\ pc'[e] = "linkSync"
      BY <2>4, <3>1 DEF CreateLink, Continue, Goto
    <3>3. row.state = "none"
      BY <3>1 DEF SerialInv, SnapIsFresh
    <3> QED
      BY <2>1, <3>1, <3>2, <3>3, DiskFromFacts
  <2>5. CASE CreateSync(e)
    <3>1. UNCHANGED <<files, row>> /\ pc[e] = "linkSync" /\ pc'[e] = "register"
      BY <2>5 DEF CreateSync, catalog, Continue, Goto
    <3>2. disk' = [disk EXCEPT !["staging"] = files["staging"]]
      BY <2>5 DEF CreateSync
    <3>3. row.state = "none"
      BY <3>1 DEF SerialInv, SnapIsFresh
    <3> QED
      BY <2>1, <3>1, <3>2, <3>3, DiskFromFacts
  <2>6. CASE Register(e)
    <3>1. UNCHANGED <<files, disk>> /\ pc[e] = "register" /\ pc'[e] = "verify"
      BY <2>6 DEF Register, store, Goto
    <3>2. \E d \in Dirs : files[d] = "good" /\ disk[d] = "good"
      BY <2>1, <3>1
    <3> QED
      BY <3>1, <3>2, DiskFromFacts
  <2>7. CASE IngestReturns(e) \/ ClassifyPending(e) \/ Decide(e)
    <3>1. UNCHANGED <<files, disk, row>> /\ pc[e] \in {"verify", "classify", "decide"}
      BY <2>7 DEF IngestReturns, ClassifyPending, Decide, store, catalog
    <3>2. pc'[e] \in {"idle", "classify", "decide", "move"}
      BY <2>7 DEF IngestReturns, ClassifyPending, Decide, Continue, Exit, Goto
    <3> QED
      BY <2>2, <3>1, <3>2
  <2>8. CASE MoveCheck(e)
    <3>1. UNCHANGED <<files, disk, row>> /\ pc[e] = "move"
      BY <2>8 DEF MoveCheck, store, catalog
    <3>2. \/ pc'[e] \in {"idle", "install"}
          \/ pc'[e] = "syncDest" /\ files[Destination(e)] = "good" /\ UNCHANGED target
      BY <2>8 DEF MoveCheck, Continue, Exit, Goto, locals
    <3>3. UNCHANGED target => Destination(e)' = Destination(e)
      BY DEF Destination
    <3> QED
      BY <2>1, <3>1, <3>2, <3>3, DiskFromFacts
  <2>9. CASE Install(e)
    <3>1. UNCHANGED <<disk, row>> /\ pc[e] = "install"
      BY <2>9 DEF Install, catalog
    <3>2. CASE Exit(e)
      <4>1. UNCHANGED files /\ pc'[e] = "idle"
        BY <2>9, <3>2 DEF Install, Continue, Exit, Goto
      <4> QED
        BY <2>2, <3>1, <4>1
    <3>3. CASE ~Exit(e)
      <4>1. pc'[e] = "syncDest" /\ UNCHANGED target
        BY <2>9, <3>3 DEF Install, Continue, Goto, locals
      <4>2. files[Source(e)] \in Content /\ files[Source(e)] # "bad"
        BY <2>1
      <4>3. /\ files'[Destination(e)] = "good"
            /\ \A d \in Dirs : d # Destination(e) => files'[d] = files[d]
            /\ \A d \in Dirs : files[d] = "good" => files'[d] = "good"
        BY <2>1, <2>9, <3>3, <4>2 DEF Install, Content
      <4>4. Destination(e)' = Destination(e)
        BY <4>1 DEF Destination
      <4> QED
        BY <2>1, <3>1, <4>1, <4>3, <4>4, DiskFromFacts
    <3> QED
      BY <3>2, <3>3
  <2>10. CASE SyncDest(e)
    <3>1. /\ UNCHANGED <<files, row, target>> /\ pc[e] = "syncDest" /\ pc'[e] = "exists"
          /\ disk' = [disk EXCEPT ![Destination(e)] = files[Destination(e)]]
      BY <2>10 DEF SyncDest, catalog, Continue, Goto, locals
    <3>2. Destination(e)' = Destination(e)
      BY <3>1 DEF Destination
    <3> QED
      BY <2>1, <3>1, <3>2, DiskFromFacts
  <2>14. CASE RemoveCheck(e)
    <3>1. /\ UNCHANGED <<files, disk, row, target>> /\ pc[e] = "exists"
          /\ pc'[e] \in {"remove", "commit"}
      BY <2>14 DEF RemoveCheck, store, catalog, Continue, Goto, locals
    <3>2. Destination(e)' = Destination(e)
      BY <3>1 DEF Destination
    <3> QED
      BY <2>1, <3>1, <3>2, DiskFromFacts
  <2>11. CASE Remove(e)
    <3>1. /\ pc[e] = "remove" /\ UNCHANGED <<disk, row>>
          /\ files[Destination(e)] = "good" /\ disk[Destination(e)] = "good"
      BY <2>1, <2>11 DEF Remove, catalog
    <3>2. CASE UNCHANGED files
      <4>1. pc'[e] \in {"idle", "commit"}
        BY <2>1, <2>11, <3>2 DEF Remove, Continue, Exit, Goto
      <4> QED
        BY <2>2, <3>1, <3>2, <4>1
    <3>3. CASE ~UNCHANGED files
      <4>1. /\ files' = [files EXCEPT ![Source(e)] = "none"] /\ Source(e) # Destination(e)
            /\ pc'[e] = "syncSource" /\ UNCHANGED snap
        BY <2>11, <3>3 DEF Remove, Continue, Goto, locals
      <4>2. Source(e)' = Source(e)
        BY <4>1 DEF Source
      <4>3. files'[Destination(e)] = "good" /\ disk'[Destination(e)] = "good"
        BY <2>1, <3>1, <4>1
      <4> QED
        BY <2>1, <3>1, <4>1, <4>2, <4>3, DiskFromFacts
    <3> QED
      BY <3>2, <3>3
  <2>12. CASE SyncSource(e)
    <3>1. /\ UNCHANGED <<files, row>> /\ pc[e] = "syncSource" /\ pc'[e] = "commit"
          /\ disk' = [disk EXCEPT ![Source(e)] = files[Source(e)]]
      BY <2>12 DEF SyncSource, catalog, Continue, Goto
    <3> QED
      BY <2>1, <3>1, DiskFromFacts
  <2>13. CASE Commit(e)
    <3>1. UNCHANGED <<files, disk>> /\ pc[e] = "commit" /\ pc'[e] = "idle"
      BY <2>13 DEF Commit, store, Exit, Goto
    <3>2. row.state # "none"
      BY <3>1 DEF SerialInv, SnapIsFresh, MoveSteps
    <3> QED
      BY <2>2, <3>1, <3>2
  <2> QED
    BY <2>3, <2>4, <2>5, <2>6, <2>7, <2>8, <2>9, <2>10, <2>11, <2>12, <2>13, <2>14 DEF Step
<1> QED
    BY <1>2, <1>3

LEMMA NextDisk ==
    ASSUME OneProcess, TypeInv, SerialInv, DiskInv, [Next]_vars
    PROVE  DiskInv'
<1> USE DEF TypeInv, TypeOK
<1>1. ASSUME NEW e \in Procs, NEW v \in Verdicts, NEW o \in Ops,
             Ingest(e, o) \/ ReconcilePending(e) \/ ManualClassify(e, v)
      PROVE  DiskInv'
  <2>1. UNCHANGED <<files, disk, row, crashes, damage>>
    BY <1>1 DEF Ingest, ReconcilePending, ManualClassify, store, catalog, failures
  <2>2. /\ pc[e] = "idle" /\ pc'[e] \in {"create", "register", "classify", "decide"}
        /\ pc'[e] = "register" => row.state # "none"
    BY <1>1 DEF Ingest, ReconcilePending, ManualClassify, Goto
  <2>3. CASE Healthy
    BY <2>1, <2>2, <2>3, DiskFacts, DiskFromFacts
  <2>4. CASE ~Healthy
    BY <2>1, <2>4 DEF Healthy, DiskInv
  <2> QED
    BY <2>3, <2>4
<1>2. ASSUME NEW e \in Procs, Crash(e)
      PROVE  DiskInv'
  <2>1. ~Healthy'
    BY <1>2 DEF Crash, Healthy
  <2> QED
    BY <2>1 DEF DiskInv
<1>3. CASE PowerFailure
  <2>1. /\ UNCHANGED <<row, crashes, damage>> /\ disk' = files' /\ \A e \in Procs : pc'[e] = "idle"
        /\ \A d \in Dirs : files'[d] \in {files[d], disk[d]}
    BY <1>3 DEF PowerFailure, catalog
  <2>2. CASE Healthy
    <3>1. \A d \in Dirs : files'[d] # "bad"
      BY <2>1, <2>2 DEF DiskInv
    <3>2. row'.state # "none" => \E d \in Dirs : files'[d] = "good"
      BY <2>1, <2>2 DEF DiskInv
    <3> QED
      BY <2>1, <3>1, <3>2 DEF DiskInv
  <2>3. CASE ~Healthy
    BY <2>1, <2>3 DEF Healthy, DiskInv
  <2> QED
    BY <2>2, <2>3
<1>4. CASE \E D \in SUBSET Dirs : Damage(D)
  <2>1. ~Healthy'
    BY <1>4 DEF Damage, Healthy
  <2> QED
    BY <2>1 DEF DiskInv
<1>5. CASE UNCHANGED vars
  <2>1. \A e \in Procs : Destination(e)' = Destination(e) /\ Source(e)' = Source(e)
    BY <1>5 DEF vars, Destination, Source
  <2> QED
    BY <1>5, <2>1 DEF vars, DiskInv, Unsynced, Healthy
<1>6. "ham" \in Verdicts /\ "sync" \in Ops /\ "import" \in Ops
    BY DEF Verdicts, Ops
<1> QED
    BY <1>1, <1>2, <1>3, <1>4, <1>5, <1>6, StepDisk, StoreAssumption DEF Next

\* Once register_canonical_message has committed, the bytes are under a synced directory entry,
\* at every instant of every later move and after any number of power failures; unless a process
\* died, because create_canonical_file accepts the file of an attempt that never synced it.
THEOREM RegisteredBytesAreDurable ==
    ASSUME OneProcess
    PROVE  Spec => []RegisteredIsDurable
<1>1. Init => DiskInv
    BY DEF Init, DiskInv, NoRow, Row
<1>2. TypeInv /\ Origins /\ RowInv /\ SerialInv /\ DiskInv /\ [Next]_vars => DiskInv'
    BY NextDisk
<1>3. DiskInv => RegisteredIsDurable
    BY DEF DiskInv, RegisteredIsDurable, Healthy
<1> QED
    BY <1>1, <1>2, <1>3, SerialHolds, PTL DEF Spec

=============================================================================
