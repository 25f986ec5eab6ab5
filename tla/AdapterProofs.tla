---------------------------- MODULE AdapterProofs ----------------------------
(***************************************************************************)
(* Proofs about one adapter.delete call (MutationAdapters): its types, that *)
(* a confirmed failure leaves no \Deleted mark behind, and that the three   *)
(* adapters implement the contract of DeletionCall the engine relies on.    *)
(***************************************************************************)
EXTENDS MutationAdapters, TLAPS

-----------------------------------------------------------------------------
(* The inductive invariant.                                                *)

\* Gmail and POP3 have no marks and no UIDVALIDITY, and send no STORE or EXPUNGE.
ImapOnly == kind # "imap" => flag = "none" /\ namespace = "same" /\ wire \notin {"store", "expunge"}

\* delete has told its caller nothing until it returns.
Silent == pc # "done" => result = "none" /\ answer = "none"

\* A message that left the provider stays away, and a success was read off its absence.
GoneForGood == (removed \/ answer = "success") => ~here

\* Before the first mutating request nothing is marked, removed or on its way.
Untouched == pc \in {"call", "store"} => flag # "ours" /\ ~removed /\ wire = "none"

\* A STORE is on its way only if its answer was lost, and delete never went past it.
LateStore == wire = "store" => conn = "broken" /\ pc \in {"clean", "done"}

\* Up to the answer to STORE the call has removed nothing, and no EXPUNGE was sent.
BeforeExpunge ==
    /\ pc = "clean" => ~removed /\ wire \in {"none", "store"}
    /\ pc = "expunge" => wire = "none"

\* The EXPUNGE of this call finds its mark, unless another client has cleared it.
MarkedUnlessEdited ==
    pc = "expunge" \/ wire = "expunge" => ~here \/ flag # "none" \/ edits > 0

CallInv ==
    /\ TypeOK
    /\ ImapOnly
    /\ Silent
    /\ GoneForGood
    /\ Untouched
    /\ LateStore
    /\ BeforeExpunge
    /\ MarkedUnlessEdited
    /\ FailureLeavesNoMark

USE DEF ImapOnly, Silent, GoneForGood, Untouched, LateStore, BeforeExpunge, MarkedUnlessEdited,
        FailureLeavesNoMark

LEMMA InitCall == Init => CallInv
<1> SUFFICES ASSUME Init
             PROVE  CallInv
    OBVIOUS
<1>1. here \in BOOLEAN /\ removed = FALSE
    BY DEF Init
<1>2. flag \in {"none", "theirs"} /\ namespace \in {"same", "other"}
    BY DEF Init
<1>3. kind # "imap" => flag = "none" /\ namespace = "same"
    BY DEF Init
<1>4. edits \in 0..MaxEdits
    BY AdapterAssumption DEF Init
<1>5. TypeOK
    BY <1>1, <1>2, <1>4 DEF Init, TypeOK, Pcs, Answers, Requests
<1> QED
    BY <1>1, <1>2, <1>3, <1>5 DEF Init, CallInv

LEMMA ImapCallInv ==
    ASSUME CallInv,
           \/ ImapPreflight \/ ImapStore \/ ImapClean \/ ImapExpunge \/ ImapConfirm
           \/ ImapAfter \/ ImapFresh
    PROVE  CallInv'
<1> USE DEF CallInv, TypeOK, At, Goto, Returns, mailbox, outcome, fixed, Pcs, Answers, Requests
<1>1. CASE ImapPreflight
    BY <1>1 DEF ImapPreflight, Clean, Absent
<1>2. CASE ImapStore
    BY <1>2 DEF ImapStore, Apply, Lost
<1>3. CASE ImapClean
    BY <1>3 DEF ImapClean, Clean
<1>4. CASE ImapExpunge
    BY <1>4 DEF ImapExpunge, Apply, Lost
<1>5. CASE ImapConfirm
    BY <1>5 DEF ImapConfirm, Absent
<1>6. CASE ImapAfter
    BY <1>6 DEF ImapAfter, Verdict, Clean, Absent
<1>7. CASE ImapFresh
    BY <1>7 DEF ImapFresh, Verdict, Clean, Absent
<1> QED
    BY <1>1, <1>2, <1>3, <1>4, <1>5, <1>6, <1>7

LEMMA OtherKindsCallInv ==
    ASSUME CallInv,
           \/ GmailPreflight \/ GmailDelete \/ GmailConfirm
           \/ PopPreflight \/ PopDele \/ PopQuit \/ PopConfirm
    PROVE  CallInv'
<1> USE DEF CallInv, TypeOK, At, Goto, Returns, mailbox, outcome, fixed, Pcs, Answers, Requests
<1>1. CASE GmailPreflight
    BY <1>1 DEF GmailPreflight, Clean, Absent
<1>2. CASE GmailDelete
    BY <1>2 DEF GmailDelete, Apply, Lost
<1>3. CASE GmailConfirm
    BY <1>3 DEF GmailConfirm, Verdict, Clean, Absent
<1>4. CASE PopPreflight
    BY <1>4 DEF PopPreflight, Clean, Absent
<1>5. CASE PopDele
    BY <1>5 DEF PopDele
<1>6. CASE PopQuit
    BY <1>6 DEF PopQuit, Apply, Lost
<1>7. CASE PopConfirm
    BY <1>7 DEF PopConfirm, Verdict, Clean, Absent
<1> QED
    BY <1>1, <1>2, <1>3, <1>4, <1>5, <1>6, <1>7

LEMMA NextCall == CallInv /\ [Next]_vars => CallInv'
<1> SUFFICES ASSUME CallInv, [Next]_vars
             PROVE  CallInv'
    OBVIOUS
<1> USE DEF CallInv, TypeOK, mailbox, outcome, fixed, Pcs, Answers, Requests
<1>1. CASE DeleteStep
    BY <1>1, ImapCallInv, OtherKindsCallInv DEF DeleteStep
<1>2. CASE Observe
    BY <1>2 DEF Observe, Verdict, Clean, Absent
<1>3. CASE LateArrival
  <2>1. TypeOK'
    BY <1>3 DEF LateArrival, Apply
  <2>2. (removed' \/ answer' = "success") => ~here'
    BY <1>3 DEF LateArrival, Apply
  <2>3. flag' = "ours" => flag = "ours" \/ wire = "store"
    BY <1>3 DEF LateArrival, Apply
  <2>4. removed' => removed \/ wire # "store"
    BY <1>3 DEF LateArrival, Apply
  <2>5. kind' # "imap" => flag' = "none"
    BY <1>3 DEF LateArrival, Apply
  <2>6. wire # "none" /\ wire' = "none"
    BY <1>3 DEF LateArrival
  <2>7. UNCHANGED <<kind, namespace, pc, conn, result, answer, edits>>
    BY <1>3 DEF LateArrival
  <2> QED
    BY <2>1, <2>2, <2>3, <2>4, <2>5, <2>6, <2>7
<1>4. CASE OtherClient
  <2>1. UNCHANGED <<kind, bytes, pc, conn, wire, result, answer, removed>>
    BY <1>4 DEF OtherClient
  <2>2. edits' \in 0..MaxEdits /\ edits' > 0
    BY <1>4, AdapterAssumption DEF OtherClient
  <2>3. here' \in BOOLEAN /\ (~here => ~here')
    <3>1. here' = FALSE \/ here' = here
      BY <1>4 DEF OtherClient
    <3>2. CASE here' = FALSE
      BY <3>2
    <3>3. CASE here' = here
      BY <3>3
    <3> QED
      BY <3>1, <3>2, <3>3
  <2>4. flag' \in {"none", "theirs", flag} /\ namespace' \in {"same", "other"}
    BY <1>4 DEF OtherClient
  <2>5. kind # "imap" => flag' = "none" /\ namespace' = "same"
    BY <1>4 DEF OtherClient
  <2>6. TypeOK'
    BY <2>1, <2>2, <2>3, <2>4
  <2> QED
    BY <2>1, <2>2, <2>3, <2>4, <2>5, <2>6
<1>5. CASE UNCHANGED vars
    BY <1>5 DEF vars
<1> QED
    BY <1>1, <1>2, <1>3, <1>4, <1>5 DEF Next

LEMMA CallInvHolds == Spec => []CallInv
BY InitCall, NextCall, PTL DEF Spec

\* "failure-confirmed-no-mutation" leaves no mark of ours on the message and no STORE on its
\* way, for every provider, whatever is lost or late and whatever other clients do
\* (imap_mutation.py, _clean_or_unknown and _after_expunge).
THEOREM ConfirmedFailureIsClean == Spec => []FailureLeavesNoMark
<1>1. CallInv => FailureLeavesNoMark
    BY DEF CallInv
<1> QED
    BY <1>1, CallInvHolds, PTL

-----------------------------------------------------------------------------
(* The adapters implement DeletionCall.                                    *)

\* What the refinement needs of the instance.  A Gmail or POP3 request that is carried out
\* after the confirmation has seen the message removes it after a denial, so no such request
\* may be late; and two edits of another client, one that clears the mark of this call and one
\* that sets its own, let a late EXPUNGE do the same.
PromptRemoval == LateKinds \subseteq {"imap"} /\ MaxEdits <= 1

\* Only IMAP requests are late; an EXPUNGE that is late when the call is denied finds no mark,
\* and nobody is left to set one.
LateIsHarmless ==
    /\ wire \in {"none", "store", "expunge"}
    /\ answer = "failure" /\ wire = "expunge" /\ here => flag = "none" /\ edits >= MaxEdits

ContractInv == CallInv /\ LateIsHarmless

LEMMA NextLate ==
    ASSUME PromptRemoval, ContractInv, [Next]_vars
    PROVE  LateIsHarmless'
<1> USE DEF ContractInv, CallInv, TypeOK, LateIsHarmless, PromptRemoval, mailbox, outcome, fixed
<1>1. CASE DeleteStep
  <2> USE DEF At, Goto, Returns, Requests, Answers
  <2>1. CASE ImapPreflight \/ ImapConfirm \/ GmailPreflight \/ PopPreflight \/ PopDele
    BY <2>1 DEF ImapPreflight, ImapConfirm, GmailPreflight, PopPreflight, PopDele
  <2>2. CASE ImapStore \/ ImapExpunge
    BY <2>2 DEF ImapStore, ImapExpunge, Lost
  <2>3. CASE GmailDelete \/ PopQuit
    BY <2>3 DEF GmailDelete, PopQuit, Lost
  <2>4. CASE ImapClean
    BY <2>4 DEF ImapClean
  <2>5. CASE ImapAfter \/ ImapFresh \/ GmailConfirm \/ PopConfirm
    <3>1. UNCHANGED <<here, flag, wire, edits>>
      BY <2>5 DEF ImapAfter, ImapFresh, GmailConfirm, PopConfirm
    <3>2. answer' = "failure" => flag = "none"
      BY <2>5 DEF ImapAfter, ImapFresh, GmailConfirm, PopConfirm, Verdict, Clean
    <3> QED
      BY <3>1, <3>2, AdapterAssumption
  <2> QED
    BY <1>1, <2>1, <2>2, <2>3, <2>4, <2>5 DEF DeleteStep
<1>2. CASE Observe
  <2>1. UNCHANGED <<here, flag, wire, edits>>
    BY <1>2 DEF Observe
  <2>2. answer' = "failure" => flag = "none"
    BY <1>2 DEF Observe, Verdict, Clean
  <2> QED
    BY <2>1, <2>2, AdapterAssumption
<1>3. CASE LateArrival
    BY <1>3 DEF LateArrival
<1>4. CASE OtherClient
  <2>1. edits < MaxEdits /\ UNCHANGED <<wire, answer>> /\ (here' => here)
    BY <1>4 DEF OtherClient
  <2> QED
    BY <2>1, AdapterAssumption
<1>5. CASE UNCHANGED vars
    BY <1>5 DEF vars
<1> QED
    BY <1>1, <1>2, <1>3, <1>4, <1>5 DEF Next

\* A read that decides is an answer of the contract: an absent message for success, one that
\* is still there, and so was not removed by this call, for failure.
LEMMA VerdictIsAnswer ==
    ASSUME CallInv, answer \in {"none", "unknown"}, UNCHANGED <<here, removed>>,
           NEW a \in {"success", "failure", "unknown"}, answer' = a,
           \/ a = Verdict
           \/ a = "unknown"
           \/ a = "success" /\ Absent
           \/ a = "failure" /\ ~removed
    PROVE  \E b \in {"success", "failure", "unknown"} : Contract!Answer(b)
<1>1. a = "success" => ~here
    BY DEF Verdict, Absent, Clean
<1>2. a = "failure" => ~removed
    BY DEF Verdict, Absent, Clean, CallInv
<1>3. Contract!Answer(a)
    BY <1>1, <1>2 DEF Contract!Answer
<1> QED
    BY <1>3

\* A request that is carried out is the removal of the contract, or nothing of it.
LEMMA ApplyIsRemoval ==
    ASSUME CallInv, NEW request, Apply(request), answer \in {"none", "unknown"}, UNCHANGED answer
    PROVE  Contract!CallRemoves \/ UNCHANGED Contract!vars
<1> DEFINE goes == \/ here /\ request \in {"delete", "quit"}
                   \/ here /\ request = "expunge" /\ flag # "none"
<1>1. CASE goes
  <2>1. here /\ here' = FALSE /\ removed' = TRUE
    BY <1>1 DEF Apply
  <2> QED
    BY <2>1 DEF Contract!CallRemoves
<1>2. CASE ~goes
  <2>1. here' = here /\ removed' = removed
    BY <1>2 DEF Apply, CallInv, TypeOK
  <2> QED
    BY <2>1 DEF Contract!vars
<1> QED
    BY <1>1, <1>2

LEMMA StepKeepsContract ==
    ASSUME PromptRemoval, ContractInv, [Next]_vars
    PROVE  [Contract!Next]_(Contract!vars)
<1> USE DEF ContractInv
<1>1. CASE DeleteStep
  <2>1. pc # "done" /\ answer = "none"
    BY <1>1 DEF DeleteStep, At, CallInv, ImapPreflight, ImapStore, ImapClean, ImapExpunge,
                ImapConfirm, ImapAfter, ImapFresh, GmailPreflight, GmailDelete, GmailConfirm,
                PopPreflight, PopDele, PopQuit, PopConfirm
  <2>2. CASE ImapPreflight \/ GmailPreflight \/ PopPreflight \/ ImapClean \/ ImapConfirm \/ PopDele
    <3>1. UNCHANGED <<here, removed>>
      BY <2>2 DEF ImapPreflight, GmailPreflight, PopPreflight, ImapClean, ImapConfirm, PopDele,
                  mailbox
    <3>2. \/ UNCHANGED answer
          \/ answer' = "unknown"
          \/ answer' = "success" /\ Absent
          \/ answer' = "failure" /\ pc \in {"call", "clean"}
      BY <2>2 DEF ImapPreflight, GmailPreflight, PopPreflight, ImapClean, ImapConfirm, PopDele,
                  At, Goto, Returns, outcome
    <3>3. pc \in {"call", "clean"} => ~removed
      BY DEF CallInv
    <3>4. CASE UNCHANGED answer
      BY <3>1, <3>4 DEF Contract!vars
    <3> QED
      BY <2>1, <3>1, <3>2, <3>3, <3>4, VerdictIsAnswer DEF Contract!Next
  <2>3. CASE ImapAfter \/ ImapFresh \/ GmailConfirm \/ PopConfirm
    <3>1. UNCHANGED <<here, removed>>
      BY <2>3 DEF ImapAfter, ImapFresh, GmailConfirm, PopConfirm, mailbox
    <3>2. UNCHANGED answer \/ answer' = "unknown" \/ answer' = Verdict
      BY <2>3 DEF ImapAfter, ImapFresh, GmailConfirm, PopConfirm, Goto, Returns, outcome
    <3>3. Verdict \in {"success", "failure", "unknown"}
      BY DEF Verdict
    <3>4. CASE UNCHANGED answer
      BY <3>1, <3>4 DEF Contract!vars
    <3> QED
      BY <2>1, <3>1, <3>2, <3>3, <3>4, VerdictIsAnswer DEF Contract!Next
  <2>4. CASE ImapStore \/ ImapExpunge \/ GmailDelete \/ PopQuit
    <3>1. UNCHANGED answer
      BY <2>4 DEF ImapStore, ImapExpunge, GmailDelete, PopQuit, Goto, outcome
    <3>2. (\E request \in Requests : Apply(request)) \/ UNCHANGED mailbox
      BY <2>4 DEF ImapStore, ImapExpunge, GmailDelete, PopQuit, Lost, Requests
    <3>3. CASE UNCHANGED mailbox
      BY <3>1, <3>3 DEF mailbox, Contract!vars
    <3> QED
      BY <2>1, <3>1, <3>2, <3>3, ApplyIsRemoval DEF Contract!Next
  <2> QED
    BY <1>1, <2>2, <2>3, <2>4 DEF DeleteStep
<1>2. CASE Observe
  <2>1. answer = "unknown" /\ answer' = Verdict /\ UNCHANGED <<here, removed>>
    BY <1>2 DEF Observe, mailbox
  <2>2. Verdict \in {"success", "failure", "unknown"}
    BY DEF Verdict
  <2> QED
    BY <2>1, <2>2, VerdictIsAnswer DEF Contract!Next
<1>3. CASE LateArrival
  <2>1. Apply(wire) /\ UNCHANGED answer /\ wire # "none"
    BY <1>3 DEF LateArrival, outcome
  <2>2. CASE answer \in {"none", "unknown"}
    BY <2>1, <2>2, ApplyIsRemoval DEF Contract!Next
  <2>3. CASE answer \in {"success", "failure"}
    <3>1. ~(here /\ wire \in {"delete", "quit"}) /\ ~(here /\ wire = "expunge" /\ flag # "none")
      BY <2>3 DEF CallInv, LateIsHarmless
    <3>2. here' = here /\ removed' = removed
      BY <2>1, <3>1 DEF Apply, CallInv, TypeOK
    <3> QED
      BY <2>1, <3>2 DEF Contract!vars
  <2> QED
    BY <2>2, <2>3 DEF CallInv, TypeOK, Answers
<1>4. CASE OtherClient
  <2>1. UNCHANGED <<removed, answer>> /\ (UNCHANGED here \/ (here /\ here' = FALSE))
    BY <1>4 DEF OtherClient, outcome
  <2> QED
    BY <2>1 DEF Contract!vars, Contract!Next, Contract!OthersRemove
<1>5. CASE UNCHANGED vars
    BY <1>5 DEF vars, Contract!vars
<1> QED
    BY <1>1, <1>2, <1>3, <1>4, <1>5 DEF Next

\* adapter.delete followed by adapter.observe, command by command and with lost and late
\* answers, is one call of the contract remote_mutation.py is built on.
THEOREM AdaptersKeepContract ==
    ASSUME PromptRemoval
    PROVE  Spec => ImplementsContract
<1>1. Init => Contract!Init
    BY DEF Init, Contract!Init
<1>2. Init => ContractInv
    BY InitCall DEF Init, ContractInv, LateIsHarmless
<1>3. ContractInv /\ [Next]_vars => ContractInv'
    BY NextCall, NextLate DEF ContractInv
<1>4. ContractInv /\ [Next]_vars => [Contract!Next]_(Contract!vars)
    BY StepKeepsContract
<1> QED
    BY <1>1, <1>2, <1>3, <1>4, PTL DEF Spec, ImplementsContract, Contract!Spec

=============================================================================
