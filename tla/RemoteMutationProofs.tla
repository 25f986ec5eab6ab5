------------------------ MODULE RemoteMutationProofs ------------------------
(***************************************************************************)
(* Safety of the remote-deletion engine for any number of messages,        *)
(* accounts, processes, plans and crashes.                                 *)
(***************************************************************************)
EXTENDS RemoteMutation, FiniteSetTheorems, WellFoundedInduction, TLAPS

USE MsgsAssumption, AccountAssumption, BoundAssumption

-----------------------------------------------------------------------------
(* Type correctness.                                                       *)

\* A fresh installation has no plan, no mutation and no running process.
LEMMA InitType == Init => TypeOK
  BY DEF Init, TypeOK, TablesTypeOK, ProviderTypeOK, ProcsTypeOK, Plans, PlanState,
         PlanRecords, RunStatus, RowStatus, Pcs, Attempting

\* Selection only ever returns messages it was given.
LEMMA SelectIsSubset ==
  ASSUME NEW E \in SUBSET Msgs, NEW maxRun, NEW maxAcct
  PROVE  Select(E, maxRun, maxAcct) \in SUBSET E
  BY DEF Select

\* What ends a process, or moves it without touching its registers, keeps them well typed.
LEMMA ExitType ==
  ASSUME ProcsTypeOK, NEW e \in Procs, Exit(e)
  PROVE  ProcsTypeOK'
  BY DEF ProcsTypeOK, Exit, Pcs, RowStatus, Attempting

\* The provider only ever loses messages, and the histories only name plans and messages.
LEMMA ProviderType ==
  ASSUME ProviderTypeOK, NEW p \in Plans, NEW m \in Msgs,
         \E removes, late \in BOOLEAN : Provider(p, m, removes, late),
         UNCHANGED <<acquisition, calls>>, crashes' \in 0..MaxCrashes
  PROVE  ProviderTypeOK'
<1>1. <<p, m>> \in Plans \X Msgs
  OBVIOUS
<1>2. server' \subseteq server
  BY DEF Provider
<1>3. removedBy' \subseteq removedBy \cup {<<p, m>>}
  BY DEF Provider
<1>4. inflight' \subseteq inflight \cup {<<p, m>>}
  BY DEF Provider
<1> QED BY <1>1, <1>2, <1>3, <1>4 DEF ProviderTypeOK, acquisition

\* The matrix has no fourth outcome.
LEMMA NormalizeType ==
  ASSUME NEW result \in MutationResults
  PROVE  Normalize(result) \in {"succeeded", "failed", "unknown"}
  BY DEF Normalize

\* Every step of every process and of the environment keeps the types.
LEMMA NextType == TypeOK /\ [Next]_vars => TypeOK'
<1> SUFFICES ASSUME TypeOK, [Next]_vars
             PROVE  TypeOK'
  OBVIOUS
<1> USE DEF TypeOK, plans, mutations, provider, acquisition, procs
<1>1. ASSUME NEW p \in Plans, NEW f \in Filters, NEW maxRun \in Limits, NEW maxAcct \in Limits,
             PlanDryRun(p, f, maxRun, maxAcct)
      PROVE  TypeOK'
  <2>1. Candidates(f) \in SUBSET Msgs
    BY DEF Candidates
  <2>2. Select(Candidates(f), maxRun, maxAcct) \in SUBSET Msgs
    BY <2>1, SelectIsSubset
  <2>3. TablesTypeOK'
    BY <1>1, <2>2 DEF PlanDryRun, TablesTypeOK, PlanRecords, PlanState
  <2> QED BY <1>1, <2>3 DEF PlanDryRun, ProviderTypeOK, ProcsTypeOK
<1>2. ASSUME NEW p \in Plans, PlanExpires(p)
      PROVE  TypeOK'
  BY <1>2 DEF PlanExpires, TablesTypeOK, ProviderTypeOK, ProcsTypeOK, PlanState
<1>3. ASSUME NEW e \in Procs, NEW p \in Plans, NEW maxRun \in Limits, NEW maxAcct \in Limits,
             ExecuteProductionPlan(e, p, maxRun, maxAcct)
      PROVE  TypeOK'
  <2>1. ProcsTypeOK'
    BY <1>3 DEF ExecuteProductionPlan, Goto, ProcsTypeOK, Pcs, Plans, Attempting
  <2> QED BY <1>3, <2>1 DEF ExecuteProductionPlan, TablesTypeOK, ProviderTypeOK
<1>4. ASSUME NEW e \in Procs, Revalidate(e)
      PROVE  TypeOK'
  <2>1. ProcsTypeOK'
    <3>1. CASE Exit(e)
      BY <3>1, ExitType
    <3>2. CASE Goto(e, "insert") /\ UNCHANGED <<work, msg, res, todo>>
      BY <1>4, <3>2 DEF Revalidate, Goto, ProcsTypeOK, Pcs, Attempting
    <3> QED BY <1>4, <3>1, <3>2 DEF Revalidate
  <2> QED BY <1>4, <2>1 DEF Revalidate, TablesTypeOK, ProviderTypeOK
<1>5. ASSUME NEW e \in Procs, InsertProductionRun(e)
      PROVE  TypeOK'
  <2>1. work[e] \in Plans
    BY <1>5 DEF InsertProductionRun, ProcsTypeOK
  <2>2. ProcsTypeOK'
    <3>1. CASE Exit(e)
      BY <3>1, ExitType
    <3>2. CASE Goto(e, "loop") /\ UNCHANGED <<work, msg, res, todo>>
      BY <1>5, <3>2 DEF InsertProductionRun, Goto, ProcsTypeOK, Pcs, Attempting
    <3> QED BY <1>5, <3>1, <3>2 DEF InsertProductionRun
  <2>3. TablesTypeOK'
    BY <1>5, <2>1 DEF InsertProductionRun, TablesTypeOK, RunStatus, RowStatus
  <2> QED BY <1>5, <2>2, <2>3 DEF InsertProductionRun, ProviderTypeOK
<1>6. ASSUME NEW e \in Procs, SerialNext(e)
      PROVE  TypeOK'
  <2>1. work[e] \in Plans
    BY <1>6 DEF SerialNext, ProcsTypeOK
  <2>2. ProcsTypeOK'
    <3>1. CASE Exit(e)
      BY <3>1, ExitType
    <3>2. CASE ~Exit(e)
      <4>1. PICK m \in Msgs : /\ msg' = [msg EXCEPT ![e] = m]
                              /\ Goto(e, IF Eligible(m) THEN "start" ELSE "stale")
                              /\ UNCHANGED <<work, res, todo>>
        BY <1>6, <3>2 DEF SerialNext, RowsIn
      <4> QED BY <1>6, <4>1 DEF SerialNext, Goto, ProcsTypeOK, Pcs, Attempting
    <3> QED BY <3>1, <3>2
  <2>3. TablesTypeOK'
    BY <1>6, <2>1 DEF SerialNext, TablesTypeOK, RunStatus
  <2> QED BY <1>6, <2>2, <2>3 DEF SerialNext, ProviderTypeOK
<1>7. ASSUME NEW e \in Procs, HaltStale(e)
      PROVE  TypeOK'
  <2>1. work[e] \in Plans /\ msg[e] \in Msgs
    BY <1>7 DEF HaltStale, ProcsTypeOK
  <2>2. TablesTypeOK'
    BY <1>7, <2>1 DEF HaltStale, TablesTypeOK, RunStatus, RowStatus
  <2> QED BY <1>7, <2>2, ExitType DEF HaltStale, ProviderTypeOK
<1>8. ASSUME NEW e \in Procs, CommitStarted(e)
      PROVE  TypeOK'
  <2>1. work[e] \in Plans /\ msg[e] \in Msgs
    BY <1>8 DEF CommitStarted, ProcsTypeOK
  <2>2. TablesTypeOK'
    BY <1>8, <2>1 DEF CommitStarted, TablesTypeOK, RowStatus
  <2>3. ProcsTypeOK'
    BY <1>8 DEF CommitStarted, Goto, ProcsTypeOK, Pcs, Attempting
  <2> QED BY <1>8, <2>2, <2>3 DEF CommitStarted, ProviderTypeOK
<1>9. ASSUME NEW e \in Procs, AdapterBegin(e)
      PROVE  TypeOK'
  <2>1. work[e] \in Plans /\ msg[e] \in Msgs
    BY <1>9 DEF AdapterBegin, ProcsTypeOK, Attempting
  <2>2. ProcsTypeOK'
    BY <1>9 DEF AdapterBegin, Goto, ProcsTypeOK, Pcs, Attempting, RowStatus
  <2>3. calls' \in [Plans -> [Msgs -> Nat]]
    BY <1>9, <2>1 DEF AdapterBegin, ProviderTypeOK
  <2> QED BY <1>9, <2>2, <2>3 DEF AdapterBegin, TablesTypeOK, ProviderTypeOK
<1>10. ASSUME NEW e \in Procs, AdapterReturns(e)
       PROVE  TypeOK'
  <2>1. work[e] \in Plans /\ msg[e] \in Msgs
    BY <1>10 DEF AdapterReturns, ProcsTypeOK, Attempting
  <2>2. PICK result \in MutationResults, removes \in BOOLEAN, late \in BOOLEAN :
           /\ Provider(work[e], msg[e], removes, late)
           /\ res' = [res EXCEPT ![e] = Normalize(result)]
    BY <1>10 DEF AdapterReturns
  <2>3. Normalize(result) \in {"succeeded", "failed", "unknown"}
    BY <2>2, NormalizeType
  <2>4. ProcsTypeOK'
    BY <1>10, <2>2, <2>3 DEF AdapterReturns, Goto, ProcsTypeOK, Pcs, Attempting, RowStatus
  <2>5. ProviderTypeOK'
    <3>1. \E r, l \in BOOLEAN : Provider(work[e], msg[e], r, l)
      BY <1>10 DEF AdapterReturns
    <3>2. UNCHANGED <<acquisition, calls>> /\ crashes' \in 0..MaxCrashes
      BY <1>10 DEF AdapterReturns, ProviderTypeOK
    <3> QED BY <2>1, <3>1, <3>2, ProviderType
  <2> QED BY <1>10, <2>4, <2>5 DEF AdapterReturns, TablesTypeOK
<1>11. ASSUME NEW e \in Procs, AdapterRaises(e)
       PROVE  TypeOK'
  <2>1. work[e] \in Plans /\ msg[e] \in Msgs
    BY <1>11 DEF AdapterRaises, ProcsTypeOK, Attempting
  <2>2. ProcsTypeOK'
    BY <1>11 DEF AdapterRaises, Goto, ProcsTypeOK, Pcs, Attempting, RowStatus
  <2>3. ProviderTypeOK'
    <3>1. \E removes, late \in BOOLEAN : Provider(work[e], msg[e], removes, late)
      BY <1>11 DEF AdapterRaises, NoAnswer
    <3>2. UNCHANGED <<acquisition, calls>> /\ crashes' \in 0..MaxCrashes
      BY <1>11 DEF AdapterRaises, ProviderTypeOK
    <3> QED BY <2>1, <3>1, <3>2, ProviderType
  <2> QED BY <1>11, <2>2, <2>3 DEF AdapterRaises, TablesTypeOK
<1>12. ASSUME NEW e \in Procs, RecordOutcome(e)
       PROVE  TypeOK'
  <2>1. work[e] \in Plans /\ msg[e] \in Msgs /\ res[e] \in RowStatus
    BY <1>12 DEF RecordOutcome, ProcsTypeOK, Attempting, RowStatus
  <2>2. ProcsTypeOK'
    <3>1. CASE Exit(e)
      BY <3>1, ExitType
    <3>2. CASE Goto(e, "loop") /\ UNCHANGED <<work, msg, res, todo>>
      BY <1>12, <3>2 DEF RecordOutcome, Goto, ProcsTypeOK, Pcs, Attempting
    <3> QED BY <1>12, <3>1, <3>2 DEF RecordOutcome
  <2>3. TablesTypeOK'
    BY <1>12, <2>1 DEF RecordOutcome, TablesTypeOK, RunStatus
  <2> QED BY <1>12, <2>2, <2>3 DEF RecordOutcome, ProviderTypeOK
<1>13. ASSUME NEW e \in Procs, RecordRaises(e)
       PROVE  TypeOK'
  <2>1. ProcsTypeOK'
    BY <1>13 DEF RecordRaises, Goto, ProcsTypeOK, Pcs, Attempting, RowStatus
  <2> QED BY <1>13, <2>1 DEF RecordRaises, TablesTypeOK, ProviderTypeOK
<1>14. ASSUME NEW e \in Procs, Crash(e)
       PROVE  TypeOK'
  <2>1. UNCHANGED <<acquisition, calls>> /\ crashes' \in 0..MaxCrashes
    BY <1>14, BoundAssumption DEF Crash, ProviderTypeOK
  <2>2. ProviderTypeOK'
    <3>1. CASE UNCHANGED provider
      BY <2>1, <3>1 DEF ProviderTypeOK, provider, acquisition
    <3>2. CASE pc[e] = "incall" /\ NoAnswer(e)
      <4>1. work[e] \in Plans /\ msg[e] \in Msgs
        BY <3>2 DEF ProcsTypeOK, Attempting
      <4>2. \E removes, late \in BOOLEAN : Provider(work[e], msg[e], removes, late)
        BY <3>2 DEF NoAnswer
      <4> QED BY <2>1, <4>1, <4>2, ProviderType
    <3> QED BY <1>14, <3>1, <3>2 DEF Crash
  <2> QED BY <1>14, <2>2, ExitType DEF Crash, TablesTypeOK
<1>15. ASSUME NEW e \in Procs, NEW p \in Plans, ReconcileBegin(e, p)
       PROVE  TypeOK'
  <2>1. ProcsTypeOK'
    BY <1>15 DEF ReconcileBegin, Goto, ProcsTypeOK, Pcs, Plans, Attempting, Recoverable,
       RowsIn
  <2> QED BY <1>15, <2>1 DEF ReconcileBegin, TablesTypeOK, ProviderTypeOK
<1>16. ASSUME NEW e \in Procs, ReconcileRow(e)
       PROVE  TypeOK'
  <2>1. work[e] \in Plans
    BY <1>16 DEF ReconcileRow, ProcsTypeOK
  <2>2. ProcsTypeOK'
    <3>1. CASE Exit(e)
      BY <3>1, ExitType
    <3>2. CASE ~Exit(e)
      <4>1. PICK m \in todo[e] : /\ Goto(e, "observe")
                                 /\ msg' = [msg EXCEPT ![e] = m]
                                 /\ todo' = [todo EXCEPT ![e] = @ \ {m}]
                                 /\ res' = [res EXCEPT ![e] = row[work[e]][m]]
                                 /\ UNCHANGED work
        BY <1>16, <3>2 DEF ReconcileRow
      <4>2. m \in Msgs /\ row[work[e]][m] \in RowStatus
        BY <2>1 DEF ProcsTypeOK, TablesTypeOK
      <4> QED BY <1>16, <4>1, <4>2 DEF ReconcileRow, Goto, ProcsTypeOK, Pcs, Attempting
    <3> QED BY <3>1, <3>2
  <2> QED BY <1>16, <2>2 DEF ReconcileRow, TablesTypeOK, ProviderTypeOK
<1>17. ASSUME NEW e \in Procs, Observe(e)
       PROVE  TypeOK'
  <2>1. res' \in [Procs -> RowStatus \cup ObservationStates]
    BY <1>17 DEF Observe, ProcsTypeOK
  <2>2. ProcsTypeOK'
    BY <1>17, <2>1 DEF Observe, Goto, ProcsTypeOK, Pcs, Attempting
  <2> QED BY <1>17, <2>2 DEF Observe, TablesTypeOK, ProviderTypeOK
<1>18. ASSUME NEW e \in Procs, ReconcileWrite(e)
       PROVE  TypeOK'
  <2>1. work[e] \in Plans /\ msg[e] \in Msgs
    BY <1>18 DEF ReconcileWrite, ProcsTypeOK
  <2>2. TablesTypeOK'
    <3>1. row' \in [Plans -> [Msgs -> RowStatus]]
      BY <1>18, <2>1 DEF ReconcileWrite, TablesTypeOK, RowStatus
    <3>2. present' \subseteq Msgs
      BY <1>18, <2>1 DEF ReconcileWrite, TablesTypeOK
    <3> QED BY <1>18, <3>1, <3>2 DEF ReconcileWrite, TablesTypeOK
  <2>3. ProcsTypeOK'
    BY <1>18 DEF ReconcileWrite, Goto, ProcsTypeOK, Pcs, Attempting, RowStatus
  <2> QED BY <1>18, <2>2, <2>3 DEF ReconcileWrite, ProviderTypeOK
<1>19. ASSUME NEW a \in PresenceSync, SyncBegin(a)
       PROVE  TypeOK'
  BY <1>19 DEF SyncBegin, TablesTypeOK, ProviderTypeOK, ProcsTypeOK
<1>20. ASSUME NEW a \in PresenceSync, NEW marksAbsent \in BOOLEAN, SyncEnd(a, marksAbsent)
       PROVE  TypeOK'
  BY <1>20 DEF SyncEnd, TablesTypeOK, ProviderTypeOK, ProcsTypeOK
<1>21. ASSUME NEW a \in PresenceSync, NEW marked \in SUBSET Msgs, SyncFails(a, marked)
       PROVE  TypeOK'
  BY <1>21 DEF SyncFails, TablesTypeOK, ProviderTypeOK, ProcsTypeOK
<1>22. ASSUME NEW m \in Msgs, PolicyChanges(m)
       PROVE  TypeOK'
  BY <1>22 DEF PolicyChanges, TablesTypeOK, ProviderTypeOK, ProcsTypeOK
<1>23. ASSUME NEW m \in Msgs, RemovedElsewhere(m)
       PROVE  TypeOK'
  BY <1>23 DEF RemovedElsewhere, TablesTypeOK, ProviderTypeOK, ProcsTypeOK
<1>24. ASSUME NEW p \in Plans, NEW m \in Msgs, AppliedLate(p, m)
       PROVE  TypeOK'
  BY <1>24 DEF AppliedLate, TablesTypeOK, ProviderTypeOK, ProcsTypeOK
<1>25. CASE UNCHANGED vars
  BY <1>25 DEF vars, TablesTypeOK, ProviderTypeOK, ProcsTypeOK
<1> QED
  BY <1>1, <1>2, <1>3, <1>4, <1>5, <1>6, <1>7, <1>8, <1>9, <1>10, <1>11, <1>12, <1>13, <1>14,
     <1>15, <1>16, <1>17, <1>18, <1>19, <1>20, <1>21, <1>22, <1>23, <1>24, <1>25
     DEF Next, ExecuteStep, ReconcileStep

\* The tables, the provider and every process keep their types in every execution.
THEOREM TypeCorrect == Spec => []TypeOK
  BY InitType, NextType, PTL DEF Spec

-----------------------------------------------------------------------------
(* What is recorded about the provider is true.                            *)

\* What is known about a message before its absence is written down: a process about to
\* record a success, a reconciliation about to record an absence and a synchronisation about
\* to mark messages absent all hold evidence that is still true.
OutcomeEvidence ==
    \A e \in Procs : pc[e] \in {"record", "recordException"} /\ res[e] = "succeeded" =>
        msg[e] \notin server

ObservationEvidence ==
    \A e \in Procs : pc[e] = "write" /\ res[e] = "confirmed-absent" => msg[e] \notin server

SnapshotEvidence == \A a \in syncing : server \cap MsgsOf(a) \subseteq seen

Evidence == OutcomeEvidence /\ ObservationEvidence /\ SnapshotEvidence

Truth == SucceededMeansGone /\ LocalAbsenceIsReal /\ Evidence

\* At first every message is online and so recorded.
LEMMA InitTruth == Init => Truth
  BY DEF Init, Truth, SucceededMeansGone, LocalAbsenceIsReal, Evidence, OutcomeEvidence,
         ObservationEvidence, SnapshotEvidence

\* No step of the system puts a message back on the provider.
LEMMA ServerShrinks ==
  ASSUME [Next]_vars
  PROVE  server' \subseteq server
  BY DEF Next, vars, ExecuteStep, ReconcileStep, PlanDryRun, PlanExpires, ExecuteProductionPlan,
         Revalidate, InsertProductionRun, SerialNext, HaltStale, CommitStarted, AdapterBegin,
         AdapterReturns, AdapterRaises, NoAnswer, Provider, RecordOutcome, RecordRaises, Crash,
         ReconcileBegin, ReconcileRow, Observe, ReconcileWrite, SyncBegin, SyncEnd, SyncFails,
         PolicyChanges, RemovedElsewhere, AppliedLate, provider

\* Every step keeps the recorded facts true.
LEMMA NextTruth == TypeOK /\ Truth /\ [Next]_vars => Truth'
<1> SUFFICES ASSUME TypeOK, Truth, [Next]_vars
             PROVE  Truth'
  OBVIOUS
<1> USE DEF Truth, Evidence, TypeOK, plans, mutations, provider, acquisition, procs
<1>0. server' \subseteq server
  BY ServerShrinks
<1>1. ASSUME NEW p \in Plans, NEW f \in Filters, NEW maxRun \in Limits, NEW maxAcct \in Limits,
             PlanDryRun(p, f, maxRun, maxAcct)
      PROVE  Truth'
  BY <1>0, <1>1 DEF PlanDryRun, SucceededMeansGone, LocalAbsenceIsReal,
     OutcomeEvidence, ObservationEvidence, SnapshotEvidence
<1>2. ASSUME NEW p \in Plans, PlanExpires(p)
      PROVE  Truth'
  BY <1>0, <1>2 DEF PlanExpires, SucceededMeansGone, LocalAbsenceIsReal,
     OutcomeEvidence, ObservationEvidence, SnapshotEvidence
<1>3. ASSUME NEW e \in Procs, NEW p \in Plans, NEW maxRun \in Limits, NEW maxAcct \in Limits,
             ExecuteProductionPlan(e, p, maxRun, maxAcct)
      PROVE  Truth'
  BY <1>0, <1>3 DEF ExecuteProductionPlan, Goto, Exit, ProcsTypeOK, SucceededMeansGone, LocalAbsenceIsReal,
     OutcomeEvidence, ObservationEvidence, SnapshotEvidence
<1>4. ASSUME NEW e \in Procs, Revalidate(e)
      PROVE  Truth'
  BY <1>0, <1>4 DEF Revalidate, Goto, Exit, ProcsTypeOK, SucceededMeansGone, LocalAbsenceIsReal,
     OutcomeEvidence, ObservationEvidence, SnapshotEvidence
<1>5. ASSUME NEW e \in Procs, InsertProductionRun(e)
      PROVE  Truth'
  <2>0. work[e] \in Plans
    BY <1>5 DEF InsertProductionRun, ProcsTypeOK
  <2>1. SucceededMeansGone'
    BY <1>0, <1>5, <2>0 DEF InsertProductionRun, SucceededMeansGone, TablesTypeOK
  <2>2. LocalAbsenceIsReal'
    BY <1>0, <1>5 DEF InsertProductionRun, LocalAbsenceIsReal
  <2>3. OutcomeEvidence'
    BY <1>0, <1>5 DEF InsertProductionRun, OutcomeEvidence, Goto, Exit, ProcsTypeOK
  <2>4. ObservationEvidence'
    BY <1>0, <1>5 DEF InsertProductionRun, ObservationEvidence, Goto, Exit, ProcsTypeOK
  <2>5. SnapshotEvidence'
    BY <1>0, <1>5 DEF InsertProductionRun, SnapshotEvidence
  <2> QED BY <2>1, <2>2, <2>3, <2>4, <2>5
<1>6. ASSUME NEW e \in Procs, SerialNext(e)
      PROVE  Truth'
  <2>1. SucceededMeansGone'
    BY <1>0, <1>6 DEF SerialNext, SucceededMeansGone
  <2>2. LocalAbsenceIsReal'
    BY <1>0, <1>6 DEF SerialNext, LocalAbsenceIsReal
  <2>3. OutcomeEvidence'
    BY <1>0, <1>6 DEF SerialNext, OutcomeEvidence, Goto, Exit, ProcsTypeOK
  <2>4. ObservationEvidence'
    BY <1>0, <1>6 DEF SerialNext, ObservationEvidence, Goto, Exit, ProcsTypeOK
  <2>5. SnapshotEvidence'
    BY <1>0, <1>6 DEF SerialNext, SnapshotEvidence
  <2> QED BY <2>1, <2>2, <2>3, <2>4, <2>5
<1>7. ASSUME NEW e \in Procs, HaltStale(e)
      PROVE  Truth'
  BY <1>0, <1>7 DEF HaltStale, Goto, Exit, ProcsTypeOK, TablesTypeOK, SucceededMeansGone, LocalAbsenceIsReal,
     OutcomeEvidence, ObservationEvidence, SnapshotEvidence
<1>8. ASSUME NEW e \in Procs, CommitStarted(e)
      PROVE  Truth'
  BY <1>0, <1>8 DEF CommitStarted, Goto, Exit, ProcsTypeOK, TablesTypeOK, SucceededMeansGone, LocalAbsenceIsReal,
     OutcomeEvidence, ObservationEvidence, SnapshotEvidence
<1>9. ASSUME NEW e \in Procs, AdapterBegin(e)
      PROVE  Truth'
  BY <1>0, <1>9 DEF AdapterBegin, Goto, Exit, ProcsTypeOK, SucceededMeansGone, LocalAbsenceIsReal,
     OutcomeEvidence, ObservationEvidence, SnapshotEvidence
<1>10. ASSUME NEW e \in Procs, AdapterReturns(e)
      PROVE  Truth'
  <2>1. SucceededMeansGone'
    BY <1>0, <1>10 DEF AdapterReturns, SucceededMeansGone
  <2>2. LocalAbsenceIsReal'
    BY <1>0, <1>10 DEF AdapterReturns, LocalAbsenceIsReal
  <2>3. OutcomeEvidence'
    <3>1. PICK result \in MutationResults, removes \in BOOLEAN, late \in BOOLEAN :
             /\ AdapterContract(msg[e], result, removes)
             /\ Provider(work[e], msg[e], removes, late)
             /\ res' = [res EXCEPT ![e] = Normalize(result)]
      BY <1>10 DEF AdapterReturns
    <3>2. Normalize(result) = "succeeded" => msg[e] \notin server'
      BY <3>1 DEF AdapterContract, Provider, Normalize
    <3>3. res'[e] = Normalize(result) /\ msg' = msg
      BY <1>10, <3>1 DEF AdapterReturns, ProcsTypeOK
    <3>4. \A d \in Procs \ {e} : res'[d] = res[d] /\ pc'[d] = pc[d]
      BY <1>10, <3>1 DEF AdapterReturns, Goto, ProcsTypeOK
    <3> QED BY <1>0, <3>2, <3>3, <3>4 DEF OutcomeEvidence
  <2>4. ObservationEvidence'
    BY <1>0, <1>10 DEF AdapterReturns, ObservationEvidence, Goto, Exit, ProcsTypeOK
  <2>5. SnapshotEvidence'
    BY <1>0, <1>10 DEF AdapterReturns, SnapshotEvidence
  <2> QED BY <2>1, <2>2, <2>3, <2>4, <2>5
<1>11. ASSUME NEW e \in Procs, AdapterRaises(e)
      PROVE  Truth'
  BY <1>0, <1>11 DEF AdapterRaises, Goto, Exit, ProcsTypeOK, SucceededMeansGone, LocalAbsenceIsReal,
     OutcomeEvidence, ObservationEvidence, SnapshotEvidence
<1>12. ASSUME NEW e \in Procs, RecordOutcome(e)
      PROVE  Truth'
  <2>0. work[e] \in Plans /\ msg[e] \in Msgs
    BY <1>12 DEF RecordOutcome, ProcsTypeOK, Attempting
  <2>a. res[e] = "succeeded" => msg[e] \notin server
    BY <1>12 DEF RecordOutcome, OutcomeEvidence
  <2>1. SucceededMeansGone'
    BY <1>0, <1>12, <2>0, <2>a DEF RecordOutcome, SucceededMeansGone, TablesTypeOK
  <2>2. LocalAbsenceIsReal'
    BY <1>0, <1>12, <2>a DEF RecordOutcome, LocalAbsenceIsReal
  <2>3. OutcomeEvidence'
    BY <1>0, <1>12 DEF RecordOutcome, OutcomeEvidence, Goto, Exit, ProcsTypeOK
  <2>4. ObservationEvidence'
    BY <1>0, <1>12 DEF RecordOutcome, ObservationEvidence, Goto, Exit, ProcsTypeOK
  <2>5. SnapshotEvidence'
    BY <1>0, <1>12 DEF RecordOutcome, SnapshotEvidence
  <2> QED BY <2>1, <2>2, <2>3, <2>4, <2>5
<1>13. ASSUME NEW e \in Procs, RecordRaises(e)
      PROVE  Truth'
  BY <1>0, <1>13 DEF RecordRaises, Goto, Exit, ProcsTypeOK, SucceededMeansGone, LocalAbsenceIsReal,
     OutcomeEvidence, ObservationEvidence, SnapshotEvidence
<1>14. ASSUME NEW e \in Procs, Crash(e)
      PROVE  Truth'
  BY <1>0, <1>14 DEF Crash, Goto, Exit, ProcsTypeOK, SucceededMeansGone, LocalAbsenceIsReal,
     OutcomeEvidence, ObservationEvidence, SnapshotEvidence
<1>15. ASSUME NEW e \in Procs, NEW p \in Plans, ReconcileBegin(e, p)
      PROVE  Truth'
  BY <1>0, <1>15 DEF ReconcileBegin, Goto, Exit, ProcsTypeOK, SucceededMeansGone, LocalAbsenceIsReal,
     OutcomeEvidence, ObservationEvidence, SnapshotEvidence
<1>16. ASSUME NEW e \in Procs, ReconcileRow(e)
      PROVE  Truth'
  BY <1>0, <1>16 DEF ReconcileRow, Goto, Exit, ProcsTypeOK, SucceededMeansGone, LocalAbsenceIsReal,
     OutcomeEvidence, ObservationEvidence, SnapshotEvidence
<1>17. ASSUME NEW e \in Procs, Observe(e)
      PROVE  Truth'
  <2>1. SucceededMeansGone'
    BY <1>0, <1>17 DEF Observe, SucceededMeansGone
  <2>2. LocalAbsenceIsReal'
    BY <1>0, <1>17 DEF Observe, LocalAbsenceIsReal
  <2>3. OutcomeEvidence'
    BY <1>0, <1>17 DEF Observe, Goto, OutcomeEvidence, ProcsTypeOK, ObservationStates
  <2>4. ObservationEvidence'
    <3>1. PICK state \in ObservationStates :
             /\ Observable(msg[e], state)
             /\ res' = IF state \in {"confirmed-absent", "confirmed-present-match"}
                       THEN [res EXCEPT ![e] = state] ELSE res
      BY <1>17 DEF Observe
    <3>2. res'[e] = "confirmed-absent" => msg[e] \notin server
      BY <1>17, <3>1 DEF Observe, Observable, ProcsTypeOK, RowStatus
    <3>3. \A d \in Procs \ {e} : res'[d] = res[d] /\ pc'[d] = pc[d]
      BY <1>17, <3>1 DEF Observe, Goto, ProcsTypeOK
    <3>4. msg' = msg
      BY <1>17 DEF Observe
    <3> QED BY <1>0, <3>2, <3>3, <3>4 DEF ObservationEvidence
  <2>5. SnapshotEvidence'
    BY <1>0, <1>17 DEF Observe, SnapshotEvidence
  <2> QED BY <2>1, <2>2, <2>3, <2>4, <2>5
<1>18. ASSUME NEW e \in Procs, ReconcileWrite(e)
      PROVE  Truth'
  <2>0. work[e] \in Plans /\ msg[e] \in Msgs
    BY <1>18 DEF ReconcileWrite, ProcsTypeOK
  <2>a. res[e] = "confirmed-absent" => msg[e] \notin server
    BY <1>18 DEF ReconcileWrite, ObservationEvidence
  <2>1. SucceededMeansGone'
    BY <1>0, <1>18, <2>0, <2>a DEF ReconcileWrite, SucceededMeansGone, TablesTypeOK
  <2>2. LocalAbsenceIsReal'
    BY <1>0, <1>18, <2>a DEF ReconcileWrite, LocalAbsenceIsReal
  <2>3. OutcomeEvidence'
    BY <1>0, <1>18 DEF ReconcileWrite, OutcomeEvidence, Goto, Exit, ProcsTypeOK
  <2>4. ObservationEvidence'
    BY <1>0, <1>18 DEF ReconcileWrite, ObservationEvidence, Goto, Exit, ProcsTypeOK
  <2>5. SnapshotEvidence'
    BY <1>0, <1>18 DEF ReconcileWrite, SnapshotEvidence
  <2> QED BY <2>1, <2>2, <2>3, <2>4, <2>5
<1>19. ASSUME NEW a \in PresenceSync, SyncBegin(a)
      PROVE  Truth'
  BY <1>0, <1>19 DEF SyncBegin, MsgsOf, SucceededMeansGone, LocalAbsenceIsReal,
     OutcomeEvidence, ObservationEvidence, SnapshotEvidence
<1>20. ASSUME NEW a \in PresenceSync, NEW marksAbsent \in BOOLEAN, SyncEnd(a, marksAbsent)
      PROVE  Truth'
  <2>1. SucceededMeansGone'
    BY <1>0, <1>20 DEF SyncEnd, SucceededMeansGone
  <2>2. LocalAbsenceIsReal'
    <3>1. server \cap MsgsOf(a) \subseteq seen
      BY <1>20 DEF SyncEnd, SnapshotEvidence
    <3> QED BY <1>0, <1>20, <3>1 DEF SyncEnd, LocalAbsenceIsReal
  <2>3. OutcomeEvidence'
    BY <1>0, <1>20 DEF SyncEnd, OutcomeEvidence, Goto, Exit, ProcsTypeOK
  <2>4. ObservationEvidence'
    BY <1>0, <1>20 DEF SyncEnd, ObservationEvidence, Goto, Exit, ProcsTypeOK
  <2>5. SnapshotEvidence'
    <3>1. \A b \in Accounts : b # a => MsgsOf(b) \cap MsgsOf(a) = {}
      BY DEF MsgsOf
    <3> QED BY <1>0, <1>20, <3>1 DEF SyncEnd, SnapshotEvidence, ProviderTypeOK
  <2> QED BY <2>1, <2>2, <2>3, <2>4, <2>5
<1>21. ASSUME NEW a \in PresenceSync, NEW marked \in SUBSET Msgs, SyncFails(a, marked)
      PROVE  Truth'
  <2>1. SnapshotEvidence'
    <3>1. \A b \in Accounts : b # a => MsgsOf(b) \cap MsgsOf(a) = {}
      BY DEF MsgsOf
    <3> QED BY <1>0, <1>21, <3>1 DEF SyncFails, SnapshotEvidence, ProviderTypeOK
  <2> QED BY <1>0, <1>21, <2>1 DEF SyncFails, SucceededMeansGone, LocalAbsenceIsReal,
        OutcomeEvidence, ObservationEvidence
<1>22. ASSUME NEW m \in Msgs, PolicyChanges(m)
      PROVE  Truth'
  BY <1>0, <1>22 DEF PolicyChanges, SucceededMeansGone, LocalAbsenceIsReal,
     OutcomeEvidence, ObservationEvidence, SnapshotEvidence
<1>23. ASSUME NEW m \in Msgs, RemovedElsewhere(m)
      PROVE  Truth'
  BY <1>0, <1>23 DEF RemovedElsewhere, SucceededMeansGone, LocalAbsenceIsReal,
     OutcomeEvidence, ObservationEvidence, SnapshotEvidence
<1>24. ASSUME NEW p \in Plans, NEW m \in Msgs, AppliedLate(p, m)
      PROVE  Truth'
  BY <1>0, <1>24 DEF AppliedLate, SucceededMeansGone, LocalAbsenceIsReal,
     OutcomeEvidence, ObservationEvidence, SnapshotEvidence
<1>25. CASE UNCHANGED vars
  BY <1>25 DEF vars, SucceededMeansGone, LocalAbsenceIsReal, OutcomeEvidence,
     ObservationEvidence, SnapshotEvidence
<1> QED
  BY <1>1, <1>2, <1>3, <1>4, <1>5, <1>6, <1>7, <1>8, <1>9, <1>10, <1>11, <1>12, <1>13, <1>14,
     <1>15, <1>16, <1>17, <1>18, <1>19, <1>20, <1>21, <1>22, <1>23, <1>24, <1>25
     DEF Next, ExecuteStep, ReconcileStep

\* For any number of processes, plans, messages and crashes: a mutation recorded as succeeded
\* is a message that left the provider.
THEOREM RecordedSuccessIsTrue == Spec => []SucceededMeansGone
<1>1. Truth => SucceededMeansGone
  BY DEF Truth
<1> QED BY <1>1, InitTruth, NextTruth, TypeCorrect, PTL DEF Spec

\* Likewise, a message with remote_present=0 is really gone, whichever synchronisation,
\* execution or reconciliation cleared the flag.
THEOREM RecordedAbsenceIsTrue == Spec => []LocalAbsenceIsReal
<1>1. Truth => LocalAbsenceIsReal
  BY DEF Truth
<1> QED BY <1>1, InitTruth, NextTruth, TypeCorrect, PTL DEF Spec

-----------------------------------------------------------------------------
(* Selection: what the two limits leave of the eligible messages.          *)

\* A non-empty set of numbers has a least one.
LEMMA LeastNumber ==
  ASSUME NEW T \in SUBSET Nat, T # {}
  PROVE  \E x \in T : \A y \in T : x <= y
<1>1. PICK x \in T : \A y \in T : <<y, x>> \notin OpToRel(<, Nat)
  BY NatLessThanWellFounded, WFMin
<1>2. \A y \in T : ~(y < x)
  BY <1>1 DEF OpToRel
<1> QED BY <1>2

\* A rank is a number, and a later member has a greater one.
LEMMA RankGrows ==
  ASSUME NEW S \in SUBSET Nat, IsFiniteSet(S), NEW m \in S, NEW n \in Nat, m < n
  PROVE  Rank(S, m) \in Nat /\ Rank(S, n) \in Nat /\ Rank(S, m) < Rank(S, n)
<1> DEFINE A == {k \in S : k < m}
           B == {k \in S : k < n}
<1>1. IsFiniteSet(A) /\ IsFiniteSet(B)
  BY FS_Subset
<1>2. A \in SUBSET B /\ m \in B /\ m \notin A
  <2>1. \A k \in S : k < m => k < n
    OBVIOUS
  <2>2. ~(m < m)
    OBVIOUS
  <2> QED BY <2>1, <2>2
<1>3. Cardinality(A) <= Cardinality(B) /\ Cardinality(A) # Cardinality(B)
  <2> HIDE DEF A, B
  <2> QED BY <1>1, <1>2, FS_Subset
<1>4. Cardinality(A) \in Nat /\ Cardinality(B) \in Nat
  <2> HIDE DEF A, B
  <2> QED BY <1>1, FS_CardinalityType
<1>5. Cardinality(A) < Cardinality(B)
  <2> HIDE DEF A, B
  <2> QED BY <1>3, <1>4
<1> QED BY <1>4, <1>5 DEF Rank

\* Members whose ranks stay below a limit are at most that many: ranks tell them apart.
LEMMA RankBounds ==
  ASSUME NEW S \in SUBSET Nat, IsFiniteSet(S), NEW k \in Nat, NEW T \in SUBSET S,
         \A m \in T : Rank(S, m) < k
  PROVE  IsFiniteSet(T) /\ Cardinality(T) <= k
<1> DEFINE f == [m \in T |-> Rank(S, m)]
<1>1. \A m \in T : Rank(S, m) \in Nat
  <2> TAKE m \in T
  <2>1. IsFiniteSet({n \in S : n < m})
    BY FS_Subset
  <2> QED BY <2>1, FS_CardinalityType DEF Rank
<1>2. f \in [T -> 0..(k - 1)]
  BY <1>1
<1>3. \A m, n \in T : f[m] = f[n] => m = n
  <2> SUFFICES ASSUME NEW m \in T, NEW n \in T, m # n
               PROVE  Rank(S, m) # Rank(S, n)
    OBVIOUS
  <2>1. CASE m < n
    BY <2>1, RankGrows
  <2>2. CASE n < m
    BY <2>2, RankGrows
  <2> QED BY <2>1, <2>2
<1>4. f \in Injection(T, 0..(k - 1))
  <2> HIDE DEF f
  <2> QED BY <1>2, <1>3 DEF Injection, IsInjective
<1>5. IsFiniteSet(0..(k - 1)) /\ Cardinality(0..(k - 1)) = k
  BY FS_Interval
<1> HIDE DEF f
<1> QED BY <1>4, <1>5, FS_Injection

\* Where k members or more come before a number, the first k of them do: k members of rank
\* below k come before it.
LEMMA FirstRanks ==
  ASSUME NEW S \in SUBSET Nat, IsFiniteSet(S), NEW k \in Nat, NEW m \in S, Rank(S, m) >= k
  PROVE  \E first \in SUBSET S :
            /\ \A n \in first : n < m /\ Rank(S, n) < k
            /\ Cardinality(first) >= k
<1> DEFINE late == {n \in S : Rank(S, n) >= k}
<1>1. PICK x \in late : \A y \in late : x <= y
  <2>1. late \in SUBSET Nat /\ late # {}
    OBVIOUS
  <2> HIDE DEF late
  <2> QED BY <2>1, LeastNumber
<1> DEFINE first == {n \in S : n < x}
<1>2. x <= m /\ x \in S /\ Rank(S, x) >= k
  BY <1>1
<1>3. \A n \in first : Rank(S, n) \in Nat
  <2> TAKE n \in first
  <2>1. IsFiniteSet({j \in S : j < n})
    BY FS_Subset
  <2> QED BY <2>1, FS_CardinalityType DEF Rank
<1>4. \A n \in first : n \in S /\ n < x /\ n \notin late
  BY <1>1
<1>5. \A n \in first : n < m /\ Rank(S, n) < k
  BY <1>2, <1>3, <1>4
<1>6. Cardinality(first) >= k
  BY <1>2 DEF Rank
<1> QED BY <1>5, <1>6

\* The selected messages respect both limits, and a candidate that is left out has the rows
\* before it to blame.
LEMMA SelectUsesItsLimits ==
  ASSUME NEW E \in SUBSET Msgs, NEW maxRun \in Nat, NEW maxAcct \in Nat
  PROVE  LET sel == Select(E, maxRun, maxAcct)
             Before(m) == {n \in sel : n < m}
         IN
         /\ Cardinality(sel) <= maxRun
         /\ \A a \in Accounts : Cardinality(sel \cap MsgsOf(a)) <= maxAcct
         /\ \A m \in E \ sel :
               \/ Cardinality(Before(m)) >= maxRun
               \/ Cardinality(Before(m) \cap MsgsOf(AccountOf[m])) >= maxAcct
<1> DEFINE perAccount == {m \in E : Rank(E \cap MsgsOf(AccountOf[m]), m) < maxAcct}
           sel == {m \in perAccount : Rank(perAccount, m) < maxRun}
           Before(m) == {n \in sel : n < m}
<1>1. Select(E, maxRun, maxAcct) = sel
  BY DEF Select
<1>2. IsFiniteSet(E) /\ E \in SUBSET Nat
  BY FS_Subset
<1>3. IsFiniteSet(perAccount) /\ perAccount \in SUBSET Nat
  BY <1>2, FS_Subset
<1>4. sel \in SUBSET perAccount /\ \A m \in perAccount : m \in sel <=> Rank(perAccount, m) < maxRun
  OBVIOUS
<1>5. perAccount \in SUBSET E
      /\ \A m \in E : m \in perAccount <=> Rank(E \cap MsgsOf(AccountOf[m]), m) < maxAcct
  OBVIOUS
<1>6. \A a : IsFiniteSet(E \cap MsgsOf(a)) /\ E \cap MsgsOf(a) \in SUBSET Nat
  BY <1>2, FS_Subset
<1>7. \A m \in E : \A a : m \in MsgsOf(a) <=> AccountOf[m] = a
  BY DEF MsgsOf
<1>8. \A m : Before(m) \in SUBSET sel /\ \A n \in sel : n < m => n \in Before(m)
  OBVIOUS
<1> HIDE DEF perAccount, sel, Before
<1>9. IsFiniteSet(sel) /\ Cardinality(sel) <= maxRun
  BY <1>3, <1>4, RankBounds
<1>10. \A a \in Accounts : Cardinality(sel \cap MsgsOf(a)) <= maxAcct
  <2> TAKE a \in Accounts
  <2>1. \A m \in sel \cap MsgsOf(a) : Rank(E \cap MsgsOf(a), m) < maxAcct
    BY <1>4, <1>5, <1>7
  <2>2. sel \cap MsgsOf(a) \in SUBSET (E \cap MsgsOf(a))
    BY <1>4, <1>5
  <2> QED BY <1>6, <2>1, <2>2, RankBounds
<1>11. \A m, T : T \in SUBSET Before(m) => /\ Cardinality(T) <= Cardinality(Before(m))
                                           /\ Cardinality(T) \in Nat
                                           /\ Cardinality(Before(m)) \in Nat
  BY <1>8, <1>9, FS_Subset, FS_CardinalityType
<1>12. ASSUME NEW n \in perAccount, n \notin sel
       PROVE  Cardinality(Before(n)) >= maxRun
  <2>1. Rank(perAccount, n) >= maxRun
    <3>1. Rank(perAccount, n) \in Nat
      BY <1>3, FS_Subset, FS_CardinalityType DEF Rank
    <3> QED BY <1>4, <1>12, <3>1
  <2>2. PICK first \in SUBSET perAccount :
           /\ \A k \in first : k < n /\ Rank(perAccount, k) < maxRun
           /\ Cardinality(first) >= maxRun
    BY <1>3, <2>1, FirstRanks
  <2>3. first \in SUBSET Before(n)
    BY <1>4, <1>8, <2>2
  <2>4. Cardinality(first) <= Cardinality(Before(n)) /\ Cardinality(first) \in Nat
        /\ Cardinality(Before(n)) \in Nat
    BY <1>11, <2>3
  <2> QED BY <2>2, <2>4
<1>13. ASSUME NEW m \in E, m \notin sel
       PROVE  \/ Cardinality(Before(m)) >= maxRun
              \/ Cardinality(Before(m) \cap MsgsOf(AccountOf[m])) >= maxAcct
  <2>1. CASE m \in perAccount
    BY <1>12, <1>13, <2>1
  <2>2. CASE m \notin perAccount
    <3> DEFINE S == E \cap MsgsOf(AccountOf[m])
    <3>1. m \in S /\ IsFiniteSet(S) /\ S \in SUBSET Nat
      BY <1>6, <1>7
    <3>2. Rank(S, m) >= maxAcct
      <4>1. Rank(S, m) \in Nat
        BY <3>1, FS_Subset, FS_CardinalityType DEF Rank
      <4> QED BY <1>5, <2>2, <4>1
    <3>3. PICK first \in SUBSET S :
             /\ \A k \in first : k < m /\ Rank(S, k) < maxAcct
             /\ Cardinality(first) >= maxAcct
      <4> HIDE DEF S
      <4> QED BY <3>1, <3>2, FirstRanks
    <3>4. first \in SUBSET perAccount
      BY <1>5, <1>7, <3>3
    <3>5. CASE first \in SUBSET sel
      <4>1. first \in SUBSET (Before(m) \cap MsgsOf(AccountOf[m]))
        BY <1>8, <3>3, <3>5
      <4>2. IsFiniteSet(Before(m) \cap MsgsOf(AccountOf[m]))
        BY <1>8, <1>9, FS_Subset
      <4>3. /\ Cardinality(first) <= Cardinality(Before(m) \cap MsgsOf(AccountOf[m]))
            /\ Cardinality(first) \in Nat
            /\ Cardinality(Before(m) \cap MsgsOf(AccountOf[m])) \in Nat
        BY <4>1, <4>2, FS_Subset, FS_CardinalityType
      <4> QED BY <3>3, <4>3
    <3>6. CASE ~(first \in SUBSET sel)
      <4>1. PICK n \in first : n \notin sel
        BY <3>6
      <4>2. Cardinality(Before(n)) >= maxRun /\ n < m /\ n \in Nat /\ m \in Nat
        BY <1>2, <1>3, <1>12, <3>3, <3>4, <4>1
      <4>3. \A k \in sel : k \in Nat
        BY <1>3, <1>4
      <4>4. Before(n) \in SUBSET Before(m)
        BY <4>2, <4>3 DEF Before
      <4>5. Cardinality(Before(n)) <= Cardinality(Before(m)) /\ Cardinality(Before(n)) \in Nat
            /\ Cardinality(Before(m)) \in Nat
        BY <1>11, <4>4
      <4> QED BY <4>2, <4>5
    <3> QED BY <3>5, <3>6
  <2> QED BY <2>1, <2>2
<1> QED BY <1>1, <1>9, <1>10, <1>13 DEF Before

\* For any accounts, messages and limits: a plan holds eligible rows only, exceeds no limit
\* and leaves out no row that both limits still had room for.
THEOREM PlansUseTheirLimits == Spec => PlanUsesItsLimits
<1> DEFINE Fresh(p) == planState[p] = "none" /\ planState'[p] = "fresh"
           Before(q, m) == {n \in q.msgs : n < m}
           Made(q) ==
             /\ q.msgs \subseteq Candidates(q.filter)
             /\ Cardinality(q.msgs) <= q.maxRun
             /\ \A a \in Accounts : Cardinality(q.msgs \cap MsgsOf(a)) <= q.maxAcct
             /\ \A m \in Candidates(q.filter) \ q.msgs :
                   \/ Cardinality(Before(q, m)) >= q.maxRun
                   \/ Cardinality(Before(q, m) \cap MsgsOf(AccountOf[m])) >= q.maxAcct
<1>1. ASSUME TypeOK, [Next]_vars, NEW p \in Plans, Fresh(p)
      PROVE  Made(plan'[p])
  <2>1. PICK f \in Filters, maxRun \in Limits, maxAcct \in Limits :
           PlanDryRun(p, f, maxRun, maxAcct)
    <3>1. planState'[p] # planState[p]
      BY <1>1
    <3>2. \A q \in Plans : PlanExpires(q) => planState'[p] # "fresh" \/ planState[p] = "fresh"
      BY <1>1 DEF PlanExpires, TypeOK, TablesTypeOK
    <3>3. \A q \in Plans, f \in Filters, maxRun, maxAcct \in Limits :
             PlanDryRun(q, f, maxRun, maxAcct) => q = p
      BY <1>1, <3>1 DEF PlanDryRun, TypeOK, TablesTypeOK
    <3>4. UNCHANGED planState \/ (\E q \in Plans : PlanExpires(q))
          \/ \E q \in Plans, f \in Filters, maxRun, maxAcct \in Limits :
                PlanDryRun(q, f, maxRun, maxAcct)
      BY <1>1 DEF Next, vars, plans, ExecuteStep, ReconcileStep, ExecuteProductionPlan,
         Revalidate, InsertProductionRun, SerialNext, HaltStale, CommitStarted, AdapterBegin,
         AdapterReturns, AdapterRaises, RecordOutcome, RecordRaises, Crash, ReconcileBegin,
         ReconcileRow, Observe, ReconcileWrite, SyncBegin, SyncEnd, SyncFails, PolicyChanges,
         RemovedElsewhere, AppliedLate
    <3> QED BY <1>1, <3>1, <3>2, <3>3, <3>4
  <2> DEFINE E == Candidates(f)
             sel == Select(E, maxRun, maxAcct)
  <2>2. plan'[p] = [filter |-> f, msgs |-> sel, maxRun |-> maxRun, maxAcct |-> maxAcct]
    BY <1>1, <2>1 DEF PlanDryRun, TypeOK, TablesTypeOK
  <2>3. E \in SUBSET Msgs /\ maxRun \in Nat /\ maxAcct \in Nat
    BY DEF Candidates
  <2>4. sel \in SUBSET E
    BY <2>3, SelectIsSubset
  <2>5. /\ Cardinality(sel) <= maxRun
        /\ \A a \in Accounts : Cardinality(sel \cap MsgsOf(a)) <= maxAcct
        /\ \A m \in E \ sel :
              \/ Cardinality({n \in sel : n < m}) >= maxRun
              \/ Cardinality({n \in sel : n < m} \cap MsgsOf(AccountOf[m])) >= maxAcct
    <3> HIDE DEF E
    <3> QED BY <2>3, SelectUsesItsLimits
  <2> HIDE DEF sel
  <2> QED BY <2>2, <2>4, <2>5
<1>2. TypeOK /\ [Next]_vars => [\A p \in Plans : Fresh(p) => Made(plan'[p])]_plans
  BY <1>1
<1>3. PlanUsesItsLimits <=> [][\A p \in Plans : Fresh(p) => Made(plan'[p])]_plans
  BY DEF PlanUsesItsLimits
<1> QED BY <1>2, <1>3, TypeCorrect, PTL DEF Spec

=============================================================================
