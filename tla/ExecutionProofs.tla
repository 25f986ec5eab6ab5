--------------------------- MODULE ExecutionProofs ---------------------------
(***************************************************************************)
(* The execution discipline of the remote-deletion engine, for any number  *)
(* of messages, accounts, processes, plans and crashes: one production run *)
(* per plan, one owner per run, one provider call per row, in order, up to *)
(* the first row that is not a success.  Then what a prompt provider adds, *)
(* and what holds while one operator at a time runs the command.           *)
(***************************************************************************)
EXTENDS RemoteMutationProofs

-----------------------------------------------------------------------------
(* The inductive invariant.                                                *)

Untouched == {"none", "planned"}
Passed == {"none", "planned", "succeeded"}

\* The unique index at work: a run that is being executed is open, and has one executor.
OwnsOpenRun == \A e \in Procs : pc[e] \in Executing => run[work[e]] = "planned"

OneOwner ==
    \A d, e \in Procs :
        pc[d] \in Executing /\ pc[e] \in Executing /\ work[d] = work[e] => d = e

\* A plan that somebody works on, or that has a run, is never planned again.
PlanIsFixed ==
    /\ \A p \in Plans : run[p] # "none" => planState[p] # "none"
    /\ \A e \in Procs : pc[e] # "idle" => planState[work[e]] # "none"

\* The rows of a run are the rows of its plan.
RowsOfRun ==
    \A p \in Plans, m \in Msgs :
        row[p][m] # "none" <=> run[p] # "none" /\ m \in plan[p].msgs

CallsFollowRows ==
    \A p \in Plans, m \in Msgs :
        calls[p][m] <= 1 /\ (row[p][m] \in Untouched => calls[p][m] = 0)

\* What an executor knows of the rows of its run, of which nobody else writes any.
Position(e) ==
    /\ pc[e] = "loop" => \A m \in Msgs : row[work[e]][m] \in Passed
    /\ pc[e] \in {"start", "stale"} =>
          /\ row[work[e]][msg[e]] = "planned"
          /\ \A m \in Msgs : row[work[e]][m] \in Passed
          /\ \A m \in Msgs : m < msg[e] => row[work[e]][m] # "planned"
    /\ pc[e] \in Attempting =>
          /\ row[work[e]][msg[e]] = "started"
          /\ \A m \in Msgs : m # msg[e] => row[work[e]][m] \in Passed
    /\ pc[e] = "call" => calls[work[e]][msg[e]] = 0

Positions == \A e \in Procs : Position(e)

\* The rows of a run in planning order: successes, at most one other outcome, the rest.
InOrder ==
    \A p \in Plans : \A m, n \in Msgs :
        m < n /\ row[p][m] # "none" /\ row[p][n] \notin Untouched => row[p][m] = "succeeded"

\* The rows a reconciliation has still to write.
Targets(e) == todo[e] \cup (IF pc[e] \in {"observe", "write"} THEN {msg[e]} ELSE {})

\* They are the last rows anybody worked on in a halted run.
Frontier ==
    \A e \in Procs : pc[e] \in Reconciling =>
        /\ run[work[e]] = "halted"
        /\ \A m \in Targets(e) :
              /\ row[work[e]][m] \notin Untouched
              /\ \A n \in Msgs : m < n => row[work[e]][n] \in Untouched

Discipline ==
    /\ OwnsOpenRun /\ OneOwner /\ PlanIsFixed /\ RowsOfRun /\ CallsFollowRows
    /\ Positions /\ InOrder /\ Frontier /\ HaltedRunHasOutcome

\* Nothing has been planned, so nobody owns anything.
LEMMA InitDiscipline == Init => Discipline
  BY DEF Init, Discipline, OwnsOpenRun, OneOwner, PlanIsFixed, RowsOfRun, CallsFollowRows,
         Positions, Position, InOrder, Frontier, HaltedRunHasOutcome, Executing, Attempting,
         Reconciling, Untouched, Passed

\* A process that ends without writing to SQLite leaves the discipline as it was.
LEMMA ExitDiscipline ==
  ASSUME TypeOK, Discipline, NEW e \in Procs, Exit(e), UNCHANGED <<plans, mutations, calls>>
  PROVE  Discipline'
<1> USE DEF TypeOK, ProcsTypeOK, Discipline, Exit, plans, mutations
<1>1. pc'[e] = "idle" /\ \A d \in Procs : d # e => /\ pc'[d] = pc[d] /\ work'[d] = work[d]
                                                  /\ msg'[d] = msg[d] /\ todo'[d] = todo[d]
  OBVIOUS
<1>2. OwnsOpenRun' /\ OneOwner'
  BY <1>1 DEF OwnsOpenRun, OneOwner, Executing
<1>3. PlanIsFixed' /\ RowsOfRun' /\ CallsFollowRows' /\ InOrder' /\ HaltedRunHasOutcome'
  BY <1>1 DEF PlanIsFixed, RowsOfRun, CallsFollowRows, InOrder, HaltedRunHasOutcome
<1>4. Positions'
  BY <1>1 DEF Positions, Position, Attempting
<1>5. Frontier'
  BY <1>1 DEF Frontier, Targets, Reconciling
<1> QED BY <1>2, <1>3, <1>4, <1>5

\* Nor does one that goes from one point of an attempt to a later one.
LEMMA AnswerDiscipline ==
  ASSUME TypeOK, Discipline, NEW e \in Procs, pc[e] \in Attempting,
         NEW label \in {"record", "recordException"}, Goto(e, label),
         UNCHANGED <<plans, mutations, calls, work, msg, todo>>
  PROVE  Discipline'
<1> USE DEF TypeOK, ProcsTypeOK, Discipline, Goto, plans, mutations
<1>1. pc'[e] = label /\ \A d \in Procs : d # e => pc'[d] = pc[d]
  OBVIOUS
<1>2. OwnsOpenRun' /\ OneOwner'
  BY <1>1 DEF OwnsOpenRun, OneOwner, Executing, Attempting
<1>3. PlanIsFixed' /\ RowsOfRun' /\ CallsFollowRows' /\ InOrder' /\ HaltedRunHasOutcome'
  BY <1>1 DEF PlanIsFixed, RowsOfRun, CallsFollowRows, InOrder, HaltedRunHasOutcome, Attempting
<1>4. Positions'
  BY <1>1 DEF Positions, Position, Attempting
<1>5. Frontier'
  BY <1>1 DEF Frontier, Targets, Reconciling
<1> QED BY <1>2, <1>3, <1>4, <1>5

\* Every step of every process keeps the discipline.
LEMMA NextDiscipline == TypeOK /\ Discipline /\ [Next]_vars => Discipline'
<1> SUFFICES ASSUME TypeOK, Discipline, [Next]_vars
             PROVE  Discipline'
  OBVIOUS
<1> USE DEF TypeOK, Discipline, plans, mutations, provider, acquisition, procs
<1>1. ASSUME NEW p \in Plans, NEW f \in Filters, NEW maxRun \in Limits, NEW maxAcct \in Limits,
             PlanDryRun(p, f, maxRun, maxAcct)
      PROVE  Discipline'
  <2>1. run[p] = "none" /\ \A q \in Plans : q # p => plan'[q] = plan[q]
    BY <1>1 DEF PlanDryRun, PlanIsFixed, TablesTypeOK
  <2>2. PlanIsFixed'
    BY <1>1 DEF PlanDryRun, PlanIsFixed, TablesTypeOK, ProcsTypeOK
  <2>3. RowsOfRun'
    BY <1>1, <2>1 DEF PlanDryRun, RowsOfRun
  <2>4. Positions' /\ Frontier'
    BY <1>1 DEF PlanDryRun, Positions, Position, Frontier, Targets
  <2> QED BY <1>1, <2>2, <2>3, <2>4 DEF PlanDryRun, OwnsOpenRun, OneOwner, CallsFollowRows,
             InOrder, HaltedRunHasOutcome
<1>2. ASSUME NEW p \in Plans, PlanExpires(p)
      PROVE  Discipline'
  <2>1. PlanIsFixed'
    BY <1>2 DEF PlanExpires, PlanIsFixed, TablesTypeOK, ProcsTypeOK
  <2>2. Positions' /\ Frontier'
    BY <1>2 DEF PlanExpires, Positions, Position, Frontier, Targets
  <2> QED BY <1>2, <2>1, <2>2 DEF PlanExpires, OwnsOpenRun, OneOwner, RowsOfRun,
             CallsFollowRows, InOrder, HaltedRunHasOutcome
<1>3. ASSUME NEW e \in Procs, NEW p \in Plans, NEW maxRun \in Limits, NEW maxAcct \in Limits,
             ExecuteProductionPlan(e, p, maxRun, maxAcct)
      PROVE  Discipline'
  <2>1. /\ pc'[e] = "revalidate" /\ work'[e] = p
        /\ \A d \in Procs : d # e => pc'[d] = pc[d] /\ work'[d] = work[d]
        /\ UNCHANGED <<planState, plan, run, row, calls, msg, todo>>
        /\ planState[p] # "none"
    BY <1>3 DEF ExecuteProductionPlan, Goto, ProcsTypeOK
  <2>2. OwnsOpenRun' /\ OneOwner' /\ PlanIsFixed'
    BY <2>1 DEF OwnsOpenRun, OneOwner, PlanIsFixed, Executing
  <2>3. Positions'
    BY <2>1 DEF Positions, Position, Attempting
  <2>4. Frontier'
    BY <2>1 DEF Frontier, Targets, Reconciling
  <2> QED BY <2>1, <2>2, <2>3, <2>4 DEF RowsOfRun, CallsFollowRows, InOrder,
             HaltedRunHasOutcome
<1>4. ASSUME NEW e \in Procs, Revalidate(e)
      PROVE  Discipline'
  <2>1. CASE Exit(e)
    BY <1>4, <2>1, ExitDiscipline DEF Revalidate
  <2>2. CASE Goto(e, "insert") /\ UNCHANGED <<work, msg, res, todo>>
    <3>1. /\ pc'[e] = "insert" /\ pc[e] = "revalidate"
          /\ \A d \in Procs : d # e => pc'[d] = pc[d]
          /\ UNCHANGED <<planState, plan, run, row, calls, work, msg, todo>>
      BY <1>4, <2>2 DEF Revalidate, Goto, ProcsTypeOK
    <3>2. OwnsOpenRun' /\ OneOwner' /\ PlanIsFixed'
      BY <3>1 DEF OwnsOpenRun, OneOwner, PlanIsFixed, Executing
    <3>3. Positions'
      BY <3>1 DEF Positions, Position, Attempting
    <3>4. Frontier'
      BY <3>1 DEF Frontier, Targets, Reconciling
    <3> QED BY <3>1, <3>2, <3>3, <3>4 DEF RowsOfRun, CallsFollowRows, InOrder,
               HaltedRunHasOutcome
  <2> QED BY <1>4, <2>1, <2>2 DEF Revalidate
<1>5. ASSUME NEW e \in Procs, InsertProductionRun(e)
      PROVE  Discipline'
  <2>1. CASE ~UniqueIndexAllows(work[e])
    BY <1>5, <2>1, ExitDiscipline DEF InsertProductionRun
  <2>2. CASE UniqueIndexAllows(work[e])
    <3> DEFINE p == work[e]
    <3>1. p \in Plans /\ run[p] = "none" /\ planState[p] # "none"
      BY <1>5, <2>2 DEF InsertProductionRun, ProcsTypeOK, PlanIsFixed, UniqueIndexAllows
    <3>2. /\ pc'[e] = "loop" /\ pc[e] = "insert"
          /\ \A d \in Procs : d # e => pc'[d] = pc[d]
          /\ run'[p] = "planned" /\ \A q \in Plans : q # p => run'[q] = run[q] /\ row'[q] = row[q]
          /\ \A m \in Msgs : row'[p][m] = IF m \in plan[p].msgs THEN "planned" ELSE "none"
          /\ UNCHANGED <<planState, plan, calls, work, msg, todo>>
      BY <1>5, <2>2, <3>1 DEF InsertProductionRun, Goto, ProcsTypeOK, TablesTypeOK
    <3>3. \A d \in Procs : pc[d] \in Executing \cup Reconciling => work[d] # p /\ work[d] \in Plans
      BY <3>1 DEF OwnsOpenRun, Frontier, Executing, Reconciling, ProcsTypeOK
    <3> HIDE DEF p
    <3>4. OwnsOpenRun' /\ OneOwner'
      BY <3>1, <3>2, <3>3 DEF OwnsOpenRun, OneOwner, Executing, p
    <3>5. PlanIsFixed' /\ RowsOfRun' /\ HaltedRunHasOutcome'
      BY <3>1, <3>2 DEF PlanIsFixed, RowsOfRun, HaltedRunHasOutcome, p
    <3>6. CallsFollowRows'
      BY <3>1, <3>2 DEF CallsFollowRows, RowsOfRun, Untouched
    <3>7. Positions'
      <4>1. \A m \in Msgs : row'[p][m] \in Untouched
        BY <3>2 DEF Untouched
      <4> QED BY <3>1, <3>2, <3>3, <4>1 DEF Positions, Position, Attempting, Executing, Passed,
                 Untouched, p
    <3>8. InOrder'
      BY <3>1, <3>2 DEF InOrder, Untouched
    <3>9. Frontier'
      BY <3>1, <3>2, <3>3 DEF Frontier, Targets, Reconciling
    <3> QED BY <3>4, <3>5, <3>6, <3>7, <3>8, <3>9
  <2> QED BY <2>1, <2>2
<1>6. ASSUME NEW e \in Procs, SerialNext(e)
      PROVE  Discipline'
  <2> DEFINE p == work[e]
  <2>1. /\ p \in Plans /\ pc[e] = "loop" /\ run[p] = "planned" /\ planState[p] # "none"
        /\ \A m \in Msgs : row[p][m] \in Passed
    BY <1>6 DEF SerialNext, ProcsTypeOK, OwnsOpenRun, Executing, Positions, Position, PlanIsFixed
  <2>2. \A d \in Procs : pc[d] \in Executing \cup Reconciling /\ d # e => work[d] # p
    BY <2>1 DEF OneOwner, Frontier, Executing
  <2>3. UNCHANGED <<planState, plan, row, calls>>
    BY <1>6 DEF SerialNext
  <2>4. CASE Exit(e)
    <3>1. /\ pc'[e] = "idle"
          /\ \A d \in Procs : d # e => /\ pc'[d] = pc[d] /\ work'[d] = work[d]
                                       /\ msg'[d] = msg[d] /\ todo'[d] = todo[d]
      BY <2>4 DEF Exit, ProcsTypeOK
    <3>2. run'[p] \in {"planned", "completed"} /\ \A q \in Plans : q # p => run'[q] = run[q]
      BY <1>6, <2>1 DEF SerialNext, TablesTypeOK
    <3>3. \A d \in Procs : pc[d] # "idle" => work[d] \in Plans
      BY DEF ProcsTypeOK
    <3> HIDE DEF p
    <3>4. OwnsOpenRun' /\ OneOwner'
      BY <2>2, <3>1, <3>2, <3>3 DEF OwnsOpenRun, OneOwner, Executing
    <3>5. PlanIsFixed' /\ RowsOfRun' /\ HaltedRunHasOutcome'
      BY <2>1, <2>3, <3>1, <3>2 DEF PlanIsFixed, RowsOfRun, HaltedRunHasOutcome
    <3>6. Positions'
      BY <2>3, <3>1 DEF Positions, Position, Attempting
    <3>7. Frontier'
      BY <2>2, <2>3, <3>1, <3>2, <3>3 DEF Frontier, Targets, Reconciling
    <3> QED BY <2>3, <3>4, <3>5, <3>6, <3>7 DEF CallsFollowRows, InOrder
  <2>5. CASE ~Exit(e)
    <3>1. PICK m \in RowsIn(p, {"planned"}) :
             /\ IsLeast(m, RowsIn(p, {"planned"}))
             /\ msg' = [msg EXCEPT ![e] = m]
             /\ Goto(e, IF Eligible(m) THEN "start" ELSE "stale")
             /\ UNCHANGED <<run, work, todo>>
      BY <1>6, <2>5 DEF SerialNext
    <3>2. /\ m \in Msgs /\ row[p][m] = "planned"
          /\ \A n \in Msgs : n < m => row[p][n] # "planned"
      <4>1. m \in Msgs /\ row[p][m] = "planned"
        BY <3>1 DEF RowsIn
      <4>2. \A n \in Msgs : row[p][n] = "planned" => m <= n
        BY <3>1 DEF RowsIn, IsLeast
      <4>3. \A n \in Msgs : n < m => ~(m <= n)
        BY <4>1, MsgsAssumption
      <4> QED BY <4>1, <4>2, <4>3
    <3>3. /\ pc'[e] \in {"start", "stale"} /\ msg'[e] = m
          /\ \A d \in Procs : d # e => pc'[d] = pc[d] /\ msg'[d] = msg[d]
      BY <3>1 DEF Goto, ProcsTypeOK
    <3>4. OwnsOpenRun' /\ OneOwner' /\ PlanIsFixed'
      BY <2>1, <2>2, <2>3, <3>1, <3>3 DEF OwnsOpenRun, OneOwner, PlanIsFixed, Executing
    <3>5. Positions'
      BY <2>1, <2>3, <3>1, <3>2, <3>3 DEF Positions, Position, Attempting
    <3>6. Frontier'
      BY <2>3, <3>1, <3>3 DEF Frontier, Targets, Reconciling
    <3> QED BY <2>3, <3>1, <3>4, <3>5, <3>6 DEF RowsOfRun, CallsFollowRows, InOrder,
               HaltedRunHasOutcome
  <2> QED BY <2>4, <2>5
<1>7. ASSUME NEW e \in Procs, HaltStale(e)
      PROVE  Discipline'
  <2> DEFINE p == work[e]
             m == msg[e]
  <2>1. /\ p \in Plans /\ m \in Msgs /\ run[p] = "planned" /\ planState[p] # "none"
        /\ pc[e] = "stale" /\ row[p][m] = "planned"
        /\ \A n \in Msgs : row[p][n] \in Passed
        /\ \A n \in Msgs : n < m => row[p][n] # "planned"
    BY <1>7 DEF HaltStale, ProcsTypeOK, OwnsOpenRun, Executing, Positions, Position, PlanIsFixed
  <2>2. \A d \in Procs : pc[d] \in Executing \cup Reconciling /\ d # e =>
           work[d] # p /\ work[d] \in Plans
    BY <2>1 DEF OneOwner, Frontier, Executing, Reconciling, ProcsTypeOK
  <2>3. /\ pc'[e] = "idle"
        /\ \A d \in Procs : d # e => /\ pc'[d] = pc[d] /\ work'[d] = work[d]
                                     /\ msg'[d] = msg[d] /\ todo'[d] = todo[d]
    BY <1>7 DEF HaltStale, Exit, ProcsTypeOK
  <2>4. /\ run'[p] = "halted" /\ row'[p][m] = "failed"
        /\ \A q \in Plans : q # p => run'[q] = run[q] /\ row'[q] = row[q]
        /\ \A n \in Msgs : n # m => row'[p][n] = row[p][n]
        /\ UNCHANGED <<planState, plan, calls>>
    BY <1>7, <2>1 DEF HaltStale, TablesTypeOK
  <2> HIDE DEF p, m
  <2>5. OwnsOpenRun' /\ OneOwner'
    BY <2>2, <2>3, <2>4 DEF OwnsOpenRun, OneOwner, Executing
  <2>6. PlanIsFixed'
    BY <2>1, <2>3, <2>4 DEF PlanIsFixed
  <2>7. RowsOfRun'
    <3>1. \A q \in Plans, n \in Msgs : row'[q][n] = "none" <=> row[q][n] = "none"
      BY <2>1, <2>4
    <3>2. \A q \in Plans : run'[q] = "none" <=> run[q] = "none"
      BY <2>1, <2>4
    <3> QED BY <2>4, <3>1, <3>2 DEF RowsOfRun
  <2>12. HaltedRunHasOutcome'
    BY <2>1, <2>4 DEF HaltedRunHasOutcome, Passed
  <2>8. CallsFollowRows'
    BY <2>1, <2>4 DEF CallsFollowRows, Untouched
  <2>9. Positions'
    BY <2>2, <2>3, <2>4 DEF Positions, Position, Attempting, Executing
  <2>10. InOrder'
    BY <2>1, <2>4 DEF InOrder, Untouched, Passed
  <2>11. Frontier'
    BY <2>2, <2>3, <2>4 DEF Frontier, Targets, Reconciling
  <2> QED BY <2>5, <2>6, <2>7, <2>8, <2>9, <2>10, <2>11, <2>12
<1>8. ASSUME NEW e \in Procs, CommitStarted(e)
      PROVE  Discipline'
  <2> DEFINE p == work[e]
             m == msg[e]
  <2>1. /\ p \in Plans /\ m \in Msgs /\ run[p] = "planned"
        /\ pc[e] = "start" /\ row[p][m] = "planned"
        /\ \A n \in Msgs : row[p][n] \in Passed
        /\ \A n \in Msgs : n < m => row[p][n] # "planned"
    BY <1>8 DEF CommitStarted, ProcsTypeOK, OwnsOpenRun, Executing, Positions, Position
  <2>2. \A d \in Procs : pc[d] \in Executing \cup Reconciling /\ d # e =>
           work[d] # p /\ work[d] \in Plans
    BY <2>1 DEF OneOwner, Frontier, Executing, Reconciling, ProcsTypeOK
  <2>3. pc'[e] = "call" /\ \A d \in Procs : d # e => pc'[d] = pc[d]
    BY <1>8 DEF CommitStarted, Goto, ProcsTypeOK
  <2>4. /\ row'[p][m] = "started"
        /\ \A q \in Plans : q # p => row'[q] = row[q]
        /\ \A n \in Msgs : n # m => row'[p][n] = row[p][n]
        /\ UNCHANGED <<planState, plan, run, calls, work, msg, todo>>
    BY <1>8, <2>1 DEF CommitStarted, TablesTypeOK
  <2>5. OwnsOpenRun' /\ OneOwner' /\ PlanIsFixed'
    BY <2>1, <2>3, <2>4 DEF OwnsOpenRun, OneOwner, PlanIsFixed, Executing
  <2>6. calls[p][m] = 0
    BY <2>1 DEF CallsFollowRows, Untouched
  <2>7. Positions'
    BY <2>1, <2>2, <2>3, <2>4, <2>6 DEF Positions, Position, Attempting, Executing
  <2> HIDE DEF p, m
  <2>8. Frontier'
    BY <2>2, <2>3, <2>4 DEF Frontier, Targets, Reconciling
  <2>9. RowsOfRun' /\ HaltedRunHasOutcome'
    <3>1. \A q \in Plans, n \in Msgs : row'[q][n] = "none" <=> row[q][n] = "none"
      BY <2>1, <2>4
    <3>2. RowsOfRun'
      BY <2>4, <3>1 DEF RowsOfRun
    <3> QED BY <2>1, <2>4, <3>2 DEF HaltedRunHasOutcome
  <2>10. CallsFollowRows'
    BY <2>1, <2>4 DEF CallsFollowRows, Untouched
  <2>11. InOrder'
    BY <2>1, <2>4 DEF InOrder, Untouched, Passed
  <2> QED BY <2>5, <2>7, <2>8, <2>9, <2>10, <2>11
<1>9. ASSUME NEW e \in Procs, AdapterBegin(e)
      PROVE  Discipline'
  <2> DEFINE p == work[e]
             m == msg[e]
  <2>1. /\ p \in Plans /\ m \in Msgs /\ pc[e] = "call"
        /\ row[p][m] = "started" /\ calls[p][m] = 0
    BY <1>9 DEF AdapterBegin, ProcsTypeOK, Positions, Position, Attempting
  <2>2. CASE UNCHANGED calls
    <3>1. Goto(e, "record") \/ Goto(e, "recordException")
      <4>1. calls[p][m] + 1 # calls[p][m]
        BY <2>1
      <4>2. calls' # [calls EXCEPT ![p][m] = @ + 1]
        BY <2>1, <2>2, <4>1 DEF ProviderTypeOK
      <4> QED BY <1>9, <4>2 DEF AdapterBegin
    <3>2. pc[e] \in Attempting
      BY <2>1 DEF Attempting
    <3>3. UNCHANGED <<plans, mutations, calls, work, msg, todo>>
      BY <1>9, <2>2 DEF AdapterBegin
    <3> QED BY <3>1, <3>2, <3>3, AnswerDiscipline
  <2>3. CASE calls' # calls
    <3>1. /\ pc'[e] = "incall"
          /\ \A d \in Procs : d # e => pc'[d] = pc[d]
          /\ UNCHANGED <<planState, plan, run, row, work, msg, todo>>
      BY <1>9, <2>3 DEF AdapterBegin, Goto, ProcsTypeOK
    <3>2. /\ calls'[p][m] = 1
          /\ \A q \in Plans, n \in Msgs : <<q, n>> # <<p, m>> => calls'[q][n] = calls[q][n]
      BY <1>9, <2>1, <2>3 DEF AdapterBegin, ProviderTypeOK
    <3>3. \A d \in Procs : pc[d] \in Executing /\ d # e => work[d] # p /\ work[d] \in Plans
      BY <2>1 DEF OneOwner, Executing, ProcsTypeOK
    <3>4. \A d \in Procs : pc[d] = "call" => work[d] \in Plans /\ msg[d] \in Msgs
      BY DEF ProcsTypeOK, Attempting
    <3> HIDE DEF p, m
    <3>5. OwnsOpenRun' /\ OneOwner' /\ PlanIsFixed'
      BY <2>1, <3>1 DEF OwnsOpenRun, OneOwner, PlanIsFixed, Executing
    <3>6. Positions'
      <4>1. Position(e)'
        BY <2>1, <3>1 DEF Positions, Position, Attempting, p, m
      <4>2. ASSUME NEW d \in Procs, d # e
            PROVE  Position(d)'
        <5>1. pc'[d] = pc[d] /\ UNCHANGED <<row, work, msg>> /\ Position(d)
          BY <3>1, <4>2 DEF Positions
        <5>2. pc[d] = "call" => calls'[work[d]][msg[d]] = calls[work[d]][msg[d]]
          BY <3>2, <3>3, <3>4, <4>2 DEF Executing
        <5> QED BY <5>1, <5>2 DEF Position
      <4> QED BY <4>1, <4>2 DEF Positions
    <3>7. CallsFollowRows'
      BY <2>1, <3>1, <3>2 DEF CallsFollowRows, Untouched
    <3>8. Frontier'
      BY <3>1 DEF Frontier, Targets, Reconciling
    <3> QED BY <3>1, <3>5, <3>6, <3>7, <3>8 DEF RowsOfRun, InOrder, HaltedRunHasOutcome
  <2> QED BY <2>2, <2>3
<1>10. ASSUME NEW e \in Procs, AdapterReturns(e) \/ AdapterRaises(e) \/ RecordRaises(e)
       PROVE  Discipline'
  <2>1. Goto(e, "record") \/ Goto(e, "recordException")
    BY <1>10 DEF AdapterReturns, AdapterRaises, RecordRaises
  <2>2. pc[e] \in Attempting /\ UNCHANGED <<plans, mutations, calls, work, msg, todo>>
    BY <1>10 DEF AdapterReturns, AdapterRaises, RecordRaises, Attempting
  <2> QED BY <2>1, <2>2, AnswerDiscipline
<1>11. ASSUME NEW e \in Procs, RecordOutcome(e)
       PROVE  Discipline'
  <2> DEFINE p == work[e]
             m == msg[e]
  <2>1. /\ p \in Plans /\ m \in Msgs /\ run[p] = "planned" /\ planState[p] # "none"
        /\ pc[e] \in {"record", "recordException"} /\ row[p][m] = "started"
        /\ \A n \in Msgs : n # m => row[p][n] \in Passed
        /\ res[e] \in {"succeeded", "failed", "unknown"}
    BY <1>11 DEF RecordOutcome, ProcsTypeOK, OwnsOpenRun, Executing, Attempting, Positions,
       Position, PlanIsFixed
  <2>2. \A d \in Procs : pc[d] \in Executing \cup Reconciling /\ d # e =>
           work[d] # p /\ work[d] \in Plans
    BY <2>1 DEF OneOwner, Frontier, Executing, Reconciling, ProcsTypeOK
  <2>3. /\ \A d \in Procs : d # e => /\ pc'[d] = pc[d] /\ work'[d] = work[d]
                                     /\ msg'[d] = msg[d] /\ todo'[d] = todo[d]
        /\ \/ pc'[e] = "loop" /\ work'[e] = p /\ run' = run /\ res[e] = "succeeded"
           \/ pc'[e] = "idle" /\ run'[p] = "halted" /\ \A q \in Plans : q # p => run'[q] = run[q]
    BY <1>11, <2>1 DEF RecordOutcome, Goto, Exit, ProcsTypeOK, TablesTypeOK
  <2>4. /\ row'[p][m] = res[e]
        /\ \A q \in Plans : q # p => row'[q] = row[q]
        /\ \A n \in Msgs : n # m => row'[p][n] = row[p][n]
        /\ UNCHANGED <<planState, plan, calls>>
    BY <1>11, <2>1 DEF RecordOutcome, TablesTypeOK
  <2> HIDE DEF p, m
  <2>5. OwnsOpenRun' /\ OneOwner'
    BY <2>1, <2>2, <2>3 DEF OwnsOpenRun, OneOwner, Executing
  <2>6. PlanIsFixed'
    BY <2>1, <2>3, <2>4 DEF PlanIsFixed
  <2>7. RowsOfRun'
    <3>1. \A q \in Plans, n \in Msgs : row'[q][n] = "none" <=> row[q][n] = "none"
      BY <2>1, <2>4
    <3>2. \A q \in Plans : run'[q] = "none" <=> run[q] = "none"
      BY <2>1, <2>3
    <3> QED BY <2>4, <3>1, <3>2 DEF RowsOfRun
  <2>8. HaltedRunHasOutcome'
    BY <2>1, <2>3, <2>4 DEF HaltedRunHasOutcome, Passed
  <2>9. CallsFollowRows'
    BY <2>1, <2>4 DEF CallsFollowRows, Untouched
  <2>10. Positions'
    BY <2>1, <2>2, <2>3, <2>4 DEF Positions, Position, Attempting, Executing, Passed
  <2>11. InOrder'
    BY <2>1, <2>4, MsgsAssumption DEF InOrder, Untouched, Passed
  <2>12. Frontier'
    <3>1. \A d \in Procs : pc'[d] \in Reconciling =>
             /\ pc[d] \in Reconciling
             /\ run'[work'[d]] = run[work[d]]
             /\ row'[work'[d]] = row[work[d]]
             /\ Targets(d)' = Targets(d)
      BY <2>2, <2>3, <2>4 DEF Targets, Reconciling
    <3> QED BY <3>1 DEF Frontier
  <2> QED BY <2>5, <2>6, <2>7, <2>8, <2>9, <2>10, <2>11, <2>12
<1>12. ASSUME NEW e \in Procs, Crash(e)
       PROVE  Discipline'
  BY <1>12, ExitDiscipline DEF Crash
<1>13. ASSUME NEW e \in Procs, NEW p \in Plans, ReconcileBegin(e, p)
       PROVE  Discipline'
  <2>1. /\ pc'[e] = "reconcile" /\ work'[e] = p /\ run[p] = "halted" /\ planState[p] # "none"
        /\ \A d \in Procs : d # e => /\ pc'[d] = pc[d] /\ work'[d] = work[d]
                                     /\ todo'[d] = todo[d]
        /\ todo'[e] = RowsIn(p, Unresolved)
        /\ UNCHANGED <<planState, plan, run, row, calls, msg>>
    BY <1>13 DEF ReconcileBegin, Goto, ProcsTypeOK, PlanIsFixed, Recoverable
  <2>2. OwnsOpenRun' /\ OneOwner' /\ PlanIsFixed'
    BY <2>1 DEF OwnsOpenRun, OneOwner, PlanIsFixed, Executing
  <2>3. Positions'
    BY <2>1 DEF Positions, Position, Attempting
  <2>4. Frontier'
    <3>1. \A m \in RowsIn(p, Unresolved) :
             /\ row[p][m] \notin Untouched
             /\ \A n \in Msgs : m < n => row[p][n] \in Untouched
      BY DEF RowsIn, Unresolved, Untouched, InOrder
    <3>2. Targets(e)' = RowsIn(p, Unresolved)
      BY <2>1 DEF Targets
    <3>3. \A d \in Procs : d # e => Targets(d)' = Targets(d)
      BY <2>1 DEF Targets
    <3>4. \A d \in Procs : d # e /\ pc'[d] \in Reconciling =>
             /\ run'[work'[d]] = "halted"
             /\ \A m \in Targets(d)' :
                   /\ row'[work'[d]][m] \notin Untouched
                   /\ \A n \in Msgs : m < n => row'[work'[d]][n] \in Untouched
      BY <2>1, <3>3 DEF Frontier
    <3> QED BY <2>1, <3>1, <3>2, <3>4 DEF Frontier
  <2> QED BY <2>1, <2>2, <2>3, <2>4 DEF RowsOfRun, CallsFollowRows, InOrder,
             HaltedRunHasOutcome
<1>14. ASSUME NEW e \in Procs, ReconcileRow(e)
       PROVE  Discipline'
  <2>1. CASE Exit(e)
    BY <1>14, <2>1, ExitDiscipline DEF ReconcileRow
  <2>2. CASE ~Exit(e)
    <3>1. PICK m \in todo[e] : /\ Goto(e, "observe")
                               /\ msg' = [msg EXCEPT ![e] = m]
                               /\ todo' = [todo EXCEPT ![e] = @ \ {m}]
                               /\ UNCHANGED work
      BY <1>14, <2>2 DEF ReconcileRow
    <3>2. /\ pc'[e] = "observe" /\ pc[e] = "reconcile" /\ msg'[e] = m
          /\ todo'[e] = todo[e] \ {m}
          /\ \A d \in Procs : d # e => /\ pc'[d] = pc[d] /\ msg'[d] = msg[d]
                                       /\ todo'[d] = todo[d]
          /\ UNCHANGED <<planState, plan, run, row, calls, work>>
      BY <1>14, <3>1 DEF ReconcileRow, Goto, ProcsTypeOK
    <3>3. OwnsOpenRun' /\ OneOwner' /\ PlanIsFixed'
      BY <3>2 DEF OwnsOpenRun, OneOwner, PlanIsFixed, Executing
    <3>4. Positions'
      BY <3>2 DEF Positions, Position, Attempting
    <3>5. Frontier'
      <4>1. \A d \in Procs : Targets(d)' = Targets(d)
        BY <3>1, <3>2 DEF Targets
      <4> QED BY <3>2, <4>1 DEF Frontier, Reconciling
    <3> QED BY <3>2, <3>3, <3>4, <3>5 DEF RowsOfRun, CallsFollowRows, InOrder,
               HaltedRunHasOutcome
  <2> QED BY <2>1, <2>2
<1>15. ASSUME NEW e \in Procs, Observe(e)
       PROVE  Discipline'
  <2>1. /\ pc'[e] = "write" /\ pc[e] = "observe"
        /\ \A d \in Procs : d # e => pc'[d] = pc[d]
        /\ UNCHANGED <<planState, plan, run, row, calls, work, msg, todo>>
    BY <1>15 DEF Observe, Goto, ProcsTypeOK
  <2>2. OwnsOpenRun' /\ OneOwner' /\ PlanIsFixed'
    BY <2>1 DEF OwnsOpenRun, OneOwner, PlanIsFixed, Executing
  <2>3. Positions'
    BY <2>1 DEF Positions, Position, Attempting
  <2>4. Frontier'
    BY <2>1 DEF Frontier, Targets, Reconciling
  <2> QED BY <2>1, <2>2, <2>3, <2>4 DEF RowsOfRun, CallsFollowRows, InOrder,
             HaltedRunHasOutcome
<1>16. ASSUME NEW e \in Procs, ReconcileWrite(e)
       PROVE  Discipline'
  <2> DEFINE p == work[e]
             m == msg[e]
  <2>1. /\ p \in Plans /\ m \in Msgs /\ pc[e] = "write"
        /\ run[p] = "halted" /\ row[p][m] \notin Untouched
        /\ \A n \in Msgs : m < n => row[p][n] \in Untouched
    BY <1>16 DEF ReconcileWrite, ProcsTypeOK, Frontier, Targets, Reconciling
  <2>2. \A d \in Procs : /\ pc[d] \in Executing => work[d] # p /\ work[d] \in Plans
                         /\ pc[d] \in Reconciling => work[d] \in Plans
    BY <2>1 DEF OwnsOpenRun, Executing, Reconciling, ProcsTypeOK
  <2>3. /\ pc'[e] = "reconcile"
        /\ \A d \in Procs : d # e => pc'[d] = pc[d]
        /\ UNCHANGED <<planState, plan, run, calls, work, msg, todo>>
    BY <1>16 DEF ReconcileWrite, Goto, ProcsTypeOK
  <2>4. /\ row'[p][m] \in {"succeeded", "failed", "unknown", row[p][m]}
        /\ \A q \in Plans : q # p => row'[q] = row[q]
        /\ \A n \in Msgs : n # m => row'[p][n] = row[p][n]
    BY <1>16, <2>1 DEF ReconcileWrite, TablesTypeOK
  <2>5. /\ row'[p][m] \notin Untouched
        /\ \A q \in Plans, n \in Msgs : row'[q][n] \in Untouched <=> row[q][n] \in Untouched
        /\ \A q \in Plans, n \in Msgs : row[q][n] \in Untouched => row'[q][n] = row[q][n]
    BY <2>1, <2>4 DEF Untouched
  <2> HIDE DEF p, m
  <2>6. OwnsOpenRun' /\ OneOwner' /\ PlanIsFixed'
    BY <2>1, <2>3 DEF OwnsOpenRun, OneOwner, PlanIsFixed, Executing
  <2>7. RowsOfRun'
    BY <2>3, <2>5 DEF RowsOfRun, Untouched
  <2>8. HaltedRunHasOutcome' /\ CallsFollowRows'
    BY <2>1, <2>3, <2>4, <2>5 DEF HaltedRunHasOutcome, CallsFollowRows
  <2>9. Positions'
    BY <2>2, <2>3, <2>4 DEF Positions, Position, Attempting, Executing
  <2>10. InOrder'
    <3> SUFFICES ASSUME NEW q \in Plans, NEW k \in Msgs, NEW n \in Msgs, k < n,
                        row'[q][k] # "none", row'[q][n] \notin Untouched
                 PROVE  row'[q][k] = "succeeded"
      BY DEF InOrder
    <3>1. row[q][k] # "none" /\ row[q][n] \notin Untouched
      BY <2>5 DEF Untouched
    <3>2. row[q][k] = "succeeded" /\ ~(q = p /\ k = m)
      BY <2>1, <3>1 DEF InOrder
    <3> QED BY <2>4, <3>2
  <2>11. Frontier'
    <3>1. \A d \in Procs : pc'[d] \in Reconciling => pc[d] \in Reconciling
                                                     /\ Targets(d)' \subseteq Targets(d)
      BY <2>1, <2>3 DEF Targets, Reconciling
    <3>2. \A d \in Procs : pc[d] \in Reconciling => Targets(d) \subseteq Msgs
      BY DEF Targets, ProcsTypeOK, Reconciling
    <3> QED BY <2>2, <2>3, <2>5, <3>1, <3>2 DEF Frontier
  <2> QED BY <2>6, <2>7, <2>8, <2>9, <2>10, <2>11
<1>17. CASE UNCHANGED <<planState, plan, run, row, calls, pc, work, msg, todo>>
  BY <1>17 DEF OwnsOpenRun, OneOwner, PlanIsFixed, RowsOfRun, CallsFollowRows, Positions, Position,
     InOrder, Frontier, Targets, HaltedRunHasOutcome
<1>18. CASE \/ \E a \in PresenceSync : SyncBegin(a)
            \/ \E a \in PresenceSync, marksAbsent \in BOOLEAN : SyncEnd(a, marksAbsent)
            \/ \E a \in PresenceSync, marked \in SUBSET Msgs : SyncFails(a, marked)
            \/ \E m \in Msgs : PolicyChanges(m) \/ RemovedElsewhere(m)
            \/ \E p \in Plans, m \in Msgs : AppliedLate(p, m)
            \/ UNCHANGED vars
  BY <1>17, <1>18 DEF SyncBegin, SyncEnd, SyncFails, PolicyChanges, RemovedElsewhere,
     AppliedLate, vars
<1> QED
  BY <1>1, <1>2, <1>3, <1>4, <1>5, <1>6, <1>7, <1>8, <1>9, <1>10, <1>11, <1>12, <1>13, <1>14,
     <1>15, <1>16, <1>18 DEF Next, ExecuteStep, ReconcileStep

\* One owner per open run, rows in order, and halted runs are settled, in every execution.
LEMMA DisciplineHolds == Spec => []Discipline
  BY InitDiscipline, NextDiscipline, TypeCorrect, PTL DEF Spec

-----------------------------------------------------------------------------
(* What the discipline gives.                                              *)

\* However many processes execute, die and reconcile: one production row reaches the provider
\* at most once.
THEOREM OneCallPerRow == Spec => []AtMostOneAttempt
<1>1. Discipline => AtMostOneAttempt
  BY DEF Discipline, CallsFollowRows, AtMostOneAttempt
<1> QED BY <1>1, DisciplineHolds, PTL

\* The "started" commit precedes the call: whenever a process dies, SQLite shows every call
\* that was made.
THEOREM CallsAreVisible == Spec => []AttemptIsRecorded
<1>1. TypeOK /\ Discipline => AttemptIsRecorded
  <2> SUFFICES ASSUME TypeOK, Discipline, NEW p \in Plans, NEW m \in Msgs, calls[p][m] > 0
               PROVE  row[p][m] \notin {"none", "planned"}
    BY DEF AttemptIsRecorded
  <2>1. calls[p][m] # 0
    OBVIOUS
  <2> QED BY <2>1 DEF Discipline, CallsFollowRows, Untouched
<1> QED BY <1>1, DisciplineHolds, TypeCorrect, PTL

\* Every transaction that halts a run settles the row it was about, so that reconciliation
\* finds no "started" row in a halted run.
THEOREM HaltSettlesItsRow == Spec => []HaltedRunHasOutcome
<1>1. Discipline => HaltedRunHasOutcome
  BY DEF Discipline
<1> QED BY <1>1, DisciplineHolds, PTL

\* The serial loop works in planning order and stops at the first row that is not a success;
\* neither concurrent processes nor any number of reconciliations change that picture.
THEOREM SerialExecution == Spec => []FirstNonSuccessHalts
<1>1. TypeOK /\ Discipline => FirstNonSuccessHalts
  <2> SUFFICES ASSUME TypeOK, Discipline, NEW p \in Plans,
                      NEW m \in plan[p].msgs, NEW n \in plan[p].msgs,
                      m < n, row[p][n] \notin {"none", "planned"}
               PROVE  row[p][m] = "succeeded"
    BY DEF FirstNonSuccessHalts
  <2>1. m \in Msgs /\ n \in Msgs
    BY DEF TypeOK, TablesTypeOK, PlanRecords
  <2>2. row[p][m] # "none"
    BY <2>1 DEF Discipline, RowsOfRun
  <2> QED BY <2>1, <2>2 DEF Discipline, InOrder, Untouched
<1> QED BY <1>1, DisciplineHolds, TypeCorrect, PTL

EndedKept ==
    \A p \in Plans : run[p] \in {"completed", "halted"} =>
        /\ run'[p] = run[p]
        /\ \A m \in Msgs : row[p][m] = "planned" => row'[p][m] = "planned"

\* No step of any process or of the environment takes up an ended run again.
LEMMA NextEnded == TypeOK /\ Discipline /\ [Next]_vars => EndedKept
<1> SUFFICES ASSUME TypeOK, Discipline, [Next]_vars
             PROVE  EndedKept
  OBVIOUS
<1> USE DEF TypeOK, Discipline, mutations
<1>1. ASSUME NEW e \in Procs, InsertProductionRun(e)
      PROVE  EndedKept
  <2>1. work[e] \in Plans
    BY <1>1 DEF InsertProductionRun, ProcsTypeOK
  <2> QED BY <1>1, <2>1 DEF InsertProductionRun, UniqueIndexAllows, EndedKept, TablesTypeOK
<1>2. ASSUME NEW e \in Procs,
             SerialNext(e) \/ HaltStale(e) \/ CommitStarted(e) \/ RecordOutcome(e)
      PROVE  EndedKept
  <2>1. work[e] \in Plans /\ run[work[e]] = "planned"
    BY <1>2 DEF SerialNext, HaltStale, CommitStarted, RecordOutcome, ProcsTypeOK, OwnsOpenRun,
       Executing
  <2>2. \A p \in Plans : p # work[e] => run'[p] = run[p] /\ row'[p] = row[p]
    BY <1>2, <2>1 DEF SerialNext, HaltStale, CommitStarted, RecordOutcome, TablesTypeOK
  <2> QED BY <2>1, <2>2 DEF EndedKept
<1>3. ASSUME NEW e \in Procs, ReconcileWrite(e)
      PROVE  EndedKept
  <2>1. work[e] \in Plans /\ msg[e] \in Msgs /\ row[work[e]][msg[e]] # "planned"
    BY <1>3 DEF ReconcileWrite, ProcsTypeOK, Frontier, Targets, Reconciling, Untouched
  <2>2. run' = run /\ \A p \in Plans, m \in Msgs :
                         <<p, m>> # <<work[e], msg[e]>> => row'[p][m] = row[p][m]
    BY <1>3, <2>1 DEF ReconcileWrite, TablesTypeOK
  <2> QED BY <2>1, <2>2 DEF EndedKept
<1>4. CASE UNCHANGED <<run, row>>
  BY <1>4 DEF EndedKept
<1> QED
  BY <1>1, <1>2, <1>3, <1>4 DEF Next, ExecuteStep, ReconcileStep, PlanDryRun, PlanExpires,
     ExecuteProductionPlan, Revalidate, AdapterBegin, AdapterReturns, AdapterRaises,
     RecordRaises, Crash, ReconcileBegin, ReconcileRow, Observe, SyncBegin, SyncEnd, SyncFails,
     PolicyChanges, RemovedElsewhere, AppliedLate, vars

\* A completed or halted run is never resumed: its status and its planned rows stay as they
\* are, whatever reconciliation does to the others.
THEOREM EndedRunsStayEnded == Spec => EndedRunStaysEnded
<1>1. TypeOK /\ Discipline /\ [Next]_vars =>
        [\A p \in Plans : run[p] \in {"completed", "halted"} =>
            /\ run'[p] = run[p]
            /\ \A m \in Msgs : row[p][m] = "planned" => row'[p][m] = "planned"]_<<run, row>>
  BY NextEnded DEF EndedKept
<1> QED BY <1>1, DisciplineHolds, TypeCorrect, PTL DEF Spec, EndedRunStaysEnded

-----------------------------------------------------------------------------
(* What a run removed.                                                     *)

\* No request is applied after its caller has given up on it.
PromptProvider == ~LateDelivery

\* Where a process is about to call, or to write "failed", its run has not removed the message.
Clean(e) ==
    \/ pc[e] \in {"call", "incall"}
    \/ pc[e] \in {"record", "recordException"} /\ res[e] = "failed"
    \/ pc[e] = "write" /\ res[e] = "confirmed-present-match"

RemovalInv ==
    /\ inflight = {}
    /\ RemovalIsNeverRecordedAsFailure
    /\ \A p \in Plans, m \in Msgs : <<p, m>> \in removedBy => m \notin server
    /\ \A e \in Procs : Clean(e) => <<work[e], msg[e]>> \notin removedBy

\* A step of a process changes the registers of no other process.
LEMMA OthersStand ==
  ASSUME TypeOK, NEW e \in Procs, ExecuteStep(e) \/ ReconcileStep(e) \/ Crash(e)
  PROVE  \A d \in Procs : d # e => /\ pc'[d] = pc[d] /\ work'[d] = work[d] /\ msg'[d] = msg[d]
                                  /\ res'[d] = res[d] /\ todo'[d] = todo[d]
<1> USE DEF TypeOK, ProcsTypeOK, Goto
<1>1. CASE Exit(e)
  BY <1>1 DEF Exit
<1>2. CASE ~Exit(e)
  <2>1. CASE Revalidate(e) \/ InsertProductionRun(e) \/ SerialNext(e) \/ HaltStale(e)
    BY <1>2, <2>1 DEF Revalidate, InsertProductionRun, SerialNext, HaltStale
  <2>2. CASE CommitStarted(e) \/ AdapterBegin(e) \/ AdapterReturns(e) \/ AdapterRaises(e)
    BY <1>2, <2>2 DEF CommitStarted, AdapterBegin, AdapterReturns, AdapterRaises
  <2>3. CASE RecordOutcome(e) \/ RecordRaises(e) \/ Crash(e)
    BY <1>2, <2>3 DEF RecordOutcome, RecordRaises, Crash
  <2>4. CASE ReconcileStep(e)
    BY <1>2, <2>4 DEF ReconcileStep, ReconcileRow, Observe, ReconcileWrite
  <2> QED BY <2>1, <2>2, <2>3, <2>4 DEF ExecuteStep
<1> QED BY <1>1, <1>2

\* Nobody else is at the row of a call: its run is open and has one owner.
LEMMA CallIsExclusive ==
  ASSUME TypeOK, Discipline, NEW e \in Procs, pc[e] \in Attempting, NEW d \in Procs, d # e, Clean(d)
  PROVE  <<work[d], msg[d]>> # <<work[e], msg[e]>>
<1>1. run[work[e]] = "planned"
  BY DEF Discipline, OwnsOpenRun, Executing, Attempting
<1>2. CASE pc[d] = "write"
  BY <1>1, <1>2 DEF Discipline, Frontier, Reconciling
<1>3. CASE pc[d] # "write"
  BY <1>3 DEF Clean, Discipline, OneOwner, Executing, Attempting
<1> QED BY <1>2, <1>3

LEMMA QuietRemoval ==
  ASSUME RemovalInv, UNCHANGED <<row, server, inflight, removedBy>>,
         \A e \in Procs : Clean(e)' => Clean(e) /\ work'[e] = work[e] /\ msg'[e] = msg[e]
  PROVE  RemovalInv'
  BY DEF RemovalInv, RemovalIsNeverRecordedAsFailure

\* A call that ends, with or without an answer.
LEMMA CallRemoval ==
  ASSUME TypeOK, Discipline, RemovalInv, NEW e \in Procs, pc[e] = "incall",
         ExecuteStep(e) \/ Crash(e), UNCHANGED row, PromptProvider,
         NEW removes \in BOOLEAN, NEW late \in BOOLEAN,
         Provider(work[e], msg[e], removes, late),
         Clean(e)' => ~removes /\ work'[e] = work[e] /\ msg'[e] = msg[e]
  PROVE  RemovalInv'
<1>1. inflight' = {} /\ server' \subseteq server
  BY DEF Provider, RemovalInv, PromptProvider
<1>2. /\ removedBy' \subseteq removedBy \cup {<<work[e], msg[e]>>}
      /\ removes => msg[e] \notin server'
      /\ ~removes => removedBy' = removedBy
  BY DEF Provider
<1>3. row[work[e]][msg[e]] = "started"
  BY DEF Discipline, Positions, Position, Attempting
<1>4. RemovalIsNeverRecordedAsFailure'
  BY <1>2, <1>3 DEF RemovalInv, RemovalIsNeverRecordedAsFailure
<1>5. \A p \in Plans, m \in Msgs : <<p, m>> \in removedBy' => m \notin server'
  BY <1>1, <1>2 DEF RemovalInv
<1>6. ASSUME NEW d \in Procs, Clean(d)'
      PROVE  <<work'[d], msg'[d]>> \notin removedBy'
  <2>1. CASE d = e
    BY <1>2, <1>6, <2>1 DEF RemovalInv, Clean
  <2>2. CASE d # e
    <3>1. Clean(d) /\ work'[d] = work[d] /\ msg'[d] = msg[d]
      BY <1>6, <2>2, OthersStand DEF Clean
    <3>2. <<work[d], msg[d]>> # <<work[e], msg[e]>>
      BY <2>2, <3>1, CallIsExclusive DEF Attempting
    <3> QED BY <1>2, <3>1, <3>2 DEF RemovalInv
  <2> QED BY <2>1, <2>2
<1> QED BY <1>1, <1>4, <1>5, <1>6 DEF RemovalInv

\* A transaction that writes one row, and writes "failed" only where the run removed nothing.
LEMMA RowRemoval ==
  ASSUME TypeOK, RemovalInv, NEW e \in Procs, ExecuteStep(e) \/ ReconcileStep(e),
         work[e] \in Plans, msg[e] \in Msgs, NEW status \in RowStatus,
         row' = [row EXCEPT ![work[e]][msg[e]] = status], UNCHANGED <<server, inflight, removedBy>>,
         status \in {"started", "unknown", "succeeded"} \/ <<work[e], msg[e]>> \notin removedBy,
         Clean(e)' => work'[e] = work[e] /\ msg'[e] = msg[e] /\ <<work[e], msg[e]>> \notin removedBy
  PROVE  RemovalInv'
<1>1. /\ row'[work[e]][msg[e]] = status
      /\ \A p \in Plans, m \in Msgs : p # work[e] \/ m # msg[e] => row'[p][m] = row[p][m]
  BY DEF TypeOK, TablesTypeOK
<1>2. RemovalIsNeverRecordedAsFailure'
  BY <1>1 DEF RemovalInv, RemovalIsNeverRecordedAsFailure
<1>3. ASSUME NEW d \in Procs, Clean(d)'
      PROVE  <<work'[d], msg'[d]>> \notin removedBy'
  <2>1. CASE d = e
    BY <1>3, <2>1
  <2>2. CASE d # e
    BY <1>3, <2>2, OthersStand DEF Clean, RemovalInv
  <2> QED BY <2>1, <2>2
<1> QED BY <1>2, <1>3 DEF RemovalInv

LEMMA NextRemoval ==
  ASSUME PromptProvider, TypeOK, Discipline, RemovalInv, [Next]_vars
  PROVE  RemovalInv'
<1> USE DEF TypeOK, ProcsTypeOK, plans, mutations, provider, acquisition, procs
<1>1. ASSUME NEW e \in Procs, Revalidate(e) \/ SerialNext(e) \/ RecordRaises(e) \/ ReconcileRow(e)
      PROVE  RemovalInv'
  <2>1. UNCHANGED <<row, server, inflight, removedBy>>
    BY <1>1 DEF Revalidate, SerialNext, RecordRaises, ReconcileRow
  <2>2. ~Clean(e)'
    BY <1>1 DEF Revalidate, SerialNext, RecordRaises, ReconcileRow, Clean, Goto, Exit
  <2>3. \A d \in Procs : d # e => /\ pc'[d] = pc[d] /\ res'[d] = res[d]
                                 /\ work'[d] = work[d] /\ msg'[d] = msg[d]
    BY <1>1, OthersStand DEF ExecuteStep, ReconcileStep
  <2> QED BY <2>1, <2>2, <2>3, QuietRemoval DEF Clean
<1>2. ASSUME NEW e \in Procs, AdapterBegin(e)
      PROVE  RemovalInv'
  <2>1. UNCHANGED <<row, server, inflight, removedBy, work, msg>> /\ Clean(e)
    BY <1>2 DEF AdapterBegin, Clean
  <2>2. \A d \in Procs : d # e => pc'[d] = pc[d] /\ res'[d] = res[d]
    BY <1>2, OthersStand DEF ExecuteStep
  <2> QED BY <2>1, <2>2, QuietRemoval DEF Clean
<1>3. ASSUME NEW e \in Procs, InsertProductionRun(e)
      PROVE  RemovalInv'
  <2>1. UNCHANGED <<server, inflight, removedBy>> /\ work[e] \in Plans /\ ~Clean(e)'
    BY <1>3 DEF InsertProductionRun, Clean, Goto, Exit
  <2>2. \A d \in Procs : d # e => /\ pc'[d] = pc[d] /\ res'[d] = res[d]
                                 /\ work'[d] = work[d] /\ msg'[d] = msg[d]
    BY <1>3, OthersStand DEF ExecuteStep
  <2>3. CASE UNCHANGED row
    BY <2>1, <2>2, <2>3, QuietRemoval DEF Clean
  <2>4. CASE ~UNCHANGED row
    <3>1. /\ \A m \in Msgs : row[work[e]][m] = "none"
          /\ \A p \in Plans : p # work[e] => row'[p] = row[p]
      BY <1>3, <2>1, <2>4 DEF InsertProductionRun, UniqueIndexAllows, Discipline, RowsOfRun, TablesTypeOK
    <3>2. \A m \in Msgs : <<work[e], m>> \notin removedBy
      BY <2>1, <3>1 DEF RemovalInv, RemovalIsNeverRecordedAsFailure
    <3>3. RemovalIsNeverRecordedAsFailure'
      BY <2>1, <3>1, <3>2 DEF RemovalInv, RemovalIsNeverRecordedAsFailure
    <3> QED BY <2>1, <2>2, <3>3 DEF RemovalInv, Clean
  <2> QED BY <2>3, <2>4
<1>4. ASSUME NEW e \in Procs, HaltStale(e)
      PROVE  RemovalInv'
  <2>1. /\ work[e] \in Plans /\ msg[e] \in Msgs /\ UNCHANGED <<server, inflight, removedBy>>
        /\ row' = [row EXCEPT ![work[e]][msg[e]] = "failed"] /\ ~Clean(e)'
    BY <1>4 DEF HaltStale, Exit, Clean
  <2>2. row[work[e]][msg[e]] = "planned"
    BY <1>4 DEF HaltStale, Discipline, Positions, Position
  <2>3. <<work[e], msg[e]>> \notin removedBy
    BY <2>1, <2>2 DEF RemovalInv, RemovalIsNeverRecordedAsFailure
  <2>4. "failed" \in RowStatus
    BY DEF RowStatus
  <2> QED BY <1>4, <2>1, <2>3, <2>4, RowRemoval DEF ExecuteStep
<1>5. ASSUME NEW e \in Procs, CommitStarted(e)
      PROVE  RemovalInv'
  <2>1. /\ work[e] \in Plans /\ msg[e] \in Msgs /\ UNCHANGED <<server, inflight, removedBy, work, msg>>
        /\ row' = [row EXCEPT ![work[e]][msg[e]] = "started"]
    BY <1>5 DEF CommitStarted
  <2>2. row[work[e]][msg[e]] = "planned"
    BY <1>5 DEF CommitStarted, Discipline, Positions, Position
  <2>3. <<work[e], msg[e]>> \notin removedBy
    BY <2>1, <2>2 DEF RemovalInv, RemovalIsNeverRecordedAsFailure
  <2>4. "started" \in RowStatus
    BY DEF RowStatus
  <2> QED BY <1>5, <2>1, <2>3, <2>4, RowRemoval DEF ExecuteStep
<1>6. ASSUME NEW e \in Procs, AdapterReturns(e)
      PROVE  RemovalInv'
  <2>1. PICK result \in MutationResults, removes \in BOOLEAN, late \in BOOLEAN :
           /\ AdapterContract(msg[e], result, removes)
           /\ Provider(work[e], msg[e], removes, late)
           /\ res' = [res EXCEPT ![e] = Normalize(result)]
    BY <1>6 DEF AdapterReturns
  <2>2. pc[e] = "incall" /\ pc'[e] = "record" /\ UNCHANGED <<row, work, msg>>
    BY <1>6 DEF AdapterReturns, Goto
  <2>3. res'[e] = "failed" => ~removes
    BY <2>1 DEF Normalize, AdapterContract
  <2>4. Clean(e)' => ~removes
    BY <2>2, <2>3 DEF Clean
  <2> QED BY <1>6, <2>1, <2>2, <2>4, CallRemoval DEF ExecuteStep
<1>7. ASSUME NEW e \in Procs, AdapterRaises(e) \/ (Crash(e) /\ pc[e] = "incall")
      PROVE  RemovalInv'
  <2>1. pc[e] = "incall" /\ NoAnswer(e) /\ UNCHANGED row
    BY <1>7 DEF AdapterRaises, Crash
  <2>2. PICK removes \in BOOLEAN, late \in BOOLEAN : Provider(work[e], msg[e], removes, late)
    BY <2>1 DEF NoAnswer
  <2>3. ~Clean(e)'
    BY <1>7 DEF AdapterRaises, Crash, Clean, Goto, Exit
  <2> QED BY <1>7, <2>1, <2>2, <2>3, CallRemoval DEF ExecuteStep
<1>8. ASSUME NEW e \in Procs, Crash(e), pc[e] # "incall"
      PROVE  RemovalInv'
  <2>1. UNCHANGED <<row, server, inflight, removedBy>> /\ ~Clean(e)'
    BY <1>8 DEF Crash, Exit, Clean
  <2>2. \A d \in Procs : d # e => /\ pc'[d] = pc[d] /\ res'[d] = res[d]
                                 /\ work'[d] = work[d] /\ msg'[d] = msg[d]
    BY <1>8, OthersStand
  <2> QED BY <2>1, <2>2, QuietRemoval DEF Clean
<1>9. ASSUME NEW e \in Procs, RecordOutcome(e)
      PROVE  RemovalInv'
  <2>1. /\ work[e] \in Plans /\ msg[e] \in Msgs /\ UNCHANGED <<server, inflight, removedBy>>
        /\ row' = [row EXCEPT ![work[e]][msg[e]] = res[e]] /\ ~Clean(e)'
    BY <1>9 DEF RecordOutcome, Attempting, Goto, Exit, Clean
  <2>2. res[e] \in {"succeeded", "failed", "unknown"} /\ res[e] \in RowStatus
    BY <1>9 DEF RecordOutcome, RowStatus
  <2>3. res[e] = "failed" => <<work[e], msg[e]>> \notin removedBy
    BY <1>9 DEF RecordOutcome, RemovalInv, Clean
  <2> QED BY <1>9, <2>1, <2>2, <2>3, RowRemoval DEF ExecuteStep
<1>10. ASSUME NEW e \in Procs, Observe(e)
       PROVE  RemovalInv'
  <2>1. UNCHANGED <<row, server, inflight, removedBy, work, msg>> /\ work[e] \in Plans /\ msg[e] \in Msgs
    BY <1>10 DEF Observe
  <2>2. Clean(e)' => msg[e] \in server
    BY <1>10 DEF Observe, Observable, Clean, Goto, RowStatus
  <2>3. \A d \in Procs : d # e => pc'[d] = pc[d] /\ res'[d] = res[d]
    BY <1>10, OthersStand DEF ReconcileStep
  <2>4. Clean(e)' => <<work[e], msg[e]>> \notin removedBy
    BY <2>1, <2>2 DEF RemovalInv
  <2> QED BY <2>1, <2>3, <2>4 DEF RemovalInv, RemovalIsNeverRecordedAsFailure, Clean
<1>11. ASSUME NEW e \in Procs, ReconcileWrite(e)
       PROVE  RemovalInv'
  <2>1. /\ work[e] \in Plans /\ msg[e] \in Msgs /\ UNCHANGED <<server, inflight, removedBy>>
        /\ ~Clean(e)'
    BY <1>11 DEF ReconcileWrite, Goto, Clean
  <2>2. CASE UNCHANGED row
    <3>1. \A d \in Procs : d # e => /\ pc'[d] = pc[d] /\ res'[d] = res[d]
                                   /\ work'[d] = work[d] /\ msg'[d] = msg[d]
      BY <1>11, OthersStand DEF ReconcileStep
    <3> QED BY <2>1, <2>2, <3>1, QuietRemoval DEF Clean
  <2>3. CASE ~UNCHANGED row
    <3>1. PICK status \in RowStatus :
             /\ row' = [row EXCEPT ![work[e]][msg[e]] = status]
             /\ status \in {"succeeded", "unknown"} \/ res[e] = "confirmed-present-match"
      BY <1>11, <2>3 DEF ReconcileWrite, RowStatus
    <3>2. status \in {"succeeded", "unknown"} \/ <<work[e], msg[e]>> \notin removedBy
      BY <1>11, <3>1 DEF ReconcileWrite, RemovalInv, Clean
    <3> QED BY <1>11, <2>1, <3>1, <3>2, RowRemoval DEF ReconcileStep
  <2> QED BY <2>2, <2>3
<1>12. ASSUME NEW e \in Procs, NEW p \in Plans, NEW maxRun \in Limits, NEW maxAcct \in Limits,
              ExecuteProductionPlan(e, p, maxRun, maxAcct)
       PROVE  RemovalInv'
  <2>1. UNCHANGED <<row, server, inflight, removedBy>> /\ ~Clean(e)'
    BY <1>12 DEF ExecuteProductionPlan, Goto, Clean
  <2>2. \A d \in Procs : d # e => /\ pc'[d] = pc[d] /\ res'[d] = res[d]
                                 /\ work'[d] = work[d] /\ msg'[d] = msg[d]
    BY <1>12 DEF ExecuteProductionPlan, Goto
  <2> QED BY <2>1, <2>2, QuietRemoval DEF Clean
<1>13. ASSUME NEW m \in Msgs, RemovedElsewhere(m)
       PROVE  RemovalInv'
  BY <1>13 DEF RemovedElsewhere, RemovalInv, RemovalIsNeverRecordedAsFailure, Clean
<1>14. ASSUME NEW p \in Plans, NEW m \in Msgs
       PROVE  ~AppliedLate(p, m)
  BY DEF AppliedLate, RemovalInv
<1>15. ASSUME UNCHANGED <<row, server, inflight, removedBy, pc, res, work, msg>>
       PROVE  RemovalInv'
  BY <1>15, QuietRemoval DEF Clean
<1>16. ASSUME \/ \E p \in Plans, f \in Filters, maxRun, maxAcct \in Limits : PlanDryRun(p, f, maxRun, maxAcct)
              \/ \E p \in Plans : PlanExpires(p)
              \/ \E a \in PresenceSync : SyncBegin(a)
              \/ \E a \in PresenceSync, marksAbsent \in BOOLEAN : SyncEnd(a, marksAbsent)
              \/ \E a \in PresenceSync, marked \in SUBSET Msgs : SyncFails(a, marked)
              \/ \E m \in Msgs : PolicyChanges(m)
              \/ UNCHANGED vars
       PROVE  UNCHANGED <<row, server, inflight, removedBy, pc, res, work, msg>>
  BY <1>16 DEF PlanDryRun, PlanExpires, SyncBegin, SyncEnd, SyncFails, PolicyChanges, vars
<1>17. ASSUME NEW e \in Procs, NEW p \in Plans, ReconcileBegin(e, p)
       PROVE  RemovalInv'
  <2>1. UNCHANGED <<row, server, inflight, removedBy>> /\ ~Clean(e)'
    BY <1>17 DEF ReconcileBegin, Goto, Clean
  <2>2. \A d \in Procs : d # e => /\ pc'[d] = pc[d] /\ res'[d] = res[d]
                                 /\ work'[d] = work[d] /\ msg'[d] = msg[d]
    BY <1>17 DEF ReconcileBegin, Goto
  <2> QED BY <2>1, <2>2, QuietRemoval DEF Clean
<1> QED
  BY <1>1, <1>2, <1>3, <1>4, <1>5, <1>6, <1>7, <1>8, <1>9, <1>10, <1>11, <1>12, <1>13, <1>14,
     <1>15, <1>16, <1>17 DEF Next, ExecuteStep, ReconcileStep

\* With a provider that applies no request after its caller has given up on it, a message that a
\* run removed is never recorded as a confirmed non-mutation: neither by the executor nor by
\* any number of reconciliations.
THEOREM RemovalIsOnRecord ==
  ASSUME PromptProvider
  PROVE  Spec => []RemovalIsNeverRecordedAsFailure
<1>1. Init => RemovalInv
  BY DEF Init, RemovalInv, RemovalIsNeverRecordedAsFailure
<1>2. TypeOK /\ Discipline /\ RemovalInv /\ [Next]_vars => RemovalInv'
  BY NextRemoval
<1>3. RemovalInv => RemovalIsNeverRecordedAsFailure
  BY DEF RemovalInv
<1> QED BY <1>1, <1>2, <1>3, DisciplineHolds, TypeCorrect, PTL DEF Spec

-----------------------------------------------------------------------------
(* One operator.                                                           *)

\* One invocation at a time; the provider, syncs and retention controls act as they like.
OneProcess == \A d, e \in Procs : d = e

\* What a reconciliation has still to visit is what it selected.
StillUnresolved ==
    \A e \in Procs : pc[e] \in Reconciling =>
        /\ \A m \in Targets(e) : row[work[e]][m] \in Unresolved
        /\ pc[e] \in {"observe", "write"} => msg[e] \notin todo[e]

\* What execute_production_plan found in the mutation history is still so.
StillAllowed ==
    \A e \in Procs : pc[e] \in Executing \cup {"revalidate", "insert"} =>
        \A m \in plan[work[e]].msgs, q \in Plans : q # work[e] => row[q][m] \notin Unresolved

HistoryInv == StillUnresolved /\ StillAllowed /\ NoOverlappingAttempt

\* Control points at which what a process knows or does is about to make a message absent.
Deleting(e) ==
    \/ pc[e] = "incall"
    \/ pc[e] \in {"record", "recordException"} /\ res[e] = "succeeded"
    \/ pc[e] = "write" /\ res[e] = "confirmed-absent"

\* A synchronisation lists nothing that is deleted behind its back, because it holds the lock
\* that a call or an observation needs.
SnapshotInv ==
    /\ \A m \in seen : AccountOf[m] \in syncing
    /\ \A m \in seen, p \in Plans : row[p][m] # "succeeded"
    /\ \A e \in Procs : Deleting(e) => msg[e] \notin seen

\* What a reconciliation observed as present was not deleted before.
ObservedPresent ==
    \A e \in Procs : pc[e] = "write" /\ res[e] = "confirmed-present-match" =>
        \A q \in Plans : row[q][msg[e]] # "succeeded"

AbsenceInv == SnapshotInv /\ ObservedPresent /\ ConfirmedDeletionStaysAbsent

LEMMA NextHistory ==
  ASSUME OneProcess, TypeOK, Discipline, HistoryInv, [Next]_vars
  PROVE  HistoryInv'
<1> USE DEF TypeOK, ProcsTypeOK, plans, mutations, provider, acquisition, procs
<1>1. ASSUME UNCHANGED <<row, plan>>, NEW e \in Procs,
             \/ pc'[e] \notin Reconciling \cup Executing \cup {"revalidate", "insert"}
             \/ pc[e] \in Executing \cup {"revalidate", "insert"} /\ pc'[e] \in Executing \cup {"insert"}
                /\ work'[e] = work[e]
      PROVE  HistoryInv'
  <2>1. \A d \in Procs : d = e
    BY DEF OneProcess
  <2> QED BY <1>1, <2>1 DEF HistoryInv, StillUnresolved, StillAllowed, NoOverlappingAttempt,
             Executing, Reconciling
<1>2. ASSUME NEW e \in Procs, NEW status \in RowStatus, work[e] \in Plans, msg[e] \in Msgs,
             row' = [row EXCEPT ![work[e]][msg[e]] = status], UNCHANGED plan,
             status \in Unresolved =>
                 \/ row[work[e]][msg[e]] \in Unresolved
                 \/ \A q \in Plans : q # work[e] => row[q][msg[e]] \notin Unresolved,
             pc[e] \in Executing, pc'[e] \in Executing \cup {"idle"},
             pc'[e] # "idle" => work'[e] = work[e]
      PROVE  HistoryInv'
  <2>1. \A d \in Procs : d = e
    BY DEF OneProcess
  <2>2. /\ row'[work[e]][msg[e]] = status
        /\ \A p \in Plans, m \in Msgs : p # work[e] \/ m # msg[e] => row'[p][m] = row[p][m]
    BY <1>2 DEF TablesTypeOK
  <2>3. NoOverlappingAttempt'
    BY <1>2, <2>2 DEF HistoryInv, NoOverlappingAttempt
  <2>4. StillAllowed'
    <3>1. plan[work[e]].msgs \subseteq Msgs
      BY <1>2 DEF TablesTypeOK, PlanRecords
    <3> QED BY <1>2, <2>1, <2>2, <3>1 DEF HistoryInv, StillAllowed, Executing
  <2>5. StillUnresolved'
    BY <1>2, <2>1 DEF StillUnresolved, Executing, Reconciling
  <2> QED BY <2>3, <2>4, <2>5 DEF HistoryInv
<1>3. ASSUME NEW p \in Plans, NEW f \in Filters, NEW maxRun \in Limits, NEW maxAcct \in Limits,
             PlanDryRun(p, f, maxRun, maxAcct)
      PROVE  HistoryInv'
  <2>1. UNCHANGED <<row, pc, work, msg, todo>> /\ \A q \in Plans : planState[q] # "none" => plan'[q] = plan[q]
    BY <1>3 DEF PlanDryRun, TablesTypeOK
  <2>2. \A e \in Procs : pc[e] # "idle" => plan'[work[e]] = plan[work[e]]
    BY <2>1 DEF Discipline, PlanIsFixed
  <2> QED BY <2>1, <2>2 DEF HistoryInv, StillUnresolved, StillAllowed, NoOverlappingAttempt, Targets, Executing
<1>4. ASSUME NEW e \in Procs, NEW p \in Plans, NEW maxRun \in Limits, NEW maxAcct \in Limits,
             ExecuteProductionPlan(e, p, maxRun, maxAcct)
      PROVE  HistoryInv'
  <2>1. /\ UNCHANGED <<row, plan>> /\ HistoryAllows(p) /\ work'[e] = p /\ pc'[e] = "revalidate"
        /\ \A d \in Procs : d = e
    BY <1>4 DEF ExecuteProductionPlan, Goto, OneProcess
  <2> QED BY <2>1 DEF HistoryInv, StillUnresolved, StillAllowed, NoOverlappingAttempt, HistoryAllows,
             Reconciling
<1>5. ASSUME NEW e \in Procs, Revalidate(e) \/ SerialNext(e) \/ RecordRaises(e) \/ AdapterBegin(e)
                              \/ AdapterReturns(e) \/ AdapterRaises(e) \/ Crash(e)
      PROVE  HistoryInv'
  <2>1. UNCHANGED <<row, plan>>
    BY <1>5 DEF Revalidate, SerialNext, RecordRaises, AdapterBegin, AdapterReturns, AdapterRaises, Crash
  <2>2. CASE Exit(e)
    BY <1>1, <2>1, <2>2 DEF Exit, Executing, Reconciling
  <2>3. CASE ~Exit(e)
    <3>1. /\ pc[e] \in Executing \cup {"revalidate"} /\ pc'[e] \in Executing \cup {"insert"}
          /\ work'[e] = work[e]
      BY <1>5, <2>3 DEF Revalidate, SerialNext, RecordRaises, AdapterBegin, AdapterReturns,
         AdapterRaises, Crash, Goto, Executing
    <3> QED BY <1>1, <2>1, <3>1
  <2> QED BY <2>2, <2>3
<1>6. ASSUME NEW e \in Procs, InsertProductionRun(e)
      PROVE  HistoryInv'
  <2>1. UNCHANGED plan /\ work[e] \in Plans /\ pc[e] = "insert" /\ \A d \in Procs : d = e
    BY <1>6 DEF InsertProductionRun, OneProcess
  <2>2. CASE Exit(e)
    <3>1. UNCHANGED row
      BY <1>6, <2>1, <2>2 DEF InsertProductionRun, Exit, Goto
    <3> QED BY <1>1, <2>1, <2>2, <3>1 DEF Exit, Executing, Reconciling
  <2>3. CASE ~Exit(e)
    <3>1. /\ \A m \in Msgs : row'[work[e]][m] \in {"none", "planned"}
          /\ \A q \in Plans : q # work[e] => row'[q] = row[q]
      BY <1>6, <2>1, <2>3 DEF InsertProductionRun, TablesTypeOK
    <3>2. pc'[e] = "loop" /\ work'[e] = work[e]
      BY <1>6, <2>3 DEF InsertProductionRun, Goto
    <3>3. NoOverlappingAttempt'
      BY <2>1, <3>1 DEF HistoryInv, NoOverlappingAttempt, Unresolved
    <3>4. StillAllowed' /\ StillUnresolved'
      BY <2>1, <3>1, <3>2 DEF HistoryInv, StillAllowed, StillUnresolved, Executing, Reconciling
    <3> QED BY <3>3, <3>4 DEF HistoryInv
  <2> QED BY <2>2, <2>3
<1>7. ASSUME NEW e \in Procs, HaltStale(e)
      PROVE  HistoryInv'
  <2>1. /\ work[e] \in Plans /\ msg[e] \in Msgs /\ UNCHANGED plan /\ pc[e] \in Executing /\ pc'[e] = "idle"
        /\ row' = [row EXCEPT ![work[e]][msg[e]] = "failed"]
        /\ "failed" \in RowStatus /\ "failed" \notin Unresolved
    BY <1>7 DEF HaltStale, Exit, Executing, RowStatus, Unresolved
  <2> QED BY <1>2, <2>1
<1>8. ASSUME NEW e \in Procs, CommitStarted(e)
      PROVE  HistoryInv'
  <2>1. /\ work[e] \in Plans /\ msg[e] \in Msgs /\ UNCHANGED <<plan, work>>
        /\ pc[e] \in Executing /\ pc'[e] \in Executing
        /\ row' = [row EXCEPT ![work[e]][msg[e]] = "started"] /\ "started" \in RowStatus
    BY <1>8 DEF CommitStarted, Goto, Executing, RowStatus
  <2>2. row[work[e]][msg[e]] = "planned"
    BY <1>8 DEF CommitStarted, Discipline, Positions, Position
  <2>3. msg[e] \in plan[work[e]].msgs
    BY <2>1, <2>2 DEF Discipline, RowsOfRun
  <2>4. \A q \in Plans : q # work[e] => row[q][msg[e]] \notin Unresolved
    BY <2>1, <2>3 DEF HistoryInv, StillAllowed
  <2> QED BY <1>2, <2>1, <2>4
<1>9. ASSUME NEW e \in Procs, RecordOutcome(e)
      PROVE  HistoryInv'
  <2>1. /\ work[e] \in Plans /\ msg[e] \in Msgs /\ UNCHANGED plan
        /\ pc[e] \in Executing /\ res[e] \in RowStatus
        /\ row' = [row EXCEPT ![work[e]][msg[e]] = res[e]]
    BY <1>9 DEF RecordOutcome, Attempting, Executing, RowStatus
  <2>2. pc'[e] \in Executing \cup {"idle"} /\ (pc'[e] # "idle" => work'[e] = work[e])
    BY <1>9 DEF RecordOutcome, Goto, Exit, Executing
  <2>3. row[work[e]][msg[e]] \in Unresolved
    BY <1>9 DEF RecordOutcome, Discipline, Positions, Position, Attempting, Unresolved
  <2> QED BY <1>2, <2>1, <2>2, <2>3
<1>10. ASSUME NEW e \in Procs, NEW p \in Plans, ReconcileBegin(e, p)
       PROVE  HistoryInv'
  <2>1. /\ UNCHANGED <<row, plan>> /\ pc'[e] = "reconcile" /\ work'[e] = p /\ todo'[e] = Recoverable(p)
        /\ \A d \in Procs : d = e
    BY <1>10 DEF ReconcileBegin, Goto, OneProcess
  <2>2. Targets(e)' = Recoverable(p)
    BY <2>1 DEF Targets
  <2>3. \A m \in Recoverable(p) : row[p][m] \in Unresolved
    BY DEF Recoverable, RowsIn
  <2> QED BY <2>1, <2>2, <2>3 DEF HistoryInv, StillUnresolved, StillAllowed, NoOverlappingAttempt, Executing
<1>11. ASSUME NEW e \in Procs, ReconcileRow(e)
       PROVE  HistoryInv'
  <2>1. UNCHANGED <<row, plan>> /\ pc[e] = "reconcile" /\ \A d \in Procs : d = e
    BY <1>11 DEF ReconcileRow, OneProcess
  <2>2. CASE Exit(e)
    BY <1>1, <2>1, <2>2 DEF Exit, Executing, Reconciling
  <2>3. CASE ~Exit(e)
    <3>1. PICK m \in todo[e] : /\ msg'[e] = m /\ todo'[e] = todo[e] \ {m} /\ pc'[e] = "observe"
                               /\ work'[e] = work[e]
      BY <1>11, <2>3 DEF ReconcileRow, Goto
    <3>2. Targets(e)' \subseteq Targets(e)
      BY <2>1, <3>1 DEF Targets
    <3> QED BY <2>1, <3>1, <3>2 DEF HistoryInv, StillUnresolved, StillAllowed, NoOverlappingAttempt,
               Executing, Reconciling
  <2> QED BY <2>2, <2>3
<1>12. ASSUME NEW e \in Procs, Observe(e)
       PROVE  HistoryInv'
  <2>1. /\ UNCHANGED <<row, plan, work, msg, todo>> /\ pc[e] = "observe" /\ pc'[e] = "write"
        /\ \A d \in Procs : d = e
    BY <1>12 DEF Observe, Goto, OneProcess
  <2>2. Targets(e)' = Targets(e)
    BY <2>1 DEF Targets
  <2> QED BY <2>1, <2>2 DEF HistoryInv, StillUnresolved, StillAllowed, NoOverlappingAttempt, Executing,
             Reconciling
<1>13. ASSUME NEW e \in Procs, ReconcileWrite(e)
       PROVE  HistoryInv'
  <2>1. /\ UNCHANGED <<plan, work, todo>> /\ pc[e] = "write" /\ pc'[e] = "reconcile"
        /\ work[e] \in Plans /\ msg[e] \in Msgs /\ \A d \in Procs : d = e
    BY <1>13 DEF ReconcileWrite, Goto, OneProcess
  <2>2. \A p \in Plans, m \in Msgs : p # work[e] \/ m # msg[e] => row'[p][m] = row[p][m]
    BY <1>13, <2>1 DEF ReconcileWrite, TablesTypeOK
  <2>3. row[work[e]][msg[e]] \in Unresolved /\ msg[e] \notin todo[e]
    BY <2>1 DEF HistoryInv, StillUnresolved, Targets, Reconciling
  <2>4. NoOverlappingAttempt'
    BY <2>1, <2>2, <2>3 DEF HistoryInv, NoOverlappingAttempt
  <2>5. Targets(e)' = todo[e] /\ todo[e] \subseteq Targets(e) /\ todo[e] \subseteq Msgs
    BY <2>1 DEF Targets
  <2>6. StillUnresolved'
    BY <2>1, <2>2, <2>3, <2>5 DEF HistoryInv, StillUnresolved, Reconciling
  <2>7. StillAllowed'
    BY <2>1 DEF StillAllowed, Executing
  <2> QED BY <2>4, <2>6, <2>7 DEF HistoryInv
<1>14. ASSUME UNCHANGED <<row, plan, pc, work, msg, todo>>
       PROVE  HistoryInv'
  BY <1>14 DEF HistoryInv, StillUnresolved, StillAllowed, NoOverlappingAttempt, Targets
<1>15. ASSUME \/ \E p \in Plans : PlanExpires(p)
              \/ \E a \in PresenceSync : SyncBegin(a)
              \/ \E a \in PresenceSync, marksAbsent \in BOOLEAN : SyncEnd(a, marksAbsent)
              \/ \E a \in PresenceSync, marked \in SUBSET Msgs : SyncFails(a, marked)
              \/ \E m \in Msgs : PolicyChanges(m) \/ RemovedElsewhere(m)
              \/ \E p \in Plans, m \in Msgs : AppliedLate(p, m)
              \/ UNCHANGED vars
       PROVE  UNCHANGED <<row, plan, pc, work, msg, todo>>
  BY <1>15 DEF PlanExpires, SyncBegin, SyncEnd, SyncFails, PolicyChanges, RemovedElsewhere, AppliedLate, vars
<1> QED
  BY <1>3, <1>4, <1>5, <1>6, <1>7, <1>8, <1>9, <1>10, <1>11, <1>12, <1>13, <1>14, <1>15
     DEF Next, ExecuteStep, ReconcileStep

LEMMA HistoryHolds ==
  ASSUME OneProcess
  PROVE  Spec => []HistoryInv
<1>1. Init => HistoryInv
  BY DEF Init, HistoryInv, StillUnresolved, StillAllowed, NoOverlappingAttempt, Executing, Reconciling,
     Unresolved
<1>2. TypeOK /\ Discipline /\ HistoryInv /\ [Next]_vars => HistoryInv'
  BY NextHistory
<1> QED BY <1>1, <1>2, DisciplineHolds, TypeCorrect, PTL DEF Spec

\* One operator, any number of plans, crashes and late effects: a target with an unresolved
\* attempt gets no second one from another plan.  The guard of execute_production_plan reads the
\* history before it revalidates and inserts; two processes can both pass it.
THEOREM AttemptsDoNotOverlap ==
  ASSUME OneProcess
  PROVE  Spec => []NoOverlappingAttempt
<1>1. HistoryInv => NoOverlappingAttempt
  BY DEF HistoryInv
<1> QED BY <1>1, HistoryHolds, PTL

ResolvedKept ==
    \A p \in Plans, m \in Msgs : row[p][m] \in {"succeeded", "failed"} => row'[p][m] = row[p][m]

LEMMA NextResolved == TypeOK /\ Discipline /\ HistoryInv /\ [Next]_vars => ResolvedKept
<1> SUFFICES ASSUME TypeOK, Discipline, HistoryInv, [Next]_vars
             PROVE  ResolvedKept
  OBVIOUS
<1> USE DEF TypeOK, ProcsTypeOK
<1>1. ASSUME NEW e \in Procs, InsertProductionRun(e)
      PROVE  ResolvedKept
  <2>1. work[e] \in Plans
    BY <1>1 DEF InsertProductionRun
  <2> QED BY <1>1, <2>1 DEF InsertProductionRun, UniqueIndexAllows, Discipline, RowsOfRun, TablesTypeOK,
             ResolvedKept, mutations
<1>2. ASSUME NEW e \in Procs, HaltStale(e) \/ CommitStarted(e) \/ RecordOutcome(e) \/ ReconcileWrite(e)
      PROVE  ResolvedKept
  <2>1. work[e] \in Plans /\ msg[e] \in Msgs
    BY <1>2 DEF HaltStale, CommitStarted, RecordOutcome, ReconcileWrite, Attempting
  <2>2. row[work[e]][msg[e]] \notin {"succeeded", "failed"}
    <3>1. CASE ReconcileWrite(e)
      BY <3>1 DEF ReconcileWrite, HistoryInv, StillUnresolved, Targets, Reconciling, Unresolved
    <3>2. CASE HaltStale(e) \/ CommitStarted(e) \/ RecordOutcome(e)
      BY <3>2 DEF HaltStale, CommitStarted, RecordOutcome, Discipline, Positions, Position, Attempting
    <3> QED BY <1>2, <3>1, <3>2
  <2>3. \A p \in Plans, m \in Msgs : p # work[e] \/ m # msg[e] => row'[p][m] = row[p][m]
    BY <1>2, <2>1 DEF HaltStale, CommitStarted, RecordOutcome, ReconcileWrite, TablesTypeOK
  <2> QED BY <2>1, <2>2, <2>3 DEF ResolvedKept
<1>3. CASE UNCHANGED row
  BY <1>3 DEF ResolvedKept
<1> QED
  BY <1>1, <1>2, <1>3 DEF Next, ExecuteStep, ReconcileStep, PlanDryRun, PlanExpires,
     ExecuteProductionPlan, Revalidate, SerialNext, AdapterBegin, AdapterReturns, AdapterRaises,
     RecordRaises, Crash, ReconcileBegin, ReconcileRow, Observe, SyncBegin, SyncEnd, SyncFails,
     PolicyChanges, RemovedElsewhere, AppliedLate, vars, mutations

\* One operator: neither execution nor reconciliation rewrites a succeeded or failed mutation.
\* ReconcileWrite names the row id only, so that of two concurrent reconciliations the slower one
\* overwrites what the other one has settled.
THEOREM ResolvedRowsAreFinal ==
  ASSUME OneProcess
  PROVE  Spec => ResolvedIsFinal
<1>1. TypeOK /\ Discipline /\ HistoryInv /\ [Next]_vars =>
        [\A p \in Plans, m \in Msgs :
            row[p][m] \in {"succeeded", "failed"} => row'[p][m] = row[p][m]]_row
  BY NextResolved DEF ResolvedKept
<1> QED BY <1>1, HistoryHolds, DisciplineHolds, TypeCorrect, PTL DEF Spec, ResolvedIsFinal

\* A message that a synchronisation may list is not being deleted: both need its lock.
LEMMA ListedIsUnlocked ==
  ASSUME TypeOK, SnapshotInv, NEW m \in Msgs, LockFree(LockOf[m])
  PROVE  m \notin seen
<1> SUFFICES ASSUME m \in seen
             PROVE  FALSE
  OBVIOUS
<1>1. AccountOf[m] \in syncing /\ AccountOf[m] \in PresenceSync
  BY DEF SnapshotInv, Deleting, TypeOK, ProviderTypeOK
<1> QED BY <1>1, SharedLockAssumption DEF LockFree, SyncHoldsLock

\* A step of the only process that changes neither rows nor listings.
LEMMA QuietAbsence ==
  ASSUME OneProcess, AbsenceInv, UNCHANGED <<row, seen, syncing, present>>, NEW e \in Procs,
         Deleting(e)' => msg'[e] \notin seen,
         pc'[e] # "write" \/ res'[e] # "confirmed-present-match"
  PROVE  AbsenceInv'
<1>1. \A d \in Procs : d = e
  BY DEF OneProcess
<1>2. SnapshotInv'
  BY <1>1 DEF AbsenceInv, SnapshotInv, Deleting
<1> QED BY <1>1, <1>2 DEF AbsenceInv, ObservedPresent, ConfirmedDeletionStaysAbsent

\* A step of the only process that writes its row, and writes "succeeded" only of an absent,
\* unlisted message.
LEMMA RowAbsence ==
  ASSUME OneProcess, TypeOK, AbsenceInv, NEW e \in Procs, NEW status \in RowStatus,
         work[e] \in Plans, msg[e] \in Msgs,
         row' = [row EXCEPT ![work[e]][msg[e]] = status], UNCHANGED <<seen, syncing>>,
         status = "succeeded" => msg[e] \notin seen /\ present' = present \ {msg[e]},
         status # "succeeded" => present' = present,
         ~Deleting(e)', pc'[e] # "write"
  PROVE  AbsenceInv'
<1>1. \A d \in Procs : d = e
  BY DEF OneProcess
<1>2. /\ row'[work[e]][msg[e]] = status
      /\ \A p \in Plans, m \in Msgs : p # work[e] \/ m # msg[e] => row'[p][m] = row[p][m]
  BY DEF TypeOK, TablesTypeOK
<1>3. \A m \in seen, p \in Plans : row'[p][m] # "succeeded"
  <2>1. seen \subseteq Msgs
    BY DEF TypeOK, ProviderTypeOK
  <2> QED BY <1>2, <2>1 DEF AbsenceInv, SnapshotInv, Deleting
<1>4. SnapshotInv'
  BY <1>1, <1>3 DEF AbsenceInv, SnapshotInv, Deleting
<1>5. ConfirmedDeletionStaysAbsent'
  BY <1>2 DEF AbsenceInv, ConfirmedDeletionStaysAbsent
<1> QED BY <1>1, <1>4, <1>5 DEF AbsenceInv, ObservedPresent

LEMMA ExecuteAbsence ==
  ASSUME OneProcess, TypeOK, Truth, Discipline, AbsenceInv, NEW e \in Procs, ExecuteStep(e) \/ Crash(e)
  PROVE  AbsenceInv'
<1> USE DEF TypeOK, ProcsTypeOK, plans, mutations, provider, acquisition, procs
<1>1. CASE Revalidate(e) \/ SerialNext(e) \/ RecordRaises(e) \/ AdapterRaises(e) \/ Crash(e)
  <2>1. UNCHANGED <<row, seen, syncing, present>>
    BY <1>1 DEF Revalidate, SerialNext, RecordRaises, AdapterRaises, Crash
  <2>2. ~Deleting(e)' /\ pc'[e] # "write"
    BY <1>1 DEF Revalidate, SerialNext, RecordRaises, AdapterRaises, Crash, Deleting, Goto, Exit
  <2> QED BY <2>1, <2>2, QuietAbsence
<1>2. CASE InsertProductionRun(e)
  <2>1. /\ UNCHANGED <<seen, syncing, present>> /\ work[e] \in Plans /\ pc'[e] \in {"idle", "loop"}
        /\ \A d \in Procs : d = e
    BY <1>2 DEF InsertProductionRun, Goto, Exit, OneProcess
  <2>2. \A p \in Plans, m \in Msgs : row'[p][m] = "succeeded" => row[p][m] = "succeeded"
    <3>1. CASE UNCHANGED row
      BY <3>1
    <3>2. CASE row' = [row EXCEPT ![work[e]] = [m \in Msgs |->
                          IF m \in plan[work[e]].msgs THEN "planned" ELSE "none"]]
      <4>1. row \in [Plans -> [Msgs -> RowStatus]]
        BY DEF TablesTypeOK
      <4>2. \A m \in Msgs : row'[work[e]][m] # "succeeded"
        BY <2>1, <3>2, <4>1
      <4>3. \A p \in Plans : p # work[e] => row'[p] = row[p]
        BY <3>2, <4>1
      <4> QED BY <4>2, <4>3
    <3> QED BY <1>2, <3>1, <3>2 DEF InsertProductionRun
  <2>3. seen \subseteq Msgs
    BY DEF ProviderTypeOK
  <2>4. SnapshotInv'
    BY <2>1, <2>2, <2>3 DEF AbsenceInv, SnapshotInv, Deleting
  <2> QED BY <2>1, <2>2, <2>4 DEF AbsenceInv, ObservedPresent, ConfirmedDeletionStaysAbsent
<1>3. CASE HaltStale(e)
  <2>1. /\ work[e] \in Plans /\ msg[e] \in Msgs /\ UNCHANGED <<seen, syncing, present>>
        /\ row' = [row EXCEPT ![work[e]][msg[e]] = "failed"] /\ pc'[e] = "idle" /\ "failed" \in RowStatus
    BY <1>3 DEF HaltStale, Exit, RowStatus
  <2> QED BY <2>1, RowAbsence DEF Deleting
<1>4. CASE CommitStarted(e)
  <2>1. /\ work[e] \in Plans /\ msg[e] \in Msgs /\ UNCHANGED <<seen, syncing, present>>
        /\ row' = [row EXCEPT ![work[e]][msg[e]] = "started"] /\ pc'[e] = "call" /\ "started" \in RowStatus
    BY <1>4 DEF CommitStarted, Goto, RowStatus
  <2> QED BY <2>1, RowAbsence DEF Deleting
<1>5. CASE AdapterBegin(e)
  <2>1. UNCHANGED <<row, seen, syncing, present, msg>> /\ msg[e] \in Msgs
    BY <1>5 DEF AdapterBegin, Attempting
  <2>2. Deleting(e)' => LockFree(LockOf[msg[e]])
    BY <1>5 DEF AdapterBegin, Deleting, Goto
  <2>3. pc'[e] # "write"
    BY <1>5 DEF AdapterBegin, Goto
  <2>4. Deleting(e)' => msg[e] \notin seen
    BY <2>1, <2>2, ListedIsUnlocked DEF AbsenceInv
  <2> QED BY <2>1, <2>3, <2>4, QuietAbsence
<1>6. CASE AdapterReturns(e)
  <2>1. UNCHANGED <<row, seen, syncing, present, msg>> /\ pc[e] = "incall" /\ pc'[e] = "record"
    BY <1>6 DEF AdapterReturns, Goto
  <2>2. msg[e] \notin seen
    BY <2>1 DEF AbsenceInv, SnapshotInv, Deleting
  <2> QED BY <2>1, <2>2, QuietAbsence
<1>7. CASE RecordOutcome(e)
  <2>1. /\ work[e] \in Plans /\ msg[e] \in Msgs /\ UNCHANGED <<seen, syncing>>
        /\ row' = [row EXCEPT ![work[e]][msg[e]] = res[e]] /\ res[e] \in RowStatus
        /\ pc'[e] \in {"loop", "idle"}
    BY <1>7 DEF RecordOutcome, Attempting, Goto, Exit, RowStatus
  <2>2. res[e] = "succeeded" => msg[e] \notin seen /\ present' = present \ {msg[e]}
    BY <1>7 DEF RecordOutcome, AbsenceInv, SnapshotInv, Deleting
  <2>3. res[e] # "succeeded" => present' = present
    BY <1>7 DEF RecordOutcome
  <2> QED BY <2>1, <2>2, <2>3, RowAbsence DEF Deleting
<1> QED BY <1>1, <1>2, <1>3, <1>4, <1>5, <1>6, <1>7 DEF ExecuteStep

LEMMA ReconcileAbsence ==
  ASSUME OneProcess, TypeOK, Truth, AbsenceInv, NEW e \in Procs, ReconcileStep(e)
  PROVE  AbsenceInv'
<1> USE DEF TypeOK, ProcsTypeOK, plans, mutations, provider, acquisition, procs
<1>1. CASE ReconcileRow(e)
  <2>1. UNCHANGED <<row, seen, syncing, present>> /\ ~Deleting(e)' /\ pc'[e] # "write"
    BY <1>1 DEF ReconcileRow, Deleting, Goto, Exit
  <2> QED BY <2>1, QuietAbsence
<1>2. CASE Observe(e)
  <2>1. /\ UNCHANGED <<row, seen, syncing, present, msg>> /\ msg[e] \in Msgs /\ pc'[e] = "write"
        /\ \A d \in Procs : d = e
    BY <1>2 DEF Observe, Goto, OneProcess
  <2>2. PICK state \in ObservationStates :
           /\ Observable(msg[e], state)
           /\ res'[e] = IF state \in {"confirmed-absent", "confirmed-present-match"} THEN state ELSE res[e]
    BY <1>2 DEF Observe
  <2>3. res[e] \in RowStatus
    BY <1>2 DEF Observe
  <2>4. Deleting(e)' => msg[e] \notin seen
    <3>1. Deleting(e)' => state = "confirmed-absent"
      BY <2>1, <2>2, <2>3 DEF Deleting, RowStatus
    <3> QED BY <2>1, <2>2, <3>1, ListedIsUnlocked DEF Observable, AbsenceInv
  <2>5. res'[e] = "confirmed-present-match" => msg[e] \in server
    BY <2>2, <2>3 DEF Observable, RowStatus
  <2>6. res'[e] = "confirmed-present-match" => \A q \in Plans : row[q][msg[e]] # "succeeded"
    BY <2>1, <2>5 DEF Truth, SucceededMeansGone
  <2>7. SnapshotInv'
    BY <2>1, <2>4 DEF AbsenceInv, SnapshotInv, Deleting
  <2> QED BY <2>1, <2>6, <2>7 DEF AbsenceInv, ObservedPresent, ConfirmedDeletionStaysAbsent
<1>3. CASE ReconcileWrite(e)
  <2>1. /\ work[e] \in Plans /\ msg[e] \in Msgs /\ UNCHANGED <<seen, syncing>> /\ pc[e] = "write"
        /\ pc'[e] = "reconcile"
    BY <1>3 DEF ReconcileWrite, Goto
  <2>2. {"succeeded", "failed", "unknown"} \subseteq RowStatus
    BY DEF RowStatus
  <2>3. CASE res[e] = "confirmed-absent"
    <3>1. row' = [row EXCEPT ![work[e]][msg[e]] = "succeeded"] /\ present' = present \ {msg[e]}
      BY <1>3, <2>3 DEF ReconcileWrite
    <3>2. msg[e] \notin seen
      BY <2>1, <2>3 DEF AbsenceInv, SnapshotInv, Deleting
    <3> QED BY <2>1, <2>2, <3>1, <3>2, RowAbsence DEF Deleting
  <2>4. CASE res[e] = "confirmed-present-match"
    <3>1. row' = [row EXCEPT ![work[e]][msg[e]] = "failed"] /\ present' = present \cup {msg[e]}
      BY <1>3, <2>4 DEF ReconcileWrite
    <3>2. \A q \in Plans : row[q][msg[e]] # "succeeded"
      BY <2>1, <2>4 DEF AbsenceInv, ObservedPresent
    <3>3. \A p \in Plans, m \in Msgs : row'[p][m] = "succeeded" => row[p][m] = "succeeded"
      BY <2>1, <3>1 DEF TablesTypeOK
    <3>4. ConfirmedDeletionStaysAbsent'
      BY <3>1, <3>2, <3>3 DEF AbsenceInv, ConfirmedDeletionStaysAbsent
    <3>5. \A d \in Procs : d = e
      BY DEF OneProcess
    <3>6. seen \subseteq Msgs
      BY DEF ProviderTypeOK
    <3>7. SnapshotInv'
      BY <2>1, <3>3, <3>5, <3>6 DEF AbsenceInv, SnapshotInv, Deleting
    <3> QED BY <2>1, <3>4, <3>5, <3>7 DEF AbsenceInv, ObservedPresent
  <2>5. CASE res[e] = "started"
    <3>1. row' = [row EXCEPT ![work[e]][msg[e]] = "unknown"] /\ UNCHANGED present
      BY <1>3, <2>5 DEF ReconcileWrite
    <3> QED BY <2>1, <2>2, <3>1, RowAbsence DEF Deleting
  <2>6. CASE res[e] \notin {"confirmed-absent", "confirmed-present-match", "started"}
    <3>1. UNCHANGED <<row, present>>
      BY <1>3, <2>6 DEF ReconcileWrite
    <3> QED BY <2>1, <3>1, QuietAbsence DEF Deleting
  <2> QED BY <2>3, <2>4, <2>5, <2>6
<1> QED BY <1>1, <1>2, <1>3 DEF ReconcileStep

LEMMA SyncAbsence ==
  ASSUME TypeOK, Truth, AbsenceInv, NEW a \in PresenceSync,
         \/ SyncBegin(a)
         \/ \E marksAbsent \in BOOLEAN : SyncEnd(a, marksAbsent)
         \/ \E marked \in SUBSET Msgs : SyncFails(a, marked)
  PROVE  AbsenceInv'
<1> USE DEF TypeOK, ProcsTypeOK, plans, mutations, provider, acquisition, procs
<1>1. CASE SyncBegin(a)
  <2>1. /\ UNCHANGED <<row, present, pc, res, msg>> /\ LockFree(AccountLock[a])
        /\ syncing' = syncing \cup {a} /\ seen' = seen \cup (server \cap MsgsOf(a))
    BY <1>1 DEF SyncBegin
  <2>2. \A m \in seen' : AccountOf[m] \in syncing'
    BY <2>1 DEF AbsenceInv, SnapshotInv, Deleting, MsgsOf
  <2>3. \A m \in seen', p \in Plans : row[p][m] # "succeeded"
    BY <2>1 DEF AbsenceInv, SnapshotInv, Deleting, Truth, SucceededMeansGone, ProviderTypeOK
  <2>4. ASSUME NEW e \in Procs, Deleting(e)
        PROVE  msg[e] \notin seen'
    <3>1. msg[e] \notin seen
      BY <2>4 DEF Deleting, AbsenceInv, SnapshotInv
    <3>2. CASE pc[e] = "incall"
      <4>1. msg[e] \in Msgs /\ LockOf[msg[e]] # AccountLock[a]
        BY <2>1, <3>2 DEF LockFree, HoldsLock, Attempting
      <4>2. msg[e] \notin MsgsOf(a)
        BY <4>1, SharedLockAssumption DEF MsgsOf
      <4> QED BY <2>1, <3>1, <4>2
    <3>3. CASE pc[e] # "incall"
      <4>1. msg[e] \notin server
        BY <2>4, <3>3 DEF Deleting, Truth, Evidence, OutcomeEvidence, ObservationEvidence
      <4> QED BY <2>1, <3>1, <4>1
    <3> QED BY <3>2, <3>3
  <2>5. SnapshotInv'
    BY <2>1, <2>2, <2>3, <2>4 DEF SnapshotInv, Deleting
  <2> QED BY <2>1, <2>5 DEF AbsenceInv, ObservedPresent, ConfirmedDeletionStaysAbsent
<1>2. CASE ~SyncBegin(a)
  <2>1. /\ UNCHANGED <<row, pc, res, msg>> /\ syncing' = syncing \ {a} /\ seen' = seen \ MsgsOf(a)
        /\ present' \subseteq present \cup seen
    BY <1>2 DEF SyncEnd, SyncFails
  <2>2. ConfirmedDeletionStaysAbsent'
    BY <2>1 DEF AbsenceInv, SnapshotInv, Deleting, ConfirmedDeletionStaysAbsent
  <2>3. \A m \in seen' : AccountOf[m] \in syncing'
    BY <2>1 DEF AbsenceInv, SnapshotInv, Deleting, MsgsOf, ProviderTypeOK
  <2>4. SnapshotInv'
    BY <2>1, <2>3 DEF AbsenceInv, SnapshotInv, Deleting
  <2> QED BY <2>1, <2>2, <2>4 DEF AbsenceInv, ObservedPresent
<1> QED BY <1>1, <1>2

LEMMA NextAbsence ==
  ASSUME OneProcess, TypeOK, Truth, Discipline, AbsenceInv, [Next]_vars
  PROVE  AbsenceInv'
<1> USE DEF TypeOK, ProcsTypeOK, plans, mutations, provider, acquisition, procs
<1>1. ASSUME NEW e \in Procs, NEW p \in Plans,
             ReconcileBegin(e, p) \/ \E maxRun, maxAcct \in Limits : ExecuteProductionPlan(e, p, maxRun, maxAcct)
      PROVE  AbsenceInv'
  <2>1. UNCHANGED <<row, seen, syncing, present>> /\ ~Deleting(e)' /\ pc'[e] # "write"
    BY <1>1 DEF ReconcileBegin, ExecuteProductionPlan, Deleting, Goto
  <2> QED BY <2>1, QuietAbsence
<1>2. ASSUME UNCHANGED <<row, seen, syncing, present, pc, res, msg>>
      PROVE  AbsenceInv'
  BY <1>2 DEF AbsenceInv, SnapshotInv, Deleting, ObservedPresent, ConfirmedDeletionStaysAbsent
<1>3. ASSUME \/ \E p \in Plans, f \in Filters, maxRun, maxAcct \in Limits : PlanDryRun(p, f, maxRun, maxAcct)
             \/ \E p \in Plans : PlanExpires(p)
             \/ \E m \in Msgs : PolicyChanges(m) \/ RemovedElsewhere(m)
             \/ \E p \in Plans, m \in Msgs : AppliedLate(p, m)
             \/ UNCHANGED vars
      PROVE  UNCHANGED <<row, seen, syncing, present, pc, res, msg>>
  BY <1>3 DEF PlanDryRun, PlanExpires, PolicyChanges, RemovedElsewhere, AppliedLate, vars
<1> QED
  BY <1>1, <1>2, <1>3, ExecuteAbsence, ReconcileAbsence, SyncAbsence DEF Next

\* One operator beside any syncs, crashes and late effects: remote_present never comes back for
\* a message whose deletion was confirmed.  The account lock, shared by sync, delete and observe
\* (ADR-024), carries the proof: without it a listing taken before the deletion restores the flag.
THEOREM ConfirmedDeletionIsKept ==
  ASSUME OneProcess
  PROVE  Spec => []ConfirmedDeletionStaysAbsent
<1>1. Init => AbsenceInv
  BY DEF Init, AbsenceInv, SnapshotInv, Deleting, ObservedPresent, ConfirmedDeletionStaysAbsent
<1>2. TypeOK /\ Truth /\ Discipline /\ AbsenceInv /\ [Next]_vars => AbsenceInv'
  BY NextAbsence
<1>3. AbsenceInv => ConfirmedDeletionStaysAbsent
  BY DEF AbsenceInv
<1> QED BY <1>1, <1>2, <1>3, InitTruth, NextTruth, DisciplineHolds, TypeCorrect, PTL DEF Spec

==============================================================================
