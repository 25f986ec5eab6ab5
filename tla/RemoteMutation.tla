--------------------------- MODULE RemoteMutation ---------------------------
(***************************************************************************)
(* The remote-deletion engine of remote_mutation.py: dry-run planning,     *)
(* execution of one exact plan against a provider, and read-only           *)
(* reconciliation of what an interrupted execution left behind.            *)
(*                                                                         *)
(* Every CLI invocation is a process e \in Procs.  SQLite transactions are *)
(* atomic steps; between two transactions of one process any other         *)
(* process, a provider synchronisation, the provider itself, the mailbox   *)
(* owner or the operator's retention controls may act, and any process may *)
(* die.  A message m stands for one remote_messages row together with its  *)
(* immutable provider identity and canonical SHA-256; messages are         *)
(* numbered in the order of "ORDER BY a.name,r.id".                        *)
(***************************************************************************)
EXTENDS Naturals, FiniteSets

CONSTANTS
    Msgs,           \* remote_messages rows, in planning order
    Accounts,       \* configured accounts, enabled and opted in to remote deletion
    AccountOf,      \* Msgs -> Accounts
    LockKeys,       \* lock files under state/locks
    LockOf,         \* Msgs -> LockKeys: IMAP locks a folder, Gmail and POP3 the account
    AccountLock,    \* Accounts -> LockKeys: the lock a Gmail or POP3 sync takes
    PresenceSync,   \* the accounts whose sync writes remote_present (Gmail, POP3)
    Procs,          \* CLI processes
    NoFilter,       \* account_filter IS NULL
    MaxPlans,       \* bound on dry-run plans
    Limits,         \* values the configured and requested deletion limits take
    Filters,        \* values of --account on a dry-run
    MaxCrashes,     \* bound on process deaths
    LateDelivery    \* may a request whose answer was lost be applied later?

ASSUME MsgsAssumption == Msgs \subseteq Nat /\ IsFiniteSet(Msgs)
ASSUME AccountAssumption ==
    /\ AccountOf \in [Msgs -> Accounts]
    /\ LockOf \in [Msgs -> LockKeys]
    /\ AccountLock \in [Accounts -> LockKeys]
    /\ PresenceSync \subseteq Accounts
    /\ NoFilter \notin Accounts
\* Gmail and POP3 share one per-account lock between sync, delete and observe.
ASSUME SharedLockAssumption ==
    \A m \in Msgs : AccountOf[m] \in PresenceSync => LockOf[m] = AccountLock[AccountOf[m]]
ASSUME BoundAssumption ==
    /\ MaxPlans \in Nat /\ MaxCrashes \in Nat
    /\ Limits \subseteq Nat \ {0}
    /\ Filters \subseteq Accounts \cup {NoFilter}
    /\ LateDelivery \in BOOLEAN

VARIABLES
    planState,  \* age of each dry-run plan: "none" until it is committed
    plan,       \* its account filter, limits and rows
    run,        \* status of the production-execute run cloned from each plan
    row,        \* status of its remote_mutations rows
    present,    \* the messages with remote_present=1
    policyOk,   \* the messages with no reason code apart from REMOTE_NOT_PRESENT
    server,     \* the messages the provider really holds
    syncing,    \* accounts whose synchronisation is in progress
    seen,       \* what those synchronisations listed
    pc,         \* control point of each process
    work,       \* the plan it works on
    msg,        \* the row it works on
    res,        \* the answer it holds: an outcome, a row status or an observation
    todo,       \* rows a reconciliation still has to visit
    crashes,    \* process deaths so far
    inflight,   \* <<plan, message>>: destructive requests the provider may still apply
    calls,      \* history: provider delete attempts per production row
    removedBy   \* history: <<plan, message>> when the plan's own call removed the message

plans == <<planState, plan>>
mutations == <<run, row>>
provider == <<server, inflight, removedBy>>
acquisition == <<syncing, seen>>
procs == <<pc, work, msg, res, todo>>
vars == <<planState, plan, run, row, present, policyOk, server, syncing, seen, pc, work, msg,
          res, todo, crashes, inflight, calls, removedBy>>

Plans == 1..MaxPlans
RowStatus == {"none", "planned", "started", "succeeded", "failed", "unknown"}
RunStatus == {"none", "planned", "completed", "halted"}
PlanState == {"none", "fresh", "expired"}
Pcs == {"idle", "revalidate", "insert", "loop", "stale", "start", "call", "incall",
        "record", "recordException", "reconcile", "observe", "write"}

Unresolved == {"started", "unknown"}

-----------------------------------------------------------------------------
(* The closed adapter result matrix.                                       *)

FailureCodes == {"TARGET_NOT_FOUND", "IDENTITY_MISMATCH", "PROVIDER_REJECTED",
                 "SAFE_DELETE_UNSUPPORTED", "REMOTE_STATE_CONFLICT", "AUTHORIZATION_FAILED"}

\* MutationResult; "OTHER" stands for any code outside the closed sets.
MutationResults ==
    [outcome : {"success-confirmed", "failure-confirmed-no-mutation", "outcome-unknown"},
     confirmedAbsent : BOOLEAN,
     code : FailureCodes \cup {"NONE", "TRANSPORT_UNKNOWN", "OTHER"}]

ClaimsSuccess(result) ==
    result.outcome = "success-confirmed" /\ result.confirmedAbsent /\ result.code = "NONE"

ClaimsNoMutation(result) ==
    /\ result.outcome = "failure-confirmed-no-mutation"
    /\ ~result.confirmedAbsent
    /\ result.code \in FailureCodes

NormalizeByOutcome(result) ==   \* mutant: the other two fields are not looked at
    CASE result.outcome = "success-confirmed" -> "succeeded"
      [] result.outcome = "failure-confirmed-no-mutation" -> "failed"
      [] OTHER -> "unknown"

NormalizeNotSuccessIsFailure(result) ==   \* mutant: a doubtful outcome counts as a failure
    IF ClaimsSuccess(result) THEN "succeeded" ELSE "failed"

NormalizeNothing(result) == result.outcome   \* mutant: the adapter's word is stored

\* _normalize_result: an incoherent combination is an unknown outcome.
Normalize(result) ==
    CASE ClaimsSuccess(result) -> "succeeded"
      [] ClaimsNoMutation(result) -> "failed"
      [] OTHER -> "unknown"

\* observe() answers; an observer exception or a state outside the set is "unknown".
ObservationStates ==
    {"confirmed-absent", "confirmed-present-match", "identity-conflict", "unknown"}

-----------------------------------------------------------------------------
(* Eligibility, limits and locks.                                          *)

\* evaluate_all followed by _still_current.  The identity columns and the link of a
\* remote_messages row are never updated, so the fingerprint comparison cannot fail.
Eligible(m) == m \in policyOk /\ m \in present

MsgsOf(a) == {m \in Msgs : AccountOf[m] = a}

Rank(S, m) == Cardinality({n \in S : n < m})

SelectPastLimit(E, maxRun, maxAcct) ==   \* mutant: the run limit is compared after the append
    LET perAccount == {m \in E : Rank(E \cap MsgsOf(AccountOf[m]), m) < maxAcct}
    IN  {m \in perAccount : Rank(perAccount, m) <= maxRun}

\* The greedy selection loop: at most maxAcct per account, then at most maxRun in all.
Select(E, maxRun, maxAcct) ==
    LET perAccount == {m \in E : Rank(E \cap MsgsOf(AccountOf[m]), m) < maxAcct}
    IN  {m \in perAccount : Rank(perAccount, m) < maxRun}

Candidates(f) == {m \in Msgs : Eligible(m) /\ (f = NoFilter \/ AccountOf[m] = f)}

HoldsLock(e, k) == pc[e] = "incall" /\ LockOf[msg[e]] = k
SyncHoldsLock(k) == \E a \in syncing : AccountLock[a] = k
LockFreeIgnoresSync(k) == \A e \in Procs : ~HoldsLock(e, k)   \* mutant: sync takes no lock

\* folder_lock, gmail_lock and pop3_lock: a non-blocking exclusive flock.
LockFree(k) == ~SyncHoldsLock(k) /\ \A e \in Procs : ~HoldsLock(e, k)

AnyOf(m, S) == m \in S   \* mutant: no ORDER BY
IsLeast(m, S) == m \in S /\ \A n \in S : m <= n
RowsIn(p, S) == {m \in Msgs : row[p][m] \in S}

\* The unique index one_production_execution_per_plan.
NoUniqueIndex(p) == TRUE   \* mutant
UniqueIndexAllows(p) == run[p] = "none"

\* No target of the plan has an unresolved production mutation, of whichever run.
OnlyUnknownBlocks(p) ==   \* mutant: an attempt that only reached "started" is overlooked
    \A m \in plan[p].msgs, q \in Plans : row[q][m] # "unknown"
HistoryAllows(p) == \A m \in plan[p].msgs, q \in Plans : row[q][m] \notin Unresolved

\* The rows a reconciliation of the run selects.
RecoverFailedToo(p) == RowsIn(p, Unresolved \cup {"failed"})     \* mutant
RecoverPlannedToo(p) == RowsIn(p, Unresolved \cup {"planned"})   \* mutant
RecoverStartedOnly(p) == RowsIn(p, {"started"})                  \* mutant
Recoverable(p) == RowsIn(p, Unresolved)

-----------------------------------------------------------------------------
\* Archived messages, all still online and eligible; nothing was ever planned.
Init ==
    /\ planState = [p \in Plans |-> "none"]
    /\ plan = [p \in Plans |-> [filter |-> NoFilter, msgs |-> {}, maxRun |-> 0, maxAcct |-> 0]]
    /\ run = [p \in Plans |-> "none"]
    /\ row = [p \in Plans |-> [m \in Msgs |-> "none"]]
    /\ present = Msgs
    /\ policyOk = Msgs
    /\ server = Msgs
    /\ syncing = {}
    /\ seen = {}
    /\ pc = [e \in Procs |-> "idle"]
    /\ work = [e \in Procs |-> 0]
    /\ msg = [e \in Procs |-> 0]
    /\ res = [e \in Procs |-> "none"]
    /\ todo = [e \in Procs |-> {}]
    /\ crashes = 0
    /\ inflight = {}
    /\ calls = [p \in Plans |-> [m \in Msgs |-> 0]]
    /\ removedBy = {}

-----------------------------------------------------------------------------
(* Planning.                                                               *)

\* plan_dry_run: a fresh evaluation, the limits, then one transaction.
PlanDryRun(p, f, maxRun, maxAcct) ==
    /\ planState[p] = "none"
    /\ \A q \in Plans : q < p => planState[q] # "none"
    /\ planState' = [planState EXCEPT ![p] = "fresh"]
    /\ plan' = [plan EXCEPT ![p] =
                  [filter |-> f, msgs |-> Select(Candidates(f), maxRun, maxAcct),
                   maxRun |-> maxRun, maxAcct |-> maxAcct]]
    /\ UNCHANGED <<mutations, present, policyOk, provider, acquisition, procs, crashes, calls>>

\* PLAN_TTL elapses; the age of a plan matters only while it has no production run.
PlanExpires(p) ==
    /\ planState[p] = "fresh"
    /\ run[p] = "none"
    /\ planState' = [planState EXCEPT ![p] = "expired"]
    /\ UNCHANGED <<plan, mutations, present, policyOk, provider, acquisition, procs, crashes,
                   calls>>

-----------------------------------------------------------------------------
(* Execution of one plan.                                                  *)

Goto(e, label) == pc' = [pc EXCEPT ![e] = label]

\* The process ends; its local state is gone.
Exit(e) ==
    /\ pc' = [pc EXCEPT ![e] = "idle"]
    /\ work' = [work EXCEPT ![e] = 0]
    /\ msg' = [msg EXCEPT ![e] = 0]
    /\ res' = [res EXCEPT ![e] = "none"]
    /\ todo' = [todo EXCEPT ![e] = {}]

\* The guards of execute_production_plan that read the plan and the mutation history,
\* under the limits of the configuration this process loaded.
ExecuteProductionPlan(e, p, maxRun, maxAcct) ==
    LET selected == Cardinality(plan[p].msgs) IN
    /\ pc[e] = "idle"
    /\ planState[p] = "fresh"
    /\ plan[p].filter \in Accounts
    /\ selected >= 1
    /\ run[p] = "none"
    /\ \A limit \in {plan[p].maxRun, plan[p].maxAcct, maxRun, maxAcct} : selected <= limit
    /\ plan[p].maxRun <= maxRun /\ plan[p].maxAcct <= maxAcct
    /\ HistoryAllows(p)
    /\ Goto(e, "revalidate")
    /\ work' = [work EXCEPT ![e] = p]
    /\ UNCHANGED <<plans, mutations, present, policyOk, provider, acquisition, msg, res, todo,
                   crashes, calls>>

\* The fresh evaluation of every row before anything is written, and the construction of the
\* adapter, which may refuse a plan whose rows are all eligible.
Revalidate(e) ==
    /\ pc[e] = "revalidate"
    /\ \/ /\ \A m \in plan[work[e]].msgs : Eligible(m)
          /\ Goto(e, "insert")
          /\ UNCHANGED <<work, msg, res, todo>>
       \/ Exit(e)
    /\ UNCHANGED <<plans, mutations, present, policyOk, provider, acquisition, crashes, calls>>

\* Clone the plan into a production run; the INSERT fails when a run already exists.
InsertProductionRun(e) ==
    LET p == work[e] IN
    /\ pc[e] = "insert"
    /\ \/ /\ UniqueIndexAllows(p)
          /\ run' = [run EXCEPT ![p] = "planned"]
          /\ row' = [row EXCEPT ![p] = [m \in Msgs |->
                        IF m \in plan[p].msgs THEN "planned" ELSE "none"]]
          /\ Goto(e, "loop")
          /\ UNCHANGED <<work, msg, res, todo>>
       \/ /\ ~UniqueIndexAllows(p)
          /\ Exit(e)
          /\ UNCHANGED mutations
    /\ UNCHANGED <<plans, present, policyOk, provider, acquisition, crashes, calls>>

\* Head of the _execute_serial loop: first planned row and its last revalidation, or the
\* completion of the run.
SerialNext(e) ==
    LET p == work[e]
        planned == RowsIn(p, {"planned"})
    IN
    /\ pc[e] = "loop"
    /\ \/ /\ planned = {}
          /\ run' = [run EXCEPT ![p] = "completed"]
          /\ Exit(e)
       \/ \E m \in planned :
          /\ IsLeast(m, planned)
          /\ msg' = [msg EXCEPT ![e] = m]
          /\ Goto(e, IF Eligible(m) THEN "start" ELSE "stale")
          /\ UNCHANGED <<run, work, res, todo>>
    /\ UNCHANGED <<plans, row, present, policyOk, provider, acquisition, crashes, calls>>

\* _halt_stale.
HaltStale(e) ==
    /\ pc[e] = "stale"
    /\ row' = [row EXCEPT ![work[e]][msg[e]] = "failed"]
    /\ run' = [run EXCEPT ![work[e]] = "halted"]
    /\ Exit(e)
    /\ UNCHANGED <<plans, present, policyOk, provider, acquisition, crashes, calls>>

CommitStartedLate(e) ==   \* mutant: the row is left for the outcome to update
    /\ pc[e] = "start"
    /\ Goto(e, "call")
    /\ UNCHANGED <<plans, mutations, present, policyOk, provider, acquisition, work, msg, res,
                   todo, crashes, calls>>

\* The "started" commit that precedes every provider call.
CommitStarted(e) ==
    /\ pc[e] = "start"
    /\ row' = [row EXCEPT ![work[e]][msg[e]] = "started"]
    /\ Goto(e, "call")
    /\ UNCHANGED <<plans, run, present, policyOk, provider, acquisition, work, msg, res, todo,
                   crashes, calls>>

\* adapter.delete takes its account or folder lock without waiting.  A busy lock is
\* answered before any provider contact: a failure (IMAP, POP3) or an exception (Gmail).
AdapterBegin(e) ==
    /\ pc[e] = "call"
    /\ \/ /\ LockFree(LockOf[msg[e]])
          /\ Goto(e, "incall")
          /\ calls' = [calls EXCEPT ![work[e]][msg[e]] = @ + 1]
          /\ UNCHANGED res
       \/ /\ ~LockFree(LockOf[msg[e]])
          /\ Goto(e, "record")
          /\ res' = [res EXCEPT ![e] = "failed"]
          /\ UNCHANGED calls
       \/ /\ ~LockFree(LockOf[msg[e]])
          /\ Goto(e, "recordException")
          /\ res' = [res EXCEPT ![e] = "unknown"]
          /\ UNCHANGED calls
    /\ UNCHANGED <<plans, mutations, present, policyOk, provider, acquisition, work, msg, todo,
                   crashes>>

\* What a call for message m may have done when it answers: a coherent success has observed
\* absence and a coherent failure has removed nothing; any other answer says nothing.
AdapterContract(m, result, removes) ==
    /\ removes => m \in server
    /\ ClaimsSuccess(result) => removes \/ m \notin server
    /\ ClaimsNoMutation(result) => ~removes

\* The provider's side of a call: the message is removed, or the request is still on its
\* way although nobody waits for its answer any more, or nothing happens.
Provider(p, m, removes, late) ==
    /\ late => LateDelivery /\ ~removes
    /\ server' = IF removes THEN server \ {m} ELSE server
    /\ removedBy' = IF removes THEN removedBy \cup {<<p, m>>} ELSE removedBy
    /\ inflight' = IF late THEN inflight \cup {<<p, m>>} ELSE inflight

\* adapter.delete returns; _record_outcome first normalises its result.
AdapterReturns(e) ==
    /\ pc[e] = "incall"
    /\ \E result \in MutationResults, removes \in BOOLEAN, late \in BOOLEAN :
          /\ AdapterContract(msg[e], result, removes)
          /\ late => ~ClaimsSuccess(result)
          /\ Provider(work[e], msg[e], removes, late)
          /\ res' = [res EXCEPT ![e] = Normalize(result)]
    /\ Goto(e, "record")
    /\ UNCHANGED <<plans, mutations, present, policyOk, acquisition, work, msg, todo, crashes,
                   calls>>

\* A call that gives no answer has removed the message, is still on its way, or did nothing.
NoAnswer(e) ==
    \E removes \in BOOLEAN, late \in BOOLEAN :
        /\ removes => msg[e] \in server
        /\ Provider(work[e], msg[e], removes, late)

\* adapter.delete raises; the handler records ADAPTER_EXCEPTION.
AdapterRaises(e) ==
    /\ pc[e] = "incall"
    /\ NoAnswer(e)
    /\ res' = [res EXCEPT ![e] = "unknown"]
    /\ Goto(e, "recordException")
    /\ UNCHANGED <<plans, mutations, present, policyOk, acquisition, work, msg, todo, crashes,
                   calls>>

RecordOutcomeHaltsOnly(e) ==   \* mutant: an exception halts the run and forgets the row
    /\ pc[e] \in {"record", "recordException"}
    /\ row' = IF pc[e] = "record" THEN [row EXCEPT ![work[e]][msg[e]] = res[e]] ELSE row
    /\ present' = IF res[e] = "succeeded" THEN present \ {msg[e]} ELSE present
    /\ run' = [run EXCEPT ![work[e]] = "halted"]
    /\ Exit(e)
    /\ UNCHANGED <<plans, policyOk, provider, acquisition, crashes, calls>>

\* _record_outcome: one transaction for the row, the presence flag and the halt.
RecordOutcome(e) ==
    /\ pc[e] \in {"record", "recordException"}
    /\ row' = [row EXCEPT ![work[e]][msg[e]] = res[e]]
    /\ \/ /\ res[e] = "succeeded"
          /\ present' = present \ {msg[e]}
          /\ Goto(e, "loop")
          /\ UNCHANGED <<run, work, msg, res, todo>>
       \/ /\ res[e] # "succeeded"
          /\ run' = [run EXCEPT ![work[e]] = "halted"]
          /\ Exit(e)
          /\ UNCHANGED present
    /\ UNCHANGED <<plans, policyOk, provider, acquisition, crashes, calls>>

\* The recording transaction itself raises (a busy database): the surrounding handler
\* records an unknown outcome instead.  If that one raises too the process ends (Crash).
RecordRaises(e) ==
    /\ pc[e] = "record"
    /\ Goto(e, "recordException")
    /\ res' = [res EXCEPT ![e] = "unknown"]
    /\ UNCHANGED <<plans, mutations, present, policyOk, provider, acquisition, work, msg, todo,
                   crashes, calls>>

\* A process dies, or ends on an exception nobody catches; flock releases its lock.  The
\* provider may have received what a dying call sent.
Crash(e) ==
    /\ pc[e] # "idle"
    /\ crashes < MaxCrashes
    /\ crashes' = crashes + 1
    /\ \/ pc[e] = "incall" /\ NoAnswer(e)
       \/ pc[e] # "incall" /\ UNCHANGED provider
    /\ Exit(e)
    /\ UNCHANGED <<plans, mutations, present, policyOk, acquisition, calls>>

-----------------------------------------------------------------------------
(* Reconciliation.                                                         *)

\* reconcile_production_run refuses every run that is not halted.
ReconcileBegin(e, p) ==
    /\ pc[e] = "idle"
    /\ run[p] = "halted"
    /\ Goto(e, "reconcile")
    /\ work' = [work EXCEPT ![e] = p]
    /\ todo' = [todo EXCEPT ![e] = Recoverable(p)]
    /\ UNCHANGED <<plans, mutations, present, policyOk, provider, acquisition, msg, res,
                   crashes, calls>>

\* The first transaction of one iteration: the row's status is read here, before the
\* observation, and used after it.
ReconcileRow(e) ==
    /\ pc[e] = "reconcile"
    /\ \/ /\ todo[e] = {}
          /\ Exit(e)
       \/ \E m \in todo[e] :
          /\ IsLeast(m, todo[e])
          /\ Goto(e, "observe")
          /\ msg' = [msg EXCEPT ![e] = m]
          /\ todo' = [todo EXCEPT ![e] = @ \ {m}]
          /\ res' = [res EXCEPT ![e] = row[work[e]][m]]
          /\ UNCHANGED work
    /\ UNCHANGED <<plans, mutations, present, policyOk, provider, acquisition, crashes, calls>>

\* What an observation may report: conclusive answers are true when they are made, and
\* need the lock.
Observable(m, state) ==
    /\ state = "confirmed-absent" => m \notin server /\ LockFree(LockOf[m])
    /\ state = "confirmed-present-match" => m \in server /\ LockFree(LockOf[m])

\* observe.  After an inconclusive answer the process still holds the status it read
\* before: res is "started" or "unknown" then.
Observe(e) ==
    /\ pc[e] = "observe"
    /\ \E state \in ObservationStates :
          /\ Observable(msg[e], state)
          /\ res' = IF state \in {"confirmed-absent", "confirmed-present-match"}
                    THEN [res EXCEPT ![e] = state] ELSE res
    /\ Goto(e, "write")
    /\ UNCHANGED <<plans, mutations, present, policyOk, provider, acquisition, work, msg, todo,
                   crashes, calls>>

\* The second transaction of one iteration; its UPDATEs name the row id only.
ReconcileWrite(e) ==
    /\ pc[e] = "write"
    /\ \/ /\ res[e] = "confirmed-absent"
          /\ row' = [row EXCEPT ![work[e]][msg[e]] = "succeeded"]
          /\ present' = present \ {msg[e]}
       \/ /\ res[e] = "confirmed-present-match"
          /\ row' = [row EXCEPT ![work[e]][msg[e]] = "failed"]
          /\ present' = present \cup {msg[e]}
       \/ /\ res[e] = "started"
          /\ row' = [row EXCEPT ![work[e]][msg[e]] = "unknown"]
          /\ UNCHANGED present
       \/ /\ res[e] \notin {"confirmed-absent", "confirmed-present-match", "started"}
          /\ UNCHANGED <<row, present>>
    /\ Goto(e, "reconcile")
    /\ res' = [res EXCEPT ![e] = "none"]
    /\ UNCHANGED <<plans, run, policyOk, provider, acquisition, work, msg, todo, crashes, calls>>

-----------------------------------------------------------------------------
(* Everything else that touches the same state.                            *)

SyncBeginLosesListing(a) ==   \* mutant: an empty answer is taken for an empty mailbox
    /\ a \notin syncing
    /\ LockFree(AccountLock[a])
    /\ syncing' = syncing \cup {a}
    /\ UNCHANGED <<plans, mutations, present, policyOk, provider, seen, procs, crashes, calls>>

\* A Gmail or POP3 sync holds the account lock from its first provider read to its last
\* local write.
SyncBegin(a) ==
    /\ a \notin syncing
    /\ LockFree(AccountLock[a])
    /\ syncing' = syncing \cup {a}
    /\ seen' = seen \cup (server \cap MsgsOf(a))
    /\ UNCHANGED <<plans, mutations, present, policyOk, provider, procs, crashes, calls>>

\* POP3 marks the listed UIDLs present; a full Gmail sync also marks the others absent.
SyncEnd(a, marksAbsent) ==
    /\ a \in syncing
    /\ present' = (present \cup (seen \cap MsgsOf(a)))
                    \ (IF marksAbsent THEN MsgsOf(a) \ seen ELSE {})
    /\ syncing' = syncing \ {a}
    /\ seen' = seen \ MsgsOf(a)
    /\ UNCHANGED <<plans, mutations, policyOk, provider, procs, crashes, calls>>

\* A sync that ends on an error, or on an empty Gmail mailbox, has marked some listed
\* messages present and none absent.
SyncFails(a, marked) ==
    /\ a \in syncing
    /\ marked \subseteq seen \cap MsgsOf(a)
    /\ present' = present \cup marked
    /\ syncing' = syncing \ {a}
    /\ seen' = seen \ MsgsOf(a)
    /\ UNCHANGED <<plans, mutations, policyOk, provider, procs, crashes, calls>>

\* A hold is set or released, the account is enabled or disabled, backup evidence is
\* gained or revoked, the retention deadline passes, the archive file changes.
PolicyChanges(m) ==
    /\ \/ m \in policyOk /\ policyOk' = policyOk \ {m}
       \/ m \notin policyOk /\ policyOk' = policyOk \cup {m}
    /\ UNCHANGED <<plans, mutations, present, provider, acquisition, procs, crashes, calls>>

\* The mailbox owner removes the message with another client.
RemovedElsewhere(m) ==
    /\ m \in server
    /\ server' = server \ {m}
    /\ UNCHANGED <<plans, mutations, present, policyOk, inflight, removedBy, acquisition, procs,
                   crashes, calls>>

\* The provider applies a request whose answer was lost.
AppliedLate(p, m) ==
    /\ <<p, m>> \in inflight
    /\ m \in server
    /\ server' = server \ {m}
    /\ removedBy' = removedBy \cup {<<p, m>>}
    /\ inflight' = inflight \ {<<p, m>>}
    /\ UNCHANGED <<plans, mutations, present, policyOk, acquisition, procs, crashes, calls>>

-----------------------------------------------------------------------------
ExecuteStep(e) ==
    \/ Revalidate(e)
    \/ InsertProductionRun(e)
    \/ SerialNext(e)
    \/ HaltStale(e)
    \/ CommitStarted(e)
    \/ AdapterBegin(e)
    \/ AdapterReturns(e)
    \/ AdapterRaises(e)
    \/ RecordOutcome(e)
    \/ RecordRaises(e)

ReconcileStep(e) ==
    \/ ReconcileRow(e)
    \/ Observe(e)
    \/ ReconcileWrite(e)

Next ==
    \/ \E p \in Plans, f \in Filters, maxRun, maxAcct \in Limits :
          PlanDryRun(p, f, maxRun, maxAcct)
    \/ \E p \in Plans : PlanExpires(p)
    \/ \E e \in Procs, p \in Plans, maxRun, maxAcct \in Limits :
          ExecuteProductionPlan(e, p, maxRun, maxAcct)
    \/ \E e \in Procs : ExecuteStep(e)
    \/ \E e \in Procs : Crash(e)
    \/ \E e \in Procs, p \in Plans : ReconcileBegin(e, p)
    \/ \E e \in Procs : ReconcileStep(e)
    \/ \E a \in PresenceSync : SyncBegin(a)
    \/ \E a \in PresenceSync, marksAbsent \in BOOLEAN : SyncEnd(a, marksAbsent)
    \/ \E a \in PresenceSync, marked \in SUBSET Msgs : SyncFails(a, marked)
    \/ \E m \in Msgs : PolicyChanges(m)
    \/ \E m \in Msgs : RemovedElsewhere(m)
    \/ \E p \in Plans, m \in Msgs : AppliedLate(p, m)

Spec == Init /\ [][Next]_vars

-----------------------------------------------------------------------------
(* Invariants.                                                             *)

PlanRecords ==
    [filter : Accounts \cup {NoFilter}, msgs : SUBSET Msgs, maxRun : Nat, maxAcct : Nat]

\* Control points at which a process owns a production run, works on one of its rows, has
\* committed that row as started, and at which it reconciles.
Executing == {"loop", "stale", "start", "call", "incall", "record", "recordException"}
Attempting == {"call", "incall", "record", "recordException"}
Reconciling == {"reconcile", "observe", "write"}

TablesTypeOK ==
    /\ planState \in [Plans -> PlanState]
    /\ plan \in [Plans -> PlanRecords]
    /\ run \in [Plans -> RunStatus]
    /\ row \in [Plans -> [Msgs -> RowStatus]]
    /\ present \subseteq Msgs
    /\ policyOk \subseteq Msgs

ProviderTypeOK ==
    /\ server \subseteq Msgs
    /\ syncing \subseteq PresenceSync
    /\ seen \subseteq Msgs
    /\ inflight \subseteq (Plans \X Msgs)
    /\ removedBy \subseteq (Plans \X Msgs)
    /\ calls \in [Plans -> [Msgs -> Nat]]
    /\ crashes \in 0..MaxCrashes

ProcsTypeOK ==
    /\ pc \in [Procs -> Pcs]
    /\ work \in [Procs -> Nat]
    /\ msg \in [Procs -> Nat]
    /\ res \in [Procs -> RowStatus \cup ObservationStates]
    /\ todo \in [Procs -> SUBSET Msgs]
    /\ \A e \in Procs :
          /\ pc[e] # "idle" => work[e] \in Plans
          /\ pc[e] \in Attempting \cup {"start", "stale", "observe", "write"} => msg[e] \in Msgs
          /\ pc[e] \in {"record", "recordException"} => res[e] \in {"succeeded", "failed", "unknown"}
          /\ pc[e] = "observe" => res[e] \in RowStatus

\* The variables hold values of their tables and of the control points of the code; a
\* process past its guards works on a plan, and past its row lookup on a message.
TypeOK == TablesTypeOK /\ ProviderTypeOK /\ ProcsTypeOK

\* A mutation recorded as succeeded, by execution or by reconciliation, is a message that
\* really left the provider, whatever incoherent results an adapter returned.
SucceededMeansGone ==
    \A p \in Plans, m \in Msgs : row[p][m] = "succeeded" => m \notin server

\* remote_present is cleared only for a message that is gone: the local catalogue never
\* claims an absence the provider does not show ("Only confirmed remote absence allows
\* remote_present=false", REMOTE_DELETION_RUNBOOK.md).
LocalAbsenceIsReal == server \subseteq present

\* No synchronisation snapshot and no reconciliation restores remote_present for a message
\* whose deletion was confirmed (ADR-024: the reason for the shared account lock).
ConfirmedDeletionStaysAbsent ==
    \A p \in Plans, m \in Msgs : row[p][m] = "succeeded" => m \notin present

\* One production row reaches the provider at most once: no retry, no resume, no second
\* execution of a consumed plan, across crashes and concurrent processes.
AtMostOneAttempt == \A p \in Plans, m \in Msgs : calls[p][m] <= 1

\* Whatever instant a process dies, a provider call it made is visible in SQLite: its row
\* left "planned" before the call.
AttemptIsRecorded ==
    \A p \in Plans, m \in Msgs : calls[p][m] > 0 => row[p][m] \notin {"none", "planned"}

\* Rows are worked in order and the first one that is not a success is the last one
\* worked: a later row that left "planned" has only succeeded rows before it.
FirstNonSuccessHalts ==
    \A p \in Plans : \A m, n \in plan[p].msgs :
        m < n /\ row[p][n] \notin {"none", "planned"} => row[p][m] = "succeeded"

\* A message a run removed is never recorded as a confirmed non-mutation.
RemovalIsNeverRecordedAsFailure ==
    \A p \in Plans, m \in Msgs : <<p, m>> \in removedBy =>
        row[p][m] \in {"started", "unknown", "succeeded"}

\* A target with an unresolved destructive attempt gets no second one: the refusal
\* "target has unresolved destructive production state" of execute_production_plan.
NoOverlappingAttempt ==
    \A m \in Msgs : \A p, q \in Plans :
        row[p][m] \in Unresolved /\ row[q][m] \in Unresolved => p = q

\* A halted run has no row left in "started": every transaction that halts a run also
\* moves the row it was working on to an outcome.
HaltedRunHasOutcome ==
    \A p \in Plans, m \in Msgs : run[p] = "halted" => row[p][m] # "started"

-----------------------------------------------------------------------------
(* Action properties.                                                      *)

\* A resolved row is final: neither execution nor reconciliation rewrites a succeeded or a
\* failed mutation.
ResolvedIsFinal ==
    [][\A p \in Plans, m \in Msgs :
          row[p][m] \in {"succeeded", "failed"} => row'[p][m] = row[p][m]]_row

\* What a plan owes the operator, said of the plan and not of the loop that makes it: its
\* rows were eligible when it was made, no limit is exceeded, and an eligible row is left
\* out only because rows before it use up the run's limit or its account's ("deterministic
\* global/per-account limits", TEST_PLAN.md).
PlanUsesItsLimits ==
    [][\A p \in Plans : planState[p] = "none" /\ planState'[p] = "fresh" =>
          LET new == plan'[p]
              Before(m) == {n \in new.msgs : n < m}
          IN
          /\ new.msgs \subseteq Candidates(new.filter)
          /\ Cardinality(new.msgs) <= new.maxRun
          /\ \A a \in Accounts : Cardinality(new.msgs \cap MsgsOf(a)) <= new.maxAcct
          /\ \A m \in Candidates(new.filter) \ new.msgs :
                \/ Cardinality(Before(m)) >= new.maxRun
                \/ Cardinality(Before(m) \cap MsgsOf(AccountOf[m])) >= new.maxAcct]_plans

\* A run that reached its end stays there: reconciliation never resumes planned rows.
EndedRunStaysEnded ==
    [][\A p \in Plans : run[p] \in {"completed", "halted"} =>
          /\ run'[p] = run[p]
          /\ \A m \in Msgs : row[p][m] = "planned" => row'[p][m] = "planned"]_<<run, row>>

-----------------------------------------------------------------------------
(* Liveness.                                                               *)

Conclusive(e) ==
    /\ Observe(e)
    /\ res'[e] \in {"confirmed-absent", "confirmed-present-match"}

\* A process that runs takes its next step; a sync ends; the operator keeps reconciling a
\* halted run, and the provider does not stay unobservable for ever.
Fairness ==
    /\ \A e \in Procs :
          /\ WF_vars(ExecuteStep(e))
          /\ WF_vars(ReconcileStep(e))
          /\ SF_vars(Conclusive(e))
          /\ \A p \in Plans : SF_vars(RowsIn(p, Unresolved) # {} /\ ReconcileBegin(e, p))
    /\ \A a \in PresenceSync, b \in BOOLEAN : WF_vars(SyncEnd(a, b))

FairSpec == Spec /\ Fairness

\* An unknown outcome is resolved in the end if the operator follows the runbook.
UnknownIsResolved ==
    \A p \in Plans, m \in Msgs :
        row[p][m] = "unknown" ~> row[p][m] \in {"succeeded", "failed"}

\* So is an attempt that only reached "started": "A started or unknown mutation is
\* reconciled ... by a read-only provider observation" (ADR-025).
StartedIsResolved ==
    \A p \in Plans, m \in Msgs :
        row[p][m] = "started" ~> row[p][m] \in {"succeeded", "failed"}

=============================================================================
