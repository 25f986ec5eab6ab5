---------------------------- MODULE MessageStore ----------------------------
(***************************************************************************)
(* The life of one canonical message in the local archive: admission of    *)
(* its exact bytes (ingest.py), classification and the move between        *)
(* staging, mail and quarantine (classification.py), and the row that      *)
(* SQLite keeps about it (db.py).                                          *)
(*                                                                         *)
(* Messages with different digests share no file and no row, so one digest *)
(* is enough.  Every provider sync, "mailarchive ingest" and "mailarchive  *)
(* classify" is a process; none of them holds a lock around these steps.   *)
(* A directory entry survives a power failure for certain only after its   *)
(* directory was synced.  Temporary files are not modelled: they are       *)
(* invisible under other names and synced before they are linked.          *)
(***************************************************************************)
EXTENDS Naturals

CONSTANTS
    Procs,              \* processes
    ManualProcs,        \* those that serve an operator's "classify" and "ingest"
    MaxCrashes,         \* bound on process deaths
    MaxPowerFailures,   \* bound on power failures
    MaxDamage           \* bound on corruptions of files at rest

ASSUME StoreAssumption ==
    /\ ManualProcs \subseteq Procs
    /\ MaxCrashes \in Nat /\ MaxPowerFailures \in Nat /\ MaxDamage \in Nat

VARIABLES
    files,      \* the entry <dir>/<account>/cur/<sha256>.eml of each tree
    disk,       \* the entries a power failure cannot take back
    row,        \* the canonical_messages row
    override,   \* latest verdict with manual_override=1
    auto,       \* latest verdict with manual_override=0
    pc,         \* control point of each process
    op,         \* what it was started for
    snap,       \* the CanonicalMessage it works with
    verdict,    \* the ClassificationResult it applies
    target,     \* how ingest_bytes found the message, then the storage state it moves to
    crashes, powerFailures, damage

store == <<files, disk>>
catalog == <<row, override, auto>>
locals == <<op, snap, verdict, target>>
failures == <<crashes, powerFailures, damage>>
vars == <<files, disk, row, override, auto, pc, op, snap, verdict, target, crashes,
          powerFailures, damage>>

Dirs == {"staging", "mail", "quarantine"}
Content == {"none", "good", "bad"}
Verdicts == {"ham", "suspect", "spam"}
States == {"pending", "archived", "quarantined"}
Ops == {"none", "sync", "import", "reconcile", "manual"}
Pcs == {"idle", "create", "link", "linkSync", "register", "verify", "classify", "decide", "move",
        "install", "syncDest", "exists", "remove", "syncSource", "commit"}

Row(state, archivedAt, quarantinedAt) ==
    [state |-> state, archivedAt |-> archivedAt, quarantinedAt |-> quarantinedAt]

NoRow == Row("none", FALSE, FALSE)

\* _target and _maildir_path: the tree of a storage state.  local_path is always this path.
DirOf(state) ==
    CASE state = "archived" -> "mail"
      [] state = "quarantined" -> "quarantine"
      [] OTHER -> "staging"

\* Only a HAM verdict archives.
StateIsVerdict(v) == v   \* mutant: the verdict is stored where the state belongs
StateOf(v) == IF v = "ham" THEN "archived" ELSE "quarantined"

Init ==
    /\ files = [d \in Dirs |-> "none"]
    /\ disk = [d \in Dirs |-> "none"]
    /\ row = NoRow
    /\ override = "none"
    /\ auto = "none"
    /\ pc = [e \in Procs |-> "idle"]
    /\ op = [e \in Procs |-> "none"]
    /\ snap = [e \in Procs |-> NoRow]
    /\ verdict = [e \in Procs |-> "none"]
    /\ target = [e \in Procs |-> "none"]
    /\ crashes = 0
    /\ powerFailures = 0
    /\ damage = 0

Goto(e, label) == pc' = [pc EXCEPT ![e] = label]

\* Return to the caller, or an exception that ends the operation.
Exit(e) ==
    /\ Goto(e, "idle")
    /\ op' = [op EXCEPT ![e] = "none"]
    /\ snap' = [snap EXCEPT ![e] = NoRow]
    /\ verdict' = [verdict EXCEPT ![e] = "none"]
    /\ target' = [target EXCEPT ![e] = "none"]

Continue(e, label) == Goto(e, label) /\ UNCHANGED locals

-----------------------------------------------------------------------------
(* Admission.                                                              *)

\* ingest_bytes reads the row of these bytes; a known message must verify.
Ingest(e, o) ==
    /\ pc[e] = "idle"
    /\ \/ row.state = "none" /\ Goto(e, "create")
       \/ row.state # "none" /\ files[DirOf(row.state)] = "good" /\ Goto(e, "register")
    /\ op' = [op EXCEPT ![e] = o]
    /\ snap' = [snap EXCEPT ![e] = row]
    /\ UNCHANGED <<store, catalog, verdict, target, failures>>

\* create_canonical_file accepts a matching file of an earlier attempt, refuses any other.
CreateCheck(e) ==
    /\ pc[e] = "create"
    /\ \/ files["staging"] = "good" /\ Continue(e, "register")
       \/ files["staging"] = "bad" /\ Exit(e)
       \/ files["staging"] = "none" /\ Continue(e, "link")
    /\ UNCHANGED <<store, catalog, failures>>

\* os.link of the synced temporary file; FileExistsError compares the winner's bytes.
CreateLink(e) ==
    /\ pc[e] = "link"
    /\ \/ /\ files["staging"] # "bad"
          /\ files' = [files EXCEPT !["staging"] = "good"]
          /\ Continue(e, "linkSync")
       \/ /\ files["staging"] = "bad"
          /\ Exit(e)
          /\ UNCHANGED files
    /\ UNCHANGED <<disk, catalog, failures>>

CreateSync(e) ==
    /\ pc[e] = "linkSync"
    /\ disk' = [disk EXCEPT !["staging"] = files["staging"]]
    /\ Continue(e, "register")
    /\ UNCHANGED <<files, catalog, failures>>

RegisterReplaces(e) ==   \* mutant: INSERT OR REPLACE
    /\ pc[e] = "register"
    /\ row' = Row("pending", FALSE, FALSE)
    /\ snap' = [snap EXCEPT ![e] = row']
    /\ target' = [target EXCEPT ![e] = "created"]
    /\ Goto(e, "verify")
    /\ UNCHANGED <<store, override, auto, op, verdict, failures>>

\* register_canonical_message: insert the row or return the one that is there.
Register(e) ==
    LET stored == IF row.state = "none" THEN Row("pending", FALSE, FALSE) ELSE row IN
    /\ pc[e] = "register"
    /\ row' = stored
    /\ snap' = [snap EXCEPT ![e] = stored]
    /\ target' = [target EXCEPT ![e] =
                    IF snap[e].state # "none" THEN "known"
                    ELSE IF row.state = "none" THEN "created" ELSE "reused"]
    /\ Goto(e, "verify")
    /\ UNCHANGED <<store, override, auto, op, verdict, failures>>

\* Only an operation that did not know the message verifies the file of the returned row.
IngestVerified(e) == target[e] = "known" \/ files[DirOf(snap[e].state)] = "good"

\* A sync then classifies the message it created; a local import classifies a pending one as
\* the operator's HAM.
IngestReturns(e) ==
    /\ pc[e] = "verify"
    /\ \/ /\ IngestVerified(e)
          /\ op[e] = "sync" /\ target[e] = "created"
          /\ Continue(e, "classify")
       \/ /\ IngestVerified(e)
          /\ op[e] = "import" /\ snap[e].state = "pending"
          /\ verdict' = [verdict EXCEPT ![e] = "ham"]
          /\ Goto(e, "decide")
          /\ UNCHANGED <<op, snap, target>>
       \/ /\ \/ ~IngestVerified(e)
             \/ op[e] = "sync" /\ target[e] # "created"
             \/ op[e] = "import" /\ snap[e].state # "pending"
          /\ Exit(e)
    /\ UNCHANGED <<store, catalog, failures>>

-----------------------------------------------------------------------------
(* Classification.                                                         *)

\* reconcile_pending reads a pending row before each sync.
ReconcilePending(e) ==
    /\ pc[e] = "idle"
    /\ row.state = "pending"
    /\ op' = [op EXCEPT ![e] = "reconcile"]
    /\ snap' = [snap EXCEPT ![e] = row]
    /\ Goto(e, "classify")
    /\ UNCHANGED <<store, catalog, verdict, target, failures>>

\* classify_pending: verify the staged bytes, then ask the classifier.  Any failure of the
\* classifier is the verdict "suspect".
ClassifyPending(e) ==
    /\ pc[e] = "classify"
    /\ \/ /\ files["staging"] = "good"
          /\ \E v \in Verdicts : verdict' = [verdict EXCEPT ![e] = v]
          /\ Goto(e, "decide")
          /\ UNCHANGED <<op, snap, target>>
       \/ /\ files["staging"] # "good"
          /\ Exit(e)
    /\ UNCHANGED <<store, catalog, failures>>

\* mailarchive classify ID VERDICT.
ManualClassify(e, v) ==
    /\ pc[e] = "idle"
    /\ row.state # "none"
    /\ op' = [op EXCEPT ![e] = "manual"]
    /\ snap' = [snap EXCEPT ![e] = row]
    /\ verdict' = [verdict EXCEPT ![e] = v]
    /\ Goto(e, "decide")
    /\ UNCHANGED <<store, catalog, target, failures>>

\* apply_classification with manual=True: by command or by local import.
IsManual(e) == op[e] \in {"manual", "import"}

\* _effective_auto_result.
Decided(e) == IF IsManual(e) \/ override = "none" THEN verdict[e] ELSE override

\* The first transaction of apply_classification.
Decide(e) ==
    /\ pc[e] = "decide"
    /\ target' = [target EXCEPT ![e] = StateOf(Decided(e))]
    /\ Goto(e, "move")
    /\ UNCHANGED <<store, catalog, op, snap, verdict, failures>>

-----------------------------------------------------------------------------
(* _move_exact, one system call at a time.                                 *)

Source(e) == DirOf(snap[e].state)
Destination(e) == DirOf(target[e])

MoveRefuses(e) ==   \* mutant: any existing destination is a conflict
    /\ pc[e] = "move"
    /\ \/ files[Destination(e)] = "none" /\ files[Source(e)] = "good" /\ Continue(e, "install")
       \/ (files[Destination(e)] # "none" \/ files[Source(e)] # "good") /\ Exit(e)
    /\ UNCHANGED <<store, catalog, failures>>

MoveTrusts(e) ==   \* mutant: an existing destination is not hashed
    /\ pc[e] = "move"
    /\ \/ files[Destination(e)] # "none" /\ Continue(e, "syncDest")
       \/ files[Destination(e)] = "none" /\ files[Source(e)] = "good" /\ Continue(e, "install")
       \/ files[Destination(e)] = "none" /\ files[Source(e)] # "good" /\ Exit(e)
    /\ UNCHANGED <<store, catalog, failures>>

\* Both files are hashed: whichever is needed must be intact.
MoveCheck(e) ==
    /\ pc[e] = "move"
    /\ \/ files[Destination(e)] = "good" /\ Continue(e, "syncDest")
       \/ files[Destination(e)] = "bad" /\ Exit(e)
       \/ files[Destination(e)] = "none" /\ files[Source(e)] = "good" /\ Continue(e, "install")
       \/ files[Destination(e)] = "none" /\ files[Source(e)] # "good" /\ Exit(e)
    /\ UNCHANGED <<store, catalog, failures>>

\* os.link, or a synced and verified copy where links are impossible; never an overwrite.
Install(e) ==
    /\ pc[e] = "install"
    /\ \/ /\ files[Destination(e)] = "none" /\ files[Source(e)] # "none"
          /\ files' = [files EXCEPT ![Destination(e)] = files[Source(e)]]
          /\ Continue(e, "syncDest")
       \/ /\ files[Destination(e)] = "good"
          /\ Continue(e, "syncDest")
          /\ UNCHANGED files
       \/ /\ \/ files[Destination(e)] = "bad"
             \/ files[Destination(e)] = "none" /\ files[Source(e)] = "none"
          /\ Exit(e)
          /\ UNCHANGED files
    /\ UNCHANGED <<disk, catalog, failures>>

SyncNothing(e) ==   \* mutant: the source goes before the destination is durable
    /\ pc[e] = "syncDest"
    /\ Continue(e, "exists")
    /\ UNCHANGED <<store, catalog, failures>>

\* The entry is durable now.  Its directory is taken to be: _move_exact creates missing ones
\* and syncs none of their parents, so the first message of an account is not covered.
SyncDest(e) ==
    /\ pc[e] = "syncDest"
    /\ disk' = [disk EXCEPT ![Destination(e)] = files[Destination(e)]]
    /\ Continue(e, "exists")
    /\ UNCHANGED <<files, catalog, failures>>

\* if source != destination and source.exists().
RemoveCheck(e) ==
    /\ pc[e] = "exists"
    /\ \/ Source(e) # Destination(e) /\ files[Source(e)] # "none" /\ Continue(e, "remove")
       \/ Source(e) = Destination(e) /\ Continue(e, "commit")
       \/ files[Source(e)] = "none" /\ Continue(e, "commit")
    /\ UNCHANGED <<store, catalog, failures>>

RemoveKeeps(e) ==   \* mutant: the source is left behind
    /\ pc[e] = "remove"
    /\ Continue(e, "commit")
    /\ UNCHANGED <<store, catalog, failures>>

\* Hash and unlink the source.  A corrupt one raises, and so does one that another process
\* has removed since exists() saw it: the hash or the unlink finds no file.
Remove(e) ==
    /\ pc[e] = "remove"
    /\ Source(e) # Destination(e)
    /\ \/ /\ files[Source(e)] = "good"
          /\ files' = [files EXCEPT ![Source(e)] = "none"]
          /\ Continue(e, "syncSource")
       \/ /\ files[Source(e)] # "good"
          /\ Exit(e)
          /\ UNCHANGED files
    /\ UNCHANGED <<disk, catalog, failures>>

SyncSource(e) ==
    /\ pc[e] = "syncSource"
    /\ disk' = [disk EXCEPT ![Source(e)] = files[Source(e)]]
    /\ Continue(e, "commit")
    /\ UNCHANGED <<files, catalog, failures>>

TransitionForgets(s, state) ==   \* mutant: leaving the archive clears archived_at
    Row(state, state = "archived", state = "quarantined")

\* The row apply_classification writes: dates come from the snapshot, not from the row.
Transition(s, state) ==
    Row(state, s.archivedAt \/ state = "archived", s.quarantinedAt \/ state = "quarantined")

\* The second transaction: the verdict, the row and the audit events.
Commit(e) ==
    /\ pc[e] = "commit"
    /\ row' = Transition(snap[e], target[e])
    /\ override' = IF IsManual(e) THEN verdict[e] ELSE override
    /\ auto' = IF IsManual(e) THEN auto ELSE verdict[e]
    /\ Exit(e)
    /\ UNCHANGED <<store, failures>>

-----------------------------------------------------------------------------
(* Failures.                                                               *)

Crash(e) ==
    /\ pc[e] # "idle"
    /\ crashes < MaxCrashes
    /\ crashes' = crashes + 1
    /\ Exit(e)
    /\ UNCHANGED <<store, catalog, powerFailures, damage>>

\* Every process dies; each entry that was not synced is as it was, or as last synced.
PowerFailure ==
    /\ powerFailures < MaxPowerFailures
    /\ powerFailures' = powerFailures + 1
    /\ files' \in {f \in [Dirs -> Content] : \A d \in Dirs : f[d] \in {files[d], disk[d]}}
    /\ disk' = files'
    /\ pc' = [e \in Procs |-> "idle"]
    /\ op' = [e \in Procs |-> "none"]
    /\ snap' = [e \in Procs |-> NoRow]
    /\ verdict' = [e \in Procs |-> "none"]
    /\ target' = [e \in Procs |-> "none"]
    /\ UNCHANGED <<catalog, crashes, damage>>

\* Files at rest, not those a move has just hashed, are corrupted; entries that are hard links
\* of one file go together.
Damage(D) ==
    /\ damage < MaxDamage
    /\ \A e \in Procs : pc[e] \notin {"install", "syncDest", "exists", "remove"}
    /\ \A d \in D : files[d] = "good"
    /\ D # {}
    /\ damage' = damage + 1
    /\ files' = [d \in Dirs |-> IF d \in D THEN "bad" ELSE files[d]]
    /\ disk' = [d \in Dirs |-> IF d \in D /\ disk[d] = "good" THEN "bad" ELSE disk[d]]
    /\ UNCHANGED <<catalog, pc, locals, crashes, powerFailures>>

-----------------------------------------------------------------------------
Step(e) ==
    \/ CreateCheck(e)
    \/ CreateLink(e)
    \/ CreateSync(e)
    \/ Register(e)
    \/ IngestReturns(e)
    \/ ClassifyPending(e)
    \/ Decide(e)
    \/ MoveCheck(e)
    \/ Install(e)
    \/ SyncDest(e)
    \/ RemoveCheck(e)
    \/ Remove(e)
    \/ SyncSource(e)
    \/ Commit(e)

Next ==
    \/ \E e \in Procs : Ingest(e, "sync")
    \/ \E e \in ManualProcs : Ingest(e, "import")
    \/ \E e \in Procs : ReconcilePending(e)
    \/ \E e \in ManualProcs, v \in Verdicts : ManualClassify(e, v)
    \/ \E e \in Procs : Step(e)
    \/ \E e \in Procs : Crash(e)
    \/ PowerFailure
    \/ \E D \in SUBSET Dirs : Damage(D)

Spec == Init /\ [][Next]_vars

-----------------------------------------------------------------------------
(* Safety.                                                                 *)

Idle == \A e \in Procs : pc[e] = "idle"
Rows == [state : States \cup {"none"}, archivedAt : BOOLEAN, quarantinedAt : BOOLEAN]

\* Every variable holds a value of its column, directory or control point.
TypeOK ==
    /\ files \in [Dirs -> Content] /\ disk \in [Dirs -> Content]
    /\ row \in Rows
    /\ override \in Verdicts \cup {"none"} /\ auto \in Verdicts \cup {"none"}
    /\ pc \in [Procs -> Pcs]
    /\ op \in [Procs -> Ops]
    /\ snap \in [Procs -> Rows]
    /\ verdict \in [Procs -> Verdicts \cup {"none"}]
    /\ target \in [Procs -> States \cup {"none", "known", "created", "reused"}]
    /\ crashes \in 0..MaxCrashes
    /\ powerFailures \in 0..MaxPowerFailures
    /\ damage \in 0..MaxDamage

Good == {d \in Dirs : files[d] = "good"}

\* No step of the program, whatever failed before it, removes the last intact copy of the
\* message: "remove source only after durable destination install" (_move_exact).
LastGoodCopyKept ==
    [][damage' = damage /\ powerFailures' = powerFailures /\ Good # {} => Good' # {}]_files

\* Once SQLite knows the message, a power failure at any instant leaves its bytes on disk;
\* unless a process died first: a retry accepts a linked file that nobody synced.
RegisteredIsDurable ==
    row.state # "none" /\ damage = 0 /\ crashes = 0 => \E d \in Dirs : disk[d] = "good"

\* Between operations, as long as nothing failed and only automatic verdicts were given,
\* local_path names the intact file, however many processes classified the message.
RowPointsToBytes ==
    /\ Idle
    /\ override = "none"
    /\ crashes + powerFailures + damage = 0
    /\ row.state # "none"
    => files[DirOf(row.state)] = "good"

\* The mail/ tree, which ordinary searches index, holds no quarantined message.
QuarantineIsSeparate ==
    /\ Idle
    /\ crashes + powerFailures + damage = 0
    /\ row.state = "quarantined"
    => files["mail"] = "none"

Lifecycle == INSTANCE MessageLifecycle WITH
    state <- row.state, override <- override, archivedAt <- row.archivedAt

\* Ingest and classification, file by file and crash by crash, implement the lifecycle.
ImplementsLifecycle == Lifecycle!Spec

-----------------------------------------------------------------------------
(* Liveness.                                                               *)

\* A started operation goes on, and every provider sync first reconciles what is pending.
FairSpec ==
    /\ Spec
    /\ \A e \in Procs : WF_vars(Step(e)) /\ SF_vars(ReconcilePending(e))

\* A pending message whose staged file is intact is classified in the end, by the syncs
\* alone, although earlier attempts died or lost power half-way: their leftovers in the
\* other trees must not stop the next one.
StagedIsClassified ==
    row.state = "pending" /\ files["staging"] = "good"
        ~> row.state # "pending" \/ files["staging"] # "good" \/ damage > 0

\* "Pending state is locally recoverable: every provider sync reconciles account-scoped
\* pending rows" (ADR-018): a pending message is classified in the end, unless its files are
\* corrupted or gone.
PendingIsResolved ==
    row.state = "pending" ~> row.state # "pending" \/ damage > 0 \/ Good = {}

=============================================================================
