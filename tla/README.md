# A TLA+ model of MailArchive

MailArchive keeps a byte-exact local archive of Gmail, IMAP and POP3 accounts, classifies and
backs up what it holds, and, for accounts that opted in, deletes archived messages from the
provider. Deletion is the one thing it cannot take back, so this project starts there: what is
recorded about the provider is true, one attempt is made at most once, and nothing becomes
eligible for deletion that the documented policy protects. The second concern is the local copy
itself, the only one left after a deletion.

Paths below are relative to `src/mailarchive/` of the repository unless they start with `docs/`.

## 1. The system

| Component | State | Operations | Hard behaviour |
|---|---|---|---|
| Remote-deletion engine (`remote_mutation.py`) | `remote_mutation_runs`, `remote_mutations`, `remote_messages.remote_present` | dry-run plan, production execution, reconciliation, status | several CLI processes; crash between commits and provider call; lost or late answers; stale observations |
| Mutation adapters (`imap_mutation.py`, `gmail_mutation.py`, `pop3_mutation.py`) | provider mailbox, lock files | `delete`, `observe` | outcome unknown after a lost answer; per-folder or per-account locks |
| Acquisition (`imap.py`, `gmail.py`, `pop3.py`) | checkpoints, `remote_messages`, lock files | `sync` | listing is stale when written; resumable history; concurrent with deletion |
| Ingest (`ingest.py`) | Maildir files, `canonical_messages` | `ingest_bytes`, `ingest_file` | link/fsync/register order; crash and retry; two syncs with the same bytes |
| Classification (`classification.py`) | `classifications`, `canonical_messages`, trees `staging/ mail/ quarantine/` | automatic verdict, manual override, pending reconciliation, exact move | file moves before the row; no lock; stale snapshot |
| Retention (`retention.py`) | `retention_controls`, `deletion_evaluations` | `evaluate`, `evaluate_all`, `set_control` | fail-closed predicate over many facts; read-then-write release |
| Borg backup (`borg.py`) | `backup_runs`, `message_backup_evidence`, repositories | backup, verify, restore test | verification result written outside the lock; interrupted runs |
| Fast path (`fastpath.py`) | `fast_path_health`, watcher lock | IDLE/poll loop | arming IDLE before catch-up; backoff; index retry |
| Attachments (`attachments.py`) | content-addressed blobs, `attachment_extractions`, `message_attachments` | reconcile, extract | shared blobs; link/fsync/commit order; files that move meanwhile |
| Search (`notmuch.py`, `recoll.py`) | derived indexes | index, search | derived and rebuildable |
| Catalogue (`db.py`), configuration (`config.py`), CLI (`cli.py`) | SQLite file, YAML | migrations, parsing, dispatch | transactions and unique indexes the others rely on |

Components interact through three shared things: SQLite (each `with connect(...)` block up to its
`commit` is one transaction; a connection opens one only before a statement that writes), the file
trees, and non-blocking `flock` files under `state/locks`. There is no server and no thread: the
concurrent actors are CLI processes, the providers, other clients of the mailboxes, and operators.

What makes each part correct:

* engine: recorded outcomes are true and final, at most one attempt per row, halting at the first
  row that is not a success, every unknown outcome resolvable, limits never exceeded;
* adapters: success means absent, a confirmed failure means that the call has done nothing and will
  do nothing, everything else is unknown and can be resolved by reading;
* acquisition: a snapshot never restores what a confirmed deletion cleared, absence is recorded only
  when real, a checkpoint never runs ahead of the rows, no message is skipped for ever;
* watchers: nothing announced is forgotten, nothing unannounced stays unseen, what is archived
  becomes searchable;
* ingest and classification: registered bytes are durable, the last intact copy is never removed,
  the effective verdict decides the tree, `archived_at` is never lost, pending is recoverable;
* attachments and backup: what is recorded is durable, evidence means that the archive holds the
  recorded bytes, and a later failed verification takes it back;
* retention: eligible implies every clause of `docs/SAFETY.md` section 3.

## 2. Modules

| Module | Models | Kind |
|---|---|---|
| `RemoteMutation` | the engine, locks, provider, syncs, policy changes, crashes | component and composition |
| `MCRemoteMutation` | instances for TLC | TLC |
| `DeletionCall` | what the engine relies on when it calls an adapter for one message | abstract specification |
| `MutationAdapters` | `delete` and `observe` of the IMAP, Gmail and POP3 adapters, command by command | component |
| `RemoteMutationProofs`, `ExecutionProofs` | theorems about `RemoteMutation`; the second extends the first | TLAPS |
| `AdapterProofs` | theorems about `MutationAdapters`, with its refinement of `DeletionCall` | TLAPS |
| `MessageStore` | ingest, classification, file trees and catalogue row of one digest | component and composition |
| `MessageLifecycle` | what the store promises about one message | abstract specification |
| `MessageStoreProofs` | theorems about `MessageStore`, with its refinement of `MessageLifecycle` | TLAPS |
| `MCMessageStore` | instances for TLC | TLC |
| `Retention` | the policy, its facts and its controls for one remote message | component |
| `GmailSync` | full and partial Gmail synchronisation and the polling watcher | component and composition |
| `FastPath` | the INBOX watcher over IMAP acquisition | component and composition |
| `Attachments` | extraction and the blob store over files that move | component |
| `BackupEvidence` | backup, verification and restore of one repository, extends `Attachments` | component and composition |
| `RetentionProofs`, `GmailSyncProofs`, `FastPathProofs`, `BackupProofs` | theorems about the module of that name (`BackupProofs`: `Attachments` and `BackupEvidence`) | TLAPS |
| `MCRetention`, `MCMutationAdapters`, `MCGmailSync`, `MCFastPath`, `MCBackupEvidence` | instances for TLC | TLC |

Operators whose comment says *mutant* are deliberately wrong variants of the operator that follows
them. No specification uses them; they document which slip in the code each property would catch.

### RemoteMutation

Every CLI invocation is a process with a control point `pc`; `work`, `msg`, `res` and `todo` are
its local variables. One action is one transaction, one provider call boundary or one read:

| Action | Code |
|---|---|
| `PlanDryRun`, `PlanExpires` | `plan_dry_run`; `PLAN_TTL` |
| `ExecuteProductionPlan`, `Revalidate`, `InsertProductionRun` | guards, fresh evaluation and clone of `execute_production_plan` |
| `SerialNext`, `HaltStale`, `CommitStarted` | head of `_execute_serial`, `_halt_stale`, the `started` commit |
| `AdapterBegin`, `AdapterReturns`, `AdapterRaises` | `adapter.delete`: lock, answer, exception |
| `RecordOutcome`, `RecordRaises` | `_record_outcome` and the handler around it |
| `ReconcileBegin`, `ReconcileRow`, `Observe`, `ReconcileWrite` | `reconcile_production_run`, two transactions around one observation |
| `SyncBegin`, `SyncEnd`, `SyncFails` | a Gmail or POP3 sync as far as `remote_present` is concerned |
| `PolicyChanges`, `RemovedElsewhere`, `AppliedLate`, `Crash` | the environment |

A message stands for a `remote_messages` row with its identity and digest. Both are written once
and never updated, so the fingerprint comparisons of `_still_current` and
`_update_current_presence` always succeed and are not modelled separately; of `evaluate`'s reasons
only `REMOTE_NOT_PRESENT` is kept apart from the others, because the engine itself changes it.
The adapters appear through their contract (`AdapterContract`): a coherent success has
seen the message absent, a coherent failure has removed nothing, anything else says nothing.
`MutationResults` includes the incoherent combinations that `_normalize_result` must map to
`unknown`. A request without an answer has removed the message, did nothing, or is still on its way
(`inflight`, only with `LateDelivery`). IMAP syncs never write `remote_present`, so only accounts in
`PresenceSync` synchronise here. `calls` and `removedBy` are history variables.

### MessageStore and MessageLifecycle

One digest is enough: messages with different digests share no file and no row. A process is a
provider sync, a local import, a pending reconciliation or a manual `classify`. `files` is what the
trees show, `disk` what a power failure cannot take back; each `link`, `fsync` and `unlink` of
`create_canonical_file` and `_move_exact` is a step, and so is the look at the source before it is
removed (`RemoveCheck`): another process may remove it in between. SQLite commits are taken as durable.
A directory that was just made is taken to survive with its synced entries, although the code never
syncs it in its own parent; `Attachments` does the same for the shards of the blob store.
`MessageLifecycle` has four steps (admit, classify, overrule, stutter), and `ImplementsLifecycle`
is the refinement, with `state`, `override` and `archivedAt` read off the row.

### Retention

`ReasonCodes` is `evaluate` reason by reason. `facts` are the columns, configuration values and file
state `evaluate_all` collects; they change one at a time in any order. Releasing a control is two
steps, because its `SELECT` opens no transaction. `held` is a history variable: what operators set
and nobody released, except a control that is set while another's release, having read the row
without it, is about to delete that row (`DeletionPending`): that one is lost.

### MutationAdapters and DeletionCall

`RemoteMutation` takes the adapters by their contract; here the contract is a specification of its
own, `DeletionCall` (the call may remove the message until it denied having done so; success is
claimed only of an absent message), and the three `delete` methods are shown to implement it.
One action is one mutating command (`ImapStore`, `ImapExpunge`, `GmailDelete`, `PopDele`, `PopQuit`)
or the read that decides what follows (`*Preflight`, `ImapClean`, `ImapConfirm`, `ImapAfter`,
`ImapFresh`, `GmailConfirm`, `PopConfirm`). A mutating command is carried out, refused, or its answer
is lost; a lost one was carried out, dropped or, for the kinds in `LateKinds`, is still under way.
`flag` tells our `\Deleted` mark from somebody else's, `namespace` is UIDVALIDITY. `Observe` is the
read-only reconciliation of an unknown outcome. `answer` is what the engine may record in the end. An
`EXPUNGE` that fails after a successful `STORE` leaves our mark behind, and every later observation is
an identity conflict until somebody clears it: such an outcome stays unknown, and nothing is claimed.

### GmailSync

The mailbox is a history of records; a `historyId` is a position in it and the provider forgets old
positions (`Expire`). One action is one request or one commit: `SyncBegin` (lock, stored checkpoint,
labels), `PreScanList`/`PreScanGet` (the anchor), `ScanPage` and `FetchListed` (pages and their
messages), `HistoryPage`, `ApplyAffected`, `Finish`, `HistoryExpired`, `SyncFails`. Pages have any
size. `WatchHead` to `WatchStops` are `GmailWatcher.run`. The index is refreshed in two places: at the
end of the classification of a new message, where a failure is swallowed
(`RefreshAfterClassification`, `classification.py:262`), and by the watcher after a successful poll,
where a failure sets `index_pending` and is retried. A message that is gone when its `messages.get`
arrives fails the sync, as in the code. Every message has bytes of its own and is classified as soon
as it is registered; what a failed classification leaves behind is the subject of `MessageStore`. One
label stands for all of them; threads and audit rows are left out.

### FastPath

`sync`, `uidvalidity` and `todo` are `ImapAdapter.sync` under its folder lock (`Search`, `Fetch`,
`FetchFails`, `SyncDone`); `pc`, `pending`, `due` and `notified` are the locals of
`FastPathWatcher`: arm IDLE (`Arm`), synchronise on another connection (`WatchSync`), or retry the
index (`Listen`), collect notifications and look at the timer (`Burst`). `Fetch` ends with the same
silent refresh as in `GmailSync`. Broken connections go through `Backoff`, a server without IDLE, or
one that answers an IDLE window with an error, to the poll loop. A recreated mailbox (`Recreate`) starts
its UIDs again under a new UIDVALIDITY, and a connection that selected the old one hears nothing any
more. `Bad` holds identities that can never be registered, for example bytes the archive already
has under another account. `gap` is a history variable: messages that arrived while no IDLE listened.

### Attachments and BackupEvidence

All messages carry one attachment, because sharing a blob is what makes extraction more than a loop;
`durable` says whether its directory entry survives a power failure. Overrides move the file first
and the row later, as `MessageStore` has it in detail; one that dies in between (`OverrideDies`, or a
power failure) leaves the row at a tree the file has left (`Stranded`), until the same override is
repeated. `BackupEvidence` adds one Borg repository:
`BackupBegin` (lock, identity, closing an interrupted run), `SnapshotDatabase`, `Materialize` (one
object), `Create`, `CommitRun`; `VerifyBegin`, `VerifyLock`, `VerifyCheck` and, after the lock is
released, `VerifySucceeds` or `VerifyFails`; `RestoreTest`. An archive holds the bytes its snapshot
directory showed to `borg create`, and since that directory consists of hard links, damage done to an
original after its digest was checked gets in. `unrecorded` (verifiers
that have checked and not yet recorded), `before` (which of them checked before whom), `overtaken`
and `newest` are history variables that say which recorded verification was the newest.

## 3. Runs

Bounds are the smallest at which the case in question happens: two plans are needed for two attempts
on one message and a third for an attempt after a resolved one, two messages for order and halting,
two processes for races, one crash for every interrupted step and a second for an interrupted
recovery; a second message and a third event to let a mailbox change behind a scan, a second epoch
for UIDs that mean something else; a second backup run for one that was interrupted. That a blob is
shared by several messages is left to the theorem `RecordedBlobIsDurable`, which has any number of them.
In `GmailSync`, `FastPath` and `BackupEvidence` one bound `MaxFaults` limits failures, crashes, damage
and commands run by hand together. Processes are interchangeable in `rm_concurrent`, processes and
repositories in `rt_policy` (`SYMMETRY`); both check safety only. `CHECK_DEADLOCK FALSE` is set
throughout: an installation where nobody runs a command may rest.

| Run | Instance | Checks |
|---|---|---|
| `rm_operator` | 1 process, 3 plans, 1 message, 2 crashes, fairness | `TypeOK`, `RemovalIsNeverRecordedAsFailure`, `NoOverlappingAttempt`, `ResolvedIsFinal`, `UnknownIsResolved` |
| `rm_concurrent` | 2 processes, 1 plan with limits 1 and 2, 2 messages, sync, 1 crash, late delivery | `SucceededMeansGone`, `LocalAbsenceIsReal`, `ConfirmedDeletionStaysAbsent`, `AtMostOneAttempt`, `AttemptIsRecorded`, `HaltedRunHasOutcome`, `FirstNonSuccessHalts`, `PlanUsesItsLimits`, `EndedRunStaysEnded` |
| `ms_sequential` | 1 process, 2 crashes, 2 power failures, 1 corruption, fairness | `TypeOK`, `RegisteredIsDurable`, `QuarantineIsSeparate`, `ImplementsLifecycle`, `StagedIsClassified` |
| `ms_concurrent` | 2 processes, one of which may classify by hand, 1 crash, 1 corruption | `RowPointsToBytes`, `LastGoodCopyKept` |
| `rt_policy` | all facts, 2 operators, 2 repositories, 1 day | `FailClosed`, `TimeNeverProtects` |
| `ad_contract` | the 3 adapters, late IMAP requests, 1 change by another client | `FailureLeavesNoMark`, `ImplementsContract` |
| `gm_sync` | 2 messages, 3 history records, 2 faults, fairness | `MirrorIsExact`, `AbsenceIsReal`, `NothingSkippedForEver`, `FullScanSettles`, `ArchivedIsIndexed` |
| `fp_watch` | 2 UIDs in each of 2 epochs, 1 of them bad, 2 faults, fairness | `NoNotificationLost`, `NewMailIsArchived`, `ArchivedIsIndexed` |
| `bk_archive` | 1 message with its attachment, 2 backups, 1 verifier, 2 faults, fairness | `TypeOK`, `EvidenceMeansBytes`, `LinkedBlobIsDurable`, `AttachmentsAreExtracted` |

The `TypeOK` of `MutationAdapters`,
`GmailSync` and `FastPath` is in no run: it is proved (section 4), and the runs spend their time on the
deeper properties.

Some of these hold only in the stated setting, and the setting is the result:

* `NoOverlappingAttempt` and `ResolvedIsFinal` need one engine process at a time. The check for
  unresolved attempts and the new run are different transactions, so two executions of plans that share
  a message both pass it and both send their request, although `docs/ARCHITECTURE.md` section 6 rules
  out two concurrent destructive workers; and an observation releases the lock before the row is
  written, so the second of two reconciliations rewrites what the first resolved (ADR-025).
* `ConfirmedDeletionStaysAbsent` withstands two processes on one plan; with two plans for one message an
  attempt that overlaps another brings the stale observation back, and its theorem has one process.
* The limits of a plan interact over several accounts; `rm_concurrent` has one account and the theorem
  `PlansUseTheirLimits` any number.
* `RemovalIsNeverRecordedAsFailure` needs a provider that does not apply a request after it was
  observed.
* `RegisteredIsDurable` speaks of installations in which no process died: a retry accepts the file of
  an attempt that died before the directory fsync without syncing it.
* `RowPointsToBytes` speaks of messages without a manual override.
  `QuarantineIsSeparate` and `ImplementsLifecycle` need one process: `classify` reads the override and
  `archived_at` before the move and uses them after it, and two automatic verdicts about one pending
  message can leave its file in both trees. With two processes an automatic verdict can overwrite an
  override that was recorded in between, where ADR-018 lets the latest override win.
* `LastGoodCopyKept` needs at most one operator process: two overrides in opposite directions each
  remove the destination of the other, and no copy is left.
* `FailClosed` counts what operators hold, for several operators, with the exception that `held` names: a
  release reads the row, a second operator sets the other control, the release deletes the row, and the
  message is eligible although `docs/DATA_MODEL.md` says that either control blocks deletion.
* `StagedIsClassified` speaks of pending messages whose staged file is intact: recovery by the next sync
  starts from that file. `ms_pending_stuck` is the case in which it is gone.
* `ImplementsContract` allows late requests for IMAP only. A Gmail `DELETE` or a POP3 `QUIT` that is
  carried out after the confirming read found the message present contradicts the recorded failure;
  over IMAP the mark that `STORE` left keeps the adapter from reporting a failure at all. With two
  changes by another client (it clears our mark and sets its own) a late `EXPUNGE` does the same.
* `FullScanSettles` and `ArchivedIsIndexed` of `GmailSync` exclude a mailbox whose newest message has
  not changed within the history the provider keeps: its position is the anchor
  (`docs/ARCHITECTURE.md` calls it recent), so every full scan ends in expired history, until something
  new arrives (ADR-016 excepts only the empty mailbox). New mail is archived all the same
  (`NothingSkippedForEver` has no such exception) and indexed with it, unless that refresh fails: it
  fails silently, and the one that would make up for it follows a successful poll. A full scan of an
  empty mailbox marks nothing absent.
* `NewMailIsArchived` of `FastPath` excludes what comes after a UID that always fails: UIDs are taken in
  order and the first failure ends the sync. `ArchivedIsIndexed` excludes a mailbox with such a UID: what
  was archived before it is indexed by its own classification, but if that refresh fails, silently, the
  one after a successful sync never comes.
* `LinkedBlobIsDurable` speaks of blobs no extraction left between link and fsync: the next one reuses
  such a blob without syncing it, and records what a power failure can take. Extractions run one at a time.
* `AttachmentsAreExtracted` excludes a message whose override died between the move and the commit: every
  extraction, and every backup, then misses the file where the row says it is, until the operator repeats
  that override (`OverrideMoves` finds the file already moved).

Adding a process or a plan, relaxing the constant, or dropping the exception from the property shows
each of these. IMAP locks a folder where
`docs/ARCHITECTURE.md` section 6 asks for the account (`LockOf` may map messages of one account to
different locks); the instances of this project give an account one lock.

Runs that end in a violation show where the code does less than its documents or comments say:

| Run | What happens |
|---|---|
| `rm_crash_stuck` | a run whose process died stays `planned`; reconciliation wants `halted`, so its started row is never resolved (ADR-025) |
| `ms_pending_stuck` | a process dies after it removed the staged file and before its commit; no later sync gets the pending row out of staging (ADR-018) |
| `bk_stale` | a verification records its success after it released the lock and overwrites the failure that a later verification recorded (`docs/SAFETY.md`) |

### Fairness

`rm_operator` and `rm_crash_stuck` assume that a running process takes its next step, that a halted run
with unresolved rows is reconciled again and again (`SF`: the runbook tells the operator to), and that
an observation is conclusive again and again. The last one is an assumption about the provider; to keep
it independent of lock collisions these instances have no presence-writing sync. `ms_sequential` and
`ms_pending_stuck` assume that a started operation goes on and that syncs keep reconciling pending rows,
which each `sync` does first; nothing is assumed of operators. `gm_sync` and `fp_watch` assume that a
running sync goes on (every request has a timeout and a bounded number of retries), that the watcher is
kept running by its service, and that time passes. `bk_archive` assumes that attachments are reconciled
again and again; each pass visits every finalised message, which is strong fairness per message; and
that an override whose process is alive goes on to its commit. Backups and verifications are under no
fairness. Crashes, the environment, other clients and commands run by hand are never fair, and the
faults of an instance are finitely many.

## 4. Proofs

Every invariant and every non-temporal action property that a passing run checks is also a theorem,
for arbitrary values of the constants that satisfy the named assumptions of its module. Both
refinements are proved.
The runs say which instance is enough to meet the interesting cases; the theorems say that nothing
depends on the bound.

Where a property is true only in a certain setting (section 3), the theorem has that setting as a
hypothesis about the constants, named in the proof module. None of them excludes the cases of
interest: crashes, power failures, other clients, syncs and, unless it is said otherwise, other
processes stay. TLC refutes each of these properties on an instance that violates the hypothesis.

| Hypothesis | Meaning | Why it is needed |
|---|---|---|
| `OneProcess` (`ExecutionProofs`) | one engine process at a time | an observation releases the lock before its row is written |
| `PromptProvider` | no request is applied after its caller gave up (`~LateDelivery`) | a reconciliation sees the message, then the request removes it |
| `PromptRemoval` | late requests over IMAP only, at most one edit by others | a late `DELETE` or `QUIT` contradicts a denial; so does a late `EXPUNGE` that finds another client's mark |
| `OneOperator` (`MessageStoreProofs`) | at most one process overrules by hand, any number classify automatically | two overrides in opposite directions each remove the other's copy |
| `OneProcess` (`MessageStoreProofs`) | one process uses the store | `classify` acts on the row it read before the move |

### Engine

* `TypeCorrect`. One step per action; `ExitType` and `ProviderType` are the facts most actions share.
* `RecordedSuccessIsTrue` (`SucceededMeansGone`) and `RecordedAbsenceIsTrue` (`LocalAbsenceIsReal`).
  Neither is inductive: a success is written one step after it was learnt. `Truth` adds `Evidence`,
  what an actor holds before it writes: a process about to record a success (`OutcomeEvidence`), a
  reconciliation about to record an absence (`ObservationEvidence`), a sync about to mark messages
  absent (`SnapshotEvidence`) hold something that is still true. It stays true because no step puts a
  message back on the provider (`ServerShrinks`) and because `Normalize` trusts only coherent results.
* `PlansUseTheirLimits` (`PlanUsesItsLimits`), for any limits and any number of accounts. `Select` takes
  ranks where the code counts: ranks grow within a set (`RankGrows`), at most `k` members have a rank
  below `k` (`RankBounds`), and where `k` or more come before a row the first `k` of them do
  (`FirstRanks`). `LeastNumber`, every set of numbers has a least one, finds the first row a limit
  turns away.
* `OneCallPerRow`, `CallsAreVisible`, `HaltSettlesItsRow`, `SerialExecution` and the action property
  `EndedRunsStayEnded`, for any number of processes, all from `Discipline`. Its core is ownership: the
  unique index gives an open run one executor (`OwnsOpenRun`, `OneOwner`), so what an executor knows of
  the rows of its run at each control point stays true (`Position`); a reconciliation only touches the
  last row anybody worked on in a halted run (`Frontier`), which is why it can neither break the order
  nor reach a planned row.
* `RemovalIsOnRecord` (`RemovalIsNeverRecordedAsFailure`): from `RemovalInv`, whoever is about to call
  or to write `failed` works on a row whose message the run has not removed (`Clean`).
* With one process: `AttemptsDoNotOverlap` and `ResolvedRowsAreFinal` from `HistoryInv` (what the
  history check of `execute_production_plan` and the row selection of a reconciliation found is still
  so when it is used), and `ConfirmedDeletionIsKept` from `AbsenceInv`: a sync has listed nothing that
  is deleted behind its back, because it holds the lock that a call needs (`SharedLockAssumption`).

### Adapters

* `ConfirmedFailureIsClean` (`FailureLeavesNoMark`) from `CallInv`, which follows the call from "nothing
  sent" (`Untouched`) over `STORE` (`LateStore`, `BeforeExpunge`) to `EXPUNGE`.
* `AdaptersKeepContract` (`ImplementsContract`): `MutationAdapters` refines `DeletionCall`, action by
  action; `ContractInv` adds that an `EXPUNGE` still on its way after a denial finds no mark.

### Store

* `TypeCorrect`.
* `CopiesAreKept`, the action property `LastGoodCopyKept`, from `MovesAreSafe`: until a move has
  unlinked its source, an intact copy is in some final tree although other processes move the message
  too, because an automatic move only ever starts from `staging/` (`Origins`).
* `RowNamesItsFile` (`RowPointsToBytes`), any number of processes, from `RowInv`: the file of a pending
  row may be gone only if a commit that says where it went is due.
* With one process: `LifecycleIsImplemented` (`MessageStore` refines `MessageLifecycle`) and
  `QuarantineStaysSeparate` from `SerialInv` (the snapshot a move works on is the row);
  `RegisteredBytesAreDurable` from `DiskInv` (trees and disk differ only where a sync is the next step).

### Retention

* `EvaluateIsFailClosed`, for any number of operators, from `ControlInv`: what is held is recorded, and a
  release that is about to delete the row takes no held control with it but its own
  (`DeletionIsHarmless`). `ReasonBlocks` says what the absence of each reason code means. `DueStaysDue` is
  the action property `TimeNeverProtects`.

### Gmail synchronisation

No hypothesis: any mailbox, page sizes, failures, stops and changes between any two requests.

* `TypeCorrect` from `TypeInv`: stored and running positions lie in the history, and what is or was on
  the provider has a record in it, so that an anchor exists.
* `AbsenceOnlyOfDeleted` (`AbsenceIsReal`) and `CheckpointIsHonest` (`MirrorIsExact`) from `MirrorInv`.
  A scan is not a snapshot; the invariant therefore speaks of the messages without a record after a
  position (`Later`). What the pages listed so far is right for messages unchanged since the anchor
  (`ScanInv`, `ScannedInv`), what the catch-up reconciled is right for messages unchanged since the
  last history page (`AppliedInv`), and every known message that is still there is listed or was
  touched by the catch-up (`ListedInv`). At the commit both halves meet: a message without a record
  after the new checkpoint was reconciled, or has not changed since the anchor (full) or since the old
  checkpoint, for which `MirrorIsExact` held before (partial). `MinIsMember` and `MaxIsMember` say that
  `min` and `max` of a work list are members of it.

### Fast path

* `TypeCorrect`, and `AnnouncedIsNotLost` (`NoNotificationLost`) from `WatchInv`: in each control point
  whatever was announced and is not archived is pending, notified, or on the list of the sync under
  way (`SyncCoversSearch`, `WindowCovers`, `ArmCovers`).

### Attachments and backup

* `TypeCorrect`, and `RecordedBlobIsDurable` (`LinkedBlobIsDurable`) from `BlobIsDurable`.
* `EvidenceIsSound` (`EvidenceMeansBytes`), any number of verifiers, from `RunInv`: a backup owns its
  running row, a verifier about to record a success works on an archive that still holds what was
  checked, and the repository stays bound.

### Model-checked only

* The liveness properties (`UnknownIsResolved`, `StagedIsClassified`, `NothingSkippedForEver`,
  `FullScanSettles`, `ArchivedIsIndexed` twice, `NewMailIsArchived`, `AttachmentsAreExtracted`): fairness
  and `ENABLED` are out of the prover's reach.
* The properties of the runs that end in a violation are false in the setting of their run (section 3).

## 5. Not modelled

Response parsing and validation (a malformed answer is a failed request), OAuth token files, MIME
structure, configuration parsing, audit rows and health records other than `index_pending`, schema
migrations, the contents of the derived indexes, and `execute_fake`, which only tests use. POP3
acquisition appears through its lock and its UIDL snapshot: it keeps no checkpoint. The provider never
delivers a deleted message again under the same identity (UIDL, Gmail id and UID within a UIDVALIDITY
are never reused). A hold set after the last revalidation does not stop the call that follows; no
document promises that it would. Reading and checking an archive is one step: Borg's own concurrency
is external.

## 6. Plan

1. `BackupEvidence` composed with `Retention`: evidence of two repositories as `evaluate` counts it, and
   the theorem that an eligible message has as many intact archives as the policy requires.
2. What two engine processes do keep: a weaker form of `ResolvedIsFinal` and of `NoOverlappingAttempt`
   for several processes (for example, that a recorded failure can only be corrected to a success).
