------------------------------ MODULE FastPath ------------------------------
(***************************************************************************)
(* The INBOX watcher (fastpath.py) over ImapAdapter.sync (imap.py): arm    *)
(* IDLE, synchronise on a second connection, collect notifications, or     *)
(* poll; reconnect, reconcile now and then, keep the search index current. *)
(*                                                                         *)
(* The mailbox is external.  A UIDVALIDITY is an epoch; a recreated        *)
(* mailbox starts its UIDs again.  A notification reaches the watcher only *)
(* while IDLE is armed in the epoch it selected.  The folder lock admits   *)
(* one sync at a time, the watcher's or one started by hand.  Every        *)
(* message has bytes of its own, and is classified once it is registered.  *)
(***************************************************************************)
EXTENDS Naturals, FiniteSetsExt

CONSTANTS
    MaxUid,         \* UIDs per epoch
    MaxEpoch,       \* UIDVALIDITY values
    Bad,            \* identities whose download or registration always fails
    MaxFaults       \* bound on failures, stops, crashes and manual syncs

ASSUME FastPathAssumption ==
    /\ MaxUid \in Nat /\ MaxEpoch \in Nat \ {0} /\ MaxFaults \in Nat
    /\ Bad \subseteq (1..MaxEpoch) \X (1..MaxUid)

VARIABLES
    epoch,          \* UIDVALIDITY of INBOX
    box,            \* UIDs in INBOX
    uidnext,
    linked,         \* proven identities with a canonical link: <<uidvalidity, uid>>
    indexed,        \* those the notmuch indexes cover
    indexPending,   \* fast_path_health.index_pending
    pc,             \* control point of the watcher
    mode,           \* _run_idle or _run_poll
    selected,       \* epoch the notification connection selected
    pending,        \* a catch-up is due
    due,            \* reconcile_interval_seconds have passed since last_reconcile
    notified,       \* the armed IDLE has received an event
    gap,            \* history: messages that arrived while no IDLE was listening
    sync,           \* control point of the sync that holds the folder lock
    by,             \* who runs it
    uidvalidity,    \* epoch that sync selected
    todo,           \* remote_uids - known, not yet fetched
    faults

mailbox == <<epoch, box, uidnext, gap>>
index == <<indexed, indexPending>>
run == <<sync, by, uidvalidity, todo>>
signals == <<pending, due, notified>>
vars == <<mailbox, linked, index, pc, mode, selected, signals, run, faults>>

Uids == 1..MaxUid
Epochs == 1..MaxEpoch
Identities == Epochs \X Uids

Init ==
    /\ epoch = 1 /\ box = {} /\ uidnext = 1 /\ gap = {}
    /\ linked = {} /\ indexed = {} /\ indexPending = FALSE
    /\ pc = "off" /\ mode = "idle" /\ selected = 1
    /\ pending = FALSE /\ due = FALSE /\ notified = FALSE
    /\ sync = "idle" /\ by = "none" /\ uidvalidity = 1 /\ todo = {}
    /\ faults = 0

Fault == faults < MaxFaults /\ faults' = faults + 1

\* Where the watcher goes on after an attempt to synchronise.
After == IF mode = "idle" THEN "burst" ELSE "poll"

-----------------------------------------------------------------------------
(* ImapAdapter.sync.                                                       *)

Release == sync' = "idle" /\ by' = "none" /\ uidvalidity' = 1 /\ todo' = {}

\* folder_lock.
Lock(who) ==
    /\ sync = "idle"
    /\ sync' = "search"
    /\ by' = who
    /\ UNCHANGED <<uidvalidity, todo>>

LinkedUidsAnyEpoch(v) ==   \* mutant: the lookup ignores UIDVALIDITY
    {u \in Uids : \E e \in Epochs : <<e, u>> \in linked}

\* _linked_uids: UIDs that need no download.
LinkedUids(v) == {u \in Uids : <<v, u>> \in linked}

\* Connect, SELECT read-only, UIDVALIDITY and UID SEARCH ALL.
Search ==
    /\ sync = "search"
    /\ sync' = "fetch"
    /\ uidvalidity' = epoch
    /\ todo' = box \ LinkedUids(epoch)
    /\ UNCHANGED <<mailbox, linked, index, pc, mode, selected, signals, by, faults>>

\* The selected mailbox still holds the message, and it can be registered.
Fetchable(u) == u \in box /\ uidvalidity = epoch /\ <<epoch, u>> \notin Bad

\* register_remote_link: the identity and its canonical link.
RegisterRemoteLink(u) == linked' = linked \cup {<<uidvalidity, u>>}

\* apply_classification ends with a refresh of both indexes.  Its failure is swallowed: nothing
\* says that the index is behind.
RefreshAfterClassification ==
    /\ UNCHANGED indexPending
    /\ \/ indexed' = linked' /\ UNCHANGED faults
       \/ Fault /\ UNCHANGED indexed

\* BODY.PEEK[], ingest_bytes, register_remote_link and classify_pending, in the order of the
\* UIDs.
Fetch ==
    /\ sync = "fetch"
    /\ todo # {}
    /\ LET u == Min(todo)
       IN  /\ Fetchable(u)
           /\ RegisterRemoteLink(u)
           /\ todo' = todo \ {u}
    /\ RefreshAfterClassification
    /\ UNCHANGED <<mailbox, pc, mode, selected, signals, sync, by, uidvalidity>>

\* Any exception ends the sync.  The watcher keeps pending for a later attempt.
SyncRaises ==
    /\ Release
    /\ IF by = "watch" THEN pc' = After /\ due' = FALSE ELSE UNCHANGED <<pc, due>>
    /\ UNCHANGED <<mailbox, linked, index, mode, selected, pending, notified>>

\* The message is gone, its mailbox was recreated, or it can never be registered.
FetchFails ==
    /\ sync = "fetch"
    /\ todo # {}
    /\ ~Fetchable(Min(todo))
    /\ SyncRaises
    /\ UNCHANGED faults

SyncFails == sync # "idle" /\ Fault /\ SyncRaises

SyncDoneUnindexed ==   \* mutant: only a retry refreshes the index
    /\ sync = "fetch"
    /\ todo = {}
    /\ Release
    /\ IF by = "watch" THEN pc' = After /\ pending' = FALSE /\ due' = FALSE
                       ELSE UNCHANGED <<pc, pending, due>>
    /\ UNCHANGED <<mailbox, linked, index, mode, selected, notified, faults>>

\* _sync_and_refresh goes on with the index.
SyncDone ==
    /\ sync = "fetch"
    /\ todo = {}
    /\ Release
    /\ IF by = "watch" THEN pc' = "refresh" /\ pending' = FALSE /\ due' = FALSE
                       ELSE UNCHANGED <<pc, pending, due>>
    /\ UNCHANGED <<mailbox, linked, index, mode, selected, notified, faults>>

CliSync ==
    /\ Fault
    /\ Lock("cli")
    /\ UNCHANGED <<mailbox, linked, index, pc, mode, selected, signals>>

-----------------------------------------------------------------------------
(* FastPathWatcher.                                                        *)

Goto(label) ==
    /\ pc' = label
    /\ UNCHANGED <<mailbox, linked, index, run>>

\* watcher_lock; idle_enabled decides the mode.
WatchBegin ==
    /\ pc = "off"
    /\ \/ mode' = "idle" /\ Goto("open")
       \/ mode' = "poll" /\ Goto("poll")
    /\ UNCHANGED <<selected, signals, faults>>

\* ImapNotificationConnection.open: login, SELECT read-only, CAPABILITY.
OpenConnection == selected' = epoch

\* open and the head of _run_idle: every connection starts with a catch-up.
Open ==
    /\ pc = "open"
    /\ Goto("arm")
    /\ pending' = TRUE
    /\ due' = FALSE
    /\ notified' = FALSE
    /\ OpenConnection
    /\ UNCHANGED <<mode, faults>>

\* The server has no IDLE, or IMAP4.error is raised when it is armed, in the burst or when it
\* ends: poll from now on.
IdleRejected ==
    /\ pc \in {"open", "arm", "burst"}
    /\ Fault
    /\ Goto("poll")
    /\ mode' = "poll"
    /\ UNCHANGED <<selected, signals>>

\* OSError, EOFError, TimeoutError or abort on the notification connection.
ConnectionLost ==
    /\ pc \in {"open", "arm", "burst"}
    /\ mode = "idle"
    /\ Fault
    /\ Goto("backoff")
    /\ UNCHANGED <<mode, selected, signals>>

Backoff ==
    /\ pc = "backoff"
    /\ Goto("open")
    /\ UNCHANGED <<mode, selected, signals, faults>>

\* IDLE is armed before anything is synchronised.
Arm ==
    /\ pc = "arm"
    /\ Goto("armed")
    /\ notified' = FALSE
    /\ UNCHANGED <<mode, selected, pending, due, faults>>

\* _sync_and_refresh inside the IDLE window, or in the poll loop.
WantsSync == (pc = "armed" /\ pending) \/ pc = "poll"

WatchSync ==
    /\ WantsSync
    /\ Lock("watch")
    /\ pc' = "sync"
    /\ UNCHANGED <<mailbox, linked, index, mode, selected, signals, faults>>

WatchBusyClears ==   \* mutant: a busy lock counts as a completed catch-up
    /\ WantsSync
    /\ sync # "idle"
    /\ Goto(After)
    /\ due' = FALSE
    /\ pending' = FALSE
    /\ UNCHANGED <<mode, selected, notified, faults>>

\* ImapSyncBusyError.
WatchBusy ==
    /\ WantsSync
    /\ sync # "idle"
    /\ Goto(After)
    /\ due' = FALSE
    /\ UNCHANGED <<mode, selected, pending, notified, faults>>

\* _refresh_index, after a successful sync or as a retry without one.
Refresh ==
    /\ pc = "refresh"
    /\ pc' = After
    /\ \/ indexed' = linked /\ indexPending' = FALSE /\ UNCHANGED faults
       \/ Fault /\ indexPending' = TRUE /\ UNCHANGED indexed
    /\ UNCHANGED <<mailbox, linked, mode, selected, signals, run>>

\* Nothing to fetch: retry a pending index refresh, or wait for notifications.
Listen ==
    /\ pc = "armed"
    /\ ~pending
    /\ Goto(IF indexPending THEN "refresh" ELSE "burst")
    /\ UNCHANGED <<mode, selected, signals, faults>>

\* The batch of the IDLE window and the reconcile timer; IDLE ends.
Burst ==
    /\ pc = "burst"
    /\ Goto("arm")
    /\ pending' = (pending \/ notified \/ due)
    /\ notified' = FALSE
    /\ UNCHANGED <<mode, selected, due, faults>>

\* stop_event, an error nobody handles (a refused login or SELECT) or a crash.  A sync of
\* this process dies with it and its lock is free.
WatchStops ==
    /\ pc # "off"
    /\ Fault
    /\ pc' = "off"
    /\ pending' = FALSE /\ due' = FALSE /\ notified' = FALSE
    /\ IF by = "watch" THEN Release ELSE UNCHANGED run
    /\ UNCHANGED <<mailbox, linked, index, mode, selected>>

-----------------------------------------------------------------------------
(* The world outside.                                                      *)

Idling == mode = "idle" /\ pc \in {"armed", "sync", "refresh", "burst"} /\ selected = epoch

Arrive ==
    /\ uidnext <= MaxUid
    /\ uidnext' = uidnext + 1
    /\ box' = box \cup {uidnext}
    /\ IF Idling THEN notified' = TRUE /\ UNCHANGED gap
                 ELSE gap' = gap \cup {uidnext} /\ UNCHANGED notified
    /\ UNCHANGED <<epoch, linked, index, pc, mode, selected, pending, due, run, faults>>

Expunge ==
    /\ \E u \in box : box' = box \ {u} /\ gap' = gap \ {u}
    /\ notified' = (notified \/ Idling)
    /\ UNCHANGED <<epoch, uidnext, linked, index, pc, mode, selected, pending, due, run, faults>>

Recreate ==
    /\ epoch < MaxEpoch
    /\ epoch' = epoch + 1
    /\ box' = {}
    /\ uidnext' = 1
    /\ gap' = {}
    /\ UNCHANGED <<linked, index, pc, mode, selected, signals, run, faults>>

Tick ==
    /\ pc # "off" /\ mode = "idle" /\ ~due
    /\ due' = TRUE
    /\ UNCHANGED <<mailbox, linked, index, pc, mode, selected, pending, notified, run, faults>>

Sync == Search \/ Fetch \/ FetchFails \/ SyncDone

Watcher ==
    \/ WatchBegin \/ Open \/ Backoff \/ Arm \/ WatchSync \/ WatchBusy \/ Refresh \/ Listen \/ Burst

Faults == SyncFails \/ CliSync \/ IdleRejected \/ ConnectionLost \/ WatchStops

Next == Sync \/ Watcher \/ Faults \/ Arrive \/ Expunge \/ Recreate \/ Tick

Spec == Init /\ [][Next]_vars

\* A running sync goes on, the watcher's service is kept running, time passes.
FairSpec == Spec /\ WF_vars(Sync) /\ WF_vars(Watcher) /\ WF_vars(Tick)

-----------------------------------------------------------------------------
(* Properties.                                                             *)

\* Type correctness of the mailbox, of the rows and of watcher and sync.
TypeOK ==
    /\ epoch \in Epochs /\ box \subseteq Uids /\ uidnext \in 1..(MaxUid + 1)
    /\ linked \subseteq Identities /\ indexed \subseteq linked /\ gap \subseteq box
    /\ pc \in {"off", "open", "backoff", "arm", "armed", "sync", "refresh", "burst", "poll"}
    /\ mode \in {"idle", "poll"} /\ selected \in Epochs
    /\ indexPending \in BOOLEAN /\ pending \in BOOLEAN /\ due \in BOOLEAN /\ notified \in BOOLEAN
    /\ sync \in {"idle", "search", "fetch"} /\ by \in {"none", "watch", "cli"}
    /\ uidvalidity \in Epochs /\ todo \subseteq Uids
    /\ faults \in 0..MaxFaults

\* Arm before sync: when the watcher is about to listen and sees no reason to catch up,
\* every message it has not archived arrived while no IDLE was listening.  Nothing that was
\* announced is forgotten, whether the announcement fell into a sync, a busy lock, a failed
\* sync or a broken connection.
NoNotificationLost ==
    (pc = "arm" /\ ~pending) => \A u \in box \ gap : <<epoch, u>> \in linked

\* sync takes the UIDs in order and stops at the first failure: one that always fails blocks
\* itself and what comes after it.
Blocked(u) == \E b \in box : b <= u /\ <<epoch, b>> \in Bad

\* New mail is archived in the end, also what arrived unannounced and what has the UID of a
\* message of an earlier UIDVALIDITY, unless it leaves first or a failing UID blocks it.
NewMailIsArchived ==
    \A e \in Epochs, u \in Uids :
        (epoch = e /\ u \in box) ~>
            (<<e, u>> \in linked \/ epoch # e \/ u \notin box \/ Blocked(u))

\* What is archived becomes searchable, although any refresh may fail and the one at the end
\* of a classification fails silently.  Then only the refresh after a successful sync makes
\* up for it, and a UID that always fails keeps every sync from succeeding.
ArchivedIsIndexed ==
    \A i \in Identities : i \in linked ~> (i \in indexed \/ \E u \in box : Blocked(u))

=============================================================================
