----------------------------- MODULE GmailSync ------------------------------
(***************************************************************************)
(* Gmail acquisition (gmail.py): GmailAdapter.sync with its full and       *)
(* partial synchronisation, and the GmailWatcher that polls it, against a  *)
(* mailbox that changes between any two requests.                          *)
(*                                                                         *)
(* The mailbox is external.  Messages arrive in the order of their ids and *)
(* are listed newest first; every change appends a record to the history,  *)
(* a historyId is a position in it, and the provider forgets old           *)
(* positions.  A Message resource carries the position of its last change. *)
(* One label stands for all of them.  Every message has bytes of its own,  *)
(* and is classified as soon as it is registered.                          *)
(***************************************************************************)
EXTENDS Naturals, Sequences, FiniteSetsExt

CONSTANTS
    N,              \* messages that ever arrive
    MaxEvents,      \* bound on the history
    MaxFaults       \* bound on failed requests and index refreshes, stops, crashes, manual syncs

ASSUME GmailAssumption == N \in Nat /\ MaxEvents \in Nat /\ MaxFaults \in Nat

VARIABLES
    server,         \* where a message is on the provider
    labelled,       \* messages that carry the label on the provider
    log,            \* history records, oldest first
    oldest,         \* smallest historyId history.list still accepts
    linked,         \* remote_messages rows with their canonical link
    present,        \* those with remote_present=1
    labels,         \* gmail_message_labels
    catalogue,      \* gmail_labels has the label
    historyId,      \* gmail_sync_state.history_id
    fullRequired,   \* gmail_sync_state.full_sync_required
    pc,             \* control point of the sync that holds the account lock
    by,             \* who runs it
    op,             \* full, partial, or expired: the full scan after expired history
    start,          \* historyId from which history is read
    pos,            \* how far it has been read
    cursor,         \* page token of messages.list
    seen, affected, deleted,
    todo,           \* message ids still to be reconciled
    watch,          \* control point of the watcher
    indexed,        \* messages the search index covers
    indexPending,   \* fast_path_health.index_pending
    faults

provider == <<server, labelled, log, oldest>>
rows == <<linked, present, labels, catalogue>>
checkpoint == <<historyId, fullRequired>>
locals == <<op, start, pos, cursor, seen, affected, deleted, todo>>
index == <<indexed, indexPending>>
vars == <<provider, rows, checkpoint, pc, by, locals, watch, index, faults>>

Msgs == 1..N
NoId == MaxEvents + 1           \* history_id IS NULL
HistoryIds == 0..MaxEvents
Here == {m \in Msgs : server[m] = "here"}

\* labels.list has the label.
LabelExists == \E i \in 1..Len(log) : log[i].kind = "label"

\* The historyId of a Message resource.
LastEvent(m) == Max({i \in 1..Len(log) : log[i].msg = m})

Init ==
    /\ server = [m \in Msgs |-> "unborn"]
    /\ labelled = {}
    /\ log = <<>> /\ oldest = 0
    /\ linked = {} /\ present = {} /\ labels = {} /\ catalogue = FALSE
    /\ historyId = NoId /\ fullRequired = TRUE
    /\ pc = "idle" /\ by = "none" /\ op = "full"
    /\ start = 0 /\ pos = 0 /\ cursor = 0
    /\ seen = {} /\ affected = {} /\ deleted = {} /\ todo = {}
    /\ watch = "off" /\ indexed = {} /\ indexPending = FALSE
    /\ faults = 0

-----------------------------------------------------------------------------
(* GmailAdapter.sync.                                                      *)

\* The lock is released and the locals are gone; the watcher's loop goes on.
Leave(next) ==
    /\ pc' = "idle" /\ by' = "none"
    /\ op' = "full" /\ start' = 0 /\ pos' = 0 /\ cursor' = 0
    /\ seen' = {} /\ affected' = {} /\ deleted' = {} /\ todo' = {}
    /\ watch' = IF by = "watch" THEN next ELSE watch

Succeed == Leave("refresh")

\* _record_failure: only a failed full scan insists on another one.
Fail(next) ==
    /\ fullRequired' = (fullRequired \/ op # "partial")
    /\ Leave(next)
    /\ UNCHANGED <<provider, rows, historyId, index>>

\* _partial reads history from h on.
ReplayFrom(h) ==
    /\ pc' = "history"
    /\ start' = h /\ pos' = h /\ affected' = {} /\ deleted' = {} /\ todo' = {}

\* _labels: the label set of the provider is taken over.
RefreshLabels == catalogue' = (catalogue \/ LabelExists)

\* gmail_lock, the stored checkpoint and _labels.
SyncBegin(who) ==
    /\ pc = "idle"
    /\ by' = who
    /\ RefreshLabels
    /\ IF fullRequired \/ historyId = NoId
       THEN /\ op' = "full"
            /\ pc' = "anchor"
            /\ UNCHANGED <<start, pos, affected, deleted, todo>>
       ELSE op' = "partial" /\ ReplayFrom(historyId)
    /\ UNCHANGED <<provider, linked, present, labels, checkpoint, cursor, seen, index>>

\* _pre_scan_anchor lists one message.  An empty mailbox has no checkpoint.
PreScanList ==
    /\ pc = "anchor"
    /\ \/ /\ Here = {}
          /\ historyId' = NoId
          /\ fullRequired' = TRUE
          /\ Succeed
       \/ /\ Here # {}
          /\ pc' = "get"
          /\ cursor' = Max(Here)
          /\ UNCHANGED <<checkpoint, by, op, start, pos, seen, affected, deleted, todo, watch>>
    /\ UNCHANGED <<provider, rows, index, faults>>

\* messages.get of an id that is gone by now.
NotFound(m) == m \notin Here /\ Fail("head") /\ UNCHANGED faults

\* _pre_scan_anchor reads the historyId of the message it listed.
PreScanGet ==
    /\ pc = "get"
    /\ \/ NotFound(cursor)
       \/ /\ cursor \in Here
          /\ start' = LastEvent(cursor)
          /\ pc' = "scan"
          /\ cursor' = N + 1
          /\ seen' = {} /\ todo' = {}
          /\ UNCHANGED <<provider, rows, checkpoint, by, op, pos, affected, deleted, watch, index,
                         faults>>

\* One page of messages.list; cursor 0 means there was no nextPageToken.
ScanPage ==
    /\ pc = "scan"
    /\ todo = {}
    /\ cursor > 0
    /\ \E k \in 0..(cursor - 1) :
          LET page == {m \in Here : k < m /\ m < cursor}
              last == \A m \in Here : m > k
          IN  /\ page # {} \/ last
              /\ todo' = page
              /\ seen' = seen \cup page
              /\ cursor' = IF last THEN 0 ELSE k + 1
    /\ UNCHANGED <<provider, rows, checkpoint, pc, by, op, start, pos, affected,
                   deleted, watch, index, faults>>

\* Catch up from the anchor before absence and checkpoint are committed.
ScanEnds ==
    /\ pc = "scan"
    /\ todo = {}
    /\ cursor = 0
    /\ ReplayFrom(start)
    /\ UNCHANGED <<provider, rows, checkpoint, by, op, cursor, seen, watch, index, faults>>

\* apply_classification of a new message ends with a refresh of both indexes.  Its failure is
\* swallowed: nothing says that the index is behind.
RefreshAfterClassification(m) ==
    /\ UNCHANGED indexPending
    /\ \/ m \notin linked /\ indexed' = linked' /\ UNCHANGED faults
       \/ m \notin linked /\ faults < MaxFaults /\ faults' = faults + 1 /\ UNCHANGED indexed
       \/ m \in linked /\ UNCHANGED <<indexed, faults>>

\* _reconcile and _register: messages.get, ingest unless known, the row, its link and its
\* labels, the classification of what is new.  An unknown label refreshes the label set once.
Reconcile(m) ==
    /\ m \in Here
    /\ linked' = linked \cup {m}
    /\ present' = present \cup {m}
    /\ labels' = IF m \in labelled THEN labels \cup {m} ELSE labels \ {m}
    /\ catalogue' = (catalogue \/ m \in labelled)
    /\ RefreshAfterClassification(m)
    /\ todo' = todo \ {m}
    /\ UNCHANGED <<provider, checkpoint, pc, by, op, start, pos, cursor, seen, affected,
                   deleted, watch>>

FetchListed ==
    /\ pc = "scan"
    /\ todo # {}
    /\ Reconcile(Max(todo)) \/ NotFound(Max(todo))

\* One page of history.list.  Only the last one ends the replay, and its historyId is the
\* position the provider had reached then.
HistoryPage ==
    /\ pc = "history"
    /\ start >= oldest
    /\ \E j \in pos..Len(log) :
          LET page == {log[i] : i \in (pos + 1)..j}
          IN  /\ j > pos \/ j = Len(log)
              /\ affected' = affected \cup {r.msg : r \in page}
              /\ deleted' = deleted \cup {r.msg : r \in {q \in page : q.kind = "deleted"}}
              /\ pos' = j
              /\ IF j = Len(log) THEN pc' = "apply" /\ todo' = affected' ELSE UNCHANGED <<pc, todo>>
    /\ UNCHANGED <<provider, rows, checkpoint, by, op, start, cursor, seen, watch,
                   index, faults>>

HistoryExpiredDropsFlag ==   \* mutant: expired history is an error like any other
    /\ pc = "history"
    /\ start < oldest
    /\ Leave("head")
    /\ UNCHANGED <<provider, rows, checkpoint, index, faults>>

\* HTTP 404 for the starting position: a full scan is required, and made once at once.
HistoryExpired ==
    /\ pc = "history"
    /\ start < oldest
    /\ \/ op = "expired" /\ Fail("head") /\ UNCHANGED faults
       \/ /\ op # "expired"
          /\ op' = "expired"
          /\ fullRequired' = TRUE
          /\ pc' = "anchor"
          /\ UNCHANGED <<provider, rows, historyId, by, start, pos, cursor, seen, affected,
                         deleted, todo, watch, index, faults>>

ApplyDeletion(m) ==
    /\ m \in deleted
    /\ present' = present \ {m}
    /\ todo' = todo \ {m}
    /\ UNCHANGED <<provider, linked, labels, catalogue, checkpoint, pc, by, op, start, pos,
                   cursor, seen, affected, deleted, watch, index, faults>>

ApplyAffected ==
    /\ pc = "apply"
    /\ todo # {}
    /\ LET m == Min(todo)
       IN  \/ ApplyDeletion(m)
           \/ m \notin deleted /\ (Reconcile(m) \/ NotFound(m))

FinalPresentScanOnly ==   \* mutant: what arrived during the scan counts as absent
    seen \ deleted

\* What a full scan and its catch-up found on the provider.
FinalPresent == (seen \cup (affected \ deleted)) \ deleted

FinishAtCurrent ==   \* mutant: the checkpoint is the provider's position at commit time
    /\ pc = "apply"
    /\ todo = {}
    /\ present' = IF op = "partial" THEN present ELSE present \cap FinalPresent
    /\ historyId' = Len(log)
    /\ fullRequired' = FALSE
    /\ Succeed
    /\ UNCHANGED <<provider, linked, labels, catalogue, index, faults>>

FinishKeepsFlag ==   \* mutant: a full scan forgets to clear full_sync_required
    /\ pc = "apply"
    /\ todo = {}
    /\ present' = IF op = "partial" THEN present ELSE present \cap FinalPresent
    /\ historyId' = pos
    /\ Succeed
    /\ UNCHANGED <<provider, linked, labels, catalogue, fullRequired, index, faults>>

\* The end of _partial: the position its last page reported.
CommitCheckpoint ==
    /\ historyId' = pos
    /\ fullRequired' = FALSE
    /\ Succeed

\* The commit of _partial, or of _full with the absence its inventory shows.
Finish ==
    /\ pc = "apply"
    /\ todo = {}
    /\ present' = IF op = "partial" THEN present ELSE present \cap FinalPresent
    /\ CommitCheckpoint
    /\ UNCHANGED <<provider, linked, labels, catalogue, index, faults>>

\* A request still fails after its retries.  Failed authorisation also ends the watcher.
SyncFails ==
    /\ pc # "idle"
    /\ faults < MaxFaults
    /\ faults' = faults + 1
    /\ Fail("head") \/ Fail("off")

-----------------------------------------------------------------------------
(* GmailWatcher.run.                                                       *)

WatchBegin ==
    /\ watch = "off"
    /\ watch' = "head"
    /\ UNCHANGED <<provider, rows, checkpoint, pc, by, locals, index, faults>>

\* _refresh: the index takes in what is archived, or stays pending.
Refresh(next) ==
    /\ watch' = next
    /\ \/ indexed' = linked /\ indexPending' = FALSE /\ UNCHANGED faults
       \/ /\ faults < MaxFaults
          /\ faults' = faults + 1
          /\ indexPending' = TRUE
          /\ UNCHANGED indexed
    /\ UNCHANGED <<provider, rows, checkpoint, pc, by, locals>>

WatchHead ==
    /\ watch = "head"
    /\ \/ indexPending /\ Refresh("poll")
       \/ ~indexPending /\ watch' = "poll"
          /\ UNCHANGED <<provider, rows, checkpoint, pc, by, locals, index, faults>>

WatchPoll ==
    /\ watch = "poll"
    /\ SyncBegin("watch")
    /\ watch' = "sync"
    /\ UNCHANGED faults

\* GmailSyncBusyError: another process holds the lock; wait for the next poll.
WatchBusy ==
    /\ watch = "poll"
    /\ pc # "idle"
    /\ watch' = "head"
    /\ UNCHANGED <<provider, rows, checkpoint, pc, by, locals, index, faults>>

WatchRefreshPending ==   \* mutant: a successful poll refreshes only an index that is pending
    /\ watch = "refresh"
    /\ \/ indexPending /\ Refresh("head")
       \/ ~indexPending /\ watch' = "head"
          /\ UNCHANGED <<provider, rows, checkpoint, pc, by, locals, index, faults>>

WatchRefresh == watch = "refresh" /\ Refresh("head")

\* The sync command run by hand.
CliSync ==
    /\ faults < MaxFaults
    /\ faults' = faults + 1
    /\ SyncBegin("cli")
    /\ UNCHANGED watch

\* stop_event, or the process dies: a transaction that did not commit leaves nothing.
WatchStops ==
    /\ faults < MaxFaults
    /\ faults' = faults + 1
    /\ \/ watch = "head" /\ watch' = "off" /\ UNCHANGED <<pc, by, locals>>
       \/ pc # "idle" /\ Leave("off")
    /\ UNCHANGED <<provider, rows, checkpoint, index>>

-----------------------------------------------------------------------------
(* The mailbox.                                                            *)

Record(m, kind) ==
    /\ Len(log) < MaxEvents
    /\ log' = Append(log, [msg |-> m, kind |-> kind])
    /\ UNCHANGED <<oldest, rows, checkpoint, pc, by, locals, watch, index, faults>>

Arrive ==
    \E m \in Msgs :
        /\ server[m] = "unborn"
        /\ \A k \in 1..(m - 1) : server[k] # "unborn"
        /\ server' = [server EXCEPT ![m] = "here"]
        /\ Record(m, "added")
        /\ UNCHANGED labelled

Remove ==
    \E m \in Here :
        /\ server' = [server EXCEPT ![m] = "gone"]
        /\ Record(m, "deleted")
        /\ UNCHANGED labelled

\* The label is set or taken away; the first time it is created with it.
ChangeLabels ==
    \E m \in Here :
        /\ labelled' = IF m \in labelled THEN labelled \ {m} ELSE labelled \cup {m}
        /\ Record(m, "label")
        /\ UNCHANGED server

Expire ==
    /\ \E k \in (oldest + 1)..Len(log) : oldest' = k
    /\ UNCHANGED <<server, labelled, log, rows, checkpoint, pc, by, locals, watch, index,
                   faults>>

Sync ==
    \/ PreScanList \/ PreScanGet \/ ScanPage \/ FetchListed \/ ScanEnds
    \/ HistoryPage \/ HistoryExpired \/ ApplyAffected \/ Finish

Watcher == WatchBegin \/ WatchHead \/ WatchPoll \/ WatchBusy \/ WatchRefresh

Mailbox == Arrive \/ Remove \/ ChangeLabels \/ Expire

Next == Sync \/ Watcher \/ CliSync \/ SyncFails \/ WatchStops \/ Mailbox

Spec == Init /\ [][Next]_vars

\* A running sync goes on, and the watcher's service is kept running.
FairSpec == Spec /\ WF_vars(Sync) /\ WF_vars(Watcher)

-----------------------------------------------------------------------------
(* Properties.                                                             *)

MailboxTypeOK ==
    /\ server \in [Msgs -> {"unborn", "here", "gone"}]
    /\ labelled \subseteq Msgs
    /\ log \in Seq([msg : Msgs, kind : {"added", "label", "deleted"}])
    /\ Len(log) <= MaxEvents
    /\ oldest \in 0..Len(log)

RowsTypeOK ==
    /\ present \subseteq linked /\ linked \subseteq Msgs /\ labels \subseteq linked
    /\ indexed \subseteq linked /\ indexPending \in BOOLEAN
    /\ catalogue \in BOOLEAN /\ fullRequired \in BOOLEAN
    /\ historyId \in 0..Len(log) \cup {NoId}

SyncTypeOK ==
    /\ pc \in {"idle", "anchor", "get", "scan", "history", "apply"}
    /\ by \in {"none", "watch", "cli"} /\ op \in {"full", "partial", "expired"}
    /\ start \in HistoryIds /\ pos \in HistoryIds /\ cursor \in 0..(N + 1)
    /\ (seen \cup affected \cup deleted \cup todo) \subseteq Msgs
    /\ watch \in {"off", "head", "poll", "sync", "refresh"}
    /\ faults \in 0..MaxFaults

\* Type correctness of the mailbox, of the rows and of the locals of sync and watcher.
TypeOK == MailboxTypeOK /\ RowsTypeOK /\ SyncTypeOK

\* A stored checkpoint never runs ahead of the rows: a message that has not changed since
\* history_id is archived, present and labelled here exactly as it is on the provider,
\* however scans, catch-ups, failures and the mailbox interleaved.
MirrorIsExact ==
    (historyId # NoId /\ ~fullRequired) =>
        \A m \in Msgs \ {log[i].msg : i \in (historyId + 1)..Len(log)} :
            /\ m \in present <=> m \in Here
            /\ m \in Here => m \in linked
            /\ m \in Here => (m \in labels <=> m \in labelled)
            /\ m \in labels => catalogue

\* remote_present=0 is only ever recorded of a message that left the provider.
AbsenceIsReal == \A m \in linked \ present : server[m] = "gone"

\* No message is skipped for ever: expired history, restarts, messages that vanish between
\* the listing and their download only delay it.
NothingSkippedForEver ==
    \A m \in Msgs : server[m] = "here" ~> (m \in linked \/ server[m] = "gone")

\* The anchor of a full scan is the position of the newest message, which may itself be
\* forgotten by the provider when nothing has happened to that message for long.
AnchorForgotten == Here # {} /\ LastEvent(Max(Here)) < oldest

\* A required full scan is made up for, unless the mailbox is empty or the anchor it offers
\* has expired.
FullScanSettles == fullRequired ~> (~fullRequired \/ Here = {} \/ AnchorForgotten)

\* What is archived becomes searchable, although any refresh may fail and the one at the end
\* of a classification fails silently.  Then only the refresh after a successful poll makes
\* up for it, and a mailbox whose anchor has expired never has one.
ArchivedIsIndexed ==
    \A m \in Msgs : m \in linked ~> (m \in indexed \/ AnchorForgotten)

=============================================================================
