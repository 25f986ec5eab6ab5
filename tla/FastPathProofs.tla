--------------------------- MODULE FastPathProofs ---------------------------
(***************************************************************************)
(* Proofs about the INBOX watcher (FastPath): type correctness, and that   *)
(* nothing the server announced is forgotten, whatever the announcement    *)
(* fell into.                                                              *)
(***************************************************************************)
EXTENDS FastPath, TLAPS

-----------------------------------------------------------------------------
LEMMA FirstEpoch == 1 \in Epochs
BY FastPathAssumption DEF Epochs

LEMMA InitType == Init => TypeOK
<1> SUFFICES ASSUME Init
             PROVE  TypeOK
    OBVIOUS
<1>1. uidnext \in 1..(MaxUid + 1) /\ faults \in 0..MaxFaults
    BY FastPathAssumption DEF Init
<1>2. pending \in BOOLEAN /\ due \in BOOLEAN /\ notified \in BOOLEAN /\ indexPending \in BOOLEAN
    BY DEF Init
<1> QED
    BY <1>1, <1>2, FirstEpoch DEF Init, TypeOK

LEMMA FaultType ==
    ASSUME TypeOK, Fault
    PROVE  faults' \in 0..MaxFaults
BY FastPathAssumption DEF TypeOK, Fault

LEMMA SyncType ==
    ASSUME TypeOK, Sync \/ SyncFails \/ CliSync
    PROVE  TypeOK'
<1> USE DEF TypeOK, mailbox, index, signals, Lock, Release, SyncRaises, After
<1>1. CASE Search
    BY <1>1 DEF Search, LinkedUids, Uids
<1>2. CASE Fetch
  <2>1. PICK u : u \in box /\ linked' = linked \cup {<<uidvalidity, u>>} /\ todo' = todo \ {u}
    BY <1>2 DEF Fetch, Fetchable, RegisterRemoteLink
  <2>2. indexed' \subseteq linked' /\ indexPending' = indexPending /\ (faults' = faults \/ Fault)
    BY <1>2, <2>1 DEF Fetch, RefreshAfterClassification
  <2> QED
    BY <1>2, <2>1, <2>2, FaultType DEF Fetch, Identities
<1>3. CASE FetchFails
    BY <1>3, FirstEpoch DEF FetchFails
<1>4. CASE SyncDone
    BY <1>4, FirstEpoch DEF SyncDone
<1>5. CASE SyncFails
    BY <1>5, FirstEpoch, FaultType DEF SyncFails
<1>6. CASE CliSync
    BY <1>6, FaultType DEF CliSync
<1> QED
    BY <1>1, <1>2, <1>3, <1>4, <1>5, <1>6 DEF Sync

LEMMA WatcherType ==
    ASSUME TypeOK, Watcher \/ IdleRejected \/ ConnectionLost \/ WatchStops
    PROVE  TypeOK'
<1> USE DEF TypeOK, mailbox, index, run, signals, Goto, After
<1>1. CASE WatchBegin
    BY <1>1 DEF WatchBegin
<1>2. CASE Open
    BY <1>2 DEF Open, OpenConnection
<1>3. CASE Backoff \/ Arm \/ Listen
    BY <1>3 DEF Backoff, Arm, Listen
<1>4. CASE WatchSync
    BY <1>4 DEF WatchSync, Lock
<1>5. CASE WatchBusy
    BY <1>5 DEF WatchBusy
<1>6. CASE Refresh
    BY <1>6, FaultType DEF Refresh
<1>7. CASE Burst
    BY <1>7 DEF Burst
<1>8. CASE IdleRejected \/ ConnectionLost
    BY <1>8, FaultType DEF IdleRejected, ConnectionLost
<1>9. CASE WatchStops
    BY <1>9, FaultType, FirstEpoch DEF WatchStops, Release
<1> QED
    BY <1>1, <1>2, <1>3, <1>4, <1>5, <1>6, <1>7, <1>8, <1>9 DEF Watcher

LEMMA NextType == TypeOK /\ [Next]_vars => TypeOK'
<1> SUFFICES ASSUME TypeOK, [Next]_vars
             PROVE  TypeOK'
    OBVIOUS
<1> USE DEF TypeOK, mailbox, index, run, signals
<1>1. CASE Arrive
  <2>1. uidnext \in Uids /\ uidnext' \in 1..(MaxUid + 1)
    BY <1>1, FastPathAssumption DEF Arrive, Uids
  <2> QED
    BY <1>1, <2>1 DEF Arrive
<1>2. CASE Expunge
    BY <1>2 DEF Expunge, Idling
<1>3. CASE Recreate
    BY <1>3, FastPathAssumption DEF Recreate, Epochs
<1>4. CASE Tick
    BY <1>4 DEF Tick
<1>5. CASE UNCHANGED vars
    BY <1>5 DEF vars
<1> QED
    BY <1>1, <1>2, <1>3, <1>4, <1>5, SyncType, WatcherType DEF Next, Faults

\* The mailbox, the rows, the watcher and the sync keep their types for any number of UIDs,
\* epochs and failures.
THEOREM TypeCorrect == Spec => []TypeOK
BY InitType, NextType, PTL DEF Spec

-----------------------------------------------------------------------------
(* The inductive invariant of the watcher.                                 *)

\* Messages of the mailbox that were announced to an armed IDLE and have no canonical link.
Unarchived == {u \in box \ gap : <<epoch, u>> \notin linked}

\* The watcher is inside a sync exactly while it holds the folder lock.
LockIsHeld == (pc = "sync" <=> by = "watch") /\ (sync = "idle" => by = "none")

\* The IDLE loop and the poll loop do not share their control points.
ModeOfPc ==
    /\ pc = "poll" => mode = "poll"
    /\ pc \in {"open", "backoff", "arm", "armed", "burst"} => mode = "idle"

\* A catch-up stays due until a sync of the watcher has succeeded.
SyncIsPending == mode = "idle" /\ pc = "sync" => pending

\* A sync under way still has on its list what was announced before its search; what came
\* later is notified.
SyncCoversSearch == mode = "idle" /\ pc = "sync" /\ sync = "fetch" => notified \/ Unarchived \subseteq todo

\* Inside the IDLE window whatever is not archived is pending or notified; between two windows
\* it is pending.
WindowCovers ==
    mode = "idle" /\ pc \in {"armed", "refresh", "burst"} => pending \/ notified \/ Unarchived = {}

ArmCovers == pc = "arm" => pending \/ Unarchived = {}

WatchInv ==
    LockIsHeld /\ ModeOfPc /\ SyncIsPending /\ SyncCoversSearch /\ WindowCovers /\ ArmCovers

LEMMA InitWatch == Init => WatchInv
BY DEF Init, WatchInv, LockIsHeld, ModeOfPc, SyncIsPending, SyncCoversSearch, WindowCovers, ArmCovers

\* Rows and mailbox unchanged, nothing new is unarchived.
LEMMA SameUnarchived ==
    ASSUME UNCHANGED <<mailbox, linked>>
    PROVE  Unarchived' = Unarchived
BY DEF Unarchived, mailbox

LEMMA SyncWatch ==
    ASSUME TypeOK, WatchInv, Sync \/ SyncFails \/ CliSync
    PROVE  WatchInv'
<1> USE DEF WatchInv, LockIsHeld, ModeOfPc, SyncIsPending, SyncCoversSearch, WindowCovers, ArmCovers,
            signals, run, Release
<1>1. CASE Search
  <2>1. Unarchived' \subseteq todo'
    BY <1>1 DEF Search, Unarchived, mailbox, LinkedUids, TypeOK
  <2>2. Unarchived' = Unarchived
    BY <1>1, SameUnarchived DEF Search
  <2> QED
    BY <1>1, <2>1, <2>2 DEF Search
<1>2. CASE Fetch
  <2>1. PICK u : /\ uidvalidity = epoch
                 /\ linked' = linked \cup {<<uidvalidity, u>>}
                 /\ todo' = todo \ {u}
    BY <1>2 DEF Fetch, Fetchable, RegisterRemoteLink
  <2>2. Unarchived' = Unarchived \ {u}
    BY <1>2, <2>1 DEF Fetch, Unarchived, mailbox
  <2>3. UNCHANGED <<pc, mode, signals, sync, by>>
    BY <1>2 DEF Fetch
  <2> QED
    BY <2>1, <2>2, <2>3
<1>3. CASE FetchFails \/ SyncFails
  <2>1. SyncRaises
    BY <1>3 DEF FetchFails, SyncFails
  <2>2. Unarchived' = Unarchived
    BY <2>1, SameUnarchived DEF SyncRaises
  <2>3. CASE by = "watch"
    BY <2>1, <2>2, <2>3 DEF SyncRaises, After, TypeOK
  <2>4. CASE by # "watch"
    BY <2>1, <2>2, <2>4 DEF SyncRaises
  <2> QED
    BY <2>3, <2>4
<1>4. CASE SyncDone
  <2>1. Unarchived' = Unarchived
    BY <1>4, SameUnarchived DEF SyncDone
  <2>2. CASE by = "watch"
    <3>1. mode = "idle" => notified \/ Unarchived = {}
      BY <1>4, <2>2 DEF SyncDone
    <3> QED
      BY <1>4, <2>1, <2>2, <3>1 DEF SyncDone
  <2>3. CASE by # "watch"
    BY <1>4, <2>1, <2>3 DEF SyncDone
  <2> QED
    BY <2>2, <2>3
<1>5. CASE CliSync
  <2>1. Unarchived' = Unarchived
    BY <1>5, SameUnarchived DEF CliSync
  <2> QED
    BY <1>5, <2>1 DEF CliSync, Lock
<1> QED
    BY <1>1, <1>2, <1>3, <1>4, <1>5 DEF Sync

LEMMA WatcherWatch ==
    ASSUME TypeOK, WatchInv, Watcher \/ IdleRejected \/ ConnectionLost \/ WatchStops
    PROVE  WatchInv'
<1> USE DEF WatchInv, LockIsHeld, ModeOfPc, SyncIsPending, SyncCoversSearch, WindowCovers, ArmCovers,
            signals, run, Goto
<1>0. Unarchived' = Unarchived
    BY SameUnarchived DEF Watcher, WatchBegin, Open, Backoff, Arm, WatchSync, WatchBusy, Refresh,
       Listen, Burst, IdleRejected, ConnectionLost, WatchStops
<1>1. CASE WatchBegin
    BY <1>0, <1>1 DEF WatchBegin
<1>2. CASE Open
    BY <1>0, <1>2 DEF Open
<1>3. CASE Backoff
    BY <1>0, <1>3 DEF Backoff
<1>4. CASE Arm
    BY <1>0, <1>4 DEF Arm
<1>5. CASE WatchSync
    BY <1>0, <1>5 DEF WatchSync, WantsSync, Lock
<1>6. CASE WatchBusy
    BY <1>0, <1>6 DEF WatchBusy, WantsSync, After
<1>7. CASE Refresh
    BY <1>0, <1>7 DEF Refresh, After, TypeOK
<1>8. CASE Listen
    BY <1>0, <1>8 DEF Listen
<1>9. CASE Burst
    BY <1>0, <1>9 DEF Burst
<1>10. CASE IdleRejected \/ ConnectionLost
    BY <1>0, <1>10 DEF IdleRejected, ConnectionLost
<1>11. CASE WatchStops
    BY <1>0, <1>11 DEF WatchStops, Release
<1> QED
    BY <1>1, <1>2, <1>3, <1>4, <1>5, <1>6, <1>7, <1>8, <1>9, <1>10, <1>11 DEF Watcher

LEMMA NextWatch == TypeOK /\ WatchInv /\ [Next]_vars => WatchInv'
<1> SUFFICES ASSUME TypeOK, WatchInv, [Next]_vars
             PROVE  WatchInv'
    OBVIOUS
<1> USE DEF WatchInv, LockIsHeld, ModeOfPc, SyncIsPending, SyncCoversSearch, WindowCovers, ArmCovers,
            signals, run
<1>1. CASE Arrive
  <2>1. UNCHANGED <<pc, mode, pending, sync, by, todo>>
    BY <1>1 DEF Arrive
  <2>2. CASE Idling
    <3>1. notified' = TRUE /\ pc # "arm"
      BY <1>1, <2>2 DEF Arrive, Idling
    <3> QED
      BY <2>1, <3>1
  <2>3. CASE ~Idling
    <3>1. Unarchived' \subseteq Unarchived /\ UNCHANGED notified
      BY <1>1, <2>3 DEF Arrive, Unarchived
    <3> QED
      BY <2>1, <3>1
  <2> QED
    BY <2>2, <2>3
<1>2. CASE Expunge
  <2>1. UNCHANGED <<pc, mode, pending, sync, by, todo>> /\ (notified => notified')
    BY <1>2 DEF Expunge
  <2>2. Unarchived' \subseteq Unarchived
    BY <1>2 DEF Expunge, Unarchived
  <2> QED
    BY <2>1, <2>2
<1>3. CASE Recreate
  <2>1. Unarchived' = {}
    BY <1>3 DEF Recreate, Unarchived
  <2> QED
    BY <1>3, <2>1 DEF Recreate
<1>4. CASE Tick
  <2>1. Unarchived' = Unarchived
    BY <1>4, SameUnarchived DEF Tick
  <2> QED
    BY <1>4, <2>1 DEF Tick
<1>5. CASE UNCHANGED vars
  <2>1. Unarchived' = Unarchived
    BY <1>5, SameUnarchived DEF vars
  <2> QED
    BY <1>5, <2>1 DEF vars
<1> QED
    BY <1>1, <1>2, <1>3, <1>4, <1>5, SyncWatch, WatcherWatch DEF Next, Faults

\* Arm before sync, and keep pending until a sync succeeds: nothing that was announced is
\* forgotten by the next round of the watcher (fastpath.py, _run_idle), for any number of
\* messages, recreated mailboxes, failures, crashes and syncs started by hand.
THEOREM AnnouncedIsNotLost == Spec => []NoNotificationLost
<1>1. WatchInv => NoNotificationLost
    BY DEF WatchInv, ArmCovers, Unarchived, NoNotificationLost
<1> QED
    BY <1>1, InitWatch, NextWatch, TypeCorrect, PTL DEF Spec

=============================================================================
