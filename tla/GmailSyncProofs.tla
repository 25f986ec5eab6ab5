-------------------------- MODULE GmailSyncProofs ---------------------------
(***************************************************************************)
(* Proofs about Gmail acquisition (GmailSync), for any number of messages, *)
(* mailbox changes, failures and pages: remote_present=0 is only recorded  *)
(* of a message that left the provider, and a stored checkpoint never runs *)
(* ahead of the rows.                                                      *)
(***************************************************************************)
EXTENDS GmailSync, WellFoundedInduction, SequenceTheorems, TLAPS

Events == [msg : Msgs, kind : {"added", "label", "deleted"}]

\* The messages with a history record after position h.
Later(h) == {log[i].msg : i \in (h + 1)..Len(log)}

\* The row of a message says what the provider says.
Exact(m) ==
    /\ m \in present <=> m \in Here
    /\ m \in Here => m \in linked /\ (m \in labels <=> m \in labelled)

-----------------------------------------------------------------------------
(* The inductive invariant.                                                *)

\* What is or was on the provider has a history record.
Recorded == \A m \in Msgs : server[m] # "unborn" => \E i \in 1..Len(log) : log[i].msg = m

\* No position runs ahead of the history.
TypeInv ==
    /\ TypeOK
    /\ Recorded
    /\ pc \in {"scan", "history", "apply"} => start <= Len(log)
    /\ pc \in {"history", "apply"} => start <= pos /\ pos <= Len(log)

\* The provider's history and the rows agree on what once existed.
LogInv ==
    /\ \A i \in 1..Len(log) : log[i].kind = "deleted" => server[log[i].msg] = "gone"
    /\ \A m \in linked : server[m] # "unborn"
    /\ labels # {} => catalogue

\* A partial synchronisation works on a checkpoint that is good; a full one makes up for one
\* that is not.
OpInv ==
    pc # "idle" =>
        IF op = "partial"
        THEN pc \in {"history", "apply"} /\ start = historyId /\ historyId # NoId /\ ~fullRequired
        ELSE fullRequired \/ historyId = NoId

\* What has been read of the history since the starting position.
ReadInv ==
    /\ pc \in {"history", "apply"} =>
          /\ affected = {log[i].msg : i \in (start + 1)..pos}
          /\ \A m \in deleted : server[m] = "gone"
    /\ pc = "apply" => todo \subseteq affected

\* What the pages listed is what is there, as far as nothing happened to it since the anchor.
ScanInv ==
    pc = "scan" =>
        /\ todo \subseteq seen
        /\ \A m \in Msgs \ Later(start) :
              /\ m \in seen => m \in Here
              /\ m \in Here /\ m >= cursor => m \in seen
              /\ m \in seen \ todo => Exact(m)

ScannedInv ==
    pc \in {"history", "apply"} /\ op # "partial" =>
        \A m \in Msgs \ Later(start) : (m \in seen <=> m \in Here) /\ (m \in Here => Exact(m))

\* What the catch-up has reconciled stays exact until the provider reports a new change.
AppliedInv == pc = "apply" => \A m \in affected \ (todo \cup Later(pos)) : Exact(m)

\* A known message that is still there has been listed, or is about to be.
ListedInv ==
    \A m \in linked : m \in Here =>
        /\ pc = "scan" /\ m >= cursor => m \in seen
        /\ pc \in {"history", "apply"} /\ op # "partial" => m \in seen \cup affected

\* MirrorIsExact, as the proofs use it.
ExactInv == historyId # NoId /\ ~fullRequired => \A m \in Msgs \ Later(historyId) : Exact(m)

MirrorInv ==
    /\ LogInv /\ OpInv /\ ReadInv /\ ScanInv /\ ScannedInv /\ AppliedInv /\ ListedInv
    /\ AbsenceIsReal /\ ExactInv

-----------------------------------------------------------------------------
(* Extrema and the history.                                                *)

LEMMA LeastExists ==
  ASSUME NEW S \in SUBSET Nat, S # {}
  PROVE  \E x \in S : \A y \in S : x <= y
<1> DEFINE R == OpToRel(<, Nat)
<1>1. IsWellFoundedOn(R, Nat)
  BY NatLessThanWellFounded
<1>2. \A x, y \in Nat : y < x => <<y, x>> \in R
  BY DEF OpToRel
<1> HIDE DEF R
<1>3. PICK x \in S : \A y \in S : ~(<<y, x>> \in R)
  BY <1>1, WFMin
<1>4. \A y \in S : ~(y < x)
  BY <1>2, <1>3
<1>5. x \in Nat /\ \A y \in S : y \in Nat
  OBVIOUS
<1> HIDE <1>2, <1>3
<1>6. \A y \in S : x <= y
  BY <1>4, <1>5
<1> QED BY <1>6

LEMMA MinIsMember ==
  ASSUME NEW S \in SUBSET Nat, S # {}
  PROVE  Min(S) \in S
  BY LeastExists DEF Min

LEMMA MaxIsMember ==
  ASSUME NEW n \in Nat, NEW S \in SUBSET (0..n), S # {}
  PROVE  Max(S) \in S
<1> DEFINE T == {n - x : x \in S}
<1>0. n \in Int /\ \A x \in S : x \in Int /\ 0 <= x /\ x <= n
  OBVIOUS
<1>1. T \subseteq Nat
  <2>1. \A x \in S : n - x \in Nat
    BY <1>0
  <2> QED BY <2>1
<1>2. T # {}
  OBVIOUS
<1>3. PICK t \in T : \A y \in T : t <= y
  BY <1>1, <1>2, LeastExists
<1>4. PICK x \in S : t = n - x
  BY <1>3
<1>5. \A y \in S : x >= y
  <2> SUFFICES ASSUME NEW y \in S
               PROVE  x >= y
    OBVIOUS
  <2>1. n - y \in T
    OBVIOUS
  <2>2. n - x <= n - y
    BY <1>3, <1>4, <2>1
  <2>3. n \in Int /\ x \in Int /\ y \in Int
    BY <1>0
  <2> HIDE DEF T
  <2> QED BY <2>2, <2>3
<1> QED BY <1>5 DEF Max

LEMMA LogAppend ==
  ASSUME log \in Seq(Events), NEW m \in Msgs, NEW k \in {"added", "label", "deleted"},
         log' = Append(log, [msg |-> m, kind |-> k])
  PROVE  /\ log' \in Seq(Events) /\ Len(log') = Len(log) + 1 /\ Len(log) \in Nat
         /\ \A i \in 1..Len(log) : log'[i] = log[i]
         /\ log'[Len(log) + 1] = [msg |-> m, kind |-> k]
  BY DEF Events

LEMMA EventType ==
  ASSUME MailboxTypeOK, NEW i \in 1..Len(log)
  PROVE  log[i].msg \in Msgs /\ log[i].kind \in {"added", "label", "deleted"}
<1>1. log \in Seq(Events)
  BY DEF MailboxTypeOK, Events
<1>2. log[i] \in Events
  BY <1>1
<1> QED BY <1>2 DEF Events

\* A record is later than every position reached before it.
LEMMA LaterGrows ==
  ASSUME log \in Seq(Events), NEW m \in Msgs, NEW k \in {"added", "label", "deleted"},
         log' = Append(log, [msg |-> m, kind |-> k]), NEW h \in 0..Len(log)
  PROVE  {log'[i].msg : i \in (h + 1)..Len(log')} = Later(h) \cup {m}
<1>1. /\ Len(log') = Len(log) + 1 /\ Len(log) \in Nat
      /\ \A i \in 1..Len(log) : log'[i] = log[i]
      /\ log'[Len(log) + 1].msg = m
  BY LogAppend
<1>2. \A i \in (h + 1)..Len(log') : i \in (h + 1)..Len(log) \/ i = Len(log) + 1
  BY <1>1
<1>3. \A i \in (h + 1)..Len(log) : i \in 1..Len(log) /\ i \in (h + 1)..Len(log')
  BY <1>1
<1>4. Len(log) + 1 \in (h + 1)..Len(log')
  BY <1>1
<1> QED BY <1>1, <1>2, <1>3, <1>4 DEF Later

-----------------------------------------------------------------------------
(* Types.                                                                  *)

LEMMA InitType == Init => TypeInv
<1> SUFFICES ASSUME Init
             PROVE  TypeInv
  OBVIOUS
<1>1. log = <<>> /\ Len(log) = 0 /\ log \in Seq([msg : Msgs, kind : {"added", "label", "deleted"}])
  BY DEF Init
<1>2. MailboxTypeOK
  BY <1>1, GmailAssumption DEF Init, MailboxTypeOK
<1>3. RowsTypeOK
  BY <1>1 DEF Init, RowsTypeOK
<1>4. SyncTypeOK
  BY GmailAssumption DEF Init, SyncTypeOK, HistoryIds
<1> QED BY <1>1, <1>2, <1>3, <1>4 DEF TypeInv, TypeOK, Recorded, Init

\* Steps that leave the provider and its history alone.
LEMMA QuietType ==
  ASSUME TypeInv, UNCHANGED <<server, labelled, log, oldest>>, RowsTypeOK', SyncTypeOK',
         pc' \in {"scan", "history", "apply"} => start' <= Len(log),
         pc' \in {"history", "apply"} => start' <= pos' /\ pos' <= Len(log)
  PROVE  TypeInv'
<1>1. MailboxTypeOK'
  BY DEF TypeInv, TypeOK, MailboxTypeOK
<1>2. Recorded'
  BY DEF TypeInv, Recorded
<1> QED BY <1>1, <1>2 DEF TypeInv, TypeOK

\* What the end of a synchronisation, successful or not, leaves behind.
LEMMA LeaveType ==
  ASSUME SyncTypeOK, NEW next \in {"refresh", "head", "off"}, Leave(next), faults' \in 0..MaxFaults
  PROVE  SyncTypeOK' /\ pc' = "idle"
  BY GmailAssumption DEF SyncTypeOK, Leave, HistoryIds

LEMMA FailType ==
  ASSUME TypeInv, NEW next \in {"head", "off"}, Fail(next), faults' \in 0..MaxFaults
  PROVE  TypeInv'
<1>1. SyncTypeOK' /\ pc' = "idle"
  BY LeaveType DEF TypeInv, TypeOK, Fail
<1>2. RowsTypeOK' /\ UNCHANGED <<server, labelled, log, oldest>>
  BY DEF TypeInv, TypeOK, RowsTypeOK, Fail, provider, rows, index
<1> QED BY <1>1, <1>2, QuietType

LEMMA HereType == Here \subseteq Msgs /\ Msgs \subseteq 0..N /\ N \in Nat
  BY GmailAssumption DEF Here, Msgs

LEMMA SyncBeginType ==
  ASSUME TypeInv, NEW who \in {"watch", "cli"}, SyncBegin(who),
         watch' \in {"off", "head", "poll", "sync", "refresh"}, faults' \in 0..MaxFaults
  PROVE  TypeInv'
<1> USE DEF TypeInv, TypeOK
<1>1. RowsTypeOK' /\ UNCHANGED <<server, labelled, log, oldest>>
  BY DEF RowsTypeOK, SyncBegin, RefreshLabels, provider, checkpoint, index
<1>2. CASE pc' = "anchor"
  <2>1. SyncTypeOK'
    BY <1>2 DEF SyncTypeOK, SyncBegin, ReplayFrom
  <2> QED BY <1>1, <1>2, <2>1, QuietType
<1>3. CASE pc' # "anchor"
  <2>1. /\ historyId \in 0..Len(log) /\ start' = historyId /\ pos' = historyId /\ pc' = "history"
        /\ affected' = {} /\ deleted' = {} /\ todo' = {} /\ op' = "partial" /\ by' = who
        /\ UNCHANGED <<cursor, seen, log>>
    BY <1>3 DEF SyncBegin, ReplayFrom, RowsTypeOK, provider
  <2>2. historyId \in HistoryIds /\ Len(log) \in Nat
    BY <2>1, GmailAssumption DEF MailboxTypeOK, HistoryIds
  <2>3. SyncTypeOK'
    BY <2>1, <2>2 DEF SyncTypeOK
  <2>4. start' <= Len(log) /\ start' <= pos' /\ pos' <= Len(log)
    BY <2>1, <2>2
  <2> QED BY <1>1, <2>3, <2>4, QuietType
<1> QED BY <1>2, <1>3

LEMMA LastEventType ==
  ASSUME TypeInv, NEW m \in Here
  PROVE  LastEvent(m) \in 1..Len(log)
<1>1. Len(log) \in Nat
  BY DEF TypeInv, TypeOK, MailboxTypeOK
<1>2. {i \in 1..Len(log) : log[i].msg = m} # {}
  BY DEF TypeInv, Recorded, Here
<1>3. {i \in 1..Len(log) : log[i].msg = m} \subseteq 0..Len(log)
  BY <1>1
<1> QED BY <1>1, <1>2, <1>3, MaxIsMember DEF LastEvent

LEMMA ReconcileType ==
  ASSUME TypeInv, NEW m \in Msgs, Reconcile(m)
  PROVE  TypeInv'
<1>1. /\ indexed' \subseteq linked' /\ indexPending' = indexPending
      /\ faults' = faults \/ (faults < MaxFaults /\ faults' = faults + 1)
  BY DEF TypeInv, TypeOK, RowsTypeOK, Reconcile, RefreshAfterClassification
<1>2. RowsTypeOK'
  BY <1>1 DEF TypeInv, TypeOK, RowsTypeOK, Reconcile, checkpoint, provider
<1>3. faults' \in 0..MaxFaults
  BY <1>1, GmailAssumption DEF TypeInv, TypeOK, SyncTypeOK
<1>4. SyncTypeOK'
  BY <1>3 DEF TypeInv, TypeOK, SyncTypeOK, Reconcile
<1> QED BY <1>2, <1>4, QuietType DEF TypeInv, Reconcile, provider

LEMMA SyncType ==
  ASSUME TypeInv, Sync
  PROVE  TypeInv'
<1> USE DEF TypeInv, TypeOK, provider, rows, checkpoint, index
<1>0. Len(log) \in Nat /\ faults \in 0..MaxFaults
  BY DEF MailboxTypeOK, SyncTypeOK
<1>1. ASSUME NEW m, NotFound(m)
      PROVE  TypeInv'
  BY <1>0, <1>1, FailType DEF NotFound
<1>2. CASE PreScanList
  <2>1. CASE Here = {}
    <3>1. Leave("refresh") /\ UNCHANGED faults
      BY <1>2, <2>1 DEF PreScanList, Succeed
    <3>2. SyncTypeOK' /\ pc' = "idle"
      BY <1>0, <3>1, LeaveType
    <3>3. RowsTypeOK'
      BY <1>2, <2>1 DEF PreScanList, RowsTypeOK
    <3> QED BY <1>2, <3>2, <3>3, QuietType DEF PreScanList
  <2>2. CASE Here # {}
    <3>1. Max(Here) \in Here
      BY <2>2, HereType, MaxIsMember
    <3>2. Max(Here) \in 0..(N + 1)
      <4>1. \A m \in 0..N : m \in 0..(N + 1)
        BY HereType
      <4> QED BY <3>1, <4>1, HereType
    <3>3. SyncTypeOK'
      BY <1>2, <2>2, <3>2 DEF PreScanList, SyncTypeOK
    <3>4. RowsTypeOK' /\ pc' = "get"
      BY <1>2, <2>2 DEF PreScanList, RowsTypeOK
    <3> QED BY <1>2, <3>3, <3>4, QuietType DEF PreScanList
  <2> QED BY <2>1, <2>2
<1>3. CASE PreScanGet
  <2>1. CASE cursor \notin Here
    BY <1>1, <1>3, <2>1 DEF PreScanGet
  <2>2. CASE cursor \in Here
    <3>1. /\ start' = LastEvent(cursor) /\ pc' = "scan" /\ cursor' = N + 1 /\ seen' = {} /\ todo' = {}
          /\ UNCHANGED <<server, labelled, log, oldest, linked, present, labels, catalogue, historyId,
                         fullRequired, by, op, pos, affected, deleted, watch, indexed, indexPending, faults>>
      BY <1>3, <2>2 DEF PreScanGet, NotFound
    <3>2. start' \in 1..Len(log) /\ start' \in HistoryIds
      BY <1>0, <2>2, <3>1, LastEventType, GmailAssumption DEF MailboxTypeOK, HistoryIds
    <3>3. cursor' \in 0..(N + 1) /\ start' <= Len(log)
      BY <1>0, <3>1, <3>2, GmailAssumption
    <3>4. SyncTypeOK' /\ RowsTypeOK'
      BY <3>1, <3>2, <3>3 DEF SyncTypeOK, RowsTypeOK
    <3> QED BY <3>1, <3>3, <3>4, QuietType
  <2> QED BY <2>1, <2>2
<1>4. CASE ScanPage
  <2>1. PICK k \in 0..(cursor - 1) :
           /\ todo' \subseteq Msgs /\ seen' \subseteq Msgs
           /\ cursor' = 0 \/ cursor' = k + 1
    BY <1>4, HereType DEF ScanPage, SyncTypeOK
  <2>2. cursor' \in 0..(N + 1)
    BY <1>4, <2>1, GmailAssumption DEF ScanPage, SyncTypeOK
  <2>3. SyncTypeOK' /\ RowsTypeOK'
    BY <1>4, <2>1, <2>2 DEF ScanPage, SyncTypeOK, RowsTypeOK
  <2> QED BY <1>4, <2>3, QuietType DEF ScanPage
<1>5. CASE FetchListed
  <2>1. Max(todo) \in Msgs
    <3>1. todo \subseteq Msgs /\ todo # {}
      BY <1>5 DEF FetchListed, SyncTypeOK
    <3> QED BY <3>1, HereType, MaxIsMember
  <2> QED BY <1>1, <1>5, <2>1, ReconcileType DEF FetchListed
<1>6. CASE ScanEnds
  <2>1. /\ pc = "scan" /\ pc' = "history" /\ start' = start /\ pos' = start
        /\ affected' = {} /\ deleted' = {} /\ todo' = {}
        /\ UNCHANGED <<server, labelled, log, oldest, linked, present, labels, catalogue, historyId,
                       fullRequired, by, op, cursor, seen, watch, indexed, indexPending, faults>>
    BY <1>6 DEF ScanEnds, ReplayFrom
  <2>2. SyncTypeOK' /\ RowsTypeOK'
    BY <2>1 DEF SyncTypeOK, RowsTypeOK
  <2>3. start <= start
    BY DEF SyncTypeOK, HistoryIds
  <2> QED BY <2>1, <2>2, <2>3, QuietType
<1>7. CASE HistoryPage
  <2>1. PICK j \in pos..Len(log) :
           /\ affected' = affected \cup {r.msg : r \in {log[i] : i \in (pos + 1)..j}}
           /\ deleted' \subseteq deleted \cup {r.msg : r \in {log[i] : i \in (pos + 1)..j}}
           /\ pos' = j
           /\ \/ pc' = "apply" /\ todo' = affected'
              \/ UNCHANGED <<pc, todo>>
    BY <1>7 DEF HistoryPage
  <2>2. start <= pos /\ pos \in Nat /\ start \in Nat /\ j \in Nat /\ j <= Len(log) /\ pos <= j /\ j \in HistoryIds
    BY <1>0, <1>7, <2>1, GmailAssumption DEF HistoryPage, SyncTypeOK, HistoryIds, MailboxTypeOK
  <2>3. \A i \in (pos + 1)..j : log[i].msg \in Msgs
    <3>1. \A i \in (pos + 1)..j : i \in 1..Len(log)
      BY <1>0, <2>2
    <3> QED BY <3>1, EventType
  <2>4. affected' \subseteq Msgs /\ deleted' \subseteq Msgs
    BY <2>1, <2>3 DEF SyncTypeOK
  <2>5. SyncTypeOK'
    BY <1>7, <2>1, <2>2, <2>4 DEF HistoryPage, SyncTypeOK
  <2>6. RowsTypeOK'
    BY <1>7 DEF HistoryPage, RowsTypeOK
  <2>7. start' = start /\ UNCHANGED <<server, labelled, log, oldest>>
    BY <1>7 DEF HistoryPage
  <2>8. start' <= Len(log) /\ start' <= pos' /\ pos' <= Len(log)
    BY <1>0, <2>1, <2>2, <2>7
  <2> QED BY <2>5, <2>6, <2>7, <2>8, QuietType
<1>8. CASE HistoryExpired
  <2>1. CASE op = "expired"
    BY <1>0, <1>8, <2>1, FailType DEF HistoryExpired
  <2>2. CASE op # "expired"
    <3>1. SyncTypeOK' /\ RowsTypeOK' /\ pc' = "anchor" /\ UNCHANGED <<server, labelled, log, oldest>>
      BY <1>8, <2>2 DEF HistoryExpired, SyncTypeOK, RowsTypeOK
    <3> QED BY <3>1, QuietType
  <2> QED BY <2>1, <2>2
<1>9. CASE ApplyAffected
  <2>1. Min(todo) \in Msgs
    <3>1. todo \subseteq Msgs /\ todo # {}
      BY <1>9 DEF ApplyAffected, SyncTypeOK
    <3>2. todo \in SUBSET Nat
      BY <3>1, HereType
    <3> QED BY <3>1, <3>2, MinIsMember
  <2>2. ASSUME NEW m \in Msgs, ApplyDeletion(m)
        PROVE  TypeInv'
    <3>1. SyncTypeOK' /\ RowsTypeOK'
      BY <2>2 DEF ApplyDeletion, SyncTypeOK, RowsTypeOK
    <3> QED BY <2>2, <3>1, QuietType DEF ApplyDeletion
  <2> QED BY <1>1, <1>9, <2>1, <2>2, ReconcileType DEF ApplyAffected
<1>10. CASE Finish
  <2>1. Leave("refresh") /\ UNCHANGED faults
    BY <1>10 DEF Finish, CommitCheckpoint, Succeed
  <2>2. SyncTypeOK' /\ pc' = "idle"
    BY <1>0, <2>1, LeaveType
  <2>3. pos \in 0..Len(log)
    BY <1>0, <1>10 DEF Finish, SyncTypeOK, HistoryIds
  <2>4. RowsTypeOK'
    BY <1>10, <2>3 DEF Finish, CommitCheckpoint, RowsTypeOK
  <2> QED BY <1>10, <2>2, <2>4, QuietType DEF Finish
<1> QED BY <1>2, <1>3, <1>4, <1>5, <1>6, <1>7, <1>8, <1>9, <1>10 DEF Sync

\* One more history record.
LEMMA RecordType ==
  ASSUME TypeInv, NEW m \in Msgs, NEW k \in {"added", "label", "deleted"}, Record(m, k),
         server' \in [Msgs -> {"unborn", "here", "gone"}], labelled' \subseteq Msgs,
         \A n \in Msgs : n # m => server'[n] = server[n]
  PROVE  TypeInv'
<1> USE DEF TypeInv, TypeOK
<1>1. /\ Len(log) < MaxEvents /\ Len(log) \in Nat
      /\ log' = Append(log, [msg |-> m, kind |-> k])
      /\ UNCHANGED <<oldest, linked, present, labels, catalogue, historyId, fullRequired, pc, by,
                     op, start, pos, cursor, seen, affected, deleted, todo, watch, indexed,
                     indexPending, faults>>
  BY DEF MailboxTypeOK, Record, rows, checkpoint, locals, index
<1>2. /\ log' \in Seq(Events) /\ Len(log') = Len(log) + 1
      /\ \A i \in 1..Len(log) : log'[i] = log[i]
      /\ log'[Len(log) + 1].msg = m
  BY <1>1, LogAppend DEF MailboxTypeOK, Events
<1>3. Len(log') <= MaxEvents /\ \A h \in 0..Len(log) : h \in 0..Len(log')
  BY <1>1, <1>2, GmailAssumption
<1>4. MailboxTypeOK'
  BY <1>1, <1>2, <1>3 DEF MailboxTypeOK, Events
<1>5. RowsTypeOK'
  BY <1>1, <1>3 DEF RowsTypeOK, NoId
<1>6. SyncTypeOK'
  BY <1>1 DEF SyncTypeOK, HistoryIds
<1>7. Recorded'
  <2>1. Len(log) + 1 \in 1..Len(log') /\ \A i \in 1..Len(log) : i \in 1..Len(log')
    BY <1>1, <1>2
  <2> SUFFICES ASSUME NEW n \in Msgs, server'[n] # "unborn"
               PROVE  \E i \in 1..Len(log') : log'[i].msg = n
    BY DEF Recorded
  <2>2. CASE n = m
    BY <1>2, <2>1, <2>2
  <2>3. CASE n # m
    <3>1. PICK i \in 1..Len(log) : log[i].msg = n
      BY <2>3 DEF Recorded
    <3> QED BY <1>2, <2>1, <3>1
  <2> QED BY <2>2, <2>3
<1>8. start \in Nat /\ pos \in Nat
  BY DEF SyncTypeOK, HistoryIds
<1>9. start <= Len(log) => start <= Len(log')
  BY <1>1, <1>2, <1>8
<1>10. pos <= Len(log) => pos <= Len(log')
  BY <1>1, <1>2, <1>8
<1> QED BY <1>1, <1>4, <1>5, <1>6, <1>7, <1>9, <1>10

LEMMA MailboxType ==
  ASSUME TypeInv, Mailbox
  PROVE  TypeInv'
<1> USE DEF TypeInv, TypeOK
<1>1. CASE Arrive
  <2>1. PICK m \in Msgs : /\ server' = [server EXCEPT ![m] = "here"]
                          /\ Record(m, "added") /\ UNCHANGED labelled
    BY <1>1 DEF Arrive
  <2> QED BY <2>1, RecordType DEF MailboxTypeOK
<1>2. CASE Remove
  <2>1. PICK m \in Msgs : /\ server' = [server EXCEPT ![m] = "gone"]
                          /\ Record(m, "deleted") /\ UNCHANGED labelled
    BY <1>2, HereType DEF Remove
  <2> QED BY <2>1, RecordType DEF MailboxTypeOK
<1>3. CASE ChangeLabels
  <2>1. PICK m \in Msgs : /\ labelled' = IF m \in labelled THEN labelled \ {m} ELSE labelled \cup {m}
                          /\ Record(m, "label") /\ UNCHANGED server
    BY <1>3, HereType DEF ChangeLabels
  <2> QED BY <2>1, RecordType DEF MailboxTypeOK
<1>4. CASE Expire
  <2>1. Len(log) \in Nat /\ oldest \in 0..Len(log)
    BY DEF MailboxTypeOK
  <2>2. /\ oldest' \in 0..Len(log)
        /\ UNCHANGED <<server, labelled, log, linked, present, labels, catalogue, historyId,
                       fullRequired, pc, by, op, start, pos, cursor, seen, affected, deleted, todo,
                       watch, indexed, indexPending, faults>>
    BY <1>4, <2>1 DEF Expire, rows, checkpoint, locals, index
  <2>3. MailboxTypeOK' /\ RowsTypeOK' /\ SyncTypeOK'
    BY <2>2 DEF MailboxTypeOK, RowsTypeOK, SyncTypeOK
  <2>4. Recorded'
    BY <2>2 DEF Recorded
  <2> QED BY <2>2, <2>3, <2>4
<1> QED BY <1>1, <1>2, <1>3, <1>4 DEF Mailbox

\* The watcher's own steps between two synchronisations.
LEMMA LoopType ==
  ASSUME TypeInv, UNCHANGED <<provider, rows, checkpoint, pc, by, locals>>,
         watch' \in {"off", "head", "poll", "sync", "refresh"}, faults' \in 0..MaxFaults,
         indexed' \subseteq linked, indexPending' \in BOOLEAN
  PROVE  TypeInv'
<1>1. UNCHANGED <<server, labelled, log, oldest, linked, present, labels, catalogue, historyId,
                  fullRequired, pc, by, op, start, pos, cursor, seen, affected, deleted, todo>>
  BY DEF provider, rows, checkpoint, locals
<1>2. RowsTypeOK' /\ SyncTypeOK'
  BY <1>1 DEF TypeInv, TypeOK, RowsTypeOK, SyncTypeOK
<1> QED BY <1>1, <1>2, QuietType DEF TypeInv

LEMMA NextType ==
  ASSUME TypeInv, [Next]_vars
  PROVE  TypeInv'
<1>0. /\ faults \in 0..MaxFaults
      /\ faults < MaxFaults => faults + 1 \in 0..MaxFaults
      /\ indexed \subseteq linked /\ indexPending \in BOOLEAN
      /\ watch \in {"off", "head", "poll", "sync", "refresh"}
  <2>1. faults \in 0..MaxFaults
    BY DEF TypeInv, TypeOK, SyncTypeOK
  <2>2. faults < MaxFaults => faults + 1 \in 0..MaxFaults
    BY <2>1, GmailAssumption
  <2> QED BY <2>1, <2>2 DEF TypeInv, TypeOK, SyncTypeOK, RowsTypeOK
<1>1. CASE Sync
  BY <1>1, SyncType
<1>2. ASSUME NEW next \in {"poll", "head"}, Refresh(next)
      PROVE  TypeInv'
  BY <1>0, <1>2, LoopType DEF Refresh
<1>3. CASE WatchBegin
  BY <1>0, <1>3, LoopType DEF WatchBegin, index
<1>4. CASE WatchHead
  BY <1>0, <1>2, <1>4, LoopType DEF WatchHead, index
<1>5. CASE WatchPoll
  BY <1>0, <1>5, SyncBeginType DEF WatchPoll
<1>6. CASE WatchBusy
  BY <1>0, <1>6, LoopType DEF WatchBusy, index
<1>7. CASE WatchRefresh
  BY <1>2, <1>7 DEF WatchRefresh
<1>8. CASE CliSync
  BY <1>0, <1>8, SyncBeginType DEF CliSync
<1>9. CASE SyncFails
  BY <1>0, <1>9, FailType DEF SyncFails
<1>10. CASE WatchStops
  <2>1. faults' \in 0..MaxFaults /\ UNCHANGED <<provider, rows, checkpoint, index>>
    BY <1>0, <1>10 DEF WatchStops
  <2>2. CASE UNCHANGED <<pc, by, locals>> /\ watch' = "off"
    BY <1>0, <2>1, <2>2, LoopType DEF index
  <2>3. CASE Leave("off")
    <3>1. SyncTypeOK' /\ pc' = "idle"
      BY <2>1, <2>3, LeaveType DEF TypeInv, TypeOK
    <3>2. RowsTypeOK' /\ UNCHANGED <<server, labelled, log, oldest>>
      BY <2>1 DEF TypeInv, TypeOK, RowsTypeOK, provider, rows, checkpoint, index
    <3> QED BY <3>1, <3>2, QuietType
  <2> QED BY <1>10, <2>2, <2>3 DEF WatchStops
<1>11. CASE Mailbox
  BY <1>11, MailboxType
<1>12. CASE UNCHANGED vars
  BY <1>0, <1>12, LoopType DEF vars, index
<1> QED
  BY <1>1, <1>3, <1>4, <1>5, <1>6, <1>7, <1>8, <1>9, <1>10, <1>11, <1>12 DEF Next, Watcher

-----------------------------------------------------------------------------
(* Rows and provider.                                                      *)

LEMMA InitMirror == Init => MirrorInv
<1> SUFFICES ASSUME Init
             PROVE  MirrorInv
  OBVIOUS
<1>1. log = <<>> /\ Len(log) = 0
  BY DEF Init
<1>2. LogInv
  BY <1>1 DEF Init, LogInv
<1> QED BY <1>2 DEF MirrorInv, OpInv, ReadInv, ScanInv, ScannedInv, AppliedInv, ListedInv,
                   AbsenceIsReal, ExactInv, Init

\* A synchronisation that ends without a new checkpoint.
LEMMA EndsMirror ==
  ASSUME MirrorInv, pc' = "idle",
         UNCHANGED <<server, labelled, log, linked, present, labels, catalogue>>,
         historyId' # NoId /\ ~fullRequired' => historyId' = historyId /\ ~fullRequired
  PROVE  MirrorInv'
<1> USE DEF MirrorInv
<1>1. LogInv' /\ AbsenceIsReal'
  BY DEF LogInv, AbsenceIsReal
<1>2. ExactInv'
  BY DEF ExactInv, Exact, Later, Here, NoId
<1> QED BY <1>1, <1>2 DEF OpInv, ReadInv, ScanInv, ScannedInv, AppliedInv, ListedInv

LEMMA FailMirror ==
  ASSUME MirrorInv, NEW next, Fail(next)
  PROVE  MirrorInv'
  BY EndsMirror DEF Fail, Leave, provider, rows

\* Steps that touch neither the mailbox nor the synchronisation.
LEMMA QuietMirror ==
  ASSUME MirrorInv,
         UNCHANGED <<server, labelled, log, linked, present, labels, catalogue, historyId,
                     fullRequired, pc, op, start, pos, cursor, seen, affected, deleted, todo>>
  PROVE  MirrorInv'
<1> USE DEF MirrorInv
<1>1. LogInv' /\ AbsenceIsReal' /\ OpInv' /\ ReadInv'
  BY DEF LogInv, AbsenceIsReal, OpInv, ReadInv
<1>2. ScanInv'
  BY DEF ScanInv, Exact, Later, Here
<1>3. ScannedInv'
  BY DEF ScannedInv, Exact, Later, Here
<1>4. AppliedInv'
  BY DEF AppliedInv, Exact, Later, Here
<1>5. ListedInv' /\ ExactInv'
  BY DEF ListedInv, ExactInv, Exact, Later, Here, NoId
<1> QED BY <1>1, <1>2, <1>3, <1>4, <1>5

\* The control point moves on and the rows stay as they are, but for the label set.
LEMMA MovesMirror ==
  ASSUME MirrorInv, UNCHANGED <<server, labelled, log, linked, present, labels, historyId>>,
         fullRequired' = fullRequired \/ fullRequired' = TRUE, catalogue => catalogue'
  PROVE  LogInv' /\ AbsenceIsReal' /\ ExactInv'
<1> USE DEF MirrorInv
<1>1. LogInv' /\ AbsenceIsReal'
  BY DEF LogInv, AbsenceIsReal
<1>2. ExactInv'
  BY DEF ExactInv, Exact, Later, Here, NoId
<1> QED BY <1>1, <1>2

LEMMA SyncBeginMirror ==
  ASSUME TypeInv, MirrorInv, NEW who, SyncBegin(who)
  PROVE  MirrorInv'
<1> USE DEF MirrorInv
<1>1. /\ UNCHANGED <<server, labelled, log, linked, present, labels, historyId, fullRequired>>
      /\ catalogue => catalogue'
  BY DEF SyncBegin, RefreshLabels, provider, checkpoint
<1>2. LogInv' /\ AbsenceIsReal' /\ ExactInv'
  BY <1>1, MovesMirror
<1>3. CASE fullRequired \/ historyId = NoId
  <2>1. pc' = "anchor" /\ op' = "full"
    BY <1>3 DEF SyncBegin
  <2> QED BY <1>1, <1>2, <1>3, <2>1
          DEF OpInv, ReadInv, ScanInv, ScannedInv, AppliedInv, ListedInv, NoId
<1>4. CASE ~(fullRequired \/ historyId = NoId)
  <2>1. /\ pc' = "history" /\ op' = "partial" /\ start' = historyId /\ pos' = historyId
        /\ affected' = {} /\ deleted' = {}
    BY <1>4 DEF SyncBegin, ReplayFrom
  <2>2. historyId \in Nat
    BY <1>4 DEF TypeInv, TypeOK, RowsTypeOK, MailboxTypeOK
  <2>3. (historyId + 1)..historyId = {}
    BY <2>2
  <2>4. {log'[i].msg : i \in (start' + 1)..pos'} = {}
    BY <2>1, <2>3
  <2>5. ReadInv'
    BY <2>1, <2>4 DEF ReadInv
  <2> QED BY <1>1, <1>2, <1>4, <2>1, <2>5
          DEF OpInv, ScanInv, ScannedInv, AppliedInv, ListedInv, NoId
<1> QED BY <1>3, <1>4

\* The row of the message that is next in the work list now says what the provider says.
LEMMA RowMirror ==
  ASSUME TypeInv, MirrorInv, pc \in {"scan", "apply"}, NEW m \in todo, todo' = todo \ {m},
         UNCHANGED <<server, labelled, log, historyId, fullRequired, pc, op, start, pos, cursor,
                     seen, affected, deleted>>,
         linked \subseteq linked', linked' \subseteq linked \cup {m}, Exact(m)',
         \A n \in Msgs : n # m => /\ n \in present' <=> n \in present
                                  /\ n \in labels' <=> n \in labels,
         m \in linked' => server[m] # "unborn",
         m \in linked' \ present' => server[m] = "gone",
         labels' # {} => catalogue'
  PROVE  MirrorInv'
<1> USE DEF MirrorInv
<1>1. LogInv' /\ OpInv' /\ ReadInv'
  BY DEF LogInv, OpInv, ReadInv, NoId
<1>2. AbsenceIsReal'
  <2>1. linked' \subseteq Msgs
    BY DEF TypeInv, TypeOK, RowsTypeOK, SyncTypeOK
  <2> QED BY <2>1 DEF AbsenceIsReal
<1>3. m \in Msgs /\ Here' = Here /\ \A n \in Msgs : Exact(n) => Exact(n)'
  BY DEF TypeInv, TypeOK, SyncTypeOK, Here, Later, Exact
<1>4. Later(start)' = Later(start) /\ Later(pos)' = Later(pos)
      /\ Later(historyId)' = Later(historyId)
  BY DEF Later
<1>5. ScanInv'
  BY <1>3, <1>4 DEF ScanInv
<1>6. ScannedInv'
  BY <1>3, <1>4 DEF ScannedInv
<1>7. AppliedInv'
  <2>1. affected \subseteq Msgs
    BY DEF TypeInv, TypeOK, SyncTypeOK
  <2> QED BY <1>3, <1>4, <2>1 DEF AppliedInv
<1>8. ListedInv'
  BY <1>3 DEF ListedInv, ScanInv, ReadInv
<1>9. ExactInv'
  BY <1>3, <1>4 DEF ExactInv, NoId
<1> QED BY <1>1, <1>2, <1>5, <1>6, <1>7, <1>8, <1>9

LEMMA ReconcileMirror ==
  ASSUME TypeInv, MirrorInv, pc \in {"scan", "apply"}, NEW m \in todo, Reconcile(m)
  PROVE  MirrorInv'
<1>1. /\ UNCHANGED <<server, labelled, log, historyId, fullRequired, pc, op, start, pos, cursor,
                     seen, affected, deleted>>
      /\ m \in Here /\ linked' = linked \cup {m} /\ present' = present \cup {m}
      /\ labels' = (IF m \in labelled THEN labels \cup {m} ELSE labels \ {m})
      /\ catalogue' = (catalogue \/ m \in labelled) /\ todo' = todo \ {m}
  BY DEF Reconcile, provider, checkpoint
<1>2. Exact(m)'
  BY <1>1 DEF Exact, Here
<1>3. labels' # {} => catalogue'
  BY <1>1 DEF MirrorInv, LogInv
<1>4. server[m] = "here"
  BY <1>1 DEF Here
<1> QED BY <1>1, <1>2, <1>3, <1>4, RowMirror

LEMMA ApplyDeletionMirror ==
  ASSUME TypeInv, MirrorInv, pc = "apply", NEW m \in todo, ApplyDeletion(m)
  PROVE  MirrorInv'
<1>1. /\ UNCHANGED <<server, labelled, log, historyId, fullRequired, pc, op, start, pos, cursor,
                     seen, affected, deleted, linked, labels, catalogue>>
      /\ m \in deleted /\ present' = present \ {m} /\ todo' = todo \ {m}
  BY DEF ApplyDeletion, provider, checkpoint
<1>2. server[m] = "gone"
  BY <1>1 DEF MirrorInv, ReadInv
<1>3. Exact(m)'
  BY <1>1, <1>2 DEF Exact, Here
<1>4. labels' # {} => catalogue'
  BY <1>1 DEF MirrorInv, LogInv
<1> QED BY <1>1, <1>2, <1>3, <1>4, RowMirror

\* What is listed on a page, and where the next one begins.
LEMMA ScanPageMirror ==
  ASSUME TypeInv, MirrorInv, ScanPage
  PROVE  MirrorInv'
<1> USE DEF MirrorInv
<1>1. /\ pc = "scan" /\ todo = {} /\ cursor \in 0..(N + 1) /\ N \in Nat
      /\ UNCHANGED <<server, labelled, log, linked, present, labels, catalogue, historyId,
                     fullRequired, pc, op, start, pos, affected, deleted>>
  BY GmailAssumption DEF ScanPage, TypeInv, TypeOK, SyncTypeOK, provider, rows, checkpoint
<1>2. PICK k \in 0..(cursor - 1) :
         /\ todo' = {m \in Here : k < m /\ m < cursor}
         /\ seen' = seen \cup todo'
         /\ cursor' = IF \A m \in Here : m > k THEN 0 ELSE k + 1
  BY DEF ScanPage
<1>3. LogInv' /\ AbsenceIsReal' /\ ExactInv'
  BY <1>1, MovesMirror
<1>4. Here \subseteq Msgs /\ Here' = Here /\ Later(start)' = Later(start)
  BY <1>1 DEF Here, Later
<1>5. \A m \in Here : m >= cursor' => m >= cursor \/ m \in todo'
  <2> SUFFICES ASSUME NEW m \in Here, m >= cursor', ~(m >= cursor)
               PROVE  m \in todo'
    OBVIOUS
  <2>1. m \in Nat /\ cursor \in Nat /\ k \in Nat
    BY <1>1, <1>2, HereType
  <2>2. m > k
    BY <1>2, <2>1
  <2>3. m < cursor
    BY <2>1
  <2> QED BY <1>2, <2>1, <2>2, <2>3
<1>6. todo' \subseteq seen' /\ todo' \subseteq Here /\ seen' \ todo' \subseteq seen
  BY <1>2
<1>7. \A m \in Msgs : Exact(m) => Exact(m)'
  BY <1>1, <1>4 DEF Exact
<1>8. ScanInv'
  BY <1>1, <1>2, <1>4, <1>5, <1>6, <1>7 DEF ScanInv
<1>9. ListedInv'
  BY <1>1, <1>2, <1>4, <1>5, <1>6 DEF ListedInv
<1> QED BY <1>1, <1>3, <1>8, <1>9 DEF OpInv, ReadInv, ScannedInv, AppliedInv, NoId

LEMMA ScanEndsMirror ==
  ASSUME TypeInv, MirrorInv, ScanEnds
  PROVE  MirrorInv'
<1> USE DEF MirrorInv
<1>1. /\ pc = "scan" /\ todo = {} /\ cursor = 0 /\ pc' = "history" /\ pos' = start
      /\ affected' = {} /\ deleted' = {}
      /\ UNCHANGED <<server, labelled, log, linked, present, labels, catalogue, historyId,
                     fullRequired, op, start, seen>>
  BY DEF ScanEnds, ReplayFrom, provider, rows, checkpoint
<1>2. LogInv' /\ AbsenceIsReal' /\ ExactInv'
  BY <1>1, MovesMirror
<1>3. Here' = Here /\ Later(start)' = Later(start) /\ \A m \in Msgs : Exact(m) => Exact(m)'
  BY <1>1 DEF Here, Later, Exact
<1>4. ReadInv'
  <2>1. (start + 1)..start = {}
    BY DEF TypeInv, TypeOK, SyncTypeOK, HistoryIds
  <2>2. {log'[i].msg : i \in (start' + 1)..pos'} = {}
    BY <1>1, <2>1
  <2> QED BY <1>1, <2>2 DEF ReadInv
<1>5. \A m \in Msgs : m >= cursor
  BY <1>1, GmailAssumption DEF Msgs
<1>6. ScannedInv'
  BY <1>1, <1>3, <1>5 DEF ScanInv, ScannedInv
<1>7. ListedInv'
  BY <1>1, <1>3, <1>5, HereType DEF ListedInv
<1>8. OpInv'
  BY <1>1 DEF OpInv, NoId
<1> QED BY <1>1, <1>2, <1>4, <1>6, <1>7, <1>8 DEF ScanInv, AppliedInv

\* The messages of a page of the history.
LEMMA HistoryPageMirror ==
  ASSUME TypeInv, MirrorInv, HistoryPage
  PROVE  MirrorInv'
<1> USE DEF MirrorInv
<1>1. /\ pc = "history"
      /\ UNCHANGED <<server, labelled, log, linked, present, labels, catalogue, historyId,
                     fullRequired, op, start, seen>>
  BY DEF HistoryPage, provider, rows, checkpoint
<1>2. PICK j \in pos..Len(log) :
         /\ affected' = affected \cup {r.msg : r \in {log[i] : i \in (pos + 1)..j}}
         /\ deleted' = deleted \cup {r.msg : r \in {q \in {log[i] : i \in (pos + 1)..j} :
                                                         q.kind = "deleted"}}
         /\ pos' = j
         /\ IF j = Len(log) THEN pc' = "apply" /\ todo' = affected' ELSE UNCHANGED <<pc, todo>>
  BY DEF HistoryPage
<1>3. /\ start \in Nat /\ pos \in Nat /\ j \in Nat /\ Len(log) \in Nat
      /\ start <= pos /\ pos <= j /\ j <= Len(log)
  BY <1>1, <1>2 DEF TypeInv, TypeOK, SyncTypeOK, MailboxTypeOK, HistoryIds
<1>4. LogInv' /\ AbsenceIsReal' /\ ExactInv'
  BY <1>1, MovesMirror
<1>5. Here' = Here /\ Later(start)' = Later(start) /\ \A m \in Msgs : Exact(m) => Exact(m)'
  BY <1>1 DEF Here, Later, Exact
<1>6. affected' = {log[i].msg : i \in (start + 1)..j}
  <2>1. \A i \in (start + 1)..j : i \in (start + 1)..pos \/ i \in (pos + 1)..j
    BY <1>3
  <2>2. /\ \A i \in (start + 1)..pos : i \in (start + 1)..j
        /\ \A i \in (pos + 1)..j : i \in (start + 1)..j
    BY <1>3
  <2>3. affected = {log[i].msg : i \in (start + 1)..pos}
    BY <1>1 DEF ReadInv
  <2> QED BY <1>2, <2>1, <2>2, <2>3
<1>7. \A m \in deleted' : server[m] = "gone"
  <2>1. \A i \in (pos + 1)..j : i \in 1..Len(log)
    BY <1>3
  <2> QED BY <1>1, <1>2, <2>1 DEF ReadInv, LogInv
<1>8. pc' \in {"history", "apply"} /\ (pc' = "apply" => todo' = affected')
  BY <1>1, <1>2
<1>9. ReadInv'
  BY <1>1, <1>2, <1>6, <1>7, <1>8 DEF ReadInv
<1>10. OpInv' /\ ScannedInv'
  BY <1>1, <1>5, <1>8 DEF OpInv, ScannedInv, NoId
<1>11. ListedInv'
  BY <1>1, <1>2, <1>5, <1>8 DEF ListedInv
<1> QED BY <1>4, <1>8, <1>9, <1>10, <1>11 DEF ScanInv, AppliedInv

\* The commit: what the replay covered is as the provider has it, and so is the rest, which
\* was listed (full) or good already at the old checkpoint (partial).
LEMMA FinishMirror ==
  ASSUME TypeInv, MirrorInv, Finish
  PROVE  MirrorInv'
<1> USE DEF MirrorInv
<1>1. /\ pc = "apply" /\ todo = {} /\ pc' = "idle" /\ historyId' = pos /\ fullRequired' = FALSE
      /\ present' = (IF op = "partial" THEN present ELSE present \cap FinalPresent)
      /\ UNCHANGED <<server, labelled, log, linked, labels, catalogue>>
  BY DEF Finish, CommitCheckpoint, Succeed, Leave, provider
<1>2. Here' = Here /\ Here \subseteq Msgs /\ \A m \in Here : m \notin deleted
  BY <1>1 DEF Here, ReadInv
<1>3. LogInv'
  BY <1>1 DEF LogInv
<1>4. AbsenceIsReal'
  <2> SUFFICES ASSUME NEW m \in linked, m \notin present'
               PROVE  server[m] = "gone"
    BY <1>1 DEF AbsenceIsReal
  <2>1. CASE m \notin present
    BY <2>1 DEF AbsenceIsReal
  <2>2. CASE m \in present
    <3>1. op # "partial" /\ m \notin FinalPresent
      BY <1>1, <2>2
    <3>2. m \notin Here
      BY <1>1, <1>2, <3>1 DEF ListedInv, FinalPresent
    <3>3. m \in Msgs /\ server[m] \in {"unborn", "here", "gone"}
      BY DEF TypeInv, TypeOK, RowsTypeOK, MailboxTypeOK
    <3> QED BY <3>2, <3>3 DEF Here, LogInv
  <2> QED BY <2>1, <2>2
<1>5. ASSUME NEW m \in Msgs, m \notin Later(pos)
      PROVE  Exact(m)'
  <2>1. CASE m \in affected
    <3>1. Exact(m)
      BY <1>1, <1>5, <2>1 DEF AppliedInv
    <3>2. m \in Here => m \in FinalPresent
      BY <1>2, <2>1 DEF FinalPresent
    <3> QED BY <1>1, <1>2, <3>1, <3>2 DEF Exact
  <2>2. CASE m \notin affected
    <3>1. m \notin Later(start)
      <4>1. /\ start \in Nat /\ pos \in Nat /\ Len(log) \in Nat /\ start <= pos /\ pos <= Len(log)
        BY <1>1 DEF TypeInv, TypeOK, SyncTypeOK, MailboxTypeOK, HistoryIds
      <4>2. \A i \in (start + 1)..Len(log) : i \in (start + 1)..pos \/ i \in (pos + 1)..Len(log)
        BY <4>1
      <4>3. affected = {log[i].msg : i \in (start + 1)..pos}
        BY <1>1 DEF ReadInv
      <4> QED BY <1>5, <2>2, <4>2, <4>3 DEF Later
    <3>2. CASE op = "partial"
      <4>1. Exact(m)
        BY <1>1, <3>1, <3>2 DEF OpInv, ExactInv
      <4> QED BY <1>1, <1>2, <3>2, <4>1 DEF Exact
    <3>3. CASE op # "partial"
      <4>1. (m \in seen <=> m \in Here) /\ (m \in Here => Exact(m))
        BY <1>1, <3>1, <3>3 DEF ScannedInv
      <4>2. m \in FinalPresent <=> m \in Here
        BY <1>2, <2>2, <4>1 DEF FinalPresent
      <4> QED BY <1>1, <1>2, <3>3, <4>1, <4>2 DEF Exact
    <3> QED BY <3>2, <3>3
  <2> QED BY <2>1, <2>2
<1>6. Later(historyId)' = Later(pos)
  BY <1>1 DEF Later
<1>7. ExactInv'
  BY <1>5, <1>6 DEF ExactInv
<1> QED BY <1>1, <1>3, <1>4, <1>7
        DEF OpInv, ReadInv, ScanInv, ScannedInv, AppliedInv, ListedInv

LEMMA SyncMirror ==
  ASSUME TypeInv, MirrorInv, Sync
  PROVE  MirrorInv'
<1> USE DEF MirrorInv
<1>1. ASSUME NEW m, NotFound(m)
      PROVE  MirrorInv'
  BY <1>1, FailMirror DEF NotFound
<1>2. CASE PreScanList
  <2>1. UNCHANGED <<server, labelled, log, linked, present, labels, catalogue>>
    BY <1>2 DEF PreScanList, provider, rows
  <2>2. CASE Here = {}
    BY <1>2, <2>1, <2>2, EndsMirror DEF PreScanList, Succeed, Leave
  <2>3. CASE Here # {}
    <3>1. pc = "anchor" /\ pc' = "get" /\ UNCHANGED <<historyId, fullRequired, op>>
      BY <1>2, <2>3 DEF PreScanList, checkpoint
    <3>2. LogInv' /\ AbsenceIsReal' /\ ExactInv'
      BY <2>1, <3>1, MovesMirror
    <3> QED BY <3>1, <3>2 DEF OpInv, ReadInv, ScanInv, ScannedInv, AppliedInv, ListedInv, NoId
  <2> QED BY <2>2, <2>3
<1>3. CASE PreScanGet
  <2>1. CASE cursor \notin Here
    BY <1>1, <1>3, <2>1 DEF PreScanGet
  <2>2. CASE cursor \in Here
    <3>1. /\ pc = "get" /\ pc' = "scan" /\ cursor' = N + 1 /\ seen' = {} /\ todo' = {}
          /\ UNCHANGED <<server, labelled, log, linked, present, labels, catalogue, historyId,
                         fullRequired, op>>
      BY <1>3, <2>2 DEF PreScanGet, NotFound, provider, rows, checkpoint
    <3>2. LogInv' /\ AbsenceIsReal' /\ ExactInv'
      BY <3>1, MovesMirror
    <3>3. \A m \in Msgs : ~(m >= cursor')
      BY <3>1, GmailAssumption DEF Msgs
    <3>4. ScanInv' /\ ListedInv'
      <4>1. linked' \subseteq Msgs
        BY <3>1 DEF TypeInv, TypeOK, RowsTypeOK
      <4> QED BY <3>1, <3>3, <4>1 DEF ScanInv, ListedInv
    <3> QED BY <3>1, <3>2, <3>4 DEF OpInv, ReadInv, ScannedInv, AppliedInv, NoId
  <2> QED BY <2>1, <2>2
<1>4. CASE ScanPage
  BY <1>4, ScanPageMirror
<1>5. CASE FetchListed
  <2>1. Max(todo) \in todo
    <3>1. todo \subseteq Msgs /\ todo # {}
      BY <1>5 DEF FetchListed, TypeInv, TypeOK, SyncTypeOK
    <3> QED BY <3>1, HereType, MaxIsMember
  <2> QED BY <1>1, <1>5, <2>1, ReconcileMirror DEF FetchListed
<1>6. CASE ScanEnds
  BY <1>6, ScanEndsMirror
<1>7. CASE HistoryPage
  BY <1>7, HistoryPageMirror
<1>8. CASE HistoryExpired
  <2>1. CASE op = "expired"
    BY <1>8, <2>1, FailMirror DEF HistoryExpired
  <2>2. CASE op # "expired"
    <3>1. /\ pc' = "anchor" /\ op' = "expired" /\ fullRequired' = TRUE
          /\ UNCHANGED <<server, labelled, log, linked, present, labels, catalogue, historyId>>
      BY <1>8, <2>2 DEF HistoryExpired, provider, rows
    <3>2. LogInv' /\ AbsenceIsReal' /\ ExactInv'
      BY <3>1, MovesMirror
    <3> QED BY <3>1, <3>2 DEF OpInv, ReadInv, ScanInv, ScannedInv, AppliedInv, ListedInv
  <2> QED BY <2>1, <2>2
<1>9. CASE ApplyAffected
  <2>1. Min(todo) \in todo /\ pc = "apply"
    <3>1. todo \subseteq Msgs /\ todo # {} /\ pc = "apply"
      BY <1>9 DEF ApplyAffected, TypeInv, TypeOK, SyncTypeOK
    <3>2. todo \in SUBSET Nat
      BY <3>1, HereType
    <3> QED BY <3>1, <3>2, MinIsMember
  <2> QED BY <1>1, <1>9, <2>1, ReconcileMirror, ApplyDeletionMirror DEF ApplyAffected
<1>10. CASE Finish
  BY <1>10, FinishMirror
<1> QED BY <1>2, <1>3, <1>4, <1>5, <1>6, <1>7, <1>8, <1>9, <1>10 DEF Sync

\* A change of message x in the mailbox is later than every position the synchronisation or
\* the checkpoint has reached.
LEMMA RecordMirror ==
  ASSUME TypeInv, MirrorInv, NEW x \in Msgs, NEW k \in {"added", "label", "deleted"}, Record(x, k),
         server[x] # "gone", server'[x] # "unborn",
         k = "deleted" => server'[x] = "gone",
         \A n \in Msgs : n # x => /\ server'[n] = server[n]
                                  /\ n \in labelled' <=> n \in labelled
  PROVE  MirrorInv'
<1> USE DEF MirrorInv
<1>1. /\ log' = Append(log, [msg |-> x, kind |-> k])
      /\ UNCHANGED <<linked, present, labels, catalogue, historyId, fullRequired, pc, op, start,
                     pos, cursor, seen, affected, deleted, todo>>
  BY DEF Record, rows, checkpoint, locals
<1>2. log \in Seq(Events) /\ Len(log) \in Nat /\ start \in Nat /\ pos \in Nat
  BY DEF TypeInv, TypeOK, MailboxTypeOK, SyncTypeOK, HistoryIds, Events
<1>3. /\ Len(log') = Len(log) + 1
      /\ \A i \in 1..Len(log) : log'[i] = log[i]
      /\ log'[Len(log) + 1] = [msg |-> x, kind |-> k]
  BY <1>1, <1>2, LogAppend
<1>4. \A n \in Msgs : n # x => (n \in Here' <=> n \in Here) /\ (Exact(n) => Exact(n)')
  BY <1>1 DEF Here, Exact
<1>5. \A n \in linked : n \in Msgs /\ server[n] # "unborn" /\ (n \in Here' => n \in Here)
  <2>1. \A n \in linked : n \in Msgs /\ server[n] # "unborn"
    BY DEF TypeInv, TypeOK, RowsTypeOK, LogInv
  <2>2. server[x] \in {"unborn", "here", "gone"}
    BY DEF TypeInv, TypeOK, MailboxTypeOK
  <2>3. x \in linked => x \in Here
    BY <2>1, <2>2 DEF Here
  <2> QED BY <1>4, <2>1, <2>3
<1>6. LogInv'
  <2>1. ASSUME NEW i \in 1..Len(log'), log'[i].kind = "deleted"
        PROVE  server'[log'[i].msg] = "gone"
    <3>1. CASE i \in 1..Len(log)
      <4>1. log'[i] = log[i] /\ log[i].msg \in Msgs /\ server[log[i].msg] = "gone"
        BY <1>3, <2>1, <3>1, EventType DEF LogInv, TypeInv, TypeOK
      <4>2. log[i].msg # x
        BY <4>1
      <4> QED BY <4>1, <4>2
    <3>2. CASE i = Len(log) + 1
      BY <1>3, <2>1, <3>2
    <3>3. i \in 1..Len(log) \/ i = Len(log) + 1
      BY <1>2, <1>3
    <3> QED BY <3>1, <3>2, <3>3
  <2>2. \A n \in linked : server'[n] # "unborn"
    BY <1>5
  <2> QED BY <1>1, <2>1, <2>2 DEF LogInv
<1>7. OpInv'
  BY <1>1 DEF OpInv, NoId
<1>8. ReadInv'
  <2>1. ASSUME pc \in {"history", "apply"}
        PROVE  {log'[i].msg : i \in (start + 1)..pos} = {log[i].msg : i \in (start + 1)..pos}
    <3>1. pos <= Len(log)
      BY <2>1 DEF TypeInv
    <3>2. \A i \in (start + 1)..pos : i \in 1..Len(log)
      BY <1>2, <3>1
    <3> QED BY <1>3, <3>2
  <2>2. \A m \in deleted : m \in Msgs /\ (server[m] = "gone" => server'[m] = "gone")
    BY DEF TypeInv, TypeOK, SyncTypeOK
  <2> QED BY <1>1, <2>1, <2>2 DEF ReadInv
<1>9. ASSUME NEW h \in 0..Len(log)
      PROVE  {log'[i].msg : i \in (h + 1)..Len(log')} = Later(h) \cup {x}
  BY <1>1, <1>2, LaterGrows
<1>10. pc \in {"scan", "history", "apply"} => Later(start)' = Later(start) \cup {x}
  <2>1. pc \in {"scan", "history", "apply"} => start \in 0..Len(log)
    BY <1>2 DEF TypeInv
  <2> QED BY <1>1, <1>9, <2>1 DEF Later
<1>11. pc = "apply" => Later(pos)' = Later(pos) \cup {x}
  <2>1. pc = "apply" => pos \in 0..Len(log)
    BY <1>2 DEF TypeInv
  <2> QED BY <1>1, <1>9, <2>1 DEF Later
<1>12. historyId # NoId => Later(historyId)' = Later(historyId) \cup {x}
  <2>1. historyId # NoId => historyId \in 0..Len(log)
    BY DEF TypeInv, TypeOK, RowsTypeOK
  <2> QED BY <1>1, <1>9, <2>1 DEF Later
<1>13. ScanInv'
  BY <1>1, <1>4, <1>10 DEF ScanInv
<1>14. ScannedInv'
  BY <1>1, <1>4, <1>10 DEF ScannedInv
<1>15. AppliedInv'
  <2>1. affected \subseteq Msgs
    BY DEF TypeInv, TypeOK, SyncTypeOK
  <2> QED BY <1>1, <1>4, <1>11, <2>1 DEF AppliedInv
<1>16. ListedInv'
  BY <1>1, <1>5 DEF ListedInv
<1>17. AbsenceIsReal'
  BY <1>1, <1>5 DEF AbsenceIsReal
<1>18. ExactInv'
  BY <1>1, <1>4, <1>12 DEF ExactInv, NoId
<1> QED BY <1>6, <1>7, <1>8, <1>13, <1>14, <1>15, <1>16, <1>17, <1>18

LEMMA MailboxMirror ==
  ASSUME TypeInv, MirrorInv, Mailbox
  PROVE  MirrorInv'
<1>0. server \in [Msgs -> {"unborn", "here", "gone"}]
  BY DEF TypeInv, TypeOK, MailboxTypeOK
<1>1. CASE Arrive
  <2>1. PICK m \in Msgs : /\ server[m] = "unborn" /\ server' = [server EXCEPT ![m] = "here"]
                          /\ Record(m, "added") /\ UNCHANGED labelled
    BY <1>1 DEF Arrive
  <2> QED BY <1>0, <2>1, RecordMirror
<1>2. CASE Remove
  <2>1. PICK m \in Msgs : /\ server[m] = "here" /\ server' = [server EXCEPT ![m] = "gone"]
                          /\ Record(m, "deleted") /\ UNCHANGED labelled
    BY <1>2 DEF Remove, Here
  <2> QED BY <1>0, <2>1, RecordMirror
<1>3. CASE ChangeLabels
  <2>1. PICK m \in Msgs : /\ labelled' = IF m \in labelled THEN labelled \ {m} ELSE labelled \cup {m}
                          /\ server[m] = "here" /\ Record(m, "label") /\ UNCHANGED server
    BY <1>3 DEF ChangeLabels, Here
  <2> QED BY <1>0, <2>1, RecordMirror
<1>4. CASE Expire
  BY <1>4, QuietMirror DEF Expire, rows, checkpoint, locals
<1> QED BY <1>1, <1>2, <1>3, <1>4 DEF Mailbox

LEMMA NextMirror ==
  ASSUME TypeInv, MirrorInv, [Next]_vars
  PROVE  MirrorInv'
<1>1. CASE Sync
  BY <1>1, SyncMirror
<1>2. CASE UNCHANGED <<provider, rows, checkpoint, pc, by, locals>>
  BY <1>2, QuietMirror DEF provider, rows, checkpoint, locals
<1>3. CASE Watcher
  BY <1>2, <1>3, SyncBeginMirror
     DEF Watcher, WatchBegin, WatchHead, WatchPoll, WatchBusy, WatchRefresh, Refresh
<1>4. CASE CliSync
  BY <1>4, SyncBeginMirror DEF CliSync
<1>5. CASE SyncFails
  BY <1>5, FailMirror DEF SyncFails
<1>6. CASE WatchStops
  <2>1. CASE Leave("off")
    BY <1>6, <2>1, EndsMirror DEF WatchStops, Leave, provider, rows, checkpoint
  <2>2. CASE UNCHANGED <<pc, by, locals>>
    BY <1>2, <1>6, <2>2 DEF WatchStops
  <2> QED BY <1>6, <2>1, <2>2 DEF WatchStops
<1>7. CASE Mailbox
  BY <1>7, MailboxMirror
<1>8. CASE UNCHANGED vars
  BY <1>2, <1>8 DEF vars
<1> QED BY <1>1, <1>3, <1>4, <1>5, <1>6, <1>7, <1>8 DEF Next

-----------------------------------------------------------------------------
(* Theorems.                                                               *)

\* Every stored position lies in the provider's history, and every id the synchronisation,
\* the rows and the index hold is a message of the mailbox (gmail_sync_state, the locals of
\* GmailAdapter.sync, fast_path_health).
THEOREM TypeCorrect == Spec => []TypeOK
<1>1. Init => TypeInv
  BY InitType
<1>2. TypeInv /\ [Next]_vars => TypeInv'
  BY NextType
<1>3. TypeInv => TypeOK
  BY DEF TypeInv
<1> QED BY <1>1, <1>2, <1>3, PTL DEF Spec

LEMMA MirrorInvariant == Spec => [](TypeInv /\ MirrorInv)
<1>1. Init => TypeInv /\ MirrorInv
  BY InitType, InitMirror
<1>2. TypeInv /\ MirrorInv /\ [Next]_vars => (TypeInv /\ MirrorInv)'
  BY NextType, NextMirror
<1> QED BY <1>1, <1>2, PTL DEF Spec

\* remote_present=0 is recorded only of a message that left the provider, however many
\* messages, pages, failures and mailbox changes: the full scan's absence commit
\* (GmailAdapter._full) and the replayed deletions (_partial) can never hide one that is
\* still there.
THEOREM AbsenceOnlyOfDeleted == Spec => []AbsenceIsReal
<1>1. TypeInv /\ MirrorInv => AbsenceIsReal
  BY DEF MirrorInv
<1> QED BY <1>1, MirrorInvariant, PTL

\* A stored checkpoint never runs ahead of the rows: every message without a history record
\* after history_id is archived, present and labelled exactly as on the provider, so that
\* the next partial synchronisation misses nothing.
THEOREM CheckpointIsHonest == Spec => []MirrorIsExact
<1>1. MirrorInv => MirrorIsExact
  BY DEF MirrorInv, LogInv, ExactInv, MirrorIsExact, Exact, Later
<1> QED BY <1>1, MirrorInvariant, PTL

=============================================================================
