------------------------------ MODULE Retention ------------------------------
(***************************************************************************)
(* The retention policy of retention.py for one remote message: evaluate,  *)
(* the facts evaluate_all collects for it, and the keep-online and         *)
(* legal-hold controls that set_control keeps on its canonical message.    *)
(*                                                                         *)
(* evaluate_all writes first and so holds SQLite's write lock while it     *)
(* collects its facts: it is one step.  Releasing a control is two steps:  *)
(* its SELECT runs outside any transaction (sqlite3 opens one only before  *)
(* a statement that writes), so another process may write in between.      *)
(***************************************************************************)
EXTENDS Integers, FiniteSets

CONSTANTS
    Procs,           \* processes that run "mailarchive retention hold/release"
    FactSpace,       \* the values each local fact may take
    Required,        \* required_verified_backups of the account
    Repos,           \* physical backup repositories
    MaxTime          \* bound on the clock, in days

Kinds == {"keep-online", "legal-hold"}

\* Values of a fact outside the numbers of the clock.
Missing == -1    \* archived_at IS NULL
Invalid == -2    \* archived_at is not an aware ISO timestamp
Never == -1      \* remote_retention_days: null

FactDomain ==
    [enabled    : SUBSET BOOLEAN,
     present    : SUBSET BOOLEAN,
     identity   : SUBSET {"proven", "unproven", "incomplete", "incoherent"},
     link       : SUBSET {"one", "none", "foreign"},
     state      : SUBSET {"pending", "archived", "quarantined"},
     archivedAt : SUBSET (0..MaxTime \cup {Missing, Invalid}),
     file       : SUBSET {"good", "bad", "missing", "outside"},
     integrity  : SUBSET {"verified", "failed"},
     days       : SUBSET (Nat \cup {Never})]

FactRecords ==
    [enabled : FactSpace.enabled, present : FactSpace.present, identity : FactSpace.identity,
     link : FactSpace.link, state : FactSpace.state, archivedAt : FactSpace.archivedAt,
     file : FactSpace.file, integrity : FactSpace.integrity, days : FactSpace.days]

ASSUME RetentionAssumption ==
    /\ MaxTime \in Nat
    /\ Required \in Nat
    /\ FactSpace \in FactDomain

VARIABLES
    now,        \* days since the archive was set up
    facts,      \* configuration, account, remote_messages and canonical_messages rows, file
    verified,   \* repositories with verified evidence that covers the message
    controls,   \* the retention_controls columns that are 1
    held,       \* history: controls that were set for good and that nobody released since
    releasing,  \* the kind each process is releasing, or "none"
    sawOther    \* whether that process found the other control set

vars == <<now, facts, verified, controls, held, releasing, sawOther>>
releases == <<releasing, sawOther>>

-----------------------------------------------------------------------------
(* evaluate.                                                               *)

\* Without a link every canonical column of the LEFT JOIN is NULL.
Linked == facts.link # "none"

Elapsed == now >= facts.archivedAt + facts.days

NotElapsedSinceSetup ==   \* mutant: the clock does not start at archive admission
    Linked /\ facts.archivedAt >= 0 /\ facts.days # Never /\ now < facts.days

NotElapsedToTheDay ==   \* mutant: equality where the deadline is a lower bound
    /\ Linked /\ facts.archivedAt >= 0 /\ facts.days # Never
    /\ now # facts.archivedAt + facts.days

NotElapsed == Linked /\ facts.archivedAt >= 0 /\ facts.days # Never /\ ~Elapsed

Reason(code, applies) == IF applies THEN {code} ELSE {}

ReasonCodes ==
    UNION {
        Reason("ACCOUNT_DISABLED", ~facts.enabled),
        Reason("REMOTE_NOT_PRESENT", ~facts.present),
        Reason("REMOTE_IDENTITY_UNPROVEN", facts.identity = "unproven"),
        Reason("REMOTE_IDENTITY_INCOMPLETE", facts.identity = "incomplete"),
        Reason("REMOTE_IDENTITY_INCOHERENT", facts.identity = "incoherent"),
        Reason("REMOTE_LINK_MISSING", ~Linked),
        Reason("REMOTE_LINK_INCOHERENT", facts.link # "one"),
        Reason("CANONICAL_MISSING", ~Linked),
        Reason("CANONICAL_NOT_ARCHIVED", ~Linked \/ facts.state # "archived"),
        Reason("QUARANTINED", Linked /\ facts.state = "quarantined"),
        Reason("ARCHIVED_AT_MISSING", ~Linked \/ facts.archivedAt = Missing),
        Reason("TIMESTAMP_INVALID", Linked /\ facts.archivedAt = Invalid),
        Reason("RETENTION_NEVER", facts.days = Never),
        Reason("RETENTION_NOT_ELAPSED", NotElapsed),
        Reason("CANONICAL_PATH_INVALID", ~Linked \/ facts.file = "outside"),
        Reason("CANONICAL_FILE_MISSING", Linked /\ facts.file = "missing"),
        Reason("CANONICAL_HASH_MISMATCH", Linked /\ facts.file = "bad"),
        Reason("INTEGRITY_NOT_VERIFIED", ~Linked \/ facts.integrity # "verified"),
        Reason("BACKUPS_INSUFFICIENT", (IF Linked THEN Cardinality(verified) ELSE 0) < Required),
        Reason("KEEP_ONLINE", Linked /\ "keep-online" \in controls),
        Reason("LEGAL_HOLD", Linked /\ "legal-hold" \in controls)}

Eligible == ReasonCodes = {}

-----------------------------------------------------------------------------
Init ==
    /\ now = 0
    /\ facts \in {f \in FactRecords : f.archivedAt <= 0}
    /\ verified = {}
    /\ controls = {}
    /\ held = {}
    /\ releasing = [e \in Procs |-> "none"]
    /\ sawOther = [e \in Procs |-> FALSE]

Tick ==
    /\ now < MaxTime
    /\ now' = now + 1
    /\ UNCHANGED <<facts, verified, controls, held, releases>>

\* Acquisition, classification, the operator's configuration and the file system change what
\* evaluate_all will find; archived_at is never in the future.
FactChanges(f, v) ==
    /\ facts[f] # v
    /\ f = "archivedAt" => v <= now
    /\ facts' = [facts EXCEPT ![f] = v]
    /\ UNCHANGED <<now, verified, controls, held, releases>>

\* verify_run gives or revokes the evidence of a repository.
EvidenceChanges(r) ==
    /\ verified' = IF r \in verified THEN verified \ {r} ELSE verified \cup {r}
    /\ UNCHANGED <<now, facts, controls, held, releases>>

\* A release of the other control that read the row before k was set and will delete it.
DeletionPending(k) == \E d \in Procs : releasing[d] \notin {"none", k} /\ ~sawOther[d]

\* set_control(enabled=True): one upsert of one column.  Nothing keeps a pending deletion from
\* taking the new control away too, so the history does not count on it.
Hold(e, k) ==
    /\ releasing[e] = "none"
    /\ controls' = controls \cup {k}
    /\ held' = IF DeletionPending(k) THEN held ELSE held \cup {k}
    /\ UNCHANGED <<now, facts, verified, releases>>

\* set_control(enabled=False) looks at the other column ...
ReleaseRead(e, k) ==
    /\ releasing[e] = "none"
    /\ releasing' = [releasing EXCEPT ![e] = k]
    /\ sawOther' = [sawOther EXCEPT ![e] = controls \ {k} # {}]
    /\ UNCHANGED <<now, facts, verified, controls, held>>

\* CHECK(keep_online=1 OR legal_hold=1): the last control is never cleared by an UPDATE.
CheckRejects(e) == sawOther[e] /\ controls = {releasing[e]}

ReleaseDeletes(e) ==   \* mutant: the row goes, whatever the other column says
    /\ releasing[e] # "none"
    /\ controls' = {}
    /\ held' = held \ {releasing[e]}
    /\ releasing' = [releasing EXCEPT ![e] = "none"]
    /\ sawOther' = [sawOther EXCEPT ![e] = FALSE]
    /\ UNCHANGED <<now, facts, verified>>

\* ... and clears its own column, or deletes the row when the other one was not set.
ReleaseWrite(e) ==
    /\ releasing[e] # "none"
    /\ controls' = IF CheckRejects(e) THEN controls
                   ELSE IF sawOther[e] THEN controls \ {releasing[e]} ELSE {}
    /\ held' = IF CheckRejects(e) THEN held ELSE held \ {releasing[e]}
    /\ releasing' = [releasing EXCEPT ![e] = "none"]
    /\ sawOther' = [sawOther EXCEPT ![e] = FALSE]
    /\ UNCHANGED <<now, facts, verified>>

Next ==
    \/ Tick
    \/ \E f \in DOMAIN FactSpace : \E v \in FactSpace[f] : FactChanges(f, v)
    \/ \E r \in Repos : EvidenceChanges(r)
    \/ \E e \in Procs, k \in Kinds : Hold(e, k)
    \/ \E e \in Procs, k \in Kinds : ReleaseRead(e, k)
    \/ \E e \in Procs : ReleaseWrite(e)

Spec == Init /\ [][Next]_vars

-----------------------------------------------------------------------------
\* The deletion safety predicate of SAFETY.md, section 3, on what really holds: with the
\* controls operators put on the message and nobody took back, whatever the row says.
DeletionIsSafe ==
    /\ facts.enabled /\ facts.present
    /\ facts.link = "one" /\ facts.identity = "proven"
    /\ facts.file = "good" /\ facts.integrity = "verified"
    /\ facts.state = "archived"
    /\ facts.days # Never
    /\ facts.archivedAt >= 0 /\ now - facts.archivedAt >= facts.days
    /\ Cardinality(verified) >= Required
    /\ held = {}

\* evaluate never finds a message eligible that the documented predicate protects, however
\* backups, moves, time and the holds and releases of several operators follow one another.
\* The one hold it may miss is one that is set between the two steps of another's release.
FailClosed == Eligible => DeletionIsSafe

\* Once due, a message stays due: time alone never makes an eligible message ineligible.
TimeNeverProtects ==
    [][facts' = facts /\ verified' = verified /\ controls' = controls /\ Eligible => Eligible']_now

=============================================================================
