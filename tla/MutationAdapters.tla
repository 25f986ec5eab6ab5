-------------------------- MODULE MutationAdapters --------------------------
(***************************************************************************)
(* One adapter.delete call for one target, command by command, for the     *)
(* three providers (imap_mutation.py, gmail_mutation.py, pop3_mutation.py) *)
(* and the read-only adapter.observe that follows an unknown outcome.      *)
(*                                                                         *)
(* Commands that only read are collapsed into the read that decides.  A    *)
(* mutating request is carried out, refused, or its answer is lost; a lost *)
(* request of a provider in LateKinds may still be carried out much later. *)
(* A lost answer leaves the IMAP connection unusable.  UIDVALIDITY is kept *)
(* by imaplib until it is read once, so reading it again on the same       *)
(* connection may fail.  A POP3 session that ends without QUIT removes     *)
(* nothing.                                                                *)
(***************************************************************************)
EXTENDS Naturals

CONSTANTS
    Kinds,          \* provider kinds of the instance
    LateKinds,      \* those whose provider may carry out a lost request late
    MaxEdits        \* bound on what other clients of the mailbox do

ASSUME AdapterAssumption ==
    /\ Kinds \subseteq {"imap", "gmail", "pop3"}
    /\ LateKinds \subseteq Kinds
    /\ MaxEdits \in Nat

VARIABLES
    kind,       \* provider_kind of the target
    here,       \* the provider still holds the message
    flag,       \* who marked it \Deleted (IMAP)
    bytes,      \* whether its bytes have the digest of the target
    namespace,  \* whether the mailbox still has the UIDVALIDITY of the target (IMAP)
    pc,         \* control point of delete
    conn,       \* whether the IMAP connection still answers
    wire,       \* a lost request the provider has not seen yet
    result,     \* what delete returned
    answer,     \* what is recorded: the result, or the observation that resolved it
    removed,    \* history: a request of this call removed the message
    edits       \* changes made by other clients

vars == <<kind, here, flag, bytes, namespace, pc, conn, wire, result, answer, removed, edits>>
mailbox == <<here, flag, removed>>
outcome == <<result, answer>>
fixed == <<kind, bytes>>

Answers == {"none", "success", "failure", "unknown"}
Requests == {"store", "expunge", "delete", "quit"}
Pcs == {"call", "store", "clean", "expunge", "confirm", "after", "fresh",
        "delete", "get", "dele", "quit", "session", "done"}

Init ==
    /\ kind \in Kinds
    /\ here \in BOOLEAN
    /\ flag \in IF kind = "imap" /\ here THEN {"none", "theirs"} ELSE {"none"}
    /\ bytes \in {"match", "other"}
    /\ namespace \in IF kind = "imap" THEN {"same", "other"} ELSE {"same"}
    /\ pc = "call"
    /\ conn = "open"
    /\ wire = "none"
    /\ result = "none"
    /\ answer = "none"
    /\ removed = FALSE
    /\ edits = 0

At(k, label) == kind = k /\ pc = label

\* delete goes on without telling its caller anything.
Goto(label) == pc' = label /\ UNCHANGED outcome

\* delete returns.
Returns(a) == pc' = "done" /\ result' = a /\ answer' = a

\* The provider carries out a request.  UID EXPUNGE removes only what is marked; QUIT
\* commits the DELE of its session.
Apply(request) ==
    LET goes == \/ here /\ request \in {"delete", "quit"}
                \/ here /\ request = "expunge" /\ flag # "none"
        marks == here /\ request = "store" /\ flag = "none"
    IN  /\ here' = (here /\ ~goes)
        /\ removed' = (removed \/ goes)
        /\ flag' = IF goes THEN "none" ELSE IF marks THEN "ours" ELSE flag

\* The answer to a request is lost: it was carried out, dropped, or is still on its way.
Lost(request) ==
    \/ Apply(request) /\ wire' = "none"
    \/ UNCHANGED mailbox /\ wire' = "none"
    \/ kind \in LateKinds /\ UNCHANGED mailbox /\ wire' = request

\* The exact target, neither changed nor marked.
Clean == here /\ bytes = "match" /\ flag = "none" /\ namespace = "same"

\* Exact-UID, exact-id or UIDL lookup without a match, in the identity space of the target.
Absent == ~here /\ namespace = "same"

\* How a read after the mutating requests is turned into a result.
Verdict == IF Absent THEN "success" ELSE IF Clean THEN "failure" ELSE "unknown"

-----------------------------------------------------------------------------
(* IMAP: UID STORE +FLAGS \Deleted, UID EXPUNGE, confirmation by FETCH.    *)

\* Lock, login, UIDPLUS, SELECT, UIDVALIDITY and the first FETCH.  Every refusal up to here,
\* a foreign digest and a mark somebody else set are confirmed failures.
ImapPreflight ==
    /\ At("imap", "call")
    /\ \/ Returns("failure")
       \/ Absent /\ Returns("success")
       \/ Clean /\ Goto("store")
    /\ UNCHANGED <<mailbox, fixed, namespace, conn, wire, edits>>

ImapStore ==
    /\ At("imap", "store")
    /\ \/ Apply("store") /\ Goto("expunge") /\ UNCHANGED <<conn, wire>>
       \/ Goto("clean") /\ UNCHANGED <<mailbox, conn, wire>>
       \/ Lost("store") /\ Goto("clean") /\ conn' = "broken"
    /\ UNCHANGED <<fixed, namespace, edits>>

ImapCleanUnmarked ==   \* mutant: a present message with the right bytes counts as untouched
    /\ At("imap", "clean")
    /\ \/ here /\ bytes = "match" /\ namespace = "same" /\ Returns("failure")
       \/ Returns("unknown")
    /\ UNCHANGED <<mailbox, fixed, namespace, conn, wire, edits>>

\* _clean_or_unknown: STORE was refused or its answer was lost.
ImapClean ==
    /\ At("imap", "clean")
    /\ \/ conn = "open" /\ Clean /\ Returns("failure")
       \/ Returns("unknown")
    /\ UNCHANGED <<mailbox, fixed, namespace, conn, wire, edits>>

ImapExpunge ==
    /\ At("imap", "expunge")
    /\ \/ Apply("expunge") /\ Goto("confirm") /\ UNCHANGED <<conn, wire>>
       \/ Goto("after") /\ UNCHANGED <<mailbox, conn, wire>>
       \/ Lost("expunge") /\ Goto("after") /\ conn' = "broken"
    /\ UNCHANGED <<fixed, namespace, edits>>

ImapConfirm ==
    /\ At("imap", "confirm")
    /\ \/ Absent /\ Returns("success")
       \/ Goto("after")
    /\ UNCHANGED <<mailbox, fixed, namespace, conn, wire, edits>>

\* _after_expunge first asks the same connection; if that raises it opens a fresh one.
ImapAfter ==
    /\ At("imap", "after")
    /\ \/ conn = "open" /\ Returns(Verdict)
       \/ Goto("fresh")
    /\ UNCHANGED <<mailbox, fixed, namespace, conn, wire, edits>>

ImapFresh ==
    /\ At("imap", "fresh")
    /\ Returns(Verdict) \/ Returns("unknown")
    /\ UNCHANGED <<mailbox, fixed, namespace, conn, wire, edits>>

-----------------------------------------------------------------------------
(* Gmail: one DELETE request whose answer is ignored, then GET.            *)

\* Credentials, profile and the first GET.  A busy lock raises: the engine records unknown.
GmailPreflight ==
    /\ At("gmail", "call")
    /\ \/ Returns("unknown")
       \/ Returns("failure")
       \/ Absent /\ Returns("success")
       \/ Clean /\ Goto("delete")
    /\ UNCHANGED <<mailbox, fixed, namespace, conn, wire, edits>>

GmailDelete ==
    /\ At("gmail", "delete")
    /\ Lost("delete")
    /\ Goto("get")
    /\ UNCHANGED <<fixed, namespace, conn, edits>>

GmailConfirmTrusts ==   \* mutant: a DELETE without a good answer is taken for a refusal
    /\ At("gmail", "get")
    /\ Returns("failure")
    /\ UNCHANGED <<mailbox, fixed, namespace, conn, wire, edits>>

\* _confirmation, with one refresh of the credentials if the GET is not authorised.
GmailConfirm ==
    /\ At("gmail", "get")
    /\ Returns(Verdict) \/ Returns("unknown")
    /\ UNCHANGED <<mailbox, fixed, namespace, conn, wire, edits>>

-----------------------------------------------------------------------------
(* POP3: DELE and QUIT in one session, confirmation in another.            *)

PopPreflight ==
    /\ At("pop3", "call")
    /\ \/ Returns("failure")
       \/ Absent /\ Returns("success")
       \/ Clean /\ Goto("dele")
    /\ UNCHANGED <<mailbox, fixed, namespace, conn, wire, edits>>

\* DELE marks the message in the session; a refusal or a lost answer ends it without QUIT.
PopDele ==
    /\ At("pop3", "dele")
    /\ Goto("quit") \/ Goto("session")
    /\ UNCHANGED <<mailbox, fixed, namespace, conn, wire, edits>>

\* quit_and_commit; whatever its answer is, a fresh session decides.
PopQuit ==
    /\ At("pop3", "quit")
    /\ Lost("quit")
    /\ Goto("session")
    /\ UNCHANGED <<fixed, namespace, conn, edits>>

\* _confirmation in a fresh session.
PopConfirm ==
    /\ At("pop3", "session")
    /\ Returns(Verdict) \/ Returns("unknown")
    /\ UNCHANGED <<mailbox, fixed, namespace, conn, wire, edits>>

-----------------------------------------------------------------------------
(* Reconciliation and the world outside.                                   *)

\* A conclusive observe(): the engine resolves its unknown row with it.  A mark, a foreign
\* digest or another UIDVALIDITY is an identity conflict and changes nothing.
Observe ==
    /\ answer = "unknown"
    /\ Verdict # "unknown"
    /\ answer' = Verdict
    /\ UNCHANGED <<mailbox, fixed, namespace, pc, conn, wire, result, edits>>

LateArrival ==
    /\ wire # "none"
    /\ Apply(wire)
    /\ wire' = "none"
    /\ UNCHANGED <<fixed, namespace, pc, conn, outcome, edits>>

\* Another client removes the message, sets or clears its mark, or recreates the mailbox.
OtherClient ==
    /\ edits < MaxEdits
    /\ edits' = edits + 1
    /\ \/ here /\ here' = FALSE /\ flag' = "none" /\ UNCHANGED namespace
       \/ kind = "imap" /\ here /\ flag # "none" /\ flag' = "none" /\ UNCHANGED <<here, namespace>>
       \/ kind = "imap" /\ here /\ flag = "none" /\ flag' = "theirs"
          /\ UNCHANGED <<here, namespace>>
       \/ kind = "imap" /\ namespace = "same" /\ namespace' = "other" /\ UNCHANGED <<here, flag>>
    /\ UNCHANGED <<fixed, pc, conn, wire, outcome, removed>>

DeleteStep ==
    \/ ImapPreflight \/ ImapStore \/ ImapClean \/ ImapExpunge \/ ImapConfirm
    \/ ImapAfter \/ ImapFresh
    \/ GmailPreflight \/ GmailDelete \/ GmailConfirm
    \/ PopPreflight \/ PopDele \/ PopQuit \/ PopConfirm

Next == DeleteStep \/ Observe \/ LateArrival \/ OtherClient

Spec == Init /\ [][Next]_vars

-----------------------------------------------------------------------------
(* Properties.                                                             *)

\* Type correctness of the target, of the call and of its outcome.
TypeOK ==
    /\ kind \in Kinds /\ bytes \in {"match", "other"} /\ namespace \in {"same", "other"}
    /\ here \in BOOLEAN /\ flag \in {"none", "ours", "theirs"} /\ removed \in BOOLEAN
    /\ pc \in Pcs /\ conn \in {"open", "broken"}
    /\ wire \in Requests \cup {"none"}
    /\ result \in Answers /\ answer \in Answers
    /\ edits \in 0..MaxEdits

Contract == INSTANCE DeletionCall WITH present <- here, removed <- removed, answer <- answer

\* Every adapter keeps the contract the engine is built on: success is answered only of an
\* absent message, and after a confirmed failure, by delete or by a later observation, no
\* request of this call removes the message any more.
ImplementsContract == Contract!Spec

\* "failure-confirmed-no-mutation" means it: no \Deleted mark of ours is left on the message,
\* where the next EXPUNGE of any client would remove it, and no STORE that would leave one is
\* still on its way.
FailureLeavesNoMark == result = "failure" => flag # "ours" /\ wire # "store"

=============================================================================
