---------------------------- MODULE Attachments -----------------------------
(***************************************************************************)
(* Attachment extraction (attachments.py): reconcile_attachments over      *)
(* finalised messages, the content-addressed blob store and its durability.*)
(*                                                                         *)
(* Every message carries the same attachment: blobs are shared by digest,  *)
(* and sharing is the case that matters.  One extraction runs at a time.   *)
(* Classification is present as far as it changes what an extraction sees: *)
(* it finalises a message, and a manual override moves the file first and  *)
(* updates the row afterwards, unless it dies in between.  SQLite commits  *)
(* are durable.                                                            *)
(***************************************************************************)
EXTENDS Naturals

CONSTANTS
    Msgs,           \* canonical messages
    NoMsg,
    MaxFaults       \* bound on crashes, failures, damage, overrides and the like

ASSUME AttachmentsAssumption == NoMsg \notin Msgs /\ MaxFaults \in Nat

VARIABLES
    row,            \* tree of canonical_messages.local_path; staging is still pending
    where,          \* tree that holds the file
    intact,         \* whether the file has its digest
    moving,         \* message whose override moved the file and not yet the row
    blob,           \* the file of the attachment: absent, good or bad
    durable,        \* its directory entry survives a power failure
    status,         \* attachment_extractions.status
    links,          \* messages with message_attachments rows
    xpc,            \* control point of _extract_one
    xmsg, xpath,    \* its message, as read when reconcile_attachments began
    orphan,         \* history: an extraction ended between link and fsync
    faults

store == <<row, where, intact, moving>>
blobs == <<blob, durable, orphan>>
extraction == <<status, links>>
extractor == <<xpc, xmsg, xpath>>
attachmentVars == <<store, blobs, extraction, extractor, faults>>

Trees == {"mail", "quarantine"}
Final == {m \in Msgs : row[m] \in Trees}

AttachmentsInit ==
    /\ row = [m \in Msgs |-> "staging"]
    /\ where = row
    /\ intact = [m \in Msgs |-> TRUE]
    /\ moving = NoMsg
    /\ blob = "absent" /\ durable = FALSE /\ orphan = FALSE
    /\ status = [m \in Msgs |-> "none"] /\ links = {}
    /\ xpc = "idle" /\ xmsg = NoMsg /\ xpath = "staging"
    /\ faults = 0

Fault == faults < MaxFaults /\ faults' = faults + 1

-----------------------------------------------------------------------------
(* _extract_one.                                                           *)

\* A finalised message without a success; failed ones are retried, force repeats any.
ExtractBegin(m) ==
    /\ xpc = "idle"
    /\ m \in Final
    /\ \/ status[m] # "success" /\ UNCHANGED faults
       \/ status[m] = "success" /\ Fault
    /\ xmsg' = m
    /\ xpath' = row[m]
    /\ xpc' = "read"
    /\ UNCHANGED <<store, blobs, extraction>>

Idle == xpc' = "idle" /\ xmsg' = NoMsg /\ xpath' = "staging"

\* History: the extraction ends between the link of a blob and the fsync of its directory.
LeavesOrphan == orphan' = (orphan \/ xpc = "fsync")

\* _record_failure keeps the relationships of an earlier success.
RecordFailure ==
    /\ status' = [status EXCEPT ![xmsg] = "failed"]
    /\ Idle
    /\ LeavesOrphan
    /\ UNCHANGED <<store, blob, durable, links>>

\* The canonical file is found where the row said, and its digest is right.
Readable == where[xmsg] = xpath /\ intact[xmsg]

ExtractRead ==
    /\ xpc = "read"
    /\ \/ /\ Readable
          /\ xpc' = "install"
          /\ UNCHANGED <<store, blobs, extraction, xmsg, xpath>>
       \/ ~Readable /\ RecordFailure
    /\ UNCHANGED faults

\* install_attachment_blob: an intact blob is reused as it is, a damaged one never replaced.
\* A new one is written and synced under a temporary name, then linked.
Install ==
    /\ xpc = "install"
    /\ \/ /\ blob = "absent"
          /\ blob' = "good"
          /\ xpc' = "fsync"
          /\ UNCHANGED <<store, durable, orphan, extraction, xmsg, xpath>>
       \/ blob = "good" /\ xpc' = "commit" /\ UNCHANGED <<store, blobs, extraction, xmsg, xpath>>
       \/ blob = "bad" /\ RecordFailure
    /\ UNCHANGED faults

FsyncSkipped ==   \* mutant: the directory is not synced
    /\ xpc = "fsync"
    /\ xpc' = "commit"
    /\ UNCHANGED <<store, blobs, extraction, xmsg, xpath, faults>>

\* _fsync_directory of the shard directory.  The entry of a shard directory that mkdir just
\* made in its parent is never synced by the code; it is taken to survive.
FsyncDirectory ==
    /\ xpc = "fsync"
    /\ durable' = TRUE
    /\ xpc' = "commit"
    /\ UNCHANGED <<store, blob, orphan, extraction, xmsg, xpath, faults>>

CommitKeepsFailure ==   \* mutant: a success does not replace the status of an earlier failure
    /\ xpc = "commit"
    /\ links' = links \cup {xmsg}
    /\ status' = [status EXCEPT ![xmsg] = IF @ = "failed" THEN @ ELSE "success"]
    /\ Idle
    /\ UNCHANGED <<store, blobs, faults>>

\* Relationships and success in one transaction.
CommitExtraction ==
    /\ xpc = "commit"
    /\ links' = links \cup {xmsg}
    /\ status' = [status EXCEPT ![xmsg] = "success"]
    /\ Idle
    /\ UNCHANGED <<store, blobs, faults>>

\* An unreadable file, an undecodable part, a full disk or a database error.
ExtractFails == xpc # "idle" /\ Fault /\ RecordFailure

Extract ==
    (\E m \in Msgs : ExtractBegin(m)) \/ ExtractRead \/ Install \/ FsyncDirectory \/ CommitExtraction

-----------------------------------------------------------------------------
(* What happens to the files.                                              *)

\* Which of the two trees makes no difference to an extraction or a backup.
Classify ==
    /\ \E m \in Msgs :
          /\ row[m] = "staging"
          /\ row' = [row EXCEPT ![m] = "mail"]
          /\ where' = [where EXCEPT ![m] = "mail"]
    /\ UNCHANGED <<intact, moving, blobs, extraction, extractor, faults>>

\* _move_exact of a manual override: the file leaves the tree the row names, or has left it
\* already when an earlier override died.  A damaged file is refused.
OverrideMoves ==
    /\ moving = NoMsg
    /\ Fault
    /\ \E m \in Final :
          /\ intact[m]
          /\ moving' = m
          /\ where' = [where EXCEPT ![m] = CHOOSE t \in Trees : t # row[m]]
    /\ UNCHANGED <<row, intact, blobs, extraction, extractor>>

OverrideCommits ==
    /\ moving # NoMsg
    /\ row' = [row EXCEPT ![moving] = where[moving]]
    /\ moving' = NoMsg
    /\ UNCHANGED <<where, intact, blobs, extraction, extractor, faults>>

\* Its process dies after the move, or the transaction fails: the row keeps the old tree.
OverrideDies ==
    /\ moving # NoMsg
    /\ Fault
    /\ moving' = NoMsg
    /\ UNCHANGED <<row, where, intact, blobs, extraction, extractor>>

Damage ==
    /\ Fault
    /\ \/ \E m \in Msgs : intact' = [intact EXCEPT ![m] = FALSE] /\ UNCHANGED blob
       \/ blob = "good" /\ blob' = "bad" /\ UNCHANGED intact
    /\ UNCHANGED <<row, where, moving, durable, orphan, extraction, extractor>>

\* The process dies; after a power failure an entry that was not synced may be gone.
ExtractorDies ==
    /\ xpc # "idle"
    /\ Fault
    /\ Idle
    /\ LeavesOrphan
    /\ UNCHANGED <<store, blob, durable, extraction>>

\* Every process is gone, an override too; of its move either end may be on disk.
PowerFailure ==
    /\ Fault
    /\ Idle
    /\ blob' \in IF durable THEN {blob} ELSE {blob, "absent"}
    /\ where' \in {where} \cup {[where EXCEPT ![m] = row[m]] : m \in {moving} \cap Msgs}
    /\ moving' = NoMsg
    /\ LeavesOrphan
    /\ UNCHANGED <<row, intact, durable, extraction>>

-----------------------------------------------------------------------------
(* Properties.                                                             *)

AttachmentsTypeOK ==
    /\ row \in [Msgs -> Trees \cup {"staging"}] /\ where \in [Msgs -> Trees \cup {"staging"}]
    /\ intact \in [Msgs -> BOOLEAN] /\ moving \in Msgs \cup {NoMsg}
    /\ blob \in {"absent", "good", "bad"} /\ durable \in BOOLEAN /\ orphan \in BOOLEAN
    /\ status \in [Msgs -> {"none", "success", "failed"}] /\ links \subseteq Msgs
    /\ xpc \in {"idle", "read", "install", "fsync", "commit"}
    /\ xmsg \in Msgs \cup {NoMsg} /\ xpath \in Trees \cup {"staging"}
    /\ faults \in 0..MaxFaults

\* A recorded attachment is on disk and survives a power failure, whichever message brought
\* it and whenever the power fails, unless an earlier extraction ended between linking
\* the blob and syncing its directory: the next one reuses that blob without syncing it.
LinkedBlobIsDurable == links # {} => orphan \/ (blob # "absent" /\ durable)

\* An override moved the file and nothing is going to update the row.
Stranded(m) == moving # m /\ where[m] # row[m]

\* A finalised message gets its attachments in the end: an extraction that met the file in
\* the middle of a move, failed or died is repeated, unless the source or the shared blob
\* was damaged, or an override died and left the row naming a tree the file has left.
AttachmentsAreExtracted ==
    \A m \in Msgs :
        m \in Final ~> (status[m] = "success" \/ ~intact[m] \/ blob = "bad" \/ Stranded(m))

=============================================================================
