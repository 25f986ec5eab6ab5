--------------------------- MODULE BackupEvidence ---------------------------
(***************************************************************************)
(* Borg backups and what they prove (borg.py): repo_init, backup_run,      *)
(* verify_run and restore_test of one repository, over the files and rows  *)
(* of Attachments, which go on changing meanwhile.                         *)
(*                                                                         *)
(* The repository is external: an archive keeps the bytes its snapshot     *)
(* directory had when borg create read them, may rot, and goes when the    *)
(* destination is replaced.  Snapshot files are hard links where the file  *)
(* system allows it, so damage to the original reaches them.               *)
(***************************************************************************)
EXTENDS Attachments

CONSTANTS
    MaxRuns,        \* bound on backup runs
    Verifiers,      \* processes that verify or restore
    Free            \* nobody holds the repository lock

ASSUME BackupAssumption ==
    /\ MaxRuns \in Nat
    /\ Free \notin Verifiers \cup {"backup"}

VARIABLES
    repo,           \* identity of the repository at the destination
    bound,          \* backup_repositories.repository_identity
    lock,           \* holder of borg-<name>.lock
    run,            \* backup_runs.status
    covered,        \* message_backup_evidence rows of a run
    verified,       \* runs whose rows have verified=1; their verification_status says the same
    restored,       \* runs with a backup_restore_tests row that succeeded
    archive,        \* what Borg holds for a run
    bpc, brun,      \* control point and run of backup_run
    snapshot,       \* tree of each message in the database snapshot
    objects,        \* objects of the manifest
    todo,           \* objects not yet materialised
    vpc, vrun,      \* control point and run of each verifier
    unrecorded,     \* history: verifiers that checked and have the result still to record
    before,         \* history: those whose check came before the one of a verifier
    overtaken,      \* history: those of them whose run has a newer recorded check
    newest          \* history: newest check of a run whose result was recorded

world == <<repo, bound>>
records == <<run, covered, verified, restored>>
backup == <<bpc, brun, snapshot, objects, todo>>
checked == <<unrecorded, before, overtaken, newest>>
verifier == <<vpc, vrun, checked>>
vars == <<attachmentVars, world, lock, records, archive, backup, verifier>>

Runs == 1..MaxRuns
NoRun == 0
Blob == "blob"
Objects == Msgs \cup {Blob}
NoArchive == [at |-> "none", bad |-> {}, rotten |-> FALSE]

Init ==
    /\ AttachmentsInit
    /\ repo = "none" /\ bound = "none" /\ lock = Free
    /\ run = [r \in Runs |-> "none"]
    /\ covered = [r \in Runs |-> {}]
    /\ verified = {}
    /\ restored = {}
    /\ archive = [r \in Runs |-> NoArchive]
    /\ bpc = "idle" /\ brun = NoRun
    /\ snapshot = [m \in Msgs |-> "staging"]
    /\ objects = {} /\ todo = {}
    /\ vpc = [v \in Verifiers |-> "idle"] /\ vrun = [v \in Verifiers |-> NoRun]
    /\ unrecorded = {} /\ before = [v \in Verifiers |-> {}] /\ overtaken = {}
    /\ newest = [r \in Runs |-> "none"]

\* repo_init binds the name once; a bound name never initialises a replacement.
RepoInit ==
    /\ lock = Free
    /\ bound = "none"
    /\ repo' = IF repo = "none" THEN "first" ELSE repo
    /\ bound' = repo'
    /\ UNCHANGED <<attachmentVars, lock, records, archive, backup, verifier>>

-----------------------------------------------------------------------------
(* backup_run.                                                             *)

\* The lock and the identity of the destination; a run that was interrupted is closed.
BackupBegin ==
    /\ bpc = "idle" /\ lock = Free
    /\ bound # "none" /\ repo = bound
    /\ \E r \in Runs :
          /\ run[r] = "none" /\ \A s \in 1..(r - 1) : run[s] # "none"
          /\ brun' = r
          /\ run' = [s \in Runs |->
                        CASE s = r -> "running"
                          [] s # r /\ run[s] = "running" -> "failed"
                          [] OTHER -> run[s]]
    /\ lock' = "backup"
    /\ bpc' = "snapshot"
    /\ UNCHANGED <<attachmentVars, world, covered, verified, restored, archive, snapshot, objects,
                   todo, verifier>>

SnapshotDatabasePending ==   \* mutant: pending messages are materialised too
    /\ bpc = "snapshot"
    /\ bpc' = "materialize"
    /\ snapshot' = row
    /\ objects' = Final \cup (IF links \cap Final # {} THEN {Blob} ELSE {})
    /\ todo' = objects' \cup Msgs
    /\ UNCHANGED <<attachmentVars, world, lock, records, archive, brun, verifier>>

\* _snapshot_database: rows and relationships of one moment; pending messages are left out.
SnapshotDatabase ==
    /\ bpc = "snapshot"
    /\ bpc' = "materialize"
    /\ snapshot' = row
    /\ objects' = Final \cup (IF links \cap Final # {} THEN {Blob} ELSE {})
    /\ todo' = objects'
    /\ UNCHANGED <<attachmentVars, world, lock, records, archive, brun, verifier>>

\* The original is where the snapshot says and has its digest.
Sound(o) == IF o = Blob THEN blob = "good" ELSE where[o] = snapshot[o] /\ intact[o]

BackupEnds == bpc' = "idle" /\ brun' = NoRun /\ lock' = Free
              /\ snapshot' = [m \in Msgs |-> "staging"] /\ objects' = {} /\ todo' = {}

\* Every exception of backup_run; the snapshot directory is removed.
BackupFails ==
    /\ run' = [run EXCEPT ![brun] = "failed"]
    /\ BackupEnds
    /\ UNCHANGED <<world, covered, verified, restored, archive, verifier>>

\* One object of _materialize_snapshot.
Materialize ==
    /\ bpc = "materialize"
    /\ \E o \in todo :
          \/ /\ Sound(o)
             /\ todo' = todo \ {o}
             /\ UNCHANGED <<world, lock, records, archive, bpc, brun, snapshot, objects, verifier>>
          \/ ~Sound(o) /\ BackupFails
    /\ UNCHANGED attachmentVars

\* Objects whose bytes are no longer the ones that were checked.
Damaged == {o \in objects : IF o = Blob THEN blob = "bad" ELSE ~intact[o]}

\* borg create: copied files keep their bytes, hard links show what happened meanwhile.
Create ==
    /\ bpc = "materialize"
    /\ todo = {}
    /\ bpc' = "commit"
    /\ \E bad \in SUBSET Damaged :
          archive' = [archive EXCEPT ![brun] = [at |-> repo, bad |-> bad, rotten |-> FALSE]]
    /\ UNCHANGED <<attachmentVars, world, lock, records, brun, snapshot, objects, todo, verifier>>

CommitRun ==
    /\ bpc = "commit"
    /\ run' = [run EXCEPT ![brun] = "succeeded"]
    /\ covered' = [covered EXCEPT ![brun] = objects \cap Msgs]
    /\ BackupEnds
    /\ UNCHANGED <<attachmentVars, world, verified, restored, archive, verifier>>

BackupRaises ==
    /\ bpc # "idle"
    /\ Fault
    /\ BackupFails
    /\ UNCHANGED <<store, blobs, extraction, extractor>>

\* The process dies: its row stays running, its archive may already exist.
BackupDies ==
    /\ bpc # "idle"
    /\ Fault
    /\ BackupEnds
    /\ UNCHANGED <<store, blobs, extraction, extractor, world, records, archive, verifier>>

-----------------------------------------------------------------------------
(* verify_run and restore_test.                                            *)

At(v, label) == vpc[v] = label
Goto(v, label) == vpc' = [vpc EXCEPT ![v] = label]

ArchiveHoldsManifestOnly(r) ==   \* mutant: the inventory is not compared with the manifest
    archive[r].at = bound /\ repo = bound /\ ~archive[r].rotten

\* Every identity, digest and inventory check of a verification or a restore.
ArchiveHolds(r) ==
    archive[r].at = bound /\ repo = bound /\ archive[r].bad = {} /\ ~archive[r].rotten

\* The run is read before the lock is taken.
VerifyBegin(v) ==
    /\ At(v, "idle")
    /\ \E r \in Runs : run[r] = "succeeded" /\ vrun' = [vrun EXCEPT ![v] = r]
    /\ Goto(v, "lock")
    /\ UNCHANGED <<attachmentVars, world, lock, records, archive, backup, checked>>

\* A busy lock is a failed verification like any other.
VerifyLock(v) ==
    /\ At(v, "lock")
    /\ \/ lock = Free /\ lock' = v /\ Goto(v, "check")
       \/ lock # Free /\ Goto(v, "fail") /\ UNCHANGED lock
    /\ UNCHANGED <<attachmentVars, world, records, archive, backup, vrun, checked>>

\* The checks under the lock, which is released before the result is written.
VerifyCheck(v) ==
    /\ At(v, "check")
    /\ unrecorded' = unrecorded \cup {v}
    /\ before' = [before EXCEPT ![v] = unrecorded]
    /\ lock' = Free
    /\ Goto(v, IF ArchiveHolds(vrun[v]) THEN "ok" ELSE "fail")
    /\ UNCHANGED <<attachmentVars, world, records, archive, backup, vrun, overtaken, newest>>

\* History: a verifier has nothing to record any more.
Forget(v) ==
    /\ unrecorded' = unrecorded \ {v}
    /\ before' = [u \in Verifiers |-> IF u = v THEN {} ELSE before[u] \ {v}]

\* A result is recorded; results of older checks of the run still to be recorded are stale.
Recorded(v, result) ==
    /\ newest' = IF v \in unrecorded \ overtaken THEN [newest EXCEPT ![vrun[v]] = result]
                                                 ELSE newest
    /\ overtaken' = (overtaken \cup {u \in before[v] : vrun[u] = vrun[v]}) \ {v}
    /\ Forget(v)

VerifierIdle(v) == Goto(v, "idle") /\ vrun' = [vrun EXCEPT ![v] = NoRun]

VerifySucceeds(v) ==
    /\ At(v, "ok")
    /\ verified' = verified \cup {vrun[v]}
    /\ Recorded(v, "good")
    /\ VerifierIdle(v)
    /\ UNCHANGED <<attachmentVars, world, lock, run, covered, restored, archive, backup>>

\* _fail_verification revokes the evidence of the run.
VerifyFails(v) ==
    /\ At(v, "fail")
    /\ verified' = verified \ {vrun[v]}
    /\ Recorded(v, "bad")
    /\ VerifierIdle(v)
    /\ UNCHANGED <<attachmentVars, world, lock, run, covered, restored, archive, backup>>

\* A command times out, or the manifest cannot be read.
VerifyRaises(v) ==
    /\ At(v, "check")
    /\ Fault
    /\ lock' = Free
    /\ Goto(v, "fail")
    /\ UNCHANGED <<store, blobs, extraction, extractor, world, records, archive, backup, vrun,
                   checked>>

VerifierDies(v) ==
    /\ vpc[v] # "idle"
    /\ Fault
    /\ lock' = IF lock = v THEN Free ELSE lock
    /\ VerifierIdle(v)
    /\ Forget(v)
    /\ overtaken' = overtaken \ {v}
    /\ UNCHANGED <<store, blobs, extraction, extractor, world, records, archive, backup, newest>>

\* restore_test takes no lock.  A run without a manifest digest cannot pass; the row of a
\* test that did not pass is read by nothing.
RestoreTest ==
    /\ \E r \in Runs :
          /\ run[r] = "succeeded"
          /\ ArchiveHolds(r)
          /\ restored' = restored \cup {r}
    /\ UNCHANGED <<attachmentVars, world, lock, run, covered, verified, archive,
                   backup, verifier>>

-----------------------------------------------------------------------------
(* The world outside and the composition.                                  *)

Rot ==
    /\ Fault
    /\ \E r \in Runs : archive[r].at # "none"
                       /\ archive' = [archive EXCEPT ![r].rotten = TRUE]
    /\ UNCHANGED <<store, blobs, extraction, extractor, world, lock, records, backup, verifier>>

ReplaceRepository ==
    /\ repo = "first"
    /\ Fault
    /\ repo' = "second"
    /\ UNCHANGED <<store, blobs, extraction, extractor, bound, lock, records, archive, backup,
                   verifier>>

NoBackupStep == UNCHANGED <<world, lock, records, archive, backup, verifier>>

AttachmentStep ==
    /\ \/ Extract \/ ExtractFails \/ ExtractorDies
       \/ Classify \/ OverrideMoves \/ OverrideCommits \/ OverrideDies \/ Damage
    /\ NoBackupStep

PowerFails ==
    /\ PowerFailure
    /\ BackupEnds
    /\ vpc' = [v \in Verifiers |-> "idle"]
    /\ vrun' = [v \in Verifiers |-> NoRun]
    /\ unrecorded' = {} /\ before' = [v \in Verifiers |-> {}] /\ overtaken' = {}
    /\ UNCHANGED <<world, records, archive, newest>>

BackupStep == BackupBegin \/ SnapshotDatabase \/ Materialize \/ Create \/ CommitRun

Verify(v) ==
    \/ VerifyBegin(v) \/ VerifyLock(v) \/ VerifyCheck(v) \/ VerifySucceeds(v) \/ VerifyFails(v)
    \/ VerifyRaises(v) \/ VerifierDies(v)

Next ==
    \/ AttachmentStep \/ PowerFails
    \/ RepoInit \/ BackupStep \/ BackupRaises \/ BackupDies
    \/ \E v \in Verifiers : Verify(v)
    \/ RestoreTest
    \/ Rot \/ ReplaceRepository

Spec == Init /\ [][Next]_vars

\* Attachments are reconciled again and again, each pass goes over every message, and an
\* override whose process is alive goes on.
FairSpec ==
    /\ Spec
    /\ WF_vars(Extract /\ NoBackupStep)
    /\ \A m \in Msgs : SF_vars(ExtractBegin(m) /\ NoBackupStep)
    /\ WF_vars(OverrideCommits /\ NoBackupStep)

-----------------------------------------------------------------------------
(* Properties.                                                             *)

BackupTypeOK ==
    /\ repo \in {"none", "first", "second"} /\ bound \in {"none", "first", "second"}
    /\ lock \in Verifiers \cup {Free, "backup"}
    /\ run \in [Runs -> {"none", "running", "succeeded", "failed"}]
    /\ covered \in [Runs -> SUBSET Msgs] /\ verified \subseteq Runs
    /\ restored \subseteq Runs
    /\ archive \in [Runs -> [at : {"none", "first", "second"}, bad : SUBSET Objects,
                             rotten : BOOLEAN]]
    /\ bpc \in {"idle", "snapshot", "materialize", "commit"} /\ brun \in Runs \cup {NoRun}
    /\ snapshot \in [Msgs -> Trees \cup {"staging"}]
    /\ todo \subseteq objects /\ objects \subseteq Objects
    /\ vpc \in [Verifiers -> {"idle", "lock", "check", "ok", "fail"}]
    /\ vrun \in [Verifiers -> Runs \cup {NoRun}]
    /\ overtaken \subseteq unrecorded /\ unrecorded \subseteq Verifiers
    /\ before \in [Verifiers -> SUBSET unrecorded]
    /\ newest \in [Runs -> {"none", "good", "bad"}]

\* Type correctness of the catalogue, the repository and the processes.
TypeOK == AttachmentsTypeOK /\ BackupTypeOK

\* Evidence a deletion may rest on: a run that was verified, or restored, holds the bytes
\* that were recorded of every message it covers, unless its archive rotted afterwards.
\* The files may be damaged, moved or reclassified at any moment of the backup.
EvidenceMeansBytes ==
    \A r \in Runs :
        r \in verified \cup restored /\ ~archive[r].rotten =>
            archive[r].at = bound /\ archive[r].bad \cap covered[r] = {}

\* The evidence of a run follows its newest recorded check: a later failed verification
\* revokes it.
VerifiedEvidenceHolds == \A r \in verified : newest[r] = "good"

=============================================================================
