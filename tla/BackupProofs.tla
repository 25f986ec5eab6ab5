---------------------------- MODULE BackupProofs ----------------------------
(***************************************************************************)
(* Proofs about attachments, backups and their evidence (BackupEvidence    *)
(* over Attachments): type correctness, durability of recorded blobs, and  *)
(* what a verified or restored run proves.                                 *)
(***************************************************************************)
EXTENDS BackupEvidence, TLAPS

-----------------------------------------------------------------------------
(* Attachments: types and durability.                                      *)

\* A running extraction has a message.
ExtractorBusy == xpc # "idle" => xmsg \in Msgs

\* The blob file is durable, unless it is between its link and the sync of its directory, or
\* an extraction has ended there.
BlobIsDurable ==
    /\ blob # "absent" => orphan \/ durable \/ xpc = "fsync"
    /\ xpc = "fsync" => blob # "absent"
    /\ xpc = "commit" => orphan \/ (blob # "absent" /\ durable)

AttachmentsInv == AttachmentsTypeOK /\ ExtractorBusy /\ BlobIsDurable /\ LinkedBlobIsDurable

LEMMA FaultType ==
    ASSUME AttachmentsTypeOK, Fault
    PROVE  faults' \in 0..MaxFaults
BY AttachmentsAssumption DEF AttachmentsTypeOK, Fault

LEMMA AttachmentsInitType == AttachmentsInit => AttachmentsTypeOK
<1> SUFFICES ASSUME AttachmentsInit
             PROVE  AttachmentsTypeOK
    OBVIOUS
<1>1. row \in [Msgs -> Trees \cup {"staging"}] /\ where \in [Msgs -> Trees \cup {"staging"}]
    BY DEF AttachmentsInit
<1>2. faults \in 0..MaxFaults
    BY AttachmentsAssumption DEF AttachmentsInit
<1>3. intact \in [Msgs -> BOOLEAN] /\ durable \in BOOLEAN /\ orphan \in BOOLEAN
    BY DEF AttachmentsInit
<1> QED
    BY <1>1, <1>2, <1>3 DEF AttachmentsInit, AttachmentsTypeOK

LEMMA ExtractType ==
    ASSUME AttachmentsTypeOK, ExtractorBusy, Extract \/ ExtractFails \/ ExtractorDies
    PROVE  AttachmentsTypeOK'
<1> USE DEF AttachmentsTypeOK, store, blobs, extraction, extractor, Idle, LeavesOrphan, RecordFailure
<1>1. CASE \E m \in Msgs : ExtractBegin(m)
    BY <1>1, FaultType DEF ExtractBegin, Final
<1>2. CASE ExtractRead
    BY <1>2 DEF ExtractRead
<1>3. CASE Install
    BY <1>3 DEF Install
<1>4. CASE FsyncDirectory
    BY <1>4 DEF FsyncDirectory
<1>5. CASE CommitExtraction
    BY <1>5 DEF CommitExtraction, ExtractorBusy
<1>6. CASE ExtractFails
    BY <1>6, FaultType DEF ExtractFails
<1>7. CASE ExtractorDies
    BY <1>7, FaultType DEF ExtractorDies
<1> QED
    BY <1>1, <1>2, <1>3, <1>4, <1>5, <1>6, <1>7 DEF Extract

LEMMA FilesType ==
    ASSUME AttachmentsTypeOK,
           \/ Classify \/ OverrideMoves \/ OverrideCommits \/ OverrideDies \/ Damage
           \/ PowerFailure
    PROVE  AttachmentsTypeOK'
<1> USE DEF AttachmentsTypeOK, store, blobs, extraction, extractor, Idle, LeavesOrphan
<1>1. CASE Classify
    BY <1>1 DEF Classify, Trees
<1>2. CASE OverrideMoves
  <2>1. PICK m \in Msgs : moving' = m /\ where' = [where EXCEPT ![m] = CHOOSE t \in Trees : t # row[m]]
    BY <1>2 DEF OverrideMoves, Final
  <2>2. (CHOOSE t \in Trees : t # row[m]) \in Trees
    <3>1. \E t \in Trees : t # row[m]
      BY DEF Trees
    <3> QED
      BY <3>1
  <2>3. where' \in [Msgs -> Trees \cup {"staging"}]
    BY <2>1, <2>2
  <2> QED
    BY <1>2, <2>1, <2>3, FaultType DEF OverrideMoves
<1>3. CASE OverrideCommits
    BY <1>3 DEF OverrideCommits
<1>4. CASE Damage
    BY <1>4, FaultType DEF Damage
<1>5. CASE PowerFailure
  <2>1. where' \in [Msgs -> Trees \cup {"staging"}]
    BY <1>5 DEF PowerFailure
  <2> QED
    BY <1>5, <2>1, FaultType DEF PowerFailure
<1>6. CASE OverrideDies
    BY <1>6, FaultType DEF OverrideDies
<1> QED
    BY <1>1, <1>2, <1>3, <1>4, <1>5, <1>6

LEMMA InitAttachments == AttachmentsInit => AttachmentsInv
BY AttachmentsInitType
   DEF AttachmentsInit, AttachmentsInv, ExtractorBusy, BlobIsDurable, LinkedBlobIsDurable

LEMMA NextAttachments ==
    ASSUME AttachmentsInv,
           \/ Extract \/ ExtractFails \/ ExtractorDies
           \/ Classify \/ OverrideMoves \/ OverrideCommits \/ OverrideDies \/ Damage
           \/ PowerFailure
           \/ UNCHANGED <<blobs, extraction, extractor>>
    PROVE  ExtractorBusy' /\ BlobIsDurable' /\ LinkedBlobIsDurable'
<1> USE DEF AttachmentsInv, AttachmentsTypeOK, ExtractorBusy, BlobIsDurable, LinkedBlobIsDurable,
            blobs, extraction, extractor, Idle, LeavesOrphan, RecordFailure
<1>1. CASE \E m \in Msgs : ExtractBegin(m)
    BY <1>1 DEF ExtractBegin
<1>2. CASE ExtractRead
    BY <1>2 DEF ExtractRead
<1>3. CASE Install
    BY <1>3 DEF Install
<1>4. CASE FsyncDirectory
    BY <1>4 DEF FsyncDirectory
<1>5. CASE CommitExtraction
    BY <1>5 DEF CommitExtraction
<1>6. CASE ExtractFails \/ ExtractorDies
    BY <1>6 DEF ExtractFails, ExtractorDies
<1>7. CASE Classify \/ OverrideMoves \/ OverrideCommits \/ OverrideDies
    BY <1>7 DEF Classify, OverrideMoves, OverrideCommits, OverrideDies
<1>8. CASE Damage
    BY <1>8 DEF Damage
<1>9. CASE PowerFailure
    BY <1>9 DEF PowerFailure
<1>10. CASE UNCHANGED <<blobs, extraction, extractor>>
    BY <1>10
<1> QED
    BY <1>1, <1>2, <1>3, <1>4, <1>5, <1>6, <1>7, <1>8, <1>9, <1>10 DEF Extract

-----------------------------------------------------------------------------
(* Backups: the inductive invariant.                                       *)

\* A backup under way owns a run that is recorded as running, of a bound repository.
BackupOwnsRun == bpc # "idle" => brun \in Runs /\ run[brun] = "running" /\ bound # "none"

\* The archive of a run holds what its manifest lists, unless it rotted.
Holds(r) == ~archive[r].rotten => archive[r].at = bound /\ archive[r].bad = {}

\* A verifier works on a run that succeeded, and between a check and its record the archive
\* stays as it was checked.
VerifierOwnsRun ==
    \A v \in Verifiers : vpc[v] # "idle" =>
        /\ vrun[v] \in Runs
        /\ run[vrun[v]] = "succeeded"
        /\ vpc[v] = "ok" => Holds(vrun[v])

\* The repository of a run that succeeded is bound, so repo_init cannot bind another.
SucceededIsBound == \A r \in Runs : run[r] = "succeeded" => bound # "none"

\* Evidence is given to succeeded runs whose archive held everything.
EvidenceHolds == \A r \in verified \cup restored : run[r] = "succeeded" /\ Holds(r)

RunInv == BackupOwnsRun /\ VerifierOwnsRun /\ SucceededIsBound /\ EvidenceHolds

LEMMA InitBackup == Init => BackupTypeOK /\ RunInv
<1> SUFFICES ASSUME Init
             PROVE  BackupTypeOK /\ RunInv
    OBVIOUS
<1>1. NoArchive \in [at : {"none", "first", "second"}, bad : SUBSET Objects, rotten : BOOLEAN]
    BY DEF NoArchive
<1>2. BackupTypeOK
    BY <1>1 DEF Init, BackupTypeOK
<1>3. RunInv
    BY DEF Init, RunInv, BackupOwnsRun, VerifierOwnsRun, SucceededIsBound, EvidenceHolds
<1> QED
    BY <1>2, <1>3

\* What the steps of backup_run do to types and runs.
LEMMA BackupSteps ==
    ASSUME AttachmentsTypeOK, BackupTypeOK, RunInv,
           RepoInit \/ BackupStep \/ BackupRaises \/ BackupDies
    PROVE  BackupTypeOK' /\ RunInv'
<1> USE DEF BackupTypeOK, world, records, backup, verifier, checked, BackupEnds, BackupFails
<1> USE DEF RunInv, BackupOwnsRun, VerifierOwnsRun, SucceededIsBound, EvidenceHolds, Holds
<1>0. NoRun \notin Runs
    BY BackupAssumption DEF NoRun, Runs
<1>1. CASE RepoInit
  <2>1. BackupTypeOK'
    BY <1>1 DEF RepoInit
  <2>2. RunInv'
    BY <1>1 DEF RepoInit
  <2> QED
    BY <2>1, <2>2
<1>2. CASE BackupBegin
  <2>1. PICK r \in Runs :
            /\ run[r] = "none" /\ brun' = r
            /\ run' = [s \in Runs |-> CASE s = r -> "running"
                                        [] s # r /\ run[s] = "running" -> "failed"
                                        [] OTHER -> run[s]]
    BY <1>2 DEF BackupBegin
  <2>2. run' \in [Runs -> {"none", "running", "succeeded", "failed"}]
    BY <2>1
  <2>3. run'[r] = "running" /\ \A s \in Runs : run[s] = "succeeded" <=> run'[s] = "succeeded"
    BY <2>1
  <2>4. BackupTypeOK'
    BY <1>2, <2>1, <2>2 DEF BackupBegin
  <2>5. UNCHANGED <<bound, verified, restored, archive, vpc, vrun>> /\ bound # "none"
    BY <1>2 DEF BackupBegin
  <2>6. RunInv'
    BY <2>1, <2>3, <2>5
  <2> QED
    BY <2>4, <2>6
<1>3. CASE SnapshotDatabase
  <2>1. Final \subseteq Msgs /\ Final \cup {Blob} \subseteq Objects
    BY DEF Final, Objects
  <2>2. BackupTypeOK'
    BY <1>3, <2>1 DEF SnapshotDatabase, AttachmentsTypeOK
  <2>3. RunInv'
    BY <1>3 DEF SnapshotDatabase
  <2> QED
    BY <2>2, <2>3
<1>4. ASSUME bpc # "idle", BackupFails
      PROVE  BackupTypeOK' /\ RunInv'
  <2>1. BackupTypeOK'
    BY <1>4 DEF Trees
  <2>2. RunInv'
    BY <1>4
  <2> QED
    BY <2>1, <2>2
<1>5. CASE Materialize
  <2>1. CASE BackupFails
    BY <1>4, <1>5, <2>1 DEF Materialize
  <2>2. CASE ~BackupFails
    <3>1. /\ todo' \subseteq todo
          /\ UNCHANGED <<world, lock, records, archive, bpc, brun, snapshot, objects, verifier>>
      BY <1>5, <2>2 DEF Materialize
    <3> QED
      BY <3>1
  <2> QED
    BY <2>1, <2>2
<1>6. CASE Create
  <2>1. PICK bad \in SUBSET Damaged :
            archive' = [archive EXCEPT ![brun] = [at |-> repo, bad |-> bad, rotten |-> FALSE]]
    BY <1>6 DEF Create
  <2>2. [at |-> repo, bad |-> bad, rotten |-> FALSE]
            \in [at : {"none", "first", "second"}, bad : SUBSET Objects, rotten : BOOLEAN]
    BY DEF Damaged
  <2>3. BackupTypeOK'
    BY <1>6, <2>1, <2>2 DEF Create
  <2>4. \A r \in Runs : run[r] = "succeeded" => archive'[r] = archive[r]
    BY <1>6, <2>1 DEF Create
  <2>5. UNCHANGED <<bound, run, verified, restored, vpc, vrun, brun>> /\ bpc # "idle"
    BY <1>6 DEF Create
  <2>6. RunInv'
    BY <2>4, <2>5
  <2> QED
    BY <2>3, <2>6
<1>7. CASE CommitRun
  <2>1. BackupTypeOK'
    BY <1>7 DEF CommitRun, Trees
  <2>2. RunInv'
    BY <1>7 DEF CommitRun
  <2> QED
    BY <2>1, <2>2
<1>8. CASE BackupRaises
    BY <1>4, <1>8 DEF BackupRaises
<1>9. CASE BackupDies
  <2>1. BackupTypeOK'
    BY <1>9 DEF BackupDies, Trees
  <2>2. RunInv'
    BY <1>9 DEF BackupDies
  <2> QED
    BY <2>1, <2>2
<1> QED
    BY <1>1, <1>2, <1>3, <1>5, <1>6, <1>7, <1>8, <1>9 DEF BackupStep

LEMMA ForgetType ==
    ASSUME BackupTypeOK, NEW v, Forget(v)
    PROVE  /\ unrecorded' = unrecorded \ {v}
           /\ before' \in [Verifiers -> SUBSET unrecorded']
BY DEF BackupTypeOK, Forget

LEMMA RecordedType ==
    ASSUME BackupTypeOK, NEW v \in Verifiers, vrun[v] \in Runs, NEW result \in {"good", "bad"},
           Recorded(v, result)
    PROVE  /\ overtaken' \subseteq unrecorded' /\ unrecorded' \subseteq Verifiers
           /\ before' \in [Verifiers -> SUBSET unrecorded']
           /\ newest' \in [Runs -> {"none", "good", "bad"}]
<1>1. /\ unrecorded' = unrecorded \ {v}
      /\ before' \in [Verifiers -> SUBSET unrecorded']
    BY ForgetType DEF Recorded
<1>2. before[v] \subseteq unrecorded
    BY DEF BackupTypeOK
<1> QED
    BY <1>1, <1>2 DEF Recorded, BackupTypeOK

\* What the steps of verify_run do to types and runs.
LEMMA VerifySteps ==
    ASSUME AttachmentsTypeOK, BackupTypeOK, RunInv, NEW v \in Verifiers, Verify(v)
    PROVE  BackupTypeOK' /\ RunInv'
<1> USE DEF world, records, backup, verifier, checked, At, Goto, VerifierIdle
<1>1. CASE VerifyBegin(v)
  <2>1. PICK r \in Runs : run[r] = "succeeded" /\ vrun' = [vrun EXCEPT ![v] = r]
    BY <1>1 DEF VerifyBegin
  <2>2. BackupTypeOK'
    BY <1>1, <2>1 DEF VerifyBegin, BackupTypeOK
  <2>3. vpc'[v] = "lock" /\ vrun'[v] = r
    BY <1>1, <2>1 DEF VerifyBegin, BackupTypeOK
  <2>4. \A u \in Verifiers \ {v} : vpc'[u] = vpc[u] /\ vrun'[u] = vrun[u]
    BY <1>1, <2>1 DEF VerifyBegin, BackupTypeOK
  <2>5. UNCHANGED <<bound, run, verified, restored, archive, bpc, brun>>
    BY <1>1 DEF VerifyBegin
  <2>6. RunInv'
    BY <2>1, <2>3, <2>4, <2>5
       DEF RunInv, BackupOwnsRun, VerifierOwnsRun, SucceededIsBound, EvidenceHolds, Holds
  <2> QED
    BY <2>2, <2>6
<1>2. CASE VerifyLock(v) \/ VerifyRaises(v)
  <2>1. BackupTypeOK'
    BY <1>2 DEF VerifyLock, VerifyRaises, BackupTypeOK
  <2>2. vpc[v] # "idle" /\ vpc'[v] \in {"check", "fail"}
    BY <1>2 DEF VerifyLock, VerifyRaises, BackupTypeOK
  <2>3. \A u \in Verifiers \ {v} : vpc'[u] = vpc[u]
    BY <1>2 DEF VerifyLock, VerifyRaises, BackupTypeOK
  <2>4. UNCHANGED <<bound, run, verified, restored, archive, bpc, brun, vrun>>
    BY <1>2 DEF VerifyLock, VerifyRaises
  <2>5. RunInv'
    BY <2>2, <2>3, <2>4
       DEF RunInv, BackupOwnsRun, VerifierOwnsRun, SucceededIsBound, EvidenceHolds, Holds
  <2> QED
    BY <2>1, <2>5
<1>3. CASE VerifyCheck(v)
  <2>1. BackupTypeOK'
    BY <1>3 DEF VerifyCheck, BackupTypeOK
  <2>2. vpc[v] = "check" /\ vpc'[v] \in {"ok", "fail"} /\ (vpc'[v] = "ok" => ArchiveHolds(vrun[v]))
    BY <1>3 DEF VerifyCheck, BackupTypeOK
  <2>3. \A u \in Verifiers \ {v} : vpc'[u] = vpc[u]
    BY <1>3 DEF VerifyCheck, BackupTypeOK
  <2>4. UNCHANGED <<bound, run, verified, restored, archive, bpc, brun, vrun>>
    BY <1>3 DEF VerifyCheck
  <2>5. RunInv'
    BY <2>2, <2>3, <2>4 DEF RunInv, BackupOwnsRun, VerifierOwnsRun, SucceededIsBound, EvidenceHolds,
                            Holds, ArchiveHolds
  <2> QED
    BY <2>1, <2>5
<1>4. CASE VerifySucceeds(v) \/ VerifyFails(v)
  <2>1. vpc[v] # "idle" /\ vrun[v] \in Runs
    BY <1>4 DEF VerifySucceeds, VerifyFails, RunInv, VerifierOwnsRun
  <2>2. /\ overtaken' \subseteq unrecorded' /\ unrecorded' \subseteq Verifiers
        /\ before' \in [Verifiers -> SUBSET unrecorded']
        /\ newest' \in [Runs -> {"none", "good", "bad"}]
    BY <1>4, <2>1, RecordedType DEF VerifySucceeds, VerifyFails
  <2>3. BackupTypeOK'
    BY <1>4, <2>1, <2>2 DEF VerifySucceeds, VerifyFails, BackupTypeOK
  <2>4. vpc'[v] = "idle" /\ \A u \in Verifiers \ {v} : vpc'[u] = vpc[u] /\ vrun'[u] = vrun[u]
    BY <1>4 DEF VerifySucceeds, VerifyFails, BackupTypeOK
  <2>5. UNCHANGED <<bound, run, restored, archive, bpc, brun>>
    BY <1>4 DEF VerifySucceeds, VerifyFails
  <2>6. \A r \in verified' : r \in verified \/ (r = vrun[v] /\ vpc[v] = "ok")
    BY <1>4 DEF VerifySucceeds, VerifyFails
  <2>7. EvidenceHolds'
    BY <2>1, <2>5, <2>6 DEF RunInv, VerifierOwnsRun, EvidenceHolds, Holds
  <2>8. RunInv'
    BY <2>4, <2>5, <2>7 DEF RunInv, BackupOwnsRun, VerifierOwnsRun, SucceededIsBound, Holds
  <2> QED
    BY <2>3, <2>8
<1>5. CASE VerifierDies(v)
  <2>1. /\ unrecorded' = unrecorded \ {v}
        /\ before' \in [Verifiers -> SUBSET unrecorded']
    BY <1>5, ForgetType DEF VerifierDies
  <2>2. BackupTypeOK'
    BY <1>5, <2>1 DEF VerifierDies, BackupTypeOK
  <2>3. vpc'[v] = "idle" /\ \A u \in Verifiers \ {v} : vpc'[u] = vpc[u] /\ vrun'[u] = vrun[u]
    BY <1>5 DEF VerifierDies, BackupTypeOK
  <2>4. UNCHANGED <<bound, run, verified, restored, archive, bpc, brun>>
    BY <1>5 DEF VerifierDies
  <2>5. RunInv'
    BY <2>3, <2>4
       DEF RunInv, BackupOwnsRun, VerifierOwnsRun, SucceededIsBound, EvidenceHolds, Holds
  <2> QED
    BY <2>2, <2>5
<1> QED
    BY <1>1, <1>2, <1>3, <1>4, <1>5 DEF Verify

\* Restores, rot, a replaced destination and a power failure.
LEMMA WorldSteps ==
    ASSUME AttachmentsTypeOK, BackupTypeOK, RunInv,
           RestoreTest \/ Rot \/ ReplaceRepository \/ PowerFails
    PROVE  BackupTypeOK' /\ RunInv'
<1> USE DEF world, records, backup, verifier, checked
<1>1. CASE RestoreTest
  <2>1. PICK r \in Runs : run[r] = "succeeded" /\ ArchiveHolds(r) /\ restored' = restored \cup {r}
    BY <1>1 DEF RestoreTest
  <2>2. BackupTypeOK'
    BY <1>1, <2>1 DEF RestoreTest, BackupTypeOK
  <2>3. RunInv'
    BY <1>1, <2>1 DEF RestoreTest, RunInv, BackupOwnsRun, VerifierOwnsRun, SucceededIsBound,
                      EvidenceHolds, Holds, ArchiveHolds
  <2> QED
    BY <2>2, <2>3
<1>2. CASE Rot
  <2>1. PICK r \in Runs : archive' = [archive EXCEPT ![r].rotten = TRUE]
    BY <1>2 DEF Rot
  <2>2. BackupTypeOK'
    BY <1>2, <2>1 DEF Rot, BackupTypeOK
  <2>3. archive'[r].rotten = TRUE /\ \A s \in Runs \ {r} : archive'[s] = archive[s]
    BY <2>1 DEF BackupTypeOK
  <2>4. UNCHANGED <<bound, run, verified, restored, bpc, brun, vpc, vrun>>
    BY <1>2 DEF Rot
  <2>5. \A s \in Runs : Holds(s) => Holds(s)'
    BY <2>3, <2>4 DEF Holds
  <2>6. RunInv'
    BY <2>4, <2>5 DEF RunInv, BackupOwnsRun, VerifierOwnsRun, SucceededIsBound, EvidenceHolds,
                      BackupTypeOK
  <2> QED
    BY <2>2, <2>6
<1>3. CASE ReplaceRepository
  <2>1. BackupTypeOK'
    BY <1>3 DEF ReplaceRepository, BackupTypeOK
  <2>2. RunInv'
    BY <1>3 DEF ReplaceRepository, RunInv, BackupOwnsRun, VerifierOwnsRun, SucceededIsBound,
                EvidenceHolds, Holds
  <2> QED
    BY <2>1, <2>2
<1>4. CASE PowerFails
  <2>1. BackupTypeOK'
    BY <1>4 DEF PowerFails, BackupEnds, BackupTypeOK, Trees
  <2>2. RunInv'
    BY <1>4 DEF PowerFails, BackupEnds, RunInv, BackupOwnsRun, VerifierOwnsRun, SucceededIsBound,
                EvidenceHolds, Holds
  <2> QED
    BY <2>1, <2>2
<1> QED
    BY <1>1, <1>2, <1>3, <1>4

LEMMA SameBackup ==
    ASSUME BackupTypeOK, RunInv, NoBackupStep
    PROVE  BackupTypeOK' /\ RunInv'
BY DEF NoBackupStep, world, records, backup, verifier, checked, BackupTypeOK, RunInv, BackupOwnsRun,
       VerifierOwnsRun, SucceededIsBound, EvidenceHolds, Holds

BackupInv == AttachmentsInv /\ BackupTypeOK /\ RunInv

\* The steps of a backup or a verifier leave the files and the extraction alone.
LEMMA SameAttachments ==
    ASSUME AttachmentsTypeOK,
           \/ RepoInit \/ BackupStep \/ BackupRaises \/ BackupDies
           \/ \E v \in Verifiers : Verify(v)
           \/ RestoreTest \/ Rot \/ ReplaceRepository \/ UNCHANGED vars
    PROVE  AttachmentsTypeOK' /\ UNCHANGED <<blobs, extraction, extractor>>
<1>1. UNCHANGED <<store, blobs, extraction, extractor>> /\ (UNCHANGED faults \/ Fault)
    BY DEF RepoInit, BackupStep, BackupBegin, SnapshotDatabase, Materialize, Create, CommitRun,
           BackupRaises, BackupDies, Verify, VerifyBegin, VerifyLock, VerifyCheck, VerifySucceeds,
           VerifyFails, VerifyRaises, VerifierDies, RestoreTest, Rot, ReplaceRepository, vars,
           attachmentVars
<1> QED
    BY <1>1, FaultType DEF AttachmentsTypeOK, store, blobs, extraction, extractor

LEMMA NextBackup == BackupInv /\ [Next]_vars => BackupInv'
<1> SUFFICES ASSUME BackupInv, [Next]_vars
             PROVE  BackupInv'
    OBVIOUS
<1> USE DEF BackupInv, AttachmentsInv
<1>1. CASE AttachmentStep
  <2>1. AttachmentsTypeOK'
    BY <1>1, ExtractType, FilesType DEF AttachmentStep
  <2>2. ExtractorBusy' /\ BlobIsDurable' /\ LinkedBlobIsDurable'
    BY <1>1, NextAttachments DEF AttachmentStep
  <2> QED
    BY <1>1, <2>1, <2>2, SameBackup DEF AttachmentStep
<1>2. CASE PowerFails
  <2>1. AttachmentsTypeOK'
    BY <1>2, FilesType DEF PowerFails
  <2>2. ExtractorBusy' /\ BlobIsDurable' /\ LinkedBlobIsDurable'
    BY <1>2, NextAttachments DEF PowerFails
  <2> QED
    BY <1>2, <2>1, <2>2, WorldSteps
<1>3. CASE \/ RepoInit \/ BackupStep \/ BackupRaises \/ BackupDies
           \/ \E v \in Verifiers : Verify(v)
           \/ RestoreTest \/ Rot \/ ReplaceRepository \/ UNCHANGED vars
  <2>1. AttachmentsTypeOK' /\ UNCHANGED <<blobs, extraction, extractor>>
    BY <1>3, SameAttachments
  <2>2. ExtractorBusy' /\ BlobIsDurable' /\ LinkedBlobIsDurable'
    BY <2>1, NextAttachments
  <2>3. UNCHANGED vars => NoBackupStep
    BY DEF vars, NoBackupStep
  <2>4. BackupTypeOK' /\ RunInv'
    BY <1>3, <2>3, BackupSteps, VerifySteps, WorldSteps, SameBackup
  <2> QED
    BY <2>1, <2>2, <2>4
<1> QED
    BY <1>1, <1>2, <1>3 DEF Next

LEMMA BackupInvHolds == Spec => []BackupInv
<1>1. Init => BackupInv
    BY InitAttachments, InitBackup DEF Init, BackupInv
<1> QED
    BY <1>1, NextBackup, PTL DEF Spec

-----------------------------------------------------------------------------
\* Files, rows, archives and processes keep their types for any number of messages, runs and
\* verifiers.
THEOREM TypeCorrect == Spec => []TypeOK
<1>1. BackupInv => TypeOK
    BY DEF BackupInv, AttachmentsInv, TypeOK
<1> QED
    BY <1>1, BackupInvHolds, PTL

\* A blob that the catalogue records survives every crash and power failure, unless an
\* extraction ended between its link and its fsync (attachments.py, install_attachment_blob).
THEOREM RecordedBlobIsDurable == Spec => []LinkedBlobIsDurable
<1>1. BackupInv => LinkedBlobIsDurable
    BY DEF BackupInv, AttachmentsInv
<1> QED
    BY <1>1, BackupInvHolds, PTL

\* Verified or restored means the archive held the recorded bytes of every covered message,
\* whatever happened to files, repository and processes meanwhile (borg.py, verify_run and
\* restore_test), for any number of concurrent verifiers.
THEOREM EvidenceIsSound == Spec => []EvidenceMeansBytes
<1>1. BackupInv => EvidenceMeansBytes
    BY DEF BackupInv, RunInv, EvidenceHolds, Holds, EvidenceMeansBytes
<1> QED
    BY <1>1, BackupInvHolds, PTL

=============================================================================
