-------------------------- MODULE MCBackupEvidence --------------------------
(* Small instances of BackupEvidence for TLC. *)
EXTENDS BackupEvidence

=============================================================================
