---------------------------- MODULE MCGmailSync -----------------------------
(* Small instances of GmailSync for TLC. *)
EXTENDS GmailSync

=============================================================================
