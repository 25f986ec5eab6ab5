------------------------- MODULE MCMutationAdapters -------------------------
(* Small instances of MutationAdapters for TLC. *)
EXTENDS MutationAdapters

=============================================================================
