--------------------------- MODULE MCMessageStore ---------------------------
(* Small instances of MessageStore for TLC. *)
EXTENDS MessageStore, TLC

ProcSymmetry == Permutations(Procs)

=============================================================================
