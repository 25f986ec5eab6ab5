----------------------------- MODULE MCFastPath -----------------------------
(* Small instances of FastPath for TLC. *)
EXTENDS FastPath

\* In the first epoch the second message can never be registered.
MCBad == {<<1, 2>>}

=============================================================================
