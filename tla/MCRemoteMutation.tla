-------------------------- MODULE MCRemoteMutation --------------------------
(* Small instances of RemoteMutation for TLC. *)
EXTENDS RemoteMutation, TLC

CONSTANTS a1, a2, k1, k2

\* The messages of one Gmail or POP3 account, behind one lock.
OneAccount == [m \in Msgs |-> a1]
OneLock == [m \in Msgs |-> k1]
SyncLock == [a \in Accounts |-> k1]

ProcSymmetry == Permutations(Procs)

=============================================================================
