---------------------------- MODULE DeletionCall ----------------------------
(***************************************************************************)
(* What remote_mutation.py relies on when it calls adapter.delete for one  *)
(* message and, after an unknown outcome, adapter.observe: the contract    *)
(* every provider adapter has to keep.                                     *)
(***************************************************************************)
VARIABLES
    present,    \* the message is on the provider
    removed,    \* this call has removed it
    answer      \* what the engine may record about the call

vars == <<present, removed, answer>>

Init ==
    /\ present \in BOOLEAN
    /\ removed = FALSE
    /\ answer = "none"

\* The call takes effect, possibly after it gave up; never after it denied having done so.
CallRemoves ==
    /\ present
    /\ answer \in {"none", "unknown"}
    /\ present' = FALSE
    /\ removed' = TRUE
    /\ UNCHANGED answer

OthersRemove ==
    /\ present
    /\ present' = FALSE
    /\ UNCHANGED <<removed, answer>>

\* Success is claimed only of an absent message, failure only if the call removed nothing.
Answer(a) ==
    /\ answer \in {"none", "unknown"}
    /\ a = "success" => ~present
    /\ a = "failure" => ~removed
    /\ answer' = a
    /\ UNCHANGED <<present, removed>>

Next ==
    \/ CallRemoves
    \/ OthersRemove
    \/ \E a \in {"success", "failure", "unknown"} : Answer(a)

Spec == Init /\ [][Next]_vars

=============================================================================
