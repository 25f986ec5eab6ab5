-------------------------- MODULE MessageLifecycle --------------------------
(***************************************************************************)
(* What the archive promises about one canonical message, files, steps and *)
(* failures left out: it is admitted once as pending, the first automatic  *)
(* verdict archives or quarantines it, an operator may overrule that at    *)
(* any time, the latest override decides, and the date of its admission to *)
(* the archive is never lost.                                              *)
(***************************************************************************)
CONSTANT Verdicts

VARIABLES state, override, archivedAt

lifecycleVars == <<state, override, archivedAt>>

Verdict2State(v) == IF v = "ham" THEN "archived" ELSE "quarantined"

Init == state = "none" /\ override = "none" /\ archivedAt = FALSE

Admit ==
    /\ state = "none"
    /\ state' = "pending"
    /\ UNCHANGED <<override, archivedAt>>

Settle(v) ==
    /\ state' = Verdict2State(v)
    /\ archivedAt' = (archivedAt \/ state' = "archived")

Classify(v) ==
    /\ state = "pending"
    /\ override = "none"
    /\ Settle(v)
    /\ UNCHANGED override

Overrule(v) ==
    /\ state # "none"
    /\ override' = v
    /\ Settle(v)

Next == Admit \/ \E v \in Verdicts : Classify(v) \/ Overrule(v)

Spec == Init /\ [][Next]_lifecycleVars

=============================================================================
