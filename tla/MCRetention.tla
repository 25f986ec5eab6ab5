----------------------------- MODULE MCRetention -----------------------------
(* Small instances of Retention for TLC. *)
EXTENDS Retention, TLC

\* Every value of every fact, one deviation of each kind.
AllFacts ==
    [enabled    |-> BOOLEAN,
     present    |-> BOOLEAN,
     identity   |-> {"proven", "unproven", "incomplete", "incoherent"},
     link       |-> {"one", "none", "foreign"},
     state      |-> {"pending", "archived", "quarantined"},
     archivedAt |-> {0, 1, Missing, Invalid},
     file       |-> {"good", "bad", "missing", "outside"},
     integrity  |-> {"verified", "failed"},
     days       |-> {Never, 0, 1}]

Interchangeable == Permutations(Procs) \cup Permutations(Repos)

=============================================================================
