CONSTANTS
    Procs = {e1, e2}
    FactSpace <- AllFacts
    Required = 2
    Repos = {r1, r2}
    MaxTime = 1
SYMMETRY Interchangeable
SPECIFICATION Spec
CHECK_DEADLOCK FALSE
INVARIANTS
    FailClosed
PROPERTY TimeNeverProtects
