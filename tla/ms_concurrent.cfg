CONSTANTS
    Procs = {e1, e2}
    ManualProcs = {e1}
    MaxCrashes = 1
    MaxPowerFailures = 0
    MaxDamage = 1
SPECIFICATION Spec
CHECK_DEADLOCK FALSE
INVARIANT RowPointsToBytes
PROPERTY LastGoodCopyKept
