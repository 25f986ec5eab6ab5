CONSTANTS
    Procs = {e1}
    ManualProcs = {}
    MaxCrashes = 1
    MaxPowerFailures = 0
    MaxDamage = 0
SPECIFICATION FairSpec
CHECK_DEADLOCK FALSE
PROPERTY PendingIsResolved
