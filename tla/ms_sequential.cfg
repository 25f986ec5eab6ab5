CONSTANTS
    Procs = {e1}
    ManualProcs = {e1}
    MaxCrashes = 2
    MaxPowerFailures = 2
    MaxDamage = 1
SPECIFICATION FairSpec
CHECK_DEADLOCK FALSE
INVARIANTS
    TypeOK
    RegisteredIsDurable
    QuarantineIsSeparate
PROPERTIES
    ImplementsLifecycle
    StagedIsClassified
