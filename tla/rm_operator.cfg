CONSTANTS
    Msgs = {1}
    a1 = a1
    a2 = a2
    k1 = k1
    k2 = k2
    Accounts = {a1}
    AccountOf <- OneAccount
    LockKeys = {k1}
    LockOf <- OneLock
    AccountLock <- SyncLock
    PresenceSync = {}
    Procs = {e1}
    NoFilter = NoFilter
    MaxPlans = 3
    Limits = {2}
    Filters = {a1}
    MaxCrashes = 2
    LateDelivery = FALSE
SPECIFICATION FairSpec
CHECK_DEADLOCK FALSE
INVARIANTS
    TypeOK
    RemovalIsNeverRecordedAsFailure
    NoOverlappingAttempt
PROPERTIES
    ResolvedIsFinal
    UnknownIsResolved
