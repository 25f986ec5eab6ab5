CONSTANTS
    Msgs = {1}
    a1 = a1
    a2 = a2
    k1 = k1
    k2 = k2
    Accounts = {a1}
    AccountOf <- OneAccount
    LockKeys = {k1, k2}
    LockOf <- OneLock
    AccountLock <- SyncLock
    PresenceSync = {}
    Procs = {e1}
    NoFilter = NoFilter
    MaxPlans = 1
    Limits = {2}
    Filters = {a1}
    MaxCrashes = 1
    LateDelivery = FALSE
SPECIFICATION FairSpec
CHECK_DEADLOCK FALSE
PROPERTY StartedIsResolved
