CONSTANTS
    Msgs = {1, 2}
    a1 = a1
    a2 = a2
    k1 = k1
    k2 = k2
    Accounts = {a1}
    AccountOf <- OneAccount
    LockKeys = {k1, k2}
    LockOf <- OneLock
    AccountLock <- SyncLock
    PresenceSync = {a1}
    Procs = {e1, e2}
    NoFilter = NoFilter
    MaxPlans = 1
    Limits = {1, 2}
    Filters = {a1, NoFilter}
    MaxCrashes = 1
    LateDelivery = TRUE
SYMMETRY ProcSymmetry
SPECIFICATION Spec
CHECK_DEADLOCK FALSE
INVARIANTS
    SucceededMeansGone
    LocalAbsenceIsReal
    ConfirmedDeletionStaysAbsent
    AtMostOneAttempt
    AttemptIsRecorded
    HaltedRunHasOutcome
    FirstNonSuccessHalts
PROPERTIES
    PlanUsesItsLimits
    EndedRunStaysEnded
