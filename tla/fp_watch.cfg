CONSTANTS
    MaxUid = 2
    MaxEpoch = 2
    Bad <- MCBad
    MaxFaults = 2
SPECIFICATION FairSpec
CHECK_DEADLOCK FALSE
INVARIANTS
    NoNotificationLost
PROPERTIES
    NewMailIsArchived
    ArchivedIsIndexed
