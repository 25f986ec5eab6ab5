CONSTANTS
    Kinds = {"imap", "gmail", "pop3"}
    LateKinds = {"imap"}
    MaxEdits = 1
SPECIFICATION Spec
CHECK_DEADLOCK FALSE
INVARIANTS
    FailureLeavesNoMark
PROPERTY
    ImplementsContract
