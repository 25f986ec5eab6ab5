CONSTANTS
    Msgs = {m1}
    NoMsg = NoMsg
    MaxFaults = 2
    MaxRuns = 2
    Verifiers = {v1}
    Free = Free
SPECIFICATION FairSpec
CHECK_DEADLOCK FALSE
INVARIANTS
    TypeOK
    EvidenceMeansBytes
    LinkedBlobIsDurable
PROPERTY AttachmentsAreExtracted
