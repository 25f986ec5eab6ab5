CONSTANTS
    Msgs = {m1}
    NoMsg = NoMsg
    MaxFaults = 1
    MaxRuns = 1
    Verifiers = {v1, v2}
    Free = Free
SPECIFICATION Spec
CHECK_DEADLOCK FALSE
INVARIANT VerifiedEvidenceHolds
