SPECIFICATION Spec
CONSTANTS
    Events = {e1}
    Genesis = Genesis
    Torn = Torn
    MaxSeq = 1
    MaxCrashes = 1
INVARIANT VerifyChecksEntireLog
CHECK_DEADLOCK FALSE
