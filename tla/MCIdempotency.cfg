\* Three requests on two keys, one of them of an operation that reads first.
CONSTANTS
    k1 = k1
    k2 = k2
    f1 = f1
    f2 = f2
    a1 = a1
    a2 = a2
    a3 = a3
    Free = Free
    NoResult = NoResult
    Keys <- MCKeys
    ReadsFirst <- MCReadsFirst
    Fingerprints <- MCFingerprints
    Attempts <- MCAttempts
SPECIFICATION FairSpec
CHECK_DEADLOCK FALSE
INVARIANTS
    RowTellsTheWrite
    SameAnswer
PROPERTIES
    RetryIsReplayed
    EveryAttemptAnswered
