\* One job, two publishers, two handlers, one fault.
CONSTANTS
    p1 = p1
    p2 = p2
    h1 = h1
    h2 = h2
    Jobs <- MCJobs
    Publishers <- MCPublishers
    Handlers <- MCHandlers
    BatchLimit = 2
    MaxPublishAttempts = 2
    MaxAttempts = 4
    MaxFaults = 1
    MaxHeartbeats = 1
SPECIFICATION FairSpec
CHECK_DEADLOCK FALSE
INVARIANTS
    ClaimedAtMostOnce
    NoJobSwallowed
    PublishedIsNeverLost
PROPERTIES
    ImplementsLifecycle
    PublishedIsDecided
