\* The documented effect of a lost authority.
CONSTANTS
    p1 = p1
    p2 = p2
    h1 = h1
    h2 = h2
    Jobs <- MCJobs
    Publishers <- MCPublishers
    Handlers <- MCHandlers
    BatchLimit = 2
    MaxPublishAttempts = 2
    MaxAttempts = 4
    MaxFaults = 1
    MaxHeartbeats = 1
SPECIFICATION Spec
CHECK_DEADLOCK FALSE
PROPERTIES
    StartsOnlyWithAuthority
