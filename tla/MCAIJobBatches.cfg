\* Two rows, two publishers and no worker: batches that outlive their claims.
CONSTANTS
    p1 = p1
    p2 = p2
    h1 = h1
    h2 = h2
    Jobs <- MCTwoJobs
    Publishers <- MCPublishers
    Handlers <- MCNoHandler
    BatchLimit = 2
    MaxPublishAttempts = 1
    MaxAttempts = 4
    MaxFaults = 1
    MaxHeartbeats = 0
SPECIFICATION FairSpec
CHECK_DEADLOCK FALSE
INVARIANTS
    OneClaimHolder
PROPERTIES
    OutboxSettles
