\* Two founders, one of them a lawyer, an administrator, and three changes,
\* one by a client that names the version that comes next.
CONSTANTS
    Member = {f1, f2, u1}
    Founder = {f1, f2}
    Change = {k1, k2, k3}
    Invitation = {}
    Acceptance = {}
    ETag = {1, 2}
    Dispatcher = {}
    MaxClaims = 0
    NoRequest = NoRequest
    NoMember = NoMember
    Tenant = {}
    Batch = {}
    MaxGeneration = 0
SPECIFICATION MCSpec
SYMMETRY MCSymmetry
CHECK_DEADLOCK FALSE
CONSTRAINT MCTwoAtATime
INVARIANTS
    AlwaysAnOwner
