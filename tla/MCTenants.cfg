\* Two founders and one more user; two changes, an invitation with two
\* acceptances, and two dispatchers; and apart from them two tenants and two
\* batches of the rollout.
CONSTANTS
    Member = {f1, f2, u1}
    Founder = {f1, f2}
    Change = {k1, k2}
    Invitation = {i1}
    Acceptance = {a1, a2}
    ETag = {1, 2}
    Dispatcher = {d1, d2}
    MaxClaims = 2
    NoRequest = NoRequest
    NoMember = NoMember
    Tenant = {t1, t2}
    Batch = {b1, b2}
    MaxGeneration = 2
SPECIFICATION MCSpec
SYMMETRY MCSymmetry
CHECK_DEADLOCK FALSE
CONSTRAINTS
    MCTwoAtATime
    MCOutboxLast
INVARIANTS
    TransitionIsWhole
    AppliedIsGranted
PROPERTIES
    LastOwnerStays
    AuthorityIsCurrent
    JoinsOnce
    SettledIsInvalidated
