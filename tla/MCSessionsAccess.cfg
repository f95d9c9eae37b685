\* Validations with a cache race a refresh, a logout and a membership change.
CONSTANTS
    s1 = s1
    s2 = s2
    t1 = t1
    t2 = t2
    t3 = t3
    m1 = m1
    r1 = r1
    r2 = r2
    v1 = v1
    NoMember = NoMember
    SessionIds <- TwoSessions
    Tokens <- TwoTokens
    Members <- OneMember
    Refreshes <- OneRefresh
    Validations <- OneValidation
    Lifetime = 1
    MaxTime = 1
    MaxAuthz = 2
SPECIFICATION Spec
CHECK_DEADLOCK FALSE
SYMMETRY ValidationSymmetry
INVARIANTS
    DeadCredentialRefused
