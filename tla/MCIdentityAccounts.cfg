\* Two registrations, an old writer and two logins for one name.
CONSTANTS
    n1 = n1
    r1 = r1
    r2 = r2
    w1 = w1
    l1 = l1
    l2 = l2
    NoRequest = NoRequest
    Name = {n1}
    Registration = {r1, r2}
    OldWriter = {w1}
    Login = {l1, l2}
    Legacy = 1
    Config <- MCConfig
SPECIFICATION MCSpec
CHECK_DEADLOCK FALSE
INVARIANTS
    OneAccountPerName
PROPERTIES
    AccountIsFound
    EveryRequestEnds
