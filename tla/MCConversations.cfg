\* Three calls that send new messages or the same one again.
CONSTANTS
    c1 = c1
    c2 = c2
    c3 = c3
    q1 = q1
    q2 = q2
    q3 = q3
    x = x
    y = y
    Nobody = Nobody
    Call = {c1, c2, c3}
    Ask <- MCAsk
    MaxPieces = 1
SYMMETRY MCSymmetry
SPECIFICATION Spec
CHECK_DEADLOCK FALSE
INVARIANTS
    AnsweredOnce
    HistoryIsWhole
    ToldIsTrue
PROPERTIES
    SettledIsFinal
