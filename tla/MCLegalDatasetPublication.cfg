SPECIFICATION Spec
CONSTANTS
    Publisher = {p1, p2}
    Run = {r1, r2, r3}
    Alias = {a1}
    Index = {i1, i2, i3}
    NoIndex = NoIndex
    NoRun = NoRun
    MaxDirect = 1
SYMMETRY Symmetry
INVARIANTS
    SentOnce
    LateSwitchIsReserved
    ServedIsRecorded
PROPERTIES
    ReplacesItsBase
    NeverBackwards

