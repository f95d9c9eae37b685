SPECIFICATION MCSpec
CONSTANTS
    Run = {r1}
    Call = {c1, c2}
    Upload = {u1, u2}
    Pdf = {f1, f2}
    NoPdf = NoPdf
    NoCall = NoCall
    Capacity = 2
    MaxExit = 1
INVARIANTS
    ClaimMatchesCall
    ReviewedAsStored
PROPERTIES
    EndedIsFinal
    RunsEnd
CHECK_DEADLOCK FALSE
