SPECIFICATION Spec
CONSTANTS
    Ids = {i1, i2, i3}
    Questions = {a, b}
    MaxPending = 2
    MaxQueries = 3
SYMMETRY Symmetry
INVARIANTS
    RightAnswer
    SlotsAccounted
    PendingBounded
    StillTimed
CHECK_DEADLOCK FALSE
