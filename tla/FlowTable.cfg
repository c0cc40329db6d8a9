SPECIFICATION Spec
CONSTANTS
    Keys = {k1, k2}
    Readers = {r1, r2}
    Ticker = ticker
    Closer = closer
    MaxSessions = 1
    MaxBorn = 2
SYMMETRY Symmetry
INVARIANTS
    NoLeak
    ClosedIsEmpty
    CountersAgree
    TableBounded
CHECK_DEADLOCK FALSE
