SPECIFICATION FairSpec
CONSTANTS
    Names = {n1, n2, n3}
    Callers = {c1, c2, c3, c4}
    Limit = 1
INVARIANTS
    SlotsAccounted
    OneForgePerName
    ForgesYield
PROPERTY
    EveryCallAnswered
    ImplementsPool
CHECK_DEADLOCK FALSE
