SPECIFICATION FairSpec
CONSTANTS
    Callers = {a, b}
    Engines = {k1, k2}
    NoEngine = NoEngine
    NoProcess = NoProcess
    MaxEvents = 3
INVARIANTS
    LatchOwned
    SingleSpawn
PROPERTY Obeyed
CHECK_DEADLOCK FALSE
