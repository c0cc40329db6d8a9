SPECIFICATION Spec
CONSTANTS
    Hosts = {h1, h2}
    EventCap = 1
    MaxWrites = 3
    MaxTears = 1
SYMMETRY HostSymmetry
INVARIANT
    PersistedIsReplayed
