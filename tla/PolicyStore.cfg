SPECIFICATION Spec
CONSTANTS
    Hosts = {h1, h2}
    EventCap = 1
    MaxWrites = 4
    MaxTears = 1
SYMMETRY HostSymmetry
INVARIANTS
    TypeOK
    LedgerFaithful
    ListIsLedger
    DamageBounded
PROPERTY
    OpenReportsLoss
