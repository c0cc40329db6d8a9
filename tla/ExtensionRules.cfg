SPECIFICATION FairSpec
CONSTANTS
    Sites = {s1}
    Lines = {l1}
    Tiers = {t1}
    DefaultTiers = {t1}
    Slots = {o1, o2}
    Versions = 2
    Tight = {2}
    MaxEvents = 2
INVARIANTS
    TypeOK
    SettledEnforced
PROPERTIES
    ListKept
    EventuallyEnforced
CHECK_DEADLOCK FALSE
