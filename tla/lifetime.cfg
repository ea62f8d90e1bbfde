SPECIFICATION Spec
CONSTANTS
    Consumers = {c1, c2, c3}
    Stores = {s1, s2}
    Runs = {r1, r2}
    None = none
INVARIANTS
    InUseIsLive
    ReportIsHonest
PROPERTIES
    UnclaimedGoes
    HydratingEnds
CHECK_DEADLOCK FALSE
