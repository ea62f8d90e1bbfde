SPECIFICATION Spec
CONSTANTS
    Fields = {a, b}
    Root = root
    Unions = {}
    Values = {v0, v1}
    Default = v0
    SyncVariants = {}
    Slots = {s1, s2, s3}
    Callers = {}
    CallKinds = {}
    Resettable = {}
    None = none
    Unjudged = unjudged
    SubtreeScope = FALSE
    NeedsAsync = TRUE
    AdapterThrows = FALSE
    MaxEpoch = 3
    MaxGen = 1
INVARIANTS
    VerdictsCurrent
PROPERTIES
    VerdictArrives
    IndicatorClears
CHECK_DEADLOCK FALSE
