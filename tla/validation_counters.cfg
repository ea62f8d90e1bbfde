SPECIFICATION Spec
CONSTANTS
    Fields = {u}
    Root = root
    Unions = {u}
    Values = {v0, v1}
    Default = v0
    SyncVariants = {v0}
    Slots = {s1, s2}
    Callers = {c1}
    CallKinds = {"probe", "commit", "submit"}
    Resettable = {u}
    None = none
    Unjudged = unjudged
    SubtreeScope = FALSE
    NeedsAsync = TRUE
    AdapterThrows = TRUE
    MaxEpoch = 2
    MaxGen = 1
INVARIANTS
    TypeOK
    Tracked
    NoLeak
CHECK_DEADLOCK FALSE
