SPECIFICATION Spec
CONSTANTS
    Leaves = {a, b}
    Group = group
    GroupLeaves = {a}
    Form = form
    WaitKeys = {a, form}
    Waiters = {w1, s1}
    Submitters = {s1}
    Values = {v0, v1}
    Default = v0
    None = none
    MaxActs = 4
INVARIANTS
    TypeOK
    CountsExact
    ErrorsAreLatest
PROPERTIES
    SubmitSeesLanded
    SettledIsQuiet
    WaitsEnd
    LatestEditWins
