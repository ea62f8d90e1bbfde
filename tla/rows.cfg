SPECIFICATION Spec
CONSTANTS
    Values = {"x", "y"}
    Absent = absent
    InitialRows <- TwoRows
    Lists <- Shorter
    Fetched <- Refetched
    Capacity = 3
    MaxLen = 3
    MaxWrites = 3
    MaxMarks = 1
    MaxSteps = 2
INVARIANTS
    TypeOK
    RecordsFollowRows
    HistoryIsKept
    DirtyIsTruthful
    PristineWhenBack
    KeysAgree
PROPERTIES
    MarksMove
    ImplementsUndoStack
CHECK_DEADLOCK FALSE
