SPECIFICATION Spec
CONSTANTS
    Fields = {f, g}
    None = none
    ShowDelay = 2
    MinVisible = 2
    FocusOutGrace = 1
    PendingLiveness = 3
    Early = 1
    Late = 1
    MaxActs = 4
INVARIANTS
    DeadlinesCovered
PROPERTIES
    SpinnerLeaves
    AntiFlash
CHECK_DEADLOCK FALSE
