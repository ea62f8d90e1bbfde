SPECIFICATION Spec
CONSTANTS
    Last = 3
    Gates = {1}
    Seeded = {1}
    Lazy = {1}
    Subs = {s1, s2}
    None = none
    Fallible = {1}
    MaxAttempts <- Twice
    MaxResets = 1
INVARIANTS
    TypeOK
PROPERTIES
    ClearanceIsConfirmed
    PinStaysOut
    NoSkip
    AdvanceLands
    RidesItsOwn
SYMMETRY Symmetry
