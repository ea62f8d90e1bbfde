SPECIFICATION Spec
CONSTANTS
    Last = 2
    Gates = {1}
    Seeded = {}
    Lazy = {}
    Subs = {s1, s2}
    None = none
    Fallible = {1}
    MaxAttempts <- FirstTwice
    MaxResets = 1
PROPERTY NeverStale
SYMMETRY Symmetry
