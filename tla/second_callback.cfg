SPECIFICATION Spec
CONSTANTS
    Handlers = {h1, h2, h3}
    NoError = none
    WithOnError = {h1, h2}
    MaxGen = 2
    MaxTransforms = 1
INVARIANT OneAtATime
