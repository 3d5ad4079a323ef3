SPECIFICATION Spec
CONSTANTS
    Takeover = FALSE
    MaxGen = 2
    MaxInk = 1
    MaxEpoch = 1
PROPERTY
    HandedOffTokenIsDead
