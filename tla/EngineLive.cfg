SPECIFICATION LiveSpec
CONSTANTS
    Takeover = FALSE
    MaxGen = 2
    MaxInk = 1
    MaxEpoch = 2
PROPERTIES
    PatienceEnds
    LockEnds
