SPECIFICATION Spec
CONSTANTS
    Takeover = FALSE
    MaxGen = 2
    MaxInk = 2
    MaxEpoch = 1
INVARIANT
    LockedContactsNeverInk
