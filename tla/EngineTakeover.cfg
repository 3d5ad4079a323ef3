SPECIFICATION Spec
CONSTANTS
    Takeover = TRUE
    MaxGen = 3
    MaxInk = 2
    MaxEpoch = 1
INVARIANTS
    MemoryPairsOneTurn
    HeartbeatHoldsLease
