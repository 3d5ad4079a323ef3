SPECIFICATION Spec
CONSTANTS
    Takeover = FALSE
    MaxGen = 3
    MaxInk = 3
    MaxEpoch = 2
INVARIANTS
    TypeOK
    SpeculationIsExact
    HeldTurnIsCurrent
    OneRequestPerAnswer
    AnswerContactNeverInks
    ModeFollowsState
    ContactsHaveARelease
    MemoryPairsOneTurn
    PaperOwnsInk
PROPERTIES
    KeepsThePromise
