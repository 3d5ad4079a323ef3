SPECIFICATION LiveSpec
CONSTANTS
    MaxEpoch = 3
    MaxSends = 7
    EagerEpochs = 2
    EagerSends = 3
    MaxQueue = 2
INVARIANTS
    TypeOK
    EventTokensMoveOn
    ReadyOncePerToken
    EventsEchoTheirCommand
    LastReportIsTrue
PROPERTIES
    RecallIsAnswered
