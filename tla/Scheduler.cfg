SPECIFICATION Spec
CONSTANTS
    MaxTasks = 2
    MaxNow = 3
    MaxEdits = 3
    MaxQueue = 2
INVARIANTS
    TypeOK
    EditsSurvive
    OneScheduler
PROPERTY
    QueuedOnce
