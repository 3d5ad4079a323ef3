SPECIFICATION Spec
CONSTANTS
    MaxTasks = 1
    MaxNow = 1
    MaxEdits = 1
    MaxQueue = 1
INVARIANT
    TimerCoversTasks
