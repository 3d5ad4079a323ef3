\* A sentence that ends inside a directive after prose.
SPECIFICATION Spec
CONSTANTS
    MaxReq = 1
    TextLimit = 5
    MaxDelta = 2
    LongAnswers = {1}
    SplitSpans = TRUE
    DrainBudget = 2
    LayoutFails = FALSE
INVARIANTS
    DirectivesNeverBecomeInk
CHECK_DEADLOCK FALSE
