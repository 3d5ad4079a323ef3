\* From a committed page to the answer on paper: two requests, one of them
\* answered with any five pieces in any frames of one or two.
SPECIFICATION FairSpec
CONSTANTS
    MaxReq = 2
    TextLimit = 5
    MaxDelta = 2
    LongAnswers = {1}
    SplitSpans = FALSE
    DrainBudget = 2
    LayoutFails = TRUE
INVARIANTS
    TypeOK
    LanesAreExclusive
    InkIsAPrefix
    WholeAnswersAreRemembered
    DrawnIsTheReply
    DirectivesComeFirst
PROPERTIES
    AbandonedWorkersEnd
CHECK_DEADLOCK FALSE
