\* Every topic in turn: lists of pages, todos, tasks and books over two
\* processes and crashes, the guide, the settings, the fonts and the agent.
SPECIFICATION Spec
CONSTANTS
    PageSize = 1
    MaxCandidates = 2
    MaxId = 4
    MaxPages = 2
    HistoryVisible = 2
    MaxTodos = 3
    Topics = {"Pages", "Session", "Todos", "Tasks", "Books", "Settings", "Fonts", "Pi", "Guide"}
    MaxEvery = 2
    Faces = {1, 2}
    Scales = {1, 2}
    MaxBooks = 3
INVARIANTS
    TypeOK
    IndexHasStrokes
    PagesSurvive
    BoundaryHolds
    PaperIsRestored
    ChoicesStick
    StatusIsOfLastCommand
    DebtBelowInterval
PROPERTIES
    StrikeHitsTheRow
CHECK_DEADLOCK FALSE
