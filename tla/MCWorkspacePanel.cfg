SPECIFICATION Spec
CONSTANTS
    Panels = {"todos", "shares"}
    Workspaces = {a, b}
    Keys = {k1}
    MaxAsked = 1
    MaxRefetch = 1
    MaxAnswers = 2
    MaxUnderWay = 3
    NoKey = NoKey
    NoChange = NoChange
SYMMETRY Symmetry
CHECK_DEADLOCK FALSE
INVARIANTS
    TypeOK
    NoForeignRows
    ListedOnce
    SettledShowsServer
