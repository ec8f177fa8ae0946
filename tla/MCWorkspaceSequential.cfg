SPECIFICATION Spec
CONSTANTS
    Users = {alice, bob}
    Workspaces = {w1, w2}
    Todos = {t1}
    Requests = {r1}
    Routes <- AllRoutes
    NoUser = NoUser
    NoWorkspace = NoWorkspace
    NoTodo = NoTodo
SYMMETRY Symmetry
CHECK_DEADLOCK FALSE
PROPERTY
    ConformsToMemory
