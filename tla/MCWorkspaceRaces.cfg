SPECIFICATION Spec
CONSTANTS
    Users = {alice, bob}
    Workspaces = {w1, w2}
    Todos = {t1}
    Requests = {r1, r2}
    Routes <- RaceRoutes
    NoUser = NoUser
    NoWorkspace = NoWorkspace
    NoTodo = NoTodo
SYMMETRY Symmetry
CHECK_DEADLOCK FALSE
INVARIANTS
    TypeOK
    OwnerNotMember
    TodosBelong
    DeletionsFinal
PROPERTY
    KeepsContract
