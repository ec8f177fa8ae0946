\* Two workspaces and both apps: enough for two removals to overlap, for a
\* create under another app, and for a list that loses or regains a workspace.
SPECIFICATION Spec
CONSTANTS
    Workspaces = {w1, w2}
    Apps = {todo, nicole}
    DefaultApp = todo
    NoWorkspace = NoWorkspace
    MaxHistory = 1
    MaxRequests = 2
SYMMETRY Symmetry
INVARIANTS
    TypeOK
    AddressNamesSelection
    ListIsOwn
PROPERTIES
    OnlyStaleAnswersMislead
