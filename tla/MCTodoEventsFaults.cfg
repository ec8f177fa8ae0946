SPECIFICATION Spec
CONSTANTS
    Workspaces = {w1, w2}
    Replicas = {p1, p2}
    Writers = {h1, h2}
    Streams = {s1}
    Capacity = 1
    MaxChanges = 2
    NatsModes <- WithNats
    Alone = p1
    Faults <- AnyFault
    NoReplica = NoReplica
    NoWorkspace = NoWorkspace
SYMMETRY Symmetry
CHECK_DEADLOCK FALSE
INVARIANTS
    TypeOK
    AtMostOnce
    RefetchSuffices
