SPECIFICATION Spec
CONSTANTS
    Workspaces = {w1}
    Replicas = {p1}
    Writers = {h1}
    Streams = {s1}
    Capacity = 1
    MaxChanges = 2
    NatsModes <- WithoutNats
    Alone = p1
    Faults <- NoFaults
    NoReplica = NoReplica
    NoWorkspace = NoWorkspace
CHECK_DEADLOCK FALSE
PROPERTY
    ConnectedHears
