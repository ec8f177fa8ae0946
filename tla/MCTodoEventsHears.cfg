SPECIFICATION Spec
CONSTANTS
    Workspaces = {w1}
    Replicas = {p1, p2}
    Writers = {h1, h2}
    Streams = {s1}
    Capacity = 1
    MaxChanges = 3
    NatsModes <- Either
    Alone = p1
    Faults <- NoFaults
    NoReplica = NoReplica
    NoWorkspace = NoWorkspace
CHECK_DEADLOCK FALSE
PROPERTY
    Hears
