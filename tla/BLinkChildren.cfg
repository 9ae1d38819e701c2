SPECIFICATION Spec
CONSTANTS
    load = load
    w1 = w1
    w2 = w2
    reader = reader
    v1 = v1
    v2 = v2
    L = 16
    Copied = 8
    NoNode = NoNode
    Junk = Junk
    Client = {load}
    Loader = load
    NoClient = NoClient
    Scripts <- MCOneWriter
    Value = {v1, v2}
    Absent = Absent
INVARIANTS
    ChildrenDefined
CHECK_DEADLOCK FALSE
