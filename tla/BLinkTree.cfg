SPECIFICATION FairSpec
CONSTANTS
    load = load
    w1 = w1
    w2 = w2
    reader = reader
    v1 = v1
    v2 = v2
    L = 2
    Copied = 8
    NoNode = NoNode
    Junk = Junk
    Client = {load, w1, w2, reader}
    Loader = load
    NoClient = NoClient
    Scripts <- MCScripts
    Value = {v1, v2}
    Absent = Absent
INVARIANTS
    TreeSound
    NeverPastHome
PROPERTIES
    ImplementsDictionary
    
    ReadsCurrent
    Finishes
CHECK_DEADLOCK FALSE
