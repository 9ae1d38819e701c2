SPECIFICATION Spec
CONSTANTS
    s1 = s1
    s2 = s2
    s3 = s3
    c1 = c1
    c2 = c2
    k1 = k1
    v1 = v1
    v2 = v2
    Server = {s1, s2, s3}
    Electable = {s1, s2}
    Client = {}
    Request <- NoRequests
    Command <- MCCommand
    NoCommand = NoCommand
    Key = {k1}
    Value = {v1, v2}
    NoValue = NoValue
    Nil = Nil
    Slot = {}
    SlotReuse = TRUE
    MaxNet = 1
    MaxTerm = 1
    MaxRestarts = 1
    Lossy = TRUE
    Prompt = FALSE
SYMMETRY Candidates
INVARIANT RivalWinners
PROPERTY ImplementsBallots
CHECK_DEADLOCK FALSE
