SPECIFICATION Spec
CONSTANTS
    s1 = s1
    s2 = s2
    s3 = s3
    c1 = c1
    c2 = c2
    k1 = k1
    v1 = v1
    v2 = v2
    Server = {s1, s2, s3}
    Electable = {s1}
    Client = {c1, c2}
    Request <- TwoCreates
    Command <- MCCommand
    NoCommand = NoCommand
    Key = {k1}
    Value = {v1, v2}
    NoValue = NoValue
    Nil = Nil
    Slot = {1}
    SlotReuse = TRUE
    MaxNet = 0
    MaxTerm = 2
    MaxRestarts = 0
    Lossy = FALSE
    Prompt = FALSE
PROPERTY AckedOnQuorum
CHECK_DEADLOCK FALSE
