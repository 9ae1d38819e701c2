SPECIFICATION FairSpec
CONSTANTS
    UpBuffer = 2
    DownBuffer = 1
    Typed = 2
    RBuf = 3
    InBuffer = 1
    OutBuffer = 3
    Banner = 4
    Nul = Nul
INVARIANTS
    StreamsAccounted
    StoppedMeansDone
PROPERTIES
    StopCompletes
    SessionEnds
    ClientLeaves
    OutputArrives
CHECK_DEADLOCK FALSE
