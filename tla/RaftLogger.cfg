SPECIFICATION Spec
CONSTANTS
    Command = {create, delete}
    NoCommand = NoCommand
    Term <- MCTerm
    MaxLen = 3
    MaxCrashes = 2
INVARIANTS LogShape LengthsHonest
PROPERTY PositionsStable
CHECK_DEADLOCK FALSE
