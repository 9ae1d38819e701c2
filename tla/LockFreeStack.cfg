SPECIFICATION FairSpec
CONSTANTS
    Writer = {w1}
    Reader = {r1, r2}
    Owner = o
    Address = {a1, a2, a3}
    Null = null
    Datum = {Zero, v1}
    Zero = Zero
    Nothing = Nothing
    Pushes = 3
INVARIANTS
    ListIsChain
    NodesAccounted
PROPERTIES
    ImplementsStack
    Finishes
