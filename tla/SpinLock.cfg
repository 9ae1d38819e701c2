SPECIFICATION FairSpec
CONSTANTS
    Thread = {t1, t2, t3}
    NoThread = NoThread
    Iterations = 2
    MaxTicket = 2
INVARIANTS
    NoDataRace
PROPERTIES
    ImplementsMutex
    ServedInOrder
    Finishes
