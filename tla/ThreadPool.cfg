SPECIFICATION FairSpec
CONSTANTS
    a = a
    b = b
    c = c
    MaxThreads = 3
    Task <- MCTask
    MainTasks <- MCMainTasks
    OtherTasks <- MCOtherTasks
    Subtasks <- MCSubtasks
    MayThrow = {b}
    NoTask = NoTask
    NoWorker = NoWorker
INVARIANTS
    TasksAccounted
    NoLockCycle
    AloneInOrder
PROPERTIES
    ImplementsTasks
    ShutdownEnds
    EveryTaskRuns
