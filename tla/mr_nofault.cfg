SPECIFICATION FairSpec
CONSTANTS
    NMap = 2
    NReduce = 2
    MaxWorkers = 2
    Emits <- EmitSome
    MayCrash <- None
    Punctual <- AllIds
INVARIANTS OutputMatchesSequential MapRunsOnce
PROPERTIES ImplementsJob WorkersExit
CHECK_DEADLOCK FALSE
