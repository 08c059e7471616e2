SPECIFICATION FairSpec
CONSTANTS
    NMap = 2
    NReduce = 1
    MaxWorkers = 3
    Emits <- EmitAll
    MayCrash <- First
    Punctual <- AllIds
INVARIANTS ExactlyOnceWhileAlive OneReducer
PROPERTIES FinalOutputStable JobCompletes
CHECK_DEADLOCK FALSE
