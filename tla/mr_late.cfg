SPECIFICATION Spec
CONSTANTS
    NMap = 2
    NReduce = 1
    MaxWorkers = 2
    Emits <- EmitAll
    MayCrash <- None
    Punctual <- None
INVARIANTS TypeOK NoOutputLost NeverCannotOpen
CHECK_DEADLOCK FALSE
