SPECIFICATION FairSpec
CONSTANTS
    a = a
    b = b
    W = 2
    Checks <- AllChecks
INVARIANTS
    VerdictRight
    ListIsRest
    LongestPrefix
PROPERTIES
    InfoIsFinal
    
CHECK_DEADLOCK FALSE
