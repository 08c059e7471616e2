SPECIFICATION LedSpec
CONSTANTS
    s1 = s1
    s2 = s2
    s3 = s3
    c1 = c1
    c2 = c2
    Server <- Three
    Nobody = Nobody
    Command <- OneCmd
    MaxTerm = 2
    MaxIndex = 2
    MaxCalls = 1
    SnapShotInterval = 0
    LateReplies = FALSE
    Links <- Downward
    Timeouts <- Overtake
    MayRestart <- None
INVARIANTS
    
    LogMatching
CHECK_DEADLOCK FALSE
