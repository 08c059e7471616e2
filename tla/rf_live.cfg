SPECIFICATION LiveSpec
CONSTANTS
    s1 = s1
    s2 = s2
    s3 = s3
    c1 = c1
    c2 = c2
    Server <- Two
    Nobody = Nobody
    Command <- OneCmd
    MaxTerm = 2
    MaxIndex = 2
    MaxCalls = 1
    SnapShotInterval = 0
    LateReplies = FALSE
    Links <- LeaderLink
    Timeouts <- Rivals
    MayRestart <- None
PROPERTIES
    
    TickerReturns
CHECK_DEADLOCK FALSE
