SPECIFICATION LedSpec
CONSTANTS
    s1 = s1
    s2 = s2
    s3 = s3
    c1 = c1
    c2 = c2
    Server <- Three
    Nobody = Nobody
    Command <- Cmds
    MaxTerm = 1
    MaxIndex = 2
    MaxCalls = 2
    SnapShotInterval = 0
    LateReplies = FALSE
    Links <- AllLinks
    Timeouts <- None
    MayRestart <- None
SYMMETRY FollowerSymmetry
INVARIANTS
    AppliedLogsAgree
    MatchedIsSaved
