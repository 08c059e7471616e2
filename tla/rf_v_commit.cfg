SPECIFICATION SplitSpec
CONSTANTS
    s1 = s1
    s2 = s2
    s3 = s3
    c1 = c1
    c2 = c2
    Server <- Three
    Nobody = Nobody
    Command <- Cmds
    MaxTerm = 4
    MaxIndex = 1
    MaxCalls = 1
    SnapShotInterval = 0
    LateReplies = FALSE
    Links <- ThroughVoter
    Timeouts <- Seesaw
    MayRestart <- None
INVARIANTS
    AppliedLogsAgree
CHECK_DEADLOCK FALSE
