SPECIFICATION LedSpec
CONSTANTS
    s1 = s1
    s2 = s2
    s3 = s3
    c1 = c1
    c2 = c2
    Server <- Three
    Nobody = Nobody
    Command <- Cmds
    MaxTerm = 1
    MaxIndex = 2
    MaxCalls = 1
    SnapShotInterval = 2
    LateReplies = FALSE
    Links <- AllLinks
    Timeouts <- None
    MayRestart <- Voter
SYMMETRY CommandSymmetry
INVARIANTS
    TypeOK
    SnapshotIsApplied
    
    
