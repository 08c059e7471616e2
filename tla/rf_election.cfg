SPECIFICATION Spec
CONSTANTS
    s1 = s1
    s2 = s2
    s3 = s3
    c1 = c1
    c2 = c2
    Server <- Three
    Nobody = Nobody
    Command <- None
    MaxTerm = 2
    MaxIndex = 0
    MaxCalls = 0
    SnapShotInterval = 0
    LateReplies = FALSE
    Links <- Contest
    Timeouts <- Rivals
    MayRestart <- Voter
INVARIANTS
    ElectionSafety
    ElectionInv
PROPERTIES
    VoteOnce
