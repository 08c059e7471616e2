SPECIFICATION FairSpec
CONSTANTS
    s1 = s1
    s2 = s2
    Server <- Two
    Leader = s1
    Nobody = Nobody
    MaxIndex = 3
    SnapShotInterval = 3
INVARIANTS DeliversFromLog
PROPERTIES ImplementsDelivery StartReturns
CHECK_DEADLOCK FALSE
