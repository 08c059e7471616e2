SPECIFICATION FairSpec
CONSTANTS
    n1 = n1
    n2 = n2
    c1 = c1
    join = join
    Nil = Nil
    Name <- Two
    Caller <- Callers
    Args <- Requests
    Instance <- Instances
    MaxInstance = 2
    Clerk <- OneClerk
    Orders <- OneOrder
    unreliable = TRUE
    MayRestart <- First
    Reach <- Two
    All <- InOrder
    Partitions <- Split
INVARIANTS TypeOK AckedIsSaved PersisterInv EndsFollowTester
PROPERTIES ImplementsRpc CallsReturn EveryServerTried
CHECK_DEADLOCK FALSE
