SPECIFICATION FairSpec
CONSTANTS
    a = a
    b = b
    Nodes = {a, b}
    Program <- BothWays
    MaxWr = 3
    SpawnWorker = {{a, b}, {a}}
    FreesTasks = TRUE
    MayBreak = TRUE
    PostMayFail = FALSE
INVARIANTS InOrder SuccessMeansDelivered InflightExact
 
CHECK_DEADLOCK FALSE
