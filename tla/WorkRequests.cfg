SPECIFICATION FairSpec
CONSTANTS
    NumHandles = 2
    NumQPs = 2
    MaxWr = 2
    BatchSize = 2
    CacheCapacity = 2
    PostMayFail = TRUE
    MaxMade = 6
INVARIANTS NoAliasing 
PROPERTY HandlesSettle
CHECK_DEADLOCK FALSE
