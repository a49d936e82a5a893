SPECIFICATION FairSpec
CONSTANTS
    s = s
    t = t
    q = q
    r = r
    Links <- Shared
    Chunks <- TwoAndOne
    Files <- OnePerLink
    MayFail = TRUE
    InsertAtOnce = TRUE
    AcksInTime = TRUE
INVARIANTS FileIntact 
 
CHECK_DEADLOCK FALSE
