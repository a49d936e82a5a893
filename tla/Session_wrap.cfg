SPECIFICATION Spec
CONSTANTS
    SNSpace = 6
    QueueCapacity = 3
    WndSize = 1
    NumTasks = 3
    End <- LongTasks
    PoolPackets = 3
    MinAckWnd = 2
    MinSSThresh = 2
    ResendValue = 0
    IncrMayWrap = FALSE
    MaxLag = 5
    EarlyPolling = FALSE
    AckPostMayFail = TRUE
INVARIANTS IndInv AckedIsDelivered RingIntact NoAbort
PROPERTY ImplementsStream
CHECK_DEADLOCK FALSE
