SPECIFICATION FairSpec
CONSTANTS
    SNSpace = 8
    QueueCapacity = 4
    WndSize = 1
    NumTasks = 2
    End <- ShortTasks
    PoolPackets = 4
    MinAckWnd = 1
    MinSSThresh = 2
    ResendValue = 0
    IncrMayWrap = FALSE
    MaxLag = 6
    EarlyPolling = FALSE
    AckPostMayFail = FALSE
INVARIANT StatusSound
PROPERTIES ImplementsLiveStream AllSucceed
CHECK_DEADLOCK FALSE
