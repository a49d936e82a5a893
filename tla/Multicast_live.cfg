SPECIFICATION FairSpec
CONSTANTS
    Replicas = {r1, r2}
    SNSpace = 4
    QueueCapacity = 2
    WndSize = 1
    NumTasks = 1
    End <- OneTask
    MinSSThresh = 2
    ResendValue = 2
    IncrMayWrap = FALSE
    MaxLag = 3
    EarlyPolling = FALSE
    AckPostMayFail = FALSE
    MayLose = TRUE
INVARIANT GroupStatusSound
PROPERTY AllDelivered
CHECK_DEADLOCK FALSE
