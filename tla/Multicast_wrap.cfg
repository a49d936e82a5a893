SPECIFICATION Spec
CONSTANTS
    Replicas = {r1, r2}
    SNSpace = 4
    QueueCapacity = 2
    WndSize = 1
    NumTasks = 2
    End <- FiveFragments
    MinSSThresh = 2
    ResendValue = 2
    IncrMayWrap = FALSE
    MaxLag = 3
    EarlyPolling = TRUE
    AckPostMayFail = TRUE
    MayLose = FALSE
INVARIANT NoReplicaAborts
PROPERTY ImplementsStreams
CHECK_DEADLOCK FALSE
