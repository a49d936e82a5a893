SPECIFICATION FairEngineSpec
CONSTANTS
    NumQp = 2
    NumConn = 2
    SpawnWorker = TRUE
    SetupFaults = {"device", "pd", "channel", "epoll", "poll", "cq", "qp", "rts", "arena", "mr", "post", "dereg", "destroy"}
    GroupFaults = {"start", "id", "resolve", "qp", "join", "ah", "mr", "dereg"}
    MaxPackets = 4
    RecvHandles = 2
    MaxJoins = 2
INVARIANTS NoWildRelease  UsesLiveMemory ContextReady NoStrayEvent 
PROPERTIES CallsReturn
CHECK_DEADLOCK FALSE
