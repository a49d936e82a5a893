SPECIFICATION GroupTablesSpec
CONSTANTS
    a = a
    b = b
    c = c
    s = s
    t = t
    u = u
    Nodes = {a, b, c}
    Threads = {s, t, u}
    Home <- Shared
    Links <- Mutual
    Lists <- TwoReplicas
    Groups = {g}
    JoinFirst = TRUE
    JoinIds <- Joins
    RequestMayFail = TRUE
    ReplyMayFail = TRUE
    SendMayFail = TRUE
    MaxAccepts = 2
    MaxIds = 4
INVARIANTS PeerIsReady AnswersReachSender GroupAnswersReturn
SYMMETRY ThreadSymmetry
CHECK_DEADLOCK FALSE
