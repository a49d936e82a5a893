SPECIFICATION QueueSpec
CONSTANTS
    Threads = {u1, u2, t3}
    Users = {u1, u2}
    TicketSpace = 4
    MaxStale = 1
    Keys = {q, g}
    Groups = {g}
    ReplicaNum = 2
    MaxQueues = 3
    SetFirst = TRUE
SYMMETRY UserSymmetry
INVARIANTS Exclusion OneQueuePerKey 
