SPECIFICATION Spec
CONSTANTS
    Threads = {t1}
    Groups = {g1}
    Device = device
    MaxAddr = 3
    DeviceMayFail = TRUE
    JoinFirst = TRUE
INVARIANTS  GrantedHasKeys
