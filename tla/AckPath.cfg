SPECIFICATION FairPathSpec
CONSTANTS
    MinSSThresh = 2
    ResendValue = 2
    IncrMayWrap = TRUE
    Mtu = 16
    IncrSpace = 128
    QueueCapacity = 5
    WndSize = 5
    MinRwnd = 4
    MaxRwnd = 5
    Byte = 4
    SessionSpace = 2
    HalfWord = 8
    Word = 8
    Grh = 4
    MinRTO = 3
    MaxRTO = 16
    DefaultRTO = 12
    Usual = {1, 2}
    FarOff = 11
PROPERTIES SuccessKeepsContract BackoffKeepsContract 
