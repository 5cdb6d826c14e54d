SPECIFICATION Spec
CONSTANTS
    SeqMod = 16
    Iss = 13
    RcvBuf = 6
    ChunkSize = 2
    HeaderLen = 1
    Body404Len = 2
    PageSize <- MCPageSize
    MaxRequests = 2
    MaxInFlight = 2
INVARIANTS
    FitsBuffer
    PageIsWhole
    LosesTheEnd
    NothingHeld
CHECK_DEADLOCK FALSE
