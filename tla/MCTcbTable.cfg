SPECIFICATION Spec
CONSTANTS
    a = a
    c = c
    Listening <- MCListening
    Client <- MCClient
    Buckets = 2
    Hash <- MCHash
    Size <- MCSize
    MaxNode = 3
    MaxBuf = 2
    MaxAlloc = 3
INVARIANTS
    ChainsSound
    MemorySafe
    AcceptedWritesSafe
    PayloadOwned
PROPERTY
    LookupRight
CHECK_DEADLOCK FALSE
