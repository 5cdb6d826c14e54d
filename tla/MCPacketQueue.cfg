SPECIFICATION FairSpec
CONSTANTS
    Size = 4
    Producer = {receiver}
    Self = process
    Null = Null
    Arrival = "slow"
    MaxPackets = 8
INVARIANTS
    TypeOK
    MemorySafe
    NoLeak
PROPERTIES
    ImplementsPool
    EventuallyHandled
