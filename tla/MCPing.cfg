SPECIFICATION Spec
CONSTANTS
    p = p
    q = q
    r = r
    Addr <- MCAddr
    NoAddr = NoAddr
    MaxNode = 2
    MaxMoves = 1
    SeqMod = 2
    Times = 3
    MaxPings = 3
INVARIANTS
    FrameToOwner
    KnownIsFound
PROPERTIES
    OwnReply
    BothOnlyInTheWindow
CHECK_DEADLOCK FALSE
