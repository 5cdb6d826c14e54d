SPECIFICATION FairSpec
CONSTANTS
    SeqMod = 3
    Iss <- MCLow
    Wnd = 2
    MaxLen = 1
    Typed = {1}
    NoTcb = NoTcb
    NoBuf = NoBuf
    ServerResponse <- MCShort
    RtoElapses = TRUE
    MaxLines = 1
    MaxLost = 1
    MaxInFlight = 1
PROPERTY
    RepairsLoss
CHECK_DEADLOCK FALSE
