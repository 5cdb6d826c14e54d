SPECIFICATION Spec
CONSTANTS
    SeqMod = 16
    Iss <- MCIss
    Wnd = 8
    MaxLen = 2
    Typed = {2}
    NoTcb = NoTcb
    NoBuf = NoBuf
    ServerResponse <- MCResponse
    RtoElapses = FALSE
    MaxLines = 2
    MaxLost = 0
    MaxInFlight = 6
INVARIANT
    BothClosed
CHECK_DEADLOCK FALSE
