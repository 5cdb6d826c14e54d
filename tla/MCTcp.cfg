SPECIFICATION EagerSpec
CONSTANTS
    Conn = {opened, accepted}
    Listening = {accepted}
    Client = {opened}
    SeqMod = 4
    Iss <- MCIss
    Wnd = 2
    MaxLen = 1
    Typed = {1}
    Response <- MCResponse
    PeerSegment <- MCPeerSegment
    NoTcb = NoTcb
    NoBuf = NoBuf
    MaxInFlight = 1
INVARIANTS
    TypeOK
    PeerHasClosed
    WeHaveClosed
