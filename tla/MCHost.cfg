SPECIFICATION FairSpec
CONSTANTS
    WordMod = 64
    DefaultIp = 10
    OtherIp = 11
    RealIp <- MCRealIp
    Library <- MCLibrary
    Cards <- MCCards
    NPCAP_VERSION_M = 0
    NPCAP_VERSION_N = 99
    OtherFamily = 9
    NotAnAddress = 8
    PeerIp = 20
    DefaultMac = DefaultMac
    FileMac = FileMac
    PeerMac = PeerMac
    Broadcast = Broadcast
    NoMac = NoMac
    Line <- MCLine
    Body <- MCBody
    Padding = 4
    MaxMissing = 1
INVARIANTS
    AnswerRight
    DeafUnlessDefault
    OpensConfiguredCard
    DatagramKept
PROPERTIES
    AnsweredInTheEnd
CHECK_DEADLOCK FALSE
