SPECIFICATION Spec
CONSTANTS
    CacheSize = 2
    Ip <- MCIp
    HostIp = 1
    Mac = {m1, m2}
    NoMac = NoMac
    MaxChain = 4
PROPERTY
    ImplementsMap
