SPECIFICATION TablesSpec
CONSTANTS
    MaxNow = 3
    AddrBits <- Bits
    RouteSlots = 2
    Routes <- Added4
    LocalRoute <- Local
    DefaultRoute <- Default
    ArpSlots = 2
    ArpTimeout = 1
    ArpHosts <- Hosts
    LocalIp <- Self
    LocalMac = m0
    Macs = {m1, m2}
    NoMac = none
    UdpSlots = 3
    PoolBufs = 3
    BufSize = 2
    Peers6 <- UdpPeers
    UdpIdle = 1
    NdpSlots = 2
    NdpHosts = {h1, h2}
    NdpMacs = {n1}
    ZeroMac = none
    Tentative = t0
    ReachableTime = 2
    FirstProbeDelay = 1
    RetransTimer = 1
    MaxProbes = 3
    Cells = {1}
    Limits <- SmallLimits
    Amounts = {1, 2}
    Second = 3
    Word = 16
    Parts <- AllParts
SYMMETRY NameSymmetry
INVARIANTS
    ResolvesToNextHop
    BufferIsOwn
    NeighboursFresh
    AdmittedWithinRate
