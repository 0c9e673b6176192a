SPECIFICATION MCSpec
CONSTANTS
    RxN = 3
    RxPbufs = {b1, b2, b3, b4}
    TxN = 4
    TxPbufs = {p1, p2, p3}
    None = none
    MaxChain = 3
    MaxUnreclaimed = 3
    Arp = arp
    Reass = reass
    Tcp = tcp
    Startup <- MCStartup
    Period <- MCPeriod
    NoTimer = notimer
    ClockMod = 11
    MaxPass = 1
    ArpTableSize = 2
    Hosts = {h1, h2, gw}
    Gateway = gw
    Remote = {far}
    Macs = {m1, m2}
    NoHost = nohost
    ArpMaxAge = 4
    RerequestAge = 2
    MaxPending = 2
    Datagrams = {d1, d2, d3}
    Length = 3
    Rooms = {1, 2}
    MaxPbufs = 4
    MaxData = 2
    ReassMaxAge = 2
    DnsTableSize = 2
    Servers = 2
    MaxRetries = 2
    MaxTtl = 2
    TtlMod = 4
    SeqnoMod = 3
    Ttls = {1, 3}
    Names = {n1, n2}
    Addresses = {a1}
    NoName = noname
    NoAddress = noaddress
    Again = FALSE
INVARIANTS OneOwner RefsSane  SentToHeard HeldAreCounted 
PROPERTIES QueueOrder WaitsEnd
CHECK_DEADLOCK FALSE
