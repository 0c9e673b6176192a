SPECIFICATION MCSpec
CONSTANTS
    Server1 = s1
    Server2 = s2
    Others = {o1}
    LiveServers = {s2}
    Any = any
    ClockMod = 7
    SendPeriod = 1
    RecvTimeout = 2
    MaxPass = 1
    SendErrors = {"failed", "nopbuf"}
    Block = 3
    CountMod = 4
    MaxLag = 2
    MaxTaken = 20
    UdpPcbs = {u1, u2}
    Own = {own1, own2}
    Peers = {p1, p2}
    AnyAddr = anyaddr
    Ones = ones
    Subnet = subnet
    Group = group
    Nobody = nobody
    KnownPorts = {1}
    PortStart = 10
    PortEnd = 12
    PeerPort = 1
INVARIANTS StaleBound  ConverterFollowsTalk OnePerAddress   AnswersEnd
PROPERTIES  StreamSafety StreamDelivered
CHECK_DEADLOCK FALSE
