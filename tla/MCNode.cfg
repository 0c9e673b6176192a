SPECIFICATION MCSpec
CONSTANTS
    TxCap = 2
    MaxWire = 4
    MaxRefused = 1
    MaxNews = 2
    MaxSplits = 1
    Stations = {s1, s2}
    None = none
    FifoSize = 3
    RingSize = 3
    BufSize = 6
    MaxLines = 5
    MaxAhead = 5
    Addresses = {a1, a2, bad}
    Consistent = {a1, a2}
    Default = default
    Passwords <- MCPasswords
    Erased = erased
    ClockMod = 4
    ResetDelay = 1
    MaxPass = 1
    MaxRequests = 3
    FlashFails = TRUE
    PowerFails = TRUE
    Leasable = {l1, l2}
    NoAddr = noaddr
    Coarse = 2
    TimerMod = 4
    TriesMod = 3
    T1 = 2
    T2 = 4
    Lease = 11
    MaxDelay = 1
    LongestWait = 2
    BackOff = 2
    RequestTries = 1
    RebindTries = 1
    RebootTries = 1
    MaxFaults = 1
    Conns = {c1, c2}
    Threads = {t1}
    Nobody = nobody
    TcpipBox = 1
    RecvBox = 1
    AcceptBox = 1
    SndBuf = 2
    MaxWrite = 3
    MaxData = 2
    Types = {"TCP", "UDP"}
    MaxCalls = 4
    MaxMemFaults = 1
    Hosts = {h1, h2}
    Seed <- MCSeed
    FirstWaits = {0, 1}
    ProbeWaits = {0}
    AnnounceWait = 1
    AnnounceInterval = 1
    DefendInterval = 2
    RateLimitInterval = 2
    ProbeNum = 2
    AnnounceNum = 2
    MaxConflicts = 1
    MaxLost = 2
    MaxChanges = 4
    NumNetifs = 2
    Groups = {g1}
    AllSystems = all
    NumGroups = 3
    MaxResps = {2, 4}
    V1Resp = 3
    JoinResp = 2
    AfterDivision = {0, 1, 4}
    MaxUse = 2
    MaxIgmpFaults = 1
INVARIANTS NeverWaitsForNothing InOrder CallFollowsRadio InUseWasSet  CallsSane OneUser 
PROPERTIES ChangesOneHalf WorkEnds
CHECK_DEADLOCK FALSE
