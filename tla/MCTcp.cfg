SPECIFICATION MCSpec
CONSTANTS
    Total = 7
    Wnd = 6
    Mss = 2
    Threshold = 2
    Callbacks = {"refuse", "keep", "read", "close"}
    MssValues = {1, 2}
    SndBuf = 4
    PeerBuf = 4
    MaxRtx = 1
    MaxSent = 3
    Writes = {2, 3}
    MaxFaults = 1
    Lossy = {"segment", "ack", "fin"}
    PoolIds = {1, 2}
    RefIds = {3}
    RamIds = {4}
    BufSize = 2
    Layers = {0, 1}
    Lengths = {3}
    Users = {a, b}
    HeapSize = 24
    Header = 2
    MinSize = 3
    Requests = {0, 2, 4, 7, 30}
INVARIANTS WindowSane  QueuesHold ChainsSane HeapSane
PROPERTIES InOrder 
CHECK_DEADLOCK FALSE
