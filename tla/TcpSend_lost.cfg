SPECIFICATION SendSpec
CONSTANTS
    MssValues = {1, 2}
    SndBuf = 4
    PeerBuf = 4
    MaxRtx = 1
    MaxSent = 3
    Writes = {2, 3}
    MaxFaults = 1
    Lossy = {"segment"}
INVARIANTS NothingLost
CHECK_DEADLOCK FALSE
