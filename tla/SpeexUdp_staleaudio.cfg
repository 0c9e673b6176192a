SPECIFICATION LinkSpec
CONSTANTS
    Server1 = s1
    Server2 = s2
    Others = {}
    LiveServers = {}
    Any = any
    ClockMod = 9
    SendPeriod = 2
    RecvTimeout = 3
    MaxPass = 1
    SendErrors = {"failed"}
INVARIANT NoAudioWhenDisconnected
CHECK_DEADLOCK FALSE
