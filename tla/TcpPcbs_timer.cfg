SPECIFICATION PcbsSpec
CONSTANTS
    Ids = {1, 2, 3}
    Remotes = {r1}
    WellKnown = {}
    Ephemeral = {1000, 1001, 1002}
    NoOne = none
    Short = 0
    Long = 1
    SynMaxRtx = 0
    MaxRtx = 1
    Callbacks = {"keep"}
    TimerCallbacks = {"abort"}
    Failures = {}
INVARIANT ListsSane
CHECK_DEADLOCK FALSE
