SPECIFICATION PcbsSpec
CONSTANTS
    Ids = {1, 2}
    Remotes = {r1}
    WellKnown = {80}
    Ephemeral = {1000}
    NoOne = none
    Short = 0
    Long = 1
    SynMaxRtx = 0
    MaxRtx = 1
    Callbacks = {"keep", "close", "abort"}
    TimerCallbacks = {"abort"}
    Failures = {"listen", "close"}
INVARIANTS ListsSane OneForEach 
 
CHECK_DEADLOCK FALSE
