SPECIFICATION ReassSpec
CONSTANTS
    Datagrams = {d1}
    Length = 4
    Rooms = {1}
    MaxPbufs = 4
    MaxData = 2
    ReassMaxAge = 2
INVARIANT Complete
CHECK_DEADLOCK FALSE
