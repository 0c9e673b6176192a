SPECIFICATION CallsSpec
CONSTANTS
    Stations = {s1, s2}
    None = none
    FifoSize = 3
    RingSize = 4
    BufSize = 4
    MaxLines = 4
    MaxAhead = 7
INVARIANT RoomToRead
CHECK_DEADLOCK FALSE
