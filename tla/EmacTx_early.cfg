SPECIFICATION TxSpec
CONSTANTS
    TxN = 3
    TxPbufs = {p1, p2}
    None = none
    MaxChain = 2
    MaxUnreclaimed = 4
INVARIANT HeldWhileInFlight
CHECK_DEADLOCK FALSE
