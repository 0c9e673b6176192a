SPECIFICATION RxSpec
CONSTANTS
    RxN = 3
    RxPbufs = {b1, b2, b3, b4}
INVARIANT RoomForAnyFrame
CHECK_DEADLOCK FALSE
