SPECIFICATION Spec
CONSTANTS
    Socks = {s1, s2}
    s1 = s1
    s2 = s2
    MaxAttach = 2
    MaxStarts = 1
    MaxLost = 1
    Wrap = 4
    NumFrames = 4
    FillSize = 2
    RxSize = 2
    RxBatch = 2
    MaxArrivals = 4
    None = None
INVARIANTS
    FramesAccounted
    ReservationHolds
    SocketReachable
    ResourcesAccounted
CHECK_DEADLOCK FALSE
