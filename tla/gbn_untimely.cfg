SPECIFICATION Spec
CONSTANTS
    HdrLen = 1
    DataSize = 2
    W = 2
    Timely = FALSE
    Duplicates = TRUE
    LossyAcks = FALSE
    Harm = {}
    MaxFaults = 0
    RetxMax = 1
    Lens = {1}
    RxBatch = 2
    RingSize = 2
    ServerFirst = FALSE
    MaxSend = 3
    MaxRecv = 3
    MaxTxStarts = 2
    MaxRxStarts = 2
INVARIANTS
    CongruentDelivery
    RingAligned
    NextIsMissing
CHECK_DEADLOCK FALSE
