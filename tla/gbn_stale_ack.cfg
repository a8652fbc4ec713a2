SPECIFICATION Spec
CONSTANTS
    HdrLen = 1
    DataSize = 2
    W = 2
    Timely = FALSE
    Duplicates = TRUE
    LossyAcks = FALSE
    Harm = {}
    MaxFaults = 0
    RetxMax = 1
    Lens = {1, 2}
    RxBatch = 2
    RingSize = 4
    ServerFirst = TRUE
    MaxSend = 3
    MaxRecv = 4
    MaxTxStarts = 1
    MaxRxStarts = 1
INVARIANTS
    ConfirmedAreAccepted
CHECK_DEADLOCK FALSE
