SPECIFICATION FairSpec
CONSTANTS
    HdrLen = 1
    DataSize = 2
    W = 3
    Timely = TRUE
    Duplicates = FALSE
    LossyAcks = TRUE
    Harm = {"body", "last"}
    MaxFaults = 2
    RetxMax = 2
    Lens = {1, 2}
    RxBatch = 2
    RingSize = 4
    ServerFirst = FALSE
    MaxSend = 4
    MaxRecv = 4
    MaxTxStarts = 1
    MaxRxStarts = 1
INVARIANTS
    ConfirmedAreAccepted
PROPERTIES
    ConfirmedIsDelivered
    ImplementsStream
    IsWindowed
CHECK_DEADLOCK FALSE
