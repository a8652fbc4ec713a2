SPECIFICATION FairSpec
CONSTANTS
    HdrLen = 1
    DataSize = 2
    W = 2
    Timely = FALSE
    Duplicates = TRUE
    LossyAcks = FALSE
    Harm = {"body", "last"}
    MaxFaults = 1
    RetxMax = 1
    Lens = {2}
    RxBatch = 2
    RingSize = 1
    ServerFirst = FALSE
    MaxSend = 3
    MaxRecv = 3
    MaxTxStarts = 1
    MaxRxStarts = 1
INVARIANTS
    CongruentDelivery
PROPERTIES
    EgressReturns
CHECK_DEADLOCK FALSE
