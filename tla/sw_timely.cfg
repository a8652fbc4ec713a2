SPECIFICATION FairSpec
CONSTANTS
    HdrLen = 1
    DataSize = 2
    W = 2
    Timely = TRUE
    Duplicates = FALSE
    LossyAcks = FALSE
    Harm = {"body"}
    MaxFaults = 4
    RetxMax = 2
    Lens = {1, 2}
    RxBatch = 2
    RingSize = 4
    MaxSend = 3
    MaxRecv = 4
    MaxRxStarts = 2
INVARIANTS
    FalseAcksAreBounded
    OnePacketPerStart
PROPERTIES
    EgressReturns
CHECK_DEADLOCK FALSE
