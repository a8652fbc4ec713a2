SPECIFICATION FairSpec
CONSTANTS
    HdrLen = 1
    DataSize = 3
    W = 3
    Timely = TRUE
    Duplicates = FALSE
    LossyAcks = TRUE
    Harm = {"body"}
    MaxFaults = 3
    RetxMax = 3
    Lens = {1, 2, 3}
    RxBatch = 2
    RingSize = 4
    ServerFirst = TRUE
    MaxSend = 4
    MaxRecv = 5
    MaxTxStarts = 1
    MaxRxStarts = 1
    DefaultLoss = 1
    OddLen = 2
    Lucky = {0}
    AckMod = 2
PROPERTIES
    LossIsBounded
CHECK_DEADLOCK FALSE
