SPECIFICATION FairSpec
CONSTANTS
    HdrLen = 1
    DataSize = 2
    W = 2
    Timely = TRUE
    Duplicates = FALSE
    LossyAcks = TRUE
    Harm = {"body"}
    MaxFaults = 3
    RetxMax = 3
    Lens = {1, 2}
    RxBatch = 2
    RingSize = 4
    ServerFirst = TRUE
    MaxSend = 4
    MaxRecv = 4
    MaxTxStarts = 1
    MaxRxStarts = 1
INVARIANTS
    InOrderDespiteGiveUp
    CountIsSound

    
CHECK_DEADLOCK FALSE
