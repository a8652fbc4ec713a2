SPECIFICATION FairSpec
CONSTANTS
    HdrLen = 1
    DataSize = 2
    W = 2
    GraftId = 10
    GraftMapPinned = TRUE
    MaxCalls = 4
INVARIANTS
    NegotiationEndsData
    RefusalNeedsBareHost
PROPERTIES
    NegotiateReturns
CHECK_DEADLOCK FALSE
