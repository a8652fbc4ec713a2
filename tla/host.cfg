SPECIFICATION HostSpec
CONSTANTS
    UintMax = 1000
    PtrSize = 8
    ByteBits = 2
    SpecMaxLen = 64
    ShrtMax = 32767
    NameOrder <- MCNameOrder
    Flavors <- MCFlavors
    Procs = {p1, p2}
    p1 = p1
    p2 = p2
    NMaps = 2
    NProgs = 1
    NIds = 3
    MaxCalls = 6
    None = None
    MaxMaps = 2
    Hash <- MCHash
    PtrToArray = FALSE
    RingSize = 6
    MaxWrites = 5
    Ifs = {"eth0", "eth1"}
    Native = {"eth0"}
    MaxProgs = 3
    MaxDeploys = 3
    Files <- MCFiles
    MapPath <- MCMapPath
    ProgPath <- MCProgPath
SYMMETRY MCSymmetry
INVARIANTS
    ObjectsLinked
    LookupsExact
    LayoutsAgree
    PinnedMapsShared
    LoadAllOrNothing
    UndoesOwnPins
    DedupExact
    DumpFaithful
    PerfInOrder
    TablesRead
    AnswersHeard
    KernelTakesObject
    DaemonCanServe
    FailureLeavesNothing
CHECK_DEADLOCK FALSE
