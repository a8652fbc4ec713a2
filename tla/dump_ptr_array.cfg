SPECIFICATION DumpSpec
CONSTANTS
    UintMax = 1000
    PtrSize = 8
    SpecMaxLen = 64
    ShrtMax = 32767
    PtrToArray = TRUE
    Flavors <- MCFlavors
INVARIANTS
    DumpCompiles
CHECK_DEADLOCK FALSE
