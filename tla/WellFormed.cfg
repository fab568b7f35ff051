SPECIFICATION FairSpec
CONSTANTS
    CellHalf = 32
    ByteMod = 4
    BitOp <- MCBitOp
    Programs <- MCPrograms
    Entries = {0}
    NativeEntries = {}
    StackSize = 2
    DataSize = 2
    NumImports = 5
    ArgCells = {1}
    NativeResults = {31}
    FloatCells = {2}
    Garbage = {3}
    MaxFrames = 2
    MaxNatives = 1
    DbgStops = {TRUE, FALSE}
INVARIANTS ControlFlowIntegrity
PROPERTIES  CallsNest CountedProgramsEnd
