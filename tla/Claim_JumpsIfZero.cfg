SPECIFICATION Spec
CONSTANTS
    CellHalf = 32
    ByteMod = 4
    BitOp <- MCBitOp
    Programs <- ClaimPrograms
    Entries = {0}
    NativeEntries = {}
    StackSize = 2
    DataSize = 2
    NumImports = 1
    ArgCells = {1}
    NativeResults = {31}
    FloatCells = {2}
    Garbage = {3}
    MaxFrames = 2
    MaxNatives = 0
    DbgStops = {TRUE, FALSE}
PROPERTIES JumpsIfZero
