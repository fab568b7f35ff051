SPECIFICATION Spec
CONSTANTS
    Strings <- MCStrings
    NUL = "NUL"
    Unwritten = "unwritten"
    NoBuffer = NoBuffer
    MaxStrings = 4
    MaxLost = 2
INVARIANTS TypeOK ReadsAreGiven AcceptedFits BlocksAccounted
CHECK_DEADLOCK FALSE
