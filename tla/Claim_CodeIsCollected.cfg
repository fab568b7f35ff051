SPECIFICATION Spec
CONSTANTS
    Regs <- MCRegs
    Values <- MCValues
    MaxWords = 3
INVARIANTS CodeIsCollected
CHECK_DEADLOCK FALSE
