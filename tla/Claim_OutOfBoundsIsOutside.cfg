SPECIFICATION Spec
CONSTANTS
    Images <- MCImages
    InfoSize = 8
    Outside = {"OK", "EMPTY_NOT_FOUND", "wild"}
INVARIANTS OutOfBoundsIsOutside
