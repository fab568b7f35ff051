SPECIFICATION Spec
CONSTANTS
    Names <- MCNames
    Length <- MCLength
    NameSize <- MCNameSize
    Sizes = {1, 3}
    Dims = {5}
    SizeMod = 16
    Absent = Absent
    Null = Null
    MaxDecls <- MCMaxDecls
    MaxVars = 2
INVARIANTS TypeOK FoundByItsName VarsFitFrame
PROPERTIES FirstUseDecides
