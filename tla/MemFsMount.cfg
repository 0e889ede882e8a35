SPECIFICATION Spec
CONSTANTS
    Programs <- AllPrograms
    MaxNodes = 4
    Opens = {o1, o2, o3}
    Paths <- OpenPaths
    NewPaths <- MakePaths
    Dirs <- ChdirPaths
    NewNames = {"a", "c"}
    Lower <- LowerCase
    CwdSize = 3
    Bytes = {b1, b2}
    Sizes = {1, 2}
    Offsets <- SeekBy
    MaxFiles = 1
    MaxPos = 3
    MountOn = "own"
INVARIANTS
    OnlyMountsAreCrossed
SYMMETRY Symmetric
