SPECIFICATION Spec
CONSTANTS
    Disks <- Disks16
    ClusterBytes = 2
    Handles = {h1}
    MaxDirs = 4
    OpenArgs <- RootFile
    ChdirArgs <- NoPaths
    MaxName = 2
    CwdSize = 6
    Offsets <- SeekBy
    ReadSizes = {1, 3}
    MaxPos = 8
    PosMod = 16
    Seeks = "any"
    Failures = {}
INVARIANTS
    CurClustMatches
