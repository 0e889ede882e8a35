SPECIFICATION Spec
CONSTANTS
    Disks <- Disks12
    ClusterBytes = 2
    Handles = {h1}
    MaxDirs = 4
    OpenArgs <- RootFile
    ChdirArgs <- NoPaths
    MaxName = 2
    CwdSize = 6
    Offsets <- SeekBy
    ReadSizes = {1, 3}
    MaxPos = 8
    PosMod = 16
    Seeks = "safe"
    Failures = {}
INVARIANTS
    CurClustMatches
