SPECIFICATION Spec
CONSTANTS
    Disks <- DisksBoth
    ClusterBytes = 2
    Handles = {h1, h2}
    MaxDirs = 4
    OpenArgs <- OpenPaths
    ChdirArgs <- ChdirPaths
    MaxName = 2
    CwdSize = 6
    Offsets <- SeekBy
    ReadSizes = {1, 3}
    MaxPos = 8
    PosMod = 16
    Seeks = "safe"
    Failures = {"dir"}
INVARIANTS
    FileInv
    RefsAreCounted
    ListingIsExact
    CwdMatches
SYMMETRY Symmetric
