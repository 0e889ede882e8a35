SPECIFICATION Spec
CONSTANTS
    WordBits = 2
    PageWords = 4
    NumPages = 8
    MemStart = 6
    MaxMapSize = 16
    MaxHolders = 2
    BootMaps <- RepoMaps
    Counts = {1, 2}
    RangeCalls <- Ranges
INVARIANTS
    TypeOK
    HintSound
    SingleHolder
    BitmapReserved
    NoSpuriousPanic
PROPERTIES
    HeapFirstFit
