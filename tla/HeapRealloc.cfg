SPECIFICATION Spec
CONSTANTS
    Desc = 2
    PageWords = 8
    SizeMod = 64
    HeapPages = {1, 2}
    Sizes = {1, 2}
    Counts = {2}
    NewSizes = {3}
INVARIANTS
    NoCorruption
