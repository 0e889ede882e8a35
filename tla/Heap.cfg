SPECIFICATION Spec
CONSTANTS
    Desc = 2
    PageWords = 8
    SizeMod = 64
    HeapPages = {1, 2}
    Sizes = {1, 3, 5}
    Counts = {2}
    NewSizes = {2, 8}
INVARIANTS
    HeapInv
