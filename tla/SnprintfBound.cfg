SPECIFICATION Spec
CONSTANTS
    WordBits = 16
    NCOLS = 10
    NROWS = 3
    VIRT_ROWS = 6
    RegSize = 8
    Uses = {"format"}
    Chars = {"e", "nl", "cr", "tab", "bs"}
    Attrs = {7, 1}
    ConFormats <- SomeConFormats
    BufFormats <- SomeBufFormats
    Sizes = {0, 1, 4, 9}
    BootCursors <- SomeCursors
    MaxCalls = 4
INVARIANTS
    OutputIsBounded
