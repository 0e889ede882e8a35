SPECIFICATION Spec
CONSTANTS
    BUFSZ = 4
    WORD = 2
    LINESZ = 3
    FifoSize = 2
    Programs <- Reopening
    Texts <- SomeTexts
    Counts = {1, 2}
    MaxSent = 5
INVARIANTS
    OverflowDropsOldest
