SPECIFICATION Spec
CONSTANTS
    BUFSZ = 4
    WORD = 2
    LINESZ = 3
    FifoSize = 2
    Programs <- AllPrograms
    Texts <- SomeTexts
    Counts = {1, 2}
    MaxSent = 5
INVARIANTS
    RingInv
    TextInv
    HandlerReturns
PROPERTIES
    CallsReturn
