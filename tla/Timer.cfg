SPECIFICATION Spec
CONSTANTS
    Nodes = {n1, n2, n3}
    NULL = NULL
    Funcs = {f1, f2}
    NoFunc = NoFunc
    Msecs = {4, 8, 12, 16}
    TICK_FREQ_HZ = 1
    MsecPerSec = 4
    UlongMod = 16
    NticksMod = 2
    CancelHead = FALSE
INVARIANTS
    ListInv
PROPERTIES
    ImplementsAlarms
    AlarmIsCalled
