SPECIFICATION Spec
CONSTANTS
    Drives <- SomeDrives
    NRETRIES = 3
    MaxFaults = 3
    MotorTimeout = 2
    Others = FALSE
    Disks <- SomeDisks
    TableSizes = {0, 1, 3, 8}
    Uses = {"walk", "direct"}
    Lbas <- SomeLbas
    Counts = {1, 2}
    MaxRecords = 6
INVARIANTS
    NoDoubleFree
