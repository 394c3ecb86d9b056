SPECIFICATION Spec
CONSTANTS
    a = a
    v1 = v1
    NoValue = NoValue
    NumReplicas = 3
    NumTablets = 2
    NumTabletMem = 1
    MaxLog = 1
    MaxLate = 1
    MaxFaults = 1
    Hazards = {"busy_primary_crash"}
    Cells <- MCCells
    Values <- MCValues
    TabletOf <- MCTabletOf
INVARIANT SgetFindsTabletOnDisk
CHECK_DEADLOCK FALSE
