SPECIFICATION Spec
CONSTANTS
    a = a
    v1 = v1
    NoValue = NoValue
    NumReplicas = 3
    NumTablets = 2
    NumTabletMem = 1
    MaxLog = 1
    MaxLate = 1
    MaxFaults = 2
    Hazards = {"early_health"}
    Cells <- MCCells
    Values <- MCValues
    TabletOf <- MCTabletOf
INVARIANTS Lockstep SgetFindsTabletOnDisk
CHECK_DEADLOCK FALSE
