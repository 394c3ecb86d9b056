SPECIFICATION Spec
CONSTANTS
    a = a
    v1 = v1
    NoValue = NoValue
    NumReplicas = 2
    NumTablets = 2
    NumTabletMem = 1
    MaxLog = 1
    MaxLate = 1
    MaxFaults = 3
    Hazards = {"busy_primary_crash", "quick_restart", "stale_client", "early_health"}
    Cells <- MCCells
    Values <- MCValues
    TabletOf <- MCTabletOf
INVARIANTS TypeOK StoresSound
PROPERTY RecoveryCopiesNode
CHECK_DEADLOCK FALSE
