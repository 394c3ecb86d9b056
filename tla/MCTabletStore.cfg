SPECIFICATION Spec
CONSTANTS
    a = a
    b = b
    c = c
    v1 = v1
    v2 = v2
    NoValue = NoValue
    NumTablets = 3
    NumTabletMem = 2
    MaxLog = 2
    Cells <- MCCells
    Values <- MCValues
    TabletOf <- MCTabletOf
SYMMETRY Symm
INVARIANTS TypeOK MemEquation ResidentSet ReplayNeverAborts ScanOK
PROPERTY TableSpec
