SPECIFICATION Spec
CONSTANTS
    Pages = {p1, p2}
    Names = {x, y}
    NoCookie = NoCookie
    Nobody = Nobody
    NoTree = NoTree
    NullTree = NullTree
    MaxSecond = 1
    MaxEntries = 3
    MaxSteps = 3
    MaxOut = 3
    MaxFails = 1
INVARIANTS TypeOK LastLoginStands KeepsFiles HarmHasCause
SYMMETRY PageSymmetry
CHECK_DEADLOCK FALSE
