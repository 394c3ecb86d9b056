SPECIFICATION FairSpec
CONSTANTS
    Conns = {c1, c2}
    Free = Free
    NoLength = NoLength
    Load = 2
    Width = 16
    FirstLine = 1
    LengthLine = 2
    Header = 3
    Sizes = {NoLength, 0, 3, 4}
INVARIANTS TypeOK AnswersItsOwn BodyWhole
PROPERTIES ClosesExact
CHECK_DEADLOCK FALSE
