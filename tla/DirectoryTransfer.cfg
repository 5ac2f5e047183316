SPECIFICATION Spec
CONSTANTS
    Paths = {1, 2, 3, 4, 5, 6, 7}
    Parent <- TreeParent
    Kind <- TreeKind
    Mode <- TreeMode
    Length <- TreeLength
    NewLengths = {1, 4}
    Setups <- TreeSetups
    MaxStreams = 2
    Window = 1
    MaxInTheWay = 1
    MaxFaults = 1
CHECK_DEADLOCK FALSE
INVARIANTS TypeOK WholeTree NoFileCut ArchivePrefix
PROPERTY FinishedStays
