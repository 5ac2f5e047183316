SPECIFICATION Spec
CONSTANTS
    Paths = {1, 2, 3, 4, 5, 6, 7}
    Parent <- TreeParent
    Kind <- TreeKind
    Mode <- TreeMode
    Length <- TreeLength
    NewLengths = {}
    Setups <- LinkedSetups
    MaxStreams = 2
    Window = 1
    MaxInTheWay = 1
    MaxFaults = 0
CHECK_DEADLOCK FALSE
INVARIANT Recreated
