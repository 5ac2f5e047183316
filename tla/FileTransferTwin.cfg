SPECIFICATION Spec
CONSTANTS
    a = a
    b = b
    c = c
    Senders = {a, b}
    NoSender = none
    Size <- TwinSize
    Name <- TwinName
    NameUnits <- PairNameUnits
    Parallel <- PairParallel
    RecvParallel = 2
    MaxStreams = 2
    MaxBytes = 4
    HeaderUnits = 2
    MaxNameUnits = 1
    Window = 2
    Backlog = 1
    LinkMayFail = FALSE
    DiskMayFail = TRUE
    SenderMayDie = TRUE
INVARIANTS TypeOK EndToEnd NoMisplacedByte SuccessMeansWholeParts
PROPERTIES WrittenStays Implements
CHECK_DEADLOCK FALSE
