SPECIFICATION Spec
CONSTANTS
    a = a
    b = b
    c = c
    Senders = {a, b, c}
    NoSender = none
    Size <- MixSize
    Name <- MixName
    NameUnits <- MixNameUnits
    Parallel <- MixParallel
    RecvParallel = 1
    MaxStreams = 2
    MaxBytes = 2
    HeaderUnits = 2
    MaxNameUnits = 1
    Window = 2
    Backlog = 1
    LinkMayFail = FALSE
    DiskMayFail = TRUE
    SenderMayDie = FALSE
INVARIANT SingleMeansComplete
PROPERTY Implements
CHECK_DEADLOCK FALSE
