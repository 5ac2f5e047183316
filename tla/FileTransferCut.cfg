SPECIFICATION Spec
CONSTANTS
    a = a
    b = b
    c = c
    Senders = {a}
    NoSender = none
    Size <- OneSize
    Name <- OneName
    NameUnits <- OneNameUnits
    Parallel <- OneParallel
    RecvParallel = 2
    MaxStreams = 2
    MaxBytes = 3
    HeaderUnits = 1
    MaxNameUnits = 1
    Window = 2
    Backlog = 1
    LinkMayFail = FALSE
    DiskMayFail = FALSE
    SenderMayDie = TRUE
INVARIANT SavedMeansComplete
CHECK_DEADLOCK FALSE
