SPECIFICATION FairSpec
CONSTANTS
    a = a
    b = b
    c = c
    Senders = {a, b}
    NoSender = none
    Size <- TinySize
    Name <- TwinName
    NameUnits <- PairNameUnits
    Parallel <- PairParallel
    RecvParallel = 2
    MaxStreams = 2
    MaxBytes = 1
    HeaderUnits = 1
    MaxNameUnits = 1
    Window = 1
    Backlog = 1
    LinkMayFail = TRUE
    DiskMayFail = FALSE
    SenderMayDie = FALSE
PROPERTIES SenderTerminates ReceiverTerminates
CHECK_DEADLOCK FALSE
