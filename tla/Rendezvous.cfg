SPECIFICATION FairSpec
CONSTANTS
    MaxPort = 4
    WordSize = 8
    Senders = {a, b}
    Settings <- SomeSettings
    ProbePort = 3
    MaxStarts = 2
INVARIANT FreshConnectionsArrive
PROPERTY AutoSendLetsReceiverReturn
CHECK_DEADLOCK FALSE
