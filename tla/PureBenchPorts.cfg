SPECIFICATION Spec
CONSTANTS
    MaxPort = 7
    WordSize = 16
    MaxTotal = 9
    MaxParallel = 8
    MinPacketBytes = 2
    MaxPacketBytes = 3
    MaxPhrases = 3
    MaxItems = 4
    MaxChars = 3
    Number <- Numbers
    Dashed <- DashedWords
    DefaultPort = "2"
    DefaultParallel = "3"
    DefaultDiscovery = "2"
    DefaultTestPort = "3"
    DefaultSeconds = "3"
    DefaultChunk = "3"
    DefaultBuffer = "2"
    Downloads = "downloads"
INVARIANT BenchPortsFit
