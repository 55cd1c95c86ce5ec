SPECIFICATION FairSpec
CONSTANTS
    NumPeers = 2
    Incoming = {}
    NumBlocks = 2
    PieceOf <- Pieces11
    Holds <- HoldsAll
    MaxOutstanding = 1
    MaxPerTick = 2
    RequestExpiration = 0
    MaxCopies = 1
    Faulty = {}
    Flaky = {2}
    Reserved = {1}
    Leechers = {}
    TempSuffix = TRUE
    MayKill = FALSE
PROPERTIES RequestsRetried Completion FileMoved
