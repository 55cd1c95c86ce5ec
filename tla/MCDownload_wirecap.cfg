SPECIFICATION Spec
CONSTANTS
    NumPeers = 1
    Incoming = {}
    NumBlocks = 2
    PieceOf <- Pieces11
    Holds <- HoldsAll
    MaxOutstanding = 1
    MaxPerTick = 2
    RequestExpiration = 0
    MaxCopies = 1
    Faulty = {}
    Flaky = {1}
    Reserved = {}
    Leechers = {}
    TempSuffix = FALSE
    MayKill = FALSE
INVARIANT WireCap
