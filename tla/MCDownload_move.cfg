SPECIFICATION Spec
CONSTANTS
    NumPeers = 2
    Incoming = {}
    NumBlocks = 1
    PieceOf <- Pieces1
    Holds <- HoldsAll
    MaxOutstanding = 1
    MaxPerTick = 2
    RequestExpiration = 0
    MaxCopies = 1
    Faulty = {}
    Flaky = {1}
    Reserved = {}
    Leechers = {}
    TempSuffix = TRUE
    MayKill = FALSE
INVARIANT NoPanic
