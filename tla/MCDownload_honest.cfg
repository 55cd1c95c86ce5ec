SPECIFICATION Spec
CONSTANTS
    NumPeers = 2
    Incoming = {2}
    NumBlocks = 3
    PieceOf <- Pieces112
    Holds <- HoldsLast
    MaxOutstanding = 2
    MaxPerTick = 2
    RequestExpiration = 0
    MaxCopies = 1
    Faulty = {}
    Flaky = {1}
    Reserved = {}
    Leechers = {2}
    TempSuffix = TRUE
    MayKill = TRUE
INVARIANTS PendingServable FinalIsComplete
PROPERTY ImplementsAcquisition
