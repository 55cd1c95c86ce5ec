SPECIFICATION Spec
CONSTANTS
    NumPeers = 2
    Incoming = {}
    NumBlocks = 3
    PieceOf <- Pieces112
    Holds <- HoldsMix
    MaxOutstanding = 1
    MaxPerTick = 2
    RequestExpiration = 0
    MaxCopies = 1
    Faulty = {1}
    Flaky = {1}
    Reserved = {}
    Leechers = {}
    TempSuffix = TRUE
    MayKill = TRUE
INVARIANTS TypeOK OutstandingWithinCap RecordsBoundOutstanding ExactForStable PiecesVerified HaveCoverage
