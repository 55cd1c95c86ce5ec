SPECIFICATION Spec
CONSTANTS
    NumFiles = 4
    FileLength <- Lengths
    FileStart <- Starts
    PieceLength = 4
    NumPieces = 2
    BlockSize = 2
    Byte <- Bytes
    Content <- Text
    Damaged <- AllNines
    Faulty = TRUE
    MayKill = TRUE
INVARIANTS TypeOK LoopFits ReadsFlat PiecesRight AllMeansRight
PROPERTY ImplementsArray
