SPECIFICATION FairSpec
CONSTANTS
    Messages <- ShortAndLong
    BufferSize = 16
    MaxPut = 1
    WholeArrivals = FALSE
    MayReplace = FALSE
PROPERTY NoneLost
