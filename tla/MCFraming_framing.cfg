SPECIFICATION FairSpec
CONSTANTS
    Messages <- ShortAndLong
    BufferSize = 10
    MaxPut = 3
    WholeArrivals = FALSE
    MayReplace = TRUE
INVARIANT BufferFits
PROPERTIES ImplementsChannel AllHandled
