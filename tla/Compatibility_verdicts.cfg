\* Models with and without KV figures in their header, around every boundary.
\* Nine digits round 1.1 up and 1.2 down, as the double's 53 do.
SPECIFICATION Spec
CONSTANTS
    Mib = 8
    Grain = 256
    Digits = 256
    Spacings = {1, 2, 4, 8, 16, 32, 64, 128}
    WeightsNum = 282
    WeightsDen = 256
    MarginNum = 307
    MarginDen = 256
    MinContext = 4
    DefaultContext = 6
    FileSizes = {1, 8, 20, 21, 33, 40, 41, 51}
    KvSizes = {0, 1, 3, 5, 6, 8, 11}
    NativeContexts = {0, 3, 12}
    Requests = {0, 2, 9, 16}
    Pools = {0, 2, 5, 6, 7, 8, 9, 10, 11, 12}
CHECK_DEADLOCK FALSE
INVARIANTS
    OfferWithinOne
    RejectionWithinOne
    ReducedIsClose
