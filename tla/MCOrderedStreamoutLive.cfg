SPECIFICATION FairSpec
CONSTANTS
    N = 2
    First <- TwoFirst
    Buffers = {0, 3}
    Streams = {0, 1}
    BufferStream <- TwoStreams
    Stride <- TwoStreamSteps
    Start <- Resumed
    Sizes = {0, 3, 4}
    Ticket0 = 1
    MaxGen = 2
    SpinBound = 3
INVARIANTS
    TotalsExact
    UniqueRanges
    OffsetAfterLast
PROPERTY DrawFinishes
