SPECIFICATION Spec
CONSTANTS
    N = 3
    First <- ThreeFirst
    Buffers = {0, 1}
    Streams = {0}
    BufferStream <- OneStream
    Stride <- UnequalStride
    Start <- OneStreamStart
    Sizes = {3, 4}
    Ticket0 = 0
    MaxGen = 2
    SpinBound = 1
INVARIANTS
    UniqueRanges
