SPECIFICATION Spec
CONSTANTS
    N = 3
    First <- ThreeFirst
    Buffers = {0, 1}
    Streams = {0}
    BufferStream <- OneStream
    Stride <- UnequalStride
    Start <- OneStreamStart
    Sizes = {0, 3}
    Ticket0 = 0
    MaxGen = 2
    SpinBound = 2
INVARIANTS
    TypeOK
    OrderedCapture
    EmitsWhatFits
    OrderedOffsetAfterLast
