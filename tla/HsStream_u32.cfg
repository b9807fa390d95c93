SPECIFICATION Spec
CONSTANTS
    Streams = {s1, s2}
    Scratches = {x1}
    Blobs = {b1}
    Bytes = {p, q}
    Junk = Junk
    NULL = NULL
    HistoryRequired = 2
    MinWidth = 0
    U32 = 4
    Programs = {}
    EngineEvents = {}
    Calls <- StateCalls
    MaxChunk = 3
    MaxOffset = 5
    MaxDepth = 1
SYMMETRY Symmetric
INVARIANT HistoryIsSuffix
