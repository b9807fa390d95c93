SPECIFICATION Spec
CONSTANTS
    Streams = {s1, s2}
    Scratches = {x1}
    Blobs = {b1}
    Bytes = {p}
    Junk = Junk
    NULL = NULL
    HistoryRequired = 0
    MinWidth = 0
    U32 = 100
    Programs = {"zero", "zeroEod", "eod", "som", "eodExec", "comb"}
    EngineEvents = {"ERROR"}
    Calls <- StreamCalls
    MaxChunk = 1
    MaxOffset = 2
    MaxDepth = 1
SYMMETRY Handles
INVARIANT HaltIsRemembered
