SPECIFICATION Spec
CONSTANTS
    Streams = {s1}
    Scratches = {x1}
    Blobs = {}
    Bytes = {p}
    Junk = Junk
    NULL = NULL
    HistoryRequired = 0
    MinWidth = 0
    U32 = 100
    Programs = {"zero", "zeroEod", "eod", "som", "eodExec", "comb"}
    EngineEvents = {}
    Calls <- BlockCalls
    MaxChunk = 1
    MaxOffset = 1
    MaxDepth = 1
SYMMETRY Handles
INVARIANT NoCallbackAfterHalt
