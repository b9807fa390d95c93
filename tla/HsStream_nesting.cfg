SPECIFICATION Spec
CONSTANTS
    Streams = {s1, s2}
    Scratches = {x1, x2}
    Blobs = {}
    Bytes = {p}
    Junk = Junk
    NULL = NULL
    HistoryRequired = 0
    MinWidth = 0
    U32 = 100
    Programs = {"zero", "zeroEod", "eod", "som", "eodExec"}
    EngineEvents = {"EXHAUSTED"}
    Calls <- NestingCalls
    MaxChunk = 1
    MaxOffset = 1
    MaxDepth = 2
SYMMETRY Handles
INVARIANTS ScratchHeldByOneCall NoCallbackAfterHalt
