------------------------------- MODULE HsStream -------------------------------
(***************************************************************************)
(* The public scanning API of runtime.c: streams, their persistent state,  *)
(* the scratch space a call borrows, and the match callback, from which    *)
(* the application may call the API again.                                 *)
(*                                                                         *)
(* One API call that can deliver matches is a frame on `stack'.  The frame *)
(* carries the stages the call still has to go through; a stage (a         *)
(* boundary program, the matching engines, the stored SOM reports, the     *)
(* last combinations) delivers any number of matches.  What the engines    *)
(* match is abstracted: any stage that runs may deliver a match, exhaust   *)
(* every pattern or hit the internal error of the program interpreter.     *)
(***************************************************************************)
EXTENDS Integers, Sequences, FiniteSets

CONSTANTS
    Streams,          \* handles the application may open
    Scratches,        \* scratch spaces; each also owns a bstate
    Blobs,            \* buffers for compressed streams
    Bytes,            \* bytes of stream data
    Junk,             \* content of memory nobody has written
    NULL,
    HistoryRequired,  \* rose->historyRequired
    MinWidth,         \* rose->minWidth: no block shorter than this matches
    U32,              \* 2^32: the modulus of a cast to u32
    Programs,         \* the optional stages the database has
    EngineEvents,     \* which of EXHAUSTED and ERROR matching can raise
    Calls,            \* the API calls the application makes
    MaxChunk,         \* bound: bytes of one write
    MaxOffset,        \* bound: bytes of one stream
    MaxDepth          \* bound: nesting of API calls through callbacks

AllPrograms == {"zero", "zeroEod", "eod", "som", "eodExec", "comb"}
EodCalls == {"close", "reset", "copyTo", "expandTo"}
AllCalls == EodCalls \cup
    {"open", "scan", "block", "vector", "copy", "compress", "expand"}
StatusBits == {"TERMINATED", "EXHAUSTED", "ERROR"}
Stages == {"zero", "exec", "som", "store", "eod", "eodExec", "comb", "more",
           "finish"}

LastStages == {"store", "more", "finish"}

ASSUME HistoryAssumption == HistoryRequired \in Nat
ASSUME MinWidthAssumption == MinWidth \in Nat
ASSUME U32Assumption == U32 \in Nat \ {0}
ASSUME BoundsAssumption ==
    MaxChunk \in Nat /\ MaxOffset \in Nat /\ MaxDepth \in Nat
ASSUME FlagsAssumption ==
    /\ Programs \subseteq AllPrograms
    /\ Calls \subseteq AllCalls
    /\ EngineEvents \subseteq {"EXHAUSTED", "ERROR"}

VARIABLES
    stream,   \* id -> NULL or the persistent state (hs_stream and its state)
    inUse,    \* scratch -> scratch->in_use
    core,     \* scratch -> scratch->core_info.status
    blob,     \* buffer -> NULL or a compressed stream
    stack,    \* the API calls in progress, innermost last
    data,     \* id -> every byte the stream has consumed (history variable)
    told      \* id -> a callback asked to stop matching it (history variable)

vars == <<stream, inUse, core, blob, stack, data, told>>

(* hs_scan_vector keeps its stream in scratch->bstate. *)
Ids == Streams \cup Scratches

HistoryIndex == 1 .. HistoryRequired
Chunks == UNION {[1 .. n -> Bytes] : n \in 0 .. MaxChunk}
Min2(a, b) == IF a < b THEN a ELSE b

StreamState == [offset : Nat, status : SUBSET StatusBits,
                hist : [HistoryIndex -> Bytes \cup {Junk}]]
Compressed == [offset : Nat, status : SUBSET StatusBits,
               saved : UNION {[n .. HistoryRequired -> Bytes \cup {Junk}] :
                              n \in 1 .. HistoryRequired + 1},
               data : Seq(Bytes), told : BOOLEAN]

(* What a call still has to do: stages, and then how it ends. *)
Todos == {todo \in Seq(Stages) :
            /\ todo # <<>>
            /\ \A i \in 1 .. Len(todo) : todo[i] \in LastStages <=> i = Len(todo)}
Frames == [op : AllCalls, id : Ids, from : Streams \cup Blobs \cup {NULL},
           scratch : Scratches, buf : Seq(Bytes), todo : Todos,
           cb : BOOLEAN, halt : BOOLEAN]

ASSUME HandlesAssumption ==
    /\ Streams \cap Scratches = {}
    /\ Blobs \cap (Streams \cup Scratches) = {}
    /\ NULL \notin Streams \cup Scratches \cup Blobs \cup StreamState \cup Compressed
    /\ Junk \notin Bytes

TypeOK ==
    /\ stream \in [Ids -> StreamState \cup {NULL}]
    /\ inUse \in [Scratches -> BOOLEAN]
    /\ core \in [Scratches -> SUBSET StatusBits]
    /\ blob \in [Blobs -> Compressed \cup {NULL}]
    /\ stack \in Seq(Frames)
    /\ data \in [Ids -> Seq(Bytes)]
    /\ told \in [Ids -> BOOLEAN]

-----------------------------------------------------------------------------
(* Persistent state. *)

Broken(status) == status # {}

getHistoryAmount(offset) == Min2(HistoryRequired, offset)

(* Mutant: the kept bytes stay where they were. *)
maintainHistoryBuffer_noShift(hist, buf) ==
    LET amount == Min2(HistoryRequired, Len(buf))
    IN  [i \in HistoryIndex |->
            IF i > HistoryRequired - amount
            THEN buf[Len(buf) - HistoryRequired + i]
            ELSE hist[i]]

(* Shift the kept bytes to the front, then append the end of the write. *)
maintainHistoryBuffer(hist, buf) ==
    LET amount == Min2(HistoryRequired, Len(buf))
    IN  [i \in HistoryIndex |->
            IF i > HistoryRequired - amount
            THEN buf[Len(buf) - HistoryRequired + i]
            ELSE hist[i + Len(buf)]]

(* A new stream; a reset keeps the old history bytes. *)
init_stream(hist) == [offset |-> 0, status |-> {}, hist |-> hist]

Uninitialised == [i \in HistoryIndex |-> Junk]

(* compress_stream saves the bytes MIN((u32)offset, historyRequired) before *)
(* the end of the history; expand_stream puts them back into `hist'.        *)
savedHistory(offset) == Min2(offset % U32, HistoryRequired)

compress_stream(id) ==
    LET st == stream[id]
        n == savedHistory(st.offset)
    IN  [offset |-> st.offset, status |-> st.status,
         saved |-> [i \in HistoryRequired - n + 1 .. HistoryRequired |-> st.hist[i]],
         data |-> data[id], told |-> told[id]]

(* Mutant: the bytes in front of the saved ones are dropped. *)
expand_stream_short(b, hist) ==
    [offset |-> b.offset, status |-> b.status, hist |-> b.saved]

expand_stream(b, hist) ==
    [offset |-> b.offset, status |-> b.status,
     hist |-> [i \in HistoryIndex |->
                 IF i \in DOMAIN b.saved THEN b.saved[i] ELSE hist[i]]]

-----------------------------------------------------------------------------
(* Calls in progress. *)

Top == stack[Len(stack)]
Below == SubSeq(stack, 1, Len(stack) - 1)
Working == stack # <<>> /\ ~Top.cb
Stage == Head(Top.todo)

(* The application calls in from outside or from a callback, and then not   *)
(* on a stream that a call in progress was given (hs_runtime.h).            *)
Free(id) == \A i \in DOMAIN stack : id \notin {stack[i].id, stack[i].from}
MayCall(op) == /\ op \in Calls
               /\ stack # <<>> => Top.cb
               /\ Len(stack) < MaxDepth
Open(id) == Free(id) /\ stream[id] # NULL

(* Mutant: the flag is set without being tested. *)
markScratchInUse_unchecked(x) == inUse' = [inUse EXCEPT ![x] = TRUE]

markScratchInUse(x) == ~inUse[x] /\ inUse' = [inUse EXCEPT ![x] = TRUE]

unmarkScratchInUse(x) == inUse' = [inUse EXCEPT ![x] = FALSE]

populateCoreInfo(x, status) == core' = [core EXCEPT ![x] = status]

Frame(op, id, from, x, buf, todo) ==
    [op |-> op, id |-> id, from |-> from, scratch |-> x, buf |-> buf,
     todo |-> todo, cb |-> FALSE, halt |-> FALSE]

Push(f) == stack' = Append(stack, f)
Pop == stack' = Below
SetTop(f) == stack' = Append(Below, f)

ScanStages == <<"zero", "exec", "som", "store">>
EodStages == <<"eod", "eodExec", "som", "comb", "finish">>
BlockStages == <<"zero", "exec", "som", "eod", "comb", "finish">>
EmptyBlockStages == <<"eod", "comb", "finish">>

(* Offset at which a boundary program or the EOD engines run. *)
Offset(f) == IF f.op = "block" THEN Len(f.buf) ELSE stream[f.id].offset

(* Whether the code runs stage g of call f at all. *)
StageRuns(f, g) ==
    LET status == core[f.scratch] IN
    CASE g = "zero"    -> "zero" \in Programs /\ (f.op = "block" \/ Offset(f) = 0)
      [] g = "exec"    -> TRUE
      [] g = "som"     -> "som" \in Programs /\ "TERMINATED" \notin status
      [] g = "eod"     -> IF Offset(f) = 0 THEN "zeroEod" \in Programs
                                           ELSE "eod" \in Programs
      [] g = "eodExec" -> "eodExec" \in Programs /\ Offset(f) # 0 /\ ~Broken(status)
      [] g = "comb"    -> /\ "comb" \in Programs
                          /\ f.op = "block" \/ "TERMINATED" \notin status
      [] OTHER         -> FALSE

(* Mutant: no early return when a stage is halted. *)
StagesAfter_noReturn(f, g) == Tail(f.todo)

(* The stages left once stage g of f is over. *)
StagesAfter(f, g) ==
    LET status == core[f.scratch]
        rest == Tail(f.todo)
    IN  CASE f.op = "block" /\ "ERROR" \in status                   -> <<"finish">>
          [] f.op = "block" /\ g = "zero" /\ f.halt                 -> <<"comb", "finish">>
          [] f.op = "block" /\ g \in {"exec", "som"}
                            /\ "TERMINATED" \in status              -> <<"finish">>
          [] f.op # "block" /\ g = "zero" /\ f.halt                 -> <<"store">>
          [] f.op # "block" /\ g = "eod" /\ f.halt                  -> <<"finish">>
          [] OTHER                                                  -> rest

-----------------------------------------------------------------------------
(* Starting a call. *)

hs_open_stream(id) ==
    /\ MayCall("open") /\ stream[id] = NULL /\ Free(id)
    /\ stream' = [stream EXCEPT ![id] = init_stream(Uninitialised)]
    /\ data' = [data EXCEPT ![id] = <<>>]
    /\ told' = [told EXCEPT ![id] = FALSE]
    /\ UNCHANGED <<inUse, core, blob, stack>>

(* A broken stream or an empty write returns at once. *)
hs_scan_stream(id, x, buf) ==
    /\ MayCall("scan") /\ Open(id)
    /\ ~Broken(stream[id].status) /\ buf # <<>>
    /\ stream[id].offset + Len(buf) <= MaxOffset
    /\ markScratchInUse(x)
    /\ populateCoreInfo(x, stream[id].status)
    /\ Push(Frame("scan", id, NULL, x, buf, ScanStages))
    /\ UNCHANGED <<stream, blob, data, told>>

(* A block shorter than every match returns at once. *)
hs_scan(x, buf) ==
    /\ MayCall("block") /\ MinWidth <= Len(buf)
    /\ markScratchInUse(x)
    /\ populateCoreInfo(x, {})
    /\ told' = [told EXCEPT ![x] = FALSE]
    /\ Push(Frame("block", x, NULL, x, buf,
                  IF buf = <<>> THEN EmptyBlockStages ELSE BlockStages))
    /\ UNCHANGED <<stream, blob, data>>

hs_scan_vector(x) ==
    /\ MayCall("vector") /\ markScratchInUse(x)
    /\ stream' = [stream EXCEPT ![x] = init_stream(Uninitialised)]
    /\ data' = [data EXCEPT ![x] = <<>>]
    /\ told' = [told EXCEPT ![x] = FALSE]
    /\ Push(Frame("vector", x, NULL, x, <<>>, <<"more">>))
    /\ UNCHANGED <<core, blob>>

(* Close, reset, reset-and-copy, reset-and-expand with a callback: EOD       *)
(* matches first.  report_eod_matches leaves the scratch alone when the      *)
(* stream is broken.                                                         *)
CallWithEod(op, id, from, x) ==
    /\ MayCall(op) /\ Open(id)
    /\ markScratchInUse(x)
    /\ IF Broken(stream[id].status)
       THEN /\ Push(Frame(op, id, from, x, <<>>, <<"finish">>))
            /\ UNCHANGED core
       ELSE /\ Push(Frame(op, id, from, x, <<>>, EodStages))
            /\ populateCoreInfo(x, stream[id].status)
    /\ UNCHANGED <<stream, blob, data, told>>

hs_compress_stream(id, b) ==
    /\ MayCall("compress") /\ Open(id) /\ Free(b)
    /\ blob' = [blob EXCEPT ![b] = compress_stream(id)]
    /\ UNCHANGED <<stream, inUse, core, stack, data, told>>

(* What the call does to stream `id' once the EOD matches are out.  A new   *)
(* stream of hs_copy_stream or hs_expand_stream is written the same way.    *)
Replace(op, id, from) ==
    CASE op = "close" ->
            /\ stream' = [stream EXCEPT ![id] = NULL]
            /\ data' = [data EXCEPT ![id] = <<>>]
            /\ told' = [told EXCEPT ![id] = FALSE]
      [] op = "reset" ->
            /\ stream' = [stream EXCEPT ![id] = init_stream(stream[id].hist)]
            /\ data' = [data EXCEPT ![id] = <<>>]
            /\ told' = [told EXCEPT ![id] = FALSE]
      [] op \in {"copyTo", "copy"} ->
            /\ stream' = [stream EXCEPT ![id] = stream[from]]
            /\ data' = [data EXCEPT ![id] = data[from]]
            /\ told' = [told EXCEPT ![id] = told[from]]
      [] op \in {"expandTo", "expand"} ->
            /\ stream' = [stream EXCEPT ![id] =
                            expand_stream(blob[from], IF op = "expand" THEN Uninitialised
                                                      ELSE stream[id].hist)]
            /\ data' = [data EXCEPT ![id] = blob[from].data]
            /\ told' = [told EXCEPT ![id] = blob[from].told]

(* The same calls without a callback: no EOD matches, no scratch. *)
CallWithoutEod(op, id, from) ==
    /\ MayCall(op) /\ Open(id)
    /\ Replace(op, id, from)
    /\ UNCHANGED <<inUse, core, blob, stack>>

(* hs_copy_stream and hs_expand_stream into newly allocated memory. *)
CallIntoNew(op, id, from) ==
    /\ MayCall(op) /\ stream[id] = NULL /\ Free(id)
    /\ Replace(op, id, from)
    /\ UNCHANGED <<inUse, core, blob, stack>>

-----------------------------------------------------------------------------
(* Steps of the innermost call. *)

(* The stage delivers a match: the user's callback runs. *)
Report ==
    /\ Working /\ StageRuns(Top, Stage) /\ ~Top.halt
    /\ SetTop([Top EXCEPT !.cb = TRUE])
    /\ UNCHANGED <<stream, inUse, core, blob, data, told>>

CallbackContinue ==
    /\ stack # <<>> /\ Top.cb
    /\ SetTop([Top EXCEPT !.cb = FALSE])
    /\ UNCHANGED <<stream, inUse, core, blob, data, told>>

(* A non-zero return: STATUS_TERMINATED, and the program stops. *)
CallbackHalt ==
    /\ stack # <<>> /\ Top.cb
    /\ SetTop([Top EXCEPT !.cb = FALSE, !.halt = TRUE])
    /\ core' = [core EXCEPT ![Top.scratch] = @ \cup {"TERMINATED"}]
    /\ told' = [told EXCEPT ![Top.id] = TRUE]
    /\ UNCHANGED <<stream, inUse, blob, data>>

(* Every pattern is exhausted, or nothing can match any more. *)
Exhaust ==
    /\ "EXHAUSTED" \in EngineEvents
    /\ Working /\ StageRuns(Top, Stage) /\ ~Top.halt /\ Stage # "som"
    /\ SetTop([Top EXCEPT !.halt = TRUE])
    /\ core' = [core EXCEPT ![Top.scratch] = @ \cup {"EXHAUSTED"}]
    /\ UNCHANGED <<stream, inUse, blob, data, told>>

(* The default case of the program interpreter. *)
InternalError ==
    /\ "ERROR" \in EngineEvents
    /\ Working /\ StageRuns(Top, Stage) /\ ~Top.halt /\ Stage # "som"
    /\ SetTop([Top EXCEPT !.halt = TRUE])
    /\ core' = [core EXCEPT ![Top.scratch] = @ \cup {"ERROR"}]
    /\ UNCHANGED <<stream, inUse, blob, data, told>>

EndStage ==
    /\ Working /\ Stage \notin LastStages
    /\ SetTop([Top EXCEPT !.todo = StagesAfter(Top, Stage), !.halt = FALSE])
    /\ UNCHANGED <<stream, inUse, core, blob, data, told>>

(* Mutant: a write that was stopped does not store its status. *)
StoreStream_unlessBroken(id, status, buf) ==
    IF Broken(status)
    THEN UNCHANGED <<stream, data>>
    ELSE /\ stream' = [stream EXCEPT ![id] =
                [offset |-> @.offset + Len(buf), status |-> status,
                 hist |-> maintainHistoryBuffer(@.hist, buf)]]
         /\ data' = [data EXCEPT ![id] = @ \o buf]

(* The end of hs_scan_stream_internal. *)
StoreStream(id, status, buf) ==
    IF Broken(status)
    THEN /\ stream' = [stream EXCEPT ![id].status = status]
         /\ UNCHANGED data
    ELSE /\ stream' = [stream EXCEPT ![id] =
                [offset |-> @.offset + Len(buf), status |-> status,
                 hist |-> maintainHistoryBuffer(@.hist, buf)]]
         /\ data' = [data EXCEPT ![id] = @ \o buf]

(* hs_scan_vector goes on to the next buffer unless the scan failed. *)
Store ==
    LET f == Top
        status == core[f.scratch]
    IN  /\ Working /\ Stage = "store"
        /\ StoreStream(f.id, status, f.buf)
        /\ IF f.op = "scan" \/ {"TERMINATED", "ERROR"} \cap status # {}
           THEN Pop /\ unmarkScratchInUse(f.scratch)
           ELSE SetTop([f EXCEPT !.todo = <<"more">>, !.buf = <<>>]) /\ UNCHANGED inUse
        /\ UNCHANGED <<core, blob, told>>

VectorBlock(buf) ==
    LET f == Top IN
    /\ Working /\ Stage = "more"
    /\ ~Broken(stream[f.id].status) /\ buf # <<>>
    /\ stream[f.id].offset + Len(buf) <= MaxOffset
    /\ populateCoreInfo(f.scratch, stream[f.id].status)
    /\ SetTop([f EXCEPT !.buf = buf, !.todo = ScanStages])
    /\ UNCHANGED <<stream, inUse, blob, data, told>>

VectorEod(onEvent) ==
    LET f == Top IN
    /\ Working /\ Stage = "more"
    /\ IF onEvent /\ ~Broken(stream[f.id].status)
       THEN /\ SetTop([f EXCEPT !.todo = EodStages])
            /\ populateCoreInfo(f.scratch, stream[f.id].status)
       ELSE /\ SetTop([f EXCEPT !.todo = <<"finish">>])
            /\ UNCHANGED core
    /\ UNCHANGED <<stream, inUse, blob, data, told>>

(* After the EOD matches: on an internal error the stream is freed by        *)
(* hs_close_stream and left as it is by the others.                          *)
Finish ==
    LET f == Top IN
    /\ Working /\ Stage = "finish"
    /\ Pop /\ unmarkScratchInUse(f.scratch)
    /\ IF f.op \in EodCalls /\ (f.op = "close" \/ "ERROR" \notin core[f.scratch])
       THEN Replace(f.op, f.id, f.from)
       ELSE UNCHANGED <<stream, data, told>>
    /\ UNCHANGED <<core, blob>>

-----------------------------------------------------------------------------
Init ==
    /\ stream = [id \in Ids |-> NULL]
    /\ inUse = [x \in Scratches |-> FALSE]
    /\ core = [x \in Scratches |-> {}]
    /\ blob = [b \in Blobs |-> NULL]
    /\ stack = <<>>
    /\ data = [id \in Ids |-> <<>>]
    /\ told = [id \in Ids |-> FALSE]

(* The stream or buffer a call copies from. *)
Source(op, id, from) ==
    CASE op \in {"copyTo", "copy"}     -> from \in Streams \ {id} /\ Open(from)
      [] op \in {"expandTo", "expand"} -> from \in Blobs /\ Free(from) /\ blob[from] # NULL
      [] OTHER                         -> from = NULL

Call ==
    \/ \E id \in Streams : hs_open_stream(id)
    \/ \E id \in Streams, x \in Scratches, buf \in Chunks : hs_scan_stream(id, x, buf)
    \/ \E x \in Scratches, buf \in Chunks : hs_scan(x, buf)
    \/ \E x \in Scratches : hs_scan_vector(x)
    \/ \E id \in Streams, b \in Blobs : hs_compress_stream(id, b)
    \/ \E op \in EodCalls, id \in Streams, from \in Streams \cup Blobs \cup {NULL} :
          /\ Source(op, id, from)
          /\ \/ \E x \in Scratches : CallWithEod(op, id, from, x)
             \/ CallWithoutEod(op, id, from)
    \/ \E op \in {"copy", "expand"}, id \in Streams, from \in Streams \cup Blobs :
          Source(op, id, from) /\ CallIntoNew(op, id, from)

Step ==
    \/ Report \/ CallbackContinue \/ CallbackHalt
    \/ Exhaust \/ InternalError \/ EndStage
    \/ Store \/ (\E buf \in Chunks : VectorBlock(buf))
    \/ (\E onEvent \in BOOLEAN : VectorEod(onEvent))
    \/ Finish

Next == Call \/ Step

Spec == Init /\ [][Next]_vars

-----------------------------------------------------------------------------
(* The history buffer of an unbroken stream ends with the last              *)
(* MIN(historyRequired, offset) bytes the stream consumed, whatever mix of  *)
(* short and long writes, resets, copies and compressions produced it: what *)
(* getHistory() hands to the engines as the bytes before the next write.    *)
HistoryIsSuffix ==
    \A id \in Ids : stream[id] # NULL =>
        /\ stream[id].offset = Len(data[id])
        /\ \A i \in 0 .. getHistoryAmount(stream[id].offset) - 1 :
              stream[id].hist[HistoryRequired - i] = data[id][Len(data[id]) - i]

(* A scratch is marked in use exactly while one call in progress holds it:  *)
(* markScratchInUse keeps a nested call off it, and every return path of    *)
(* every call, early or not, unmarks it.                                    *)
ScratchHeldByOneCall ==
    \A x \in Scratches :
        inUse[x] <=> \E i \in DOMAIN stack :
            /\ stack[i].scratch = x
            /\ \A j \in DOMAIN stack : stack[j].scratch = x => j = i

(* Once a callback has returned non-zero no callback is made again for that *)
(* stream, nor in the rest of that block or vector scan (hs_runtime.h:      *)
(* "Non-zero if the matching should cease").                                *)
NoCallbackAfterHalt ==
    \A i \in DOMAIN stack : stack[i].cb => ~told[stack[i].id]

(* A stream at rest remembers that a callback stopped it, through copies,   *)
(* compression and expansion, and forgets it when it is reset: the later    *)
(* hs_scan_stream that must return HS_SCAN_TERMINATED reads this status.    *)
HaltIsRemembered ==
    \A id \in Streams : (stream[id] # NULL /\ Free(id)) =>
        (told[id] <=> "TERMINATED" \in stream[id].status)

=============================================================================
