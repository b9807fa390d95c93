------------------------------ MODULE Chimera ------------------------------
(***************************************************************************)
(* chimera/ch_runtime.c: a scan that merges the matches of Hyperscan and   *)
(* of PCRE.  A pattern is "fixed" (Hyperscan finds its matches), "confirm" *)
(* (Hyperscan is a prefilter, PCRE finds the matches) or "unguarded" (PCRE *)
(* alone).  The queue holds the next match of every pattern that has one;  *)
(* when a match is delivered PCRE looks for the next one of that pattern.  *)
(*                                                                         *)
(* PCRE is external: text.spans[p] is what p matches, at most one span per *)
(* start, of which pcre_exec returns the leftmost at or after its start    *)
(* offset.  Of Hyperscan's hs_scan the model has the events it raises.  A  *)
(* fixed pattern has one at the end of each span, a prefilter also at      *)
(* other places.  They are not in order of their ends: an event may come   *)
(* one byte late, behind one that ends later (see Reports).                *)
(***************************************************************************)
EXTENDS Integers, Sequences, FiniteSets

CONSTANTS
    Databases,   \* sequences of patterns, see IsPattern
    Length,      \* bytes of the data
    MaxScans     \* scans made with the scratch

Spans == (0 .. Length) \X (0 .. Length)

\* texts: the sets of spans the pattern may have in the data
IsPattern(p) ==
    /\ p.kind \in {"fixed", "confirm", "unguarded"}
    /\ p.single \in BOOLEAN /\ p.utf8 \in BOOLEAN
    /\ p.minWidth \in Nat
    /\ \A spans \in p.texts : spans \subseteq Spans /\ \A s \in spans :
          /\ s[1] + p.minWidth <= s[2]
          /\ p.kind = "fixed" => p.minWidth > 0 /\ s[2] = s[1] + p.minWidth
          /\ \A r \in spans : r[1] = s[1] => r = s

ASSUME ChimeraAssumption ==
    /\ Length \in Nat /\ MaxScans \in Nat
    /\ \A d \in Databases :
          /\ Len(d) \in Nat /\ DOMAIN d = 1 .. Len(d)
          /\ \A i \in DOMAIN d : IsPattern(d[i])

VARIABLES
    db,         \* the database, never changes
    text,       \* spans of each pattern; cont: offsets of UTF-8 continuation bytes
    inUse,      \* scratch->in_use
    active,     \* scratch->active
    scanStart,  \* patternData[p].scanStart, kept from scan to scan
    match,      \* patternData[p].match[0]
    queue,      \* scratch->pq, in the order of PQ_COMP
    ret,        \* scratch->ret
    pc,         \* idle, init, hyperscan, catchup, resume, scanned, flush
    left,       \* unguarded patterns initQueue has not scanned
    at,         \* offset Hyperscan has reached
    raised,     \* the events <<pattern, end>> it has raised for this offset and the one before
    event,      \* the event, or the arguments of the flush, being caught up with
    result,     \* value returned by the last scan
    scans,      \* number of scans made
    out,        \* history: matches delivered in this scan
    given,      \* history: patterns given up (skipped, or PCRE hit a limit)
    halted      \* history: who stopped the scan

vars == <<db, text, inUse, active, scanStart, match, queue, ret, pc, left, at, raised,
          event, result, scans, out, given, halted>>

CH_SUCCESS == 0
CH_CALLBACK_TERMINATE == 1
CH_CALLBACK_SKIP_PATTERN == 2
CH_SCAN_TERMINATED == -3
CH_FAIL_INTERNAL == -32

Ids == DOMAIN db
NoId == 0
NoSpan == <<-1, -1>>
Items == [from : 0 .. Length, to : 0 .. Length, id : Ids]
NoEvent == [id |-> NoId, from |-> Length, to |-> Length]
Unguarded == {p \in Ids : db[p].kind = "unguarded"}
CHIMERA_FLAG_NO_MULTIMATCH == Unguarded = Ids
CHIMERA_FLAG_ALL_CONFIRM == \A p \in Ids : db[p].kind # "fixed"
CHIMERA_FLAG_ALL_SINGLE == \A p \in Ids : db[p].single

----------------------------------------------------------------------------
\* The priority queue

\* Mutant: compares the starts first
PqBefore_start(a, b) ==
    \/ a.from < b.from
    \/ a.from = b.from /\ a.to < b.to
    \/ a.from = b.from /\ a.to = b.to /\ a.id < b.id

PqBefore(a, b) ==
    \/ a.to < b.to
    \/ a.to = b.to /\ a.from < b.from
    \/ a.to = b.to /\ a.from = b.from /\ a.id < b.id

PqInsert(q, from, to, id) ==
    LET item == [from |-> from, to |-> to, id |-> id]
        before == Cardinality({i \in DOMAIN q : PqBefore(q[i], item)})
    IN SubSeq(q, 1, before) \o <<item>> \o SubSeq(q, before + 1, Len(q))

----------------------------------------------------------------------------
\* PCRE

\* Mutant: one continuation byte is stepped over, not all of them
NextStart_once(p, from, to) ==
    IF from # to THEN to
    ELSE IF db[p].utf8 /\ to + 1 \in text.cont THEN to + 2 ELSE to + 1

\* Where the scan for the match after <<from, to>> starts: behind it, or at the
\* next codepoint when it is empty
NextStart(p, from, to) ==
    IF from # to THEN to
    ELSE IF db[p].utf8
         THEN CHOOSE s \in (to + 1) .. (Length + 1) :
                 /\ s >= Length \/ s \notin text.cont
                 /\ \A r \in (to + 1) .. (s - 1) : r < Length /\ r \in text.cont
         ELSE to + 1

SpansFrom(p, start) == {s \in text.spans[p] : s[1] >= start}

pcre_exec(p, start) ==
    IF SpansFrom(p, start) = {} THEN NoSpan
    ELSE CHOOSE s \in SpansFrom(p, start) : \A r \in SpansFrom(p, start) : s[1] <= r[1]

\* What scanPcre may return, with the span it found.  Without one it is the answer
\* of the error callback to a limit PCRE hit, or CH_FAIL_INTERNAL.
ScanOutcomes(p, start) ==
    {[ret |-> CH_SUCCESS, span |-> pcre_exec(p, start)]} \union
    {[ret |-> r, span |-> NoSpan] :
        r \in {CH_SUCCESS, CH_CALLBACK_TERMINATE, CH_CALLBACK_SKIP_PATTERN, CH_FAIL_INTERNAL}}

Found(o) == o.span # NoSpan
Lost(p, start, o) == ~Found(o) /\ SpansFrom(p, start) # {}

\* The effect of scanPcre on the queue and on the pattern's data
ScanQueue(q, p, o) == IF Found(o) THEN PqInsert(q, o.span[1], o.span[2], p) ELSE q
ScanMatch(p, o) == IF Found(o) THEN [match EXCEPT ![p] = o.span] ELSE match
ScanNext(p, o, otherwise) == IF Found(o) THEN NextStart(p, o.span[1], o.span[2]) ELSE otherwise

----------------------------------------------------------------------------
\* ch_scan

Init ==
    /\ db \in Databases
    /\ text = [spans |-> [p \in Ids |-> {}], cont |-> {}]
    /\ inUse = FALSE /\ active = {} /\ queue = <<>> /\ ret = CH_SUCCESS
    /\ scanStart = [p \in Ids |-> 0] /\ match = [p \in Ids |-> NoSpan]
    /\ pc = "idle" /\ left = {} /\ at = 0 /\ raised = {} /\ event = NoEvent
    /\ result = CH_SUCCESS /\ scans = 0
    /\ out = <<>> /\ given = {} /\ halted = "no"

\* A codepoint has a first byte and at most three continuation bytes.
Conts == {c \in SUBSET (1 .. (Length - 1)) : \A i \in c : ~({i + 1, i + 2, i + 3} \subseteq c)}

\* A UTF-8 pattern matches whole codepoints.
IsText(t) ==
    \A p \in Ids : db[p].utf8 => \A s \in t.spans[p] : {s[1], s[2]} \cap t.cont = {}

Texts == {t \in [spans : [Ids -> UNION {db[p].texts : p \in Ids}], cont : Conts] :
             /\ \A p \in Ids : t.spans[p] \in db[p].texts
             /\ t.cont # {} => \E p \in Ids : db[p].utf8
             /\ IsText(t)}

markScratchInUse == ~inUse /\ inUse' = TRUE

unmarkScratchInUse == inUse' = FALSE

\* ch_scan_i up to initQueue, with the multibit cleared
ch_scan ==
    /\ pc = "idle" /\ scans < MaxScans
    /\ text' \in Texts
    /\ markScratchInUse /\ ret' = CH_SUCCESS /\ queue' = <<>> /\ active' = {}
    /\ pc' = "init" /\ left' = Unguarded
    /\ at' = 0 /\ raised' = {} /\ event' = NoEvent /\ scans' = scans + 1
    /\ out' = <<>> /\ given' = {} /\ halted' = "no"
    /\ UNCHANGED <<db, scanStart, match, result>>

Return(r) == pc' = "idle" /\ result' = r

Stops(o) == o.ret \in {CH_CALLBACK_TERMINATE, CH_FAIL_INTERNAL}
Halter(o) == IF o.ret = CH_CALLBACK_TERMINATE THEN "user" ELSE "pcre"
ScanError(o) == IF o.ret = CH_CALLBACK_TERMINATE THEN CH_SCAN_TERMINATED ELSE o.ret

\* One pattern of the loop of initQueue; o is what scanPcre did
InitPattern(p, o) ==
    /\ active' = active \union {p} /\ left' = left \ {p}
    /\ queue' = ScanQueue(queue, p, o) /\ match' = ScanMatch(p, o)
    /\ scanStart' = [scanStart EXCEPT ![p] =
           ScanNext(p, o, IF o.ret = CH_CALLBACK_SKIP_PATTERN THEN Length ELSE @)]
    /\ given' = IF Lost(p, 0, o) THEN given \union {p} ELSE given
    /\ IF Stops(o) THEN Return(ScanError(o)) /\ unmarkScratchInUse /\ halted' = Halter(o)
       ELSE UNCHANGED <<pc, result, inUse, halted>>
    /\ UNCHANGED <<db, text, ret, at, raised, event, scans, out>>

initQueue ==
    /\ pc = "init" /\ left # {}
    /\ \E p \in left : (\A r \in left : p <= r) /\ \E o \in ScanOutcomes(p, 0) : InitPattern(p, o)

InitDone ==
    /\ pc = "init" /\ left = {}
    /\ pc' = IF CHIMERA_FLAG_NO_MULTIMATCH THEN "flush" ELSE "hyperscan"
    /\ UNCHANGED <<db, text, inUse, active, scanStart, match, queue, ret, left, at, raised,
                   event, result, scans, out, given, halted>>

----------------------------------------------------------------------------
\* catchupPcre: delivers what is queued up to the event

\* catchupPcre returns r, to ch_scan_i or to multiCallback
Leave(r) ==
    IF pc = "flush" THEN Return(r) /\ unmarkScratchInUse /\ UNCHANGED ret
    ELSE pc' = "resume" /\ ret' = r /\ UNCHANGED <<result, inUse>>

CatchupConsts == UNCHANGED <<db, text, active, left, at, raised, event, scans>>

InCatchup == pc \in {"catchup", "flush"}

CatchupEnd ==
    /\ InCatchup
    /\ queue # <<>> => Head(queue).to > event.to
    /\ queue' = IF queue = <<>> THEN queue
                ELSE PqInsert(queue, event.from, event.to, event.id)
    /\ Leave(CH_SUCCESS)
    /\ UNCHANGED <<scanStart, match, out, given, halted>> /\ CatchupConsts

\* The callback for the top of the queue
Deliver ==
    /\ InCatchup
    /\ queue # <<>> /\ Head(queue).to <= event.to
    /\ out' = Append(out, Head(queue))

Terminated ==
    /\ Deliver
    /\ queue' = Tail(queue) /\ halted' = "user"
    /\ Leave(CH_SCAN_TERMINATED)
    /\ UNCHANGED <<scanStart, match, given>> /\ CatchupConsts

\* Mutant: where the pattern is scanned next is left as it was
Skipped_goes_on ==
    /\ Deliver
    /\ queue' = Tail(queue)
    /\ given' = given \union {Head(queue).id}
    /\ IF Head(queue).id = event.id THEN Leave(CH_SUCCESS)
       ELSE UNCHANGED <<pc, ret, result, inUse>>
    /\ UNCHANGED <<scanStart, match, halted>> /\ CatchupConsts

Skipped ==
    /\ Deliver
    /\ queue' = Tail(queue)
    /\ scanStart' = [scanStart EXCEPT ![Head(queue).id] = Length]
    /\ given' = given \union {Head(queue).id}
    /\ IF Head(queue).id = event.id THEN Leave(CH_SUCCESS)
       ELSE UNCHANGED <<pc, ret, result, inUse>>
    /\ UNCHANGED <<match, halted>> /\ CatchupConsts

CaughtUp ==
    /\ Deliver /\ Head(queue).id = event.id
    /\ queue' = Tail(queue)
    /\ Leave(CH_SUCCESS)
    /\ UNCHANGED <<scanStart, match, given, halted>> /\ CatchupConsts

\* A new match of p replaces the old one
Rescan(p, o) ==
    /\ queue' = ScanQueue(Tail(queue), p, o) /\ match' = ScanMatch(p, o)
    /\ scanStart' = [scanStart EXCEPT ![p] = IF Stops(o) THEN @ ELSE ScanNext(p, o, Length)]
    /\ given' = IF Lost(p, scanStart[p], o) THEN given \union {p} ELSE given
    /\ IF Stops(o) THEN Leave(ScanError(o)) /\ halted' = Halter(o)
       ELSE UNCHANGED <<pc, ret, result, inUse, halted>>

Rescans(p) == Length >= scanStart[p] /\ ~db[p].single

Continued ==
    /\ Deliver /\ Head(queue).id # event.id
    /\ IF Rescans(Head(queue).id)
       THEN \E o \in ScanOutcomes(Head(queue).id, scanStart[Head(queue).id]) :
               Rescan(Head(queue).id, o)
       ELSE queue' = Tail(queue)
            /\ UNCHANGED <<scanStart, match, given, pc, ret, result, inUse, halted>>
    /\ CatchupConsts

catchupPcre == CatchupEnd \/ Terminated \/ Skipped \/ CaughtUp \/ Continued

----------------------------------------------------------------------------
\* multiCallback: Hyperscan reports that pattern p matches up to the offset e

EventConsts == UNCHANGED <<db, text, inUse, left, at, result, scans, out>>

NeedConfirm(p) == db[p].kind = "confirm"

\* The events of one pattern at one end are raised once (dedupeCatchup).  One of a
\* prefilter with an offset adjustment is raised a byte behind its end; those of a fixed
\* pattern, which have a start of match, are kept in a log until the byte behind them
\* is done too, and leave it in order of their ends.
Reports(p, e) ==
    /\ pc = "hyperscan" /\ p \in Ids \ Unguarded
    /\ e \in {at - 1, at} \cap (0 .. Length) /\ <<p, e>> \notin raised
    /\ NeedConfirm(p) \/ \A s \in text.spans[p] : s[2] \in (at - 1) .. (e - 1) => <<p, s[2]>> \in raised
    /\ raised' = raised \union {<<p, e>>}

\* Mutant: overlapping matches of a pattern are not recognised
Overlaps_end(p, e) == e < scanStart[p]

Overlaps(p, e) == e < scanStart[p] + db[p].minWidth

\* Mutant: a pattern that has been confirmed is confirmed again
Seen_fixed(p) == p \in active /\ ~NeedConfirm(p)

Seen(p) == p \in active

\* The event tells nothing new; it stops Hyperscan if no event can any more.
IgnoreEvent(p, e) ==
    /\ Reports(p, e) /\ Seen(p)
    /\ NeedConfirm(p) \/ Overlaps(p, e) \/ db[p].single
    /\ NeedConfirm(p) \/ \E s \in text.spans[p] : s[2] = e
    /\ pc' = IF /\ active = Ids
                /\ IF NeedConfirm(p) THEN CHIMERA_FLAG_ALL_CONFIRM
                   ELSE ~Overlaps(p, e) /\ CHIMERA_FLAG_ALL_SINGLE
             THEN "scanned" ELSE "hyperscan"
    /\ UNCHANGED <<active, scanStart, match, queue, ret, event, given, halted>> /\ EventConsts

\* The first event of a prefilter: PCRE looks for the first match.
ConfirmPattern(p, o) ==
    /\ active' = active \union {p}
    /\ queue' = ScanQueue(queue, p, o) /\ match' = ScanMatch(p, o)
    /\ scanStart' = [scanStart EXCEPT ![p] =
           ScanNext(p, o, IF o.ret = CH_CALLBACK_SKIP_PATTERN THEN Length ELSE 0)]
    /\ given' = IF Lost(p, 0, o) THEN given \union {p} ELSE given
    /\ ret' = IF o.ret = CH_CALLBACK_SKIP_PATTERN THEN CH_SUCCESS ELSE o.ret
    /\ IF Stops(o) THEN pc' = "scanned" /\ halted' = Halter(o) ELSE UNCHANGED <<pc, halted>>
    /\ UNCHANGED event /\ EventConsts

ConfirmEvent(p, e) ==
    /\ Reports(p, e) /\ NeedConfirm(p) /\ ~Seen(p)
    /\ \E o \in ScanOutcomes(p, 0) : ConfirmPattern(p, o)

\* The match found by Hyperscan becomes the pattern's next match.
Enqueue(p, from, to) ==
    /\ scanStart' = [scanStart EXCEPT ![p] = NextStart(p, from, to)]
    /\ match' = [match EXCEPT ![p] = <<from, to>>]
    /\ queue' = PqInsert(queue, from, to, p)

FirstEvent(p, s) ==
    /\ Reports(p, s[2]) /\ ~NeedConfirm(p) /\ ~Seen(p)
    /\ active' = active \union {p}
    /\ Enqueue(p, s[1], s[2])
    /\ UNCHANGED <<pc, ret, event, given, halted>> /\ EventConsts

\* Mutant: the captures are written before the earlier match is delivered
LaterEvent_captures(p, s) ==
    /\ Reports(p, s[2]) /\ ~NeedConfirm(p) /\ Seen(p)
    /\ ~Overlaps(p, s[2]) /\ ~db[p].single
    /\ event' = [id |-> p, from |-> s[1], to |-> s[2]]
    /\ pc' = "catchup" /\ match' = [match EXCEPT ![p] = s]
    /\ UNCHANGED <<active, scanStart, queue, ret, given, halted>> /\ EventConsts

LaterEvent(p, s) ==
    /\ Reports(p, s[2]) /\ ~NeedConfirm(p) /\ Seen(p)
    /\ ~Overlaps(p, s[2]) /\ ~db[p].single
    /\ event' = [id |-> p, from |-> s[1], to |-> s[2]]
    /\ pc' = "catchup"
    /\ UNCHANGED <<active, scanStart, match, queue, ret, given, halted>> /\ EventConsts

\* The rest of multiCallback, after catchupPcre
Resume ==
    /\ pc = "resume"
    /\ IF scanStart[event.id] >= Length THEN UNCHANGED <<scanStart, match, queue>>
       ELSE Enqueue(event.id, event.from, event.to)
    /\ pc' = IF ret = CH_SUCCESS THEN "hyperscan" ELSE "scanned"
    /\ event' = NoEvent
    /\ UNCHANGED <<active, raised, ret, given, halted>> /\ EventConsts

multiCallback ==
    \/ \E p \in Ids, e \in {at - 1, at} : IgnoreEvent(p, e) \/ ConfirmEvent(p, e)
    \/ \E p \in Ids : \E s \in text.spans[p] : FirstEvent(p, s) \/ LaterEvent(p, s)
    \/ Resume

----------------------------------------------------------------------------
\* hs_scan goes on when the events that end one byte before are out, and at the end of
\* the data, where the logs are flushed, all of them.  A single-match prefilter is
\* reported once: no second event of a prefilter is waited for.
HyperscanMoves ==
    /\ pc = "hyperscan"
    /\ \A p \in Ids \ Unguarded : \A s \in text.spans[p] :
          s[2] = at - 1 \/ (s[2] = at /\ at = Length)
             => <<p, s[2]>> \in raised \/ (NeedConfirm(p) /\ p \in active)
    /\ IF at = Length THEN pc' = "scanned" /\ UNCHANGED <<at, raised>>
       ELSE at' = at + 1 /\ raised' = {r \in raised : r[2] = at} /\ UNCHANGED pc
    /\ UNCHANGED <<db, text, inUse, active, scanStart, match, queue, ret, left, event,
                   result, scans, out, given, halted>>

\* Mutant: the mark stays on an error
AfterHyperscan_marked ==
    /\ pc = "scanned"
    /\ IF ret = CH_CALLBACK_TERMINATE THEN Return(CH_SCAN_TERMINATED) /\ unmarkScratchInUse
       ELSE IF ret # CH_SUCCESS THEN Return(ret) /\ UNCHANGED inUse
       ELSE pc' = "flush" /\ UNCHANGED <<result, inUse>>
    /\ UNCHANGED <<db, text, active, scanStart, match, queue, ret, left, at, raised,
                   event, scans, out, given, halted>>

\* ch_scan_i when hs_scan has returned
AfterHyperscan ==
    /\ pc = "scanned"
    /\ IF ret = CH_CALLBACK_TERMINATE THEN Return(CH_SCAN_TERMINATED) /\ unmarkScratchInUse
       ELSE IF ret # CH_SUCCESS THEN Return(ret) /\ unmarkScratchInUse
       ELSE pc' = "flush" /\ UNCHANGED <<result, inUse>>
    /\ UNCHANGED <<db, text, active, scanStart, match, queue, ret, left, at, raised,
                   event, scans, out, given, halted>>

\* The application is done with the scratch.
Rest == pc = "idle" /\ scans = MaxScans /\ UNCHANGED vars

Next ==
    \/ ch_scan \/ initQueue \/ InitDone \/ multiCallback \/ catchupPcre
    \/ HyperscanMoves \/ AfterHyperscan \/ Rest

Spec == Init /\ [][Next]_vars

----------------------------------------------------------------------------
\* Every variable has its type; the next PCRE scan of a pattern starts in the data
\* or one byte behind its end (ch_runtime.c:277-289).
TypeOK ==
    /\ db \in Databases /\ inUse \in BOOLEAN
    /\ {active, left, given} \subseteq SUBSET Ids /\ raised \subseteq Ids \X (0 .. Length)
    /\ scanStart \in [Ids -> 0 .. (Length + 1)]
    /\ match \in [Ids -> Spans \union {NoSpan}]
    /\ queue \in Seq(Items) /\ out \in Seq(Items)
    /\ event \in Items \union {NoEvent}
    /\ at \in 0 .. Length /\ scans \in 0 .. MaxScans
    /\ pc \in {"idle", "init", "hyperscan", "catchup", "resume", "scanned", "flush"}
    /\ {ret, result} \subseteq {CH_SUCCESS, CH_CALLBACK_TERMINATE, CH_SCAN_TERMINATED,
                                CH_FAIL_INTERNAL}
    /\ halted \in {"no", "user", "pcre"}

\* The start offsets at which a scan may go on after s: s is left behind, and with an
\* empty s also its first codepoint
Behind(s, utf8, cont) ==
    {n \in s[2] .. (Length + 1) : s[1] = s[2] => n > s[2] /\ (utf8 => n \notin cont)}

\* What PCRE finds among the spans when it starts there and is called again behind each
\* match
MatchesFrom(spans, utf8, cont) ==
    LET From[start \in 0 .. (Length + 1)] ==
          LET ahead == {s \in spans : s[1] >= start}
          IN IF ahead = {} THEN <<>>
             ELSE LET s == CHOOSE s \in ahead : \A r \in ahead : s[1] <= r[1]
                      n == CHOOSE n \in Behind(s, utf8, cont) :
                              \A m \in Behind(s, utf8, cont) : n <= m
                  IN <<s>> \o From[n]
    IN From

Matches(p) == MatchesFrom(text.spans[p], db[p].utf8, text.cont)[0]

Due(p) == IF db[p].single /\ Matches(p) # <<>> THEN <<Head(Matches(p))>> ELSE Matches(p)

\* The spans of the items of pattern p in q
SpansOf(q, p) ==
    LET First[n \in 0 .. Len(q)] ==
          IF n = 0 THEN <<>>
          ELSE IF q[n].id = p THEN Append(First[n - 1], <<q[n].from, q[n].to>>)
          ELSE First[n - 1]
    IN First[Len(q)]

Delivered(p) == SpansOf(out, p)

\* A scan delivers for each pattern the matches that PCRE alone would find in the data,
\* each once and none between them left out, whoever found them; all of them if it
\* returns CH_SUCCESS and the pattern was not given up (ch_runtime.c:339-362, 396-466).
ExactMatches ==
    \A p \in Ids :
        /\ \E n \in 0 .. Len(Due(p)) : Delivered(p) = SubSeq(Due(p), 1, n)
        /\ pc = "idle" /\ scans > 0 /\ result = CH_SUCCESS /\ p \notin given
              => Delivered(p) = Due(p)

\* "the multiple matches will be reported in order by end offset"
\* (doc/dev-reference/chimera.rst:137): the matches of all patterns and of both
\* matchers are delivered in the order of their ends.
DeliveredInOrder ==
    \A i \in 1 .. (Len(out) - 1) : out[i].to <= out[i + 1].to

\* The queue never has more items than patterns, which is what alloc_scratch makes
\* room for (ch_scratch.c:77), and until the scan is stopped no two of one pattern.
QueueWithinCapacity ==
    /\ Len(queue) <= Cardinality(Ids)
    /\ halted = "no" => \A i, j \in DOMAIN queue : queue[i].id = queue[j].id => i = j

\* The captures handed to the callback, which are kept in the pattern's data and not
\* in the queue, are those of the queued match (ch_runtime.c:319-321, 457-465).
CapturesOfQueued ==
    halted = "no" => \A i \in DOMAIN queue :
        match[queue[i].id] = <<queue[i].from, queue[i].to>>

\* PCRE, which is told not to check UTF-8, is started again for a queued match at the
\* beginning of a codepoint (ch_runtime.c:279-284, 340-345).  A pattern without a
\* queued match may keep a start of an earlier scan, which is not used.
StartsAtCodepoint ==
    \A i \in DOMAIN queue :
        db[queue[i].id].utf8 => scanStart[queue[i].id] \notin text.cont

\* When a scan has returned the scratch is free again, and the value returned tells
\* whether a callback or PCRE stopped it (ch_runtime.c:589-629).
ReturnTells ==
    pc = "idle" =>
        /\ ~inUse
        /\ result = CASE halted = "no" -> CH_SUCCESS
                      [] halted = "user" -> CH_SCAN_TERMINATED
                      [] halted = "pcre" -> CH_FAIL_INTERNAL

\* After a callback has stopped the scan no match is delivered, and none of a pattern
\* after a callback has skipped it (ch_runtime.c:323-333, 436).
NothingAfterStop ==
    [][ pc # "idle" /\ out' # out =>
           halted = "no" /\ out'[Len(out')].id \notin given ]_vars
============================================================================
