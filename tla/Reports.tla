------------------------------- MODULE Reports -------------------------------
(***************************************************************************)
(* How a report raised by the engines reaches the user: the exhaustion     *)
(* check, the deduper in scratch, the store that delays start-of-match     *)
(* reports until no earlier start can turn up, and the callback.           *)
(*                                                                         *)
(* The deduper keeps two logs, one per parity of the match offset: while   *)
(* offset c is current they hold the reports for c and for c - 1, because  *)
(* an engine may raise a match one byte late (offset_adjust = -1).  The    *)
(* logs live in scratch and keep whatever the previous call left in them.  *)
(***************************************************************************)
EXTENDS Integers, Sequences, FiniteSets, FiniteSetsExt

CONSTANTS
    Databases,  \* databases: [plain, som, single, block]
    MaxOffset,  \* bound: length of the stream
    MaxRaises   \* bound: reports the engines raise in one call

(* Ids are naturals: clearSomLog reports in the order of the keys. *)
ASSUME IdsAssumption ==
    \A d \in Databases : /\ d.plain \cup d.som \subseteq Nat /\ d.plain \cap d.som = {}
                         /\ IsFiniteSet(d.som)
                         /\ d.single \subseteq d.plain /\ d.block \in BOOLEAN
ASSUME ReportBounds == MaxOffset \in Nat /\ MaxRaises \in Nat

Unset == -1      \* ~0ULL

VARIABLES
    db,       \* the database scanned with
    offset,   \* id->offset of the stream
    evec,     \* exhaustion vector of the stream
    status,   \* core_info.status, stored in the stream when the call ends
    cur,      \* deduper.current_report_offset
    log,      \* deduper.log
    somLog,   \* deduper.som_log
    starts,   \* deduper.som_start_log
    dirty,    \* deduper.som_log_dirty
    todo,     \* stages of the call in progress, <<>> between calls
    end,      \* offset the call in progress scans up to
    now,      \* the report being processed, or None
    raised,   \* what the engines raised in this call (history variable)
    out,      \* what the user was told in this call (history variable)
    fired     \* single-match reports told since the reset (history variable)

deduper == <<cur, log, somLog, starts, dirty>>
vars == <<db, offset, evec, status, deduper, todo, end, now, raised, out, fired>>

Plain == db.plain     \* reports that need deduping, without start of match
Som == db.som         \* reports with start of match
Single == db.single   \* subset of Plain: reports with an exhaustion key
Ids == Plain \cup Som
hasSom == Som # {}
canExhaust == Som = {} /\ Plain = Single

Parity == 0 .. 1
Offsets == 0 .. MaxOffset
Match == [id : Ids, from : Offsets, to : Offsets]
Raise == [id : Ids, from : Offsets, at : Offsets, adjust : {0, -1}]
None == [id |-> -1]

TypeOK ==
    /\ db \in Databases
    /\ offset \in Offsets /\ end \in Offsets
    /\ evec \subseteq Single
    /\ status \subseteq {"TERMINATED", "EXHAUSTED"}
    /\ cur \in {Unset} \cup Offsets
    /\ log \in [Parity -> SUBSET Plain]
    /\ somLog \in [Parity -> SUBSET Som]
    /\ starts \in [Parity -> [Som -> Offsets]]
    /\ dirty \in 0 .. 3
    /\ now = None \/ now \in Raise
    /\ raised \subseteq Match
    /\ out \in Seq(Match)
    /\ fired \in [Single -> Nat]

-----------------------------------------------------------------------------
(* The stored start-of-match reports. *)

(* The keys of a log in the order of the loop over its bits. *)
fatbit_iterate(keys) ==
    CHOOSE f \in [1 .. Cardinality(keys) -> keys] : \A i, j \in DOMAIN f : i < j => f[i] < f[j]

(* What clearSomLog reports from one log, for match offset `to'. *)
clearSomLog(p, to) ==
    LET ids == fatbit_iterate(somLog[p])
    IN  [i \in DOMAIN ids |-> [id |-> ids[i], from |-> starts[p][ids[i]], to |-> to]]

(* How many of n callbacks are made: a callback may stop the scan. *)
Callbacks(n, halt) == IF halt THEN 1 .. n ELSE {n}

(* Mutant: the log of the current offset is reported first. *)
flushStoredSomMatches_swapped(to, halt) ==
    LET both == clearSomLog(cur % 2, cur) \o clearSomLog((cur + 1) % 2, cur - 1)
    IN  IF dirty = 0 \/ cur = Unset
        THEN /\ ~halt /\ dirty' = 0 /\ UNCHANGED out
             /\ somLog' = IF dirty = 0 THEN somLog ELSE [p \in Parity |-> {}]
        ELSE /\ \E n \in Callbacks(Len(both), halt) : out' = out \o SubSeq(both, 1, n)
             /\ somLog' = [p \in Parity |-> {}] /\ dirty' = 0

(* `to' is the offset that becomes current, Unset (~0ULL) at the end of the *)
(* call.  A log whose delivery is stopped is not cleared.                   *)
flushStoredSomMatches(to, halt) ==
    LET old == (cur + 1) % 2
        first == clearSomLog(old, cur - 1)
        second == clearSomLog(cur % 2, cur)
    IN  CASE dirty = 0 ->
                ~halt /\ UNCHANGED <<somLog, dirty, out>>
          [] dirty # 0 /\ cur = Unset ->
                /\ ~halt /\ UNCHANGED out
                /\ somLog' = [p \in Parity |-> {}] /\ dirty' = 0
          [] dirty # 0 /\ cur # Unset /\ to = cur + 1 ->
                \E n \in Callbacks(Len(first), halt) :
                    /\ out' = out \o SubSeq(first, 1, n)
                    /\ somLog' = IF halt THEN somLog ELSE [somLog EXCEPT ![old] = {}]
                    /\ dirty' = dirty \div 2
          [] OTHER ->
                \E n \in Callbacks(Len(first \o second), halt) :
                    /\ out' = out \o SubSeq(first \o second, 1, n)
                    /\ somLog' = CASE halt /\ n <= Len(first) -> somLog
                                   [] halt /\ n > Len(first)  -> [somLog EXCEPT ![old] = {}]
                                   [] OTHER                   -> [p \in Parity |-> {}]
                    /\ dirty' = 0

-----------------------------------------------------------------------------
(* Calls.  Stages: "zero" and "eod" are boundary programs, "match" the      *)
(* engines, "eodMatch" the engines at end of data, "flush" the final flush. *)

(* populateCoreInfo leaves the logs of the previous call in scratch. *)
StartCall(stages, last) ==
    /\ todo = <<>>
    /\ todo' = stages /\ end' = last
    /\ cur' = Unset /\ dirty' = 1
    /\ now' = None /\ raised' = {} /\ out' = <<>>

hs_scan_stream(len) ==
    /\ ~db.block /\ status = {} /\ offset + len <= MaxOffset
    /\ StartCall((IF offset = 0 THEN <<"zero">> ELSE <<>>) \o <<"match", "flush">>,
                 offset + len)
    /\ UNCHANGED <<db, offset, evec, status, log, somLog, starts, fired>>

report_eod_matches ==
    /\ ~db.block /\ status = {}
    /\ StartCall(<<"eod", "eodMatch", "flush">>, offset)
    /\ UNCHANGED <<db, offset, evec, status, log, somLog, starts, fired>>

(* hs_scan of a whole block: the boundary program for end of data follows   *)
(* the flush.                                                               *)
hs_scan(len) ==
    /\ db.block
    /\ StartCall(<<"zero", "match", "flush", "eod">>, len)
    /\ evec' = {} /\ status' = {} /\ fired' = [id \in Single |-> 0]
    /\ UNCHANGED <<db, offset, log, somLog, starts>>

(* init_stream; also a new stream scanned with the same scratch. *)
hs_reset_stream ==
    /\ ~db.block /\ todo = <<>>
    /\ offset' = 0 /\ evec' = {} /\ status' = {}
    /\ fired' = [id \in Single |-> 0] /\ raised' = {} /\ out' = <<>>
    /\ UNCHANGED <<db, deduper, todo, end, now>>

Running(stage) == todo # <<>> /\ Head(todo) = stage /\ now = None /\ status = {}

(* Offsets at which the stage can raise a report. *)
RaiseAt(stage) == CASE stage = "zero"               -> {0}
                    [] stage \in {"eod", "eodMatch"} -> {end}
                    [] stage = "match"              -> (offset + 1) .. end
                    [] OTHER                        -> {}

(* Mutant: the exhaustion check is left out of the program. *)
RaiseReport_unchecked(id, from, at, adjust) ==
    /\ todo # <<>> /\ Running(Head(todo)) /\ Cardinality(raised) < MaxRaises
    /\ at \in RaiseAt(Head(todo)) /\ at >= cur
    /\ at + adjust >= 0 /\ from <= at + adjust /\ (id \in Plain => from = 0)
    /\ now' = [id |-> id, from |-> from, at |-> at, adjust |-> adjust]
    /\ raised' = raised \cup {[id |-> id, from |-> from, to |-> at + adjust]}
    /\ UNCHANGED <<db, offset, evec, status, deduper, todo, end, out, fired>>

(* A program reaches its report: not exhausted, and in offset order, which  *)
(* catch-up ensures.  Boundary reports have no start of match.  The logs    *)
(* are cleared before the first boundary report of a call.                  *)
RaiseReport(id, from, at, adjust) ==
    /\ todo # <<>> /\ Running(Head(todo)) /\ Cardinality(raised) < MaxRaises
    /\ at \in RaiseAt(Head(todo)) /\ at >= cur
    /\ at + adjust >= 0 /\ from <= at + adjust /\ (id \in Plain => from = 0)
    /\ id \notin evec
    /\ Head(todo) \in {"zero", "eod"} =>
          id \in Plain /\ adjust = 0 /\ (hasSom /\ cur = Unset => dirty = 0)
    /\ now' = [id |-> id, from |-> from, at |-> at, adjust |-> adjust]
    /\ raised' = raised \cup {[id |-> id, from |-> from, to |-> at + adjust]}
    /\ UNCHANGED <<db, offset, evec, status, deduper, todo, end, out, fired>>

(* roseRunBoundaryProgram initialises the stores it bypasses. *)
roseRunBoundaryProgram ==
    /\ todo # <<>> /\ Running(Head(todo)) /\ Head(todo) \in {"zero", "eod"}
    /\ hasSom /\ cur = Unset /\ dirty # 0
    /\ somLog' = [p \in Parity |-> {}] /\ dirty' = 0
    /\ UNCHANGED <<db, offset, evec, status, cur, log, starts, todo, end, now, raised, out, fired>>

(* Mutant: the log of the previous offset is dropped too early. *)
ClearLogs_both(at) == [p \in Parity |-> {}]

(* ~0ULL + 1 = 0, so a first report at offset 0 clears one log only. *)
ClearLogs(at) == IF at = cur + 1 THEN [log EXCEPT ![at % 2] = {}]
                                 ELSE [p \in Parity |-> {}]

(* First half of dedupeCatchup: a new offset becomes current. *)
DedupeCatchup(halt) ==
    /\ now # None /\ now.at # cur
    /\ log' = ClearLogs(now.at)
    /\ IF hasSom THEN flushStoredSomMatches(now.at, halt)
                 ELSE ~halt /\ UNCHANGED <<somLog, dirty, out>>
    /\ IF halt THEN /\ status' = status \cup {"TERMINATED"} /\ now' = None
                    /\ UNCHANGED cur
               ELSE cur' = now.at /\ UNCHANGED <<status, now>>
    /\ UNCHANGED <<db, offset, evec, starts, todo, end, raised, fired>>

(* Second half, for a report without start of match: squash or deliver.     *)
(* The callback may stop the scan; then the key is not marked exhausted.    *)
DedupeReport(halt) ==
    LET to == now.at + now.adjust
        dupe == now.id \in log[to % 2]
        evec1 == IF ~dupe /\ ~halt /\ now.id \in Single THEN evec \cup {now.id} ELSE evec
    IN  /\ now # None /\ now.at = cur /\ now.id \in Plain
        /\ halt => ~dupe
        /\ log' = [log EXCEPT ![to % 2] = @ \cup {now.id}]
        /\ out' = IF dupe THEN out ELSE Append(out, [id |-> now.id, from |-> 0, to |-> to])
        /\ fired' = IF dupe \/ now.id \notin Single THEN fired
                    ELSE [fired EXCEPT ![now.id] = @ + 1]
        /\ evec' = evec1
        /\ status' = status \cup (IF halt THEN {"TERMINATED"} ELSE {})
                            \cup (IF canExhaust /\ ~dupe /\ ~halt /\ evec1 = Single
                                  THEN {"EXHAUSTED"} ELSE {})
        /\ now' = None
        /\ UNCHANGED <<db, offset, cur, somLog, starts, dirty, todo, end, raised>>

(* Mutant: the last start of match wins. *)
StoreSom_last ==
    LET p == (now.at + now.adjust) % 2 IN
    /\ now # None /\ now.at = cur /\ now.id \in Som
    /\ somLog' = [somLog EXCEPT ![p] = @ \cup {now.id}]
    /\ starts' = [starts EXCEPT ![p][now.id] = now.from]
    /\ dirty' = IF now.adjust = 0 THEN 2 + (dirty % 2) ELSE 1 + 2 * (dirty \div 2)
    /\ now' = None
    /\ UNCHANGED <<db, offset, evec, status, cur, log, todo, end, raised, out, fired>>

(* Second half, for a start-of-match report: store the leftmost start. *)
StoreSom ==
    LET p == (now.at + now.adjust) % 2 IN
    /\ now # None /\ now.at = cur /\ now.id \in Som
    /\ somLog' = [somLog EXCEPT ![p] = @ \cup {now.id}]
    /\ starts' = [starts EXCEPT ![p][now.id] =
                    IF now.id \in somLog[p] THEN Min({@, now.from}) ELSE now.from]
    /\ dirty' = IF now.adjust = 0 THEN 2 + (dirty % 2) ELSE 1 + 2 * (dirty \div 2)
    /\ now' = None
    /\ UNCHANGED <<db, offset, evec, status, cur, log, todo, end, raised, out, fired>>

(* A stage is over, or is left early because nothing more is wanted. *)
EndStage ==
    /\ todo # <<>> /\ Head(todo) # "flush" /\ now = None
    /\ todo' = Tail(todo)
    /\ UNCHANGED <<db, offset, evec, status, deduper, end, now, raised, out, fired>>

(* The flush before a call returns. *)
FinalFlush(halt) ==
    /\ todo # <<>> /\ Head(todo) = "flush" /\ now = None
    /\ IF hasSom /\ "TERMINATED" \notin status
       THEN flushStoredSomMatches(Unset, halt)
       ELSE ~halt /\ UNCHANGED <<somLog, dirty, out>>
    /\ status' = status \cup (IF halt THEN {"TERMINATED"} ELSE {})
    /\ todo' = Tail(todo)
    /\ offset' = IF ~db.block /\ status' = {} THEN end ELSE offset
    /\ UNCHANGED <<db, evec, cur, log, starts, end, now, raised, fired>>

-----------------------------------------------------------------------------
Init ==
    /\ db \in Databases
    /\ offset = 0 /\ evec = {} /\ status = {}
    /\ cur = Unset /\ dirty = 0
    /\ log = [p \in Parity |-> {}] /\ somLog = [p \in Parity |-> {}]
    /\ starts = [p \in Parity |-> [id \in Som |-> 0]]
    /\ todo = <<>> /\ end = 0 /\ now = None
    /\ raised = {} /\ out = <<>> /\ fired = [id \in Single |-> 0]

Next ==
    \/ \E len \in 1 .. MaxOffset : hs_scan_stream(len) \/ hs_scan(len)
    \/ report_eod_matches \/ hs_reset_stream
    \/ \E id \in Ids, from \in Offsets, at \in Offsets, adjust \in {0, -1} :
          RaiseReport(id, from, at, adjust)
    \/ roseRunBoundaryProgram
    \/ \E halt \in BOOLEAN : DedupeCatchup(halt) \/ DedupeReport(halt) \/ FinalFlush(halt)
    \/ StoreSom \/ EndStage

Spec == Init /\ [][Next]_vars

-----------------------------------------------------------------------------
(* The user is told of one report at one offset once in a call, however     *)
(* many engines raise it, in time or one byte late (dedupeCatchup).         *)
NoDuplicate ==
    \A i, j \in DOMAIN out :
        out[i].id = out[j].id /\ out[i].to = out[j].to => i = j

(* Stored start-of-match reports come out in the order of their ends:       *)
(* flushStoredSomMatches_i takes the log of the earlier offset first.       *)
SomInOrder ==
    \A i, j \in DOMAIN out :
        i < j /\ out[i].id \in Som /\ out[j].id \in Som => out[i].to <= out[j].to

(* When a call returns and was not stopped, the user has been told exactly  *)
(* what the engines raised, each start-of-match report with the leftmost of *)
(* its starts: no report is lost to a stale log or left in the store, and   *)
(* none comes out of a log an earlier call left behind.                     *)
EveryMatchTold ==
    (todo = <<>> /\ "TERMINATED" \notin status) =>
        LET leftmost(m) == IF m.id \in Plain THEN 0
                           ELSE Min({n.from : n \in {k \in raised : k.id = m.id /\ k.to = m.to}})
        IN  Range(out) = {[m EXCEPT !.from = leftmost(m)] : m \in raised}

(* A report with an exhaustion key (HS_FLAG_SINGLEMATCH) is delivered once  *)
(* in the life of a stream, over all its writes and its end of data.        *)
SinglematchOnce == \A id \in Single : fired[id] <= 1

=============================================================================
