----------------------------- MODULE EngineQueue -----------------------------
(***************************************************************************)
(* The event queue of an engine (struct mq) and what an engine does when   *)
(* it is run over its queue.                                               *)
(*                                                                         *)
(* A queue holds the events START, TOP and END at locations of the current *)
(* buffer.  Its slots before index cur are used up; items is what is left, *)
(* so that q->end is cur + Len(items).  st is the engine's state.          *)
(*                                                                         *)
(* The engines are bounded repeats of dot (LBR_NFA_DOT): a repeat {lo,hi}  *)
(* with the tops st matches at x when some top is between lo and hi bytes  *)
(* before x.  hi = 0 stands for an unbounded repeat (REPEAT_INF).          *)
(***************************************************************************)
EXTENDS Integers, Sequences, FiniteSets, SequencesExt, FiniteSetsExt

Item(type, loc) == [type |-> type, loc |-> loc]

\* initQueue followed by pushQueueAt(q, 0, MQE_START, loc).
Started(loc, st) == [cur |-> 0, items |-> <<Item("START", loc)>>, st |-> st]

QEnd(q) == q.cur + Len(q.items)
CurLoc(q) == Head(q.items).loc
LastLoc(q) == Last(q.items).loc

\* pushQueue leaves out an event equal to the last one; pushQueueNoMerge does not.
PushQueueNoMerge(q, type, loc) == [q EXCEPT !.items = Append(@, Item(type, loc))]
PushQueue(q, type, loc) ==
    IF Last(q.items) = Item(type, loc) THEN q ELSE PushQueueNoMerge(q, type, loc)

\* Mutant: no slot is kept for the END event.
IsQueueFull_end(q, max) == QEnd(q) + 1 > max

IsQueueFull(q, max) == QEnd(q) + 2 > max

\* The queue is moved to the front of its array.
Compacted(q) == [q EXCEPT !.cur = 0]

\* The repeat r with the tops st matches at the offset x.
RepeatMatches(r, st, x) ==
    \E t \in st : r.lo <= x - t /\ (r.hi = 0 \/ x - t <= r.hi)

\* lbrIsAlive: a match after the offset x is possible.
LbrIsAlive(r, st, x) == \E t \in st : r.hi = 0 \/ x < t + r.hi

\* Offsets of the tops among the queued items up to a location.
TopsUpTo(q, base, loc) ==
    {base + i.loc : i \in {j \in Range(q.items) : j.type = "TOP" /\ j.loc <= loc}}

\* Locations after the queue's start and up to end at which the engine
\* matches; a queue is never run beyond its last event.
MatchLocs(q, r, base, end) ==
    {x \in (CurLoc(q) + 1) .. end :
        /\ x <= LastLoc(q)
        /\ RepeatMatches(r, q.st \cup TopsUpTo(q, base, end), base + x)}

\* The queue once the engine stopped at loc, having taken the first n events
\* after START.
StoppedAt(q, base, loc, n) ==
    [cur   |-> q.cur + n,
     items |-> <<Item("START", loc)>> \o SubSeq(q.items, n + 2, Len(q.items)),
     st    |-> q.st \cup TopsUpTo([items |-> SubSeq(q.items, 1, n + 1)], base, loc)]

EventsBefore(q, loc) == Cardinality({i \in 2 .. Len(q.items) : q.items[i].loc < loc})
EventsUpTo(q, loc) == Cardinality({i \in 2 .. Len(q.items) : q.items[i].loc <= loc})

\* nfaQueueExec, without its matches: the engine runs to end, or through the
\* queue.  An engine that stopped early, or did not start, counts as alive.
QueueExec(q, r, base, end) ==
    IF CurLoc(q) > end THEN [q |-> q, rv |-> "alive"]
    ELSE IF LastLoc(q) > end
    THEN [q |-> StoppedAt(q, base, end, EventsUpTo(q, end)), rv |-> "alive"]
    ELSE LET st == q.st \cup TopsUpTo(q, base, end)
         IN [q  |-> [cur |-> QEnd(q), items |-> <<>>, st |-> st],
             rv |-> IF LbrIsAlive(r, st, base + LastLoc(q)) THEN "alive" ELSE "dead"]

\* nfaQueueExecToMatch: the engine stops at its first match, before the
\* events there.
QueueExecToMatch(q, r, base, end) ==
    LET locs == IF CurLoc(q) > end THEN {} ELSE MatchLocs(q, r, base, end) IN
    IF locs = {} THEN QueueExec(q, r, base, end)
    ELSE [q  |-> StoppedAt(q, base, Min(locs), EventsBefore(q, Min(locs))),
          rv |-> "pending"]
=============================================================================
