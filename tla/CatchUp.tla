------------------------------- MODULE CatchUp -------------------------------
(***************************************************************************)
(* How the Rose runtime merges the matches of its engines.                 *)
(*                                                                         *)
(* Literals are matched first; the engines lag behind.  An outfix runs     *)
(* over the whole stream, a suffix from the literals that trigger it, and  *)
(* the MPV (queue 0) from the chain events of literals and of other        *)
(* engines.  Before a literal is reported, and at the end of a write,      *)
(* every engine is caught up to that point: a priority queue holds the     *)
(* next match of each, and the earliest engine is run up to the second     *)
(* one.  OutfixQs stay in that queue between two catch-ups.                *)
(*                                                                         *)
(* rt is the part of scratch and stream state that a catch-up changes; the *)
(* operators below take and return such a record, and each action is one   *)
(* turn of a loop of the code, or what a call does outside the loops.      *)
(***************************************************************************)
EXTENDS EngineQueue

CONSTANTS
    Databases,   \* the databases considered; see db
    Lens,        \* lengths of a write
    MaxOffset,   \* bound: length of the stream
    MaxEvents,   \* bound: literal matches in the stream
    HaltAfter    \* the caller stops at this match; 0 for never

Mpv == 0         \* the queue of the MPV
Lit == 100       \* stands for the literals as a source of matches
NoQueue == 1000  \* MMB_INVALID

ASSUME CatchUpAssumption ==
    /\ Lens \subseteq Nat \ {0} /\ {MaxOffset, MaxEvents} \subseteq Nat
    /\ HaltAfter \subseteq Nat
    /\ \A d \in Databases :
          /\ {d.begin, d.end, d.count, d.mqe} \subseteq Nat
          /\ d.begin \in {0, 1} /\ d.begin <= d.end /\ d.end <= d.count /\ d.mqe >= 3
          /\ \A e \in d.begin .. (d.count - 1) : d.rep[e].lo >= 1
          /\ d.chained \cup d.exhaustible \cup d.once \subseteq d.begin .. (d.count - 1)
          /\ d.chained # {} => d.begin = 1
          /\ d.begin = 1 => d.puff >= 2

VARIABLES
    db,      \* the database: engines begin .. end-1 are outfixes, end .. count-1 suffixes
    haltAt,  \* a member of HaltAfter
    buf,     \* core_info.buf_offset
    len,     \* core_info.len
    pos,     \* location of the last literal match in this write
    pc,      \* "idle", "scan", or the part of a catch-up that runs next
    cu,      \* the catch-up in progress
    rt,      \* run-time state
    saved,   \* engine states in the stream state
    trig,    \* events asked for by literals (history variable)
    lits,    \* literal reports asked for (history variable)
    seen     \* number of literal matches so far (history variable)

vars == <<db, haltAt, buf, len, pos, pc, cu, rt, saved, trig, lits, seen>>

Engines == db.begin .. (db.count - 1)
OutfixQs == db.begin .. (db.end - 1)
SuffixQs == db.end .. (db.count - 1)
HasMpv == db.begin = 1              \* has_chained_nfas
AllQueues == 0 .. (db.count - 1)
Bad(o) == o \in db.bad              \* the byte at o is outside the MPV's class

Unused == Started(0, {})
NoCatchUp == [kind |-> "none", loc |-> 0, ok |-> 0, next |-> NoQueue, then |-> "none", e |-> 0]
-----------------------------------------------------------------------------
(* The priority queue of the catch-up: a binary heap on loc, <<top, ...>>. *)

\* The smaller child of the item at j.
PqChild(h, j) == IF 2*j + 1 <= Len(h) /\ h[2*j + 1].loc < h[2*j].loc THEN 2*j + 1 ELSE 2*j

\* h[1] moves to the end of the path, the others on it move up.
PqShift(h, path) ==
    [i \in DOMAIN h |-> IF i = Last(path) THEN h[1]
                        ELSE IF i \in Range(path) THEN h[PqChild(h, i)] ELSE h[i]]

\* pq_sift from the first item: the smaller children move up until the item
\* is no larger than both of them.
PqSift(h) ==
    LET path[j \in DOMAIN h] ==
            IF 2*j <= Len(h) /\ h[PqChild(h, j)].loc < h[1].loc
            THEN <<j>> \o path[PqChild(h, j)] ELSE <<j>>
    IN PqShift(h, path[1])

PqReplaceTop(h, item) == PqSift([h EXCEPT ![1] = item])

PqPop(h) ==
    IF Len(h) = 1 THEN <<>>
    ELSE PqSift([SubSeq(h, 1, Len(h) - 1) EXCEPT ![1] = h[Len(h)]])

\* item comes in at the end of the path, from which the others move down.
PqMakeRoom(h, item, path) ==
    [i \in 1 .. (Len(h) + 1) |-> IF i = Last(path) THEN item
                                 ELSE IF i \in Range(path) THEN h[i \div 2] ELSE h[i]]

\* pq_insert: parents that are not smaller move down.
PqInsert(h, item) ==
    LET path[i \in 1 .. (Len(h) + 1)] ==
            IF i > 1 /\ h[i \div 2].loc >= item.loc THEN <<i>> \o path[i \div 2] ELSE <<i>>
    IN PqMakeRoom(h, item, path[Len(h) + 1])

QMatch(e, loc) == [queue |-> e, loc |-> loc]
PqTop(c) == Head(c.pq)

\* Mutant: the other engines are not looked at.
SecondPlace_none(h, limit) == limit

\* findSecondPlace, for a limit: one of the two children of the top.
SecondPlace(h, limit) == Min({limit} \cup {h[i].loc : i \in DOMAIN h \cap {2, 3}})
-----------------------------------------------------------------------------
(* Sequence points and reports. *)

UpdateMinMatchOffset(c, off) == [c EXCEPT !.minM = off, !.minN = off]

\* Mutant: the other engines' sequence point follows the MPV.
UpdateMinMatchOffsetFromMpv_follow(c, off) == [c EXCEPT !.minM = off, !.minN = off]

UpdateMinMatchOffsetFromMpv(c, off) ==
    [c EXCEPT !.minM = off, !.minN = Max({c.minN, off})]

Exhausted(c, e) == e \in c.ek

\* updateSeqPoint.
UpdateSeqPoint(c, e, off) ==
    IF e = Mpv /\ HasMpv THEN UpdateMinMatchOffsetFromMpv(c, off)
    ELSE UpdateMinMatchOffset(c, off)

\* updateSeqPoint and roseReport: the match reaches the caller, who may stop;
\* an exhaustible report sets its key.
RoseReport(c, e, off) ==
    [UpdateSeqPoint(c, e, off) EXCEPT
        !.out = Append(@, <<e, off>>),
        !.halted = (Len(c.out) + 1 = haltAt),
        !.ek = IF e \in db.exhaustible THEN @ \cup {e} ELSE @]

Deactivate(c, e) ==
    [c EXCEPT !.aa = @ \ {e}, !.aqa = @ \ {e}, !.q = [@ EXCEPT ![e] = Unused]]

\* ensureQueueActive: the engine's state is loaded the first time it is
\* needed in a write.
EnsureQueueActive(c, e) ==
    IF e \in c.aqa THEN c
    ELSE [c EXCEPT !.aqa = @ \cup {e}, !.q = [@ EXCEPT ![e] = Started(0, saved[e])]]

EnsureEnd(q, loc) == IF loc >= LastLoc(q) THEN PushQueueNoMerge(q, "END", loc) ELSE q

SetQueue(c, e, q) == [c EXCEPT !.q = [@ EXCEPT ![e] = q]]
-----------------------------------------------------------------------------
(* The MPV, with one kilopuff over the bytes that are not bad: once started *)
(* at t it reports at every offset from t + db.puff on, until a bad byte.   *)
(* Its state is {t}, or {} when the kilopuff is off.                        *)

\* A TOP at off: no effect while the kilopuff is on, or on a bad byte of
\* this buffer.
MpvTop(st, off) ==
    IF st # {} \/ (off < buf + len /\ Bad(off)) THEN st ELSE {off}

\* st is the kilopuff on arriving at off: it reports, then takes the event.
MpvArrive(c, off, st) ==
    SetQueue(IF \E t \in st : off - t >= db.puff THEN RoseReport(c, Mpv, off) ELSE c, Mpv,
             [c.q[Mpv] EXCEPT !.st = IF Item("TOP", off - buf) \in Range(c.q[Mpv].items)
                                     THEN MpvTop(st, off) ELSE st])

\* The MPV runs over one byte, up to off.
MpvByte(c, off) ==
    IF c.halted THEN c ELSE MpvArrive(c, off, IF Bad(off - 1) THEN {} ELSE c.q[Mpv].st)

\* nfaExecMpv_Q_i over the queue q up to loc.
MpvExec(c, q, loc) ==
    FoldLeft(MpvByte,
             SetQueue(c, Mpv, IF Item("TOP", CurLoc(q)) \in Range(q.items)
                              THEN [q EXCEPT !.st = MpvTop(@, buf + CurLoc(q))] ELSE q),
             [i \in 1 .. (loc - CurLoc(q)) |-> buf + CurLoc(q) + i])

\* nfaExecMpv_Q_i stopped in front of events behind loc: it says MO_ALIVE
\* whether or not a kilopuff is on, and a MQE_START at loc waits in the queue.
MpvEventsWait(q, loc) == LastLoc(q) > loc

\* The trigger_locs of the kilopuff: where it starts to report, or is killed.
MpvTriggers(q, loc) ==
    UNION {{t + db.puff - 1 - buf} \cup
           {b - buf : b \in {x \in db.bad : x >= buf + loc /\ x < buf + len}} : t \in q.st}

\* What nfaExecMpv_QueueExecRaw returns: 0 when no kilopuff is on and no event
\* waits, 1 when one is reporting, else the location of the next event.
MpvNextMatch(q, loc) ==
    IF q.st = {} /\ ~MpvEventsWait(q, loc) THEN 0
    ELSE IF \E t \in q.st : t + db.puff <= buf + loc THEN 1
    ELSE Min({len} \cup MpvTriggers(q, loc) \cup (IF MpvEventsWait(q, loc) THEN {loc} ELSE {}))

\* The end of roseCatchUpMPV_i, next being what the MPV returned.
MpvStopped(c, q, loc, next) ==
    UpdateMinMatchOffsetFromMpv(
        [SetQueue(c, Mpv, IF ~MpvEventsWait(q, loc) THEN Started(loc, q.st)
                          ELSE [StoppedAt(q, buf, loc, EventsUpTo(q, loc)) EXCEPT !.st = q.st]) EXCEPT
            !.mpvIn = (next = 0),
            !.nextMpv = Max({buf + (IF next = 0 THEN len ELSE next), buf + loc + 1})],
        buf + loc)

MpvRan(c, loc) ==
    IF c.halted THEN Deactivate(c, Mpv)
    ELSE MpvStopped(c, c.q[Mpv], loc, MpvNextMatch(c.q[Mpv], loc))

\* roseCatchUpMPV_i once the queue is active.
RunMpv(c, loc) ==
    IF loc < CurLoc(c.q[Mpv])
    THEN [UpdateMinMatchOffsetFromMpv(c, buf + loc) EXCEPT !.nextMpv = buf + loc + 1]
    ELSE MpvRan(MpvExec(c, EnsureEnd(c.q[Mpv], loc), loc), loc)

\* canSkipCatchUpMPV.
CanSkipMpv(c, loc) == ~HasMpv \/ buf + loc < c.nextMpv \/ Mpv \notin c.aa

\* roseCatchUpMPV.
CatchUpMpv(c, loc) ==
    IF CanSkipMpv(c, loc) THEN UpdateMinMatchOffsetFromMpv(c, buf + loc)
    ELSE RunMpv(EnsureQueueActive(c, Mpv), loc)
-----------------------------------------------------------------------------
(* Chain events and the report programs of engines. *)

\* ensureQueueFlushed_i when too many events are at one place: the engine is
\* run over them.
Flattened(c, e, loc) ==
    IF e = Mpv
    THEN SetQueue(c, Mpv, Started(loc, IF TopsUpTo(c.q[Mpv], buf, loc) = {} THEN c.q[Mpv].st
                                       ELSE MpvTop(c.q[Mpv].st, buf + loc)))
    ELSE SetQueue(c, e, Started(loc, c.q[e].st \cup TopsUpTo(c.q[e], buf, loc)))

\* The end of ensureQueueFlushed_i: the engine may have died meanwhile.
Reactivated(c, e, loc) ==
    IF e \in c.aa \/ c.halted THEN c
    ELSE SetQueue([c EXCEPT !.aa = @ \cup {e}, !.aqa = @ \cup {e}], e, Started(loc, {}))

\* roseHandleChainMatch finds no room in the queue of the MPV.
MpvFull(c) == Mpv \in c.aa /\ Mpv \in c.aqa /\ IsQueueFull(c.q[Mpv], db.mqe)

\* The event is in the queue q; at the end of the buffer the MPV takes it.
ChainPushed(c, q, loc) ==
    IF CurLoc(q) = len
    THEN [SetQueue(c, Mpv, Started(loc, MpvTop(q.st, buf + loc))) EXCEPT
             !.mpvIn = FALSE, !.nextMpv = 0]
    ELSE [SetQueue(c, Mpv, q) EXCEPT !.nextMpv = 0]

\* roseHandleChainMatch from the push on.
PushChain(c, loc) ==
    IF c.halted THEN c ELSE ChainPushed(c, PushQueue(c.q[Mpv], "TOP", loc), loc)

\* roseHandleChainMatch when the MPV's queue need not wait for other engines.
HandleChain(c, loc) ==
    PushChain(Reactivated(IF Mpv \notin c.aa THEN c
                          ELSE IF ~MpvFull(c) THEN EnsureQueueActive(c, Mpv)
                          ELSE IF CurLoc(c.q[Mpv]) = loc THEN Flattened(c, Mpv, loc)
                          ELSE CatchUpMpv([c EXCEPT !.nextMpv = 0], loc), Mpv, loc), loc)

\* CHECK_EXHAUSTED and REPORT.
ReportUnlessExhausted(c, e, off) ==
    IF c.halted \/ Exhausted(c, e) THEN c ELSE RoseReport(c, e, off)

\* roseNfaRunProgram for a match of engine e, in a catch-up: a chain event, or
\* a report once the MPV has caught up (CATCH_UP_MPV).
RunProgram(c, e, off) ==
    IF c.halted THEN c
    ELSE IF e \in db.chained THEN HandleChain(c, off - buf)
    ELSE ReportUnlessExhausted(CatchUpMpv(c, off - buf), e, off)
-----------------------------------------------------------------------------
(* Running suffixes and outfixes. *)

Exec2(c, e, loc) == QueueExecToMatch(c.q[e], db.rep[e], buf, loc)

\* What runNewNfaToNextMatch and runExistingNfaToNextMatch leave, r being the
\* outcome of the engine's run to loc; the priority queue becomes waiting if the
\* engine has a next match, and gone if it has none.
Settle(c, e, loc, r, waiting, gone) ==
    IF c.halted THEN c
    ELSE IF r.rv = "pending" THEN [SetQueue(c, e, r.q) EXCEPT !.pq = waiting]
    ELSE IF r.rv = "dead" THEN [Deactivate(c, e) EXCEPT !.pq = gone]
    ELSE [SetQueue(c, e, IF r.q.items = <<>> THEN Started(loc, r.q.st) ELSE Compacted(r.q))
             EXCEPT !.pq = gone]

NextOf(e, r) == QMatch(e, CurLoc(r.q))
InsertNext(c, e, loc, r) == Settle(c, e, loc, r, PqInsert(c.pq, NextOf(e, r)), c.pq)
ReplaceTopByNext(c, e, loc, r) ==
    Settle(c, e, loc, r, PqReplaceTop(c.pq, NextOf(e, r)), PqPop(c.pq))

\* The engine has run to r: a match at ok cannot come after one of another
\* engine, and is reported at once.
RanToFirst(c, e, loc, ok, r) ==
    IF r.rv = "pending" /\ CurLoc(r.q) = ok
    THEN InsertNext(RunProgram(c, e, buf + ok), e, loc,
                    QueueExecToMatch(r.q, db.rep[e], buf, loc))
    ELSE InsertNext(c, e, loc, r)

RunNewToNextMatch(c, e, loc, ok) == RanToFirst(c, e, loc, ok, Exec2(c, e, loc))

\* The engine is at the top of the priority queue, at a match that is to be
\* reported now if report holds.
RunExistingToNextMatch(c, e, loc, report) ==
    ReplaceTopByNext(IF report THEN RunProgram(c, e, buf + CurLoc(c.q[e])) ELSE c,
                     e, loc, Exec2(c, e, loc))

\* A match of e in blast_queue: the engine is halted by the caller or by the
\* exhaustion of its report.
Halting(c, e) == [c |-> c, go |-> ~c.halted /\ ~Exhausted(c, e)]
BlastAll(c, e, locs) ==
    FoldLeft(LAMBDA f, x : IF f.go THEN Halting(RunProgram(f.c, e, buf + x), e) ELSE f,
             [c |-> c, go |-> TRUE], SetToSortSeq(locs, <))

Blasted(fired, e, r) ==
    [c |-> SetQueue(fired.c, e, r.q), alive |-> fired.go /\ r.rv = "alive"]

\* blast_queue: the engine runs to loc and its matches are reported directly,
\* the one it stands at too if current holds.
BlastQueue(c, e, loc, current) ==
    Blasted(BlastAll(c, e, (IF current THEN {CurLoc(c.q[e])} ELSE {})
                           \cup (IF CurLoc(c.q[e]) > loc THEN {}
                                 ELSE MatchLocs(c.q[e], db.rep[e], buf, loc))),
            e, QueueExec(c.q[e], db.rep[e], buf, loc))

\* Mutant: a suffix is run to the end of the buffer, like an outfix.
FirstMatch_len(c, e, loc, ok) ==
    IF loc < CurLoc(c.q[e]) THEN c
    ELSE RunNewToNextMatch(SetQueue(c, e, EnsureEnd(c.q[e], len)), e, len, ok)

\* add_to_queue from ensureQueueActive on.
FirstMatch(c, e, loc, ok) ==
    IF loc < CurLoc(c.q[e]) THEN c
    ELSE RunNewToNextMatch(SetQueue(c, e, EnsureEnd(c.q[e], loc)), e, loc, ok)

\* add_to_queue: roseSuffixInfoIsExhausted, or the engine's first match.
AddToQueue(c, e, loc, ok) ==
    IF Exhausted(c, e) THEN Deactivate(c, e)
    ELSE FirstMatch(EnsureQueueActive(c, e), e, loc, ok)

\* buildSufPQ_final after blast_queue.
FinalBlasted(b, e, loc, ok) ==
    IF b.c.halted THEN b.c
    ELSE IF ~b.alive THEN Deactivate(b.c, e)
    ELSE IF b.c.q[e].items = <<>> THEN SetQueue(b.c, e, Started(loc, b.c.q[e].st))
    ELSE RunNewToNextMatch(b.c, e, loc, ok)

FinalMatches(c, e, loc, ok, second) ==
    IF loc < CurLoc(c.q[e]) THEN c
    ELSE FinalBlasted(BlastQueue(SetQueue(c, e, EnsureEnd(c.q[e], loc)), e, second, FALSE),
                      e, loc, ok)

\* buildSufPQ_final: the last suffix can be run up to the first match of the
\* others without going through the priority queue.
BuildFinal(c, e, loc, ok, second) ==
    IF Exhausted(c, e) THEN Deactivate(c, e)
    ELSE FinalMatches(EnsureQueueActive(c, e), e, loc, ok, second)
-----------------------------------------------------------------------------
(* One turn of the loop of buildSufPQ, and of the loop of roseCatchUpNfas. *)

\* mmbit_iterate over the suffixes of the active array.
NextActive(c, e) ==
    LET more == {s \in SuffixQs \cap c.aa : s > e} IN IF more = {} THEN NoQueue ELSE Min(more)

\* The first match already in the priority queue, or the end of the catch-up.
FirstWaiting(c, u) == IF c.pq = <<>> THEN u.loc ELSE Min({PqTop(c).loc, u.loc})

BuildTurn(c, u) ==
    IF NextActive(c, u.next) = NoQueue /\ u.ok <= FirstWaiting(c, u)
    THEN BuildFinal(c, u.next, u.loc, u.ok, FirstWaiting(c, u))
    ELSE AddToQueue(c, u.next, u.loc, u.ok)

\* The top of the priority queue is due.
NfaDue(c, u) == c.pq # <<>> /\ PqTop(c).loc <= u.loc

Popped(c) == [c EXCEPT !.pq = PqPop(@)]

\* roseCatchUpNfas after blast_queue.  The results say whether the loop is
\* left by its break.
NfaBlasted(b, e, u, second, final) ==
    IF b.c.halted THEN <<b.c, TRUE>>
    ELSE IF ~b.alive THEN <<Popped(Deactivate(b.c, e)), FALSE>>
    ELSE IF b.c.q[e].items = <<>>
    THEN <<Popped(SetQueue(b.c, e, Started(u.loc, b.c.q[e].st))), FALSE>>
    ELSE IF second = final THEN <<Popped(b.c), TRUE>>
    ELSE <<RunExistingToNextMatch(b.c, e, final, FALSE), FALSE>>

\* The MPV has caught up with the match at the top, of engine e.
NfaRun(c, e, u, second, final) ==
    IF c.halted THEN <<c, TRUE>>
    ELSE IF second = CurLoc(c.q[e]) THEN <<RunExistingToNextMatch(c, e, final, TRUE), FALSE>>
    ELSE NfaBlasted(BlastQueue(c, e, second, TRUE), e, u, second, final)

NfaTurn(c, u) ==
    NfaRun(CatchUpMpv(c, PqTop(c).loc), PqTop(c).queue, u, SecondPlace(c.pq, u.loc),
           IF PqTop(c).queue \in SuffixQs THEN u.loc ELSE len)
-----------------------------------------------------------------------------
(* The literals' side. *)

\* roseTriggerSuffix from the push on: at the end of the buffer the engine
\* may not be run again, so it takes the event at once.
TopPushed(c, e, loc, q, r) ==
    IF CurLoc(q) # len THEN SetQueue(c, e, q)
    ELSE IF r.rv = "alive" THEN SetQueue(c, e, Started(loc, r.q.st))
    ELSE Deactivate(c, e)
TopQueued(c, e, loc, q) ==
    TopPushed(c, e, loc, q, QueueExec(PushQueueNoMerge(q, "END", loc), db.rep[e], buf, loc))
PushTop(c, e, loc) == TopQueued(c, e, loc, PushQueue(c.q[e], "TOP", loc))

SuffixFull(c, e) == e \in c.aa /\ e \in c.aqa /\ IsQueueFull(c.q[e], db.mqe)

\* The first match of an outfix in this buffer.
OutfixFirst(c, e) ==
    RunNewToNextMatch(SetQueue(c, e, PushQueueNoMerge(c.q[e], "END", len)), e, len, -1)

\* streamInitSufPQ and blockInitSufPQ for one outfix.
InitOutfix(c, e) ==
    IF db.block
    THEN OutfixFirst(SetQueue([c EXCEPT !.aa = @ \cup {e}, !.aqa = @ \cup {e}], e,
                              PushQueueNoMerge(Unused, "TOP", 0)), e)
    ELSE IF e \in c.aa THEN OutfixFirst(EnsureQueueActive(c, e), e) ELSE c

\* roseSaveNfaStreamState.
SaveStates(c) ==
    [e \in AllQueues |-> IF e \in c.aa THEN c.q[e].st ELSE saved[e]]
-----------------------------------------------------------------------------
Init ==
    /\ db \in Databases /\ haltAt \in HaltAfter
    /\ buf = 0 /\ len = 0 /\ pos = 0 /\ pc = "idle" /\ cu = NoCatchUp
    /\ rt = [aa |-> IF db.block THEN {} ELSE OutfixQs, aqa |-> {},
             q |-> [e \in AllQueues |-> Unused], pq |-> <<>>, minM |-> 0, minN |-> 0,
             nextMpv |-> 0, mpvIn |-> FALSE, ek |-> {}, out |-> <<>>, halted |-> FALSE]
    /\ saved = [e \in AllQueues |-> IF e \in OutfixQs THEN {0} ELSE {}]
    /\ trig = {} /\ lits = {} /\ seen = 0

setup == <<db, haltAt>>
asked == <<trig, lits, seen>>

\* rt becomes c, and control goes to where unless the caller stopped the scan.
GoTo(c, where) ==
    /\ rt' = c
    /\ pc' = IF c.halted THEN "halted" ELSE where

\* The caller scans the next n bytes.
Write(n) ==
    /\ pc = "idle" /\ buf + len + n <= MaxOffset
    /\ db.block => len = 0
    /\ buf' = buf + len /\ len' = n /\ pos' = 0
    /\ pc' = "start"
    /\ UNCHANGED <<setup, cu, rt, saved, asked>>

\* The start of roseStreamExec and of roseBlockExec.
StartWrite ==
    /\ pc = "start"
    /\ GoTo(FoldLeft(InitOutfix,
                     [rt EXCEPT !.minM = buf, !.minN = buf, !.nextMpv = 0, !.mpvIn = FALSE,
                                !.aqa = {}, !.pq = <<>>, !.q = [e \in AllQueues |-> Unused]],
                     SetToSortSeq(OutfixQs, <)),
            "scan")
    /\ UNCHANGED <<setup, buf, len, pos, cu, saved, asked>>

\* buildSufPQ up to its loop; kind is "all" (roseCatchUpAll) or "suf".
StartBuild(kind, loc, then, e) ==
    LET first == NextActive(rt, -1)
        ok == rt.minN + 1 - buf
    IN /\ cu' = [kind |-> kind, loc |-> loc, ok |-> ok, next |-> first, then |-> then, e |-> e]
       /\ IF first = NoQueue THEN GoTo(rt, "nfas") ELSE GoTo(CatchUpMpv(rt, ok), "build")

\* Nothing more than c is needed; what follows the catch-up is next.
UpToDate(c, loc, then, e) ==
    /\ cu' = [NoCatchUp EXCEPT !.loc = loc, !.then = then, !.e = e]
    /\ GoTo(c, "ret")

\* roseCatchUpTo.
CatchUpTo(c, loc, then, e) ==
    IF buf + loc <= c.minM THEN UpToDate(c, loc, then, e)
    ELSE IF buf + loc <= c.minN THEN UpToDate(CatchUpMpv(c, loc), loc, then, e)
    ELSE IF c.aa = {} THEN UpToDate(UpdateMinMatchOffset(c, buf + loc), loc, then, e)
    ELSE StartBuild("all", loc, then, e)

\* roseCatchUpMpvFeeders; mpvTriggeredByLeaf is db.chained # {}.
CatchUpMpvFeeders(loc) ==
    IF buf + loc <= rt.minN \/ db.chained = {} THEN UpToDate(rt, loc, "chain", Mpv)
    ELSE IF rt.aa = {} THEN UpToDate([rt EXCEPT !.minN = buf + loc], loc, "chain", Mpv)
    ELSE StartBuild("suf", loc, "chain", Mpv)

\* A literal match ends at loc.
Literal(loc) ==
    /\ pc = "scan" /\ loc \in 1 .. len /\ loc >= pos
    /\ seen < MaxEvents
    /\ seen' = seen + 1 /\ pos' = loc

\* Its program is CATCH_UP and REPORT.
LiteralReport(loc) ==
    /\ Literal(loc) /\ buf + loc \notin lits
    /\ lits' = lits \cup {buf + loc}
    /\ CatchUpTo(rt, loc, "report", Lit)
    /\ UNCHANGED <<setup, buf, len, saved, trig>>

\* Its program is TRIGGER_SUFFIX.
LiteralTop(e, loc) ==
    /\ Literal(loc)
    /\ trig' = trig \cup {<<e, buf + loc>>}
    /\ IF e \in db.once /\ e \in rt.aa THEN UNCHANGED <<rt, pc, cu>>
       ELSE IF SuffixFull(rt, e) /\ CurLoc(rt.q[e]) # loc THEN CatchUpTo(rt, loc, "top", e)
       ELSE /\ GoTo(PushTop(IF e \notin rt.aa THEN Reactivated(rt, e, loc)
                            ELSE IF SuffixFull(rt, e) THEN Flattened(rt, e, loc)
                            ELSE EnsureQueueActive(rt, e), e, loc), "scan")
            /\ cu' = cu
    /\ UNCHANGED <<setup, buf, len, saved, lits>>

\* Its program is REPORT_CHAIN.
LiteralChain(loc) ==
    /\ Literal(loc) /\ HasMpv
    /\ trig' = trig \cup {<<Mpv, buf + loc>>}
    /\ CatchUpMpvFeeders(loc)
    /\ UNCHANGED <<setup, buf, len, saved, lits>>

\* Mutant: the last byte is left out.
EndScan_short ==
    /\ pc = "scan"
    /\ CatchUpTo(rt, len - 1, "tidy", 0)
    /\ UNCHANGED <<setup, buf, len, pos, saved, asked>>

\* The literal matchers are done: ensureStreamNeatAndTidy, or the last
\* roseCatchUpTo of roseBlockExec.
EndScan ==
    /\ pc = "scan"
    /\ CatchUpTo(rt, len, "tidy", 0)
    /\ UNCHANGED <<setup, buf, len, pos, saved, asked>>

Build ==
    /\ pc = "build"
    /\ cu' = [cu EXCEPT !.next = NextActive(rt, @)]
    /\ GoTo(BuildTurn(rt, cu), IF cu'.next = NoQueue THEN "nfas" ELSE "build")
    /\ UNCHANGED <<setup, buf, len, pos, saved, asked>>

Nfas ==
    /\ pc = "nfas" /\ NfaDue(rt, cu)
    /\ \E turn \in {NfaTurn(rt, cu)} :
          IF turn[2] THEN GoTo([turn[1] EXCEPT !.minN = buf + cu.loc], "mpv")
          ELSE GoTo(turn[1], "nfas")
    /\ UNCHANGED <<setup, buf, len, pos, cu, saved, asked>>

NfasDone ==
    /\ pc = "nfas" /\ ~NfaDue(rt, cu)
    /\ GoTo([rt EXCEPT !.minN = buf + cu.loc], "mpv")
    /\ UNCHANGED <<setup, buf, len, pos, cu, saved, asked>>

\* Mutant: as long as the MPV is active the catch-up starts again.
LastMpv_again ==
    /\ pc = "mpv"
    /\ IF cu.kind = "all" /\ Mpv \in rt.aa THEN GoTo(rt, "nfas") ELSE GoTo(rt, "ret")
    /\ UNCHANGED <<setup, buf, len, pos, cu, saved, asked>>

\* The end of roseCatchUpAll; roseCatchUpSuf leaves the MPV behind.
LastMpv ==
    /\ pc = "mpv"
    /\ GoTo(IF cu.kind = "all" THEN CatchUpMpv(rt, cu.loc) ELSE rt, "ret")
    /\ UNCHANGED <<setup, buf, len, pos, cu, saved, asked>>

ReturnReport ==
    /\ pc = "ret" /\ cu.then = "report"
    /\ GoTo(RoseReport(rt, Lit, buf + cu.loc), "scan")
    /\ cu' = NoCatchUp
    /\ UNCHANGED <<setup, buf, len, pos, saved, asked>>

ReturnTop ==
    /\ pc = "ret" /\ cu.then = "top"
    /\ GoTo(PushTop(Reactivated(rt, cu.e, cu.loc), cu.e, cu.loc), "scan")
    /\ cu' = NoCatchUp
    /\ UNCHANGED <<setup, buf, len, pos, saved, asked>>

\* roseHandleChainMatch: a full queue may need a catch-up of everything.
ReturnChain ==
    /\ pc = "ret" /\ cu.then = "chain"
    /\ IF MpvFull(rt) /\ CurLoc(rt.q[Mpv]) # cu.loc /\ buf + cu.loc > rt.minN
       THEN CatchUpTo([rt EXCEPT !.nextMpv = 0], cu.loc, "flushed", Mpv)
       ELSE GoTo(HandleChain(rt, cu.loc), "scan") /\ cu' = NoCatchUp
    /\ UNCHANGED <<setup, buf, len, pos, saved, asked>>

ReturnFlushed ==
    /\ pc = "ret" /\ cu.then = "flushed"
    /\ GoTo(PushChain(Reactivated(rt, Mpv, cu.loc), cu.loc), "scan")
    /\ cu' = NoCatchUp
    /\ UNCHANGED <<setup, buf, len, pos, saved, asked>>

\* The write returns to the caller.
ReturnTidy ==
    /\ pc = "ret" /\ cu.then = "tidy"
    /\ LET c == IF rt.mpvIn /\ ~db.block THEN [rt EXCEPT !.aa = @ \ {Mpv}] ELSE rt
       IN GoTo(c, "idle") /\ saved' = IF db.block THEN saved ELSE SaveStates(c)
    /\ cu' = NoCatchUp
    /\ UNCHANGED <<setup, buf, len, pos, asked>>

\* The caller may leave it at that, and must once it has stopped the scan.
Rest == pc \in {"idle", "halted"} /\ UNCHANGED vars

\* The steps the scanning thread takes by itself once a write has started.
Step ==
    \/ StartWrite \/ EndScan \/ Build \/ Nfas \/ NfasDone \/ LastMpv
    \/ ReturnReport \/ ReturnTop \/ ReturnChain \/ ReturnFlushed \/ ReturnTidy

Next ==
    \/ \E n \in Lens : Write(n)
    \/ \E loc \in 1 .. len : LiteralReport(loc) \/ LiteralChain(loc)
    \/ \E loc \in 1 .. len, e \in SuffixQs : LiteralTop(e, loc)
    \/ Step
    \/ Rest

Spec == Init /\ [][Next]_vars

\* A write is in progress; this is when Step is enabled.
Running == pc \notin {"idle", "halted"}

\* The thread that called hs_scan_stream runs until the call returns.  This
\* is WF_vars(Step), written with Running in place of ENABLED Step.
Fairness == []<>~Running \/ []<><<Step>>_vars

FairSpec == Spec /\ Fairness
-----------------------------------------------------------------------------
(* What the bytes and the literals call for. *)

TopsOf(e) == IF e \in OutfixQs THEN {0} ELSE {p[2] : p \in {s \in trig : s[1] = e}}
Found(e) == {x \in 1 .. (buf + len) : RepeatMatches(db.rep[e], TopsOf(e), x)}
ChainTops == {p[2] : p \in {s \in trig : s[1] = Mpv /\ HasMpv}} \cup UNION {Found(e) : e \in db.chained}
MpvFound ==
    {x \in 1 .. (buf + len) :
        \E t \in ChainTops : x - t >= db.puff /\ \A b \in db.bad : ~(t <= b /\ b < x)}
Due ==
    {m \in (Engines \ db.chained) \X (1 .. (buf + len)) :
        /\ m[2] \in Found(m[1])
        /\ m[1] \in db.exhaustible => m[2] = Min(Found(m[1]))}
    \cup {<<Mpv, x>> : x \in MpvFound}
    \cup {<<Lit, x>> : x \in lits}

Pending == Due \ Range(rt.out)

Ordered == INSTANCE OrderedMatches WITH due <- Due, out <- rt.out, stopped <- rt.halted
-----------------------------------------------------------------------------
(* Properties. *)

Queue == [cur : Nat, items : Seq([type : {"START", "TOP", "END"}, loc : Nat]),
          st : SUBSET (0 .. MaxOffset)]

TypeOK ==
    /\ db \in Databases /\ haltAt \in HaltAfter
    /\ {buf, len, pos, seen, rt.minM, rt.minN, rt.nextMpv} \subseteq Nat
    /\ pc \in {"idle", "start", "scan", "build", "nfas", "mpv", "ret", "halted"}
    /\ rt.aa \subseteq AllQueues /\ rt.aqa \subseteq AllQueues /\ rt.ek \subseteq Engines
    /\ \A e \in AllQueues : rt.q[e] \in Queue /\ saved[e] \subseteq 0 .. MaxOffset
    /\ rt.mpvIn \in BOOLEAN /\ rt.halted \in BOOLEAN

\* The matches of all engines, of the MPV and of literals reach the caller
\* once each, and each after every match with a smaller offset
\* (roseCatchUpTo, roseCatchUpNfas, buildSufPQ).
DeliversInOrder == Ordered!OSpec

\* When a write has returned, every match in its bytes has been delivered:
\* nothing waits in an engine's queue or in the priority queue
\* (ensureStreamNeatAndTidy).
NothingLeftBehind == pc = "idle" => Pending = {}

\* Every queue that may still be run has room for the END event that the run
\* needs (isQueueFull, ensureQueueFlushed).
RoomForEnd ==
    ~rt.halted => \A e \in rt.aqa : Last(rt.q[e].items).type # "END" => QEnd(rt.q[e]) + 1 <= db.mqe

\* Between catch-ups the priority queue holds outfixes only, each once and at
\* a match of its engine not yet reached by the literals (buildSufPQ).
OnlyOutfixesWait ==
    pc = "scan" =>
        /\ \A i \in DOMAIN rt.pq :
              /\ rt.pq[i].queue \in OutfixQs \cap rt.aa
              /\ rt.pq[i].loc = CurLoc(rt.q[rt.pq[i].queue])
              /\ buf + rt.pq[i].loc > rt.minN \/ rt.pq[i].loc > pos
        /\ \A i, j \in DOMAIN rt.pq : rt.pq[i].queue = rt.pq[j].queue => i = j

\* The sequence points of a write never go back, whatever reports are made
\* (the assertions of updateMinMatchOffset and updateMinMatchOffsetFromMpv).
SeqPointsAdvance ==
    [][pc # "start" => rt.minM <= rt'.minM /\ rt.minN <= rt'.minN]_vars

\* A match that is due is delivered, unless the caller stops the scan: each
\* catch-up ends (the loops of buildSufPQ and roseCatchUpNfas).
EventuallyDelivered == Pending # {} ~> (Pending = {} \/ rt.halted)
=============================================================================
