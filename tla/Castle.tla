------------------------------ MODULE Castle ------------------------------
(***************************************************************************)
(* The castle engine of nfa/castle.c: several bounded repeats of one       *)
(* character class.  A byte outside the class (an escape) kills all of     *)
(* them.  As a suffix or an outfix it is run over a queue of tops and      *)
(* reports its matches (modes Q, with a callback, and Q2, which stops at   *)
(* every match); as a leftfix it is asked at the end of the queue whether  *)
(* a repeat matches there (mode QR).  Between two writes only the packed   *)
(* controls and the repeat states of the active repeats are kept.          *)
(* The items of a queue are chosen one at a time, when they are looked at. *)
(***************************************************************************)
EXTENDS Repeat

CONSTANTS
    Castles,     \* the castles a database may hold, see IsCastle
    WriteSizes   \* the lengths of a write

\* subs: the RepeatInfo of each sub-castle; group: its exclusive group, 0 if
\* it has none; class: whether some byte is an escape (FALSE for CASTLE_DOT);
\* reset: sub-castles whose triggers kill or outlive all earlier tops; bound:
\* the length of the streams it is run on
IsCastle(c) ==
    /\ DOMAIN c.group = DOMAIN c.subs
    /\ c.reset \subseteq DOMAIN c.subs
    /\ c.class \in BOOLEAN
    /\ c.modes \subseteq {"Q", "Q2", "QR"}
    /\ c.bound \in Nat

ASSUME CastleAssumption ==
    /\ \A c \in Castles : IsCastle(c)
    /\ WriteSizes \subseteq Nat \ {0}

VARIABLES
    castle,   \* the castle in use, never changes
    active,   \* "active repeats" multibit (sub-castles without a group)
    groups,   \* the active exclusive groups
    idx,      \* the active sub-castle of each group
    ctrl,     \* RepeatControl of each slot, in scratch
    rstate,   \* repeat state of each slot, in stream state
    packed,   \* packed control of each slot, in stream state
    base,     \* offset at which this write began
    end,      \* offset at which it ends
    esc,      \* offsets of the escapes of this write
    mode,     \* how the engine is run during this write
    sp,       \* start of what is left of the queue
    pc,       \* between writes, between items, in an item, match pending
    item,     \* the item in progress: location and event
    answer,   \* what the last QR call returned, with the report it was for
    tops,     \* history: tops of each sub-castle that may still matter
    fired     \* history: offsets reported for each sub-castle in this write

vars == <<castle, active, groups, idx, ctrl, rstate, packed, base, end, esc, mode, sp,
          pc, item, answer, tops, fired>>

MQE_END == 0
Stop == -1
NoControl == [offset |-> -1]
NoItem == [loc |-> -1, ev |-> 0]
NoAnswer == [report |-> 0, rv |-> "none"]
MO_INVALID_IDX == -1   \* no report is asked for: the queue is only caught up

Subs == DOMAIN castle.subs
\* The sub-castles of a group share their control and their state
Slot(s) == IF castle.group[s] = 0 THEN s
           ELSE Min({r \in Subs : castle.group[r] = castle.group[s]})

Active == active \union {idx[g] : g \in groups}
Control(s) == ctrl[Slot(s)]
State(s) == rstate[Slot(s)]
NextMatch(s, o) == repeatNextMatch(castle.subs[s], Control(s), State(s), o)
HasMatch(s, o) == repeatHasMatch(castle.subs[s], Control(s), State(s), o)

Init ==
    /\ castle \in Castles
    /\ active = {} /\ groups = {}
    /\ idx = [g \in {castle.group[s] : s \in Subs} \ {0} |-> 0]
    /\ ctrl = [s \in Subs |-> NoControl]
    /\ rstate = [s \in Subs |-> NoState]
    /\ packed = [s \in Subs |-> NoControl]
    /\ base = 0 /\ end = 0 /\ sp = 0
    /\ esc = {} /\ mode = "Q" /\ pc = "between" /\ item = NoItem /\ answer = NoAnswer
    /\ tops = [s \in Subs |-> {}]
    /\ fired = [s \in Subs |-> <<>>]

---------------------------------------------------------------------------
(* Activity                                                                *)

Deactivate(dead) ==
    /\ active' = active \ dead
    /\ groups' = {g \in groups : idx[g] \notin dead}

clear_repeats(killed, act, grp) ==
    [active |-> IF killed THEN {} ELSE act, groups |-> IF killed THEN {} ELSE grp]

Store(s, o, alive) ==
    LET new == repeatStore(castle.subs[s], Control(s), State(s), o, alive)
    IN  /\ ctrl' = [ctrl EXCEPT ![Slot(s)] = new.c]
        /\ rstate' = [rstate EXCEPT ![Slot(s)] = new.st]

\* Whether the control of s holds tops of s
IsAlive(s, act, grp) ==
    IF castle.group[s] = 0 THEN s \in act
    ELSE castle.group[s] \in grp /\ idx[castle.group[s]] = s

\* act, grp: what is active when the top arrives
castleProcessTop(s, o, act, grp, alive) ==
    /\ IF castle.group[s] = 0
       THEN active' = act \union {s} /\ groups' = grp /\ UNCHANGED idx
       ELSE /\ active' = act
            /\ groups' = grp \union {castle.group[s]}
            /\ idx' = [idx EXCEPT ![castle.group[s]] = s]
    /\ IF alive /\ repeatLastTop(castle.subs[s], Control(s), State(s)) = o
       THEN UNCHANGED <<ctrl, rstate>>
       ELSE Store(s, o, alive)
    /\ tops' = [tops EXCEPT ![s] = @ \union {o}]

\* The tops of s that no escape has killed before o
Unkilled(s, o) == {t \in tops[s] : esc \intersect (t..(o - 1)) = {}}

\* The triggers of s that the compiler's analysis allows at o: the period of a
\* SPARSE repeat, resetting triggers, exclusive groups
Allowed(s, o) ==
    /\ castle.subs[s].type = "SPARSE" =>
          \A t \in tops[s] : t = o \/ o - t >= castle.subs[s].period
    /\ s \in castle.reset =>
          \A t \in Unkilled(s, o) : t = o \/ o - t > castle.subs[s].max
    /\ castle.group[s] # 0 =>
          \A r \in Subs \ {s} : castle.group[r] = castle.group[s] => Unkilled(r, o) = {}

---------------------------------------------------------------------------
(* Modes Q and Q2: nfaExecCastle_Q_i                                       *)

\* The next item of the queue: a top, the end of the queue, or the location
\* where this call was asked to stop (Stop, a later call goes on from there)
NextItem(l, ev) ==
    /\ pc = "items" /\ mode # "QR"
    /\ l \in sp..end
    /\ item' = [loc |-> l, ev |-> ev]
    /\ pc' = "scan"
    /\ UNCHANGED <<castle, active, groups, idx, ctrl, rstate, packed, base, end, esc, mode,
                   sp, answer, tops, fired>>

Escapes == esc \intersect (sp..(item.loc - 1))
\* How far the repeats live: to the first escape or to the item (castleScan)
ScanEnd == IF Escapes = {} THEN item.loc ELSE Min(Escapes)

\* Mutant: a match where the scan ends is left for later
Matching_before(o) == {s \in Active : NextMatch(s, o) # 0 /\ NextMatch(s, o) < ScanEnd}

\* The sub-castles with a next match, and those that have no more
Matching(o) == {s \in Active : NextMatch(s, o) # 0 /\ NextMatch(s, o) <= ScanEnd}
Exhausted(o) == {s \in Active : NextMatch(s, o) = 0}

Fire(subs, o) ==
    fired' = [s \in Subs |-> IF s \in subs THEN Append(fired[s], o) ELSE fired[s]]

\* One turn of castleMatchLoop that finds matches: the earliest are fired
MatchStep ==
    /\ pc = "scan" /\ mode = "Q"
    /\ sp < ScanEnd
    /\ Matching(sp) # {}
    /\ \E o \in {Min({NextMatch(s, sp) : s \in Matching(sp)})} :
          /\ Fire({s \in Matching(sp) : NextMatch(s, sp) = o}, o)
          /\ sp' = o
    /\ Deactivate(Exhausted(sp))
    /\ UNCHANGED <<castle, idx, ctrl, rstate, packed, base, end, esc, mode, pc, item,
                   answer, tops>>

\* castleFindMatch finds one: the queue restarts there and the call returns
FindStep ==
    /\ pc = "scan" /\ mode = "Q2"
    /\ sp < ScanEnd
    /\ Matching(sp) # {}
    /\ sp' = Min({NextMatch(s, sp) : s \in Matching(sp)})
    /\ Deactivate(Exhausted(sp))
    /\ pc' = "pending"
    /\ UNCHANGED <<castle, idx, ctrl, rstate, packed, base, end, esc, mode, item, answer,
                   tops, fired>>

\* The caller has the pending matches reported and calls again
castleReportCurrent ==
    /\ pc = "pending"
    /\ Fire({s \in Active : HasMatch(s, sp) = "match"}, sp)
    /\ pc' = "scan"
    /\ UNCHANGED <<castle, active, groups, idx, ctrl, rstate, packed, base, end, esc, mode,
                   sp, item, answer, tops>>

castleHandleEvent(left) ==
    IF item.ev \in Subs
    THEN castleProcessTop(item.ev, item.loc, left.active, left.groups,
                          IsAlive(item.ev, left.active, left.groups))
    ELSE /\ active' = left.active
         /\ groups' = left.groups
         /\ UNCHANGED <<idx, ctrl, rstate, tops>>

\* No more matches before the item: an escape kills, then the event is handled
FinishItem ==
    /\ pc = "scan"
    /\ sp < ScanEnd => Matching(sp) = {}
    /\ \E dead \in {IF sp < ScanEnd THEN Exhausted(sp) ELSE {}} :
          castleHandleEvent(clear_repeats(Escapes # {}, active \ dead,
                                          {g \in groups : idx[g] \notin dead}))
    /\ sp' = item.loc
    /\ pc' = IF item.ev = MQE_END THEN "done" ELSE "items"
    /\ item' = NoItem
    /\ UNCHANGED <<castle, packed, base, end, esc, mode, answer, fired>>

---------------------------------------------------------------------------
(* Mode QR: nfaExecCastle_QR                                               *)

\* castleLastKillLoc: sp - 1 if nothing is killed before l
LastKill(l) == IF esc \intersect (sp..(l - 1)) = {} THEN sp - 1
               ELSE Max(esc \intersect (sp..(l - 1)))

\* A call whose queue ends at l; the kill is known before any event is seen
StartQR(l) ==
    /\ pc = "items" /\ mode = "QR"
    /\ l \in sp..end
    /\ \E left \in {clear_repeats(LastKill(l) # sp - 1, active, groups)} :
          active' = left.active /\ groups' = left.groups
    /\ item' = [loc |-> l, ev |-> sp]
    /\ pc' = "qr"
    /\ UNCHANGED <<castle, idx, ctrl, rstate, packed, base, end, esc, mode, sp, answer,
                   tops, fired>>

Skipped(o) == o <= LastKill(item.loc)

\* An event of the queue, item.ev being the location of the one before it
EventQR(s, o) ==
    /\ pc = "qr"
    /\ o \in item.ev..item.loc
    /\ Allowed(s, o)
    /\ IF Skipped(o)
       THEN /\ tops' = [tops EXCEPT ![s] = @ \union {o}]
            /\ UNCHANGED <<active, groups, idx, ctrl, rstate>>
       ELSE castleProcessTop(s, o, active, groups, IsAlive(s, active, groups))
    /\ item' = [item EXCEPT !.ev = o]
    /\ UNCHANGED <<castle, packed, base, end, esc, mode, sp, pc, answer, fired>>

\* castleDeactivateStaleSubs: only repeats with a maximum are looked at
Stale(o) == {s \in Active : castle.subs[s].max # REPEAT_INF /\ HasMatch(s, o) = "stale"}

\* Mutant: the report asked for is not looked at
castleInAccept_any(report, o, alive) == \E s \in alive : HasMatch(s, o) = "match"
castleInAccept(report, o, alive) ==
    /\ report # MO_INVALID_IDX
    /\ report \in alive /\ HasMatch(report, o) = "match"

EndQR(report) ==
    /\ pc = "qr"
    /\ Deactivate(Stale(item.loc))
    /\ answer' = [report |-> report,
                  rv |-> CASE Active \ Stale(item.loc) = {} -> "dead"
                           [] castleInAccept(report, item.loc, Active \ Stale(item.loc)) -> "pending"
                           [] OTHER -> "alive"]
    /\ sp' = item.loc
    /\ pc' = "items"
    /\ item' = NoItem
    /\ UNCHANGED <<castle, idx, ctrl, rstate, packed, base, end, esc, mode, tops, fired>>

---------------------------------------------------------------------------
(* Writes                                                                  *)

\* A write of n bytes with escapes at e: nfaExecCastle_expandState unpacks the
\* active repeats, everything else in scratch belongs to whoever used it last
BeginWrite(n, e, m) ==
    /\ pc = "between"
    /\ base + n <= castle.bound
    /\ castle.class \/ e = {}
    /\ m \in castle.modes
    /\ ctrl' = [s \in Subs |->
                  IF \E r \in Active : Slot(r) = s
                  THEN repeatUnpack(castle.subs[CHOOSE r \in Active : Slot(r) = s],
                                    packed[s], base)
                  ELSE NoControl]
    /\ end' = base + n /\ esc' = {base + x : x \in e} /\ mode' = m /\ pc' = "items"
    /\ UNCHANGED <<castle, active, groups, idx, rstate, packed, base, sp, item, answer,
                   tops, fired>>

\* The tops that can still lead to a match after o
Relevant(s, o) ==
    IF castle.subs[s].max = REPEAT_INF
    THEN {t \in Unkilled(s, o) : \A r \in Unkilled(s, o) : t <= r}
    ELSE {t \in Unkilled(s, o) : t + castle.subs[s].max >= o}

\* nfaExecCastle_queueCompressState at the end of the write
EndWrite ==
    /\ pc = "done" \/ (pc = "items" /\ mode = "QR" /\ sp = end)
    /\ packed' = [s \in Subs |->
                    IF \E r \in Active : Slot(r) = s
                    THEN repeatPack(castle.subs[CHOOSE r \in Active : Slot(r) = s],
                                    ctrl[s], end)
                    ELSE NoControl]
    /\ ctrl' = [s \in Subs |-> NoControl]
    /\ base' = end /\ esc' = {} /\ pc' = "between" /\ mode' = "Q" /\ answer' = NoAnswer
    /\ tops' = [s \in Subs |-> Relevant(s, end)]
    /\ fired' = [s \in Subs |-> <<>>]
    /\ UNCHANGED <<castle, active, groups, idx, rstate, end, sp, item>>

\* The bound is reached
Rest == pc = "between" /\ (\A n \in WriteSizes : base + n > castle.bound) /\ UNCHANGED vars

Next ==
    \/ \E n \in WriteSizes, m \in {"Q", "Q2", "QR"} :
          \E e \in SUBSET (0..(n - 1)) : BeginWrite(n, e, m)
    \/ \E l \in sp..end, s \in Subs : Allowed(s, l) /\ NextItem(l, s)
    \/ \E l \in (sp + 1)..(end - 1) : NextItem(l, Stop)
    \/ NextItem(end, MQE_END)
    \/ MatchStep \/ FindStep \/ castleReportCurrent \/ FinishItem
    \/ \E l \in sp..end : StartQR(l)
    \/ \E s \in Subs, o \in sp..end : EventQR(s, o)
    \/ \E report \in Subs \union {MO_INVALID_IDX} : EndQR(report)
    \/ EndWrite \/ Rest

Spec == Init /\ [][Next]_vars

---------------------------------------------------------------------------
(* Properties                                                              *)

\* The reference: o matches if some top that no escape has killed before
\* `now' is at a distance in min..max
MatchesAt(s, o, now) ==
    \E t \in Unkilled(s, now) : o - t >= castle.subs[s].min /\ o - t <= castle.subs[s].max

TypeOK ==
    /\ castle \in Castles
    /\ active \subseteq Subs /\ groups \subseteq DOMAIN idx
    /\ base <= sp /\ sp <= end
    /\ pc \in {"between", "items", "scan", "pending", "qr", "done"}
    /\ \A s \in active : castle.group[s] = 0
    /\ \A g \in groups : idx[g] \in Subs /\ castle.group[idx[g]] = g

\* Every match of every repeat is reported once and in order, and nothing else
\* is: what was fired up to the place reached in the queue is exactly what the
\* tops and escapes of the stream so far demand, whichever model stores the
\* tops, wherever the stream was cut into writes and however the engine is run
\* (nfaExecCastle_Q_i, castleMatchLoop, castleFindMatch, repeatNextMatch*)
FiresExactly ==
    pc \in {"items", "done"} /\ mode # "QR" =>
        \A s \in Subs :
            fired[s] = SetToSortSeq({o \in (base + 1)..sp : MatchesAt(s, o, o)}, <)

\* The representation of an active repeat answers for its tops: at any offset
\* from here on, repeatHasMatch and repeatNextMatch say what the set of tops
\* would say, and "stale" only when no later offset can match.  After expansion
\* from the stream state this is what repeatPack must have preserved
\* (nfa/repeat.c)
AnswersExact ==
    pc \in {"items", "done"} =>
        \A s \in Active : \A o \in sp..(sp + Lesser(castle.subs[s].max, castle.bound) + 1) :
            LET later == {x \in (o + 1)..(2 * castle.bound + 2) : MatchesAt(s, x, sp)}
            IN  /\ (HasMatch(s, o) = "match") <=> MatchesAt(s, o, sp)
                /\ HasMatch(s, o) = "stale" => later = {}
                /\ NextMatch(s, o) = IF later = {} THEN 0 ELSE Min(later)

\* What a leftfix answers is what its tops say, although events before the last
\* escape are skipped and stale repeats are dropped first: pending exactly when
\* the repeat asked for, if any, matches at the end of the queue, dead only when
\* no repeat can match there or later (nfaExecCastle_QR)
LeftfixAnswer ==
    pc = "items" /\ answer.rv # "none" =>
        /\ (answer.rv = "pending") <=>
              answer.report # MO_INVALID_IDX /\ MatchesAt(answer.report, sp, sp)
        /\ answer.rv = "dead" => \A s \in Subs, o \in sp..(sp + castle.bound) : ~MatchesAt(s, o, sp)

\* The asserts on the space of the models: the entries of a RANGE list fit in
\* its slots and ring indices stay inside the ring (rangeListCapacity,
\* repeatStoreRing); and a repeat that is stale never meets a new top in the
\* modes that look for staleness first (castleProcessTop)
WithinCapacity ==
    pc \in {"items", "done"} =>
        \A s \in Active :
            LET i == castle.subs[s] IN
            /\ i.type = "RANGE" => Len(State(s)) <= numRangeSlots(i.min, i.max)
            /\ i.type = "RING" => /\ Control(s).first \in 0..i.max
                                  /\ Control(s).last \in 0..i.max
            /\ i.type = "SPARSE" => /\ Control(s).first \in 0..(i.patchCount - 1)
                                    /\ Control(s).last \in 0..Greater(1, i.patchCount - 1)
            /\ mode # "QR" => HasMatch(s, sp) # "stale"
=============================================================================
