--------------------------- MODULE DelayedLiterals ---------------------------
(***************************************************************************)
(* The two queues of literal matches that the Rose runtime keeps in        *)
(* scratch during a streaming scan.                                        *)
(*                                                                         *)
(* A literal of the floating table may have a delayed version, to be       *)
(* played a fixed number of bytes after it: it waits in a ring of          *)
(* SlotCount slots (DELAY_SLOT_COUNT), which the runtime empties as the    *)
(* scan moves on.  The matches of the anchored table are found by a scan   *)
(* of their own, before the floating one, and wait in a log with a row for *)
(* each offset.  Neither queue is part of the stream state: at the start   *)
(* of a write the ring is rebuilt by rescanning the history.               *)
(***************************************************************************)
EXTENDS Integers, Sequences, FiniteSets, FiniteSetsExt, SequencesExt

CONSTANTS
    SlotCount,     \* DELAY_SLOT_COUNT
    Databases,     \* the databases considered; see db
    LitLength,     \* length of every floating literal
    MaxOffset,     \* bound: length of the stream
    MaxHits        \* bound: literal matches in the stream

ASSUME SlotAssumption ==
    /\ SlotCount \in Nat \ {0}
    /\ \A d \in Databases :
          /\ d.floating \subseteq Nat /\ d.anchored \subseteq Nat
          /\ d.delay \in [d.floating -> 0 .. (SlotCount - 1)]
          /\ {d.anchoredDistance, d.maxDelayed} \subseteq Nat /\ d.floatMin \in Nat \ {0}
ASSUME DistanceAssumption ==
    LitLength \in Nat \ {0} /\ {MaxOffset, MaxHits} \subseteq Nat

VARIABLES
    db,       \* the database of the stream
    offset,   \* id->offset: end of the last write
    end,      \* end of the write in progress
    phase,    \* "idle", or the part of roseStreamExec that runs
    dirty,    \* STATUS_DELAY_DIRTY
    halted,   \* the stream was stopped by a callback
    filled,   \* tctxt.filledDelayedSlots
    slots,    \* the delay slots
    lastEnd,  \* tctxt.delayLastEndOffset
    lastPos,  \* tctxt.lastEndOffset
    alSum,    \* al_log_sum: offsets with a row in the anchored log
    rows,     \* the anchored literal log
    hits,     \* literal matches found in the stream (history variable)
    played    \* literal programs run, in order (history variable)

ring == <<filled, slots, lastEnd>>
anchoredLog == <<alSum, rows>>
vars == <<db, offset, end, phase, dirty, halted, ring, lastPos, anchoredLog, hits, played>>

Floating == db.floating                \* literals of the floating table
Delay == db.delay                      \* delay of their delayed versions, 0 if none
Anchored == db.anchored                \* literals of the anchored table
AnchoredDist == db.anchoredDistance    \* the anchored table runs on these bytes
FloatMin == db.floatMin                \* floatingMinLiteralMatchOffset
MaxDelayed == db.maxDelayed            \* maxFloatingDelayedMatch

Offsets == 0 .. MaxOffset
Slots == 0 .. (SlotCount - 1)
Delayed == {l \in Floating : Delay[l] > 0}
Hit == [table : {"anchored", "floating"}, id : Anchored \cup Floating, at : Offsets]
Play(table, id, at) == [table |-> table, id |-> id, at |-> at]

TypeOK ==
    /\ db \in Databases
    /\ offset \in Offsets /\ end \in Offsets
    /\ phase \in {"idle", "anchored", "rebuild", "floating"}
    /\ dirty \in BOOLEAN /\ halted \in BOOLEAN
    /\ filled \subseteq Slots /\ slots \in [Slots -> SUBSET Delayed]
    /\ lastEnd \in Offsets /\ lastPos \in Offsets
    /\ alSum \subseteq 1 .. AnchoredDist
    /\ rows \in [1 .. AnchoredDist -> SUBSET Anchored]
    /\ hits \subseteq Hit

-----------------------------------------------------------------------------
(* The ring. *)

Due(h) == h.at + Delay[h.id]

(* rosePushDelayedMatch for a set of matches, one after another: one that   *)
(* was due at `last' or before is dropped, and a slot is cleared when it is *)
(* filled for the first time.                                               *)
rosePushDelayedMatch(hs, last, fill) ==
    LET in(s) == {h \in hs : h.id \in Delayed /\ Due(h) > last /\ Due(h) % SlotCount = s}
    IN  /\ filled' = fill \cup {s \in Slots : in(s) # {}}
        /\ slots' = [s \in Slots |->
                        IF in(s) = {} THEN slots[s]
                        ELSE {h.id : h \in in(s)} \cup (IF s \in fill THEN slots[s] ELSE {})]

(* Mutant: the second half is not cut at the current index. *)
Victims_uncut(last, curr) ==
    LET lastIndex == last % SlotCount
        wrapped == last - lastIndex + SlotCount - 1 < curr
    IN  IF ~wrapped
        THEN {s \in filled : lastIndex < s /\ s <= curr % SlotCount}
        ELSE {s \in filled : lastIndex < s}
             \cup {s + SlotCount : s \in {x \in filled : x <= lastIndex}}

(* The slots flushQueuedLiterals_i plays when the scan moves from last to   *)
(* curr, as offsets from the start of last's turn of the ring.              *)
Victims(last, curr) ==
    LET lastIndex == last % SlotCount
        wrapped == last - lastIndex + SlotCount - 1 < curr
        first == {s \in filled : lastIndex < s}
        second == {s \in filled : s <= lastIndex
                                  /\ (curr > last + SlotCount \/ s <= curr % SlotCount)}
    IN  IF ~wrapped
        THEN {s \in first : s <= curr % SlotCount}
        ELSE first \cup {s + SlotCount : s \in second}

(* playDelaySlot *)
playDelaySlot(slot, at) ==
    IF at < FloatMin THEN <<>>
    ELSE LET ids == SetToSortSeq(slots[slot], <)
         IN  [i \in DOMAIN ids |-> Play("delayed", ids[i], at)]

(* flushAnchoredLiterals, from one position to another. *)
flushAnchoredLiterals(from, to) ==
    LET ends == SetToSortSeq({e \in alSum : from < e /\ e <= to}, <)
        row(e) == LET ids == SetToSortSeq(rows[e], <)
                  IN  [i \in DOMAIN ids |-> Play("anchored", ids[i], e)]
    IN  FlattenSeq([i \in DOMAIN ends |-> row(ends[i])])

-----------------------------------------------------------------------------
(* Flushing. *)

(* playVictims and the anchored leftovers: before each slot come the        *)
(* anchored matches up to its offset.                                       *)
playVictims(victims, turn, curr) ==
    LET vic == SetToSortSeq(victims, <)
        at(i) == IF i = 0 THEN lastPos ELSE Max({lastPos, turn + vic[i]})
    IN  FlattenSeq([i \in DOMAIN vic |->
                        flushAnchoredLiterals(at(i - 1), turn + vic[i])
                        \o playDelaySlot(vic[i] % SlotCount, turn + vic[i])])
        \o flushAnchoredLiterals(at(Len(vic)), curr)

(* flushQueuedLiterals up to curr, followed by the caller's programs.  A    *)
(* program may stop the scan: then nothing after it is played, and what is  *)
(* left in the queues is forgotten by the next call that uses the scratch.  *)
flushQueuedLiterals(curr, programs, halt) ==
    LET turn == SlotCount * (lastEnd \div SlotCount)
        plan == IF lastEnd = curr THEN programs
                ELSE playVictims(Victims(lastEnd, curr), turn, curr) \o programs
    IN  /\ \E n \in (IF halt THEN 1 .. Len(plan) ELSE {Len(plan)}) :
               played' = played \o SubSeq(plan, 1, n)
        /\ alSum' = IF lastEnd = curr THEN alSum
                    ELSE {e \in alSum : e <= lastPos \/ e > curr}
        /\ UNCHANGED rows

(* filledDelayedSlots after the flush. *)
Unplayed(curr) ==
    IF lastEnd = curr THEN filled
    ELSE filled \ {v % SlotCount : v \in Victims(lastEnd, curr)}

-----------------------------------------------------------------------------
(* Mutant: the last byte of the previous write is flushed again. *)
roseStreamExec_again(len) ==
    /\ phase = "idle" /\ ~halted /\ offset + len <= MaxOffset
    /\ phase' = IF offset < AnchoredDist THEN "anchored" ELSE "rebuild"
    /\ end' = offset + len
    /\ filled' = {} /\ lastEnd' = Max({0, offset - 1}) /\ lastPos' = offset /\ alSum' = {}
    /\ UNCHANGED <<db, offset, dirty, halted, slots, rows, hits, played>>

(* roseStreamExec, up to the anchored scan. *)
roseStreamExec(len) ==
    /\ phase = "idle" /\ ~halted /\ offset + len <= MaxOffset
    /\ phase' = IF offset < AnchoredDist THEN "anchored" ELSE "rebuild"
    /\ end' = offset + len
    /\ filled' = {} /\ lastEnd' = offset /\ lastPos' = offset /\ alSum' = {}
    /\ UNCHANGED <<db, offset, dirty, halted, slots, rows, hits, played>>

(* The user resets the stream, or scans another with the same scratch. *)
hs_reset_stream ==
    /\ phase = "idle"
    /\ offset' = 0 /\ dirty' = FALSE /\ halted' = FALSE
    /\ hits' = {} /\ played' = <<>>
    /\ UNCHANGED <<db, end, phase, ring, lastPos, anchoredLog>>

Hits(table) == {h \in hits : h.table = table}

(* A match of the anchored table.  Several anchored automata run one after  *)
(* another, each from the start: then FloatMin is 1 and all is logged.      *)
NewAnchoredHit(id, at) ==
    /\ phase = "anchored" /\ offset < at /\ at <= end /\ at <= AnchoredDist
    /\ Play("anchored", id, at) \notin hits /\ Cardinality(hits) < MaxHits
    /\ FloatMin > 1 => \A h \in Hits("anchored") : h.at <= at
    /\ hits' = hits \cup {Play("anchored", id, at)}

(* roseAnchoredCallback before the floating table can match: run now. *)
roseAnchoredCallback(id, at, halt) ==
    /\ NewAnchoredHit(id, at) /\ at <= FloatMin
    /\ lastPos' = at
    /\ played' = Append(played, Play("anchored", id, at))
    /\ halted' = halt /\ phase' = IF halt THEN "idle" ELSE phase
    /\ UNCHANGED <<db, offset, end, dirty, ring, anchoredLog>>

(* recordAnchoredLiteralMatch: log it, in a row cleared on first use. *)
recordAnchoredLiteralMatch(id, at) ==
    /\ NewAnchoredHit(id, at) /\ at > FloatMin
    /\ alSum' = alSum \cup {at}
    /\ rows' = [rows EXCEPT ![at] = IF at \in alSum THEN @ \cup {id} ELSE {id}]
    /\ UNCHANGED <<db, offset, end, phase, dirty, halted, ring, lastPos, played>>

EndAnchored ==
    /\ phase = "anchored" /\ phase' = "rebuild"
    /\ UNCHANGED <<db, offset, end, dirty, halted, ring, lastPos, anchoredLog, hits, played>>

(* Mutant: one byte short. *)
delayRebuildLength_short == Max({0} \cup {LitLength + Delay[l] - 2 : l \in Delayed})

(* fillMatcherDistances: the longest history a delayed literal needs. *)
delayRebuildLength == Max({0} \cup {LitLength + Delay[l] - 1 : l \in Delayed})

(* do_rebuild when the ring was left dirty by the last write: rescan the    *)
(* history for whole literals.                                              *)
do_rebuild ==
    LET start == offset - Min({offset, delayRebuildLength})
    IN  /\ phase = "rebuild" /\ phase' = "floating"
        /\ IF dirty /\ offset > start /\ offset < MaxDelayed
           THEN /\ dirty' = FALSE
                /\ rosePushDelayedMatch({h \in Hits("floating") : h.at - LitLength >= start},
                                        lastEnd, filled)
           ELSE UNCHANGED <<dirty, filled, slots>>
        /\ UNCHANGED <<db, offset, end, halted, lastEnd, lastPos, anchoredLog, hits, played>>

(* roseFloatingCallback: flush, then run the literal's program, which       *)
(* pushes its delayed version and then ignores a match that is too early.   *)
roseFloatingCallback(id, at, halt) ==
    LET hit == Play("floating", id, at)
    IN  /\ phase = "floating" /\ offset < at /\ at <= end /\ at >= lastEnd /\ at >= LitLength
        /\ hit \notin hits /\ Cardinality(hits) < MaxHits
        /\ hits' = hits \cup {hit}
        /\ flushQueuedLiterals(at, IF at < FloatMin THEN <<>> ELSE <<hit>>, halt)
        /\ rosePushDelayedMatch({hit}, at, Unplayed(at))
        /\ lastEnd' = at
        /\ lastPos' = IF at >= FloatMin THEN at ELSE lastPos
        /\ halted' = halt /\ phase' = IF halt THEN "idle" ELSE phase
        /\ UNCHANGED <<db, offset, end, dirty>>

(* The end of the write: flush up to it, and remember in the stream whether *)
(* the ring has to be rebuilt.                                              *)
cleanUpDelayed(halt) ==
    /\ phase = "floating" /\ phase' = "idle"
    /\ flushQueuedLiterals(end, <<>>, halt)
    /\ halted' = halt
    /\ dirty' = IF halt THEN dirty ELSE Unplayed(end) # {}
    /\ filled' = {} /\ lastEnd' = offset /\ lastPos' = end
    /\ offset' = IF halt THEN offset ELSE end
    /\ UNCHANGED <<db, end, slots, hits>>

-----------------------------------------------------------------------------
Init ==
    /\ db \in Databases
    /\ offset = 0 /\ end = 0 /\ phase = "idle" /\ dirty = FALSE /\ halted = FALSE
    /\ filled = {} /\ slots = [s \in Slots |-> {}] /\ lastEnd = 0 /\ lastPos = 0
    /\ alSum = {} /\ rows = [e \in 1 .. AnchoredDist |-> {}]
    /\ hits = {} /\ played = <<>>

Next ==
    \/ \E len \in 1 .. MaxOffset : roseStreamExec(len)
    \/ hs_reset_stream \/ EndAnchored \/ do_rebuild
    \/ \E id \in Anchored, at \in Offsets :
          \/ recordAnchoredLiteralMatch(id, at)
          \/ \E halt \in BOOLEAN : roseAnchoredCallback(id, at, halt)
    \/ \E id \in Floating, at \in Offsets, halt \in BOOLEAN :
          roseFloatingCallback(id, at, halt)
    \/ \E halt \in BOOLEAN : cleanUpDelayed(halt)

Spec == Init /\ [][Next]_vars

-----------------------------------------------------------------------------
(* Literal programs run in the order of their offsets; at one offset, the   *)
(* anchored ones come first and the delayed ones before the floating ones   *)
(* (flushQueuedLiterals before every floating match).                       *)
PlayedInOrder ==
    LET rank(p) == CASE p.table = "anchored" -> 0
                     [] p.table = "delayed"  -> 1
                     [] p.table = "floating" -> 2
    IN  \A i, j \in DOMAIN played : i < j =>
            \/ played[i].at < played[j].at
            \/ played[i].at = played[j].at /\ rank(played[i]) <= rank(played[j])

(* No literal program runs twice for one match, although the ring is        *)
(* rebuilt from history that held matches played long ago.                  *)
PlayedOnce == IsInjective(played)

(* When a write is over, everything that was due has been played, and       *)
(* nothing else: anchored matches from the log, floating matches, and       *)
(* delayed matches at their offset plus the delay, whichever write they     *)
(* fall into and however the scan jumps around the ring.                    *)
EveryMatchPlayed ==
    (phase = "idle" /\ ~halted) =>
        LET direct == Hits("anchored") \cup {h \in Hits("floating") : h.at >= FloatMin}
            delayed == {Play("delayed", h.id, Due(h)) :
                           h \in {k \in Hits("floating") : /\ k.id \in Delayed /\ Due(k) <= offset
                                                          /\ Due(k) >= FloatMin}}
        IN  /\ direct \cup {p \in delayed : p.at <= MaxDelayed} \subseteq Range(played)
            /\ Range(played) \subseteq direct \cup delayed
=============================================================================
