---------------------------- MODULE LogicalComb ----------------------------
(***************************************************************************)
(* Logical combinations: expressions over the sub-expressions of a pattern *)
(* set.  When a sub-expression matches, its key is set in the logical      *)
(* vector and the combinations it occurs in become active; an active       *)
(* combination is evaluated when the scan has moved past the offset of     *)
(* that match, lastCombMatchOffset.  Both vectors belong to the stream;    *)
(* the offset is kept in scratch, which many streams may share.            *)
(***************************************************************************)
EXTENDS Integers, Sequences, FiniteSets, FiniteSetsExt, Functions

CONSTANTS
    Streams,    \* stream handles
    Subs,       \* sub-expressions: their keys are 1 .. lkeyCount
    Ops,        \* the logical tree: key -> [op, lo, ro]
    Combs,      \* combination keys
    CombInfo,   \* combination -> [start, result, min, max]: range of the tree, offsets
    Single,     \* combinations with an exhaustion key
    Engines,    \* [impl, eodWork, boundary, dies, streams]; see rose
    MaxOffset,  \* bound: length of a stream
    MaxLength   \* bound: stream -> its length, at most MaxOffset

(* The operations of a combination are keys in a row, in postfix order: the *)
(* operands of one are sub-expressions or come before it (a negation has    *)
(* its operand twice).                                                      *)
ASSUME TreeAssumption ==
    /\ Subs \subseteq Nat /\ DOMAIN Ops \subseteq Nat /\ Subs \cap DOMAIN Ops = {}
    /\ \A k \in DOMAIN Ops : Ops[k].op \in {"NOT", "AND", "OR"}
    /\ Combs \subseteq Nat /\ IsFiniteSet(Combs) /\ Single \subseteq Combs
    /\ \A c \in Combs :
          /\ CombInfo[c].start \in Nat /\ CombInfo[c].result \in Nat
          /\ CombInfo[c].start <= CombInfo[c].result
          /\ CombInfo[c].min \in Nat /\ CombInfo[c].max \in Nat
          /\ \A k \in CombInfo[c].start .. CombInfo[c].result :
                k \in DOMAIN Ops
                /\ {Ops[k].lo, Ops[k].ro} \subseteq Subs \cup CombInfo[c].start .. (k - 1)
ASSUME RuntimeAssumption ==
    /\ \A e \in Engines : /\ e.impl = "PURE_LITERAL" => ~e.eodWork /\ ~e.dies
                          /\ e.streams \subseteq Streams
                          /\ e.boundary => e.impl = "FULL_ROSE"
    /\ Streams # {} /\ MaxOffset \in Nat /\ MaxLength \in [Streams -> 0 .. MaxOffset]

VARIABLES
    rose,      \* the database: runtimeImpl; whether it has end-of-data work
               \* (requiresEodCheck); whether sub-expressions match in the
               \* end-of-data boundary program; whether its engines can die
               \* before the end of data; and its streams, which share a scratch
    offset,    \* offset[s]: id->offset
    lvec,      \* lvec[s]: sub-expressions that have matched
    cvec,      \* cvec[s]: active combinations
    evec,      \* evec[s]: exhausted combinations
    status,    \* status[s]: subset of {"TERMINATED", "EXHAUSTED"}
    lastComb,  \* tctxt.lastCombMatchOffset
    call,      \* the call in progress: [s, stage, end], stage "idle" if none
    raised,    \* largest offset raised in this call
    matched,   \* matched[s]: [sub, at] found (history variable)
    told,      \* told[s]: sequence of [comb, at] reported (history variable)
    closed     \* streams whose end of data was processed (history variable)

stream == <<offset, lvec, cvec, evec, status>>
vars == <<rose, stream, lastComb, call, raised, matched, told, closed>>

Idle == [s |-> CHOOSE s \in Streams : TRUE, stage |-> "idle", end |-> 0]
TypeOK ==
    /\ rose \in Engines
    /\ offset \in [Streams -> 0 .. MaxOffset]
    /\ lvec \in [Streams -> SUBSET Subs] /\ cvec \in [Streams -> SUBSET Combs]
    /\ evec \in [Streams -> SUBSET Single]
    /\ status \in [Streams -> SUBSET {"TERMINATED", "EXHAUSTED"}]
    /\ lastComb \in 0 .. MaxOffset /\ raised \in 0 .. MaxOffset
    /\ call \in [s : Streams, stage : {"idle", "scan", "boundary", "eod", "last"},
                 end : 0 .. MaxOffset]

-----------------------------------------------------------------------------
(* Evaluation. *)

SubsOf(c) == {k \in Subs : \E o \in CombInfo[c].start .. CombInfo[c].result :
                               k \in {Ops[o].lo, Ops[o].ro}}

(* One operation: `on' are the keys that are true so far. *)
Apply(on, o) ==
    LET holds == CASE Ops[o].op = "NOT" -> Ops[o].ro \notin on
                   [] Ops[o].op = "AND" -> Ops[o].lo \in on /\ Ops[o].ro \in on
                   [] Ops[o].op = "OR"  -> Ops[o].lo \in on \/ Ops[o].ro \in on
    IN  IF holds THEN on \cup {o} ELSE on \ {o}

(* isLogicalCombination runs the range of the tree in order.  The keys of   *)
(* the operations are written before they are read, so nothing is left over *)
(* from one evaluation to the next.                                         *)
isLogicalCombination(lv, c) ==
    LET on[o \in (CombInfo[c].start - 1) .. CombInfo[c].result] ==
            IF o = CombInfo[c].start - 1 THEN lv ELSE Apply(on[o - 1], o)
    IN  CombInfo[c].result \in on[CombInfo[c].result]

(* isPurelyNegativeMatch: fails on the first operand that has matched. *)
isPurelyNegativeMatch(lv, c) == lv \cap SubsOf(c) = {} /\ isLogicalCombination(lv, c)

(* The keys in the order of the loop over the bits. *)
mmbit_iterate(keys) ==
    CHOOSE f \in [1 .. Cardinality(keys) -> keys] : \A i, j \in DOMAIN f : i < j => f[i] < f[j]

(* The reports for combinations cs of stream s, which are true, at one      *)
(* offset, in key order, without the ones out of bounds or exhausted.       *)
Reports(s, cs, at) ==
    LET due == mmbit_iterate({c \in cs : /\ at \in CombInfo[c].min .. CombInfo[c].max
                                          /\ c \notin evec[s]})
    IN  [i \in DOMAIN due |-> [comb |-> due[i], at |-> at]]

-----------------------------------------------------------------------------
(* Delivery: each report may stop the scan. *)

(* The reports rs for stream s, all of them or up to the one whose callback *)
(* stops the scan; that one does not mark its exhaustion key.               *)
Deliver(s, rs, halt) ==
    \E n \in (IF halt THEN 1 .. Len(rs) ELSE {Len(rs)}) :
        /\ told' = [told EXCEPT ![s] = @ \o SubSeq(rs, 1, n)]
        /\ evec' = [evec EXCEPT ![s] =
                      @ \cup ({rs[i].comb : i \in 1 .. (IF halt THEN n - 1 ELSE n)} \cap Single)]

(* flushActiveCombinations, with the scan at offset `at'. *)
flushActiveCombinations(s, at) ==
    Reports(s, {c \in cvec[s] : isLogicalCombination(lvec[s], c)}, lastComb)

checkPurelyNegatives(s, at) ==
    Reports(s, {c \in Combs : isPurelyNegativeMatch(lvec[s], c)}, at)

(* FLUSH_COMBINATION: whether it flushes. *)
Flushes(at) == at > lastComb
Flushed(s, at) == IF Flushes(at) THEN flushActiveCombinations(s, at) ELSE <<>>
StillActive(s, at) == IF Flushes(at) THEN {} ELSE cvec[s]

Stop(s, halt) == [status EXCEPT ![s] = @ \cup (IF halt THEN {"TERMINATED"} ELSE {})]

-----------------------------------------------------------------------------
(* Calls.  Stages of the call on stream s: "scan" is the write, "boundary"  *)
(* the boundary program at end of data, "eod" the engines at end of data,   *)
(* "last" the last flush.                                                   *)

hs_open_stream(s) ==
    /\ call.stage = "idle" /\ s \in closed
    /\ closed' = closed \ {s}
    /\ offset' = [offset EXCEPT ![s] = 0] /\ lvec' = [lvec EXCEPT ![s] = {}]
    /\ cvec' = [cvec EXCEPT ![s] = {}] /\ evec' = [evec EXCEPT ![s] = {}]
    /\ status' = [status EXCEPT ![s] = {}]
    /\ matched' = [matched EXCEPT ![s] = {}] /\ told' = [told EXCEPT ![s] = <<>>]
    /\ UNCHANGED <<rose, lastComb, call, raised>>

(* Mutant: the full runtime does not set the offset either. *)
hs_scan_stream_unset(s, len) ==
    /\ call.stage = "idle" /\ s \notin closed /\ status[s] = {}
    /\ offset[s] + len <= MaxLength[s]
    /\ call' = [s |-> s, stage |-> "scan", end |-> offset[s] + len]
    /\ raised' = offset[s]
    /\ lastComb' = IF offset[s] = 0 THEN offset[s] ELSE lastComb
    /\ UNCHANGED <<rose, stream, matched, told, closed>>

(* roseStreamExec sets the offset for every write, hs_scan_stream_internal  *)
(* only for the first.                                                      *)
hs_scan_stream(s, len) ==
    /\ call.stage = "idle" /\ s \notin closed /\ status[s] = {}
    /\ offset[s] + len <= MaxLength[s]
    /\ call' = [s |-> s, stage |-> "scan", end |-> offset[s] + len]
    /\ raised' = offset[s]
    /\ lastComb' = IF rose.impl = "FULL_ROSE" \/ offset[s] = 0 THEN offset[s] ELSE lastComb
    /\ UNCHANGED <<rose, stream, matched, told, closed>>

RaiseAt == CASE call.stage = "scan"                   -> (offset[call.s] + 1) .. call.end
             [] call.stage = "boundary" /\ rose.boundary   -> {call.end}
             [] call.stage = "eod"                    -> {call.end}
             [] OTHER                                 -> {}

(* The program of a sub-expression: FLUSH_COMBINATION, its own report,      *)
(* SET_LOGICAL and SET_COMBINATION.                                         *)
RaiseSub(sub, at) ==
    LET s == call.s IN
    /\ call.stage # "idle" /\ status[s] = {} /\ at \in RaiseAt /\ at >= raised
    /\ [sub |-> sub, at |-> at] \notin matched[s]
    /\ Deliver(s, Flushed(s, at), FALSE)
    /\ lvec' = [lvec EXCEPT ![s] = @ \cup {sub}]
    /\ lastComb' = at /\ raised' = at
    /\ cvec' = [cvec EXCEPT ![s] = StillActive(s, at) \cup {c \in Combs : sub \in SubsOf(c)}]
    /\ matched' = [matched EXCEPT ![s] = @ \cup {[sub |-> sub, at |-> at]}]
    /\ UNCHANGED <<rose, offset, status, call, closed>>

(* The program is stopped by the callback: in its flush, when the           *)
(* combinations stay active, or by its own report.                          *)
RaiseSubHalted(sub, at, inFlush) ==
    LET s == call.s IN
    /\ call.stage # "idle" /\ status[s] = {} /\ at \in RaiseAt /\ at >= raised
    /\ Deliver(s, Flushed(s, at), inFlush)
    /\ cvec' = [cvec EXCEPT ![s] = IF inFlush THEN @ ELSE StillActive(s, at)]
    /\ status' = Stop(s, TRUE)
    /\ UNCHANGED <<rose, offset, lvec, lastComb, call, raised, matched, closed>>

(* roseCatchUpTo runs the flush program wherever it catches up. *)
roseCatchUpTo(at, halt) ==
    LET s == call.s IN
    /\ rose.impl = "FULL_ROSE" /\ call.stage = "scan" /\ status[s] = {}
    /\ raised < at /\ at <= call.end
    /\ Deliver(s, Flushed(s, at), halt)
    /\ cvec' = [cvec EXCEPT ![s] = IF halt THEN @ ELSE StillActive(s, at)]
    /\ status' = Stop(s, halt)
    /\ raised' = at
    /\ UNCHANGED <<rose, offset, lvec, lastComb, call, matched, closed>>

(* The write is over; the full runtime has caught up to its end.  Engines   *)
(* that died leave the stream exhausted.                                    *)
EndScan(dead) ==
    LET s == call.s IN
    /\ call.stage = "scan" /\ (rose.impl = "FULL_ROSE" /\ status[s] = {} => raised = call.end)
    /\ dead => rose.dies /\ status[s] = {}
    /\ status' = [status EXCEPT ![s] = @ \cup (IF dead THEN {"EXHAUSTED"} ELSE {})]
    /\ offset' = [offset EXCEPT ![s] = IF status'[s] = {} THEN call.end ELSE @]
    /\ call' = Idle
    /\ UNCHANGED <<rose, lvec, cvec, evec, lastComb, raised, matched, told, closed>>

(* report_eod_matches does nothing for a stream that is over. *)
report_eod_matches(s) ==
    /\ call.stage = "idle" /\ s \notin closed
    /\ IF status[s] # {}
       THEN closed' = closed \cup {s} /\ UNCHANGED <<lastComb, call, raised>>
       ELSE /\ call' = [s |-> s, stage |-> "boundary", end |-> offset[s]]
            /\ raised' = offset[s]
            /\ lastComb' = IF offset[s] = 0 THEN offset[s] ELSE lastComb
            /\ UNCHANGED closed
    /\ UNCHANGED <<rose, stream, matched, told>>

(* roseStreamInitEod, or the sole outfix, when there is work at end of data. *)
StartEod ==
    LET works == rose.eodWork /\ call.end > 0 IN
    /\ call.stage = "boundary" /\ status[call.s] = {}
    /\ call' = [call EXCEPT !.stage = IF works THEN "eod" ELSE "last"]
    /\ lastComb' = IF works /\ rose.impl = "FULL_ROSE" THEN call.end ELSE lastComb
    /\ UNCHANGED <<rose, stream, raised, matched, told, closed>>

(* Mutant: active combinations are not flushed at end of data. *)
LastFlush_negative(halt) ==
    LET s == call.s IN
    /\ call.stage \in {"eod", "last"} /\ status[s] = {}
    /\ Deliver(s, checkPurelyNegatives(s, call.end), halt)
    /\ cvec' = [cvec EXCEPT ![s] = IF halt THEN @ ELSE {}]
    /\ status' = Stop(s, halt)
    /\ call' = Idle /\ closed' = closed \cup {s}
    /\ UNCHANGED <<rose, offset, lvec, lastComb, raised, matched>>

(* LAST_FLUSH_COMBINATION: flush, then checkPurelyNegatives. *)
LastFlush(halt) ==
    LET s == call.s IN
    /\ call.stage \in {"eod", "last"} /\ status[s] = {}
    /\ Deliver(s, flushActiveCombinations(s, call.end)
                  \o checkPurelyNegatives(s, call.end), halt)
    /\ cvec' = [cvec EXCEPT ![s] = IF halt THEN @ ELSE {}]
    /\ status' = Stop(s, halt)
    /\ call' = Idle /\ closed' = closed \cup {s}
    /\ UNCHANGED <<rose, offset, lvec, lastComb, raised, matched>>

(* A stop at end of data skips the last flush. *)
EodHalted ==
    /\ call.stage \in {"boundary", "eod"} /\ status[call.s] # {}
    /\ call' = Idle /\ closed' = closed \cup {call.s}
    /\ UNCHANGED <<rose, stream, lastComb, raised, matched, told>>

-----------------------------------------------------------------------------
Init ==
    /\ rose \in Engines
    /\ offset = [s \in Streams |-> 0] /\ lvec = [s \in Streams |-> {}]
    /\ cvec = [s \in Streams |-> {}] /\ evec = [s \in Streams |-> {}]
    /\ status = [s \in Streams |-> {}]
    /\ lastComb = 0 /\ call = Idle /\ raised = 0
    /\ matched = [s \in Streams |-> {}] /\ told = [s \in Streams |-> <<>>]
    /\ closed = {}

Next ==
    \/ \E s \in rose.streams :
          \/ hs_open_stream(s) \/ report_eod_matches(s)
          \/ \E len \in 1 .. MaxOffset : hs_scan_stream(s, len)
    \/ \E sub \in Subs, at \in 0 .. MaxOffset :
          RaiseSub(sub, at) \/ \E inFlush \in BOOLEAN : RaiseSubHalted(sub, at, inFlush)
    \/ \E at \in 0 .. MaxOffset, halt \in BOOLEAN : roseCatchUpTo(at, halt)
    \/ \E dead \in BOOLEAN : EndScan(dead)
    \/ StartEod \/ EodHalted \/ \E halt \in BOOLEAN : LastFlush(halt)

Spec == Init /\ [][Next]_vars

-----------------------------------------------------------------------------
(* Reference: the value of a combination when exactly S have matched. *)
Truth(c, S) ==
    LET val[k \in Subs \cup CombInfo[c].start .. CombInfo[c].result] ==
            IF k \in Subs THEN k \in S
            ELSE CASE Ops[k].op = "NOT" -> ~val[Ops[k].ro]
                   [] Ops[k].op = "AND" -> val[Ops[k].lo] /\ val[Ops[k].ro]
                   [] Ops[k].op = "OR"  -> val[Ops[k].lo] \/ val[Ops[k].ro]
    IN  val[CombInfo[c].result]

MatchedBy(s, at) == {m.sub : m \in {k \in matched[s] : k.at <= at}}
MatchOffsets(s, c) == {m.at : m \in {k \in matched[s] : k.sub \in SubsOf(c)}}
NoneMatched(s, c) == MatchOffsets(s, c) = {}

(* A combination is reported only at an offset where one of its             *)
(* sub-expressions matches, or at end of data if none did                   *)
(* (flushActiveCombinations reports at lastCombMatchOffset).                *)
CombinationOffsets ==
    \A s \in Streams : \A i \in DOMAIN told[s] :
        LET r == told[s][i] IN
        r.at \in MatchOffsets(s, r.comb) \/ (NoneMatched(s, r.comb) /\ r.at = offset[s])

(* After its end of data a stream that was not stopped has reported each    *)
(* combination at exactly the offsets where a sub-expression matched and    *)
(* the value was true (within its min and max offset), once each; one with  *)
(* an exhaustion key only at the first.                                     *)
ExactCombinations ==
    \A s \in closed : status[s] = {} =>
        /\ IsInjective(told[s])
        /\ \A c \in Combs :
              LET due == CombInfo[c].min .. CombInfo[c].max \cap
                             ({at \in MatchOffsets(s, c) : Truth(c, MatchedBy(s, at))} \cup
                              {at \in {offset[s]} : NoneMatched(s, c) /\ Truth(c, {})})
                  got == {told[s][i].at : i \in {j \in DOMAIN told[s] : told[s][j].comb = c}}
              IN  got = IF c \in Single /\ due # {} THEN {Min(due)} ELSE due

(* A combination that is true when nothing has matched is reported at end   *)
(* of data if none of its sub-expressions matched (checkPurelyNegatives).   *)
NegativesTold ==
    \A s \in closed, c \in Combs :
        ("TERMINATED" \notin status[s] /\ NoneMatched(s, c) /\ Truth(c, {})
         /\ offset[s] \in CombInfo[c].min .. CombInfo[c].max)
            => \E i \in DOMAIN told[s] : told[s][i].comb = c
=============================================================================
