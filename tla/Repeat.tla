------------------------------ MODULE Repeat ------------------------------
(***************************************************************************)
(* The bounded repeat models of nfa/repeat.c and nfa/repeat.h.  A repeat   *)
(* R{min,max} is told its tops (the offsets where the repeat begins) and   *)
(* asked whether it matches at an offset and where it matches next.  It    *)
(* does not keep the set of tops: each model has a representation of its   *)
(* own, a control block `c' (in scratch, packed into the stream state      *)
(* between writes) and a repeat state `st' (always in the stream state).   *)
(* A multibit or a bitmap is the set of its bits that are on.              *)
(***************************************************************************)
EXTENDS Integers, Sequences, FiniteSets, FiniteSetsExt, SequencesExt

CONSTANTS
    WordBits,   \* bits of a bitmap word (64 in the code)
    ByteBits    \* bits of a byte of the packed control block (8 in the code)

ASSUME WidthAssumption == /\ WordBits \in Nat \ {0}
                          /\ ByteBits \in Nat \ {0}

REPEAT_INF == 65535
MMB_INVALID == -1
NoState == {}

Lesser(a, b) == IF a < b THEN a ELSE b
Greater(a, b) == IF a > b THEN a ELSE b

\* mmbit_iterate_bounded: the first bit in begin..end-1
FirstIn(bits, begin, end) ==
    IF bits \intersect (begin..(end - 1)) = {} THEN MMB_INVALID
    ELSE Min(bits \intersect (begin..(end - 1)))

Shl(bits, n) == {b + n : b \in bits} \intersect (0..(WordBits - 1))
Shr(bits, n) == {b - n : b \in bits} \intersect (0..(WordBits - 1))
mask_ones_to(v) == 0..Lesser(v, WordBits - 1)

---------------------------------------------------------------------------
(* What the compiler decides about a repeat (repeatcompile.cpp).           *)

calcPackedBits(val) == Min({b \in 1..30 : val <= 2^b})
calcPackedBytes(val) == (calcPackedBits(val) + ByteBits - 1) \div ByteBits

numRangeSlots(min, max) == 2 * ((max \div (max - min)) + 1)

\* table[i]: how many sets of tops, at least `period' apart, fit before i
repeatRecurTable(max, period) ==
    LET T[i \in 0..max] == IF i <= period THEN i + 1 ELSE T[i - 1] + T[i - period]
    IN  T

PatchCountFor(max, i) == (max + (i - 1)) \div i + 1
findOptimalPatchSize(max, period, table) ==
    LET Size == [i \in period..max |->
                    calcPackedBytes(table[i]) * PatchCountFor(max, i)]
    IN  Min({i \in period..max : \A j \in period..max : Size[i] <= Size[j]})

\* Mutant: the packed offset of a ring only reaches back to repeatMax
Horizon_short(type, min, max, patches) ==
    CASE type = "FIRST" -> min
      [] type \in {"LAST", "TRAILER", "RING", "RANGE"} -> max + 1
      [] type = "SPARSE" -> patches * 2 + 1
      [] OTHER -> 0

Horizon(type, min, max, patches) ==
    CASE type = "FIRST" -> min
      [] type \in {"LAST", "TRAILER"} -> max + 1
      [] type \in {"RING", "RANGE"} -> max * 2 + 1
      [] type = "SPARSE" -> patches * 2 + 1
      [] OTHER -> 0

\* The RepeatStateInfo of a repeat; period is used by the SPARSE model only
SparseStateInfo(min, max, period, table, size, count) ==
    [type |-> "SPARSE", min |-> min, max |-> max, period |-> period,
     patchSize |-> size, patchCount |-> count, table |-> table,
     encodingSize |-> calcPackedBytes(table[size]),
     horizon |-> Horizon("SPARSE", min, max, size * count)]

\* Tops further apart than max need a single patch
RepeatStateInfo(type, min, max, period) ==
    IF type = "SPARSE"
    THEN LET table == repeatRecurTable(max, period)
             size == IF max < period THEN max ELSE findOptimalPatchSize(max, period, table)
         IN  SparseStateInfo(min, max, period, table, size,
                             IF max < period THEN 1 ELSE PatchCountFor(max, size))
    ELSE [type |-> type, min |-> min, max |-> max,
          horizon |-> Horizon(type, min, max, 0)]

---------------------------------------------------------------------------
(* RING: a multibit with one bit for each offset from c.offset on.         *)

ringCapacity(i) == i.max + 1

ringOccupancy(c, size) ==
    IF c.last > c.first THEN c.last - c.first ELSE size - (c.first - c.last)

ringLastTop(c, size) == c.offset + ringOccupancy(c, size) - 1
Wrap(x, size) == IF x >= size THEN x - size ELSE x

storeInitialRingTop(o) == [c |-> [offset |-> o, first |-> 0, last |-> 1], st |-> {0}]

\* Mutant: the index after the last entry is not wrapped
RingAppend_nowrap(c, st, o, push, size) ==
    LET i == c.last + (o - c.offset - ringOccupancy(c, size))
    IN  [c |-> [offset |-> c.offset + push, first |-> Wrap(c.first + push, size),
                last |-> Wrap(i, size) + 1],
         st |-> (st \ {Wrap(j, size) : j \in c.last..(i - 1)}) \union {Wrap(i, size)}]

\* Writes a run of zeroes and a one after `push' old entries were dropped
RingAppend(c, st, o, push, size) ==
    LET i == c.last + (o - c.offset - ringOccupancy(c, size))
        last == Wrap(i, size) + 1
    IN  [c |-> [offset |-> c.offset + push,
                first |-> Wrap(c.first + push, size),
                last |-> IF last = size THEN 0 ELSE last],
         st |-> (st \ {Wrap(j, size) : j \in c.last..(i - 1)}) \union {Wrap(i, size)}]

repeatStoreRing(i, c, st, o, alive, size) ==
    IF ~alive \/ o - ringLastTop(c, size) >= size
    THEN storeInitialRingTop(o)
    ELSE RingAppend(c, st, o, Greater(0, o - c.offset - size + 1), size)

\* The first of the two scans from `begin' to the last entry that finds a bit
RingScan(c, st, begin, lower, size) ==
    LET i == FirstIn(st, begin, IF begin >= c.last THEN size ELSE c.last)
        k == IF begin >= c.last THEN FirstIn(st, 0, c.last) ELSE MMB_INVALID
    IN  CASE i # MMB_INVALID -> i - begin + lower
          [] i = MMB_INVALID /\ k # MMB_INVALID -> k + (size - begin) + lower
          [] OTHER -> MMB_INVALID

RingMatchFrom(i, c, o, j) ==
    IF j = MMB_INVALID THEN 0 ELSE Greater(o, c.offset + j + i.min)

\* o is the offset after the one asked about
RingNext(i, c, st, o, size) ==
    CASE o < c.offset + i.min -> c.offset + i.min
      [] o >= c.offset + i.min /\ o > ringLastTop(c, size) + i.max -> 0
      [] OTHER ->
           LET lower == Greater(0, o - c.offset - i.max)
           IN  RingMatchFrom(i, c, o,
                   RingScan(c, st, Wrap(c.first + lower, size), lower, size))

\* Bits lower..upper-1, counted from the first entry
ringHasMatch(c, st, size, lower, upper) ==
    \E j \in lower..(upper - 1) : Wrap(c.first + j, size) \in st

repeatHasMatchRing(i, c, st, o, size) ==
    CASE o - c.offset < i.min -> "nomatch"
      [] o - c.offset >= i.min /\ o - ringLastTop(c, size) >= size -> "stale"
      [] OTHER ->
           IF ringHasMatch(c, st, size, Greater(0, o - c.offset - i.max),
                  Lesser(o - c.offset - i.min + 1, ringOccupancy(c, size)))
           THEN "match" ELSE "nomatch"

---------------------------------------------------------------------------
(* RANGE: a list of tops, relative to c.offset, of which those that add no *)
(* match of their own are dropped.                                         *)

storeInitialRangeTop(o) == [c |-> [offset |-> o, num |-> 1], st |-> <<0>>]

\* The entry before the last one covers the offsets up to the new top's matches
Replaceable(i, list, rel) ==
    /\ Len(list) >= 2
    /\ rel - list[Len(list) - 1] <= i.max - i.min

RangeAppend(i, list, rel) ==
    IF Replaceable(i, list, rel) THEN [list EXCEPT ![Len(list)] = rel]
    ELSE Append(list, rel)

\* live: the entries that are not stale, relative to the first of them
RangeStore(i, base, live, o) ==
    LET list == RangeAppend(i, [k \in 1..Len(live) |-> live[k] - live[1]],
                            o - base - live[1])
    IN  [c |-> [offset |-> base + live[1], num |-> Len(list)], st |-> list]

repeatStoreRange(i, c, st, o, alive) ==
    IF ~alive THEN storeInitialRangeTop(o)
    ELSE LET live == SelectSeq(st, LAMBDA x : o - (c.offset + x) <= i.max)
         IN  IF live = <<>> THEN storeInitialRangeTop(o)
             ELSE RangeStore(i, c.offset, live, o)

\* Both list walks of the RANGE and BITMAP models: tops in increasing order
NextOf(i, tops, o) ==
    LET useful == {t \in tops : o < t + i.min \/ o < t + i.max}
    IN  CASE useful = {} -> 0
          [] useful # {} /\ o < Min(useful) + i.min -> Min(useful) + i.min
          [] OTHER -> o + 1

HasOf(i, base, tops, o) ==
    CASE o - base < i.min -> "nomatch"
      [] o - base >= i.min /\ o - Max(tops) > i.max -> "stale"
      [] OTHER -> IF \E t \in tops : o - t >= i.min /\ o - t <= i.max
                  THEN "match" ELSE "nomatch"

RangeTops(c, st) == {c.offset + st[k] : k \in 1..c.num}

---------------------------------------------------------------------------
(* BITMAP: bit b is the top c.offset + b.                                  *)

BitmapTops(c) == {c.offset + b : b \in c.bitmap}

BitmapRebase(i, c, o) ==
    LET push == Greater(0, o - c.offset - i.max)
    IN  [offset |-> c.offset + push, bitmap |-> Shr(c.bitmap, push)]

BitmapSet(c, o) == [c EXCEPT !.bitmap = @ \union Shl({0}, o - c.offset)]

repeatStoreBitmap(i, c, o, alive) ==
    IF ~alive \/ c.bitmap = {} \/ o > Max(BitmapTops(c)) + i.max
    THEN [offset |-> o, bitmap |-> {0}]
    ELSE BitmapSet(BitmapRebase(i, c, o), o)

---------------------------------------------------------------------------
(* TRAILER: c.offset is where the matches of the last top begin, bit b of  *)
(* the bitmap is a match at c.offset - b - 1 of an earlier top.            *)

TrailerBits(i, c, diff, width) ==
    Shl(c.bitmap, diff) \union
    (IF diff <= width THEN mask_ones_to(diff - 1)
     ELSE Shl(mask_ones_to(width), diff - width - 1))

repeatStoreTrailer(i, c, o, alive) ==
    IF ~alive THEN [offset |-> o + i.min, bitmap |-> {}]
    ELSE [offset |-> o + i.min,
          bitmap |-> TrailerBits(i, c, o + i.min - c.offset, i.max - i.min)
                        \intersect mask_ones_to(i.min)]

\* early: the matches of earlier tops after the offset asked about
TrailerNext(i, c, o, early) ==
    CASE o >= c.offset + (i.max - i.min) -> 0
      [] o >= c.offset /\ o < c.offset + (i.max - i.min) -> o + 1
      [] OTHER -> IF early = {} THEN c.offset ELSE c.offset - Max(early) - 1

repeatNextMatchTrailer(i, c, o) ==
    TrailerNext(i, c, o, IF c.offset - o <= WordBits
                         THEN c.bitmap \intersect (0..(c.offset - o - 2))
                         ELSE c.bitmap)

repeatHasMatchTrailer(i, c, o) ==
    CASE o > c.offset + (i.max - i.min) -> "stale"
      [] o >= c.offset /\ o <= c.offset + (i.max - i.min) -> "match"
      [] OTHER -> IF o >= c.offset - i.min /\ (c.offset - o - 1) \in c.bitmap
                  THEN "match" ELSE "nomatch"

---------------------------------------------------------------------------
(* SPARSE_OPTIMAL_P: tops are at least `period' apart.  The offsets are    *)
(* cut into patches; a patch is one number, the sum of table[d] over the   *)
(* distances d of its tops from its begin.                                 *)

storeInitialRingTopPatch(i, o) ==
    [c |-> [offset |-> o, first |-> 0, last |-> 1],
     st |-> [active |-> {0}, val |-> [p \in 0..(i.patchCount - 1) |-> IF p = 0 THEN 1 ELSE 0]]]

\* One turn of the loop of getSparseOptimalTargetValue: distance patchSize - k
TargetStep(i, acc, k) ==
    IF k < acc.next \/ acc.val < i.table[i.patchSize - k] THEN acc
    ELSE [val |-> acc.val - i.table[i.patchSize - k], loc |-> k, next |-> k + i.period]

\* Takes the tops at distance >= tval out of val, the last ones first; loc
\* counts from the end of the patch to the earliest of them (0: none)
getSparseOptimalTargetValue(i, tval, val) ==
    FoldLeft(LAMBDA acc, k : TargetStep(i, acc, k),
             [val |-> val, loc |-> 0, next |-> 1],
             [k \in 1..(i.patchSize - tval) |-> k])

LastPatch(i, c) == Wrap(c.first + ringOccupancy(c, i.patchCount) - 1, i.patchCount)

sparseLastTop(i, c, st) ==
    c.offset + (ringOccupancy(c, i.patchCount) - 1) * i.patchSize
             + Max({d \in 0..(i.patchSize - 1) : st.val[LastPatch(i, c)] >= i.table[d]})

\* A new top in the patch at index idx, at distance d from its begin
SparseInto(i, c, st, idx, d, first, last, base, old) ==
    [c |-> [offset |-> base, first |-> first, last |-> last],
     st |-> [active |-> (st.active \ {Wrap(p, i.patchCount) : p \in c.last..(idx - 1)})
                            \union {Wrap(idx, i.patchCount)},
             val |-> [st.val EXCEPT ![Wrap(idx, i.patchCount)] =
                          (old + i.table[d]) % 2^(ByteBits * i.encodingSize)]]]

\* The last patch is extended, or patches are added after it; when they are
\* more than patchCount the oldest `shift' ones go
SparseAppend(i, c, st, patch, d, occ, shift) ==
    IF patch < occ
    THEN SparseInto(i, [c EXCEPT !.last = LastPatch(i, c)], st, LastPatch(i, c), d,
                    c.first, c.last, c.offset, st.val[LastPatch(i, c)])
    ELSE SparseInto(i, c, st, c.last + patch - occ, d,
                    Wrap(c.first + shift, i.patchCount),
                    (Wrap(c.last + patch - occ, i.patchCount) + 1) % i.patchCount,
                    c.offset + shift * i.patchSize, 0)

repeatStoreSparseOptimalP(i, c, st, o, alive) ==
    IF ~alive \/ o > sparseLastTop(i, c, st) + i.max
    THEN storeInitialRingTopPatch(i, o)
    ELSE SparseAppend(i, c, st, (o - c.offset) \div i.patchSize,
                      (o - c.offset) % i.patchSize, ringOccupancy(c, i.patchCount),
                      Greater(0, (o - c.offset) \div i.patchSize - i.patchCount + 1))

\* The first patch of begin..end-1 with a top at distance >= low(p)
SparseFirst(i, st, begin, end, tval) ==
    LET Low(p) == IF p = begin THEN tval ELSE 0
        found == {p \in st.active \intersect (begin..(end - 1)) :
                     getSparseOptimalTargetValue(i, Low(p), st.val[p]).loc # 0}
    IN  IF found = {} THEN [patch |-> MMB_INVALID, loc |-> 0]
        ELSE [patch |-> Min(found),
              loc |-> getSparseOptimalTargetValue(i, Low(Min(found)), st.val[Min(found)]).loc]

SparseAnswer(i, c, o, one, two, end) ==
    LET At(p, loc) == Greater(o, c.offset + i.min + (p + 1) * i.patchSize - loc)
    IN  CASE one.patch # MMB_INVALID ->
                At(IF one.patch >= c.first THEN one.patch - c.first
                   ELSE one.patch + i.patchCount - c.first, one.loc)
          [] one.patch = MMB_INVALID /\ two.patch # MMB_INVALID ->
                At(two.patch + end - c.first, two.loc)
          [] OTHER -> 0

\* From distance tval of the patch at index begin on, with the wrap-around
SparseScan(i, c, st, o, begin, tval, end) ==
    SparseAnswer(i, c, o, SparseFirst(i, st, begin, end, tval),
                 IF begin >= c.last THEN SparseFirst(i, st, 0, c.last, 0)
                 ELSE [patch |-> MMB_INVALID, loc |-> 0], end)

SparseFrom(i, c, st, o, patch, tval) ==
    IF patch >= i.patchCount THEN 0
    ELSE LET begin == Wrap(c.first + patch, i.patchCount)
         IN  SparseScan(i, c, st, o, begin, tval,
                        IF begin >= c.last THEN i.patchCount ELSE c.last)

\* o is the offset after the one asked about
SparseNext(i, c, st, o) ==
    CASE o <= c.offset + i.min -> SparseFrom(i, c, st, o, c.first, 0)
      [] o > c.offset + i.min /\ o > sparseLastTop(i, c, st) + i.max -> 0
      [] OTHER -> LET lower == Greater(0, o - c.offset - i.max)
                  IN  SparseFrom(i, c, st, o, lower \div i.patchSize, lower % i.patchSize)

\* What is left of a patch when its tops after distance d are taken out
Upto(i, st, p, d) == getSparseOptimalTargetValue(i, d + 1, st.val[p]).val

\* lower..upper are positions in the patches, in the order they are stored in
sparseHasMatch(i, st, lower, upper) ==
    LET pl == lower \div i.patchSize
        pu == upper \div i.patchSize
    IN  \/ /\ pl \in st.active
           /\ (IF pl = pu THEN Upto(i, st, pl, upper % i.patchSize) ELSE st.val[pl])
                 >= i.table[lower % i.patchSize]
        \/ /\ pl # pu
           /\ \/ \E p \in (pl + 1)..(pu - 1) : p \in st.active
              \/ /\ pu # i.patchCount
                 /\ pu \in st.active
                 /\ Upto(i, st, pu, upper % i.patchSize) # 0

\* pl, pu: the patches of lower and upper, as indices of the ring
SparseHas(i, c, st, lower, upper, pl, pu) ==
    IF pl <= pu
    THEN sparseHasMatch(i, st, pl * i.patchSize + (lower % i.patchSize),
                        pu * i.patchSize + (upper % i.patchSize))
    ELSE \/ sparseHasMatch(i, st, pl * i.patchSize + (lower % i.patchSize),
                           i.patchCount * i.patchSize)
         \/ sparseHasMatch(i, st, 0, upper - (i.patchCount - c.first) * i.patchSize)

SparseBetween(i, c, st, lower, upper) ==
    /\ lower \div i.patchSize < ringOccupancy(c, i.patchCount)
    /\ SparseHas(i, c, st, lower, upper,
                 Wrap(c.first + lower \div i.patchSize, i.patchCount),
                 Wrap(c.first + upper \div i.patchSize, i.patchCount))

repeatHasMatchSparseOptimalP(i, c, st, o) ==
    CASE o < c.offset + i.min -> "nomatch"
      [] o >= c.offset + i.min /\ o > sparseLastTop(i, c, st) + i.max -> "stale"
      [] OTHER ->
           IF SparseBetween(i, c, st, Greater(0, o - c.offset - i.max),
                  Lesser(o - c.offset - i.min,
                         ringOccupancy(c, i.patchCount) * i.patchSize - 1))
           THEN "match" ELSE "nomatch"

---------------------------------------------------------------------------
(* The interface: nfa/repeat.h, and packing for the stream state.          *)

repeatLastTop(i, c, st) ==
    CASE i.type = "RING" -> ringLastTop(c, ringCapacity(i))
      [] i.type \in {"FIRST", "LAST"} -> c.offset
      [] i.type = "RANGE" -> c.offset + st[c.num]
      [] i.type = "BITMAP" -> IF c.bitmap = {} THEN 0 ELSE Max(BitmapTops(c))
      [] i.type = "SPARSE" -> sparseLastTop(i, c, st)
      [] i.type = "TRAILER" -> c.offset - i.min
      [] i.type = "ALWAYS" -> 0

repeatNextMatchOffset(i, c, o) ==
    CASE o < c.offset + i.min -> c.offset + i.min
      [] o >= c.offset + i.min /\ (i.max = REPEAT_INF \/ o < c.offset + i.max) -> o + 1
      [] OTHER -> 0

\* The first match after o; 0: there are no more
repeatNextMatch(i, c, st, o) ==
    CASE i.type = "RING" -> RingNext(i, c, st, o + 1, ringCapacity(i))
      [] i.type \in {"FIRST", "LAST"} -> repeatNextMatchOffset(i, c, o)
      [] i.type = "RANGE" -> NextOf(i, RangeTops(c, st), o)
      [] i.type = "BITMAP" -> NextOf(i, BitmapTops(c), o)
      [] i.type = "SPARSE" -> SparseNext(i, c, st, o + 1)
      [] i.type = "TRAILER" -> repeatNextMatchTrailer(i, c, o)
      [] i.type = "ALWAYS" -> o + 1

repeatStore(i, c, st, o, alive) ==
    CASE i.type = "RING" -> repeatStoreRing(i, c, st, o, alive, ringCapacity(i))
      [] i.type = "FIRST" -> [c |-> IF alive THEN c ELSE [offset |-> o], st |-> st]
      [] i.type = "LAST" -> [c |-> [offset |-> o], st |-> st]
      [] i.type = "RANGE" -> repeatStoreRange(i, c, st, o, alive)
      [] i.type = "BITMAP" -> [c |-> repeatStoreBitmap(i, c, o, alive), st |-> st]
      [] i.type = "SPARSE" -> repeatStoreSparseOptimalP(i, c, st, o, alive)
      [] i.type = "TRAILER" -> [c |-> repeatStoreTrailer(i, c, o, alive), st |-> st]
      [] i.type = "ALWAYS" -> [c |-> c, st |-> st]

\* Whether o is a match; "stale": no later offset is one either
repeatHasMatch(i, c, st, o) ==
    CASE i.type = "RING" -> repeatHasMatchRing(i, c, st, o, ringCapacity(i))
      [] i.type = "FIRST" -> IF o < c.offset + i.min THEN "nomatch" ELSE "match"
      [] i.type = "LAST" -> IF o < c.offset + i.min THEN "nomatch"
                            ELSE IF o <= c.offset + i.max THEN "match" ELSE "stale"
      [] i.type = "RANGE" -> HasOf(i, c.offset, RangeTops(c, st), o)
      [] i.type = "BITMAP" -> IF c.bitmap = {} THEN "stale"
                              ELSE HasOf(i, c.offset, BitmapTops(c), o)
      [] i.type = "SPARSE" -> repeatHasMatchSparseOptimalP(i, c, st, o)
      [] i.type = "TRAILER" -> repeatHasMatchTrailer(i, c, o)
      [] i.type = "ALWAYS" -> "match"

\* storePackedRelative: the distance, at most the horizon, in whole bytes
PackRelative(i, val, o) ==
    Lesser(o - val, i.horizon) % 2^(ByteBits * calcPackedBytes(i.horizon + 1))

BitmapBase(i, o) == Greater(0, o - i.max)

repeatPackBitmap(i, c, o) ==
    (IF BitmapBase(i, o) >= c.offset THEN Shr(c.bitmap, BitmapBase(i, o) - c.offset)
     ELSE Shl(c.bitmap, c.offset - BitmapBase(i, o)))
        \intersect (0..(((i.max + ByteBits) \div ByteBits) * ByteBits - 1))

repeatPackTrailer(i, c, o) ==
    [top |-> Lesser(o - (c.offset - i.min), i.horizon)
                 % 2^calcPackedBits(i.horizon + 1),
     bitmap |-> c.bitmap \intersect (0..(i.min - 1))]

repeatPack(i, c, o) ==
    CASE i.type \in {"FIRST", "LAST", "RING", "SPARSE", "RANGE"} ->
             [c EXCEPT !.offset = PackRelative(i, @, o)]
      [] i.type = "BITMAP" -> repeatPackBitmap(i, c, o)
      [] i.type = "TRAILER" -> repeatPackTrailer(i, c, o)
      [] i.type = "ALWAYS" -> c

repeatUnpack(i, packed, o) ==
    CASE i.type \in {"FIRST", "LAST", "RING", "SPARSE", "RANGE"} ->
             [packed EXCEPT !.offset = o - @]
      [] i.type = "BITMAP" -> [offset |-> BitmapBase(i, o), bitmap |-> packed]
      [] i.type = "TRAILER" -> [offset |-> o - packed.top + i.min, bitmap |-> packed.bitmap]
      [] i.type = "ALWAYS" -> packed
=============================================================================
