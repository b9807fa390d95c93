-------------------------- MODULE ChimeraInvProofs --------------------------
(***************************************************************************)
(* The invariant of Chimera, and the proof that every step keeps it: the   *)
(* priority queue, the rescans of PCRE, the steps of catchupPcre and those *)
(* outside it.  ChimeraProofs has the theorems.                            *)
(*                                                                         *)
(* The queue alone does not show that it holds one match per pattern:      *)
(* catchupPcre queues the match it was called for when it meets a later    *)
(* one first, and multiCallback queues it again when catchupPcre returns.  *)
(* That this never happens rests on the queue's order and on the fact that *)
(* a pattern Hyperscan reports again has a match in the queue that ends    *)
(* before (Caught).                                                        *)
(***************************************************************************)
EXTENDS Chimera, TLAPS

Elems(q) == {q[i] : i \in DOMAIN q}

\* No item of the queue comes before one in front of it.
Sorted(q) == \A i, j \in DOMAIN q : i < j => ~PqBefore(q[j], q[i])

Distinct(q) == \A i, j \in DOMAIN q : q[i].id = q[j].id => i = j

Fixed(p) == db[p].kind = "fixed"
Queued(p) == \E x \in Elems(queue) : x.id = p
Scanning == pc \in {"hyperscan", "catchup", "resume"}

\* What is known of the spans of the patterns in the data
TextOK ==
    /\ text.cont \subseteq 1 .. (Length - 1)
    /\ \A p \in Ids : text.spans[p] \subseteq Spans
    /\ \A p \in Ids : \A s \in text.spans[p] :
          /\ s[1] <= s[2]
          /\ Fixed(p) => 0 < db[p].minWidth /\ s[2] = s[1] + db[p].minWidth
          /\ db[p].utf8 => s[1] \notin text.cont /\ s[2] \notin text.cont

\* The call, its return value and who stopped it
CallInv ==
    /\ pc = "idle" => ReturnTells
    /\ pc \in {"init", "hyperscan", "catchup", "flush"} => halted = "no" /\ ret = CH_SUCCESS
    /\ pc \in {"resume", "scanned"} =>
          \/ halted = "no" /\ ret = CH_SUCCESS
          \/ halted = "user" /\ ret \in {CH_CALLBACK_TERMINATE, CH_SCAN_TERMINATED}
          \/ halted = "pcre" /\ ret = CH_FAIL_INTERNAL

\* The event catchupPcre is called for: a match of a pattern of fixed width that ends
\* where Hyperscan is or one byte before
EventInv ==
    IF pc \in {"catchup", "resume"}
    THEN /\ event \in Items /\ event.to \in {at - 1, at} /\ event.id \in active
         /\ Fixed(event.id) /\ ~db[event.id].single
         /\ <<event.from, event.to>> \in text.spans[event.id]
    ELSE event = NoEvent

\* Patterns are known to the scan (active) before anything is kept about them.  What was
\* delivered ends before the place where Hyperscan is, and a pattern it has not reported
\* yet matches one byte before that place at the earliest: that is what makes up for
\* events that come one byte late.
StageInv ==
    /\ pc = "init" => /\ out = <<>> /\ at = 0 /\ raised = {}
                      /\ left \subseteq Unguarded /\ active \subseteq Unguarded \ left
    /\ Scanning => /\ \A r \in raised : r[1] \in active
                   /\ \A x \in Elems(out) : x.to < at
                   /\ \A p \in Ids \ (active \union Unguarded) :
                         \A s \in text.spans[p] : at <= s[2] + 1

\* The queue in every state
QueueInv ==
    /\ Sorted(queue)
    /\ \A x \in Elems(queue) : db[x.id].utf8 => scanStart[x.id] \notin text.cont
    /\ halted # "no" => Len(queue) + (IF pc = "resume" THEN 1 ELSE 0) <= Cardinality(Ids)

\* The queue of a scan that has not been stopped
LiveInv ==
    halted = "no" =>
        /\ Distinct(queue)
        /\ given \subseteq active
        /\ \A p \in given : Fixed(p) => Length <= scanStart[p]
        /\ \A x \in Elems(queue) :
              /\ x.id \in active \ given
              /\ match[x.id] = <<x.from, x.to>>
              /\ x.to <= scanStart[x.id]
              /\ \A y \in Elems(out) : y.to <= x.to

\* A pattern that Hyperscan may report again has a match in the queue; that of the
\* event is in front of it until catchupPcre has delivered it.
Caught ==
    halted = "no" =>
        /\ Scanning => \A p \in active :
              /\ Fixed(p) /\ ~db[p].single /\ scanStart[p] < Length
              /\ pc = "resume" => p # event.id
              => Queued(p)
        /\ pc = "catchup" => \E x \in Elems(queue) : x.id = event.id /\ x.to < event.to
        /\ pc = "resume" => ~Queued(event.id)

ChimeraInv ==
    /\ TypeOK /\ TextOK /\ CallInv /\ EventInv /\ StageInv
    /\ QueueInv /\ LiveInv /\ Caught /\ DeliveredInOrder

----------------------------------------------------------------------------
\* Natural numbers and finite sets

\* What the proofs use about natural numbers and finite sets: a set of numbers has a
\* least element, 1 .. n has n elements, a one-to-one map into a finite set counts at
\* most its elements, and a finite set has a size.  ChimeraProofs proves it
\* (NumbersHold), and every lemma that needs it says so.
LeastNumber == \A S \in SUBSET Nat : S # {} => \E n \in S : \A m \in S : n <= m
IntervalSize == \A n \in Nat : IsFiniteSet(1 .. n) /\ Cardinality(1 .. n) = n
OneToOne ==
    \A I : \A n \in Nat : \A f \in [1 .. n -> I] :
        IsFiniteSet(I) /\ (\A i, j \in 1 .. n : f[i] = f[j] => i = j) => n <= Cardinality(I)
SizeType == \A S : IsFiniteSet(S) => Cardinality(S) \in Nat
Numbers == LeastNumber /\ IntervalSize /\ OneToOne /\ SizeType

\* A set of natural numbers has a least element: the item PCRE finds first, and the
\* place at which an item is put into the queue.
LEMMA LeastNat ==
    ASSUME Numbers, NEW S \in SUBSET Nat, S # {}
    PROVE  \E n \in S : \A m \in S : n <= m
  BY Zenon DEF Numbers, LeastNumber

\* Positions that form the front part of a sequence are counted by their number:
\* PqInsert finds its place by counting the items that come before the new one.
LEMMA FrontPart ==
    ASSUME Numbers, NEW n \in Nat, NEW S \in SUBSET (1 .. n),
           \A i \in S : \A j \in 1 .. n : j < i => j \in S
    PROVE  /\ Cardinality(S) \in 0 .. n
           /\ S = 1 .. Cardinality(S)
<1>1. CASE S = 1 .. n
  <2>1. Cardinality(1 .. n) = n
    BY Zenon DEF Numbers, IntervalSize
  <2> QED
    BY <1>1, <2>1
<1>2. CASE S # 1 .. n
  <2>1. PICK k \in (1 .. n) \ S : \A m \in (1 .. n) \ S : k <= m
    <3>1. (1 .. n) \ S # {}
      BY <1>2, Zenon
    <3>2. (1 .. n) \ S \in SUBSET Nat
      OBVIOUS
    <3> QED
      BY <3>1, <3>2, LeastNat, Zenon
  <2>2. S = 1 .. (k - 1)
    <3>1. \A i \in S : i < k
      BY <2>1
    <3>2. \A i \in 1 .. (k - 1) : i \in S
      BY <2>1
    <3>3. \A i : i \in S <=> i \in 1 .. (k - 1)
      <4>1. ASSUME NEW i, i \in S PROVE i \in 1 .. (k - 1)
        BY <4>1, <3>1
      <4> QED
        BY <4>1, <3>2, Zenon
    <3> QED
      BY <3>3, Zenon
  <2>3. Cardinality(1 .. (k - 1)) = k - 1
    BY <2>1 DEF Numbers, IntervalSize
  <2> QED
    BY <2>1, <2>2, <2>3
<1> QED
  BY <1>1, <1>2, Zenon

\* A sequence of items with different patterns is no longer than there are patterns.
LEMMA DistinctLen ==
    ASSUME Numbers, NEW T, NEW q \in Seq(T), Distinct(q), NEW I, IsFiniteSet(I),
           \A x \in Elems(q) : x.id \in I
    PROVE  Len(q) <= Cardinality(I)
<1> DEFINE f == [i \in 1 .. Len(q) |-> q[i].id]
<1>0. Len(q) \in Nat /\ DOMAIN q = 1 .. Len(q)
  OBVIOUS
<1>1. f \in [1 .. Len(q) -> I]
  BY <1>0, Zenon DEF Elems
<1>2. \A a, b \in 1 .. Len(q) : f[a] = f[b] => a = b
  BY <1>0, Zenon DEF Distinct
<1> HIDE DEF f
<1>3. IsFiniteSet(I) => Len(q) <= Cardinality(I)
  BY <1>0, <1>1, <1>2, Zenon DEF Numbers, OneToOne
<1> QED
  BY <1>3, Zenon

----------------------------------------------------------------------------
\* The queue

NatItems == [from : Nat, to : Nat, id : Nat]

\* The elements of a sequence of items are items.
LEMMA ElemsIn ==
    ASSUME NEW T, NEW q \in Seq(T), NEW x \in Elems(q)
    PROVE  x \in T
  BY DEF Elems

\* The order of the queue (PQ_COMP) is a total order of the items.
LEMMA PqOrder ==
    ASSUME NEW a \in NatItems, NEW b \in NatItems, NEW c \in NatItems
    PROVE  /\ PqBefore(a, b) => ~PqBefore(b, a) /\ a.to <= b.to
           /\ ~PqBefore(a, b) => b.to <= a.to
           /\ ~PqBefore(b, a) /\ PqBefore(b, c) => PqBefore(a, c)
           /\ ~PqBefore(b, a) /\ ~PqBefore(c, b) => ~PqBefore(c, a)
  BY DEF NatItems, PqBefore

\* Concatenation, position by position
LEMMA Concatenated ==
    ASSUME NEW T, NEW a \in Seq(T), NEW b \in Seq(T)
    PROVE  /\ a \o b \in Seq(T) /\ Len(a \o b) = Len(a) + Len(b)
           /\ \A i \in 1 .. (Len(a) + Len(b)) :
                 (a \o b)[i] = IF i <= Len(a) THEN a[i] ELSE b[i - Len(a)]
<1>1. a \o b \in Seq(T) /\ Len(a \o b) = Len(a) + Len(b)
  OBVIOUS
<1>2. \A i \in 1 .. (Len(a) + Len(b)) : i <= Len(a) => (a \o b)[i] = a[i]
  OBVIOUS
<1>3. \A i \in 1 .. (Len(a) + Len(b)) : ~(i <= Len(a)) => (a \o b)[i] = b[i - Len(a)]
  OBVIOUS
<1> QED
  BY <1>1, <1>2, <1>3, Zenon

\* The queue with e behind the first n items
Spliced(q, n, e) == SubSeq(q, 1, n) \o <<e>> \o SubSeq(q, n + 1, Len(q))

\* What PqInsert makes of a sequence, position by position
LEMMA SplicedElements ==
    ASSUME NEW T, NEW q \in Seq(T), NEW e \in T, NEW n \in 0 .. Len(q)
    PROVE  /\ Spliced(q, n, e) \in Seq(T)
           /\ Len(Spliced(q, n, e)) = Len(q) + 1
           /\ \A i \in 1 .. (Len(q) + 1) :
                 /\ i <= n => Spliced(q, n, e)[i] = q[i]
                 /\ i = n + 1 => Spliced(q, n, e)[i] = e
                 /\ i > n + 1 => Spliced(q, n, e)[i] = q[i - 1]
<1> DEFINE r == Spliced(q, n, e)
           a == SubSeq(q, 1, n)
           b == SubSeq(q, n + 1, Len(q))
           c == a \o <<e>>
<1>0. Len(q) \in Nat /\ n \in Nat /\ n <= Len(q)
  OBVIOUS
<1>1. r = c \o b
  BY Zenon DEF Spliced
<1>2. a \in Seq(T) /\ Len(a) = n /\ \A i \in 1 .. n : a[i] = q[i]
  BY <1>0
<1>3. /\ b \in Seq(T) /\ Len(b) = Len(q) - n
      /\ \A i \in 1 .. (Len(q) - n) : b[i] = q[n + i]
  BY <1>0
<1> HIDE DEF r, a, b
<1>4. /\ c \in Seq(T) /\ Len(c) = n + 1
      /\ \A i \in 1 .. (n + 1) : c[i] = IF i <= n THEN q[i] ELSE e
  BY <1>0, <1>2
<1> HIDE DEF c
<1>5. /\ r \in Seq(T) /\ Len(r) = Len(q) + 1
      /\ \A i \in 1 .. (Len(q) + 1) : r[i] = IF i <= n + 1 THEN c[i] ELSE b[i - (n + 1)]
  <2>1. /\ c \o b \in Seq(T) /\ Len(c \o b) = Len(c) + Len(b)
        /\ \A i \in 1 .. (Len(c) + Len(b)) :
              (c \o b)[i] = IF i <= Len(c) THEN c[i] ELSE b[i - Len(c)]
    BY <1>3, <1>4, Concatenated, Zenon
  <2>2. Len(c) + Len(b) = Len(q) + 1 /\ Len(c) = n + 1
    BY <1>0, <1>3, <1>4
  <2> QED
    BY <1>1, <2>1, <2>2, Zenon
<1>6. ASSUME NEW i \in 1 .. (Len(q) + 1)
      PROVE  /\ i <= n => r[i] = q[i]
             /\ i = n + 1 => r[i] = e
             /\ i > n + 1 => r[i] = q[i - 1]
  <2>1. CASE i <= n + 1
    BY <2>1, <1>0, <1>4, <1>5
  <2>2. CASE i > n + 1
    <3>1. i - (n + 1) \in 1 .. (Len(q) - n) /\ n + (i - (n + 1)) = i - 1
      BY <2>2, <1>0
    <3>2. b[i - (n + 1)] = q[i - 1]
      BY <3>1, <1>3, Zenon
    <3> QED
      BY <3>2, <2>2, <1>0, <1>5
  <2> QED
    BY <2>1, <2>2, <1>0
<1> QED
  BY <1>5, <1>6, Zenon DEF r

\* r is the queue q with item x added.
Adds(r, q, x) ==
    /\ Len(r) = Len(q) + 1
    /\ Elems(r) = Elems(q) \union {x}
    /\ Sorted(r)
    /\ Distinct(q) /\ (\A y \in Elems(q) : y.id # x.id) => Distinct(r)

\* pq_insert_with puts the item in its place: it adds the item and nothing else, and
\* the queue stays in order.
LEMMA Inserted ==
    ASSUME Numbers, NEW T, T \subseteq NatItems, NEW q \in Seq(T), Sorted(q),
           NEW f, NEW t, NEW p, [from |-> f, to |-> t, id |-> p] \in T,
           NEW r, r = PqInsert(q, f, t, p)
    PROVE  r \in Seq(T) /\ Adds(r, q, [from |-> f, to |-> t, id |-> p])
<1> DEFINE item == [from |-> f, to |-> t, id |-> p]
           S == {i \in DOMAIN q : PqBefore(q[i], item)}
           n == Cardinality(S)
<1>0. /\ Len(q) \in Nat /\ DOMAIN q = 1 .. Len(q) /\ \A i \in 1 .. Len(q) : q[i] \in T
      /\ item \in T /\ item.id = p
  OBVIOUS
<1>1. r = Spliced(q, n, item)
  BY Zenon DEF PqInsert, Spliced
<1>2. /\ n \in 0 .. Len(q)
      /\ \A i \in 1 .. Len(q) : PqBefore(q[i], item) <=> i <= n
  <2>1. ASSUME NEW i \in S, NEW j \in 1 .. Len(q), j < i PROVE j \in S
    <3>1. i \in 1 .. Len(q) /\ ~PqBefore(q[i], q[j]) /\ PqBefore(q[i], item)
      BY <1>0, <2>1, Zenon DEF Sorted
    <3>2. q[j] \in NatItems /\ q[i] \in NatItems /\ item \in NatItems
      BY <1>0, <3>1, Zenon
    <3>3. PqBefore(q[j], item)
      BY <3>1, <3>2, PqOrder, Zenon
    <3> QED
      BY <3>3, <1>0, Zenon
  <2>2. S \in SUBSET (1 .. Len(q))
    BY <1>0, Zenon
  <2>3. \A i : i \in S <=> i \in 1 .. Len(q) /\ PqBefore(q[i], item)
    BY <1>0, Zenon
  <2> HIDE DEF S
  <2>4. n \in 0 .. Len(q) /\ S = 1 .. n
    BY <1>0, <2>1, <2>2, FrontPart, Zenon
  <2> HIDE DEF n, item
  <2> QED
    BY <2>3, <2>4, <1>0
<1> HIDE DEF n, S, item
<1>3. /\ r \in Seq(T) /\ Len(r) = Len(q) + 1
      /\ \A i \in 1 .. (Len(q) + 1) :
            /\ i <= n => r[i] = q[i]
            /\ i = n + 1 => r[i] = item
            /\ i > n + 1 => r[i] = q[i - 1]
  <2>1. q \in Seq(T) /\ item \in T /\ n \in 0 .. Len(q)
    BY <1>0, <1>2, Zenon
  <2>2. /\ Spliced(q, n, item) \in Seq(T)
        /\ Len(Spliced(q, n, item)) = Len(q) + 1
        /\ \A i \in 1 .. (Len(q) + 1) :
              /\ i <= n => Spliced(q, n, item)[i] = q[i]
              /\ i = n + 1 => Spliced(q, n, item)[i] = item
              /\ i > n + 1 => Spliced(q, n, item)[i] = q[i - 1]
    BY <2>1, SplicedElements, SMT, Zenon
  <2> QED
    BY <2>2, <1>1, Zenon
<1>4. Elems(r) = Elems(q) \union {item}
  <2>1. DOMAIN r = 1 .. Len(r)
    BY <1>3
  <2>2. ASSUME NEW i \in 1 .. Len(r) PROVE r[i] \in Elems(q) \union {item}
    <3>1. \/ i \in 1 .. Len(q) /\ r[i] = q[i]
          \/ r[i] = item
          \/ i - 1 \in 1 .. Len(q) /\ r[i] = q[i - 1]
      BY <1>0, <1>2, <1>3
    <3> QED
      BY <3>1, <1>0, Zenon DEF Elems
  <2>3. ASSUME NEW i \in 1 .. Len(q) PROVE q[i] \in Elems(r)
    <3>1. CASE i <= n
      BY <3>1, <2>1, <1>0, <1>2, <1>3 DEF Elems
    <3>2. CASE i > n
      <4>1. i + 1 \in 1 .. Len(r) /\ r[i + 1] = q[i]
        BY <3>2, <1>0, <1>2, <1>3
      <4> QED
        BY <4>1, <2>1, Zenon DEF Elems
    <3> QED
      BY <3>1, <3>2, <1>0, <1>2
  <2>4. item \in Elems(r)
    <3>1. n + 1 \in 1 .. Len(r) /\ r[n + 1] = item
      BY <1>0, <1>2, <1>3
    <3> QED
      BY <3>1, <2>1, Zenon DEF Elems
  <2> QED
    BY <2>1, <2>2, <2>3, <2>4, <1>0 DEF Elems
<1>5. Sorted(r)
  <2> SUFFICES ASSUME NEW i \in 1 .. Len(r), NEW j \in 1 .. Len(r), i < j
               PROVE  ~PqBefore(r[j], r[i])
    BY <1>3 DEF Sorted
  <2>1. item \in NatItems /\ \A k \in 1 .. Len(q) : q[k] \in NatItems
    BY <1>0, Zenon
  <2>2. \A k, l \in 1 .. Len(q) : k < l => ~PqBefore(q[l], q[k])
    BY <1>0, Zenon DEF Sorted
  <2>3. CASE i # n + 1 /\ j # n + 1
    <3> DEFINE old(k) == IF k <= n THEN k ELSE k - 1
    <3>1. /\ old(i) \in 1 .. Len(q) /\ r[i] = q[old(i)]
          /\ old(j) \in 1 .. Len(q) /\ r[j] = q[old(j)]
      BY <2>3, <1>0, <1>2, <1>3
    <3>2. old(i) < old(j)
      BY <2>3, <1>0, <1>2, <1>3
    <3> QED
      BY <2>2, <3>1, <3>2, Zenon
  <2>4. CASE j = n + 1
    <3>1. i \in 1 .. Len(q) /\ r[j] = item /\ r[i] = q[i] /\ PqBefore(q[i], item)
      BY <2>4, <1>0, <1>2, <1>3
    <3> QED
      BY <3>1, <2>1, PqOrder, Zenon
  <2>5. CASE i = n + 1
    <3>1. j - 1 \in 1 .. Len(q) /\ r[i] = item /\ r[j] = q[j - 1] /\ ~PqBefore(q[j - 1], item)
      BY <2>5, <1>0, <1>2, <1>3
    <3> QED
      BY <3>1, Zenon
  <2> QED
    BY <2>3, <2>4, <2>5, <1>0, <1>2, <1>3, Zenon
<1>6. ASSUME Distinct(q), \A x \in Elems(q) : x.id # p
      PROVE  Distinct(r)
  <2> SUFFICES ASSUME NEW i \in 1 .. Len(r), NEW j \in 1 .. Len(r), i < j
               PROVE  r[i].id # r[j].id
    BY <1>3 DEF Distinct
  <2>1. \A k, l \in 1 .. Len(q) : k # l => q[k].id # q[l].id
    BY <1>0, <1>6, Zenon DEF Distinct
  <2>2. \A k \in 1 .. Len(q) : q[k].id # p
    BY <1>0, <1>6, Zenon DEF Elems
  <2> DEFINE old(k) == IF k <= n THEN k ELSE k - 1
  <2>3. \A k \in 1 .. Len(r) : k # n + 1 => old(k) \in 1 .. Len(q) /\ r[k] = q[old(k)]
    BY <1>0, <1>2, <1>3
  <2>4. CASE i # n + 1 /\ j # n + 1
    <3>1. old(i) # old(j)
      BY <2>4, <1>0, <1>2, <1>3
    <3> QED
      BY <2>1, <2>3, <2>4, <3>1, ZenonT(30)
  <2>5. CASE i = n + 1
    BY <2>2, <2>3, <2>5, <1>0, <1>2, <1>3, SMTT(30)
  <2>6. CASE j = n + 1
    BY <2>2, <2>3, <2>6, <1>0, <1>2, <1>3
  <2> QED
    BY <2>4, <2>5, <2>6, Zenon
<1> QED
  BY <1>3, <1>4, <1>5, <1>6, Zenon DEF item, Adds

\* r is the queue q without its first item x.
Removes(r, q, x) ==
    /\ Len(r) = Len(q) - 1
    /\ Elems(q) = Elems(r) \union {x}
    /\ \A y \in Elems(q) : x.to <= y.to
    /\ Sorted(r)
    /\ Distinct(q) => Distinct(r) /\ \A y \in Elems(r) : y.id # x.id

\* pq_pop_nice takes the first item in the queue's order away, and no other.
LEMMA Popped ==
    ASSUME NEW T, T \subseteq NatItems, NEW q \in Seq(T), q # <<>>, Sorted(q)
    PROVE  Head(q) \in T /\ Tail(q) \in Seq(T) /\ Removes(Tail(q), q, Head(q))
<1>1. /\ Len(q) \in Nat /\ Len(q) > 0 /\ DOMAIN q = 1 .. Len(q)
      /\ \A i \in 1 .. Len(q) : q[i] \in T
      /\ Head(q) = q[1]
  OBVIOUS
<1>2. /\ Tail(q) \in Seq(T) /\ Len(Tail(q)) = Len(q) - 1
      /\ DOMAIN Tail(q) = 1 .. (Len(q) - 1)
      /\ \A i \in 1 .. (Len(q) - 1) : Tail(q)[i] = q[i + 1] /\ i + 1 \in 1 .. Len(q)
  BY <1>1
<1>3. Elems(q) = Elems(Tail(q)) \union {Head(q)}
  <2>1. \A i \in 1 .. Len(q) : i = 1 \/ (i - 1 \in 1 .. (Len(q) - 1) /\ q[i] = Tail(q)[i - 1])
    BY <1>1, <1>2
  <2>2. \A x \in Elems(q) : x = Head(q) \/ x \in Elems(Tail(q))
    <3> SUFFICES ASSUME NEW i \in 1 .. Len(q)
                 PROVE  q[i] = Head(q) \/ q[i] \in Elems(Tail(q))
      BY <1>1, Zenon DEF Elems
    <3>1. CASE i = 1
      BY <3>1, <1>1, Zenon
    <3>2. CASE i - 1 \in 1 .. (Len(q) - 1) /\ q[i] = Tail(q)[i - 1]
      BY <3>2, <1>2, Zenon DEF Elems
    <3> QED
      BY <3>1, <3>2, <2>1, Zenon
  <2>3. \A x \in Elems(Tail(q)) : x \in Elems(q)
    BY <1>1, <1>2 DEF Elems
  <2>4. Head(q) \in Elems(q)
    BY <1>1 DEF Elems
  <2> QED
    BY <2>2, <2>3, <2>4, Zenon
<1>4. \A x \in Elems(q) : Head(q).to <= x.to
  <2> SUFFICES ASSUME NEW i \in 1 .. Len(q) PROVE q[1].to <= q[i].to
    BY <1>1, Zenon DEF Elems
  <2>1. q[1] \in NatItems /\ q[i] \in NatItems
    BY <1>1
  <2>2. i # 1 => ~PqBefore(q[i], q[1])
    BY <1>1 DEF Sorted
  <2>3. i = 1 => q[1].to <= q[i].to
    BY <2>1 DEF NatItems
  <2> QED
    BY <2>1, <2>2, <2>3, PqOrder, Zenon
<1>5. Sorted(Tail(q))
  BY <1>1, <1>2 DEF Sorted
<1>6. ASSUME Distinct(q)
      PROVE  Distinct(Tail(q)) /\ \A x \in Elems(Tail(q)) : x.id # Head(q).id
  BY <1>1, <1>2, <1>6, SMTT(30) DEF Distinct, Elems
<1> QED
  BY <1>1, <1>2, <1>3, <1>4, <1>5, <1>6 DEF Removes

----------------------------------------------------------------------------
\* Patterns and PCRE

\* What ch_compile_multi gives the runtime to work with: numbered patterns
LEMMA Patterns ==
    ASSUME Numbers, db \in Databases
    PROVE  /\ Length \in Nat
           /\ Ids \subseteq Nat /\ IsFiniteSet(Ids) /\ Cardinality(Ids) \in Nat /\ NoId \notin Ids
           /\ Items \subseteq NatItems
           /\ \A p \in Ids : IsPattern(db[p])
<1>1. Len(db) \in Nat /\ Ids = 1 .. Len(db) /\ \A p \in Ids : IsPattern(db[p])
  BY ChimeraAssumption, Zenon DEF Ids
<1>2. IsFiniteSet(Ids)
  BY <1>1, Zenon DEF Numbers, IntervalSize
<1>3. Cardinality(Ids) \in Nat
  BY <1>2, Zenon DEF Numbers, SizeType
<1>4. Ids \subseteq Nat /\ NoId \notin Ids
  BY <1>1 DEF NoId
<1>5. Items \subseteq NatItems
  <2>1. 0 .. Length \subseteq Nat
    BY ChimeraAssumption
  <2> DEFINE L == 0 .. Length
  <2> HIDE DEF L
  <2>2. L \subseteq Nat
    BY <2>1, Zenon DEF L
  <2>3. [from : L, to : L, id : Ids] \subseteq [from : Nat, to : Nat, id : Nat]
    BY <2>2, <1>4, Zenon
  <2> QED
    BY <2>3, Zenon DEF Items, NatItems, L
<1> QED
  BY <1>1, <1>2, <1>3, <1>4, <1>5, ChimeraAssumption, Zenon

\* pcre_exec returns a span of the pattern at or behind the start if there is one.
LEMMA ExecFinds ==
    ASSUME Numbers, db \in Databases, TextOK, NEW p \in Ids, NEW start \in Nat,
           SpansFrom(p, start) # {}
    PROVE  pcre_exec(p, start) \in SpansFrom(p, start)
<1> DEFINE S == SpansFrom(p, start)
           F == {s[1] : s \in S}
<1>1. S \subseteq Spans /\ Length \in Nat
  BY Patterns, Zenon DEF SpansFrom, TextOK
<1>2. \A s \in S : s[1] \in Nat
  BY <1>1 DEF Spans
<1>3. F \in SUBSET Nat /\ F # {}
  BY <1>2, Zenon
<1>4. PICK n \in F : \A m \in F : n <= m
  BY <1>3, LeastNat, Zenon
<1>5. PICK s \in S : s[1] = n
  BY <1>4, Zenon
<1>6. \A r \in S : s[1] <= r[1]
  BY <1>4, <1>5, Zenon
<1> HIDE DEF S, F
<1>7. (CHOOSE x \in S : \A r \in S : x[1] <= r[1]) \in S
  BY <1>5, <1>6, Zenon
<1> QED
  BY <1>7, Zenon DEF S, pcre_exec

\* What scanPcre may tell its caller: a span was found, or PCRE gave up on the pattern
\* or stopped the scan.
LEMMA Outcomes ==
    ASSUME Numbers, db \in Databases, TextOK, NEW p \in Ids, NEW start \in Nat,
           NEW o \in ScanOutcomes(p, start)
    PROVE  /\ Found(o) => /\ o.ret = CH_SUCCESS
                          /\ o.span \in text.spans[p] /\ start <= o.span[1]
           /\ o.ret \in {CH_SUCCESS, CH_CALLBACK_TERMINATE, CH_CALLBACK_SKIP_PATTERN,
                         CH_FAIL_INTERNAL}
           /\ Found(o) => ~Lost(p, start, o)
<1>1. o.ret \in {CH_SUCCESS, CH_CALLBACK_TERMINATE, CH_CALLBACK_SKIP_PATTERN, CH_FAIL_INTERNAL}
  BY DEF ScanOutcomes
<1>2. ASSUME Found(o)
      PROVE  o.ret = CH_SUCCESS /\ o.span = pcre_exec(p, start)
  BY <1>2 DEF Found, ScanOutcomes
<1>3. ASSUME Found(o)
      PROVE  o.span \in text.spans[p] /\ start <= o.span[1]
  <2>1. SpansFrom(p, start) # {}
    BY <1>2, <1>3, Zenon DEF Found, pcre_exec
  <2>2. o.span \in SpansFrom(p, start)
    BY <1>2, <1>3, <2>1, ExecFinds, Zenon
  <2> QED
    BY <2>2, Zenon DEF SpansFrom
<1> QED
  BY <1>1, <1>2, <1>3, Zenon DEF Lost

\* The next scan starts behind the match, in the data or one byte behind its end, and
\* for a UTF-8 pattern at the beginning of a codepoint; it starts at the first such place.
LEMMA StartBehind ==
    ASSUME Numbers, db \in Databases, TextOK, NEW p \in Ids, NEW s \in text.spans[p]
    PROVE  /\ NextStart(p, s[1], s[2]) \in 0 .. (Length + 1)
           /\ s[2] <= NextStart(p, s[1], s[2])
           /\ db[p].utf8 => NextStart(p, s[1], s[2]) \notin text.cont
           /\ NextStart(p, s[1], s[2]) \in Behind(s, db[p].utf8, text.cont)
           /\ \A n \in Behind(s, db[p].utf8, text.cont) : NextStart(p, s[1], s[2]) <= n
<1>1. /\ Length \in Nat /\ s[1] \in 0 .. Length /\ s[2] \in 0 .. Length
      /\ text.cont \subseteq 1 .. (Length - 1)
      /\ db[p].utf8 => s[1] \notin text.cont /\ s[2] \notin text.cont
  BY Patterns, Zenon DEF TextOK, Spans
<1>2. CASE s[1] # s[2]
  BY <1>1, <1>2 DEF NextStart, Behind
<1>3. CASE s[1] = s[2] /\ ~db[p].utf8
  BY <1>1, <1>3 DEF NextStart, Behind
<1>4. CASE s[1] = s[2] /\ db[p].utf8
  <2> DEFINE C(n) == /\ n >= Length \/ n \notin text.cont
                     /\ \A r \in (s[2] + 1) .. (n - 1) : r < Length /\ r \in text.cont
             D == {n \in (s[2] + 1) .. (Length + 1) : C(n)}
  <2>1. \E n \in (s[2] + 1) .. (Length + 1) : C(n)
    <3> DEFINE B == {n \in (s[2] + 1) .. (Length + 1) : n >= Length \/ n \notin text.cont}
    <3>1. Length + 1 \in B
      BY <1>1
    <3>2. B \in SUBSET Nat /\ B # {}
      BY <3>1, <1>1
    <3>3. PICK n \in B : \A m \in B : n <= m
      <4> HIDE DEF B
      <4> QED
        BY <3>2, LeastNat, Zenon
    <3>4. n \in (s[2] + 1) .. (Length + 1) /\ (n >= Length \/ n \notin text.cont)
      OBVIOUS
    <3>5. ASSUME NEW r \in (s[2] + 1) .. (n - 1) PROVE r < Length /\ r \in text.cont
      <4>1. r \in (s[2] + 1) .. (Length + 1) /\ r < n /\ r \in Nat /\ n \in Nat
        BY <3>4, <1>1
      <4>2. r \notin B
        <5> HIDE DEF B
        <5> QED
          BY <4>1, <3>3
      <4>3. ~(r >= Length) /\ r \in text.cont
        BY <4>1, <4>2
      <4> QED
        BY <4>1, <4>3, <1>1
    <3>6. C(n)
      BY <3>4, <3>5, Zenon
    <3> QED
      BY <3>4, <3>6, Zenon
  <2>2. NextStart(p, s[1], s[2]) = CHOOSE n \in (s[2] + 1) .. (Length + 1) : C(n)
    BY <1>4, Zenon DEF NextStart
  <2>3. /\ NextStart(p, s[1], s[2]) \in (s[2] + 1) .. (Length + 1)
        /\ C(NextStart(p, s[1], s[2]))
    <3> DEFINE N == NextStart(p, s[1], s[2])
    <3> HIDE DEF C, N
    <3>1. N = CHOOSE n \in (s[2] + 1) .. (Length + 1) : C(n)
      BY <2>2, Zenon DEF N
    <3>2. N \in (s[2] + 1) .. (Length + 1) /\ C(N)
      BY <3>1, <2>1, Zenon
    <3> QED
      BY <3>2, Zenon DEF N
  <2> QED
    BY <2>3, <1>1, <1>4 DEF Behind
<1> QED
  BY <1>2, <1>3, <1>4, Zenon

----------------------------------------------------------------------------
\* What the steps of a scan do to the queue

SafeStart(x) == db[x.id].utf8 => scanStart[x.id] \notin text.cont

\* The database never changes.
LEMMA SameDb ==
    ASSUME db' = db
    PROVE  /\ Ids' = Ids /\ Items' = Items /\ Unguarded' = Unguarded
           /\ \A p : Fixed(p)' = Fixed(p)
  BY Zenon DEF Ids, Items, Unguarded, Fixed

\* What is known of the data does not change in a scan.
LEMMA SameText ==
    ASSUME TextOK, db' = db, text' = text
    PROVE  TextOK'
  BY Zenon DEF TextOK, Ids, Fixed

\* A span as the item that is put into the queue
LEMMA SpanItem ==
    ASSUME Numbers, db \in Databases, TextOK, NEW p \in Ids, NEW s \in text.spans[p]
    PROVE  /\ s \in Spans /\ s = <<s[1], s[2]>> /\ s # NoSpan
           /\ s[1] \in 0 .. Length /\ s[2] \in 0 .. Length /\ s[1] <= s[2]
           /\ [from |-> s[1], to |-> s[2], id |-> p] \in Items
  BY Patterns, SMTT(30) DEF TextOK, Spans, Items, NoSpan

\* A match found by PCRE or by Hyperscan is queued together with its captures and with
\* the start of the next scan (scanPcre, multiCallback); base is what was queued.
LEMMA AddMatch ==
    ASSUME Numbers, db \in Databases, TextOK, scanStart \in [Ids -> 0 .. (Length + 1)],
           match \in [Ids -> Spans \union {NoSpan}], NEW p \in Ids, NEW s \in text.spans[p],
           NEW base \in Seq(Items), Sorted(base), \A x \in Elems(base) : SafeStart(x),
           db' = db, text' = text,
           queue' = PqInsert(base, s[1], s[2], p), match' = [match EXCEPT ![p] = s],
           scanStart' = [scanStart EXCEPT ![p] = NextStart(p, s[1], s[2])]
    PROVE  /\ queue' \in Seq(Items) /\ Len(queue') = Len(base) + 1
           /\ scanStart' \in [Ids -> 0 .. (Length + 1)]
           /\ match' \in [Ids -> Spans \union {NoSpan}]
           /\ Sorted(queue') /\ (\A x \in Elems(queue) : SafeStart(x))'
           /\ Elems(queue') = Elems(base) \union {[from |-> s[1], to |-> s[2], id |-> p]}
           /\ Distinct(base) /\ (\A x \in Elems(base) : x.id # p) => Distinct(queue')
           /\ \A r \in Ids \ {p} : match'[r] = match[r] /\ scanStart'[r] = scanStart[r]
           /\ match'[p] = <<s[1], s[2]>> /\ s[2] <= scanStart'[p]
<1>1. /\ Items \subseteq NatItems /\ s = <<s[1], s[2]>> /\ s \in Spans
      /\ [from |-> s[1], to |-> s[2], id |-> p] \in Items
      /\ base \in Seq(Items) /\ Sorted(base) /\ queue' = PqInsert(base, s[1], s[2], p)
  BY Patterns, SpanItem, Zenon
<1>2. /\ queue' \in Seq(Items) /\ Len(queue') = Len(base) + 1 /\ Sorted(queue')
      /\ Elems(queue') = Elems(base) \union {[from |-> s[1], to |-> s[2], id |-> p]}
      /\ Distinct(base) /\ (\A x \in Elems(base) : x.id # p) => Distinct(queue')
  <2>1. queue' \in Seq(Items) /\ Adds(queue', base, [from |-> s[1], to |-> s[2], id |-> p])
    BY <1>1, Inserted, Zenon
  <2> QED
    BY <2>1, Zenon DEF Adds
<1>3. /\ NextStart(p, s[1], s[2]) \in 0 .. (Length + 1)
      /\ s[2] <= NextStart(p, s[1], s[2])
      /\ db[p].utf8 => NextStart(p, s[1], s[2]) \notin text.cont
  BY StartBehind, Zenon
<1>4. /\ scanStart' \in [Ids -> 0 .. (Length + 1)] /\ s[2] <= scanStart'[p]
      /\ db[p].utf8 => scanStart'[p] \notin text.cont
  BY <1>3, Zenon
<1>5. match' \in [Ids -> Spans \union {NoSpan}] /\ match'[p] = <<s[1], s[2]>>
  BY <1>1, Zenon
<1>6. \A r \in Ids \ {p} : match'[r] = match[r] /\ scanStart'[r] = scanStart[r]
  BY Zenon
<1>7. (\A x \in Elems(queue) : SafeStart(x))'
  <2> SUFFICES ASSUME NEW x \in Elems(queue') PROVE SafeStart(x)'
    BY Zenon
  <2>1. CASE x.id = p
    BY <2>1, <1>4, Zenon DEF SafeStart
  <2>2. CASE x.id # p
    <3>1. x \in Elems(base)
      BY <2>2, <1>2
    <3>2. x \in Items
      BY <3>1, <1>1, ElemsIn, Zenon
    <3>3. x.id \in Ids
      BY <3>2, Zenon DEF Items
    <3> QED
      BY <3>1, <3>3, <2>2, <1>6, Zenon DEF SafeStart
  <2> QED
    BY <2>1, <2>2, Zenon
<1> QED
  BY <1>2, <1>4, <1>5, <1>6, <1>7, Zenon

\* Appending to what was delivered
LEMMA Appended ==
    ASSUME NEW T, NEW o \in Seq(T), NEW h \in T
    PROVE  /\ Append(o, h) \in Seq(T) /\ Len(Append(o, h)) = Len(o) + 1
           /\ Append(o, h)[Len(o) + 1] = h /\ \A i \in 1 .. Len(o) : Append(o, h)[i] = o[i]
           /\ Elems(Append(o, h)) = Elems(o) \union {h}
<1>1. /\ Append(o, h) \in Seq(T) /\ Len(Append(o, h)) = Len(o) + 1 /\ Len(o) \in Nat
      /\ Append(o, h)[Len(o) + 1] = h /\ \A i \in 1 .. Len(o) : Append(o, h)[i] = o[i]
      /\ DOMAIN o = 1 .. Len(o) /\ DOMAIN Append(o, h) = 1 .. (Len(o) + 1)
  OBVIOUS
<1>2. \A i \in 1 .. (Len(o) + 1) : i \in 1 .. Len(o) \/ i = Len(o) + 1
  BY <1>1
<1> DEFINE a == Append(o, h)
<1> HIDE DEF a
<1>3. Elems(a) = Elems(o) \union {h}
  <2>1. \A x \in Elems(a) : x \in Elems(o) \union {h}
    BY <1>1, <1>2, Zenon DEF Elems, a
  <2>2. \A x \in Elems(o) : x \in Elems(a)
    BY <1>1 DEF Elems, a
  <2>3. h \in Elems(a)
    BY <1>1 DEF Elems, a
  <2> QED
    BY <2>1, <2>2, <2>3, Zenon
<1> QED
  BY <1>1, <1>3, Zenon DEF a

\* The first item of the queue as catchupPcre takes it
Top == Head(queue)

\* catchupPcre calls back for the top of the queue: the scan has not been stopped, the
\* match is not of a pattern that was given up and ends no earlier than any match
\* delivered so far, and it ends before the place where Hyperscan is.
LEMMA Delivery ==
    ASSUME Numbers, ChimeraInv, Deliver
    PROVE  /\ halted = "no" /\ ret = CH_SUCCESS
           /\ Top \in Items /\ Top \in Elems(queue) /\ Top.id \in Ids
           /\ Top.id \in active \ given /\ Top.to <= scanStart[Top.id]
           /\ Tail(queue) \in Seq(Items) /\ Removes(Tail(queue), queue, Top)
           /\ Distinct(queue) /\ Len(queue) <= Cardinality(Ids) /\ Cardinality(Ids) \in Nat
           /\ out' = Append(out, Top) /\ out' \in Seq(Items)
           /\ Elems(out') = Elems(out) \union {Top}
           /\ DeliveredInOrder'
           /\ \A x \in Elems(queue) : \A y \in Elems(out') : y.to <= x.to
           /\ pc = "catchup" => /\ \A y \in Elems(out') : y.to < at
                                /\ Top.id # event.id => \E x \in Elems(Tail(queue)) :
                                      x.id = event.id /\ x.to < event.to
           /\ pc # "catchup" => pc = "flush" /\ event = NoEvent /\ Top.id # event.id
<1>1. /\ db \in Databases /\ queue \in Seq(Items) /\ out \in Seq(Items) /\ Sorted(queue)
      /\ queue # <<>> /\ Head(queue).to <= event.to /\ out' = Append(out, Top)
      /\ pc \in {"catchup", "flush"}
  BY Zenon DEF ChimeraInv, TypeOK, QueueInv, Deliver, InCatchup, Top
<1>2. halted = "no" /\ ret = CH_SUCCESS
  BY <1>1, Zenon DEF ChimeraInv, CallInv
<1>3. /\ Items \subseteq NatItems /\ IsFiniteSet(Ids) /\ Cardinality(Ids) \in Nat
      /\ NoId \notin Ids
  BY <1>1, Patterns, Zenon
<1>4. Top \in Items /\ Tail(queue) \in Seq(Items) /\ Removes(Tail(queue), queue, Top)
  BY <1>1, <1>3, Popped, Zenon DEF Top
<1>5. Top \in Elems(queue) /\ Top.id \in Ids /\ Top.to \in 0 .. Length
  BY <1>4, Zenon DEF Removes, Items
<1>6. /\ Top.id \in active \ given /\ Top.to <= scanStart[Top.id] /\ Distinct(queue)
      /\ \A x \in Elems(queue) : \A y \in Elems(out) : y.to <= x.to
  BY <1>2, <1>5, Zenon DEF ChimeraInv, LiveInv
<1>7. Len(queue) <= Cardinality(Ids)
  <2>1. \A x \in Elems(queue) : x \in Items
    BY <1>1, ElemsIn, Zenon
  <2>2. \A x \in Elems(queue) : x.id \in Ids
    BY <2>1, Zenon DEF Items
  <2> QED
    BY <1>1, <1>3, <1>6, <2>2, DistinctLen, Zenon
<1>8. /\ out' \in Seq(Items) /\ Elems(out') = Elems(out) \union {Top}
      /\ Len(out') = Len(out) + 1 /\ out'[Len(out) + 1] = Top
      /\ \A i \in 1 .. Len(out) : out'[i] = out[i]
  BY <1>1, <1>4, Appended
<1>9. \A x \in Elems(queue) : \A y \in Elems(out') : y.to <= x.to
  BY <1>4, <1>6, <1>8, Zenon DEF Removes
<1>10. DeliveredInOrder'
  <2> SUFFICES ASSUME NEW i \in 1 .. (Len(out') - 1) PROVE out'[i].to <= out'[i + 1].to
    BY Zenon DEF DeliveredInOrder
  <2>1. Len(out) \in Nat /\ i \in 1 .. Len(out) /\ DOMAIN out = 1 .. Len(out)
    BY <1>1, <1>8
  <2>2. CASE i < Len(out)
    <3>1. i \in 1 .. (Len(out) - 1) /\ i + 1 \in 1 .. Len(out)
      BY <2>1, <2>2
    <3> QED
      BY <3>1, <2>1, <1>8, Zenon DEF ChimeraInv, DeliveredInOrder
  <2>3. CASE i = Len(out)
    <3>1. out[i] \in Elems(out)
      BY <2>1, Zenon DEF Elems
    <3> QED
      BY <3>1, <2>1, <2>3, <1>5, <1>6, <1>8, Zenon
  <2>4. \A n \in Nat : \A j \in 1 .. n : j < n \/ j = n
    OBVIOUS
  <2>5. i < Len(out) \/ i = Len(out)
    BY <2>1, <2>4, Zenon
  <2> QED
    BY <2>2, <2>3, <2>5, Zenon
<1>11. ASSUME pc = "catchup"
       PROVE  /\ \A y \in Elems(out') : y.to < at
              /\ Top.id # event.id => \E x \in Elems(Tail(queue)) :
                    x.id = event.id /\ x.to < event.to
  <2>1. PICK x \in Elems(queue) : x.id = event.id /\ x.to < event.to
    BY <1>2, <1>11, Zenon DEF ChimeraInv, Caught
  <2>2. ASSUME NEW y \in Elems(out') PROVE y.to < at
    <3>1. y \in Items /\ x \in Items
      BY <1>1, <1>8, ElemsIn, Zenon
    <3>2. y.to \in Nat /\ x.to \in Nat
      BY <3>1, <1>3, Zenon DEF NatItems
    <3>3. y.to <= x.to /\ x.to < event.to
      BY <2>1, <1>9, Zenon
    <3>4. event.to \in {at - 1, at} /\ at \in 0 .. Length /\ Length \in Nat
      BY <1>11, ChimeraAssumption, Zenon DEF ChimeraInv, EventInv, TypeOK
    <3> QED
      BY <3>2, <3>3, <3>4
  <2> QED
    BY <2>1, <2>2, <1>4, Zenon DEF Removes
<1>12. pc # "catchup" => pc = "flush" /\ event = NoEvent /\ Top.id # event.id
  BY <1>1, <1>3, <1>5, SMTT(30) DEF ChimeraInv, EventInv, NoEvent
<1> QED
  BY <1>1, <1>2, <1>3, <1>4, <1>5, <1>6, <1>7, <1>8, <1>9, <1>10, <1>11, <1>12, Zenon

\* When nothing is queued for the match that was delivered, what is known of the rest
\* of the queue stays: only the pattern of the match may be scanned from elsewhere or
\* be given up.
LEMMA PopKeeps ==
    ASSUME Numbers, ChimeraInv, Deliver, CatchupConsts, queue' = Tail(queue), match' = match,
           scanStart' \in [Ids -> 0 .. (Length + 1)],
           \A p \in Ids \ {Top.id} : scanStart'[p] = scanStart[p],
           given' \subseteq given \union {Top.id},
           halted' = "no" /\ Top.id \in given' => Length <= scanStart'[Top.id]
    PROVE  /\ queue' \in Seq(Items) /\ Len(queue') + 1 <= Cardinality(Ids)
           /\ Sorted(queue') /\ (\A x \in Elems(queue) : SafeStart(x))'
           /\ LiveInv'
<1>1. /\ Tail(queue) \in Seq(Items) /\ Removes(Tail(queue), queue, Top) /\ halted = "no"
      /\ Distinct(queue) /\ Len(queue) <= Cardinality(Ids) /\ Cardinality(Ids) \in Nat
      /\ Top.id \in active \ given /\ Elems(out') = Elems(out) \union {Top}
      /\ \A x \in Elems(queue) : \A y \in Elems(out') : y.to <= x.to
  BY Delivery, Zenon
<1>2. db' = db /\ text' = text /\ active' = active
  BY Zenon DEF CatchupConsts
<1>3. /\ Len(queue') = Len(queue) - 1 /\ Elems(queue') \subseteq Elems(queue)
      /\ Sorted(queue') /\ Distinct(queue')
      /\ \A x \in Elems(queue') : x.id # Top.id
  BY <1>1, Zenon DEF Removes
<1>4. Len(queue) \in Nat /\ \A x \in Elems(queue') : x \in Items
  <2>1. queue \in Seq(Items) /\ queue' \in Seq(Items)
    BY <1>1, Zenon DEF ChimeraInv, TypeOK
  <2>2. \A x \in Elems(queue') : x \in Items
    BY <2>1, ElemsIn, Zenon
  <2> QED
    BY <2>1, <2>2, SMTT(30)
<1>5. \A x \in Elems(queue') : x.id \in Ids /\ scanStart'[x.id] = scanStart[x.id]
  BY <1>3, <1>4, Zenon DEF Items
<1>6. (\A x \in Elems(queue) : SafeStart(x))'
  BY <1>2, <1>3, <1>5, Zenon DEF SafeStart, ChimeraInv, QueueInv
<1>7. LiveInv'
  <2> SUFFICES ASSUME halted' = "no"
               PROVE  /\ Distinct(queue') /\ given' \subseteq active'
                      /\ \A p \in given' : Fixed(p)' => Length <= scanStart'[p]
                      /\ \A x \in Elems(queue') :
                            /\ x.id \in active' \ given'
                            /\ match'[x.id] = <<x.from, x.to>>
                            /\ x.to <= scanStart'[x.id]
                            /\ \A y \in Elems(out') : y.to <= x.to
    BY Zenon DEF LiveInv
  <2>1. /\ given \subseteq active /\ active \subseteq Ids
        /\ \A p \in given : Fixed(p) => Length <= scanStart[p]
        /\ \A x \in Elems(queue) : /\ x.id \in active \ given
                                   /\ match[x.id] = <<x.from, x.to>>
                                   /\ x.to <= scanStart[x.id]
    BY <1>1, Zenon DEF ChimeraInv, LiveInv, TypeOK
  <2>2. given' \subseteq active'
    BY <2>1, <1>1, <1>2, Zenon
  <2>3. ASSUME NEW p \in given', Fixed(p)' PROVE Length <= scanStart'[p]
    <3>1. CASE p = Top.id
      BY <3>1, <2>3, Zenon
    <3>2. CASE p # Top.id
      BY <3>2, <2>1, <2>3, <1>2, SameDb, Zenon
    <3> QED
      BY <3>1, <3>2, Zenon
  <2>4. ASSUME NEW x \in Elems(queue')
        PROVE  /\ x.id \in active' \ given'
               /\ match'[x.id] = <<x.from, x.to>>
               /\ x.to <= scanStart'[x.id]
               /\ \A y \in Elems(out') : y.to <= x.to
    BY <2>1, <1>1, <1>2, <1>3, <1>5, Zenon
  <2> QED
    BY <2>2, <2>3, <2>4, <1>3, Zenon
<1> QED
  BY <1>1, <1>3, <1>4, <1>6, <1>7, SMTT(30)

Codes == {CH_SUCCESS, CH_CALLBACK_TERMINATE, CH_SCAN_TERMINATED, CH_FAIL_INTERNAL}

\* The value catchupPcre returns tells who stopped the scan.
Tells(r, who) ==
    \/ r = CH_SUCCESS /\ who = "no"
    \/ r = CH_SCAN_TERMINATED /\ who = "user"
    \/ r = CH_FAIL_INTERNAL /\ who = "pcre"

\* catchupPcre returns to multiCallback, or the scan returns.
LEMMA Leaving ==
    ASSUME ChimeraInv, InCatchup, NEW r, Leave(r), Tells(r, halted')
    PROVE  /\ CallInv' /\ halted' \in {"no", "user", "pcre"}
           /\ pc' = (IF pc = "flush" THEN "idle" ELSE "resume")
           /\ inUse' \in BOOLEAN /\ ret' \in Codes /\ result' \in Codes
<1>1. /\ inUse \in BOOLEAN /\ ret \in Codes /\ result \in Codes /\ pc \in {"catchup", "flush"}
      /\ r \in Codes /\ halted' \in {"no", "user", "pcre"}
  BY Zenon DEF ChimeraInv, TypeOK, InCatchup, Codes, Tells
<1>2. CASE pc = "flush"
  <2>1. pc' = "idle" /\ result' = r /\ inUse' = FALSE /\ ret' = ret
    BY <1>2, Zenon DEF Leave, Return, unmarkScratchInUse
  <2>2. ReturnTells'
    BY <2>1, Zenon DEF ReturnTells, Tells
  <2>3. CallInv'
    BY <2>1, <2>2, Zenon DEF CallInv
  <2> QED
    BY <2>1, <2>3, <1>1, <1>2, Zenon
<1>3. CASE pc = "catchup"
  <2>1. pc' = "resume" /\ ret' = r /\ result' = result /\ inUse' = inUse
    BY <1>3, Zenon DEF Leave
  <2>2. CallInv'
    BY <2>1, Zenon DEF CallInv, Tells
  <2> QED
    BY <2>1, <2>2, <1>1, <1>3, Zenon
<1> QED
  BY <1>1, <1>2, <1>3, Zenon

\* catchupPcre goes on with its loop.
LEMMA Staying ==
    ASSUME ChimeraInv, UNCHANGED <<pc, ret, result, inUse, halted>>
    PROVE  /\ CallInv' /\ halted' \in {"no", "user", "pcre"}
           /\ inUse' \in BOOLEAN /\ ret' \in Codes /\ result' \in Codes
  BY Zenon DEF ChimeraInv, CallInv, ReturnTells, TypeOK, Codes

\* The types of the variables, and what catchupPcre does not change
LEMMA CatchupKeeps ==
    ASSUME ChimeraInv, InCatchup, CatchupConsts, queue' \in Seq(Items), out' \in Seq(Items),
           scanStart' \in [Ids -> 0 .. (Length + 1)], match' \in [Ids -> Spans \union {NoSpan}],
           given' \subseteq Ids, inUse' \in BOOLEAN, ret' \in Codes, result' \in Codes,
           halted' \in {"no", "user", "pcre"},
           pc' = pc \/ pc' = (IF pc = "flush" THEN "idle" ELSE "resume"),
           pc = "catchup" => \A y \in Elems(out') : y.to < at
    PROVE  TypeOK' /\ TextOK' /\ EventInv' /\ StageInv'
<1>1. /\ db' = db /\ text' = text /\ active' = active /\ left' = left /\ at' = at
      /\ raised' = raised /\ event' = event /\ scans' = scans
  BY Zenon DEF CatchupConsts
<1>2. /\ Ids' = Ids /\ Items' = Items /\ Unguarded' = Unguarded
      /\ \A p : Fixed(p)' = Fixed(p)
  BY <1>1, SameDb, Zenon
<1>3. TextOK'
  BY <1>1, SameText, Zenon DEF ChimeraInv
<1>4. pc \in {"catchup", "flush"}
  BY Zenon DEF InCatchup
<1>5. TypeOK'
  BY <1>1, <1>2, <1>4, Zenon DEF ChimeraInv, TypeOK, Codes
<1>6. EventInv'
  BY <1>1, <1>2, <1>4, Zenon DEF ChimeraInv, EventInv
<1>7. StageInv'
  BY <1>1, <1>2, <1>4, Zenon DEF ChimeraInv, StageInv, Scanning
<1> QED
  BY <1>3, <1>5, <1>6, <1>7, Zenon

\* When the match of a pattern was delivered and no other queued for it, Hyperscan will
\* not report that pattern again, or its report is the one being caught up with.
LEMMA PopCaught ==
    ASSUME Numbers, ChimeraInv, Deliver, CatchupConsts, queue' = Tail(queue), halted' = "no",
           \A p \in Ids \ {Top.id} : scanStart'[p] = scanStart[p],
           pc' = pc \/ pc' = (IF pc = "flush" THEN "idle" ELSE "resume"),
           pc' = "catchup" => Top.id # event.id,
           pc' = "resume" => Top.id = event.id,
           \/ db[Top.id].single \/ ~(scanStart'[Top.id] < Length)
           \/ pc' = "resume"
    PROVE  Caught'
<1>1. /\ db' = db /\ active' = active /\ event' = event /\ \A p : Fixed(p)' = Fixed(p)
  BY SameDb, Zenon DEF CatchupConsts
<1>2. /\ halted = "no" /\ Removes(Tail(queue), queue, Top) /\ Distinct(queue)
      /\ pc = "catchup" /\ Top.id # event.id => \E x \in Elems(Tail(queue)) :
            x.id = event.id /\ x.to < event.to
      /\ pc # "catchup" => pc = "flush"
  BY Delivery, Zenon
<1>3. /\ Elems(queue) = Elems(queue') \union {Top}
      /\ \A x \in Elems(queue') : x.id # Top.id
  BY <1>2, Zenon DEF Removes
<1>4. ASSUME Scanning', NEW p \in active', Fixed(p)', ~db'[p].single, scanStart'[p] < Length,
             pc' = "resume" => p # event'.id
      PROVE  Queued(p)'
  <2>1. p # Top.id
    BY <1>1, <1>4, Zenon
  <2>2. pc = "catchup" /\ p \in Ids
    BY <1>1, <1>2, <1>4, Zenon DEF Scanning, ChimeraInv, TypeOK
  <2>3. Queued(p)
    BY <2>1, <2>2, <1>1, <1>2, <1>4, Zenon DEF ChimeraInv, Caught, Scanning
  <2> QED
    BY <2>1, <2>3, <1>3, Zenon DEF Queued
<1>5. ASSUME pc' = "catchup"
      PROVE  \E x \in Elems(queue') : x.id = event'.id /\ x.to < event'.to
  BY <1>1, <1>2, <1>5, Zenon
<1>6. ASSUME pc' = "resume" PROVE ~Queued(event.id)'
  BY <1>1, <1>3, <1>6, Zenon DEF Queued
<1> QED
  BY <1>4, <1>5, <1>6, Zenon DEF Caught

\* A match was delivered and none queued for its pattern.
LEMMA PopInv ==
    ASSUME Numbers, ChimeraInv, Deliver, CatchupConsts, queue' = Tail(queue), match' = match,
           scanStart' \in [Ids -> 0 .. (Length + 1)],
           \A p \in Ids \ {Top.id} : scanStart'[p] = scanStart[p],
           given' \subseteq given \union {Top.id},
           CallInv', halted' \in {"no", "user", "pcre"},
           inUse' \in BOOLEAN, ret' \in Codes, result' \in Codes,
           pc' = pc \/ pc' = (IF pc = "flush" THEN "idle" ELSE "resume"),
           halted' = "no" =>
               /\ Top.id \in given' => Length <= scanStart'[Top.id]
               /\ pc' = "catchup" => Top.id # event.id
               /\ pc' = "resume" => Top.id = event.id
               /\ \/ db[Top.id].single \/ ~(scanStart'[Top.id] < Length)
                  \/ pc' = "resume"
    PROVE  ChimeraInv'
<1>1. /\ Top.id \in Ids /\ out' \in Seq(Items) /\ DeliveredInOrder'
      /\ pc = "catchup" => \A y \in Elems(out') : y.to < at
  BY Delivery, Zenon
<1>2. given' \subseteq Ids /\ match' \in [Ids -> Spans \union {NoSpan}]
  BY <1>1, Zenon DEF ChimeraInv, TypeOK
<1>3. /\ queue' \in Seq(Items) /\ Len(queue') + 1 <= Cardinality(Ids)
      /\ Sorted(queue') /\ (\A x \in Elems(queue) : SafeStart(x))'
      /\ LiveInv'
  BY PopKeeps, Zenon
<1>4. InCatchup
  BY Zenon DEF Deliver
<1>5. TypeOK' /\ TextOK' /\ EventInv' /\ StageInv'
  BY <1>1, <1>2, <1>3, <1>4, CatchupKeeps, Zenon
<1>6. QueueInv'
  <2>1. db' = db /\ Len(queue') \in Nat /\ Cardinality(Ids) \in Nat
    BY <1>3, Patterns, SMTT(30) DEF CatchupConsts, ChimeraInv, TypeOK
  <2>2. Len(queue') + (IF pc' = "resume" THEN 1 ELSE 0) <= Cardinality(Ids')
    BY <2>1, <1>3, SameDb
  <2> QED
    BY <2>2, <1>3, Zenon DEF QueueInv, SafeStart
<1>7. Caught'
  <2>1. CASE halted' = "no"
    BY <2>1, PopCaught, Zenon
  <2>2. CASE halted' # "no"
    BY <2>2, Zenon DEF Caught
  <2> QED
    BY <2>1, <2>2, Zenon
<1> QED
  BY <1>1, <1>3, <1>5, <1>6, <1>7, Zenon DEF ChimeraInv

\* The callback stops the scan.
LEMMA TerminatedInv ==
    ASSUME Numbers, ChimeraInv, Terminated
    PROVE  ChimeraInv'
<1>1. /\ Deliver /\ CatchupConsts /\ queue' = Tail(queue) /\ halted' = "user"
      /\ Leave(CH_SCAN_TERMINATED) /\ scanStart' = scanStart /\ match' = match /\ given' = given
      /\ InCatchup /\ scanStart \in [Ids -> 0 .. (Length + 1)]
  BY Zenon DEF Terminated, Deliver, ChimeraInv, TypeOK
<1>2. Tells(CH_SCAN_TERMINATED, halted')
  BY <1>1, Zenon DEF Tells
<1>3. /\ CallInv' /\ halted' \in {"no", "user", "pcre"}
      /\ pc' = (IF pc = "flush" THEN "idle" ELSE "resume")
      /\ inUse' \in BOOLEAN /\ ret' \in Codes /\ result' \in Codes
  BY <1>1, <1>2, Leaving, Zenon
<1>4. halted' # "no" /\ given' \subseteq given \union {Top.id}
  BY <1>1, Zenon
<1> QED
  BY <1>1, <1>3, <1>4, PopInv, Zenon

\* The callback skips the pattern.
LEMMA SkippedInv ==
    ASSUME Numbers, ChimeraInv, Skipped
    PROVE  ChimeraInv'
<1>1. /\ Deliver /\ CatchupConsts /\ queue' = Tail(queue) /\ halted' = halted /\ InCatchup
      /\ scanStart' = [scanStart EXCEPT ![Top.id] = Length] /\ match' = match
      /\ given' = given \union {Top.id} /\ scanStart \in [Ids -> 0 .. (Length + 1)]
      /\ IF Top.id = event.id THEN Leave(CH_SUCCESS) ELSE UNCHANGED <<pc, ret, result, inUse>>
  BY Zenon DEF Skipped, Deliver, ChimeraInv, TypeOK, Top
<1>2. /\ halted = "no" /\ Top.id \in Ids /\ Length \in Nat
      /\ pc # "catchup" => pc = "flush" /\ Top.id # event.id
  BY <1>1, Delivery, ChimeraAssumption, Zenon
<1>3. /\ scanStart' \in [Ids -> 0 .. (Length + 1)]
      /\ \A p \in Ids \ {Top.id} : scanStart'[p] = scanStart[p]
      /\ Length <= scanStart'[Top.id] /\ ~(scanStart'[Top.id] < Length)
  BY <1>1, <1>2
<1>4. /\ CallInv' /\ halted' \in {"no", "user", "pcre"}
      /\ inUse' \in BOOLEAN /\ ret' \in Codes /\ result' \in Codes
      /\ IF Top.id = event.id THEN pc' = "resume" ELSE pc' = pc
  <2>1. CASE Top.id = event.id
    <3>1. Tells(CH_SUCCESS, halted') /\ Leave(CH_SUCCESS) /\ pc = "catchup"
      BY <2>1, <1>1, <1>2, Zenon DEF Tells
    <3> QED
      BY <3>1, <2>1, <1>1, Leaving, Zenon
  <2>2. CASE Top.id # event.id
    BY <2>2, <1>1, Staying, Zenon
  <2> QED
    BY <2>1, <2>2, Zenon
<1>5. /\ pc' = pc \/ pc' = (IF pc = "flush" THEN "idle" ELSE "resume")
      /\ pc' = "catchup" => Top.id # event.id
      /\ pc' = "resume" => Top.id = event.id
  BY <1>1, <1>2, <1>4, Zenon
<1>6. given' \subseteq given \union {Top.id}
  BY <1>1, Zenon
<1> QED
  BY <1>1, <1>3, <1>4, <1>5, <1>6, PopInv, Zenon

\* The earlier match of the pattern that Hyperscan reports has been delivered.
LEMMA CaughtUpInv ==
    ASSUME Numbers, ChimeraInv, CaughtUp
    PROVE  ChimeraInv'
<1>1. /\ Deliver /\ CatchupConsts /\ queue' = Tail(queue) /\ halted' = halted /\ InCatchup
      /\ scanStart' = scanStart /\ match' = match /\ given' = given
      /\ scanStart \in [Ids -> 0 .. (Length + 1)]
      /\ Top.id = event.id /\ Leave(CH_SUCCESS)
  BY Zenon DEF CaughtUp, Deliver, ChimeraInv, TypeOK, Top
<1>2. /\ halted = "no" /\ Top.id \notin given
      /\ pc # "catchup" => Top.id # event.id
  BY <1>1, Delivery, Zenon
<1>3. Tells(CH_SUCCESS, halted') /\ pc = "catchup"
  BY <1>1, <1>2, Zenon DEF Tells
<1>4. /\ CallInv' /\ halted' \in {"no", "user", "pcre"} /\ pc' = "resume"
      /\ inUse' \in BOOLEAN /\ ret' \in Codes /\ result' \in Codes
  BY <1>1, <1>3, Leaving, Zenon
<1>5. /\ given' \subseteq given \union {Top.id} /\ Top.id \notin given' /\ pc' # "catchup"
      /\ pc' = (IF pc = "flush" THEN "idle" ELSE "resume")
  BY <1>1, <1>2, <1>3, <1>4, Zenon
<1> QED
  BY <1>1, <1>4, <1>5, PopInv, Zenon

\* A match is queued for a pattern that has none in the queue and was not given up, and
\* that ends no earlier than what was delivered: what is known of the queue stays.
LEMMA LiveAdd ==
    ASSUME Numbers, ChimeraInv, halted = "no", halted' = "no",
           NEW p \in Ids, NEW s \in text.spans[p],
           NEW base \in Seq(Items), Sorted(base), Distinct(base),
           Elems(base) \subseteq Elems(queue), \A x \in Elems(base) : x.id # p,
           db' = db, text' = text, p \notin given, given' = given,
           active' = active \union {p},
           queue' = PqInsert(base, s[1], s[2], p), match' = [match EXCEPT ![p] = s],
           scanStart' = [scanStart EXCEPT ![p] = NextStart(p, s[1], s[2])],
           \A y \in Elems(out') : y.to <= s[2],
           \A x \in Elems(base) : \A y \in Elems(out') : y.to <= x.to
    PROVE  /\ queue' \in Seq(Items)
           /\ scanStart' \in [Ids -> 0 .. (Length + 1)]
           /\ match' \in [Ids -> Spans \union {NoSpan}]
           /\ Elems(queue') = Elems(base) \union {[from |-> s[1], to |-> s[2], id |-> p]}
           /\ \A r \in Ids \ {p} : scanStart'[r] = scanStart[r]
           /\ QueueInv' /\ LiveInv'
<1>1. /\ db \in Databases /\ TextOK /\ scanStart \in [Ids -> 0 .. (Length + 1)]
      /\ match \in [Ids -> Spans \union {NoSpan}] /\ given \subseteq Ids
  BY ZenonT(30) DEF ChimeraInv, TypeOK
<1>2. \A x \in Elems(base) : SafeStart(x)
  BY ZenonT(30) DEF ChimeraInv, QueueInv, SafeStart
<1>3. /\ queue' \in Seq(Items)
      /\ scanStart' \in [Ids -> 0 .. (Length + 1)]
      /\ match' \in [Ids -> Spans \union {NoSpan}]
      /\ Sorted(queue') /\ (\A x \in Elems(queue) : SafeStart(x))'
      /\ Elems(queue') = Elems(base) \union {[from |-> s[1], to |-> s[2], id |-> p]}
      /\ Distinct(queue')
      /\ \A r \in Ids \ {p} : match'[r] = match[r] /\ scanStart'[r] = scanStart[r]
      /\ match'[p] = <<s[1], s[2]>> /\ s[2] <= scanStart'[p]
  BY <1>1, <1>2, AddMatch, ZenonT(30)
<1>4. QueueInv'
  BY <1>3, Zenon DEF QueueInv, SafeStart
<1>5. /\ given \subseteq active
      /\ \A r \in given : Fixed(r) => Length <= scanStart[r]
      /\ \A x \in Elems(base) : /\ x.id \in active \ given
                                /\ match[x.id] = <<x.from, x.to>>
                                /\ x.to <= scanStart[x.id]
  BY Zenon DEF ChimeraInv, LiveInv
<1>6. LiveInv'
  <2>1. ASSUME NEW r \in given', Fixed(r)' PROVE Length <= scanStart'[r]
    BY <2>1, <1>1, <1>3, <1>5, SameDb, ZenonT(30)
  <2>2. ASSUME NEW x \in Elems(base)
        PROVE  /\ x.id \in active' \ given'
               /\ match'[x.id] = <<x.from, x.to>>
               /\ x.to <= scanStart'[x.id]
               /\ \A y \in Elems(out') : y.to <= x.to
    <3>1. x \in Items
      BY ElemsIn, Zenon
    <3>2. x.id \in Ids \ {p}
      BY <3>1, Zenon DEF Items
    <3> QED
      BY <3>2, <1>3, <1>5, Zenon
  <2>3. ASSUME NEW x, x = [from |-> s[1], to |-> s[2], id |-> p]
        PROVE  /\ x.id \in active' \ given'
               /\ match'[x.id] = <<x.from, x.to>>
               /\ x.to <= scanStart'[x.id]
               /\ \A y \in Elems(out') : y.to <= x.to
    BY <2>3, <1>3, Zenon
  <2>4. given' \subseteq active'
    BY <1>5, ZenonT(30)
  <2>5. \A x \in Elems(queue') :
               /\ x.id \in active' \ given'
               /\ match'[x.id] = <<x.from, x.to>>
               /\ x.to <= scanStart'[x.id]
               /\ \A y \in Elems(out') : y.to <= x.to
    BY <2>2, <2>3, <1>3, ZenonT(30)
  <2> QED
    BY <2>1, <2>4, <2>5, <1>3, ZenonT(30) DEF LiveInv
<1> QED
  BY <1>3, <1>4, <1>6, Zenon

\* After a delivery PCRE has found the next match of the pattern.
LEMMA RescanFound ==
    ASSUME Numbers, ChimeraInv, Deliver, CatchupConsts, Top.id # event.id,
           NEW o \in ScanOutcomes(Top.id, scanStart[Top.id]), Rescan(Top.id, o), Found(o)
    PROVE  ChimeraInv'
<1>1. /\ halted = "no" /\ Top.id \in Ids /\ Top.id \in active \ given
      /\ Top.to <= scanStart[Top.id]
      /\ Tail(queue) \in Seq(Items) /\ Removes(Tail(queue), queue, Top) /\ Distinct(queue)
      /\ Elems(out') = Elems(out) \union {Top} /\ out' \in Seq(Items) /\ DeliveredInOrder'
      /\ \A x \in Elems(queue) : \A y \in Elems(out') : y.to <= x.to
      /\ pc = "catchup" => /\ \A y \in Elems(out') : y.to < at
                           /\ \E x \in Elems(Tail(queue)) : x.id = event.id /\ x.to < event.to
      /\ pc # "catchup" => pc = "flush"
  BY Delivery, ZenonT(30)
<1>2. /\ db \in Databases /\ TextOK /\ scanStart \in [Ids -> 0 .. (Length + 1)]
      /\ given \subseteq Ids /\ active \subseteq Ids /\ Length \in Nat /\ Items \subseteq NatItems
  BY Patterns, ZenonT(30) DEF ChimeraInv, TypeOK
<1>3. scanStart[Top.id] \in Nat
  <2>1. Top.id \in Ids /\ scanStart \in [Ids -> 0 .. (Length + 1)] /\ Length \in Nat
    BY <1>1, <1>2, Zenon
  <2> QED
    BY <2>1
<1>4. /\ o.ret = CH_SUCCESS /\ o.span \in text.spans[Top.id] /\ scanStart[Top.id] <= o.span[1]
      /\ ~Lost(Top.id, scanStart[Top.id], o)
  BY <1>1, <1>2, <1>3, Outcomes, ZenonT(30)
<1>5. ~Stops(o)
  BY <1>4 DEF Stops, CH_SUCCESS, CH_CALLBACK_TERMINATE, CH_FAIL_INTERNAL
<1>6. /\ queue' = PqInsert(Tail(queue), o.span[1], o.span[2], Top.id)
      /\ match' = [match EXCEPT ![Top.id] = o.span]
      /\ scanStart' = [scanStart EXCEPT ![Top.id] = NextStart(Top.id, o.span[1], o.span[2])]
      /\ given' = given /\ UNCHANGED <<pc, ret, result, inUse, halted>>
  BY <1>2, <1>4, <1>5, Zenon DEF Rescan, ScanQueue, ScanMatch, ScanNext
<1>7. db' = db /\ text' = text /\ active' = active /\ event' = event /\ at' = at
  BY Zenon DEF CatchupConsts
<1>8. /\ Elems(queue) = Elems(Tail(queue)) \union {Top} /\ Sorted(Tail(queue))
      /\ Distinct(Tail(queue)) /\ \A x \in Elems(Tail(queue)) : x.id # Top.id
  BY <1>1, Zenon DEF Removes
<1>9. \A y \in Elems(out') : y.to <= o.span[2]
  <2>1. o.span[1] \in Nat /\ o.span[2] \in Nat /\ o.span[1] <= o.span[2]
    <3>1. /\ o.span[1] \in 0 .. Length /\ o.span[2] \in 0 .. Length
          /\ o.span[1] <= o.span[2]
      BY <1>1, <1>2, <1>4, SpanItem, Zenon
    <3> QED
      BY <3>1, <1>2
  <2>2. Top.to \in Nat /\ Top.to <= o.span[2]
    <3>1. Top \in Items
      BY Delivery, Zenon
    <3>2. Top.to \in Nat
      BY <3>1, <1>2, Zenon DEF NatItems
    <3>3. Top.to <= scanStart[Top.id] /\ scanStart[Top.id] <= o.span[1]
      BY <1>1, <1>4, Zenon
    <3> QED
      BY <3>2, <3>3, <2>1, <1>3
  <2>3. \A y \in Elems(out') : y.to \in Nat /\ y.to <= Top.to
    <3>1. \A y \in Elems(out') : y \in Items
      BY <1>1, ElemsIn, Zenon
    <3>2. Items \subseteq NatItems
      BY <1>2, Zenon
    <3>3. \A y \in Elems(out') : y.to \in Nat
      BY <3>1, <3>2, Zenon DEF NatItems
    <3>4. \A y \in Elems(out') : y.to <= Top.to
      BY <1>1, <1>8, Zenon
    <3> QED
      BY <3>3, <3>4, Zenon
  <2> QED
    BY <2>1, <2>2, <2>3, SMTT(30)
<1>10. halted' = "no" /\ active' = active \union {Top.id} /\ Top.id \notin given
  BY <1>1, <1>6, <1>7, ZenonT(30)
<1>11. Elems(Tail(queue)) \subseteq Elems(queue)
  BY <1>8, Zenon
<1>12. /\ queue' \in Seq(Items)
       /\ scanStart' \in [Ids -> 0 .. (Length + 1)]
       /\ match' \in [Ids -> Spans \union {NoSpan}]
       /\ Elems(queue') = Elems(Tail(queue)) \union
                            {[from |-> o.span[1], to |-> o.span[2], id |-> Top.id]}
       /\ \A r \in Ids \ {Top.id} : scanStart'[r] = scanStart[r]
       /\ QueueInv' /\ LiveInv'
  <2>1. \A x \in Elems(Tail(queue)) : \A y \in Elems(out') : y.to <= x.to
    BY <1>1, <1>11, ZenonT(30)
  <2> QED
    BY <2>1, <1>1, <1>4, <1>6, <1>7, <1>8, <1>9, <1>10, <1>11, LiveAdd, Zenon
<1>13. /\ CallInv' /\ halted' \in {"no", "user", "pcre"}
       /\ inUse' \in BOOLEAN /\ ret' \in Codes /\ result' \in Codes
  BY <1>6, Staying, ZenonT(30)
<1>14. TypeOK' /\ TextOK' /\ EventInv' /\ StageInv'
  <2>1. InCatchup /\ given' \subseteq Ids /\ pc' = pc
    BY <1>2, <1>6, Zenon DEF Deliver
  <2> QED
    BY <2>1, <1>1, <1>12, <1>13, CatchupKeeps, Zenon
<1>15. Caught'
  <2>1. \A p : Fixed(p)' = Fixed(p)
    BY <1>7, SameDb, ZenonT(30)
  <2>2. ASSUME Scanning', NEW p \in active', Fixed(p)', ~db'[p].single, scanStart'[p] < Length,
               pc' = "resume" => p # event'.id
        PROVE  Queued(p)'
    <3>1. CASE p = Top.id
      <4>1. [from |-> o.span[1], to |-> o.span[2], id |-> p] \in Elems(queue')
        BY <3>1, <1>12, Zenon
      <4> QED
        BY <4>1, Zenon DEF Queued
    <3>2. CASE p # Top.id
      <4>1. pc = "catchup" /\ p \in Ids /\ scanStart'[p] = scanStart[p]
        BY <2>2, <3>2, <1>1, <1>2, <1>6, <1>7, <1>12, ZenonT(30) DEF Scanning
      <4>2. Queued(p)
        BY <2>1, <2>2, <4>1, <1>1, <1>7, ZenonT(30) DEF ChimeraInv, Caught, Scanning
      <4> QED
        BY <4>2, <3>2, <1>8, <1>12, Zenon DEF Queued
    <3> QED
      BY <3>1, <3>2, Zenon
  <2>3. ASSUME pc' = "catchup"
        PROVE  \E x \in Elems(queue') : x.id = event'.id /\ x.to < event'.to
    BY <2>3, <1>1, <1>6, <1>7, <1>12, Zenon
  <2>4. pc' # "resume"
    BY <1>1, <1>6, Zenon
  <2> QED
    BY <2>2, <2>3, <2>4, ZenonT(30) DEF Caught
<1> QED
  BY <1>1, <1>12, <1>13, <1>14, <1>15, Zenon DEF ChimeraInv

\* After a delivery PCRE has found no further match, or has stopped the scan.
LEMMA RescanMissed ==
    ASSUME Numbers, ChimeraInv, Deliver, CatchupConsts, Top.id # event.id,
           NEW o \in ScanOutcomes(Top.id, scanStart[Top.id]), Rescan(Top.id, o), ~Found(o)
    PROVE  ChimeraInv'
<1>1. /\ halted = "no" /\ Top.id \in Ids /\ Top.id \notin given /\ InCatchup
      /\ pc # "catchup" => pc = "flush"
  BY Delivery, ZenonT(30) DEF Deliver
<1>2. /\ db \in Databases /\ TextOK /\ scanStart \in [Ids -> 0 .. (Length + 1)] /\ Length \in Nat
  BY Patterns, ZenonT(30) DEF ChimeraInv, TypeOK
<1>3. o.ret \in {CH_SUCCESS, CH_CALLBACK_TERMINATE, CH_CALLBACK_SKIP_PATTERN, CH_FAIL_INTERNAL}
  <2>1. scanStart[Top.id] \in Nat
    <3>1. Top.id \in Ids /\ scanStart \in [Ids -> 0 .. (Length + 1)] /\ Length \in Nat
      BY <1>1, <1>2, Zenon
    <3> QED
      BY <3>1
  <2> QED
    BY <2>1, <1>1, <1>2, Outcomes, ZenonT(30)
<1>4. /\ queue' = Tail(queue) /\ match' = match /\ given' \subseteq given \union {Top.id}
      /\ scanStart' = [scanStart EXCEPT ![Top.id] = IF Stops(o) THEN @ ELSE Length]
      /\ IF Stops(o) THEN Leave(ScanError(o)) /\ halted' = Halter(o)
         ELSE UNCHANGED <<pc, ret, result, inUse, halted>>
  BY Zenon DEF Rescan, ScanQueue, ScanMatch, ScanNext
<1>5. /\ scanStart' \in [Ids -> 0 .. (Length + 1)]
      /\ \A p \in Ids \ {Top.id} : scanStart'[p] = scanStart[p]
      /\ ~Stops(o) => scanStart'[Top.id] = Length
  <2>1. /\ Top.id \in Ids /\ scanStart \in [Ids -> 0 .. (Length + 1)] /\ Length \in Nat
        /\ scanStart' = [scanStart EXCEPT ![Top.id] = IF Stops(o) THEN @ ELSE Length]
    BY <1>1, <1>2, <1>4, Zenon
  <2> QED
    BY <2>1
<1>6. CASE Stops(o)
  <2>1. Tells(ScanError(o), halted') /\ halted' # "no"
    BY <1>3, <1>4, <1>6, Zenon DEF Stops, Tells, ScanError, Halter, CH_SUCCESS, CH_SCAN_TERMINATED,
                            CH_CALLBACK_TERMINATE, CH_FAIL_INTERNAL
  <2>2. /\ CallInv' /\ halted' \in {"no", "user", "pcre"}
        /\ pc' = (IF pc = "flush" THEN "idle" ELSE "resume")
        /\ inUse' \in BOOLEAN /\ ret' \in Codes /\ result' \in Codes
    BY <2>1, <1>1, <1>4, <1>6, Leaving, Zenon
  <2> QED
    BY <2>1, <2>2, <1>4, <1>5, PopInv, Zenon
<1>7. CASE ~Stops(o)
  <2>1. UNCHANGED <<pc, ret, result, inUse, halted>>
    BY <1>4, <1>7, Zenon
  <2>2. /\ CallInv' /\ halted' \in {"no", "user", "pcre"}
        /\ inUse' \in BOOLEAN /\ ret' \in Codes /\ result' \in Codes
    BY <2>1, Staying, Zenon
  <2>3. /\ pc' = pc /\ pc' # "resume" /\ Length <= scanStart'[Top.id]
        /\ ~(scanStart'[Top.id] < Length)
    BY <2>1, <1>1, <1>2, <1>5, <1>7
  <2> QED
    BY <2>2, <2>3, <1>4, <1>5, PopInv, Zenon
<1> QED
  BY <1>6, <1>7, Zenon

\* catchupPcre after a delivery: the next match of the pattern replaces the old one,
\* unless the pattern is single-match or at the end of the data.
LEMMA ContinuedInv ==
    ASSUME Numbers, ChimeraInv, Continued
    PROVE  ChimeraInv'
<1>1. Deliver /\ CatchupConsts /\ Top.id # event.id
  BY Zenon DEF Continued, Top
<1>2. CASE Rescans(Top.id)
  <2>1. PICK o \in ScanOutcomes(Top.id, scanStart[Top.id]) : Rescan(Top.id, o)
    BY <1>2, Zenon DEF Continued, Top
  <2> QED
    BY <1>1, <2>1, RescanFound, RescanMissed, Zenon
<1>3. CASE ~Rescans(Top.id)
  <2>1. /\ queue' = Tail(queue) /\ scanStart' = scanStart /\ match' = match /\ given' = given
        /\ UNCHANGED <<pc, ret, result, inUse, halted>>
    BY <1>3, Zenon DEF Continued, Top
  <2>2. /\ Top.id \in Ids /\ Top.id \notin given
        /\ pc # "catchup" => pc = "flush"
    BY <1>1, Delivery, Zenon
  <2>3. /\ scanStart \in [Ids -> 0 .. (Length + 1)] /\ Length \in Nat
    BY ChimeraAssumption, Zenon DEF ChimeraInv, TypeOK
  <2>4. db[Top.id].single \/ ~(scanStart'[Top.id] < Length)
    BY <2>1, <2>2, <2>3, <1>3 DEF Rescans
  <2>5. /\ CallInv' /\ halted' \in {"no", "user", "pcre"}
        /\ inUse' \in BOOLEAN /\ ret' \in Codes /\ result' \in Codes
    BY <2>1, Staying, Zenon
  <2>6. /\ given' \subseteq given \union {Top.id} /\ Top.id \notin given' /\ pc' = pc
        /\ pc' # "resume" /\ \A p \in Ids \ {Top.id} : scanStart'[p] = scanStart[p]
    <3>1. pc \in {"catchup", "flush"}
      BY <1>1, Zenon DEF Deliver, InCatchup
    <3> QED
      BY <3>1, <2>1, <2>2, Zenon
  <2> QED
    BY <1>1, <2>1, <2>3, <2>4, <2>5, <2>6, PopInv, Zenon
<1> QED
  BY <1>2, <1>3, Zenon

\* catchupPcre ends at the last item.  It never meets a match that ends later than the
\* one it was called for: the queue is empty.
LEMMA EndsEmpty ==
    ASSUME Numbers, ChimeraInv, CatchupEnd
    PROVE  queue = <<>> /\ queue' = <<>> /\ pc = "flush" /\ halted = "no"
<1>1. /\ InCatchup
      /\ queue # <<>> => Head(queue).to > event.to
      /\ UNCHANGED <<scanStart, match, out, given, halted>> /\ CatchupConsts /\ Leave(CH_SUCCESS)
  BY Zenon DEF CatchupEnd
<1>2. /\ db \in Databases /\ Length \in Nat /\ Items \subseteq NatItems
      /\ queue \in Seq(Items) /\ Sorted(queue) /\ pc \in {"catchup", "flush"} /\ halted = "no"
      /\ event = NoEvent \/ pc = "catchup"
  BY <1>1, Patterns, Zenon DEF ChimeraInv, TypeOK, QueueInv, CallInv, InCatchup, EventInv
<1>3. queue = <<>>
  <2> SUFFICES ASSUME queue # <<>> PROVE FALSE
    BY Zenon
  <2>1. Head(queue) \in Items /\ Removes(Tail(queue), queue, Head(queue))
    BY <1>2, Popped, Zenon
  <2>2. \A x \in Elems(queue) : Head(queue).to <= x.to
    BY <2>1, Zenon DEF Removes
  <2>3. Head(queue).to \in 0 .. Length
    BY <2>1, Zenon DEF Items
  <2>4. CASE pc = "catchup"
    <3>1. PICK x \in Elems(queue) : x.to < event.to
      BY <2>4, <1>2, Zenon DEF ChimeraInv, Caught
    <3>2. event.to \in Nat /\ x \in Items
      BY <2>4, <1>2, ElemsIn, Zenon DEF ChimeraInv, EventInv, NatItems
    <3>3. x.to \in Nat
      BY <3>2, <1>2, Zenon DEF NatItems
    <3> QED
      BY <3>1, <3>2, <3>3, <2>2, <2>3, <1>1, <1>2, SMTT(30)
  <2>5. CASE event = NoEvent
    BY <2>3, <2>5, <1>1, <1>2 DEF NoEvent
  <2> QED
    BY <2>4, <2>5, <1>2, Zenon
<1>4. pc = "flush" /\ queue' = queue
  <2>1. Elems(queue) = {}
    BY <1>3 DEF Elems
  <2> QED
    BY <2>1, <1>2, <1>3, Zenon DEF ChimeraInv, Caught, CatchupEnd
<1> QED
  BY <1>2, <1>3, <1>4, Zenon

\* That is the end of the scan.
LEMMA CatchupEndInv ==
    ASSUME Numbers, ChimeraInv, CatchupEnd
    PROVE  ChimeraInv'
<1>1. /\ InCatchup
      /\ UNCHANGED <<scanStart, match, out, given, halted>> /\ CatchupConsts /\ Leave(CH_SUCCESS)
  BY Zenon DEF CatchupEnd
<1>2. /\ db \in Databases /\ pc = "flush" /\ halted = "no"
      /\ queue = <<>> /\ queue' = queue
  BY EndsEmpty, Zenon DEF ChimeraInv, TypeOK
<1>3. Tells(CH_SUCCESS, halted')
  BY <1>1, <1>2, Zenon DEF Tells
<1>4. /\ CallInv' /\ halted' \in {"no", "user", "pcre"} /\ pc' = "idle"
      /\ inUse' \in BOOLEAN /\ ret' \in Codes /\ result' \in Codes
  BY <1>1, <1>2, <1>3, Leaving, Zenon
<1>5. TypeOK' /\ TextOK' /\ EventInv' /\ StageInv'
  <2>1. /\ queue' \in Seq(Items) /\ out' \in Seq(Items) /\ given' \subseteq Ids
        /\ scanStart' \in [Ids -> 0 .. (Length + 1)] /\ match' \in [Ids -> Spans \union {NoSpan}]
        /\ pc' = (IF pc = "flush" THEN "idle" ELSE "resume") /\ pc # "catchup"
    BY <1>1, <1>2, <1>4, Zenon DEF ChimeraInv, TypeOK
  <2> QED
    BY <2>1, <1>1, <1>4, CatchupKeeps, Zenon
<1>6. db' = db /\ text' = text /\ active' = active
  BY <1>1, Zenon DEF CatchupConsts
<1>7. QueueInv' /\ LiveInv' /\ Caught'
  <2>0. queue' = <<>> /\ DOMAIN queue' = {}
    <3>1. queue' = <<>>
      BY <1>2, Zenon
    <3> QED
      BY <3>1
  <2>1. Elems(queue') = {} /\ Sorted(queue') /\ Distinct(queue')
    BY <2>0, Zenon DEF Elems, Sorted, Distinct
  <2>2. LiveInv'
    BY <2>1, <1>1, <1>2, <1>6, SameDb, Zenon DEF LiveInv, ChimeraInv
  <2> QED
    BY <2>1, <2>2, <1>1, <1>2, <1>4, Zenon DEF QueueInv, Caught, Scanning
<1>8. DeliveredInOrder'
  <2>1. DeliveredInOrder /\ out' = out
    BY <1>1, Zenon DEF ChimeraInv
  <2> QED
    BY <2>1, Zenon DEF DeliveredInOrder
<1> QED
  BY <1>4, <1>5, <1>7, <1>8, Zenon DEF ChimeraInv

\* Hyperscan reports a pattern while nothing is being caught up with.  What was delivered
\* ends no later than the event, though it may be late, and no later than any match of a
\* pattern that is reported for the first time.
LEMMA Reporting ==
    ASSUME Numbers, ChimeraInv, NEW p \in Ids, NEW e, Reports(p, e), EventConsts
    PROVE  /\ pc = "hyperscan" /\ halted = "no" /\ ret = CH_SUCCESS /\ event = NoEvent
           /\ p \notin Unguarded /\ raised' = raised \union {<<p, e>>}
           /\ raised' \subseteq Ids \X (0 .. Length)
           /\ \A r \in raised' : r[1] \in active \union {p}
           /\ e \in 0 .. Length /\ e \in {at - 1, at}
           /\ db' = db /\ text' = text /\ inUse' = inUse /\ left' = left /\ at' = at
           /\ result' = result /\ scans' = scans /\ out' = out
           /\ db \in Databases /\ TextOK /\ Length \in Nat /\ at \in 0 .. Length
           /\ \A y \in Elems(out) : y.to < at /\ y.to <= e
           /\ p \notin active =>
                 \A s \in text.spans[p] : at <= s[2] + 1 /\ \A y \in Elems(out) : y.to <= s[2]
           /\ NeedConfirm(p) \/ Fixed(p)
           /\ Ids' = Ids /\ Items' = Items /\ Unguarded' = Unguarded /\ NoEvent' = NoEvent
           /\ \A r : Fixed(r)' = Fixed(r)
<1>1. /\ pc = "hyperscan" /\ p \notin Unguarded /\ raised' = raised \union {<<p, e>>}
      /\ e \in {at - 1, at} \cap (0 .. Length)
      /\ db' = db /\ text' = text /\ inUse' = inUse /\ left' = left /\ at' = at
      /\ result' = result /\ scans' = scans /\ out' = out
  BY Zenon DEF Reports, EventConsts
<1>2. /\ halted = "no" /\ ret = CH_SUCCESS /\ event = NoEvent
      /\ \A r \in raised : r[1] \in active
      /\ \A y \in Elems(out) : y.to < at
      /\ p \notin active => \A s \in text.spans[p] : at <= s[2] + 1
  BY <1>1, Zenon DEF ChimeraInv, CallInv, EventInv, StageInv, Scanning
<1>3. db \in Databases /\ TextOK /\ Length \in Nat /\ at \in 0 .. Length
  BY ChimeraAssumption, Zenon DEF ChimeraInv, TypeOK
<1>4. NeedConfirm(p) \/ Fixed(p)
  <2>1. IsPattern(db[p])
    BY <1>3, Patterns, Zenon
  <2> QED
    BY <2>1, <1>1, Zenon DEF IsPattern, NeedConfirm, Fixed, Unguarded
<1>5. /\ Ids' = Ids /\ Items' = Items /\ Unguarded' = Unguarded /\ NoEvent' = NoEvent
      /\ \A r : Fixed(r)' = Fixed(r)
  BY <1>1, SameDb, Zenon DEF NoEvent
<1>6. e \in 0 .. Length /\ e \in {at - 1, at}
  BY <1>1, Zenon
<1>7. raised' \subseteq Ids \X (0 .. Length) /\ \A r \in raised' : r[1] \in active \union {p}
  <2>1. raised \subseteq Ids \X (0 .. Length)
    BY Zenon DEF ChimeraInv, TypeOK
  <2>2. <<p, e>> \in Ids \X (0 .. Length) /\ <<p, e>>[1] = p
    BY <1>6, Zenon
  <2> QED
    BY <2>1, <2>2, <1>1, <1>2, Zenon
<1>8. \A y \in Elems(out) : y.to \in Nat
  <2>1. out \in Seq(Items) /\ Items \subseteq NatItems
    BY <1>3, Patterns, Zenon DEF ChimeraInv, TypeOK
  <2>2. \A y \in Elems(out) : y \in Items
    BY <2>1, ElemsIn, Zenon
  <2> QED
    BY <2>1, <2>2, Zenon DEF NatItems
<1>9. \A n, m \in Nat : n < at /\ (m \in {at - 1, at} \/ at <= m + 1) => n <= m
  BY <1>3
<1>10. ASSUME NEW y \in Elems(out) PROVE y.to <= e
  <2>1. e \in Nat
    BY <1>3, <1>6
  <2> QED
    BY <2>1, <1>2, <1>6, <1>8, <1>9
<1>11. ASSUME p \notin active, NEW s \in text.spans[p], NEW y \in Elems(out) PROVE y.to <= s[2]
  <2>1. s[2] \in Nat
    <3>1. s[2] \in 0 .. Length
      BY <1>3, SpanItem, Zenon
    <3> QED
      BY <3>1, <1>3
  <2> QED
    BY <2>1, <1>2, <1>8, <1>9, <1>11, Zenon
<1> QED
  BY <1>1, <1>2, <1>3, <1>4, <1>5, <1>6, <1>7, <1>10, <1>11, Zenon

----------------------------------------------------------------------------
\* The steps outside catchupPcre

\* The items of the queue are matches of patterns of the database, and until the scan
\* is stopped there are no more of them than patterns.
LEMMA QueueLen ==
    ASSUME Numbers, ChimeraInv
    PROVE  /\ \A x \in Elems(queue) : x \in Items /\ x.id \in Ids
           /\ Len(queue) \in Nat /\ Cardinality(Ids) \in Nat /\ Len(queue) <= Cardinality(Ids)
<1>1. /\ db \in Databases /\ queue \in Seq(Items) /\ Len(queue) \in Nat
      /\ IsFiniteSet(Ids) /\ Cardinality(Ids) \in Nat
  BY Patterns DEF ChimeraInv, TypeOK
<1>2. \A x \in Elems(queue) : x \in Items /\ x.id \in Ids
  <2>1. \A x \in Elems(queue) : x \in Items
    BY <1>1, ElemsIn, Zenon
  <2> QED
    BY <2>1, Zenon DEF Items
<1>3. CASE halted = "no"
  <2>1. Distinct(queue)
    BY <1>3, Zenon DEF ChimeraInv, LiveInv
  <2> QED
    BY <2>1, <1>1, <1>2, DistinctLen, Zenon
<1>4. CASE halted # "no"
  BY <1>1, <1>2, <1>4 DEF ChimeraInv, QueueInv
<1> QED
  BY <1>3, <1>4, Zenon

\* A step that leaves the queue, the patterns' data and what was delivered alone
LEMMA Quiet ==
    ASSUME Numbers, ChimeraInv,
           UNCHANGED <<db, text, active, scanStart, match, queue, out, given, halted>>,
           pc' # "resume"
    PROVE  TextOK' /\ QueueInv' /\ LiveInv' /\ DeliveredInOrder'
<1>1. TextOK'
  BY SameText, Zenon DEF ChimeraInv
<1>2. DeliveredInOrder'
  BY Zenon DEF ChimeraInv, DeliveredInOrder
<1>3. QueueInv'
  BY QueueLen, SameDb, SMTT(30) DEF ChimeraInv, QueueInv
<1>4. LiveInv'
  BY SameDb, Zenon DEF ChimeraInv, LiveInv
<1> QED
  BY <1>1, <1>2, <1>3, <1>4, Zenon

\* A pattern that PCRE matches is scanned for the first time (initQueue, and
\* multiCallback for a prefilter): its first match is queued if there is one.
LEMMA NewPattern ==
    ASSUME Numbers, ChimeraInv, halted = "no", NEW p \in Ids \ active, ~Fixed(p),
           NEW o \in ScanOutcomes(p, 0), NEW n \in 0 .. (Length + 1),
           UNCHANGED <<db, text, out>>, active' = active \union {p},
           queue' = ScanQueue(queue, p, o), match' = ScanMatch(p, o),
           scanStart' = [scanStart EXCEPT ![p] = ScanNext(p, o, n)],
           given' = (IF Lost(p, 0, o) THEN given \union {p} ELSE given),
           halted' = (IF Stops(o) THEN Halter(o) ELSE "no"), pc' # "resume",
           \A s \in text.spans[p] : \A y \in Elems(out) : y.to <= s[2]
    PROVE  /\ queue' \in Seq(Items)
           /\ scanStart' \in [Ids -> 0 .. (Length + 1)]
           /\ match' \in [Ids -> Spans \union {NoSpan}] /\ given' \subseteq Ids
           /\ Elems(queue) \subseteq Elems(queue')
           /\ \A r \in Ids \ {p} : scanStart'[r] = scanStart[r]
           /\ QueueInv' /\ LiveInv'
<1>1. /\ db \in Databases /\ TextOK /\ Length \in Nat /\ queue \in Seq(Items) /\ Sorted(queue)
      /\ scanStart \in [Ids -> 0 .. (Length + 1)] /\ given \subseteq Ids /\ active \subseteq Ids
      /\ match \in [Ids -> Spans \union {NoSpan}]
  BY ChimeraAssumption, Zenon DEF ChimeraInv, TypeOK, QueueInv
<1>2. /\ given \subseteq active /\ Distinct(queue)
      /\ \A x \in Elems(queue) : x.id \in active \ given
      /\ \A x \in Elems(queue) : x.id # p
      /\ \A x \in Elems(queue) : \A y \in Elems(out) : y.to <= x.to
  BY Zenon DEF ChimeraInv, LiveInv
<1>3. given' \subseteq Ids /\ given' \subseteq given \union {p}
  BY <1>1, Zenon
<1>4. CASE Found(o)
  <2>1. /\ o.ret = CH_SUCCESS /\ o.span \in text.spans[p] /\ ~Lost(p, 0, o)
    BY <1>1, <1>4, Outcomes, Zenon
  <2>2. halted' = "no" /\ given' = given
    BY <2>1, SMTT(30) DEF Stops, CH_SUCCESS, CH_CALLBACK_TERMINATE, CH_FAIL_INTERNAL
  <2>3. /\ queue' = PqInsert(queue, o.span[1], o.span[2], p)
        /\ match' = [match EXCEPT ![p] = o.span]
        /\ scanStart' = [scanStart EXCEPT ![p] = NextStart(p, o.span[1], o.span[2])]
    BY <1>4, Zenon DEF ScanQueue, ScanMatch, ScanNext
  <2>4. /\ \A y \in Elems(out') : y.to <= o.span[2]
        /\ \A x \in Elems(queue) : \A y \in Elems(out') : y.to <= x.to
        /\ p \in Ids /\ p \notin given /\ Elems(queue) \subseteq Elems(queue)
    BY <2>1, <1>2, Zenon
  <2>5. /\ queue' \in Seq(Items)
        /\ scanStart' \in [Ids -> 0 .. (Length + 1)]
        /\ match' \in [Ids -> Spans \union {NoSpan}]
        /\ Elems(queue') = Elems(queue) \union {[from |-> o.span[1], to |-> o.span[2], id |-> p]}
        /\ \A r \in Ids \ {p} : scanStart'[r] = scanStart[r]
        /\ QueueInv' /\ LiveInv'
    BY <2>1, <2>2, <2>3, <2>4, <1>1, <1>2, LiveAdd, Zenon
  <2> QED
    BY <2>5, <1>3, Zenon
<1>5. CASE ~Found(o)
  <2>1. /\ queue' = queue /\ match' = match
        /\ scanStart' = [scanStart EXCEPT ![p] = n]
    BY <1>5, ZenonT(30) DEF ScanQueue, ScanMatch, ScanNext
  <2>2. /\ scanStart' \in [Ids -> 0 .. (Length + 1)]
        /\ \A r \in Ids \ {p} : scanStart'[r] = scanStart[r]
    BY <2>1, <1>1, Zenon
  <2>3. \A x \in Elems(queue) : x.id \in Ids /\ scanStart'[x.id] = scanStart[x.id]
    BY <2>2, <1>2, QueueLen, Zenon
  <2>4. QueueInv'
    BY <2>1, <2>3, QueueLen, SameDb, SMTT(30) DEF ChimeraInv, QueueInv
  <2>5. LiveInv'
    <3>1. ASSUME NEW r \in given', Fixed(r)' PROVE Length <= scanStart'[r]
      <4>1. Fixed(r)
        BY <3>1, SameDb, Zenon
      <4>2. r \in given /\ r \in Ids \ {p}
        BY <4>1, <1>1, <1>3, Zenon
      <4>3. Length <= scanStart[r]
        BY <4>1, <4>2, Zenon DEF ChimeraInv, LiveInv
      <4> QED
        BY <4>2, <4>3, <2>2, Zenon
    <3>2. given' \subseteq active'
      BY <1>2, <1>3, Zenon
    <3>3. \A x \in Elems(queue') :
             /\ x.id \in active' \ given'
             /\ match'[x.id] = <<x.from, x.to>>
             /\ x.to <= scanStart'[x.id]
             /\ \A y \in Elems(out') : y.to <= x.to
      BY <2>1, <2>3, <1>2, <1>3, Zenon DEF ChimeraInv, LiveInv
    <3> QED
      BY <3>1, <3>2, <3>3, <2>1, <1>2, Zenon DEF LiveInv
  <2> QED
    BY <2>1, <2>2, <2>4, <2>5, <1>1, <1>3, Zenon
<1> QED
  BY <1>4, <1>5, Zenon

\* The data of a scan: what the compiler knows of a pattern's width holds for its
\* matches, and those of a UTF-8 pattern are made of whole codepoints.
LEMMA GoodText ==
    ASSUME Numbers, db \in Databases, text' \in Texts, db' = db
    PROVE  TextOK'
<1>1. /\ text'.cont \in Conts /\ \A p \in Ids : text'.spans[p] \in db[p].texts
      /\ \A p \in Ids : db[p].utf8 =>
            \A s \in text'.spans[p] : {s[1], s[2]} \cap text'.cont = {}
  BY Zenon DEF Texts, IsText
<1>2. Length \in Nat /\ \A p \in Ids : IsPattern(db[p])
  BY Patterns, Zenon
<1>3. ASSUME NEW p \in Ids
      PROVE  /\ text'.spans[p] \subseteq Spans
             /\ \A s \in text'.spans[p] :
                   /\ s[1] <= s[2]
                   /\ Fixed(p) => 0 < db[p].minWidth /\ s[2] = s[1] + db[p].minWidth
                   /\ db[p].utf8 => s[1] \notin text'.cont /\ s[2] \notin text'.cont
  <2>1. text'.spans[p] \subseteq Spans /\ db[p].minWidth \in Nat
    BY <1>1, <1>2, Zenon DEF IsPattern
  <2>2. ASSUME NEW s \in text'.spans[p]
        PROVE  /\ s[1] <= s[2]
               /\ Fixed(p) => 0 < db[p].minWidth /\ s[2] = s[1] + db[p].minWidth
               /\ db[p].utf8 => s[1] \notin text'.cont /\ s[2] \notin text'.cont
    <3>1. s[1] \in Nat /\ s[2] \in Nat
      BY <2>1, <1>2, SMTT(30) DEF Spans
    <3>2. /\ s[1] + db[p].minWidth <= s[2]
          /\ Fixed(p) => 0 < db[p].minWidth /\ s[2] = s[1] + db[p].minWidth
      BY <1>1, <1>2, SMTT(30) DEF IsPattern, Fixed
    <3>3. db[p].utf8 => s[1] \notin text'.cont /\ s[2] \notin text'.cont
      BY <1>1, Zenon
    <3>4. s[1] <= s[2]
      <4> DEFINE a == s[1]
                 b == s[2]
                 w == db[p].minWidth
      <4>1. a \in Nat /\ b \in Nat /\ w \in Nat /\ a + w <= b
        BY <2>1, <3>1, <3>2, Zenon
      <4> HIDE DEF a, b, w
      <4>2. a <= b
        BY <4>1
      <4> QED
        BY <4>2, Zenon DEF a, b
    <3> QED
      BY <3>2, <3>3, <3>4, Zenon
  <2> QED
    BY <2>1, <2>2, Zenon
<1>4. text'.cont \subseteq 1 .. (Length - 1)
  BY <1>1, Zenon DEF Conts
<1>5. Ids' = Ids /\ \A p : Fixed(p)' = Fixed(p)
  BY SameDb, Zenon
<1> QED
  BY <1>3, <1>4, <1>5, Zenon DEF TextOK

\* A scan begins with an empty queue and no pattern known.
LEMMA ScanInv ==
    ASSUME Numbers, ChimeraInv, ch_scan
    PROVE  ChimeraInv'
<1>1. /\ db \in Databases /\ text' \in Texts /\ db' = db
      /\ inUse' = TRUE /\ ret' = CH_SUCCESS /\ queue' = <<>> /\ active' = {}
      /\ pc' = "init" /\ left' = Unguarded
      /\ at' = 0 /\ raised' = {} /\ event' = NoEvent
      /\ out' = <<>> /\ given' = {} /\ halted' = "no"
      /\ scanStart' = scanStart /\ match' = match /\ result' = result
  BY Zenon DEF ch_scan, markScratchInUse, ChimeraInv, TypeOK
<1>2. TextOK'
  BY <1>1, GoodText, ZenonT(30)
<1>3. scans' \in 0 .. MaxScans
  BY ChimeraAssumption, SMTT(30) DEF ch_scan, ChimeraInv, TypeOK
<1>4. Ids' = Ids /\ Items' = Items /\ Unguarded' = Unguarded /\ Unguarded \subseteq Ids
  BY <1>1, SameDb, Zenon DEF Unguarded
<1>5. NoEvent' = NoEvent /\ 0 \in 0 .. Length
  BY ChimeraAssumption DEF NoEvent
<1>6. TypeOK'
  <2>1. queue' \in Seq(Items') /\ out' \in Seq(Items')
    BY <1>1
  <2>2. {active', left', given'} \subseteq SUBSET Ids' /\ raised' \subseteq Ids' \X (0 .. Length)
    BY <1>1, <1>4, Zenon
  <2>3. /\ scanStart' \in [Ids' -> 0 .. (Length + 1)]
        /\ match' \in [Ids' -> Spans \union {NoSpan}]
    BY <1>1, <1>4, Zenon DEF ChimeraInv, TypeOK
  <2>4. /\ {ret', result'} \subseteq {CH_SUCCESS, CH_CALLBACK_TERMINATE, CH_SCAN_TERMINATED,
                                      CH_FAIL_INTERNAL}
    BY <1>1, Zenon DEF ChimeraInv, TypeOK
  <2> QED
    BY <2>1, <2>2, <2>3, <2>4, <1>1, <1>3, <1>5, Zenon DEF TypeOK
<1>7. Elems(queue') = {} /\ Sorted(queue') /\ Distinct(queue')
  BY <1>1, SMTT(30) DEF Elems, Sorted, Distinct
<1>8. CallInv' /\ EventInv' /\ StageInv'
  BY <1>1, <1>4, <1>5, Zenon DEF CallInv, EventInv, StageInv, Scanning
<1>9. QueueInv' /\ LiveInv' /\ Caught'
  BY <1>1, <1>7, Zenon DEF QueueInv, LiveInv, Caught, Scanning
<1>10. DeliveredInOrder'
  BY <1>1 DEF DeliveredInOrder
<1> QED
  BY <1>2, <1>6, <1>8, <1>9, <1>10, Zenon DEF ChimeraInv

\* initQueue scans the next pattern that Hyperscan does not guard.
LEMMA InitPatternInv ==
    ASSUME Numbers, ChimeraInv, pc = "init", NEW p \in left, NEW o \in ScanOutcomes(p, 0),
           InitPattern(p, o)
    PROVE  ChimeraInv'
<1>1. /\ active' = active \union {p} /\ left' = left \ {p}
      /\ queue' = ScanQueue(queue, p, o) /\ match' = ScanMatch(p, o)
      /\ given' = (IF Lost(p, 0, o) THEN given \union {p} ELSE given)
      /\ IF Stops(o) THEN Return(ScanError(o)) /\ unmarkScratchInUse /\ halted' = Halter(o)
         ELSE UNCHANGED <<pc, result, inUse, halted>>
      /\ UNCHANGED <<db, text, ret, at, raised, event, scans, out>>
  BY Zenon DEF InitPattern
<1>2. /\ db \in Databases /\ TextOK /\ Length \in Nat /\ halted = "no" /\ ret = CH_SUCCESS
      /\ scanStart \in [Ids -> 0 .. (Length + 1)] /\ left \subseteq Ids /\ active \subseteq Ids
      /\ left \subseteq Unguarded /\ active \subseteq Unguarded \ left
      /\ out = <<>> /\ at = 0 /\ raised = {} /\ event = NoEvent
  BY ChimeraAssumption, Zenon DEF ChimeraInv, TypeOK, CallInv, StageInv, EventInv
<1>3. p \in Ids \ active /\ ~Fixed(p)
  BY <1>2, Zenon DEF Unguarded, Fixed
<1>4. o.ret \in {CH_SUCCESS, CH_CALLBACK_TERMINATE, CH_CALLBACK_SKIP_PATTERN, CH_FAIL_INTERNAL}
  BY <1>2, <1>3, Outcomes, Zenon
<1> DEFINE n == IF o.ret = CH_CALLBACK_SKIP_PATTERN THEN Length ELSE scanStart[p]
<1>5. n \in 0 .. (Length + 1) /\ scanStart' = [scanStart EXCEPT ![p] = ScanNext(p, o, n)]
  BY <1>2, <1>3 DEF InitPattern
<1> HIDE DEF n
<1>6. /\ halted' = (IF Stops(o) THEN Halter(o) ELSE "no")
      /\ pc' = (IF Stops(o) THEN "idle" ELSE "init")
      /\ result' = (IF Stops(o) THEN ScanError(o) ELSE result)
      /\ inUse' = (IF Stops(o) THEN FALSE ELSE inUse)
  BY <1>1, <1>2, Zenon DEF Return, unmarkScratchInUse
<1>7. Elems(out) = {} /\ pc' # "resume"
  BY <1>2, <1>6 DEF Elems
<1>8. /\ queue' \in Seq(Items)
      /\ scanStart' \in [Ids -> 0 .. (Length + 1)]
      /\ match' \in [Ids -> Spans \union {NoSpan}] /\ given' \subseteq Ids
      /\ QueueInv' /\ LiveInv'
  BY <1>1, <1>2, <1>3, <1>5, <1>6, <1>7, NewPattern, Zenon
<1>9. /\ Stops(o) => /\ halted' \in {"user", "pcre"} /\ Tells(ScanError(o), halted')
                     /\ ScanError(o) \in Codes
  BY <1>4, <1>6, Zenon DEF Stops, Tells, ScanError, Halter, Codes, CH_SUCCESS, CH_SCAN_TERMINATED,
                    CH_CALLBACK_TERMINATE, CH_FAIL_INTERNAL
<1>10. /\ Ids' = Ids /\ Items' = Items /\ Unguarded' = Unguarded /\ NoEvent' = NoEvent
  BY <1>1, SameDb, Zenon DEF NoEvent
<1>11. TypeOK'
  <2>1. {active', left', given'} \subseteq SUBSET Ids /\ raised' \subseteq Ids \X (0 .. Length)
    BY <1>1, <1>2, <1>3, <1>8, Zenon
  <2>2. inUse' \in BOOLEAN /\ {ret', result'} \subseteq Codes /\ halted' \in {"no", "user", "pcre"}
    BY <1>1, <1>6, <1>9, Zenon DEF ChimeraInv, TypeOK, Codes
  <2> QED
    BY <2>1, <2>2, <1>1, <1>6, <1>8, <1>10, Zenon DEF ChimeraInv, TypeOK, Codes
<1>12. TextOK'
  BY <1>1, <1>2, SameText, Zenon
<1>13. CallInv'
  <2>1. CASE Stops(o)
    <3>1. pc' = "idle" /\ ~inUse' /\ result' = ScanError(o) /\ Tells(result', halted')
      BY <2>1, <1>6, <1>9, Zenon
    <3>2. ReturnTells'
      BY <3>1, Zenon DEF ReturnTells, Tells
    <3> QED
      BY <3>1, <3>2, Zenon DEF CallInv
  <2>2. CASE ~Stops(o)
    BY <2>2, <1>1, <1>2, <1>6, Zenon DEF CallInv
  <2> QED
    BY <2>1, <2>2, Zenon
<1>14. EventInv' /\ StageInv'
  BY <1>1, <1>2, <1>3, <1>6, <1>10, Zenon DEF EventInv, StageInv, Scanning
<1>15. Caught' /\ DeliveredInOrder'
  <2>1. pc' \in {"idle", "init"} /\ out' = <<>>
    BY <1>1, <1>2, <1>6, Zenon
  <2> QED
    BY <2>1 DEF Caught, Scanning, DeliveredInOrder
<1> QED
  BY <1>8, <1>11, <1>12, <1>13, <1>14, <1>15, Zenon DEF ChimeraInv

\* initQueue is done.
LEMMA InitDoneInv ==
    ASSUME Numbers, ChimeraInv, InitDone
    PROVE  ChimeraInv'
<1>1. /\ pc = "init" /\ pc' \in {"flush", "hyperscan"}
      /\ UNCHANGED <<db, text, inUse, active, scanStart, match, queue, ret, left, at, raised,
                     event, result, scans, out, given, halted>>
  BY Zenon DEF InitDone
<1>2. TextOK' /\ QueueInv' /\ LiveInv' /\ DeliveredInOrder'
  BY <1>1, Quiet, Zenon
<1>3. /\ Ids' = Ids /\ Items' = Items /\ Unguarded' = Unguarded
      /\ \A p : Fixed(p)' = Fixed(p)
  BY <1>1, SameDb, Zenon
<1>4. TypeOK' /\ CallInv' /\ EventInv'
  BY <1>1, <1>3, Zenon DEF ChimeraInv, TypeOK, CallInv, EventInv, NoEvent
<1>5. /\ halted = "no" /\ at = 0 /\ raised = {} /\ active \subseteq Unguarded
      /\ Elems(out) = {}
  <2>1. halted = "no" /\ at = 0 /\ raised = {} /\ active \subseteq Unguarded /\ out = <<>>
    BY <1>1, Zenon DEF ChimeraInv, CallInv, StageInv
  <2> QED
    BY <2>1 DEF Elems
<1>6. StageInv'
  <2>1. \A p \in Ids : \A s \in text.spans[p] : 0 <= s[2] + 1
    <3>1. \A p \in Ids : \A s \in text.spans[p] : s[2] \in 0 .. Length
      BY Zenon DEF ChimeraInv, TextOK, Spans
    <3> QED
      BY <3>1, ChimeraAssumption, SMTT(30)
  <2> QED
    BY <2>1, <1>1, <1>3, <1>5, Zenon DEF StageInv
<1>7. Caught'
  BY <1>1, <1>3, <1>5, Zenon DEF Caught, Unguarded, Fixed
<1> QED
  BY <1>2, <1>4, <1>6, <1>7, Zenon DEF ChimeraInv

\* What the report of a pattern leaves as it was when it becomes known: the stage of
\* the scan
LEMMA ReportStage ==
    ASSUME Numbers, ChimeraInv, NEW p \in Ids, NEW e, Reports(p, e), EventConsts,
           active' = active \union {p}, pc' # "init"
    PROVE  StageInv'
<1>1. /\ pc = "hyperscan" /\ \A r \in raised' : r[1] \in active'
      /\ text' = text /\ at' = at /\ out' = out
      /\ \A y \in Elems(out) : y.to < at
      /\ Ids' = Ids /\ Unguarded' = Unguarded
  BY Reporting, Zenon
<1>2. \A r \in Ids \ (active \union Unguarded) : \A s \in text.spans[r] : at <= s[2] + 1
  BY <1>1, Zenon DEF ChimeraInv, StageInv, Scanning
<1> QED
  BY <1>1, <1>2, Zenon DEF StageInv

\* An event that tells nothing new changes nothing.
LEMMA IgnoreEventInv ==
    ASSUME Numbers, ChimeraInv, NEW p \in Ids, NEW e, IgnoreEvent(p, e)
    PROVE  ChimeraInv'
<1>1. /\ Reports(p, e) /\ EventConsts /\ p \in active /\ pc' \in {"scanned", "hyperscan"}
      /\ UNCHANGED <<active, scanStart, match, queue, ret, event, given, halted>>
  BY Zenon DEF IgnoreEvent, Seen
<1>2. /\ pc = "hyperscan" /\ halted = "no" /\ ret = CH_SUCCESS /\ event = NoEvent
      /\ raised' \subseteq Ids \X (0 .. Length)
      /\ db' = db /\ text' = text /\ inUse' = inUse /\ left' = left /\ at' = at
      /\ result' = result /\ scans' = scans /\ out' = out
      /\ Ids' = Ids /\ Items' = Items /\ Unguarded' = Unguarded /\ NoEvent' = NoEvent
      /\ \A r : Fixed(r)' = Fixed(r)
  BY <1>1, Reporting, Zenon
<1>3. TextOK' /\ QueueInv' /\ LiveInv' /\ DeliveredInOrder'
  BY <1>1, <1>2, Quiet, Zenon
<1>4. TypeOK' /\ CallInv' /\ EventInv'
  BY <1>1, <1>2, Zenon DEF ChimeraInv, TypeOK, CallInv, EventInv
<1>5. StageInv'
  <2>1. active' = active \union {p} /\ pc' # "init"
    BY <1>1, Zenon
  <2> QED
    BY <2>1, <1>1, ReportStage, Zenon
<1>6. Caught'
  BY <1>1, <1>2, Zenon DEF ChimeraInv, Caught, Scanning, Queued
<1> QED
  BY <1>3, <1>4, <1>5, <1>6, Zenon DEF ChimeraInv

\* The first event of a prefilter makes PCRE look for the pattern's first match.
LEMMA ConfirmPatternInv ==
    ASSUME Numbers, ChimeraInv, NEW p \in Ids, NEW e, Reports(p, e), NeedConfirm(p),
           p \notin active, NEW o \in ScanOutcomes(p, 0), ConfirmPattern(p, o)
    PROVE  ChimeraInv'
<1>1. /\ active' = active \union {p}
      /\ queue' = ScanQueue(queue, p, o) /\ match' = ScanMatch(p, o)
      /\ given' = (IF Lost(p, 0, o) THEN given \union {p} ELSE given)
      /\ ret' = (IF o.ret = CH_CALLBACK_SKIP_PATTERN THEN CH_SUCCESS ELSE o.ret)
      /\ IF Stops(o) THEN pc' = "scanned" /\ halted' = Halter(o) ELSE UNCHANGED <<pc, halted>>
      /\ event' = event /\ EventConsts
  BY Zenon DEF ConfirmPattern
<1>2. /\ pc = "hyperscan" /\ halted = "no" /\ event = NoEvent
      /\ raised' \subseteq Ids \X (0 .. Length)
      /\ db' = db /\ text' = text /\ inUse' = inUse /\ left' = left /\ at' = at
      /\ result' = result /\ scans' = scans /\ out' = out
      /\ db \in Databases /\ TextOK /\ Length \in Nat /\ at \in 0 .. Length
      /\ \A s \in text.spans[p] : \A y \in Elems(out) : y.to <= s[2]
      /\ Ids' = Ids /\ Items' = Items /\ Unguarded' = Unguarded /\ NoEvent' = NoEvent
      /\ \A r : Fixed(r)' = Fixed(r)
  BY <1>1, Reporting, Zenon
<1>3. ~Fixed(p) /\ p \in Ids \ active
  BY Zenon DEF NeedConfirm, Fixed
<1>4. o.ret \in {CH_SUCCESS, CH_CALLBACK_TERMINATE, CH_CALLBACK_SKIP_PATTERN, CH_FAIL_INTERNAL}
  BY <1>2, Outcomes, ZenonT(30)
<1> DEFINE n == IF o.ret = CH_CALLBACK_SKIP_PATTERN THEN Length ELSE 0
<1>5. n \in 0 .. (Length + 1) /\ scanStart' = [scanStart EXCEPT ![p] = ScanNext(p, o, n)]
  <2>1. Length \in Nat
    BY <1>2, Zenon
  <2>2. 0 \in 0 .. (Length + 1) /\ Length \in 0 .. (Length + 1)
    BY <2>1
  <2>3. scanStart' = [scanStart EXCEPT ![p] = ScanNext(p, o, n)]
    BY Zenon DEF ConfirmPattern
  <2> QED
    BY <2>2, <2>3, Zenon
<1> HIDE DEF n
<1>6. /\ halted' = (IF Stops(o) THEN Halter(o) ELSE "no")
      /\ pc' = (IF Stops(o) THEN "scanned" ELSE "hyperscan")
      /\ pc' # "resume"
  BY <1>1, <1>2, Zenon
<1>8. /\ queue' \in Seq(Items)
      /\ scanStart' \in [Ids -> 0 .. (Length + 1)]
      /\ match' \in [Ids -> Spans \union {NoSpan}] /\ given' \subseteq Ids
      /\ Elems(queue) \subseteq Elems(queue')
      /\ \A r \in Ids \ {p} : scanStart'[r] = scanStart[r]
      /\ QueueInv' /\ LiveInv'
  BY <1>1, <1>2, <1>3, <1>5, <1>6, NewPattern, Zenon
<1>9. /\ halted' \in {"no", "user", "pcre"} /\ ret' \in Codes /\ CallInv'
  BY <1>1, <1>4, <1>6 DEF Stops, Halter, Codes, CallInv, CH_SUCCESS, CH_SCAN_TERMINATED,
                     CH_CALLBACK_TERMINATE, CH_FAIL_INTERNAL, CH_CALLBACK_SKIP_PATTERN
<1>10. TypeOK'
  <2>1. {active', left', given'} \subseteq SUBSET Ids /\ raised' \subseteq Ids \X (0 .. Length)
    BY <1>1, <1>2, <1>8, ZenonT(30) DEF ChimeraInv, TypeOK
  <2>2. inUse' \in BOOLEAN /\ {ret', result'} \subseteq Codes
    BY <1>2, <1>9, ZenonT(30) DEF ChimeraInv, TypeOK, Codes
  <2> QED
    BY <2>1, <2>2, <1>1, <1>2, <1>6, <1>8, <1>9, ZenonT(30) DEF ChimeraInv, TypeOK, Codes
<1>11. TextOK' /\ DeliveredInOrder'
  BY <1>2, SameText, ZenonT(30) DEF ChimeraInv, DeliveredInOrder
<1>12. EventInv'
  BY <1>1, <1>2, <1>6, Zenon DEF EventInv
<1>13. StageInv'
  <2>1. pc' # "init"
    BY <1>6, Zenon
  <2> QED
    BY <2>1, <1>1, ReportStage, Zenon
<1>14. Caught'
  <2>1. ASSUME NEW r \in active', Fixed(r)', ~db'[r].single, scanStart'[r] < Length
        PROVE  Queued(r)'
    <3>1. r # p /\ r \in active /\ r \in Ids
      BY <2>1, <1>1, <1>2, <1>3, ZenonT(30) DEF ChimeraInv, TypeOK
    <3>2. Queued(r)
      BY <3>1, <2>1, <1>2, <1>8, ZenonT(30) DEF ChimeraInv, Caught, Scanning
    <3> QED
      BY <3>2, <1>8, Zenon DEF Queued
  <2> QED
    BY <2>1, <1>6, Zenon DEF Caught
<1> QED
  BY <1>8, <1>9, <1>10, <1>11, <1>12, <1>13, <1>14, Zenon DEF ChimeraInv

\* The first match of a pattern that Hyperscan reports is queued.
LEMMA FirstEventInv ==
    ASSUME Numbers, ChimeraInv, NEW p \in Ids, NEW s \in text.spans[p], FirstEvent(p, s)
    PROVE  ChimeraInv'
<1>1. /\ Reports(p, s[2]) /\ EventConsts /\ p \notin active
      /\ active' = active \union {p}
      /\ scanStart' = [scanStart EXCEPT ![p] = NextStart(p, s[1], s[2])]
      /\ match' = [match EXCEPT ![p] = <<s[1], s[2]>>]
      /\ queue' = PqInsert(queue, s[1], s[2], p)
      /\ UNCHANGED <<pc, ret, event, given, halted>>
  BY ZenonT(30) DEF FirstEvent, Seen, Enqueue
<1>2. /\ pc = "hyperscan" /\ halted = "no" /\ ret = CH_SUCCESS /\ event = NoEvent
      /\ raised' \subseteq Ids \X (0 .. Length)
      /\ db' = db /\ text' = text /\ inUse' = inUse /\ left' = left /\ at' = at
      /\ result' = result /\ scans' = scans /\ out' = out
      /\ db \in Databases /\ TextOK
      /\ \A y \in Elems(out) : y.to <= s[2]
      /\ Ids' = Ids /\ Items' = Items /\ NoEvent' = NoEvent
      /\ \A r : Fixed(r)' = Fixed(r)
  BY <1>1, Reporting, Zenon
<1>3. s = <<s[1], s[2]>>
  BY <1>2, SpanItem, Zenon
<1>4. /\ queue \in Seq(Items) /\ Sorted(queue) /\ Distinct(queue) /\ p \notin given
      /\ \A x \in Elems(queue) : x.id # p
      /\ \A x \in Elems(queue) : \A y \in Elems(out') : y.to <= x.to
      /\ Elems(queue) \subseteq Elems(queue)
  BY <1>1, <1>2, Zenon DEF ChimeraInv, TypeOK, QueueInv, LiveInv
<1>5. /\ \A y \in Elems(out') : y.to <= s[2] 
      /\ match' = [match EXCEPT ![p] = s] /\ halted' = "no" /\ given' = given
  BY <1>1, <1>2, <1>3, Zenon
<1>6. /\ queue' \in Seq(Items)
      /\ scanStart' \in [Ids -> 0 .. (Length + 1)]
      /\ match' \in [Ids -> Spans \union {NoSpan}]
      /\ Elems(queue') = Elems(queue) \union {[from |-> s[1], to |-> s[2], id |-> p]}
      /\ \A r \in Ids \ {p} : scanStart'[r] = scanStart[r]
      /\ QueueInv' /\ LiveInv'
  BY <1>1, <1>2, <1>4, <1>5, LiveAdd, ZenonT(30)
<1>7. TypeOK'
  <2>1. {active', left', given'} \subseteq SUBSET Ids /\ raised' \subseteq Ids \X (0 .. Length)
    BY <1>1, <1>2, ZenonT(30) DEF ChimeraInv, TypeOK
  <2> QED
    BY <2>1, <1>1, <1>2, <1>6, Zenon DEF ChimeraInv, TypeOK
<1>8. TextOK' /\ DeliveredInOrder'
  BY <1>2, SameText, ZenonT(30) DEF ChimeraInv, DeliveredInOrder
<1>9. CallInv' /\ EventInv'
  BY <1>1, <1>2, ZenonT(30) DEF CallInv, EventInv
<1>10. StageInv'
  <2>1. pc' # "init"
    BY <1>1, <1>2, Zenon
  <2> QED
    BY <2>1, <1>1, ReportStage, ZenonT(30)
<1>11. Caught'
  <2>1. ASSUME NEW r \in active', Fixed(r)', ~db'[r].single, scanStart'[r] < Length
        PROVE  Queued(r)'
    <3>1. CASE r = p
      <4>1. [from |-> s[1], to |-> s[2], id |-> r] \in Elems(queue')
        BY <3>1, <1>6, Zenon
      <4> QED
        BY <4>1, Zenon DEF Queued
    <3>2. CASE r # p
      <4>1. r \in active /\ r \in Ids
        BY <3>2, <2>1, <1>1, Zenon DEF ChimeraInv, TypeOK
      <4>2. Queued(r)
        BY <3>2, <4>1, <2>1, <1>2, <1>6, Zenon DEF ChimeraInv, Caught, Scanning
      <4> QED
        BY <4>2, <1>6, Zenon DEF Queued
    <3> QED
      BY <3>1, <3>2, Zenon
  <2> QED
    BY <2>1, <1>1, <1>2, Zenon DEF Caught
<1> QED
  BY <1>6, <1>7, <1>8, <1>9, <1>10, <1>11, Zenon DEF ChimeraInv

\* A later match of such a pattern that does not overlap the one scanned last: the
\* earlier match is still queued, and ends before this one.
LEMMA LaterEventInv ==
    ASSUME Numbers, ChimeraInv, NEW p \in Ids, NEW s \in text.spans[p], LaterEvent(p, s)
    PROVE  ChimeraInv'
<1>1. /\ Reports(p, s[2]) /\ EventConsts /\ ~NeedConfirm(p) /\ p \in active
      /\ ~Overlaps(p, s[2]) /\ ~db[p].single
      /\ event' = [id |-> p, from |-> s[1], to |-> s[2]] /\ pc' = "catchup"
      /\ UNCHANGED <<active, scanStart, match, queue, ret, given, halted>>
  BY Zenon DEF LaterEvent, Seen
<1>2. /\ pc = "hyperscan" /\ halted = "no" /\ ret = CH_SUCCESS
      /\ raised' \subseteq Ids \X (0 .. Length)
      /\ db' = db /\ text' = text /\ inUse' = inUse /\ left' = left /\ at' = at
      /\ result' = result /\ scans' = scans /\ out' = out
      /\ db \in Databases /\ TextOK /\ Length \in Nat /\ Fixed(p)
      /\ s[2] \in 0 .. Length /\ s[2] \in {at - 1, at}
      /\ Ids' = Ids /\ Items' = Items
      /\ \A r : Fixed(r)' = Fixed(r)
  BY <1>1, Reporting, Zenon
<1>3. s = <<s[1], s[2]>> /\ event' = [from |-> s[1], to |-> s[2], id |-> p] /\ event' \in Items
  BY <1>1, <1>2, SpanItem, Zenon
<1>4. TextOK' /\ QueueInv' /\ LiveInv' /\ DeliveredInOrder'
  <2>1. pc' # "resume"
    BY <1>1, Zenon
  <2> QED
    BY <2>1, <1>1, <1>2, Quiet, Zenon
<1>5. TypeOK'
  <2>1. {active', left', given'} \subseteq SUBSET Ids /\ raised' \subseteq Ids \X (0 .. Length)
    BY <1>1, <1>2, ZenonT(30) DEF ChimeraInv, TypeOK
  <2> QED
    BY <2>1, <1>1, <1>2, <1>3, Zenon DEF ChimeraInv, TypeOK
<1>6. CallInv'
  BY <1>1, <1>2, Zenon DEF CallInv
<1>7. EventInv'
  <2>1. event'.id = p /\ event'.to = s[2] /\ event'.from = s[1]
    BY <1>1, Zenon
  <2> QED
    BY <2>1, <1>1, <1>2, <1>3, Zenon DEF EventInv
<1>8. StageInv'
  <2>1. active' = active \union {p} /\ pc' # "init"
    BY <1>1, Zenon
  <2> QED
    BY <2>1, <1>1, ReportStage, Zenon
<1>9. scanStart[p] \in Nat /\ scanStart[p] < s[2]
  <2>1. scanStart[p] \in Nat /\ db[p].minWidth \in Nat
    <3>1. IsPattern(db[p]) /\ scanStart[p] \in 0 .. (Length + 1)
      BY <1>2, Patterns, Zenon DEF ChimeraInv, TypeOK
    <3> QED
      BY <3>1, <1>2 DEF IsPattern
  <2>2. 0 < db[p].minWidth
    BY <1>2, Zenon DEF TextOK
  <2> DEFINE a == scanStart[p]
             w == db[p].minWidth
             e == s[2]
  <2>3. a \in Nat /\ w \in Nat /\ 0 < w /\ e \in 0 .. Length /\ ~(e < a + w)
    BY <2>1, <2>2, <1>1, <1>2, Zenon DEF Overlaps
  <2> HIDE DEF a, w, e
  <2>4. a < e
    BY <2>3, <1>2
  <2> QED
    BY <2>1, <2>4, Zenon DEF a, e
<1>10. \E x \in Elems(queue) : x.id = p /\ x.to < s[2]
  <2>1. scanStart[p] < Length
    BY <1>2, <1>9
  <2>2. Queued(p)
    BY <2>1, <1>1, <1>2, Zenon DEF ChimeraInv, Caught, Scanning
  <2>3. PICK x \in Elems(queue) : x.id = p
    BY <2>2, Zenon DEF Queued
  <2>4. x.to <= scanStart[p]
    BY <2>3, <1>2, Zenon DEF ChimeraInv, LiveInv
  <2>5. x.to \in Nat
    <3>1. x \in Items /\ Items \subseteq NatItems
      BY <1>2, QueueLen, Patterns, ZenonT(30)
    <3> QED
      BY <3>1, Zenon DEF NatItems
  <2>6. x.to < s[2]
    BY <2>4, <2>5, <1>2, <1>9, SMTT(30)
  <2> QED
    BY <2>3, <2>6, Zenon
<1>11. Caught'
  <2>1. \A r \in active : Fixed(r) /\ ~db[r].single /\ scanStart[r] < Length => Queued(r)
    BY <1>2, Zenon DEF ChimeraInv, Caught, Scanning
  <2>2. \E x \in Elems(queue') : x.id = event'.id /\ x.to < event'.to
    BY <1>1, <1>10, Zenon
  <2> QED
    BY <2>1, <2>2, <1>1, <1>2, ZenonT(30) DEF Caught, Queued
<1> QED
  BY <1>4, <1>5, <1>6, <1>7, <1>8, <1>11, Zenon DEF ChimeraInv

\* What multiCallback leaves as it was after catchupPcre has returned
LEMMA ResumeKeeps ==
    ASSUME ChimeraInv, Resume, queue' \in Seq(Items),
           scanStart' \in [Ids -> 0 .. (Length + 1)], match' \in [Ids -> Spans \union {NoSpan}]
    PROVE  /\ TypeOK' /\ TextOK' /\ CallInv' /\ EventInv' /\ StageInv' /\ DeliveredInOrder'
           /\ pc' = (IF halted = "no" THEN "hyperscan" ELSE "scanned")
<1>1. /\ pc = "resume" /\ pc' = (IF ret = CH_SUCCESS THEN "hyperscan" ELSE "scanned")
      /\ event' = NoEvent /\ UNCHANGED <<active, raised, ret, given, halted>>
      /\ UNCHANGED <<db, text, inUse, left, at, result, scans, out>>
  BY Zenon DEF Resume, EventConsts
<1>2. /\ Ids' = Ids /\ Items' = Items /\ Unguarded' = Unguarded /\ NoEvent' = NoEvent
  BY <1>1, SameDb, Zenon DEF NoEvent
<1>3. /\ CallInv' /\ pc' = (IF halted = "no" THEN "hyperscan" ELSE "scanned")
  BY <1>1 DEF ChimeraInv, CallInv, CH_SUCCESS, CH_CALLBACK_TERMINATE, CH_SCAN_TERMINATED,
              CH_FAIL_INTERNAL
<1>4. TypeOK' /\ EventInv'
  BY <1>1, <1>2, Zenon DEF ChimeraInv, TypeOK, EventInv
<1>5. StageInv'
  BY <1>1, <1>2, ZenonT(30) DEF ChimeraInv, StageInv, Scanning
<1>6. TextOK' /\ DeliveredInOrder'
  BY <1>1, SameText, Zenon DEF ChimeraInv, DeliveredInOrder
<1> QED
  BY <1>3, <1>4, <1>5, <1>6, Zenon

\* multiCallback queues the match it was called for when catchupPcre has delivered the
\* earlier one.  After a stop it still queues it: there is room, and nobody looks.
LEMMA ResumeInv ==
    ASSUME Numbers, ChimeraInv, Resume
    PROVE  ChimeraInv'
<1>1. /\ pc = "resume" /\ UNCHANGED <<active, given, halted, db, text, out>>
      /\ event' = NoEvent
  BY Zenon DEF Resume, EventConsts
<1>2. /\ db \in Databases /\ TextOK /\ Length \in Nat /\ queue \in Seq(Items) /\ Sorted(queue)
      /\ scanStart \in [Ids -> 0 .. (Length + 1)] /\ active \subseteq Ids
      /\ match \in [Ids -> Spans \union {NoSpan}] /\ Cardinality(Ids) \in Nat
      /\ \A x \in Elems(queue) : SafeStart(x)
  BY Patterns, Zenon DEF ChimeraInv, TypeOK, QueueInv, SafeStart
<1>3. /\ event \in Items /\ event.id \in active /\ Fixed(event.id)
      /\ <<event.from, event.to>> \in text.spans[event.id]
      /\ \A y \in Elems(out) : y.to <= event.to
  <2>1. /\ event \in Items /\ event.to \in {at - 1, at} /\ event.id \in active /\ Fixed(event.id)
        /\ <<event.from, event.to>> \in text.spans[event.id]
        /\ \A y \in Elems(out) : y.to < at
    BY <1>1, Zenon DEF ChimeraInv, EventInv, StageInv, Scanning
  <2>2. out \in Seq(Items) /\ Items \subseteq NatItems /\ at \in 0 .. Length
    BY <1>2, Patterns, Zenon DEF ChimeraInv, TypeOK
  <2>3. \A y \in Elems(out) : y \in Items
    BY <2>2, ElemsIn, Zenon
  <2>4. event.to \in Nat /\ \A y \in Elems(out) : y.to \in Nat
    BY <2>1, <2>2, <2>3, Zenon DEF NatItems
  <2>5. \A n, m \in Nat : n < at /\ m \in {at - 1, at} => n <= m
    BY <2>2, <1>2
  <2>6. \A y \in Elems(out) : y.to <= event.to
    BY <2>1, <2>4, <2>5, Zenon
  <2> QED
    BY <2>1, <2>6, Zenon
<1>4. /\ Ids' = Ids /\ Items' = Items /\ \A r : Fixed(r)' = Fixed(r)
  BY <1>1, SameDb, Zenon
<1>5. /\ \A r \in active : Fixed(r) /\ ~db[r].single /\ scanStart[r] < Length /\ r # event.id
                           /\ halted = "no" => Queued(r)
      /\ halted = "no" => ~Queued(event.id)
  BY <1>1, Zenon DEF ChimeraInv, Caught, Scanning
<1>6. CASE scanStart[event.id] >= Length
  <2>1. UNCHANGED <<scanStart, match, queue>>
    BY <1>6, Zenon DEF Resume
  <2>2. /\ TypeOK' /\ TextOK' /\ CallInv' /\ EventInv' /\ StageInv' /\ DeliveredInOrder'
        /\ pc' = (IF halted = "no" THEN "hyperscan" ELSE "scanned")
    BY <2>1, <1>2, ResumeKeeps, Zenon
  <2>3. QueueInv' /\ LiveInv'
    <3>1. pc' # "resume"
      BY <2>2, Zenon
    <3> QED
      BY <3>1, <2>1, <1>1, Quiet, Zenon
  <2>4. Caught'
    <3>1. scanStart[event.id] \in Nat
      BY <1>2, <1>3, SMTT(30)
    <3>2. \A r \in active : Fixed(r) /\ ~db[r].single /\ scanStart[r] < Length
                            /\ halted = "no" => Queued(r)
      BY <3>1, <1>2, <1>5, <1>6, SMTT(30)
    <3> QED
      BY <3>2, <2>1, <2>2, <1>1, <1>4, Zenon DEF Caught, Queued
  <2> QED
    BY <2>2, <2>3, <2>4, Zenon DEF ChimeraInv
<1>7. CASE ~(scanStart[event.id] >= Length)
  <2>1. PICK p \in Ids : p = event.id
    BY <1>2, <1>3, Zenon
  <2>2. PICK s \in text.spans[p] : s = <<event.from, event.to>>
    BY <2>1, <1>3, Zenon
  <2>3. s[1] = event.from /\ s[2] = event.to
    BY <2>2, Zenon
  <2>4. /\ scanStart' = [scanStart EXCEPT ![p] = NextStart(p, s[1], s[2])]
        /\ match' = [match EXCEPT ![p] = s] /\ queue' = PqInsert(queue, s[1], s[2], p)
    BY <2>1, <2>2, <2>3, <1>7, Zenon DEF Resume, Enqueue
  <2>5. CASE halted = "no"
    <3>1. Distinct(queue) /\ \A x \in Elems(queue) : \A y \in Elems(out') : y.to <= x.to
      BY <2>5, <1>1, Zenon DEF ChimeraInv, LiveInv
    <3>2. \A x \in Elems(queue) : x.id # p
      BY <2>1, <2>5, <1>5, Zenon DEF Queued
    <3>3. p \notin given
      <4>1. scanStart[p] \in Nat /\ ~(scanStart[p] >= Length)
        BY <2>1, <1>2, <1>7, SMTT(30)
      <4> QED
        BY <4>1, <2>1, <2>5, <1>2, <1>3, ZenonT(30) DEF ChimeraInv, LiveInv
    <3>4. /\ \A y \in Elems(out') : y.to <= s[2]
          /\ halted' = "no" /\ given' = given /\ active' = active \union {p}
          /\ Elems(queue) \subseteq Elems(queue)
      BY <2>1, <2>3, <2>5, <1>1, <1>3, Zenon
    <3>5. /\ queue' \in Seq(Items)
          /\ scanStart' \in [Ids -> 0 .. (Length + 1)]
          /\ match' \in [Ids -> Spans \union {NoSpan}]
          /\ Elems(queue') = Elems(queue) \union {[from |-> s[1], to |-> s[2], id |-> p]}
          /\ \A r \in Ids \ {p} : scanStart'[r] = scanStart[r]
          /\ QueueInv' /\ LiveInv'
      BY <2>4, <2>5, <3>1, <3>2, <3>3, <3>4, <1>1, <1>2, LiveAdd, Zenon
    <3>6. /\ TypeOK' /\ TextOK' /\ CallInv' /\ EventInv' /\ StageInv' /\ DeliveredInOrder'
          /\ pc' = "hyperscan"
      BY <3>5, <2>5, ResumeKeeps, Zenon
    <3>7. Caught'
      <4>1. ASSUME NEW r \in active', Fixed(r)', ~db'[r].single, scanStart'[r] < Length
            PROVE  Queued(r)'
        <5>1. CASE r = p
          <6>1. [from |-> s[1], to |-> s[2], id |-> r] \in Elems(queue')
            BY <5>1, <3>5, ZenonT(30)
          <6> QED
            BY <6>1, Zenon DEF Queued
        <5>2. CASE r # p
          <6>1. r \in active /\ r \in Ids
            BY <4>1, <1>1, <1>2, Zenon
          <6>2. Queued(r)
            BY <5>2, <6>1, <4>1, <3>5, <2>1, <2>5, <1>1, <1>4, <1>5, Zenon
          <6> QED
            BY <6>2, <3>5, Zenon DEF Queued
        <5> QED
          BY <5>1, <5>2, Zenon
      <4> QED
        BY <4>1, <3>6, Zenon DEF Caught
    <3> QED
      BY <3>5, <3>6, <3>7, Zenon DEF ChimeraInv
  <2>6. CASE halted # "no"
    <3>1. /\ queue' \in Seq(Items) /\ Len(queue') = Len(queue) + 1
          /\ scanStart' \in [Ids -> 0 .. (Length + 1)]
          /\ match' \in [Ids -> Spans \union {NoSpan}]
          /\ Sorted(queue') /\ (\A x \in Elems(queue) : SafeStart(x))'
      BY <2>4, <1>1, <1>2, AddMatch, ZenonT(30)
    <3>2. /\ TypeOK' /\ TextOK' /\ CallInv' /\ EventInv' /\ StageInv' /\ DeliveredInOrder'
          /\ pc' = "scanned"
      BY <3>1, <2>6, ResumeKeeps, Zenon
    <3>3. Len(queue) + 1 <= Cardinality(Ids)
      BY <2>6, <1>1, Zenon DEF ChimeraInv, QueueInv
    <3>4. Len(queue') + 0 <= Cardinality(Ids)
      <4>1. queue \in Seq(Items) /\ Cardinality(Ids) \in Nat
        BY <1>2, Zenon
      <4>2. Len(queue) \in Nat
        BY <4>1
      <4>3. Len(queue') = Len(queue) + 1
        BY <3>1, Zenon
      <4> QED
        BY <4>1, <4>2, <4>3, <3>3
    <3>5. QueueInv' /\ LiveInv' /\ Caught'
      BY <3>1, <3>2, <3>4, <2>6, <1>1, <1>4, Zenon DEF QueueInv, LiveInv, Caught, SafeStart
    <3> QED
      BY <3>2, <3>5, Zenon DEF ChimeraInv
  <2> QED
    BY <2>5, <2>6, Zenon
<1> QED
  BY <1>6, <1>7, Zenon

\* Hyperscan goes on to the next offset when it has reported what ends one byte before.
LEMMA HyperscanMovesInv ==
    ASSUME Numbers, ChimeraInv, HyperscanMoves
    PROVE  ChimeraInv'
<1>1. /\ pc = "hyperscan"
      /\ \A p \in Ids \ Unguarded : \A s \in text.spans[p] :
            s[2] = at - 1 => <<p, s[2]>> \in raised \/ p \in active
      /\ IF at = Length THEN pc' = "scanned" /\ UNCHANGED <<at, raised>>
         ELSE at' = at + 1 /\ raised' = {r \in raised : r[2] = at} /\ UNCHANGED pc
      /\ UNCHANGED <<db, text, inUse, active, scanStart, match, queue, ret, left, event,
                     result, scans, out, given, halted>>
  BY Zenon DEF HyperscanMoves
<1>2. pc' \in {"hyperscan", "scanned"} /\ pc' # "resume"
  BY <1>1, Zenon
<1>3. TextOK' /\ QueueInv' /\ LiveInv' /\ DeliveredInOrder'
  BY <1>1, <1>2, Quiet, Zenon
<1>4. /\ Ids' = Ids /\ Items' = Items /\ Unguarded' = Unguarded /\ NoEvent' = NoEvent
      /\ \A r : Fixed(r)' = Fixed(r)
  BY <1>1, SameDb, Zenon DEF NoEvent
<1>5. at \in 0 .. Length /\ at' \in 0 .. Length /\ Length \in Nat
  BY <1>1, ChimeraAssumption, SMTT(30) DEF ChimeraInv, TypeOK
<1>6. TypeOK'
  <2>1. raised' \subseteq raised /\ {active', left', given'} \subseteq SUBSET Ids
    BY <1>1, Zenon DEF ChimeraInv, TypeOK
  <2>2. raised' \subseteq Ids \X (0 .. Length)
    BY <2>1, Zenon DEF ChimeraInv, TypeOK
  <2> QED
    BY <2>1, <2>2, <1>1, <1>2, <1>4, <1>5, Zenon DEF ChimeraInv, TypeOK
<1>7. CallInv' /\ EventInv'
  BY <1>1, <1>2, <1>4, Zenon DEF ChimeraInv, CallInv, EventInv
<1>8. StageInv'
  <2>1. CASE at = Length
    BY <2>1, <1>1, ZenonT(30) DEF StageInv, Scanning
  <2>2. CASE at # Length
    <3>1. at' = at + 1 /\ raised' \subseteq raised /\ pc' = "hyperscan"
      BY <2>2, <1>1, Zenon
    <3>2. /\ \A r \in raised : r[1] \in active
          /\ \A x \in Elems(out) : x.to < at
          /\ \A p \in Ids \ (active \union Unguarded) : \A s \in text.spans[p] : at <= s[2] + 1
      BY <1>1, Zenon DEF ChimeraInv, StageInv, Scanning
    <3>3. \A x \in Elems(out) : x.to < at + 1
      <4>1. out \in Seq(Items) /\ Items \subseteq NatItems
        BY Patterns, Zenon DEF ChimeraInv, TypeOK
      <4>2. \A x \in Elems(out) : x \in Items
        BY <4>1, ElemsIn, Zenon
      <4>3. \A x \in Elems(out) : x.to \in Nat
        BY <4>1, <4>2, Zenon DEF NatItems
      <4> QED
        BY <4>3, <3>2, <1>5
    <3>4. ASSUME NEW p \in Ids \ (active \union Unguarded), NEW s \in text.spans[p]
          PROVE  at + 1 <= s[2] + 1
      <4>1. s[2] \in 0 .. Length
        BY SpanItem, ZenonT(30) DEF ChimeraInv, TypeOK
      <4>2. at <= s[2] + 1
        BY <3>2, Zenon
      <4>3. <<p, s[2]>>[1] = p /\ p \notin active
        BY Zenon
      <4>4. <<p, s[2]>> \notin raised
        BY <4>3, <3>2, Zenon
      <4>5. s[2] # at - 1
        <5>1. s[2] = at - 1 => <<p, s[2]>> \in raised \/ p \in active
          BY <1>1, Zenon
        <5> QED
          BY <4>3, <4>4, <5>1, Zenon
      <4> QED
        BY <4>1, <4>2, <4>5, <1>5
    <3>5. \A r \in raised' : r[1] \in active'
      BY <3>1, <3>2, <1>1, Zenon
    <3> QED
      BY <3>1, <3>3, <3>4, <3>5, <1>1, <1>4, Zenon DEF StageInv
  <2> QED
    BY <2>1, <2>2, Zenon
<1>9. Caught'
  BY <1>1, <1>2, <1>4, Zenon DEF ChimeraInv, Caught, Scanning, Queued
<1> QED
  BY <1>3, <1>6, <1>7, <1>8, <1>9, Zenon DEF ChimeraInv

\* ch_scan_i returns when the scan was stopped, and delivers what is left otherwise.
LEMMA AfterHyperscanInv ==
    ASSUME Numbers, ChimeraInv, AfterHyperscan
    PROVE  ChimeraInv'
<1>1. /\ pc = "scanned"
      /\ IF ret = CH_CALLBACK_TERMINATE THEN Return(CH_SCAN_TERMINATED) /\ unmarkScratchInUse
         ELSE IF ret # CH_SUCCESS THEN Return(ret) /\ unmarkScratchInUse
         ELSE pc' = "flush" /\ UNCHANGED <<result, inUse>>
      /\ UNCHANGED <<db, text, active, scanStart, match, queue, ret, left, at, raised,
                     event, scans, out, given, halted>>
  BY Zenon DEF AfterHyperscan
<1>2. \/ halted = "no" /\ ret = CH_SUCCESS
      \/ halted = "user" /\ ret \in {CH_CALLBACK_TERMINATE, CH_SCAN_TERMINATED}
      \/ halted = "pcre" /\ ret = CH_FAIL_INTERNAL
  BY <1>1, Zenon DEF ChimeraInv, CallInv
<1>3. \/ pc' = "flush" /\ halted = "no" /\ ret = CH_SUCCESS /\ result' = result /\ inUse' = inUse
      \/ /\ pc' = "idle" /\ inUse' = FALSE /\ result' \in Codes /\ Tells(result', halted)
  BY <1>1, <1>2 DEF Return, unmarkScratchInUse, Tells, Codes, CH_SUCCESS, CH_CALLBACK_TERMINATE,
                    CH_SCAN_TERMINATED, CH_FAIL_INTERNAL
<1>4. /\ Ids' = Ids /\ Items' = Items /\ NoEvent' = NoEvent
  BY <1>1, SameDb, Zenon DEF NoEvent
<1>5. TextOK' /\ QueueInv' /\ LiveInv' /\ DeliveredInOrder'
  <2>1. pc' # "resume"
    BY <1>3, Zenon
  <2> QED
    BY <2>1, <1>1, Quiet, Zenon
<1>6. TypeOK'
  BY <1>1, <1>3, <1>4, Zenon DEF ChimeraInv, TypeOK, Codes
<1>7. CallInv'
  <2>1. CASE pc' = "flush"
    BY <2>1, <1>1, <1>3, Zenon DEF CallInv
  <2>2. CASE pc' = "idle"
    <3>1. ReturnTells'
      BY <2>2, <1>1, <1>3, Zenon DEF ReturnTells, Tells
    <3> QED
      BY <3>1, <2>2, Zenon DEF CallInv
  <2> QED
    BY <2>1, <2>2, <1>3, Zenon
<1>8. EventInv' /\ StageInv' /\ Caught'
  BY <1>1, <1>3, <1>4, Zenon DEF ChimeraInv, EventInv, StageInv, Caught, Scanning
<1> QED
  BY <1>5, <1>6, <1>7, <1>8, Zenon DEF ChimeraInv

----------------------------------------------------------------------------
\* The invariant and what follows from it

\* A scratch that was never used
LEMMA InitInv == Init => ChimeraInv
<1> SUFFICES ASSUME Init PROVE ChimeraInv
  BY Zenon
<1>1. /\ db \in Databases
      /\ text = [spans |-> [p \in Ids |-> {}], cont |-> {}]
      /\ inUse = FALSE /\ active = {} /\ queue = <<>> /\ ret = CH_SUCCESS
      /\ scanStart = [p \in Ids |-> 0] /\ match = [p \in Ids |-> NoSpan]
      /\ pc = "idle" /\ left = {} /\ at = 0 /\ raised = {} /\ event = NoEvent
      /\ result = CH_SUCCESS /\ scans = 0
      /\ out = <<>> /\ given = {} /\ halted = "no"
  BY Zenon DEF Init
<1>2. Length \in Nat /\ MaxScans \in Nat
  BY ChimeraAssumption, Zenon
<1>3. text.cont = {} /\ \A p \in Ids : text.spans[p] = {}
  BY <1>1, Zenon
<1>4. TypeOK
  <2>1. queue \in Seq(Items) /\ out \in Seq(Items)
    BY <1>1
  <2>2. 0 \in 0 .. Length /\ 0 \in 0 .. (Length + 1) /\ 0 \in 0 .. MaxScans
    BY <1>2, SMTT(30)
  <2> QED
    BY <2>1, <2>2, <1>1, Zenon DEF TypeOK
<1>5. TextOK
  BY <1>3, Zenon DEF TextOK
<1>6. CallInv
  BY <1>1, Zenon DEF CallInv, ReturnTells
<1>7. Elems(queue) = {} /\ Sorted(queue) /\ Distinct(queue)
  BY <1>1 DEF Elems, Sorted, Distinct
<1>8. EventInv /\ StageInv /\ QueueInv /\ LiveInv /\ Caught /\ DeliveredInOrder
  <2>1. /\ pc = "idle" /\ left = {} /\ raised = {} /\ event = NoEvent /\ active = {}
        /\ queue = <<>> /\ out = <<>> /\ given = {} /\ halted = "no"
    BY <1>1, Zenon
  <2>2. EventInv /\ StageInv /\ Caught /\ DeliveredInOrder
    BY <2>1 DEF EventInv, StageInv, Caught, Scanning, DeliveredInOrder
  <2>3. QueueInv /\ LiveInv
    BY <2>1, <1>7, Zenon DEF QueueInv, LiveInv
  <2> QED
    BY <2>2, <2>3, Zenon
<1> QED
  BY <1>4, <1>5, <1>6, <1>8, Zenon DEF ChimeraInv

\* A step that changes nothing
LEMMA StutterInv ==
    ASSUME ChimeraInv, UNCHANGED vars
    PROVE  ChimeraInv'
<1>1. UNCHANGED <<db, text, inUse, active, scanStart, match, queue, ret, pc, left, at, raised,
                  event, result, scans, out, given, halted>>
  BY Zenon DEF vars
<1>2. /\ Ids' = Ids /\ Items' = Items /\ Unguarded' = Unguarded /\ NoEvent' = NoEvent
      /\ \A r : Fixed(r)' = Fixed(r)
  BY <1>1, SameDb, Zenon DEF NoEvent
<1>3. TypeOK' /\ TextOK'
  BY <1>1, <1>2, SameText, Zenon DEF ChimeraInv, TypeOK
<1>4. CallInv' /\ EventInv' /\ StageInv'
  BY <1>1, <1>2, ZenonT(30) DEF ChimeraInv, CallInv, ReturnTells, EventInv, StageInv, Scanning
<1>5. QueueInv' /\ LiveInv'
  BY <1>1, <1>2, ZenonT(30) DEF ChimeraInv, QueueInv, LiveInv
<1>6. Caught' /\ DeliveredInOrder'
  BY <1>1, <1>2, Zenon DEF ChimeraInv, Caught, Scanning, Queued, DeliveredInOrder
<1> QED
  BY <1>3, <1>4, <1>5, <1>6, Zenon DEF ChimeraInv

\* Every step of a scan preserves the invariant.
LEMMA StepInv ==
    ASSUME Numbers, ChimeraInv, [Next]_vars
    PROVE  ChimeraInv'
<1>1. CASE ch_scan
  BY <1>1, ScanInv, Zenon
<1>2. CASE initQueue
  <2>1. PICK p \in left : \E o \in ScanOutcomes(p, 0) : InitPattern(p, o)
    BY <1>2, Zenon DEF initQueue
  <2>2. pc = "init"
    BY <1>2, Zenon DEF initQueue
  <2> QED
    BY <2>1, <2>2, InitPatternInv, Zenon
<1>3. CASE InitDone
  BY <1>3, InitDoneInv, Zenon
<1>4. CASE multiCallback
  <2>1. ASSUME NEW p \in Ids, NEW e, ConfirmEvent(p, e) PROVE ChimeraInv'
    <3>1. Reports(p, e) /\ NeedConfirm(p) /\ p \notin active
      BY <2>1, Zenon DEF ConfirmEvent, Seen
    <3>2. PICK o \in ScanOutcomes(p, 0) : ConfirmPattern(p, o)
      BY <2>1, Zenon DEF ConfirmEvent
    <3> QED
      BY <3>1, <3>2, ConfirmPatternInv, Zenon
  <2> QED
    BY <2>1, <1>4, IgnoreEventInv, FirstEventInv, LaterEventInv, ResumeInv, Zenon DEF multiCallback
<1>5. CASE catchupPcre
  BY <1>5, CatchupEndInv, TerminatedInv, SkippedInv, CaughtUpInv, ContinuedInv, Zenon DEF catchupPcre
<1>6. CASE HyperscanMoves
  BY <1>6, HyperscanMovesInv, Zenon
<1>7. CASE AfterHyperscan
  BY <1>7, AfterHyperscanInv, Zenon
<1>8. CASE Rest
  <2>1. UNCHANGED vars
    BY <1>8, Zenon DEF Rest
  <2> QED
    BY <2>1, StutterInv, Zenon
<1>9. CASE UNCHANGED vars
  BY <1>9, StutterInv, Zenon
<1> QED
  BY <1>1, <1>2, <1>3, <1>4, <1>5, <1>6, <1>7, <1>8, <1>9, Zenon DEF Next
=============================================================================
