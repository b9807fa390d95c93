-------------------------- MODULE LogicalCombProofs --------------------------
(***************************************************************************)
(* Logical combinations are reported where they are due and nowhere else:  *)
(* CombinationOffsets and ExactCombinations of LogicalComb, for any        *)
(* combinations, any lengths of the streams and any sequence of calls, if  *)
(* the scratch has one stream or the full runtime always works at end of   *)
(* data (Sound).  The run with LogicalComb_shared.cfg shows what happens   *)
(* otherwise.                                                              *)
(***************************************************************************)
EXTENDS LogicalComb, TLAPS

\* No other stream uses the scratch.
OneStream == \A s, t \in rose.streams : s = t

Full == rose.impl = "FULL_ROSE"

\* The offset of the last match is always set before it is used.
Sound == OneStream \/ (Full /\ rose.eodWork /\ ~rose.boundary)

Lengths == 0 .. MaxOffset
Finds == [sub : Subs, at : Lengths]
Tellings == [comb : Combs, at : Lengths]

TypeInv ==
    /\ TypeOK
    /\ matched \in [Streams -> SUBSET Finds] /\ told \in [Streams -> Seq(Tellings)]
    /\ closed \subseteq Streams

-----------------------------------------------------------------------------
\* Numbers and keys

LeastNumber == \A S \in SUBSET Nat : S # {} => \E n \in S : \A m \in S : n <= m

\* f lists the keys in ascending order, each once.
Lists(f, keys, n) ==
    /\ f \in [1 .. n -> keys]
    /\ \A i, j \in 1 .. n : i < j => f[i] < f[j]
    /\ \A k \in keys : \E i \in 1 .. n : f[i] = k

\* The loop over the bits of a vector visits its keys in ascending order, each once.
KeysListed ==
    \A keys \in SUBSET Combs :
        Cardinality(keys) \in Nat /\ Lists(mmbit_iterate(keys), keys, Cardinality(keys))

\* What the proofs use about numbers and finite sets.  NumbersHold proves it, and every
\* lemma that needs it says so.
Numbers == LeastNumber /\ KeysListed

\* What holds at 0 and goes on from each number to the next holds up to n.
LEMMA Upto ==
    ASSUME Numbers, NEW n \in Nat, NEW K, 0 \in K, \A j \in 0 .. n : j \in K /\ j < n => j + 1 \in K
    PROVE  \A j \in 0 .. n : j \in K
<1> DEFINE B == {j \in 0 .. n : j \notin K}
<1> SUFFICES ASSUME B # {} PROVE FALSE
  BY Zenon
<1>1. B \in SUBSET Nat
  OBVIOUS
<1>2. PICK b \in B : \A m \in B : b <= m
  BY <1>1, Zenon DEF Numbers, LeastNumber
<1>3. b \in 0 .. n /\ b \notin K /\ b # 0 /\ b - 1 \in 0 .. n /\ b - 1 < n /\ ~(b <= b - 1)
      /\ (b - 1) + 1 = b
  BY <1>2
<1>4. b - 1 \in K
  BY <1>2, <1>3, Zenon
<1> QED
  BY <1>3, <1>4, Zenon

-----------------------------------------------------------------------------
\* Evaluation

First(c) == CombInfo[c].start
Result(c) == CombInfo[c].result

\* Key k is true when the sub-expressions S have matched and the keys V are true.
True(S, k, V) ==
    IF k \in Subs THEN k \in S
    ELSE CASE Ops[k].op = "NOT" -> Ops[k].ro \notin V
           [] Ops[k].op = "AND" -> Ops[k].lo \in V /\ Ops[k].ro \in V
           [] Ops[k].op = "OR"  -> Ops[k].lo \in V \/ Ops[k].ro \in V

\* V are the true keys of the first operations of c, up to the one before n.
TrueKeys(S, c, V, n) ==
    /\ V \in SUBSET (Subs \cup First(c) .. n)
    /\ \A k \in Subs \cup First(c) .. n : k \in V <=> True(S, k, V)

\* The operations of a combination
LEMMA Operations ==
    ASSUME NEW c \in Combs
    PROVE  /\ First(c) \in Nat /\ Result(c) \in Nat /\ First(c) <= Result(c)
           /\ CombInfo[c].min \in Nat /\ CombInfo[c].max \in Nat
           /\ \A k \in First(c) .. Result(c) :
                 /\ k \in Nat /\ k \notin Subs /\ Ops[k].op \in {"NOT", "AND", "OR"}
                 /\ Ops[k].lo \in Subs \cup First(c) .. (k - 1)
                 /\ Ops[k].ro \in Subs \cup First(c) .. (k - 1)
  BY TreeAssumption, Zenon DEF First, Result

\* Only the operands count.
LEMMA TrueLocal ==
    ASSUME NEW c \in Combs, NEW k \in First(c) .. Result(c), NEW S, NEW V, NEW R, NEW W,
           \A x \in {Ops[k].lo, Ops[k].ro} : x \in V <=> x \in W
    PROVE  True(S, k, V) <=> True(R, k, W)
<1>1. k \notin Subs /\ Ops[k].op \in {"NOT", "AND", "OR"}
  BY Operations, Zenon
<1>2. /\ Ops[k].lo \in V <=> Ops[k].lo \in W
      /\ Ops[k].ro \in V <=> Ops[k].ro \in W
  BY Zenon
<1>3. CASE Ops[k].op = "NOT"
  BY <1>1, <1>2, <1>3, Zenon DEF True
<1>4. CASE Ops[k].op = "AND"
  BY <1>1, <1>2, <1>4, Zenon DEF True
<1>5. CASE Ops[k].op = "OR"
  BY <1>1, <1>2, <1>5, Zenon DEF True
<1> QED
  BY <1>1, <1>3, <1>4, <1>5, Zenon

\* The tree can be evaluated.
LEMMA TrueExists ==
    ASSUME Numbers, NEW c \in Combs, NEW S \in SUBSET Subs
    PROVE  \E V : TrueKeys(S, c, V, Result(c))
<1> DEFINE a == First(c)
           n == Result(c) - First(c) + 1
           K == {j \in 0 .. n : \E V : TrueKeys(S, c, V, a + j - 1)}
<1>0. a \in Nat /\ n \in Nat /\ Result(c) = a + n - 1
  BY Operations
<1>1. 0 \in K
  <2>1. a .. (a + 0 - 1) = {}
    BY <1>0
  <2>2. TrueKeys(S, c, S, a + 0 - 1)
    BY <2>1, Zenon DEF TrueKeys, True
  <2> QED
    BY <1>0, <2>2
<1>2. ASSUME NEW j \in 0 .. n, j \in K, j < n PROVE j + 1 \in K
  <2>1. PICK V : TrueKeys(S, c, V, a + j - 1)
    BY <1>2, Zenon
  <2> DEFINE k == a + j
             W == IF True(S, k, V) THEN V \cup {k} ELSE V
  <2>2. /\ k \in First(c) .. Result(c) /\ k \notin Subs
        /\ a .. k = a .. (a + j - 1) \cup {k} /\ k \notin a .. (a + j - 1)
    <3>1. k \in First(c) .. Result(c)
      BY <1>0, <1>2
    <3> QED
      BY <1>0, <1>2, <3>1, Operations
  <2>3. /\ \A i : i # k => (i \in W <=> i \in V)
        /\ k \notin V
        /\ W \in SUBSET (Subs \cup a .. k)
    <3> HIDE DEF k
    <3> QED
      BY <2>1, <2>2, Zenon DEF TrueKeys
  <2>4. ASSUME NEW i \in a .. k PROVE True(S, i, W) <=> True(S, i, V)
    <3>1. /\ i \in First(c) .. Result(c) /\ k \notin Subs \cup First(c) .. (i - 1)
      BY <1>0, <2>2, <2>4
    <3>2. \A x \in {Ops[i].lo, Ops[i].ro} : x # k
      BY <3>1, Operations, Zenon
    <3> HIDE DEF W, k
    <3> QED
      BY <2>3, <3>1, <3>2, TrueLocal, Zenon
  <2>5. ASSUME NEW i \in Subs \cup a .. k PROVE i \in W <=> True(S, i, W)
    <3>1. CASE i \in Subs
      <4>1. i # k /\ (i \in V <=> True(S, i, V))
        BY <2>1, <2>2, <3>1, Zenon DEF TrueKeys
      <4>2. True(S, i, V) <=> True(S, i, W)
        BY <3>1, Zenon DEF True
      <4> HIDE DEF W
      <4> QED
        BY <4>1, <4>2, <2>3, Zenon
    <3>2. CASE i = k
      <4>1. True(S, i, W) <=> True(S, i, V)
        BY <2>4, <2>2, <3>2, Zenon
      <4>2. i \in W <=> True(S, i, V)
        BY <2>3, <3>2, Zenon
      <4> QED
        BY <4>1, <4>2, Zenon
    <3>3. CASE i \in a .. (a + j - 1)
      <4>1. i # k /\ i \in a .. k /\ (i \in V <=> True(S, i, V))
        BY <2>1, <2>2, <3>3, Zenon DEF TrueKeys
      <4> HIDE DEF W, k
      <4> QED
        BY <4>1, <2>4, <2>3, Zenon
    <3> QED
      BY <2>2, <2>5, <3>1, <3>2, <3>3, Zenon
  <2>6. TrueKeys(S, c, W, k)
    <3> HIDE DEF W, k
    <3> QED
      BY <2>3, <2>5, Zenon DEF TrueKeys
  <2>7. j + 1 \in 0 .. n /\ a + (j + 1) - 1 = k
    BY <1>0, <1>2
  <2> HIDE DEF W, k
  <2> QED
    BY <2>6, <2>7, Zenon
<1>3. n \in K
  <2> HIDE DEF K, a
  <2>1. \A j \in 0 .. n : j \in K
    BY <1>0, <1>1, <1>2, Upto, Zenon
  <2> QED
    BY <1>0, <2>1
<1> QED
  BY <1>0, <1>3, Zenon

\* The value of a combination is that of its last operation.
LEMMA TruthIs ==
    ASSUME Numbers, NEW c \in Combs, NEW S \in SUBSET Subs
    PROVE  \E V : TrueKeys(S, c, V, Result(c)) /\ (Truth(c, S) <=> Result(c) \in V)
<1> DEFINE D == Subs \cup First(c) .. Result(c)
           Value(k, f) == IF k \in Subs THEN k \in S
                          ELSE CASE Ops[k].op = "NOT" -> ~f[Ops[k].ro]
                                 [] Ops[k].op = "AND" -> f[Ops[k].lo] /\ f[Ops[k].ro]
                                 [] Ops[k].op = "OR"  -> f[Ops[k].lo] \/ f[Ops[k].ro]
           val == CHOOSE f : f = [k \in D |-> Value(k, f)]
<1>1. Truth(c, S) = val[Result(c)]
  BY Zenon DEF Truth, First, Result
<1>2. PICK V : TrueKeys(S, c, V, Result(c))
  BY TrueExists, Zenon
<1>3. \A k \in D : k \notin Subs => /\ Ops[k].op \in {"NOT", "AND", "OR"}
                                     /\ Ops[k].lo \in D /\ Ops[k].ro \in D
  <2> SUFFICES ASSUME NEW k \in First(c) .. Result(c)
               PROVE  /\ Ops[k].op \in {"NOT", "AND", "OR"}
                      /\ Ops[k].lo \in D /\ Ops[k].ro \in D
    BY Zenon
  <2>1. First(c) .. (k - 1) \subseteq First(c) .. Result(c)
    BY Operations
  <2> QED
    BY <2>1, Operations, Zenon
<1> DEFINE g == [k \in D |-> k \in V]
<1>4. g = [k \in D |-> Value(k, g)]
  <2> SUFFICES ASSUME NEW k \in D PROVE (k \in V) = Value(k, g)
    BY Zenon
  <2>1. (k \in V) <=> True(S, k, V)
    BY <1>2, Zenon DEF TrueKeys
  <2>2. CASE k \in Subs
    BY <2>1, <2>2 DEF True
  <2>3. CASE k \notin Subs
    <3>1. /\ g[Ops[k].lo] = (Ops[k].lo \in V) /\ g[Ops[k].ro] = (Ops[k].ro \in V)
          /\ Ops[k].op \in {"NOT", "AND", "OR"}
      BY <1>3, <2>3, Zenon
    <3> HIDE DEF g
    <3>2. CASE Ops[k].op = "NOT"
      <4>1. Value(k, g) = ~g[Ops[k].ro]
        BY <2>3, <3>2, Zenon
      <4>2. (k \in V) <=> Ops[k].ro \notin V
        BY <2>1, <2>3, <3>2, Zenon DEF True
      <4>3. (k \in V) = (Ops[k].ro \notin V)
        BY <4>2
      <4>4. (~g[Ops[k].ro]) = (Ops[k].ro \notin V)
        BY <3>1, Zenon
      <4> HIDE DEF Value
      <4> QED
        BY <4>1, <4>3, <4>4, Zenon
    <3>3. CASE Ops[k].op = "AND"
      <4>1. Value(k, g) = (g[Ops[k].lo] /\ g[Ops[k].ro])
        BY <2>3, <3>3, Zenon
      <4>2. (k \in V) <=> Ops[k].lo \in V /\ Ops[k].ro \in V
        BY <2>1, <2>3, <3>3, Zenon DEF True
      <4>3. (k \in V) = (Ops[k].lo \in V /\ Ops[k].ro \in V)
        BY <4>2
      <4>4. (g[Ops[k].lo] /\ g[Ops[k].ro]) = (Ops[k].lo \in V /\ Ops[k].ro \in V)
        BY <3>1, Zenon
      <4> HIDE DEF Value
      <4> QED
        BY <4>1, <4>3, <4>4, Zenon
    <3>4. CASE Ops[k].op = "OR"
      <4>1. Value(k, g) = (g[Ops[k].lo] \/ g[Ops[k].ro])
        BY <2>3, <3>4, Zenon
      <4>2. (k \in V) <=> Ops[k].lo \in V \/ Ops[k].ro \in V
        BY <2>1, <2>3, <3>4, Zenon DEF True
      <4>3. (k \in V) = (Ops[k].lo \in V \/ Ops[k].ro \in V)
        BY <4>2
      <4>4. (g[Ops[k].lo] \/ g[Ops[k].ro]) = (Ops[k].lo \in V \/ Ops[k].ro \in V)
        BY <3>1, Zenon
      <4> HIDE DEF Value
      <4> QED
        BY <4>1, <4>3, <4>4, Zenon
    <3> QED
      BY <3>1, <3>2, <3>3, <3>4, Zenon
  <2> QED
    BY <2>2, <2>3, Zenon
<1>5. val = [k \in D |-> Value(k, val)]
  <2> HIDE DEF g
  <2> QED
    BY <1>4, ZenonT(30)
<1> HIDE DEF val, g
<1> DEFINE W == {k \in D : val[k]}
<1>6. ASSUME NEW k \in D PROVE k \in W <=> True(S, k, W)
  <2>1. val[k] = Value(k, val)
    BY <1>5, Zenon
  <2>2. CASE k \in Subs
    BY <2>1, <2>2, Zenon DEF True
  <2>3. CASE k \notin Subs
    <3>1. /\ Ops[k].lo \in W <=> val[Ops[k].lo]
          /\ Ops[k].ro \in W <=> val[Ops[k].ro]
          /\ k \in W <=> val[k]
          /\ Ops[k].op \in {"NOT", "AND", "OR"}
      BY <1>3, <2>3, Zenon
    <3> HIDE DEF W
    <3>2. CASE Ops[k].op = "NOT"
      BY <2>1, <2>3, <3>1, <3>2, Zenon DEF True
    <3>3. CASE Ops[k].op = "AND"
      BY <2>1, <2>3, <3>1, <3>3, Zenon DEF True
    <3>4. CASE Ops[k].op = "OR"
      BY <2>1, <2>3, <3>1, <3>4, Zenon DEF True
    <3> QED
      BY <3>1, <3>2, <3>3, <3>4, Zenon
  <2> QED
    BY <2>2, <2>3, Zenon
<1>7. TrueKeys(S, c, W, Result(c))
  BY <1>6, Zenon DEF TrueKeys
<1>8. Result(c) \in D
  BY Operations
<1>9. Truth(c, S) <=> Result(c) \in W
  BY <1>1, <1>8, Zenon
<1> HIDE DEF W
<1> QED
  BY <1>7, <1>9, Zenon

\* The loop of isLogicalCombination computes it.
LEMMA LoopIs ==
    ASSUME Numbers, NEW c \in Combs, NEW S \in SUBSET Subs, NEW V, TrueKeys(S, c, V, Result(c))
    PROVE  isLogicalCombination(S, c) <=> Result(c) \in V
<1> DEFINE a == First(c)
           b == Result(c)
           n == Result(c) - First(c) + 1
           Next1(f, o) == IF o = a - 1 THEN S ELSE Apply(f[o - 1], o)
           on == CHOOSE f : f = [o \in (a - 1) .. b |-> Next1(f, o)]
           Upon(o) == S \cup (V \cap a .. o)
           g == [o \in (a - 1) .. b |-> Upon(o)]
<1>0. a \in Nat /\ b \in Nat /\ n \in Nat /\ a <= b /\ b = a + n - 1
  BY Operations
<1>1. isLogicalCombination(S, c) <=> b \in on[b]
  BY Zenon DEF isLogicalCombination, First, Result
<1>2. ASSUME NEW o \in a .. b PROVE Apply(Upon(o - 1), o) = Upon(o)
  <2>1. /\ o \notin Subs /\ Ops[o].op \in {"NOT", "AND", "OR"}
        /\ Ops[o].lo \in Subs \cup a .. (o - 1)
        /\ Ops[o].ro \in Subs \cup a .. (o - 1)
    BY <1>2, Operations, Zenon
  <2>2. ASSUME NEW x \in Subs \cup a .. (o - 1) PROVE x \in Upon(o - 1) <=> x \in V
    <3>1. CASE x \in Subs
      <4>1. x \in V <=> x \in S
        BY <3>1, Zenon DEF TrueKeys, True
      <4> QED
        BY <4>1, Zenon
    <3>2. CASE x \notin Subs
      BY <3>2, <2>2, Zenon
    <3> QED
      BY <3>1, <3>2, Zenon
  <2>3. o \in V <=> True(S, o, V)
    BY <1>2, Zenon DEF TrueKeys
  <2>4. True(S, o, V) <=> True(S, o, Upon(o - 1))
    <3> HIDE DEF Upon
    <3> QED
      BY <1>2, <2>1, <2>2, TrueLocal
  <2>5. /\ o \in V => Upon(o) = Upon(o - 1) \cup {o}
        /\ o \notin V => Upon(o) = Upon(o - 1) \ {o}
    <3>1. a .. o = a .. (o - 1) \cup {o} /\ o \notin a .. (o - 1) /\ o \notin S
      BY <1>0, <1>2, <2>1
    <3> QED
      BY <3>1, Zenon
  <2> HIDE DEF Upon
  <2>6. Apply(Upon(o - 1), o) = IF True(S, o, Upon(o - 1)) THEN Upon(o - 1) \cup {o}
                                ELSE Upon(o - 1) \ {o}
    <3>1. CASE Ops[o].op = "NOT"
      BY <2>1, <3>1, Zenon DEF Apply, True
    <3>2. CASE Ops[o].op = "AND"
      BY <2>1, <3>2, Zenon DEF Apply, True
    <3>3. CASE Ops[o].op = "OR"
      BY <2>1, <3>3, Zenon DEF Apply, True
    <3> QED
      BY <2>1, <3>1, <3>2, <3>3, Zenon
  <2> QED
    BY <2>3, <2>4, <2>5, <2>6, Zenon
<1>3. Upon(a - 1) = S
  BY <1>0
<1>4. g = [o \in (a - 1) .. b |-> Next1(g, o)]
  <2> SUFFICES ASSUME NEW o \in (a - 1) .. b PROVE Upon(o) = Next1(g, o)
    BY Zenon
  <2>1. CASE o = a - 1
    BY <2>1, <1>3, Zenon
  <2>2. CASE o # a - 1
    <3>1. o \in a .. b /\ o - 1 \in (a - 1) .. b
      BY <2>2, <1>0
    <3>2. g[o - 1] = Upon(o - 1)
      BY <3>1, Zenon
    <3> HIDE DEF Upon, g
    <3> QED
      BY <3>1, <3>2, <1>2, <2>2, Zenon
  <2> QED
    BY <2>1, <2>2, Zenon
<1>5. on = [o \in (a - 1) .. b |-> Next1(on, o)]
  <2> HIDE DEF g
  <2> QED
    BY <1>4, Zenon
<1> HIDE DEF on, g
<1> DEFINE K == {j \in 0 .. n : on[a - 1 + j] = Upon(a - 1 + j)}
<1>6. 0 \in K
  <2>1. a - 1 \in (a - 1) .. b /\ a - 1 + 0 = a - 1 /\ 0 \in 0 .. n
    BY <1>0
  <2>2. on[a - 1] = S
    BY <2>1, <1>5, Zenon
  <2> HIDE DEF Upon
  <2> QED
    BY <2>1, <2>2, <1>3, Zenon
<1>7. ASSUME NEW j \in 0 .. n, j \in K, j < n PROVE j + 1 \in K
  <2> DEFINE o == a + j
  <2>1. /\ o \in a .. b /\ o \in (a - 1) .. b /\ o # a - 1 /\ o - 1 = a - 1 + j
        /\ a - 1 + (j + 1) = o /\ j + 1 \in 0 .. n
    BY <1>0, <1>7
  <2>2. on[o - 1] = Upon(o - 1)
    BY <2>1, <1>7, Zenon
  <2> HIDE DEF Upon, o
  <2>3. on[o] = Apply(on[o - 1], o)
    BY <2>1, <1>5, Zenon
  <2>4. on[o] = Upon(o)
    BY <2>1, <2>2, <2>3, <1>2, Zenon
  <2> QED
    BY <2>1, <2>4, Zenon
<1>8. on[b] = Upon(b)
  <2>1. n \in K
    <3> HIDE DEF K
    <3>1. \A j \in 0 .. n : j \in K
      BY <1>0, <1>6, <1>7, Upto, Zenon
    <3> QED
      BY <1>0, <3>1
  <2>2. a - 1 + n = b
    BY <1>0
  <2> QED
    BY <2>1, <2>2, Zenon
<1>9. b \in a .. b /\ b \notin Subs
  BY <1>0, Operations
<1>10. b \in Upon(b) <=> b \in V
  BY <1>9, Zenon
<1> HIDE DEF Upon, b
<1> QED
  BY <1>1, <1>8, <1>10, Zenon DEF b

\* isLogicalCombination tells whether the combination holds.
LEMMA Evaluation ==
    ASSUME Numbers, NEW c \in Combs, NEW S \in SUBSET Subs
    PROVE  isLogicalCombination(S, c) <=> Truth(c, S)
<1>1. PICK V : TrueKeys(S, c, V, Result(c)) /\ (Truth(c, S) <=> Result(c) \in V)
  BY TruthIs, Zenon
<1> QED
  BY <1>1, LoopIs, Zenon

\* It depends on the sub-expressions of the combination only.
LEMMA Relevant ==
    ASSUME Numbers, NEW c \in Combs, NEW S \in SUBSET Subs, S \cap SubsOf(c) = {}
    PROVE  Truth(c, S) <=> Truth(c, {})
<1> DEFINE a == First(c)
           n == Result(c) - First(c)
<1>0. a \in Nat /\ Result(c) \in Nat /\ n \in Nat /\ Result(c) = a + n /\ {} \in SUBSET Subs
  BY Operations
<1>1. PICK V : TrueKeys(S, c, V, Result(c)) /\ (Truth(c, S) <=> Result(c) \in V)
  BY TruthIs, Zenon
<1>2. PICK W : TrueKeys({}, c, W, Result(c)) /\ (Truth(c, {}) <=> Result(c) \in W)
  BY <1>0, TruthIs, Zenon
<1>3. ASSUME NEW k \in a .. Result(c), NEW x \in {Ops[k].lo, Ops[k].ro}, x \in Subs
      PROVE  x \in V <=> x \in W
  <2>1. x \in SubsOf(c)
    BY <1>3, Zenon DEF SubsOf, First, Result
  <2>2. (x \in V <=> x \in S) /\ (x \in W <=> x \in {})
    BY <1>1, <1>2, <1>3, Zenon DEF TrueKeys, True
  <2> QED
    BY <2>1, <2>2, Zenon
<1> DEFINE K == {j \in 0 .. n : \A i \in a .. (a + j) : i \in V <=> i \in W}
<1>4. ASSUME NEW k \in a .. Result(c), \A i \in a .. (k - 1) : i \in V <=> i \in W
      PROVE  k \in V <=> k \in W
  <2>1. \A x \in {Ops[k].lo, Ops[k].ro} : x \in Subs \/ x \in a .. (k - 1)
    BY <1>4, Operations, Zenon
  <2>2. \A x \in {Ops[k].lo, Ops[k].ro} : x \in V <=> x \in W
    BY <2>1, <1>3, <1>4, Zenon
  <2>3. True(S, k, V) <=> True({}, k, W)
    BY <2>2, <1>4, TrueLocal, Zenon
  <2>4. (k \in V <=> True(S, k, V)) /\ (k \in W <=> True({}, k, W))
    BY <1>1, <1>2, <1>4, Zenon DEF TrueKeys
  <2> QED
    BY <2>3, <2>4, Zenon
<1>5. 0 \in K
  <2>1. a \in a .. Result(c) /\ a .. (a - 1) = {} /\ a .. (a + 0) = {a} /\ 0 \in 0 .. n
    BY <1>0
  <2> QED
    BY <2>1, <1>4, Zenon
<1>6. ASSUME NEW j \in 0 .. n, j \in K, j < n PROVE j + 1 \in K
  <2> DEFINE k == a + (j + 1)
  <2>1. /\ k \in a .. Result(c) /\ a .. (k - 1) = a .. (a + j)
        /\ a .. (a + (j + 1)) = a .. (a + j) \cup {k} /\ j + 1 \in 0 .. n
    <3>1. j < n
      BY <1>6, Zenon
    <3> HIDE DEF a, n
    <3> QED
      BY <3>1, <1>0
  <2>2. \A i \in a .. (a + j) : i \in V <=> i \in W
    BY <1>6, Zenon
  <2>3. k \in V <=> k \in W
    BY <2>1, <2>2, <1>4, Zenon
  <2> HIDE DEF k
  <2> QED
    BY <2>1, <2>2, <2>3, Zenon
<1>7. \A j \in 0 .. n : j \in K
  <2> HIDE DEF K
  <2> QED
    BY <1>0, <1>5, <1>6, Upto, Zenon
<1>8. n \in 0 .. n /\ Result(c) \in a .. (a + n)
  BY <1>0
<1>9. Result(c) \in V <=> Result(c) \in W
  BY <1>7, <1>8, Zenon
<1> QED
  BY <1>1, <1>2, <1>9, Zenon

-----------------------------------------------------------------------------
\* Reports and their delivery

Elems(q) == {q[i] : i \in DOMAIN q}

\* The combinations of cs that are reported at `at', with E exhausted
Due(cs, at, E) == {c \in cs : at \in CombInfo[c].min .. CombInfo[c].max /\ c \notin E}

\* The combinations of C that hold, and those that hold with none of their matches
Passing(C, lv) == {c \in C : isLogicalCombination(lv, c)}
Negative(lv) == {c \in Combs : isPurelyNegativeMatch(lv, c)}

\* Each of the combinations cs is reported once, at `at'.
Tells(rs, cs, at) ==
    /\ rs \in Seq(Tellings) /\ IsInjective(rs)
    /\ Elems(rs) = {[comb |-> c, at |-> at] : c \in cs}

\* What the loops report
LEMMA Reported ==
    ASSUME Numbers, NEW s, NEW cs \in SUBSET Combs, NEW at \in Lengths
    PROVE  Tells(Reports(s, cs, at), Due(cs, at, evec[s]), at)
<1> DEFINE due == mmbit_iterate(Due(cs, at, evec[s]))
           n == Cardinality(Due(cs, at, evec[s]))
           rs == [i \in 1 .. n |-> [comb |-> due[i], at |-> at]]
<1>1. Due(cs, at, evec[s]) \in SUBSET Combs
  BY Zenon DEF Due
<1>2. n \in Nat /\ Lists(due, Due(cs, at, evec[s]), n)
  BY <1>1, Zenon DEF Numbers, KeysListed
<1>3. /\ due \in [1 .. n -> Due(cs, at, evec[s])] /\ DOMAIN due = 1 .. n
      /\ \A i, j \in 1 .. n : i < j => due[i] < due[j]
      /\ \A k \in Due(cs, at, evec[s]) : \E i \in 1 .. n : due[i] = k
  BY <1>2, Zenon DEF Lists
<1>4. Reports(s, cs, at) = rs
  BY <1>3, Zenon DEF Reports, Due
<1>5. \A i \in 1 .. n : due[i] \in Due(cs, at, evec[s]) /\ due[i] \in Combs /\ due[i] \in Nat
  BY <1>1, <1>3, TreeAssumption, Zenon
<1> HIDE DEF n, due
<1>6. \A i, j \in 1 .. n : due[i] = due[j] => i = j
  BY <1>2, <1>3, <1>5
<1>7. rs \in Seq(Tellings) /\ DOMAIN rs = 1 .. n
  <2>1. \A i \in 1 .. n : [comb |-> due[i], at |-> at] \in Tellings
    BY <1>5, Zenon DEF Tellings
  <2> QED
    BY <2>1, <1>2
<1>8. IsInjective(rs)
  BY <1>6, Zenon DEF IsInjective
<1>9. Elems(rs) = {[comb |-> c, at |-> at] : c \in Due(cs, at, evec[s])}
  BY <1>3, <1>5, <1>7, Zenon DEF Elems
<1> QED
  BY <1>4, <1>7, <1>8, <1>9, Zenon DEF Tells

\* Sequences without repetition that have nothing in common, one after the other
LEMMA Joined ==
    ASSUME NEW T, NEW p \in Seq(T), NEW q \in Seq(T)
    PROVE  /\ p \o q \in Seq(T) /\ Elems(p \o q) = Elems(p) \cup Elems(q)
           /\ IsInjective(p) /\ IsInjective(q) /\ Elems(p) \cap Elems(q) = {} => IsInjective(p \o q)
<1> DEFINE r == p \o q
           m == Len(p)
           n == Len(q)
<1>1. /\ r \in Seq(T) /\ m \in Nat /\ n \in Nat /\ DOMAIN p = 1 .. m /\ DOMAIN q = 1 .. n
      /\ DOMAIN r = 1 .. (m + n)
  OBVIOUS
<1>2. \A i \in 1 .. m : r[i] = p[i] /\ i \in 1 .. (m + n)
  OBVIOUS
<1>3. \A i \in 1 .. n : r[m + i] = q[i] /\ m + i \in 1 .. (m + n)
  OBVIOUS
<1>4. \A i \in 1 .. (m + n) : i \in 1 .. m \/ (i - m \in 1 .. n /\ i = m + (i - m) /\ r[i] = q[i - m])
  OBVIOUS
<1> HIDE DEF r, m, n
<1>5. Elems(r) = Elems(p) \cup Elems(q)
  <2>1. Elems(p) \subseteq Elems(r) /\ Elems(q) \subseteq Elems(r)
    BY <1>1, <1>2, <1>3, Zenon DEF Elems
  <2>2. ASSUME NEW i \in 1 .. (m + n) PROVE r[i] \in Elems(p) \cup Elems(q)
    <3>1. CASE i \in 1 .. m
      BY <3>1, <1>1, <1>2, Zenon DEF Elems
    <3>2. CASE i \notin 1 .. m
      BY <3>2, <2>2, <1>1, <1>4, Zenon DEF Elems
    <3> QED
      BY <3>1, <3>2, Zenon
  <2> QED
    BY <2>1, <2>2, <1>1, Zenon DEF Elems
<1>6. ASSUME IsInjective(p), IsInjective(q), Elems(p) \cap Elems(q) = {},
             NEW i \in 1 .. (m + n), NEW j \in 1 .. (m + n), r[i] = r[j]
      PROVE  i = j
  <2>1. \A k \in 1 .. (m + n) : (k \in 1 .. m <=> r[k] \in Elems(p)) /\ (k \notin 1 .. m <=> r[k] \in Elems(q))
    <3>1. \A k \in 1 .. m : r[k] \in Elems(p)
      BY <1>1, <1>2, Zenon DEF Elems
    <3>2. \A k \in 1 .. (m + n) : k \notin 1 .. m => r[k] \in Elems(q)
      BY <1>1, <1>4, Zenon DEF Elems
    <3>3. \A x : ~(x \in Elems(p) /\ x \in Elems(q))
      BY <1>6, Zenon
    <3> QED
      BY <3>1, <3>2, <3>3, Zenon
  <2>2. CASE i \in 1 .. m
    <3>1. j \in 1 .. m
      BY <2>1, <2>2, <1>6, Zenon
    <3> QED
      BY <3>1, <2>2, <1>1, <1>2, <1>6, Zenon DEF IsInjective
  <2>3. CASE i \notin 1 .. m
    <3>1. j \notin 1 .. m
      BY <2>1, <2>3, <1>6, Zenon
    <3>2. i - m \in DOMAIN q /\ j - m \in DOMAIN q /\ q[i - m] = q[j - m]
      BY <3>1, <2>3, <1>1, <1>4, <1>6, Zenon
    <3>3. i - m = j - m
      BY <3>2, <1>6, Zenon DEF IsInjective
    <3> QED
      BY <3>3, <1>1
  <2> QED
    BY <2>2, <2>3, Zenon
<1>7. IsInjective(p) /\ IsInjective(q) /\ Elems(p) \cap Elems(q) = {} => IsInjective(r)
  BY <1>1, <1>6, Zenon DEF IsInjective
<1> QED
  BY <1>1, <1>5, <1>7, Zenon DEF r

-----------------------------------------------------------------------------
\* What is due of the matches M of a stream, with the combinations C active

\* MatchOffsets, MatchedBy
Offsets(M, c) == {m.at : m \in {k \in M : k.sub \in SubsOf(c)}}
SubsBy(M, at) == {m.sub : m \in {k \in M : k.at <= at}}

\* A match of sub at `at' more, and the combinations active then
With(M, sub, at) == M \cup {[sub |-> sub, at |-> at]}
Activated(C, sub) == C \cup {c \in Combs : sub \in SubsOf(c)}

\* The sub-expressions with a match
SubsIn(M) == {m.sub : m \in M}

\* Nothing has matched behind `at'.
Newest(M, at) == \A m \in M : m.at <= at

\* The offsets of matches at which c holds
Holding(M, c) ==
    {at \in Offsets(M, c) : /\ at \in CombInfo[c].min .. CombInfo[c].max
                            /\ Truth(c, SubsBy(M, at))}

\* Those that have been evaluated: all, but for the last match of an active one
Settled(M, C, c) == {at \in Holding(M, c) : ~(c \in C /\ Newest(M, at))}

\* What is reported of the offsets X
Allowed(c, X) == IF c \in Single THEN {x \in X : \A y \in X : x <= y} ELSE X

\* The offsets at which c was reported in T
Sent(T, c) == {T[i].at : i \in {j \in DOMAIN T : T[j].comb = c}}

\* T and the exhausted combinations E are up to date.
UpToDate(T, E, M, C) ==
    /\ IsInjective(T)
    /\ \A c \in Combs :
          /\ Sent(T, c) = Allowed(c, Settled(M, C, c))
          /\ c \in E <=> c \in Single /\ Sent(T, c) # {}

\* The active combinations are those with a match at `at', the last there was.
AtEnd(M, C, at) ==
    /\ Newest(M, at)
    /\ \A c \in Combs : c \in C <=> at \in Offsets(M, c)

\* ExactCombinations for one stream, of length `end'
Exact(T, M, end) ==
    /\ IsInjective(T)
    /\ \A c \in Combs :
          LET due == CombInfo[c].min .. CombInfo[c].max \cap
                         ({at \in Offsets(M, c) : Truth(c, SubsBy(M, at))} \cup
                          {at \in {end} : Offsets(M, c) = {} /\ Truth(c, {})})
          IN  Sent(T, c) = IF c \in Single /\ due # {} THEN {Min(due)} ELSE due

\* The offsets are numbers.
LEMMA OffsetsType ==
    ASSUME NEW M \in SUBSET Finds, NEW c
    PROVE  /\ Offsets(M, c) \subseteq Lengths /\ Lengths \subseteq Nat
           /\ \A m \in M : m.at \in Lengths /\ m.at \in Nat /\ m.sub \in Subs
           /\ \A at : at \in Offsets(M, c) <=> \E m \in M : m.sub \in SubsOf(c) /\ m.at = at
           /\ \A at : SubsBy(M, at) \in SUBSET Subs
<1>1. MaxOffset \in Nat
  BY RuntimeAssumption, Zenon
<1>2. \A m \in M : m.at \in Lengths /\ m.at \in Nat /\ m.sub \in Subs
  BY <1>1 DEF Finds, Lengths
<1> QED
  BY <1>1, <1>2 DEF Offsets, SubsBy, Lengths

\* Reports, by offset and by element
LEMMA SentBy ==
    ASSUME NEW T \in Seq(Tellings), NEW c, NEW at
    PROVE  at \in Sent(T, c) <=> [comb |-> c, at |-> at] \in Elems(T)
<1>1. \A i \in DOMAIN T : T[i] \in Tellings
  OBVIOUS
<1>2. \A i \in DOMAIN T : T[i] = [comb |-> T[i].comb, at |-> T[i].at]
  BY <1>1, Zenon DEF Tellings
<1>3. ASSUME at \in Sent(T, c) PROVE [comb |-> c, at |-> at] \in Elems(T)
  <2>1. PICK i \in DOMAIN T : T[i].comb = c /\ T[i].at = at
    BY <1>3, Zenon DEF Sent
  <2> QED
    BY <2>1, <1>2, Zenon DEF Elems
<1>4. ASSUME [comb |-> c, at |-> at] \in Elems(T) PROVE at \in Sent(T, c)
  <2>1. PICK i \in DOMAIN T : T[i] = [comb |-> c, at |-> at]
    BY <1>4, Zenon DEF Elems
  <2>2. T[i].comb = c /\ T[i].at = at
    BY <2>1
  <2> QED
    BY <2>2, Zenon DEF Sent
<1> QED
  BY <1>3, <1>4, Zenon

\* U has the reports of T and, on top of them, the combinations F at `at'.
Added(T, U, F, at) ==
    /\ U \in Seq(Tellings)
    /\ \A c : Sent(U, c) = Sent(T, c) \cup {x \in {at} : c \in F}
    /\ IsInjective(T) /\ (\A c \in F : at \notin Sent(T, c)) => IsInjective(U)

\* What the reports rs add to what was reported
LEMMA SentMore ==
    ASSUME NEW T \in Seq(Tellings), NEW F, NEW at, NEW rs, Tells(rs, F, at)
    PROVE  Added(T, T \o rs, F, at)
<1>1. /\ rs \in Seq(Tellings) /\ IsInjective(rs)
      /\ Elems(rs) = {[comb |-> c, at |-> at] : c \in F}
  BY Zenon DEF Tells
<1>2. /\ T \o rs \in Seq(Tellings) /\ Elems(T \o rs) = Elems(T) \cup Elems(rs)
      /\ IsInjective(T) /\ Elems(T) \cap Elems(rs) = {} => IsInjective(T \o rs)
  BY <1>1, Joined
<1>3. ASSUME NEW c, NEW x
      PROVE  x \in Sent(T \o rs, c) <=> x \in Sent(T, c) \/ (x = at /\ c \in F)
  <2>1. /\ x \in Sent(T \o rs, c) <=> [comb |-> c, at |-> x] \in Elems(T \o rs)
        /\ x \in Sent(T, c) <=> [comb |-> c, at |-> x] \in Elems(T)
    BY <1>2, SentBy, Zenon
  <2>2. [comb |-> c, at |-> x] \in Elems(rs) <=> x = at /\ c \in F
    BY <1>1, Zenon
  <2> QED
    BY <2>1, <2>2, <1>2, Zenon
<1>4. (\A c \in F : at \notin Sent(T, c)) => Elems(T) \cap Elems(rs) = {}
  <2> SUFFICES ASSUME \A c \in F : at \notin Sent(T, c), NEW r \in Elems(rs) PROVE r \notin Elems(T)
    BY Zenon
  <2>1. PICK c \in F : r = [comb |-> c, at |-> at]
    BY <1>1, Zenon
  <2> QED
    BY <2>1, SentBy, Zenon
<1>5. \A c : Sent(T \o rs, c) = Sent(T, c) \cup {x \in {at} : c \in F}
  BY <1>3
<1> QED
  BY <1>1, <1>2, <1>4, <1>5, Zenon DEF Added

\* Of offsets that are due at least one is reported.
LEMMA AllowedSome ==
    ASSUME Numbers, NEW c, NEW X \in SUBSET Nat, X # {}
    PROVE  /\ Allowed(c, X) # {} /\ Allowed(c, X) \subseteq X
           /\ c \in Single => Allowed(c, X) = {Min(X)}
<1>1. PICK n \in X : \A m \in X : n <= m
  BY Zenon DEF Numbers, LeastNumber
<1>2. Allowed(c, X) # {} /\ Allowed(c, X) \subseteq X
  BY <1>1, Zenon DEF Allowed
<1>3. Min(X) \in X /\ \A m \in X : Min(X) <= m
  BY <1>1, Zenon DEF Min
<1>4. \A x \in X : (\A y \in X : x <= y) => x = Min(X)
  <2> SUFFICES ASSUME NEW x \in X, \A y \in X : x <= y PROVE x = Min(X)
    BY Zenon
  <2>1. x \in Nat /\ Min(X) \in Nat /\ x <= Min(X) /\ Min(X) <= x
    BY <1>3, Zenon
  <2> HIDE DEF Min
  <2> QED
    BY <2>1
<1>5. c \in Single => Allowed(c, X) = {Min(X)}
  BY <1>3, <1>4, Zenon DEF Allowed
<1> QED
  BY <1>2, <1>5, Zenon

\* A later offset l on top of the offsets X
LEMMA AllowedMore ==
    ASSUME Numbers, NEW c, NEW X \in SUBSET Nat, NEW l \in Nat, \A x \in X : x < l
    PROVE  /\ c \notin Single => Allowed(c, X \cup {l}) = Allowed(c, X) \cup {l}
           /\ c \in Single /\ X # {} => Allowed(c, X \cup {l}) = Allowed(c, X)
           /\ c \in Single /\ X = {} => Allowed(c, X \cup {l}) = {l}
<1>1. c \notin Single => Allowed(c, X \cup {l}) = Allowed(c, X) \cup {l}
  BY Zenon DEF Allowed
<1>2. ASSUME c \in Single, X = {} PROVE Allowed(c, X \cup {l}) = {l}
  BY <1>2 DEF Allowed
<1>3. ASSUME c \in Single, X # {} PROVE Allowed(c, X \cup {l}) = Allowed(c, X)
  <2>1. PICK z \in X : TRUE
    BY <1>3, Zenon
  <2>2. l \notin Allowed(c, X \cup {l})
    <3>1. z \in Nat /\ ~(l <= z)
      BY <2>1
    <3> QED
      BY <3>1, <2>1, <1>3, Zenon DEF Allowed
  <2>3. \A x \in X : x <= l /\ x # l
    OBVIOUS
  <2>4. \A x \in X : (\A y \in X \cup {l} : x <= y) <=> (\A y \in X : x <= y)
    BY <2>3, Zenon
  <2> QED
    BY <2>2, <2>4, <1>3, Zenon DEF Allowed
<1> QED
  BY <1>1, <1>2, <1>3, Zenon

\* A flush reports the active combinations that hold at the last match.
LEMMA Flushing ==
    ASSUME Numbers, NEW T \in Seq(Tellings), NEW E, NEW M \in SUBSET Finds, NEW C \in SUBSET Combs,
           NEW l \in Lengths, UpToDate(T, E, M, C), Newest(M, l), \A c \in C : l \in Offsets(M, c),
           NEW rs, Tells(rs, Due(Passing(C, SubsIn(M)), l, E), l)
    PROVE  /\ UpToDate(T \o rs, E \cup (Due(Passing(C, SubsIn(M)), l, E) \cap Single), M, {})
           /\ T \o rs \in Seq(Tellings)
<1> DEFINE lv == SubsIn(M)
           F == Due(Passing(C, SubsIn(M)), l, E)
<1>0. F = {c \in {d \in C : isLogicalCombination(lv, d)} :
                l \in CombInfo[c].min .. CombInfo[c].max /\ c \notin E}
  BY Zenon DEF Due, Passing
<1>1. /\ \A c : Sent(T \o rs, c) = Sent(T, c) \cup {x \in {l} : c \in F}
      /\ IsInjective(T) /\ (\A c \in F : l \notin Sent(T, c)) => IsInjective(T \o rs)
      /\ T \o rs \in Seq(Tellings)
  <2> HIDE DEF F
  <2>1. Added(T, T \o rs, F, l)
    BY SentMore, Zenon DEF F
  <2> QED
    BY <2>1, Zenon DEF Added
<1>2. l \in Nat /\ lv \in SUBSET Subs /\ SubsBy(M, l) = lv
  BY OffsetsType, Zenon DEF Newest, SubsBy, SubsIn
<1> HIDE DEF lv, F
<1>3. ASSUME NEW c \in Combs
      PROVE  /\ Sent(T, c) = Allowed(c, Settled(M, C, c))
             /\ c \in E <=> c \in Single /\ Sent(T, c) # {}
             /\ Settled(M, {}, c) = Holding(M, c)
             /\ Settled(M, C, c) \in SUBSET Nat
             /\ Allowed(c, Settled(M, C, c)) \subseteq Settled(M, C, c)
             /\ Holding(M, c) \subseteq Nat
  <2>1. Holding(M, c) \subseteq Nat
    BY OffsetsType, Zenon DEF Holding
  <2> QED
    BY <2>1, Zenon DEF UpToDate, Settled, Allowed
<1>4. ASSUME NEW c \in C
      PROVE  /\ c \in Combs
             /\ \A x \in Settled(M, C, c) : x < l
             /\ Holding(M, c) = Settled(M, C, c) \cup {x \in {l} : /\ isLogicalCombination(lv, c)
                                                    /\ l \in CombInfo[c].min .. CombInfo[c].max}
  <2>1. \A x \in Offsets(M, c) : x \in Nat /\ x <= l
    BY OffsetsType DEF Newest
  <2>2. \A x \in Offsets(M, c) : Newest(M, x) <=> x = l
    <3>1. l \in Offsets(M, c)
      BY Zenon
    <3>2. PICK m \in M : m.at = l
      BY <3>1, OffsetsType, Zenon
    <3>3. \A x \in Offsets(M, c) : Newest(M, x) => l <= x
      BY <3>2, Zenon DEF Newest
    <3> QED
      BY <3>3, <2>1, <1>2
  <2>3. l \in Holding(M, c) <=> isLogicalCombination(lv, c) /\ l \in CombInfo[c].min .. CombInfo[c].max
    <3>1. isLogicalCombination(lv, c) <=> Truth(c, lv)
      BY <1>2, Evaluation, Zenon
    <3> QED
      BY <3>1, <1>2, Zenon DEF Holding
  <2>4. \A x : x \in Settled(M, C, c) <=> x \in Holding(M, c) /\ x # l
    BY <2>2, Zenon DEF Settled, Holding
  <2>5. \A x \in Settled(M, C, c) : x < l
    <3>1. \A x \in Settled(M, C, c) : x \in Offsets(M, c) /\ x # l
      BY <2>4, Zenon DEF Holding
    <3> QED
      BY <3>1, <2>1, <1>2
  <2> QED
    BY <2>3, <2>4, <2>5, Zenon
<1>5. \A c \in F : l \notin Sent(T, c)
  <2> SUFFICES ASSUME NEW c \in F, l \in Sent(T, c) PROVE FALSE
    BY Zenon
  <2>1. c \in C /\ l \in Settled(M, C, c)
    BY <1>0, <1>3, Zenon
  <2>2. l < l
    BY <2>1, <1>4, Zenon
  <2> QED
    BY <2>2, <1>2
<1>6. ASSUME NEW c \in Combs
      PROVE  Sent(T \o rs, c) = Allowed(c, Holding(M, c))
  <2> DEFINE X == Settled(M, C, c)
  <2>1. CASE c \notin C
    <3>1. c \notin F /\ X = Holding(M, c)
      BY <2>1, <1>0, Zenon DEF Settled
    <3> QED
      BY <3>1, <1>1, <1>3, Zenon
  <2>2. CASE c \in C
    <3> DEFINE H == isLogicalCombination(lv, c) /\ l \in CombInfo[c].min .. CombInfo[c].max
    <3>1. /\ Holding(M, c) = X \cup {x \in {l} : H} /\ \A x \in X : x < l
          /\ X \in SUBSET Nat /\ Sent(T, c) = Allowed(c, X)
          /\ Sent(T \o rs, c) = Sent(T, c) \cup {x \in {l} : c \in F}
          /\ c \in F <=> H /\ c \notin E
          /\ c \in E <=> c \in Single /\ Sent(T, c) # {}
      BY <1>0, <1>1, <1>3, <1>4, <2>2, Zenon
    <3> HIDE DEF X, H
    <3>2. CASE ~H
      <4>1. Holding(M, c) = X /\ Sent(T \o rs, c) = Sent(T, c)
        BY <3>1, <3>2, Zenon
      <4> QED
        BY <4>1, <3>1, Zenon
    <3>3. CASE H
      <4>1. Holding(M, c) = X \cup {l}
        BY <3>1, <3>3, Zenon
      <4>2. CASE c \notin Single
        <5>1. Sent(T \o rs, c) = Sent(T, c) \cup {l}
          BY <3>1, <3>3, <4>2, Zenon
        <5> QED
          BY <5>1, <4>1, <4>2, <3>1, <1>2, AllowedMore
      <4>3. CASE c \in Single /\ X = {}
        <5>1. Sent(T, c) = {}
          BY <3>1, <4>3, Zenon DEF Allowed
        <5>2. Sent(T \o rs, c) = {l}
          BY <5>1, <3>1, <3>3, Zenon
        <5> QED
          BY <5>2, <4>1, <4>3, <3>1, <1>2, AllowedMore
      <4>4. CASE c \in Single /\ X # {}
        <5>1. Sent(T, c) # {}
          BY <3>1, <4>4, AllowedSome, Zenon
        <5>2. Sent(T \o rs, c) = Sent(T, c)
          BY <5>1, <3>1, <4>4, Zenon
        <5> QED
          BY <5>2, <4>1, <4>4, <3>1, <1>2, AllowedMore
      <4> QED
        BY <4>2, <4>3, <4>4, Zenon
    <3> QED
      BY <3>2, <3>3, Zenon
  <2> QED
    BY <2>1, <2>2, Zenon
<1>7. ASSUME NEW c \in Combs
      PROVE  c \in E \cup (F \cap Single) <=> c \in Single /\ Sent(T \o rs, c) # {}
  <2>1. Sent(T \o rs, c) = Sent(T, c) \cup {x \in {l} : c \in F}
    BY <1>1, Zenon
  <2>2. c \in E <=> c \in Single /\ Sent(T, c) # {}
    BY <1>3, Zenon
  <2> QED
    BY <2>1, <2>2, Zenon
<1>8. IsInjective(T \o rs)
  BY <1>1, <1>5, Zenon DEF UpToDate
<1> QED
  BY <1>1, <1>3, <1>6, <1>7, <1>8, Zenon DEF UpToDate, F

\* A match at the end of what was scanned makes its combinations active.
LEMMA Matching ==
    ASSUME NEW T, NEW E, NEW M \in SUBSET Finds, NEW C \in SUBSET Combs,
           NEW sub \in Subs, NEW at \in Lengths, UpToDate(T, E, M, C), AtEnd(M, C, at)
    PROVE  /\ UpToDate(T, E, With(M, sub, at), Activated(C, sub))
           /\ AtEnd(With(M, sub, at), Activated(C, sub), at)
<1> DEFINE m == [sub |-> sub, at |-> at]
           N == With(M, sub, at)
           D == Activated(C, sub)
<1>1. m \in Finds /\ N \in SUBSET Finds /\ at \in Nat /\ m.at = at /\ m.sub = sub
  BY RuntimeAssumption, SMTT(30) DEF Finds, Lengths, With
<1>2. /\ \A k : k \in N <=> k \in M \/ k = m
      /\ \A c \in Combs : c \in D <=> c \in C \/ sub \in SubsOf(c)
  BY Zenon DEF With, Activated
<1> HIDE DEF N, D
<1>3. \A k \in M : k.at \in Nat /\ k.at <= at
  BY OffsetsType, Zenon DEF AtEnd, Newest
<1>4. Newest(N, at) /\ \A x \in Nat : Newest(N, x) <=> at <= x /\ Newest(M, x)
  BY <1>1, <1>2, <1>3 DEF Newest
<1>5. \A c, x : x \in Offsets(N, c) <=> x \in Offsets(M, c) \/ (x = at /\ sub \in SubsOf(c))
  <2> SUFFICES ASSUME NEW c, NEW x
               PROVE  x \in Offsets(N, c) <=> x \in Offsets(M, c) \/ (x = at /\ sub \in SubsOf(c))
    BY Zenon
  <2>1. x \in Offsets(N, c) <=> \E k \in N : k.sub \in SubsOf(c) /\ k.at = x
    BY <1>1, OffsetsType, Zenon
  <2>2. x \in Offsets(M, c) <=> \E k \in M : k.sub \in SubsOf(c) /\ k.at = x
    BY OffsetsType, Zenon
  <2> HIDE DEF m
  <2> QED
    BY <2>1, <2>2, <1>1, <1>2, Zenon
<1>6. \A c \in Combs : c \in D <=> at \in Offsets(N, c)
  BY <1>2, <1>5, Zenon DEF AtEnd
<1>7. \A x \in Nat : x < at => SubsBy(N, x) = SubsBy(M, x)
  <2> SUFFICES ASSUME NEW x \in Nat, x < at PROVE SubsBy(N, x) = SubsBy(M, x)
    BY Zenon
  <2>1. {k \in N : k.at <= x} = {k \in M : k.at <= x}
    <3>1. ~(m.at <= x)
      BY <1>1
    <3> HIDE DEF m
    <3> QED
      BY <3>1, <1>2, Zenon
  <2> QED
    BY <2>1, Zenon DEF SubsBy
<1>8. ASSUME NEW c \in Combs PROVE Settled(N, D, c) = Settled(M, C, c)
  <2>1. \A x \in Offsets(M, c) : x \in Nat /\ x <= at
    BY <1>3, OffsetsType, ZenonT(30)
  <2>2. \A x \in Offsets(N, c) : x \in Nat
    BY <1>1, OffsetsType, Zenon
  <2>3. ASSUME NEW x \in Nat, x # at PROVE x \in Holding(N, c) <=> x \in Holding(M, c)
    <3>0. x \in Offsets(N, c) <=> x \in Offsets(M, c) \/ (x = at /\ sub \in SubsOf(c))
      BY <1>5, Zenon
    <3>1. x \in Offsets(N, c) <=> x \in Offsets(M, c)
      BY <3>0, <2>3, Zenon
    <3>2. x \in Offsets(M, c) => SubsBy(N, x) = SubsBy(M, x)
      <4> SUFFICES ASSUME x \in Offsets(M, c) PROVE SubsBy(N, x) = SubsBy(M, x)
        BY Zenon
      <4>1. x < at
        BY <2>1, <2>3, <1>1
      <4> QED
        BY <4>1, <1>7, Zenon
    <3> QED
      BY <3>1, <3>2, Zenon DEF Holding
  <2>4. ASSUME NEW x PROVE x \in Settled(N, D, c) <=> x \in Holding(N, c) /\ x # at
    <3>1. CASE x = at
      <4>1. x \in Offsets(N, c) => c \in D /\ Newest(N, x)
        BY <1>4, <1>6, <3>1, Zenon
      <4> QED
        BY <4>1, <3>1, Zenon DEF Settled, Holding
    <3>2. CASE x # at
      <4>1. x \in Offsets(N, c) => x \in Nat /\ ~(at <= x)
        BY <2>1, <2>2, <1>1, <1>5, <3>2
      <4>2. x \in Offsets(N, c) => ~Newest(N, x)
        BY <4>1, <1>4, Zenon
      <4> QED
        BY <4>2, <3>2, Zenon DEF Settled, Holding
    <3> QED
      BY <3>1, <3>2, Zenon
  <2>5. ASSUME NEW x PROVE x \in Settled(M, C, c) <=> x \in Holding(M, c) /\ x # at
    <3>1. CASE x = at
      <4>1. x \in Offsets(M, c) => c \in C /\ Newest(M, x)
        BY <3>1, Zenon DEF AtEnd
      <4> QED
        BY <4>1, <3>1, Zenon DEF Settled, Holding
    <3>2. CASE x # at /\ c \notin C
      BY <3>2, Zenon DEF Settled
    <3>3. CASE x # at /\ c \in C
      <4>1. at \in Offsets(M, c)
        BY <3>3, Zenon DEF AtEnd
      <4>2. PICK k \in M : k.at = at
        BY <4>1, OffsetsType, Zenon
      <4>3. x \in Offsets(M, c) => ~(at <= x)
        BY <2>1, <1>1, <3>3
      <4>4. x \in Offsets(M, c) => ~Newest(M, x)
        BY <4>2, <4>3, Zenon DEF Newest
      <4> QED
        BY <4>4, <3>3, Zenon DEF Settled, Holding
    <3> QED
      BY <3>1, <3>2, <3>3, Zenon
  <2>6. \A x : x \in Holding(N, c) \/ x \in Holding(M, c) => x \in Nat
    BY <2>1, <2>2, Zenon DEF Holding
  <2>7. \A x : x \in Settled(N, D, c) <=> x \in Settled(M, C, c)
    BY <2>3, <2>4, <2>5, <2>6, Zenon
  <2> QED
    BY <2>7, Zenon
<1>9. AtEnd(N, D, at)
  BY <1>4, <1>6, Zenon DEF AtEnd
<1>10. UpToDate(T, E, N, D)
  BY <1>8, Zenon DEF UpToDate
<1> QED
  BY <1>9, <1>10, Zenon DEF N, D

\* The last flush, and what holds if nothing matches: then all that is due is reported.
LEMMA Ending ==
    ASSUME Numbers, NEW T \in Seq(Tellings), NEW E, NEW M \in SUBSET Finds, NEW C \in SUBSET Combs,
           NEW l \in Lengths, UpToDate(T, E, M, C), Newest(M, l), \A c \in C : l \in Offsets(M, c),
           NEW end \in Lengths,
           NEW f, Tells(f, Due(Passing(C, SubsIn(M)), l, E), l),
           NEW g, Tells(g, Due(Negative(SubsIn(M)), end, E), end)
    PROVE  Exact((T \o f) \o g, M, end)
<1> DEFINE lv == SubsIn(M)
           F == Due(Passing(C, SubsIn(M)), l, E)
           G == Due(Negative(SubsIn(M)), end, E)
           U == T \o f
           E2 == E \cup (F \cap Single)
<1>0. \A c : c \in G <=> /\ c \in Combs /\ isPurelyNegativeMatch(lv, c)
                         /\ end \in CombInfo[c].min .. CombInfo[c].max /\ c \notin E
  BY Zenon DEF Due, Negative
<1>1. UpToDate(U, E2, M, {}) /\ U \in Seq(Tellings)
  BY Flushing, Zenon
<1>2. ASSUME NEW c \in Combs PROVE Offsets(M, c) = {} <=> lv \cap SubsOf(c) = {}
  <2>1. \A at : at \in Offsets(M, c) <=> \E m \in M : m.sub \in SubsOf(c) /\ m.at = at
    BY OffsetsType, Zenon
  <2>2. \A x : x \in lv <=> \E m \in M : m.sub = x
    BY Zenon DEF SubsIn
  <2>3. Offsets(M, c) = {} <=> \A m \in M : m.sub \notin SubsOf(c)
    BY <2>1, Zenon
  <2> HIDE DEF lv
  <2>4. lv \cap SubsOf(c) = {} <=> \A m \in M : m.sub \notin SubsOf(c)
    BY <2>2, Zenon
  <2> QED
    BY <2>3, <2>4, Zenon
<1>3. lv \in SUBSET Subs /\ end \in Nat
  BY OffsetsType, Zenon DEF SubsIn
<1> HIDE DEF lv, G
<1>4. ASSUME NEW c \in Combs
      PROVE  c \in G <=> /\ Offsets(M, c) = {} /\ Truth(c, {})
                         /\ end \in CombInfo[c].min .. CombInfo[c].max
  <2>1. isPurelyNegativeMatch(lv, c) <=> Offsets(M, c) = {} /\ Truth(c, {})
    <3>1. isLogicalCombination(lv, c) <=> Truth(c, lv)
      BY <1>3, Evaluation, Zenon
    <3>2. lv \cap SubsOf(c) = {} => (Truth(c, lv) <=> Truth(c, {}))
      BY <1>3, Relevant, Zenon
    <3> QED
      BY <3>1, <3>2, <1>2, Zenon DEF isPurelyNegativeMatch
  <2>2. Offsets(M, c) = {} => c \notin E
    <3> SUFFICES ASSUME Offsets(M, c) = {}, c \in E PROVE FALSE
      BY Zenon
    <3>1. Sent(T, c) # {} /\ Sent(T, c) = Allowed(c, Settled(M, C, c))
      BY Zenon DEF UpToDate
    <3>2. Settled(M, C, c) = {}
      BY Zenon DEF Settled, Holding
    <3> QED
      BY <3>1, <3>2, Zenon DEF Allowed
  <2> QED
    BY <2>1, <2>2, <1>0, Zenon
<1>5. /\ \A c : Sent(U \o g, c) = Sent(U, c) \cup {x \in {end} : c \in G}
      /\ IsInjective(U) /\ (\A c \in G : end \notin Sent(U, c)) => IsInjective(U \o g)
  <2>1. Added(U, U \o g, G, end)
    BY <1>1, SentMore, Zenon DEF G
  <2> QED
    BY <2>1, Zenon DEF Added
<1>6. ASSUME NEW c \in Combs
      PROVE  /\ Sent(U, c) = Allowed(c, Holding(M, c))
             /\ Offsets(M, c) = {} => Sent(U, c) = {} /\ Holding(M, c) = {}
             /\ Holding(M, c) \in SUBSET Nat
  <2>1. Settled(M, {}, c) = Holding(M, c)
    BY Zenon DEF Settled
  <2>2. Sent(U, c) = Allowed(c, Holding(M, c))
    <3> HIDE DEF U, E2
    <3> QED
      BY <1>1, <2>1, Zenon DEF UpToDate
  <2>3. Offsets(M, c) = {} => Holding(M, c) = {}
    BY Zenon DEF Holding
  <2>4. Holding(M, c) = {} => Allowed(c, Holding(M, c)) = {}
    BY Zenon DEF Allowed
  <2>5. Holding(M, c) \in SUBSET Nat
    BY OffsetsType, Zenon DEF Holding
  <2> QED
    BY <2>2, <2>3, <2>4, <2>5, Zenon
<1> HIDE DEF U, E2
<1>7. IsInjective(U \o g)
  <2>1. ASSUME NEW c \in G PROVE end \notin Sent(U, c)
    <3>1. c \in Combs
      BY <1>0, <2>1, Zenon
    <3>2. Sent(U, c) = {}
      BY <3>1, <2>1, <1>4, <1>6, Zenon
    <3> QED
      BY <3>2, Zenon
  <2> QED
    BY <2>1, <1>1, <1>5, Zenon DEF UpToDate
<1>8. ASSUME NEW c \in Combs, NEW due,
             due = CombInfo[c].min .. CombInfo[c].max \cap
                         ({at \in Offsets(M, c) : Truth(c, SubsBy(M, at))} \cup
                          {at \in {end} : Offsets(M, c) = {} /\ Truth(c, {})})
      PROVE  Sent(U \o g, c) = IF c \in Single /\ due # {} THEN {Min(due)} ELSE due
  <2>1. due \in SUBSET Nat /\ Sent(U \o g, c) = Allowed(c, due)
    <3>1. CASE Offsets(M, c) = {}
      <4>1. due = {x \in {end} : c \in G}
        BY <1>4, <1>8, <3>1, Zenon
      <4>2. Sent(U \o g, c) = {x \in {end} : c \in G}
        BY <1>5, <1>6, <3>1, Zenon
      <4>3. end <= end
        BY <1>3
      <4> QED
        BY <4>1, <4>2, <4>3, <1>3, Zenon DEF Allowed
    <3>2. CASE Offsets(M, c) # {}
      <4>1. due = Holding(M, c)
        BY <1>8, <3>2, Zenon DEF Holding
      <4>2. Sent(U \o g, c) = Sent(U, c)
        BY <1>4, <1>5, <3>2, Zenon
      <4> QED
        BY <4>1, <4>2, <1>6, Zenon
    <3> QED
      BY <3>1, <3>2, Zenon
  <2>2. CASE c \in Single /\ due # {}
    BY <2>1, <2>2, AllowedSome, Zenon
  <2>3. CASE ~(c \in Single /\ due # {})
    <3>1. Allowed(c, due) = due
      BY <2>3, Zenon DEF Allowed
    <3> QED
      BY <2>1, <2>3, <3>1, Zenon
  <2> QED
    BY <2>2, <2>3, Zenon
<1> QED
  BY <1>7, <1>8, Zenon DEF Exact, U
-----------------------------------------------------------------------------
\* The inductive invariant

\* The combinations active in a stream with matches M are those of its last match, at l,
\* and the one that matched there is active as long as the scan is still at l.
Last(M, C, l, now) ==
    /\ l <= now /\ Newest(M, l)
    /\ \A c \in C : l \in Offsets(M, c)
    /\ now = l => \A c \in Combs : l \in Offsets(M, c) => c \in C

InCall == call.stage # "idle"

CallInv ==
    InCall =>
        /\ call.s \in rose.streams /\ call.s \notin closed
        /\ IF call.stage = "scan"
           THEN offset[call.s] < call.end /\ offset[call.s] <= raised /\ raised <= call.end
           ELSE call.end = offset[call.s] /\ raised = call.end

\* lastCombMatchOffset is the last match of the stream that is scanned, from the start of a
\* write, or of the work at end of data, on.
LatestInv ==
    InCall /\ status[call.s] = {} =>
        /\ call.stage # "boundary" \/ OneStream =>
              Last(matched[call.s], cvec[call.s], lastComb, raised)
        /\ Full /\ call.stage = "scan" => cvec[call.s] = {} \/ lastComb = raised
        /\ Full /\ call.stage = "boundary" =>
              AtEnd(matched[call.s], cvec[call.s], offset[call.s])
        /\ call.stage = "boundary" /\ call.end = 0 => lastComb = 0

\* A stream between two calls.  The scratch may be in use for another stream, unless there
\* is none.
Waiting(s) == s \in rose.streams /\ s \notin closed /\ (InCall => call.s # s) /\ status[s] = {}
Rested(s) ==
    IF offset[s] = 0 THEN matched[s] = {} /\ cvec[s] = {}
    ELSE Last(matched[s], cvec[s], lastComb, offset[s])
QuietInv(s) ==
    Waiting(s) => /\ Full => AtEnd(matched[s], cvec[s], offset[s])
                  /\ OneStream => Rested(s)

\* What was reported is what is due so far.
SentInv(s) ==
    s \notin closed /\ status[s] = {} => UpToDate(told[s], evec[s], matched[s], cvec[s])

\* Only the end of data reports a combination that has not matched.
ToldInv(s) ==
    \A r \in Elems(told[s]) :
        \/ r.at \in Offsets(matched[s], r.comb)
        \/ s \in closed /\ Offsets(matched[s], r.comb) = {} /\ r.at = offset[s]

EndInv(s) == s \in closed /\ status[s] = {} => Exact(told[s], matched[s], offset[s])

\* The logical vector has the sub-expressions that have matched; only engines that died
\* exhaust a stream.
PlainInv(s) ==
    /\ lvec[s] = SubsIn(matched[s])
    /\ "EXHAUSTED" \in status[s] => rose.dies

StreamInv(s) == PlainInv(s) /\ (Sound => QuietInv(s) /\ SentInv(s) /\ ToldInv(s) /\ EndInv(s))

CombInv ==
    /\ TypeInv /\ CallInv
    /\ \A s \in Streams : StreamInv(s)
    /\ Sound => LatestInv

-----------------------------------------------------------------------------
\* A step is about one stream

Same(t) ==
    /\ offset'[t] = offset[t] /\ lvec'[t] = lvec[t] /\ cvec'[t] = cvec[t]
    /\ evec'[t] = evec[t] /\ status'[t] = status[t]
    /\ matched'[t] = matched[t] /\ told'[t] = told[t]
    /\ t \in closed' <=> t \in closed

\* Nothing changes but stream s and the scratch, which is in use for s or not at all.
Only(s) ==
    /\ rose' = rose /\ s \in rose.streams
    /\ InCall => call.s = s
    /\ InCall' => call'.s = s
    /\ \A t \in Streams : t # s => Same(t)

\* The other streams
LEMMA Others ==
    ASSUME NEW s, Only(s), NEW t \in Streams, t # s, StreamInv(t)
    PROVE  StreamInv(t)'
<1>1. Same(t) /\ rose' = rose /\ s \in rose.streams
  BY Zenon DEF Only
<1>2. /\ Full' <=> Full
      /\ OneStream' <=> OneStream
      /\ Sound' <=> Sound
  BY <1>1, Zenon DEF Full, OneStream, Sound
<1>3. PlainInv(t)'
  BY <1>1, Zenon DEF StreamInv, PlainInv, Same
<1>4. SentInv(t) => SentInv(t)'
  BY <1>1, Zenon DEF SentInv, Same
<1>5. ToldInv(t) => ToldInv(t)'
  BY <1>1, Zenon DEF ToldInv, Same
<1>6. EndInv(t) => EndInv(t)'
  BY <1>1, Zenon DEF EndInv, Same
<1>7. QuietInv(t) => QuietInv(t)'
  <2>1. SUFFICES ASSUME QuietInv(t), Waiting(t)'
                 PROVE  /\ Full' => AtEnd(matched[t], cvec[t], offset[t])'
                        /\ OneStream' => Rested(t)'
    BY Zenon DEF QuietInv
  <2>2. Waiting(t)
    BY <1>1, <2>1, Zenon DEF Waiting, Same, Only
  <2>3. ~OneStream
    BY <1>1, <2>2, Zenon DEF OneStream, Waiting
  <2>4. Full => AtEnd(matched[t], cvec[t], offset[t])'
    BY <1>1, <2>1, <2>2, Zenon DEF QuietInv, Same
  <2> QED
    BY <1>2, <2>3, <2>4, Zenon
<1> QED
  BY <1>2, <1>3, <1>4, <1>5, <1>6, <1>7, Zenon DEF StreamInv

\* What is left to show of a step
LEMMA StepOf ==
    ASSUME CombInv, NEW s, Only(s), TypeInv', CallInv', StreamInv(s)', Sound => LatestInv'
    PROVE  CombInv'
<1>1. Sound' <=> Sound
  BY Zenon DEF Only, Full, OneStream, Sound
<1>2. ASSUME NEW t \in Streams PROVE StreamInv(t)'
  <2>1. StreamInv(t)
    BY Zenon DEF CombInv
  <2> QED
    BY <2>1, Others, Zenon
<1> QED
  BY <1>1, <1>2, Zenon DEF CombInv
-----------------------------------------------------------------------------
\* Delivery

\* The reports rs are added to those of stream s, all of them or some.
Delivers(s, rs, halt) ==
    /\ told' \in [Streams -> Seq(Tellings)] /\ evec' \in [Streams -> SUBSET Single]
    /\ \A t \in Streams : t # s => told'[t] = told[t] /\ evec'[t] = evec[t]
    /\ Elems(told'[s]) \subseteq Elems(told[s]) \cup Elems(rs)
    /\ ~halt => /\ told'[s] = told[s] \o rs
                /\ evec'[s] = evec[s] \cup ({r.comb : r \in Elems(rs)} \cap Single)

\* The beginning of a sequence
LEMMA Beginning ==
    ASSUME NEW T, NEW q \in Seq(T), NEW n \in 0 .. Len(q)
    PROVE  /\ SubSeq(q, 1, n) \in Seq(T) /\ Elems(SubSeq(q, 1, n)) \subseteq Elems(q)
           /\ n = Len(q) => SubSeq(q, 1, n) = q
<1> DEFINE p == SubSeq(q, 1, n)
<1>1. /\ p \in Seq(T) /\ DOMAIN p = 1 .. n /\ Len(p) = n /\ Len(q) \in Nat
      /\ DOMAIN q = 1 .. Len(q) /\ \A i \in 1 .. n : p[i] = q[i]
  OBVIOUS
<1> HIDE DEF p
<1>2. 1 .. n \subseteq 1 .. Len(q)
  BY <1>1
<1>3. Elems(p) \subseteq Elems(q)
  BY <1>1, <1>2, Zenon DEF Elems
<1>4. n = Len(q) => p = q
  BY <1>1
<1> QED
  BY <1>1, <1>3, <1>4, Zenon DEF p

\* The combinations reported
LEMMA CombsTold ==
    ASSUME NEW rs, NEW F, NEW at, Tells(rs, F, at)
    PROVE  {r.comb : r \in Elems(rs)} = F
<1>1. Elems(rs) = {[comb |-> c, at |-> at] : c \in F}
  BY Zenon DEF Tells
<1>2. \A c : [comb |-> c, at |-> at].comb = c
  BY Zenon
<1>3. \A r \in Elems(rs) : r.comb \in F
  BY <1>1
<1>4. \A c \in F : [comb |-> c, at |-> at] \in Elems(rs)
  BY <1>1, Zenon
<1> QED
  BY <1>2, <1>3, <1>4, Zenon

\* Delivering reports, to the end or up to the one that stops the scan
LEMMA DeliverIs ==
    ASSUME TypeInv, NEW s \in Streams, NEW rs \in Seq(Tellings), NEW halt \in BOOLEAN,
           Deliver(s, rs, halt)
    PROVE  Delivers(s, rs, halt)
<1>1. /\ told \in [Streams -> Seq(Tellings)] /\ evec \in [Streams -> SUBSET Single]
      /\ Len(rs) \in Nat /\ DOMAIN rs = 1 .. Len(rs)
  BY DEF TypeInv, TypeOK
<1>2. PICK n \in (IF halt THEN 1 .. Len(rs) ELSE {Len(rs)}) :
        /\ told' = [told EXCEPT ![s] = @ \o SubSeq(rs, 1, n)]
        /\ evec' = [evec EXCEPT ![s] =
                      @ \cup ({rs[i].comb : i \in 1 .. (IF halt THEN n - 1 ELSE n)} \cap Single)]
  BY Zenon DEF Deliver
<1> DEFINE p == SubSeq(rs, 1, n)
           G == {rs[i].comb : i \in 1 .. (IF halt THEN n - 1 ELSE n)} \cap Single
<1>3. n \in 0 .. Len(rs) /\ (~halt => n = Len(rs))
  <2>1. Len(rs) \in Nat
    BY <1>1, Zenon
  <2> QED
    BY <2>1
<1>4. p \in Seq(Tellings) /\ Elems(p) \subseteq Elems(rs) /\ (~halt => p = rs)
  BY <1>3, Beginning, Zenon
<1>5. told[s] \in Seq(Tellings) /\ evec[s] \in SUBSET Single
  BY <1>1, Zenon
<1> HIDE DEF p
<1>6. told[s] \o p \in Seq(Tellings) /\ Elems(told[s] \o p) = Elems(told[s]) \cup Elems(p)
  <2>1. \A a, b \in Seq(Tellings) : a \o b \in Seq(Tellings) /\ Elems(a \o b) = Elems(a) \cup Elems(b)
    BY Joined, ZenonT(30)
  <2> QED
    BY <1>4, <1>5, <2>1, Zenon
<1>7. G \in SUBSET Single /\ (~halt => G = {r.comb : r \in Elems(rs)} \cap Single)
  BY <1>1, <1>3, Zenon DEF Elems
<1>8. told' = [told EXCEPT ![s] = told[s] \o p] /\ evec' = [evec EXCEPT ![s] = evec[s] \cup G]
  BY <1>2, Zenon DEF p
<1> HIDE DEF G
<1>9. /\ told' \in [Streams -> Seq(Tellings)] /\ told'[s] = told[s] \o p
      /\ \A t \in Streams : t # s => told'[t] = told[t]
  BY <1>1, <1>6, <1>8, ZenonT(30)
<1>10. /\ evec' \in [Streams -> SUBSET Single] /\ evec'[s] = evec[s] \cup G
       /\ \A t \in Streams : t # s => evec'[t] = evec[t]
  BY <1>1, <1>5, <1>7, <1>8, Zenon
<1> QED
  BY <1>4, <1>6, <1>7, <1>9, <1>10, Zenon DEF Delivers

\* What a flush and the end of data report
LEMMA Tellers ==
    ASSUME Numbers, TypeInv, NEW s \in Streams, PlainInv(s), NEW at \in Lengths
    PROVE  /\ Tells(flushActiveCombinations(s, at),
                    Due(Passing(cvec[s], SubsIn(matched[s])), lastComb, evec[s]), lastComb)
           /\ Tells(checkPurelyNegatives(s, at), Due(Negative(SubsIn(matched[s])), at, evec[s]), at)
<1>1. cvec[s] \in SUBSET Combs /\ lastComb \in Lengths /\ lvec[s] = SubsIn(matched[s])
  BY Zenon DEF TypeInv, TypeOK, PlainInv, Lengths
<1>2. Passing(cvec[s], lvec[s]) \in SUBSET Combs /\ Negative(lvec[s]) \in SUBSET Combs
  BY <1>1, Zenon DEF Passing, Negative
<1>3. flushActiveCombinations(s, at) = Reports(s, Passing(cvec[s], lvec[s]), lastComb)
  BY Zenon DEF flushActiveCombinations, Passing
<1>4. checkPurelyNegatives(s, at) = Reports(s, Negative(lvec[s]), at)
  BY Zenon DEF checkPurelyNegatives, Negative
<1>5. Tells(Reports(s, Passing(cvec[s], lvec[s]), lastComb),
            Due(Passing(cvec[s], lvec[s]), lastComb, evec[s]), lastComb)
  BY <1>1, <1>2, Reported, Zenon
<1>6. Tells(Reports(s, Negative(lvec[s]), at), Due(Negative(lvec[s]), at, evec[s]), at)
  BY <1>1, <1>2, Reported, Zenon
<1> QED
  BY <1>1, <1>3, <1>4, <1>5, <1>6, Zenon

\* A flush reports combinations at the last match, which is one of theirs.
LEMMA FlushTold ==
    ASSUME Numbers, TypeInv, NEW s \in Streams, PlainInv(s), NEW at \in Lengths
    PROVE  /\ flushActiveCombinations(s, at) \in Seq(Tellings) /\ Flushed(s, at) \in Seq(Tellings)
           /\ (\A c \in cvec[s] : lastComb \in Offsets(matched[s], c)) =>
                 /\ \A r \in Elems(flushActiveCombinations(s, at)) : r.at \in Offsets(matched[s], r.comb)
                 /\ \A r \in Elems(Flushed(s, at)) : r.at \in Offsets(matched[s], r.comb)
<1> DEFINE f == flushActiveCombinations(s, at)
           F == Due(Passing(cvec[s], SubsIn(matched[s])), lastComb, evec[s])
<1>1. Tells(f, F, lastComb)
  BY Tellers, Zenon
<1>2. F \subseteq cvec[s]
  BY Zenon DEF Due, Passing
<1> HIDE DEF f, F
<1>3. f \in Seq(Tellings) /\ Elems(f) = {[comb |-> c, at |-> lastComb] : c \in F}
  BY <1>1, Zenon DEF Tells
<1>4. \A r \in Elems(f) : r.at = lastComb /\ r.comb \in cvec[s]
  BY <1>2, <1>3
<1>5. Elems(<<>>) = {} /\ <<>> \in Seq(Tellings)
  BY DEF Elems
<1>6. Flushed(s, at) = f \/ Flushed(s, at) = <<>>
  BY Zenon DEF Flushed, f
<1>7. Flushed(s, at) \in Seq(Tellings) /\ Elems(Flushed(s, at)) \subseteq Elems(f)
  BY <1>3, <1>5, <1>6, Zenon
<1>8. ASSUME \A c \in cvec[s] : lastComb \in Offsets(matched[s], c), NEW r \in Elems(f)
      PROVE  r.at \in Offsets(matched[s], r.comb)
  BY <1>4, <1>8, Zenon
<1> QED
  BY <1>3, <1>7, <1>8, Zenon DEF f

\* After the flush there is nothing left to report at offset `at', where the scan is now.
LEMMA FlushStep ==
    ASSUME Numbers, TypeInv, NEW s \in Streams, PlainInv(s), NEW at \in Lengths,
           UpToDate(told[s], evec[s], matched[s], cvec[s]),
           NEW now \in Lengths, Last(matched[s], cvec[s], lastComb, now), now <= at,
           Delivers(s, Flushed(s, at), FALSE)
    PROVE  /\ UpToDate(told'[s], evec'[s], matched[s], StillActive(s, at))
           /\ AtEnd(matched[s], StillActive(s, at), at)
<1> DEFINE M == matched[s]
           C == cvec[s]
           F == Due(Passing(C, SubsIn(M)), lastComb, evec[s])
           rs == Flushed(s, at)
<1>1. /\ M \in SUBSET Finds /\ C \in SUBSET Combs /\ told[s] \in Seq(Tellings) /\ evec[s] \in SUBSET Single
      /\ lastComb \in Lengths /\ lastComb \in Nat /\ at \in Nat /\ now \in Nat
  BY RuntimeAssumption, SMTT(30) DEF TypeInv, TypeOK, Lengths
<1>2. /\ lastComb <= now /\ Newest(M, lastComb) /\ \A c \in C : lastComb \in Offsets(M, c)
      /\ now = lastComb => \A c \in Combs : lastComb \in Offsets(M, c) => c \in C
  BY Zenon DEF Last
<1>3. told'[s] = told[s] \o rs /\ evec'[s] = evec[s] \cup ({r.comb : r \in Elems(rs)} \cap Single)
  BY Zenon DEF Delivers
<1> HIDE DEF M, C
<1>4. ASSUME NEW c \in Combs, NEW x \in Offsets(M, c) PROVE x \in Nat /\ x <= lastComb
  <2>1. PICK m \in M : m.at = x
    BY <1>1, OffsetsType, Zenon
  <2> QED
    BY <1>1, <1>2, <2>1, OffsetsType, Zenon DEF Newest
<1>5. CASE at > lastComb
  <2>1. rs = flushActiveCombinations(s, at) /\ StillActive(s, at) = {}
    BY <1>5, Zenon DEF Flushed, StillActive, Flushes
  <2>2. Tells(rs, F, lastComb)
    BY <2>1, Tellers, Zenon DEF M, C
  <2> HIDE DEF rs, F
  <2>3. {r.comb : r \in Elems(rs)} = F
    BY <2>2, CombsTold, Zenon
  <2>4. UpToDate(told[s] \o rs, evec[s] \cup (F \cap Single), M, {})
    <3>1. UpToDate(told[s], evec[s], M, C)
      BY Zenon DEF M, C
    <3> QED
      BY <1>1, <1>2, <2>2, <3>1, Flushing, Zenon DEF F
  <2>5. Newest(M, at)
    <3> SUFFICES ASSUME NEW m \in M PROVE m.at <= at
      BY Zenon DEF Newest
    <3>1. m.at \in Nat /\ m.at <= lastComb
      BY <1>1, <1>2, OffsetsType, Zenon DEF Newest
    <3> QED
      BY <1>1, <1>5, <3>1
  <2>6. \A c \in Combs : at \notin Offsets(M, c)
    <3>1. ~(at <= lastComb)
      BY <1>1, <1>5
    <3> QED
      BY <1>4, <3>1, Zenon
  <2>7. AtEnd(M, {}, at)
    BY <2>5, <2>6, Zenon DEF AtEnd
  <2> QED
    BY <1>3, <2>1, <2>3, <2>4, <2>7, Zenon DEF M
<1>6. CASE ~(at > lastComb)
  <2>1. at = lastComb /\ now = lastComb
    BY <1>1, <1>2, <1>6
  <2>2. rs = <<>> /\ StillActive(s, at) = C
    BY <1>6, Zenon DEF Flushed, StillActive, Flushes, C
  <2>3. told'[s] = told[s] /\ evec'[s] = evec[s]
    BY <1>1, <1>3, <2>2 DEF Elems
  <2>4. AtEnd(M, C, at)
    BY <1>1, <1>2, <2>1, Zenon DEF AtEnd
  <2> QED
    BY <2>2, <2>3, <2>4, Zenon DEF M, C
<1> QED
  BY <1>5, <1>6, Zenon
-----------------------------------------------------------------------------
\* The steps that report nothing

\* The types, by stream
LEMMA Typed ==
    ASSUME TypeInv, NEW s \in rose.streams
    PROVE  /\ s \in Streams /\ MaxOffset \in Nat /\ Lengths \subseteq Nat
           /\ offset[s] \in Lengths /\ lastComb \in Lengths /\ raised \in Lengths
           /\ matched[s] \in SUBSET Finds /\ told[s] \in Seq(Tellings)
           /\ cvec[s] \in SUBSET Combs /\ evec[s] \in SUBSET Single /\ lvec[s] \in SUBSET Subs
           /\ status[s] \in SUBSET {"TERMINATED", "EXHAUSTED"}
<1>1. rose.streams \subseteq Streams /\ MaxOffset \in Nat
  BY RuntimeAssumption, Zenon DEF TypeInv, TypeOK
<1> QED
  BY <1>1 DEF TypeInv, TypeOK, Lengths

\* A stream that stays as it is
LEMMA Kept ==
    ASSUME NEW s, StreamInv(s), Same(s), rose' = rose, ~Waiting(s)'
    PROVE  StreamInv(s)'
<1>1. Sound' <=> Sound
  BY Zenon DEF Full, OneStream, Sound
<1>2. PlainInv(s)'
  BY Zenon DEF StreamInv, PlainInv, Same
<1>3. SentInv(s) => SentInv(s)'
  BY Zenon DEF SentInv, Same
<1>4. ToldInv(s) => ToldInv(s)'
  BY Zenon DEF ToldInv, Same
<1>5. EndInv(s) => EndInv(s)'
  BY Zenon DEF EndInv, Same
<1>6. QuietInv(s)'
  BY Zenon DEF QuietInv
<1> QED
  BY <1>1, <1>2, <1>3, <1>4, <1>5, <1>6, Zenon DEF StreamInv

\* At the offset of the last match
LEMMA LastOfAtEnd ==
    ASSUME NEW M, NEW C \in SUBSET Combs, NEW at \in Nat, AtEnd(M, C, at)
    PROVE  Last(M, C, at, at)
<1>1. at <= at
  OBVIOUS
<1> QED
  BY <1>1, Zenon DEF Last, AtEnd

\* A stream without matches
LEMMA LastOfNone ==
    ASSUME NEW n \in Nat
    PROVE  Last({}, {}, n, n) /\ AtEnd({}, {}, n)
<1>1. n <= n /\ \A c : Offsets({}, c) = {}
  BY DEF Offsets
<1> QED
  BY <1>1, Zenon DEF Last, AtEnd, Newest

\* A write
LEMMA ScanStep ==
    ASSUME CombInv, NEW s \in rose.streams, NEW len \in 1 .. MaxOffset, hs_scan_stream(s, len)
    PROVE  CombInv'
<1>1. /\ call.stage = "idle" /\ s \notin closed /\ status[s] = {}
      /\ offset[s] + len <= MaxLength[s]
      /\ call' = [s |-> s, stage |-> "scan", end |-> offset[s] + len]
      /\ raised' = offset[s]
      /\ lastComb' = IF Full \/ offset[s] = 0 THEN offset[s] ELSE lastComb
      /\ UNCHANGED <<rose, offset, lvec, cvec, evec, status, matched, told, closed>>
  BY Zenon DEF hs_scan_stream, stream, Full
<1>2. /\ s \in Streams /\ MaxOffset \in Nat /\ Lengths \subseteq Nat /\ offset[s] \in Lengths
      /\ cvec[s] \in SUBSET Combs /\ lastComb \in Lengths
  BY Typed, Zenon DEF CombInv
<1>3. call'.s = s /\ call'.stage = "scan" /\ call'.end = offset[s] + len /\ InCall' /\ ~InCall
  BY <1>1, Zenon DEF InCall
<1>4. offset[s] < offset[s] + len /\ offset[s] <= offset[s] /\ offset[s] <= offset[s] + len
      /\ offset[s] + len \in Lengths /\ offset[s] \in Nat
  <2>1. MaxLength[s] \in 0 .. MaxOffset
    BY <1>2, RuntimeAssumption, Zenon
  <2> QED
    BY <1>1, <1>2, <2>1 DEF Lengths
<1>5. TypeInv'
  <2>1. TypeInv /\ lastComb' \in Lengths
    BY <1>1, <1>2, Zenon DEF CombInv
  <2>2. call' \in [s : Streams, stage : {"idle", "scan", "boundary", "eod", "last"}, end : Lengths]
    BY <1>1, <1>2, <1>4, Zenon
  <2> QED
    BY <1>1, <1>2, <2>1, <2>2, Zenon DEF TypeInv, TypeOK, Lengths
<1>6. CallInv'
  BY <1>1, <1>3, <1>4, Zenon DEF CallInv
<1>7. Only(s) /\ Same(s)
  BY <1>1, <1>3, Zenon DEF Only, Same
<1>8. StreamInv(s)'
  <2>1. ~Waiting(s)'
    BY <1>3, Zenon DEF Waiting
  <2>2. StreamInv(s)
    BY <1>2, Zenon DEF CombInv
  <2> QED
    BY <1>1, <1>7, <2>1, <2>2, Kept, Zenon
<1>9. ASSUME Sound PROVE LatestInv'
  <2>1. Waiting(s)
    BY <1>1, <1>3, Zenon DEF Waiting
  <2>2. /\ Full => AtEnd(matched[s], cvec[s], offset[s])
        /\ OneStream => Rested(s)
    BY <1>2, <1>9, <2>1, Zenon DEF CombInv, StreamInv, QuietInv
  <2>3. Last(matched[s], cvec[s], lastComb', offset[s])
    <3>1. CASE Full
      BY <1>1, <1>2, <1>4, <2>2, <3>1, LastOfAtEnd, Zenon
    <3>2. CASE ~Full /\ offset[s] = 0
      <4>1. matched[s] = {} /\ cvec[s] = {} /\ 0 \in Nat
        BY <1>9, <2>2, <3>2, Zenon DEF Sound, Rested
      <4> QED
        BY <1>1, <3>2, <4>1, LastOfNone, Zenon
    <3>3. CASE ~Full /\ offset[s] # 0
      BY <1>1, <1>9, <2>2, <3>3, Zenon DEF Sound, Rested
    <3> QED
      BY <3>1, <3>2, <3>3, Zenon
  <2>4. /\ Last(matched'[s], cvec'[s], lastComb', raised')
        /\ Full' => lastComb' = raised'
    BY <1>1, <2>3, Zenon DEF Full
  <2> QED
    BY <1>3, <2>4, Zenon DEF LatestInv
<1> QED
  BY <1>5, <1>6, <1>7, <1>8, <1>9, StepOf, Zenon
\* A stream that is over
LEMMA ClosedStep ==
    ASSUME NEW s, StreamInv(s), status[s] # {}, rose' = rose, closed \subseteq closed',
           UNCHANGED <<offset, lvec, cvec, evec, status, matched, told>>
    PROVE  StreamInv(s)'
<1>1. Sound' <=> Sound
  BY Zenon DEF Full, OneStream, Sound
<1>2. PlainInv(s)' /\ QuietInv(s)' /\ SentInv(s)' /\ EndInv(s)'
  BY Zenon DEF StreamInv, PlainInv, QuietInv, Waiting, SentInv, EndInv
<1>3. ASSUME ToldInv(s) PROVE ToldInv(s)'
  BY <1>3, Zenon DEF ToldInv
<1> QED
  BY <1>1, <1>2, <1>3, Zenon DEF StreamInv

\* A new stream
LEMMA NothingYet ==
    /\ UpToDate(<<>>, {}, {}, {}) /\ AtEnd({}, {}, 0)
    /\ Elems(<<>>) = {} /\ SubsIn({}) = {}
<1>1. Elems(<<>>) = {} /\ SubsIn({}) = {} /\ IsInjective(<<>>)
  BY SMTT(30) DEF Elems, SubsIn, IsInjective
<1>2. ASSUME NEW c PROVE Sent(<<>>, c) = {} /\ Settled({}, {}, c) = {}
  BY DEF Sent, Settled, Holding, Offsets
<1>3. \A c : Allowed(c, {}) = {}
  BY Zenon DEF Allowed
<1>4. UpToDate(<<>>, {}, {}, {})
  BY <1>1, <1>2, <1>3, Zenon DEF UpToDate
<1> QED
  BY <1>1, <1>4, LastOfNone, Zenon

\* hs_open_stream
LEMMA OpenStep ==
    ASSUME CombInv, NEW s \in rose.streams, hs_open_stream(s)
    PROVE  CombInv'
<1>1. /\ call.stage = "idle" /\ s \in closed /\ closed' = closed \ {s}
      /\ offset' = [offset EXCEPT ![s] = 0] /\ lvec' = [lvec EXCEPT ![s] = {}]
      /\ cvec' = [cvec EXCEPT ![s] = {}] /\ evec' = [evec EXCEPT ![s] = {}]
      /\ status' = [status EXCEPT ![s] = {}]
      /\ matched' = [matched EXCEPT ![s] = {}] /\ told' = [told EXCEPT ![s] = <<>>]
      /\ rose' = rose /\ lastComb' = lastComb /\ call' = call /\ raised' = raised
  BY Zenon DEF hs_open_stream
<1>2. TypeInv /\ s \in Streams /\ MaxOffset \in Nat /\ ~InCall /\ ~InCall'
  BY <1>1, Typed, Zenon DEF CombInv, InCall
<1>3. TypeInv'
  <2>1. 0 \in 0 .. MaxOffset /\ <<>> \in Seq(Tellings)
    BY <1>2
  <2> QED
    BY <1>1, <1>2, <2>1, Zenon DEF TypeInv, TypeOK
<1>4. CallInv' /\ LatestInv'
  BY <1>2, Zenon DEF CallInv, LatestInv
<1>5. /\ offset'[s] = 0 /\ lvec'[s] = {} /\ cvec'[s] = {} /\ evec'[s] = {} /\ status'[s] = {}
      /\ matched'[s] = {} /\ told'[s] = <<>>
  BY <1>1, <1>2, Zenon DEF TypeInv, TypeOK
<1>6. Only(s)
  <2>1. ASSUME NEW t \in Streams, t # s PROVE Same(t)
    BY <1>1, <1>2, <2>1, Zenon DEF TypeInv, TypeOK, Same
  <2> QED
    BY <1>1, <1>2, <2>1, Zenon DEF Only
<1>7. PlainInv(s)' /\ SentInv(s)' /\ ToldInv(s)' /\ EndInv(s)'
  BY <1>1, <1>5, NothingYet, Zenon DEF PlainInv, SentInv, ToldInv, EndInv
<1>8. QuietInv(s)'
  BY <1>5, NothingYet, Zenon DEF QuietInv, Rested
<1>9. StreamInv(s)'
  BY <1>7, <1>8, Zenon DEF StreamInv
<1> QED
  BY <1>3, <1>4, <1>6, <1>9, StepOf, Zenon

\* The call at end of data
LEMMA EodStep ==
    ASSUME CombInv, NEW s \in rose.streams, report_eod_matches(s)
    PROVE  CombInv'
<1>1. /\ call.stage = "idle" /\ s \notin closed
      /\ UNCHANGED <<rose, offset, lvec, cvec, evec, status, matched, told>>
  BY Zenon DEF report_eod_matches, stream
<1>2. /\ TypeInv /\ s \in Streams /\ MaxOffset \in Nat /\ Lengths \subseteq Nat
      /\ offset[s] \in Lengths /\ cvec[s] \in SUBSET Combs /\ lastComb \in Lengths
      /\ StreamInv(s)
  BY Typed, Zenon DEF CombInv
<1>3. ~InCall
  BY <1>1, Zenon DEF InCall
<1>4. CASE status[s] # {}
  <2>1. closed' = closed \cup {s} /\ UNCHANGED <<lastComb, call, raised>>
    BY <1>4, Zenon DEF report_eod_matches
  <2>2. TypeInv' /\ ~InCall'
    BY <1>1, <1>2, <1>3, <2>1, Zenon DEF TypeInv, TypeOK, InCall
  <2>3. CallInv' /\ LatestInv'
    BY <2>2, Zenon DEF CallInv, LatestInv
  <2>4. Only(s)
    BY <1>1, <1>3, <2>1, <2>2, Zenon DEF Only, Same
  <2>5. StreamInv(s)'
    <3>1. closed \subseteq closed'
      BY <2>1, Zenon
    <3> QED
      BY <1>1, <1>2, <1>4, <3>1, ClosedStep, Zenon
  <2> QED
    BY <2>2, <2>3, <2>4, <2>5, StepOf, Zenon
<1>5. CASE status[s] = {}
  <2>1. /\ call' = [s |-> s, stage |-> "boundary", end |-> offset[s]]
        /\ raised' = offset[s] /\ closed' = closed
        /\ lastComb' = IF offset[s] = 0 THEN offset[s] ELSE lastComb
    BY <1>5, Zenon DEF report_eod_matches
  <2>2. call'.s = s /\ call'.stage = "boundary" /\ call'.end = offset[s] /\ InCall'
    BY <2>1, Zenon DEF InCall
  <2>3. TypeInv'
    <3>1. lastComb' \in Lengths
      BY <1>2, <2>1, Zenon
    <3>2. call' \in [s : Streams, stage : {"idle", "scan", "boundary", "eod", "last"}, end : Lengths]
      BY <1>2, <2>1, Zenon
    <3> QED
      BY <1>1, <1>2, <2>1, <3>1, <3>2, Zenon DEF TypeInv, TypeOK, Lengths
  <2>4. CallInv'
    BY <1>1, <2>1, <2>2, Zenon DEF CallInv
  <2>5. Only(s) /\ Same(s)
    BY <1>1, <1>3, <2>1, <2>2, Zenon DEF Only, Same
  <2>6. StreamInv(s)'
    <3>1. ~Waiting(s)'
      BY <2>2, Zenon DEF Waiting
    <3> QED
      BY <1>1, <1>2, <2>5, <3>1, Kept, Zenon
  <2>7. ASSUME Sound PROVE LatestInv'
    <3>1. Waiting(s)
      BY <1>1, <1>3, <1>5, Zenon DEF Waiting
    <3>2. /\ Full => AtEnd(matched[s], cvec[s], offset[s])
          /\ OneStream => Rested(s)
      BY <1>2, <2>7, <3>1, Zenon DEF StreamInv, QuietInv
    <3>3. OneStream => Last(matched[s], cvec[s], lastComb', offset[s])
      <4>1. CASE offset[s] = 0
        <5>1. 0 \in Nat
          BY Zenon
        <5>2. OneStream => matched[s] = {} /\ cvec[s] = {}
          BY <3>2, <4>1, Zenon DEF Rested
        <5> QED
          BY <2>1, <4>1, <5>1, <5>2, LastOfNone, Zenon
      <4>2. CASE offset[s] # 0
        BY <2>1, <3>2, <4>2, Zenon DEF Rested
      <4> QED
        BY <4>1, <4>2, Zenon
    <3>4. /\ OneStream' => Last(matched'[s], cvec'[s], lastComb', raised')
          /\ Full' => AtEnd(matched'[s], cvec'[s], offset'[s])
          /\ call'.end = 0 => lastComb' = 0
      BY <1>1, <2>1, <2>2, <3>2, <3>3, Zenon DEF Full, OneStream
    <3>5. "boundary" # "scan"
      BY Zenon
    <3> QED
      BY <2>2, <3>4, <3>5, Zenon DEF LatestInv
  <2> QED
    BY <2>3, <2>4, <2>5, <2>6, <2>7, StepOf, Zenon
<1> QED
  BY <1>4, <1>5, Zenon
\* From the boundary program to the work at end of data
LEMMA StartEodStep ==
    ASSUME CombInv, StartEod
    PROVE  CombInv'
<1>0. PICK s : s = call.s
  BY Zenon
<1> DEFINE works == rose.eodWork /\ call.end > 0
<1>1. /\ call.stage = "boundary" /\ status[s] = {}
      /\ call' = [call EXCEPT !.stage = IF works THEN "eod" ELSE "last"]
      /\ lastComb' = IF works /\ Full THEN call.end ELSE lastComb
      /\ UNCHANGED <<rose, offset, lvec, cvec, evec, status, raised, matched, told, closed>>
  BY <1>0, Zenon DEF StartEod, stream, Full
<1>2. InCall /\ TypeInv
  BY <1>1, Zenon DEF InCall, CombInv
<1>3. s \in rose.streams /\ s \notin closed /\ call.end = offset[s] /\ raised = call.end
  BY <1>0, <1>1, <1>2, Zenon DEF CombInv, CallInv
<1>4. /\ s \in Streams /\ MaxOffset \in Nat /\ Lengths \subseteq Nat /\ offset[s] \in Lengths
      /\ cvec[s] \in SUBSET Combs /\ lastComb \in Lengths
  BY <1>2, <1>3, Typed, Zenon
<1>5. StreamInv(s)
  BY <1>4, Zenon DEF CombInv
<1>6. /\ call'.s = s /\ call'.stage \in {"eod", "last"} /\ call'.end = call.end
      /\ call' \in [s : Streams, stage : {"idle", "scan", "boundary", "eod", "last"}, end : Lengths]
      /\ call'.stage \notin {"scan", "boundary", "idle"}
  BY <1>0, <1>1, <1>2, Zenon DEF TypeInv, TypeOK, Lengths
<1>7. InCall'
  BY <1>6, Zenon DEF InCall
<1> HIDE DEF works
<1>8. TypeInv'
  <2>1. lastComb' \in Lengths
    BY <1>1, <1>3, <1>4, Zenon
  <2> QED
    BY <1>1, <1>2, <1>6, <2>1, Zenon DEF TypeInv, TypeOK, Lengths
<1>9. CallInv'
  BY <1>1, <1>3, <1>6, Zenon DEF CallInv
<1>10. Only(s) /\ Same(s)
  BY <1>1, <1>3, <1>6, <1>0, Zenon DEF Only, Same
<1>11. StreamInv(s)'
  <2>1. ~Waiting(s)'
    BY <1>6, <1>7, Zenon DEF Waiting
  <2> QED
    BY <1>1, <1>5, <1>10, <2>1, Kept, Zenon
<1>12. ASSUME Sound PROVE LatestInv'
  <2>1. LatestInv
    BY <1>12, Zenon DEF CombInv
  <2>2. /\ OneStream => Last(matched[s], cvec[s], lastComb, raised)
        /\ Full => AtEnd(matched[s], cvec[s], offset[s])
        /\ call.end = 0 => lastComb = 0
    BY <1>1, <1>2, <2>1, <1>0, Zenon DEF LatestInv
  <2>3. Last(matched[s], cvec[s], lastComb', raised)
    <3>1. Full => Last(matched[s], cvec[s], offset[s], offset[s])
      BY <1>4, <2>2, LastOfAtEnd, Zenon
    <3>2. CASE works /\ Full
      BY <1>1, <1>3, <3>1, <3>2, Zenon
    <3>3. CASE ~(works /\ Full) /\ OneStream
      BY <1>1, <2>2, <3>3, Zenon
    <3>4. CASE ~(works /\ Full) /\ ~OneStream
      <4>1. Full /\ ~(call.end > 0)
        BY <1>12, <3>4, Zenon DEF Sound, works
      <4>2. call.end = 0
        <5>1. call.end \in Nat /\ ~(call.end > 0)
          BY <1>3, <1>4, <4>1, Zenon
        <5> QED
          BY <5>1
      <4> QED
        BY <1>1, <1>3, <2>2, <3>1, <3>4, <4>1, <4>2, Zenon
    <3> QED
      BY <3>2, <3>3, <3>4, Zenon
  <2>4. Last(matched'[s], cvec'[s], lastComb', raised')
    BY <1>1, <2>3, Zenon
  <2> QED
    BY <1>6, <2>4, Zenon DEF LatestInv
<1> QED
  BY <1>8, <1>9, <1>10, <1>11, <1>12, StepOf, Zenon

\* A stop at end of data
LEMMA EodHaltedStep ==
    ASSUME CombInv, EodHalted
    PROVE  CombInv'
<1>0. PICK s : s = call.s
  BY Zenon
<1>1. /\ call.stage \in {"boundary", "eod"} /\ status[s] # {}
      /\ call' = Idle /\ closed' = closed \cup {s}
      /\ UNCHANGED <<rose, offset, lvec, cvec, evec, status, lastComb, raised, matched, told>>
  BY <1>0, Zenon DEF EodHalted, stream
<1>2. InCall /\ TypeInv
  BY <1>1, Zenon DEF InCall, CombInv
<1>3. s \in rose.streams
  BY <1>0, <1>2, Zenon DEF CombInv, CallInv
<1>4. s \in Streams /\ StreamInv(s) /\ MaxOffset \in Nat
  BY <1>2, <1>3, Typed, Zenon DEF CombInv
<1>5. call' \in [s : Streams, stage : {"idle", "scan", "boundary", "eod", "last"}, end : Lengths]
      /\ ~InCall'
  BY <1>1, <1>4 DEF Idle, InCall, Lengths
<1>6. TypeInv'
  BY <1>1, <1>2, <1>4, <1>5, Zenon DEF TypeInv, TypeOK, Lengths
<1>7. CallInv' /\ LatestInv'
  BY <1>5, Zenon DEF CallInv, LatestInv
<1>8. Only(s)
  BY <1>1, <1>3, <1>5, <1>0, Zenon DEF Only, Same
<1>9. StreamInv(s)'
  <2>1. closed \subseteq closed'
    BY <1>1, Zenon
  <2> QED
    BY <1>1, <1>4, <2>1, ClosedStep, Zenon
<1> QED
  BY <1>6, <1>7, <1>8, <1>9, StepOf, Zenon

\* The end of a write
LEMMA EndScanStep ==
    ASSUME CombInv, NEW dead \in BOOLEAN, EndScan(dead)
    PROVE  CombInv'
<1>0. PICK s : s = call.s
  BY Zenon
<1>1. /\ call.stage = "scan" /\ (Full /\ status[s] = {} => raised = call.end)
      /\ dead => rose.dies /\ status[s] = {}
      /\ status' = [status EXCEPT ![s] = @ \cup (IF dead THEN {"EXHAUSTED"} ELSE {})]
      /\ offset' = [offset EXCEPT ![s] = IF status'[s] = {} THEN call.end ELSE @]
      /\ call' = Idle
      /\ UNCHANGED <<rose, lvec, cvec, evec, lastComb, raised, matched, told, closed>>
  BY <1>0, Zenon DEF EndScan, Full
<1>2. InCall /\ TypeInv
  BY <1>1, Zenon DEF InCall, CombInv
<1>3. /\ s \in rose.streams /\ s \notin closed
      /\ offset[s] < call.end /\ offset[s] <= raised /\ raised <= call.end
  BY <1>0, <1>1, <1>2, Zenon DEF CombInv, CallInv
<1>4. /\ s \in Streams /\ MaxOffset \in Nat /\ Lengths \subseteq Nat /\ offset[s] \in Lengths
      /\ cvec[s] \in SUBSET Combs /\ lastComb \in Lengths /\ raised \in Lengths
      /\ matched[s] \in SUBSET Finds
  BY <1>2, <1>3, Typed, Zenon
<1>5. StreamInv(s) /\ call.end \in Lengths
  BY <1>2, <1>4, Zenon DEF CombInv, TypeInv, TypeOK, Lengths
<1>6. call' \in [s : Streams, stage : {"idle", "scan", "boundary", "eod", "last"}, end : Lengths]
      /\ ~InCall'
  BY <1>1, <1>4, SMTT(30) DEF Idle, InCall, Lengths
<1>7. /\ status' \in [Streams -> SUBSET {"TERMINATED", "EXHAUSTED"}]
      /\ status'[s] = status[s] \cup (IF dead THEN {"EXHAUSTED"} ELSE {})
      /\ \A t \in Streams : t # s => status'[t] = status[t]
  BY <1>1, <1>2, <1>4, Zenon DEF TypeInv, TypeOK
<1>8. /\ offset' \in [Streams -> Lengths]
      /\ offset'[s] = IF status'[s] = {} THEN call.end ELSE offset[s]
      /\ \A t \in Streams : t # s => offset'[t] = offset[t]
  BY <1>1, <1>2, <1>4, <1>5, Zenon DEF TypeInv, TypeOK, Lengths
<1>9. TypeInv'
  BY <1>1, <1>2, <1>6, <1>7, <1>8, Zenon DEF TypeInv, TypeOK, Lengths
<1>10. CallInv' /\ LatestInv'
  BY <1>6, Zenon DEF CallInv, LatestInv
<1>11. Only(s)
  BY <1>1, <1>3, <1>6, <1>7, <1>8, <1>0, Zenon DEF Only, Same
<1>12. PlainInv(s)'
  BY <1>1, <1>5, <1>7, Zenon DEF StreamInv, PlainInv
<1>13. ASSUME Sound PROVE SentInv(s)' /\ ToldInv(s)' /\ EndInv(s)'
  <2>1. status'[s] = {} => status[s] = {}
    BY <1>7, Zenon
  <2>2. SentInv(s) /\ ToldInv(s)
    BY <1>5, <1>13, Zenon DEF StreamInv
  <2> QED
    BY <1>1, <1>3, <2>1, <2>2, Zenon DEF SentInv, ToldInv, EndInv
<1>14. ASSUME Sound, status'[s] = {}
       PROVE  /\ Full => AtEnd(matched[s], cvec[s], call.end)
              /\ Last(matched[s], cvec[s], lastComb, call.end) /\ call.end # 0
  <2>1. status[s] = {}
    BY <1>7, <1>14, Zenon
  <2>2. "scan" # "boundary" /\ LatestInv
    BY <1>14, Zenon DEF CombInv
  <2>3. /\ Last(matched[s], cvec[s], lastComb, raised)
        /\ Full => cvec[s] = {} \/ lastComb = raised
    BY <1>1, <1>2, <2>1, <2>2, <1>0, Zenon DEF LatestInv
  <2>4. /\ lastComb <= raised /\ Newest(matched[s], lastComb)
        /\ \A c \in cvec[s] : lastComb \in Offsets(matched[s], c)
        /\ raised = lastComb => \A c \in Combs : lastComb \in Offsets(matched[s], c) => c \in cvec[s]
    BY <2>3, Zenon DEF Last
  <2>5. /\ lastComb <= call.end /\ (call.end = lastComb => raised = lastComb) /\ call.end # 0
        /\ raised \in Nat /\ lastComb \in Nat
    <3>1. lastComb \in Nat /\ raised \in Nat /\ call.end \in Nat /\ offset[s] \in Nat
      BY <1>4, <1>5, Zenon
    <3>2. lastComb <= raised
      BY <2>4, Zenon
    <3> QED
      BY <1>3, <3>1, <3>2
  <2>6. Last(matched[s], cvec[s], lastComb, call.end)
    BY <2>4, <2>5, Zenon DEF Last
  <2>7. ASSUME Full PROVE AtEnd(matched[s], cvec[s], raised)
    <3>1. CASE lastComb = raised
      BY <1>4, <2>4, <3>1, Zenon DEF AtEnd
    <3>2. CASE lastComb # raised
      <4>1. cvec[s] = {}
        BY <2>3, <2>7, <3>2, Zenon
      <4>2. ASSUME NEW m \in matched[s] PROVE m.at \in Nat /\ m.at <= raised /\ m.at # raised
        <5>1. m.at \in Nat /\ m.at <= lastComb
          BY <1>4, <2>4, OffsetsType, Zenon DEF Newest
        <5> QED
          BY <2>4, <2>5, <3>2, <5>1
      <4>3. \A c \in Combs : raised \notin Offsets(matched[s], c)
        BY <1>4, <4>2, OffsetsType, Zenon
      <4> QED
        BY <4>1, <4>2, <4>3, Zenon DEF AtEnd, Newest
    <3> QED
      BY <3>1, <3>2, Zenon
  <2> QED
    BY <1>1, <2>1, <2>5, <2>6, <2>7, Zenon
<1>15. ASSUME Sound PROVE QuietInv(s)'
  <2>1. SUFFICES ASSUME status'[s] = {}
                 PROVE  /\ Full' => AtEnd(matched'[s], cvec'[s], offset'[s])
                        /\ OneStream' => Rested(s)'
    BY Zenon DEF QuietInv, Waiting
  <2>2. offset'[s] = call.end
    BY <1>8, <2>1, Zenon
  <2> QED
    BY <1>1, <1>14, <1>15, <2>1, <2>2, Zenon DEF Full, Rested
<1>16. StreamInv(s)'
  <2>1. Sound' <=> Sound
    BY <1>1, Zenon DEF Full, OneStream, Sound
  <2> QED
    BY <1>12, <1>13, <1>15, <2>1, Zenon DEF StreamInv
<1> QED
  BY <1>9, <1>10, <1>11, <1>16, StepOf, Zenon
-----------------------------------------------------------------------------
\* The steps that report

\* The stream of the call
LEMMA Scanned ==
    ASSUME CombInv, InCall, NEW s, s = call.s, status[s] = {}
    PROVE  /\ TypeInv /\ s \in rose.streams /\ s \notin closed /\ s \in Streams
           /\ StreamInv(s) /\ PlainInv(s)
           /\ Sound => /\ UpToDate(told[s], evec[s], matched[s], cvec[s])
                       /\ call.stage # "boundary" \/ OneStream =>
                             Last(matched[s], cvec[s], lastComb, raised)
<1>1. TypeInv /\ s \in rose.streams /\ s \notin closed
  BY Zenon DEF CombInv, CallInv
<1>2. s \in Streams
  BY <1>1, Typed, Zenon
<1>3. StreamInv(s)
  BY <1>2, Zenon DEF CombInv
<1>4. ASSUME Sound PROVE UpToDate(told[s], evec[s], matched[s], cvec[s])
  BY <1>1, <1>3, <1>4, Zenon DEF StreamInv, SentInv
<1>5. ASSUME Sound, call.stage # "boundary" \/ OneStream
      PROVE  Last(matched[s], cvec[s], lastComb, raised)
  BY <1>5, Zenon DEF CombInv, LatestInv
<1>6. PlainInv(s)
  BY <1>3, Zenon DEF StreamInv
<1> QED
  BY <1>1, <1>2, <1>3, <1>4, <1>5, <1>6, Zenon

\* Where a sub-expression may match
LEMMA RaisedAt ==
    ASSUME CombInv, InCall, NEW s, s = call.s, NEW at \in RaiseAt, at >= raised
    PROVE  /\ at \in Lengths /\ raised <= at
           /\ call.stage = "scan" => offset[s] < at /\ offset[s] <= at /\ at <= call.end
           /\ call.stage # "scan" => at = call.end /\ call.end = offset[s]
           /\ call.stage = "boundary" => rose.boundary
           /\ Sound => call.stage # "boundary" \/ OneStream
<1>1. /\ TypeInv /\ s \in rose.streams
      /\ call.stage = "scan" => raised <= call.end
      /\ call.stage # "scan" => call.end = offset[s]
  BY Zenon DEF CombInv, CallInv
<1>2. offset[s] \in Lengths /\ raised \in Lengths /\ call.end \in Lengths /\ MaxOffset \in Nat
  <2>1. call.end \in Lengths
    BY <1>1, Zenon DEF TypeInv, TypeOK, Lengths
  <2> QED
    BY <1>1, <2>1, Typed, Zenon
<1>3. \/ call.stage = "scan" /\ at \in (offset[s] + 1) .. call.end
      \/ call.stage = "boundary" /\ rose.boundary /\ at = call.end
      \/ call.stage = "eod" /\ at = call.end
  BY Zenon DEF RaiseAt
<1>4. /\ at \in Lengths /\ raised <= at
      /\ call.stage = "scan" => offset[s] < at /\ offset[s] <= at /\ at <= call.end
  BY <1>2, <1>3 DEF Lengths
<1>5. /\ call.stage # "scan" => at = call.end
      /\ call.stage = "boundary" => rose.boundary
  BY <1>3, Zenon
<1>6. ASSUME Sound, call.stage = "boundary" PROVE OneStream
  BY <1>5, <1>6, Zenon DEF Sound
<1> QED
  BY <1>1, <1>4, <1>5, <1>6, Zenon

\* The callback stops the scan.
LEMMA Stopped ==
    ASSUME NEW s, rose' = rose, StreamInv(s), s \notin closed, status[s] = {},
           status'[s] = {"TERMINATED"}, lvec'[s] = lvec[s], matched'[s] = matched[s],
           Sound => \A r \in Elems(told'[s]) : \/ r \in Elems(told[s])
                                               \/ r.at \in Offsets(matched[s], r.comb)
    PROVE  StreamInv(s)' /\ (call'.s = s => LatestInv')
<1>1. Sound' <=> Sound
  BY Zenon DEF Full, OneStream, Sound
<1>2. status'[s] # {} /\ "EXHAUSTED" \notin status'[s]
  BY Zenon
<1>3. PlainInv(s)'
  BY <1>2, Zenon DEF StreamInv, PlainInv
<1>4. QuietInv(s)' /\ SentInv(s)' /\ EndInv(s)' /\ (call'.s = s => LatestInv')
  BY <1>2, Zenon DEF QuietInv, Waiting, SentInv, EndInv, LatestInv
<1>5. ASSUME Sound PROVE ToldInv(s)'
  <2>1. ToldInv(s)
    BY <1>5, Zenon DEF StreamInv
  <2> QED
    BY <1>5, <2>1, Zenon DEF ToldInv
<1> QED
  BY <1>1, <1>3, <1>4, <1>5, Zenon DEF StreamInv

\* stop_scan
LEMMA StopIs ==
    ASSUME TypeInv, NEW s \in Streams, status[s] = {}, NEW halt \in BOOLEAN,
           status' = Stop(s, halt)
    PROVE  /\ status' \in [Streams -> SUBSET {"TERMINATED", "EXHAUSTED"}]
           /\ \A t \in Streams : t # s => status'[t] = status[t]
           /\ status'[s] = IF halt THEN {"TERMINATED"} ELSE {}
  BY Zenon DEF TypeInv, TypeOK, Stop

\* One stream's entry of the vector of active combinations changes.
LEMMA ActiveIs ==
    ASSUME TypeInv, NEW s \in Streams, NEW C \in SUBSET Combs, cvec' = [cvec EXCEPT ![s] = C]
    PROVE  /\ cvec' \in [Streams -> SUBSET Combs] /\ cvec'[s] = C
           /\ \A t \in Streams : t # s => cvec'[t] = cvec[t]
  BY Zenon DEF TypeInv, TypeOK

\* A sub-expression is stopped.
LEMMA RaiseSubHaltedStep ==
    ASSUME Numbers, CombInv, NEW sub \in Subs, NEW at \in Lengths, NEW inFlush \in BOOLEAN,
           RaiseSubHalted(sub, at, inFlush)
    PROVE  CombInv'
<1>0. PICK s : s = call.s
  BY Zenon
<1>1. /\ InCall /\ status[s] = {} /\ at \in RaiseAt /\ at >= raised
      /\ Deliver(s, Flushed(s, at), inFlush)
      /\ cvec' = [cvec EXCEPT ![s] = IF inFlush THEN @ ELSE StillActive(s, at)]
      /\ status' = Stop(s, TRUE)
      /\ UNCHANGED <<rose, offset, lvec, lastComb, call, raised, matched, closed>>
  BY <1>0, Zenon DEF RaiseSubHalted, InCall
<1>2. /\ TypeInv /\ s \in rose.streams /\ s \notin closed /\ s \in Streams
      /\ StreamInv(s) /\ PlainInv(s) /\ CallInv
  BY <1>0, <1>1, Scanned, Zenon DEF CombInv
<1>3. cvec[s] \in SUBSET Combs
  BY <1>2, Typed, Zenon
<1>4. Flushed(s, at) \in Seq(Tellings)
  BY <1>2, FlushTold, Zenon
<1>5. Delivers(s, Flushed(s, at), inFlush)
  BY <1>1, <1>2, <1>4, DeliverIs, Zenon
<1>6. /\ status' \in [Streams -> SUBSET {"TERMINATED", "EXHAUSTED"}]
      /\ \A t \in Streams : t # s => status'[t] = status[t]
      /\ status'[s] = {"TERMINATED"}
  BY <1>1, <1>2, StopIs, Zenon
<1>7. /\ cvec' \in [Streams -> SUBSET Combs]
      /\ \A t \in Streams : t # s => cvec'[t] = cvec[t]
  <2>1. (IF inFlush THEN cvec[s] ELSE StillActive(s, at)) \in SUBSET Combs
    BY <1>3, Zenon DEF StillActive
  <2>2. cvec' = [cvec EXCEPT ![s] = IF inFlush THEN cvec[s] ELSE StillActive(s, at)]
    BY <1>1, Zenon
  <2> QED
    BY <1>2, <2>1, <2>2, ActiveIs, Zenon
<1>8. TypeInv'
  BY <1>1, <1>2, <1>5, <1>6, <1>7, Zenon DEF TypeInv, TypeOK, Delivers
<1>9. CallInv'
  BY <1>1, <1>2, Zenon DEF CallInv, InCall
<1>10. Only(s)
  BY <1>0, <1>1, <1>2, <1>5, <1>6, <1>7, Zenon DEF Only, Same, Delivers
<1>11. ASSUME Sound, NEW r \in Elems(told'[s])
       PROVE  r \in Elems(told[s]) \/ r.at \in Offsets(matched[s], r.comb)
  <2>1. Last(matched[s], cvec[s], lastComb, raised)
    BY <1>0, <1>1, <1>11, RaisedAt, Scanned, Zenon
  <2>2. \A c \in cvec[s] : lastComb \in Offsets(matched[s], c)
    BY <2>1, Zenon DEF Last
  <2>3. r \in Elems(told[s]) \/ r \in Elems(Flushed(s, at))
    BY <1>5, <1>11, Zenon DEF Delivers
  <2> QED
    BY <1>2, <2>2, <2>3, FlushTold, Zenon
<1>12. StreamInv(s)' /\ LatestInv'
  BY <1>0, <1>1, <1>2, <1>6, <1>11, Stopped, Zenon
<1> QED
  BY <1>8, <1>9, <1>10, <1>12, StepOf, Zenon
\* roseCatchUpTo
LEMMA CatchUpStep ==
    ASSUME Numbers, CombInv, NEW at \in Lengths, NEW halt \in BOOLEAN, roseCatchUpTo(at, halt)
    PROVE  CombInv'
<1>0. PICK s : s = call.s
  BY Zenon
<1>1. /\ call.stage = "scan" /\ status[s] = {} /\ raised < at /\ at <= call.end
      /\ Deliver(s, Flushed(s, at), halt)
      /\ cvec' = [cvec EXCEPT ![s] = IF halt THEN @ ELSE StillActive(s, at)]
      /\ status' = Stop(s, halt) /\ raised' = at
      /\ UNCHANGED <<rose, offset, lvec, lastComb, call, matched, closed>>
  BY <1>0, Zenon DEF roseCatchUpTo
<1>2. InCall /\ "scan" # "boundary"
  BY <1>1, Zenon DEF InCall
<1>3. /\ TypeInv /\ s \in rose.streams /\ s \notin closed /\ s \in Streams
      /\ StreamInv(s) /\ PlainInv(s) /\ CallInv
      /\ Sound => /\ UpToDate(told[s], evec[s], matched[s], cvec[s])
                  /\ Last(matched[s], cvec[s], lastComb, raised)
  BY <1>0, <1>1, <1>2, Scanned, Zenon DEF CombInv
<1>4. /\ cvec[s] \in SUBSET Combs /\ matched[s] \in SUBSET Finds /\ Lengths \subseteq Nat
      /\ offset[s] \in Nat /\ lastComb \in Nat /\ raised \in Nat /\ raised \in Lengths /\ at \in Nat
  BY <1>3, Typed, Zenon
<1>5. Delivers(s, Flushed(s, at), halt)
  BY <1>1, <1>3, FlushTold, DeliverIs, Zenon
<1>6. /\ status' \in [Streams -> SUBSET {"TERMINATED", "EXHAUSTED"}]
      /\ \A t \in Streams : t # s => status'[t] = status[t]
      /\ status'[s] = IF halt THEN {"TERMINATED"} ELSE {}
  BY <1>1, <1>3, StopIs, Zenon
<1>7. /\ cvec' \in [Streams -> SUBSET Combs]
      /\ cvec'[s] = IF halt THEN cvec[s] ELSE StillActive(s, at)
      /\ \A t \in Streams : t # s => cvec'[t] = cvec[t]
  <2>1. (IF halt THEN cvec[s] ELSE StillActive(s, at)) \in SUBSET Combs
    BY <1>4, Zenon DEF StillActive
  <2>2. cvec' = [cvec EXCEPT ![s] = IF halt THEN cvec[s] ELSE StillActive(s, at)]
    BY <1>1, Zenon
  <2> QED
    BY <1>3, <2>1, <2>2, ActiveIs, Zenon
<1>8. TypeInv'
  BY <1>1, <1>3, <1>5, <1>6, <1>7, Zenon DEF TypeInv, TypeOK, Delivers, Lengths
<1>9. CallInv'
  <2>1. s \in rose.streams /\ s \notin closed /\ offset[s] < call.end /\ offset[s] <= raised
    BY <1>0, <1>1, <1>2, <1>3, Zenon DEF CallInv
  <2>2. offset[s] <= at
    BY <1>1, <1>4, <2>1
  <2> QED
    BY <1>0, <1>1, <2>1, <2>2, Zenon DEF CallInv
<1>10. Only(s)
  BY <1>0, <1>1, <1>3, <1>5, <1>6, <1>7, Zenon DEF Only, Same, Delivers
<1>11. ASSUME Sound, NEW r \in Elems(told'[s])
       PROVE  r \in Elems(told[s]) \/ r.at \in Offsets(matched[s], r.comb)
  <2>1. \A c \in cvec[s] : lastComb \in Offsets(matched[s], c)
    BY <1>3, <1>11, Zenon DEF Last
  <2>2. r \in Elems(told[s]) \/ r \in Elems(Flushed(s, at))
    BY <1>5, <1>11, Zenon DEF Delivers
  <2> QED
    BY <1>3, <2>1, <2>2, FlushTold, Zenon
<1>12. CASE halt
  <2>1. StreamInv(s)' /\ LatestInv'
    BY <1>0, <1>1, <1>3, <1>6, <1>11, <1>12, Stopped, Zenon
  <2> QED
    BY <1>8, <1>9, <1>10, <2>1, StepOf, Zenon
<1>13. CASE ~halt
  <2>1. PlainInv(s)'
    BY <1>1, <1>3, <1>6, <1>13, Zenon DEF PlainInv
  <2>2. Sound' <=> Sound
    BY <1>1, Zenon DEF Full, OneStream, Sound
  <2>3. ASSUME Sound PROVE StreamInv(s)' /\ LatestInv'
    <3>1. lastComb <= raised /\ raised <= at /\ at > lastComb /\ lastComb <= at /\ at # lastComb
      <4>1. lastComb <= raised
        BY <1>3, <2>3, Zenon DEF Last
      <4> QED
        BY <1>1, <1>4, <4>1
    <3>2. StillActive(s, at) = {}
      BY <3>1, Zenon DEF StillActive, Flushes
    <3>3. UpToDate(told'[s], evec'[s], matched[s], {})
      <4>1. Delivers(s, Flushed(s, at), FALSE)
        BY <1>5, <1>13, Zenon
      <4> QED
        BY <1>3, <1>4, <2>3, <3>1, <3>2, <4>1, FlushStep, Zenon
    <3>4. SentInv(s)' /\ EndInv(s)'
      BY <1>1, <1>3, <1>7, <1>13, <3>2, <3>3, Zenon DEF SentInv, EndInv
    <3>5. ToldInv(s)'
      <4>1. ToldInv(s)
        BY <1>3, <2>3, Zenon DEF StreamInv
      <4> QED
        BY <1>1, <1>11, <2>3, <4>1, Zenon DEF ToldInv
    <3>6. QuietInv(s)'
      BY <1>0, <1>1, <1>2, Zenon DEF QuietInv, Waiting, InCall
    <3>7. Last(matched[s], {}, lastComb, at)
      BY <1>3, <2>3, <3>1, Zenon DEF Last
    <3>8. LatestInv'
      BY <1>0, <1>1, <1>2, <1>7, <1>13, <3>2, <3>7, Zenon DEF LatestInv
    <3> QED
      BY <2>1, <3>4, <3>5, <3>6, <3>8, Zenon DEF StreamInv
  <2>4. StreamInv(s)' /\ (Sound => LatestInv')
    BY <2>1, <2>2, <2>3, Zenon DEF StreamInv
  <2> QED
    BY <1>8, <1>9, <1>10, <2>4, StepOf, Zenon
<1> QED
  BY <1>12, <1>13, Zenon

\* A sub-expression matches.
LEMMA RaiseSubStep ==
    ASSUME Numbers, CombInv, NEW sub \in Subs, NEW at \in Lengths, RaiseSub(sub, at)
    PROVE  CombInv'
<1>0. PICK s : s = call.s
  BY Zenon
<1> DEFINE M == With(matched[s], sub, at)
           C == Activated(StillActive(s, at), sub)
<1>1. /\ InCall /\ status[s] = {} /\ at \in RaiseAt /\ at >= raised
      /\ Deliver(s, Flushed(s, at), FALSE)
      /\ lvec' = [lvec EXCEPT ![s] = lvec[s] \cup {sub}]
      /\ lastComb' = at /\ raised' = at
      /\ cvec' = [cvec EXCEPT ![s] = C]
      /\ matched' = [matched EXCEPT ![s] = M]
      /\ UNCHANGED <<rose, offset, status, call, closed>>
  BY <1>0, Zenon DEF RaiseSub, InCall, With, Activated
<1>2. /\ TypeInv /\ s \in rose.streams /\ s \notin closed /\ s \in Streams
      /\ StreamInv(s) /\ PlainInv(s) /\ CallInv
  BY <1>0, <1>1, Scanned, Zenon DEF CombInv
<1>3. /\ cvec[s] \in SUBSET Combs /\ matched[s] \in SUBSET Finds /\ Lengths \subseteq Nat
      /\ raised \in Lengths /\ at \in Nat /\ lvec[s] \in SUBSET Subs
  BY <1>2, Typed, Zenon
<1>4. /\ raised <= at
      /\ call.stage = "scan" => offset[s] < at /\ offset[s] <= at /\ at <= call.end
      /\ call.stage # "scan" => at = call.end /\ call.end = offset[s]
  BY <1>0, <1>1, RaisedAt, Zenon
<1>5. Delivers(s, Flushed(s, at), FALSE)
  <2>1. Flushed(s, at) \in Seq(Tellings) /\ FALSE \in BOOLEAN
    BY <1>2, FlushTold, Zenon
  <2> QED
    BY <1>1, <1>2, <2>1, DeliverIs, Zenon
<1>6. StillActive(s, at) \in SUBSET Combs /\ C \in SUBSET Combs
  BY <1>3, Zenon DEF StillActive, Activated
<1>7. /\ \A k : k \in M <=> k \in matched[s] \/ k = [sub |-> sub, at |-> at]
      /\ M \in SUBSET Finds /\ [sub |-> sub, at |-> at].sub = sub
  BY <1>3 DEF With, Finds
<1> HIDE DEF M, C
<1>8. /\ cvec' \in [Streams -> SUBSET Combs] /\ cvec'[s] = C
      /\ \A t \in Streams : t # s => cvec'[t] = cvec[t]
  BY <1>1, <1>2, <1>6, ActiveIs, Zenon
<1>9. /\ matched' \in [Streams -> SUBSET Finds] /\ matched'[s] = M
      /\ \A t \in Streams : t # s => matched'[t] = matched[t]
  BY <1>1, <1>2, <1>7, Zenon DEF TypeInv
<1>10. /\ lvec' \in [Streams -> SUBSET Subs] /\ lvec'[s] = lvec[s] \cup {sub}
       /\ \A t \in Streams : t # s => lvec'[t] = lvec[t]
  BY <1>1, <1>2, <1>3, Zenon DEF TypeInv, TypeOK
<1>11. TypeInv'
  BY <1>1, <1>2, <1>5, <1>8, <1>9, <1>10, Zenon DEF TypeInv, TypeOK, Delivers, Lengths
<1>12. CallInv'
  <2>1. s \in rose.streams /\ s \notin closed /\ (call.stage = "scan" => offset[s] < call.end)
    BY <1>0, <1>1, <1>2, Zenon DEF CallInv
  <2> QED
    BY <1>0, <1>1, <1>4, <2>1, Zenon DEF CallInv
<1>13. Only(s)
  BY <1>0, <1>1, <1>2, <1>5, <1>8, <1>9, <1>10, Zenon DEF Only, Same, Delivers
<1>14. PlainInv(s)'
  <2>1. lvec[s] = SubsIn(matched[s])
    BY <1>2, Zenon DEF PlainInv
  <2>2. lvec[s] \cup {sub} = SubsIn(M)
    BY <2>1, <1>7, Zenon DEF SubsIn
  <2> QED
    BY <1>1, <1>2, <1>9, <1>10, <2>2, Zenon DEF PlainInv
<1>15. Sound' <=> Sound
  BY <1>1, Zenon DEF Full, OneStream, Sound
<1>16. ASSUME Sound PROVE StreamInv(s)' /\ LatestInv'
  <2>1. /\ UpToDate(told[s], evec[s], matched[s], cvec[s])
        /\ Last(matched[s], cvec[s], lastComb, raised)
    BY <1>0, <1>1, <1>16, RaisedAt, Scanned, Zenon
  <2>2. /\ UpToDate(told'[s], evec'[s], matched[s], StillActive(s, at))
        /\ AtEnd(matched[s], StillActive(s, at), at)
    BY <1>2, <1>3, <1>4, <1>5, <2>1, FlushStep, Zenon
  <2>3. UpToDate(told'[s], evec'[s], M, C) /\ AtEnd(M, C, at)
    BY <1>3, <1>6, <2>2, Matching, Zenon DEF M, C
  <2>4. SentInv(s)' /\ EndInv(s)'
    BY <1>1, <1>2, <1>8, <1>9, <2>3, Zenon DEF SentInv, EndInv
  <2>5. QuietInv(s)'
    BY <1>0, <1>1, Zenon DEF QuietInv, Waiting, InCall
  <2>6. ASSUME NEW r \in Elems(told'[s]) PROVE r.at \in Offsets(M, r.comb)
    <3>1. r.at \in Offsets(matched[s], r.comb)
      <4>1. \A c \in cvec[s] : lastComb \in Offsets(matched[s], c)
        BY <2>1, Zenon DEF Last
      <4>2. r \in Elems(told[s]) \/ r \in Elems(Flushed(s, at))
        BY <1>5, <2>6, Zenon DEF Delivers
      <4>3. ToldInv(s)
        BY <1>2, <1>16, Zenon DEF StreamInv
      <4> QED
        BY <1>2, <4>1, <4>2, <4>3, FlushTold, Zenon DEF ToldInv
    <3>2. PICK k \in matched[s] : k.sub \in SubsOf(r.comb) /\ k.at = r.at
      BY <1>3, <3>1, OffsetsType, ZenonT(30)
    <3> QED
      BY <1>7, <3>2, OffsetsType, Zenon
  <2>7. ToldInv(s)'
    BY <1>9, <2>6, Zenon DEF ToldInv
  <2>8. Last(M, C, at, at)
    BY <1>3, <1>6, <2>3, LastOfAtEnd, Zenon
  <2>9. /\ call.stage = "boundary" => AtEnd(M, C, offset[s])
        /\ call.stage = "boundary" /\ call.end = 0 => at = 0
    <3>1. "boundary" # "scan"
      BY Zenon
    <3> QED
      BY <1>4, <2>3, <3>1, Zenon
  <2>10. LatestInv'
    BY <1>0, <1>1, <1>8, <1>9, <2>8, <2>9, Zenon DEF LatestInv
  <2> QED
    BY <1>14, <2>4, <2>5, <2>7, <2>10, Zenon DEF StreamInv
<1>17. StreamInv(s)' /\ (Sound => LatestInv')
  BY <1>14, <1>15, <1>16, Zenon DEF StreamInv
<1> QED
  BY <1>11, <1>12, <1>13, <1>17, StepOf, Zenon
\* What is reported at the end of data for lack of matches has none.
LEMMA NegativeTold ==
    ASSUME Numbers, TypeInv, NEW s \in Streams, PlainInv(s), NEW at \in Lengths
    PROVE  /\ checkPurelyNegatives(s, at) \in Seq(Tellings)
           /\ \A r \in Elems(checkPurelyNegatives(s, at)) :
                 r.at = at /\ Offsets(matched[s], r.comb) = {}
<1> DEFINE g == checkPurelyNegatives(s, at)
           lv == SubsIn(matched[s])
           G == Due(Negative(lv), at, evec[s])
<1>1. Tells(g, G, at)
  BY Tellers, Zenon
<1>2. ASSUME NEW c \in G PROVE Offsets(matched[s], c) = {}
  <2>1. lv \cap SubsOf(c) = {}
    BY <1>2, Zenon DEF Due, Negative, isPurelyNegativeMatch
  <2>2. \A m \in matched[s] : m.sub \notin SubsOf(c)
    BY <2>1, Zenon DEF SubsIn
  <2> QED
    BY <2>2, Zenon DEF Offsets
<1> HIDE DEF g, G
<1>3. g \in Seq(Tellings) /\ Elems(g) = {[comb |-> c, at |-> at] : c \in G}
  BY <1>1, Zenon DEF Tells
<1>4. \A r \in Elems(g) : r.at = at /\ r.comb \in G
  BY <1>3
<1> QED
  BY <1>2, <1>3, <1>4, Zenon DEF g

\* Two additions to a list of reports are one.
LEMMA Regrouped == \A a, b, c \in Seq(Tellings) : a \o (b \o c) = (a \o b) \o c
  OBVIOUS

\* LAST_FLUSH_COMBINATION
LEMMA LastFlushStep ==
    ASSUME Numbers, CombInv, NEW halt \in BOOLEAN, LastFlush(halt)
    PROVE  CombInv'
<1>0. PICK s, end : s = call.s /\ end = call.end
  BY Zenon
<1> DEFINE f == flushActiveCombinations(s, end)
           g == checkPurelyNegatives(s, end)
<1>1. /\ call.stage \in {"eod", "last"} /\ status[s] = {}
      /\ Deliver(s, f \o g, halt)
      /\ cvec' = [cvec EXCEPT ![s] = IF halt THEN @ ELSE {}]
      /\ status' = Stop(s, halt)
      /\ call' = Idle /\ closed' = closed \cup {s}
      /\ UNCHANGED <<rose, offset, lvec, lastComb, raised, matched>>
  BY <1>0, Zenon DEF LastFlush
<1>2. InCall /\ call.stage # "boundary" /\ call.stage # "scan"
  BY <1>1, Zenon DEF InCall
<1>3. /\ TypeInv /\ s \in rose.streams /\ s \notin closed /\ s \in Streams
      /\ StreamInv(s) /\ PlainInv(s) /\ CallInv
      /\ Sound => /\ UpToDate(told[s], evec[s], matched[s], cvec[s])
                  /\ Last(matched[s], cvec[s], lastComb, raised)
  BY <1>0, <1>1, <1>2, Scanned, Zenon DEF CombInv
<1>4. /\ cvec[s] \in SUBSET Combs /\ matched[s] \in SUBSET Finds /\ MaxOffset \in Nat
      /\ offset[s] \in Lengths /\ lastComb \in Lengths /\ told[s] \in Seq(Tellings)
  BY <1>3, Typed, Zenon
<1>5. end = offset[s] /\ end \in Lengths
  BY <1>0, <1>2, <1>3, <1>4, Zenon DEF CallInv
<1>6. f \in Seq(Tellings) /\ g \in Seq(Tellings)
  BY <1>3, <1>5, FlushTold, NegativeTold, Zenon
<1>7. /\ Tells(f, Due(Passing(cvec[s], SubsIn(matched[s])), lastComb, evec[s]), lastComb)
      /\ Tells(g, Due(Negative(SubsIn(matched[s])), end, evec[s]), end)
  BY <1>3, <1>5, Tellers, Zenon
<1>8. /\ \A r \in Elems(g) : r.at = offset[s] /\ Offsets(matched[s], r.comb) = {}
      /\ (\A c \in cvec[s] : lastComb \in Offsets(matched[s], c)) =>
            \A r \in Elems(f) : r.at \in Offsets(matched[s], r.comb)
  BY <1>3, <1>5, FlushTold, NegativeTold, Zenon
<1> HIDE DEF f, g
<1>9. f \o g \in Seq(Tellings) /\ Elems(f \o g) = Elems(f) \cup Elems(g)
  BY <1>6, Joined, ZenonT(30)
<1>10. Delivers(s, f \o g, halt)
  BY <1>1, <1>3, <1>9, DeliverIs, Zenon
<1>11. /\ status' \in [Streams -> SUBSET {"TERMINATED", "EXHAUSTED"}]
       /\ \A t \in Streams : t # s => status'[t] = status[t]
       /\ status'[s] = IF halt THEN {"TERMINATED"} ELSE {}
  BY <1>1, <1>3, StopIs, Zenon
<1>12. /\ cvec' \in [Streams -> SUBSET Combs]
       /\ \A t \in Streams : t # s => cvec'[t] = cvec[t]
  <2>1. (IF halt THEN cvec[s] ELSE {}) \in SUBSET Combs
    BY <1>4, Zenon
  <2>2. cvec' = [cvec EXCEPT ![s] = IF halt THEN cvec[s] ELSE {}]
    BY <1>1, Zenon
  <2> QED
    BY <1>3, <2>1, <2>2, ActiveIs, Zenon
<1>13. call' \in [s : Streams, stage : {"idle", "scan", "boundary", "eod", "last"}, end : Lengths]
       /\ ~InCall'
  BY <1>1, <1>3, <1>4 DEF Idle, InCall, Lengths
<1>14. TypeInv'
  BY <1>1, <1>3, <1>10, <1>11, <1>12, <1>13, Zenon DEF TypeInv, TypeOK, Delivers, Lengths
<1>15. CallInv' /\ LatestInv'
  BY <1>13, Zenon DEF CallInv, LatestInv
<1>16. Only(s)
  BY <1>0, <1>1, <1>3, <1>10, <1>11, <1>12, <1>13, Zenon DEF Only, Same, Delivers
<1>17. PlainInv(s)'
  BY <1>1, <1>3, <1>11, Zenon DEF PlainInv
<1>18. ASSUME Sound PROVE QuietInv(s)' /\ SentInv(s)' /\ ToldInv(s)' /\ EndInv(s)'
  <2>1. s \in closed'
    BY <1>1, Zenon
  <2>2. QuietInv(s)' /\ SentInv(s)'
    BY <2>1, Zenon DEF QuietInv, Waiting, SentInv
  <2>3. Newest(matched[s], lastComb) /\ \A c \in cvec[s] : lastComb \in Offsets(matched[s], c)
    BY <1>3, <1>18, Zenon DEF Last
  <2>4. ASSUME NEW r \in Elems(told'[s])
        PROVE  \/ r.at \in Offsets(matched[s], r.comb)
               \/ Offsets(matched[s], r.comb) = {} /\ r.at = offset[s]
    <3>1. r \in Elems(told[s]) \/ r \in Elems(f) \/ r \in Elems(g)
      BY <1>9, <1>10, <2>4, Zenon DEF Delivers
    <3>2. ToldInv(s)
      BY <1>3, <1>18, Zenon DEF StreamInv
    <3> QED
      BY <1>3, <1>8, <2>3, <3>1, <3>2, Zenon DEF ToldInv
  <2>5. ToldInv(s)'
    BY <1>1, <2>1, <2>4, Zenon DEF ToldInv
  <2>6. ASSUME ~halt PROVE Exact(told'[s], matched[s], offset[s])
    <3>1. told'[s] = (told[s] \o f) \o g
      <4>1. told'[s] = told[s] \o (f \o g)
        BY <1>10, <2>6, Zenon DEF Delivers
      <4> QED
        BY <1>4, <1>6, <4>1, Regrouped, Zenon
    <3>2. Exact((told[s] \o f) \o g, matched[s], end)
      BY <1>3, <1>4, <1>5, <1>7, <1>18, <2>3, Ending, Zenon
    <3> QED
      BY <1>5, <3>1, <3>2, Zenon
  <2>7. EndInv(s)'
    <3>1. halt => status'[s] # {}
      BY <1>11, Zenon
    <3> QED
      BY <1>1, <2>6, <3>1, Zenon DEF EndInv
  <2> QED
    BY <2>2, <2>5, <2>7, Zenon
<1>19. StreamInv(s)'
  <2>1. Sound' <=> Sound
    BY <1>1, Zenon DEF Full, OneStream, Sound
  <2> QED
    BY <1>17, <1>18, <2>1, Zenon DEF StreamInv
<1> QED
  BY <1>14, <1>15, <1>16, <1>19, StepOf, Zenon

-----------------------------------------------------------------------------
\* The invariant

\* The invariant holds before the first stream is opened.
LEMMA InitInv ==
    ASSUME Init
    PROVE  CombInv
<1>1. /\ rose \in Engines /\ offset = [s \in Streams |-> 0] /\ lvec = [s \in Streams |-> {}]
      /\ cvec = [s \in Streams |-> {}] /\ evec = [s \in Streams |-> {}]
      /\ status = [s \in Streams |-> {}] /\ lastComb = 0 /\ call = Idle /\ raised = 0
      /\ matched = [s \in Streams |-> {}] /\ told = [s \in Streams |-> <<>>] /\ closed = {}
  BY Zenon DEF Init
<1>2. MaxOffset \in Nat /\ Streams # {}
  BY RuntimeAssumption, Zenon
<1>3. call.s \in Streams /\ call.stage = "idle" /\ call.end = 0
      /\ call \in [s : Streams, stage : {"idle", "scan", "boundary", "eod", "last"}, end : {0}]
  BY <1>1, <1>2, Zenon DEF Idle
<1>4. TypeInv
  <2>1. 0 \in 0 .. MaxOffset /\ <<>> \in Seq(Tellings) /\ call.end \in 0 .. MaxOffset
    BY <1>2, <1>3
  <2> QED
    BY <1>1, <1>3, <2>1, Zenon DEF TypeInv, TypeOK
<1>5. CallInv /\ LatestInv
  BY <1>3, Zenon DEF CallInv, LatestInv, InCall
<1>6. ASSUME NEW s \in Streams PROVE StreamInv(s)
  <2>1. /\ offset[s] = 0 /\ lvec[s] = {} /\ cvec[s] = {} /\ evec[s] = {} /\ status[s] = {}
        /\ matched[s] = {} /\ told[s] = <<>> /\ s \notin closed
    BY <1>1, Zenon
  <2>2. PlainInv(s) /\ SentInv(s) /\ ToldInv(s) /\ EndInv(s)
    BY <2>1, NothingYet, Zenon DEF PlainInv, SentInv, ToldInv, EndInv
  <2>3. QuietInv(s)
    BY <2>1, NothingYet, Zenon DEF QuietInv, Rested
  <2> QED
    BY <2>2, <2>3, Zenon DEF StreamInv
<1> QED
  BY <1>4, <1>5, <1>6, Zenon DEF CombInv

\* A step that changes nothing
LEMMA StutterInv ==
    ASSUME CombInv, UNCHANGED vars
    PROVE  CombInv'
<1>1. UNCHANGED <<rose, offset, lvec, cvec, evec, status, lastComb, call, raised, matched, told, closed>>
  BY Zenon DEF vars, stream
<1>2. TypeInv' /\ CallInv' /\ (Sound => LatestInv') /\ (Sound' <=> Sound)
  <2>1. TypeInv /\ CallInv /\ (Sound => LatestInv)
    BY Zenon DEF CombInv
  <2>2. TypeInv' /\ CallInv'
    BY <1>1, <2>1, Zenon DEF TypeInv, TypeOK, CallInv, InCall
  <2>3. LatestInv => LatestInv'
    BY <1>1, Zenon DEF LatestInv, InCall, Full, OneStream
  <2> QED
    BY <1>1, <2>1, <2>2, <2>3, Zenon DEF Sound, Full, OneStream
<1>3. ASSUME NEW s \in Streams PROVE StreamInv(s)'
  <2>1. StreamInv(s)
    BY Zenon DEF CombInv
  <2>2. PlainInv(s)' /\ (SentInv(s) => SentInv(s)') /\ (ToldInv(s) => ToldInv(s)')
        /\ (EndInv(s) => EndInv(s)')
    BY <1>1, <2>1, Zenon DEF StreamInv, PlainInv, SentInv, ToldInv, EndInv
  <2>3. QuietInv(s) => QuietInv(s)'
    BY <1>1, Zenon DEF QuietInv, Waiting, InCall, Full, OneStream, Rested
  <2> QED
    BY <1>2, <2>1, <2>2, <2>3, Zenon DEF StreamInv
<1> QED
  BY <1>2, <1>3, Zenon DEF CombInv

\* Every step keeps the invariant.
LEMMA NextInv ==
    ASSUME Numbers, CombInv, [Next]_vars
    PROVE  CombInv'
<1>1. CASE UNCHANGED vars
  BY <1>1, StutterInv, Zenon
<1>2. CASE Next
  <2>1. ASSUME NEW s \in rose.streams, hs_open_stream(s) PROVE CombInv'
    BY <2>1, OpenStep, Zenon
  <2>2. ASSUME NEW s \in rose.streams, report_eod_matches(s) PROVE CombInv'
    BY <2>2, EodStep, Zenon
  <2>3. ASSUME NEW s \in rose.streams, NEW len \in 1 .. MaxOffset, hs_scan_stream(s, len)
        PROVE  CombInv'
    BY <2>3, ScanStep, Zenon
  <2>4. ASSUME NEW sub \in Subs, NEW at \in 0 .. MaxOffset, RaiseSub(sub, at) PROVE CombInv'
    BY <2>4, RaiseSubStep, Zenon DEF Lengths
  <2>5. ASSUME NEW sub \in Subs, NEW at \in 0 .. MaxOffset, NEW inFlush \in BOOLEAN,
               RaiseSubHalted(sub, at, inFlush)
        PROVE  CombInv'
    BY <2>5, RaiseSubHaltedStep, Zenon DEF Lengths
  <2>6. ASSUME NEW at \in 0 .. MaxOffset, NEW halt \in BOOLEAN, roseCatchUpTo(at, halt)
        PROVE  CombInv'
    BY <2>6, CatchUpStep, Zenon DEF Lengths
  <2>7. ASSUME NEW dead \in BOOLEAN, EndScan(dead) PROVE CombInv'
    BY <2>7, EndScanStep, Zenon
  <2>8. ASSUME StartEod PROVE CombInv'
    BY <2>8, StartEodStep, Zenon
  <2>9. ASSUME EodHalted PROVE CombInv'
    BY <2>9, EodHaltedStep, Zenon
  <2>10. ASSUME NEW halt \in BOOLEAN, LastFlush(halt) PROVE CombInv'
    BY <2>10, LastFlushStep, Zenon
  <2> QED
    BY <1>2, <2>1, <2>2, <2>3, <2>4, <2>5, <2>6, <2>7, <2>8, <2>9, <2>10, Zenon DEF Next
<1> QED
  BY <1>1, <1>2, Zenon

-----------------------------------------------------------------------------
\* The theorems

INSTANCE FiniteSetTheorems

\* A set of natural numbers has a least element.
LEMMA FirstKey ==
    ASSUME NEW S \in SUBSET Nat, S # {}
    PROVE  \E n \in S : \A m \in S : n <= m
<1> DEFINE R == {ss \in Nat \X Nat : ss[1] < ss[2]}
<1>1. \A a, b \in Nat : a < b => <<a, b>> \in R
  BY Zenon
<1>2. IsWellFoundedOn(R, Nat)
  BY NatLessThanWellFounded, Zenon DEF OpToRel
<1> HIDE DEF R
<1>3. PICK n \in S : \A m \in S : ~(<<m, n>> \in R)
  BY <1>2, WFMin, Zenon
<1>4. \A m \in S : n \in Nat /\ m \in Nat
  BY Zenon
<1>5. \A m \in S : ~(m < n)
  BY <1>1, <1>3, <1>4, Zenon
<1> QED
  BY <1>4, <1>5, SMTT(30)

\* Finitely many keys can be listed in ascending order: the least number of keys for
\* which they could not would be one too many.
LEMMA Listing ==
    ASSUME NEW keys \in SUBSET Nat, IsFiniteSet(keys)
    PROVE  Cardinality(keys) \in Nat /\ \E f : Lists(f, keys, Cardinality(keys))
<1> DEFINE Bad(n) == \E S \in SUBSET Nat : /\ IsFiniteSet(S) /\ Cardinality(S) = n
                                           /\ ~\E f : Lists(f, S, n)
           B == {n \in Nat : Bad(n)}
<1>1. B = {}
  <2> SUFFICES ASSUME B # {} PROVE FALSE
    BY Zenon
  <2>1. PICK n \in B : \A m \in B : n <= m
    BY FirstKey, Zenon
  <2>2. n \in Nat
    BY <2>1, Zenon
  <2>3. PICK S \in SUBSET Nat : IsFiniteSet(S) /\ Cardinality(S) = n /\ ~\E f : Lists(f, S, n)
    BY <2>1, Zenon
  <2>4. CASE S = {}
    <3>1. n = 0
      BY <2>3, <2>4, FS_EmptySet, Zenon
    <3>2. Lists([i \in 1 .. 0 |-> 0], {}, 0)
      BY DEF Lists
    <3> QED
      BY <2>3, <2>4, <3>1, <3>2, Zenon
  <2>5. CASE S # {}
    <3>1. PICK k \in S : \A m \in S : k <= m
      BY <2>5, FirstKey, Zenon
    <3>2. IsFiniteSet(S \ {k}) /\ Cardinality(S \ {k}) = n - 1
      BY <2>3, <3>1, FS_RemoveElement, Zenon
    <3>3. n - 1 \in Nat
      BY <3>2, FS_CardinalityType, Zenon
    <3>4. n - 1 \notin B
      BY <2>1, <2>2, <3>3, SMTT(30)
    <3>5. S \ {k} \in SUBSET Nat
      BY Zenon
    <3>6. PICK g : Lists(g, S \ {k}, n - 1)
      BY <3>2, <3>3, <3>4, <3>5, Zenon
    <3> DEFINE f == [i \in 1 .. n |-> IF i = 1 THEN k ELSE g[i - 1]]
    <3>7. f \in [1 .. n -> S]
      <4>1. \A i \in 1 .. n : i # 1 => i - 1 \in 1 .. (n - 1)
        BY <2>2
      <4> QED
        BY <4>1, <3>1, <3>6, Zenon DEF Lists
    <3>8. ASSUME NEW i \in 1 .. n, NEW j \in 1 .. n, i < j PROVE f[i] < f[j]
      <4>1. j - 1 \in 1 .. (n - 1) /\ f[j] = g[j - 1] /\ g[j - 1] \in S \ {k}
        BY <2>2, <3>6, <3>8, SMTT(30) DEF Lists
      <4>2. CASE i = 1
        <5>1. ASSUME NEW m \in S \ {k} PROVE k < m
          <6>1. k \in Nat /\ m \in Nat /\ k <= m /\ k # m
            BY <3>1, Zenon
          <6> QED
            BY <6>1
        <5>2. f[i] = k
          BY <4>2, Zenon
        <5> HIDE DEF f
        <5> QED
          BY <4>1, <5>1, <5>2, Zenon
      <4>3. CASE i # 1
        <5>1. i - 1 \in 1 .. (n - 1) /\ f[i] = g[i - 1] /\ i - 1 < j - 1
          BY <2>2, <3>8, <4>3, SMTT(30)
        <5> QED
          BY <4>1, <5>1, <3>6, Zenon DEF Lists
      <4> QED
        BY <4>2, <4>3, Zenon
    <3>9. ASSUME NEW m \in S PROVE \E i \in 1 .. n : f[i] = m
      <4>1. CASE m = k
        <5>1. 1 \in 1 .. n /\ f[1] = m
          BY <4>1, <2>2, <3>3, SMTT(30)
        <5> QED
          BY <5>1, Zenon
      <4>2. CASE m # k
        <5>1. PICK i \in 1 .. (n - 1) : g[i] = m
          BY <4>2, <3>6, Zenon DEF Lists
        <5>2. i + 1 \in 1 .. n /\ f[i + 1] = m
          BY <5>1, <2>2
        <5> QED
          BY <5>2, Zenon
      <4> QED
        BY <4>1, <4>2, Zenon
    <3> HIDE DEF f
    <3> QED
      BY <3>7, <3>8, <3>9, <2>3, Zenon DEF Lists
  <2> QED
    BY <2>4, <2>5, Zenon
<1>2. Cardinality(keys) \in Nat
  BY FS_CardinalityType, Zenon
<1> QED
  BY <1>1, <1>2, Zenon

\* The loop over the bits of a vector visits its keys in ascending order, each once.
LEMMA Iterated ==
    ASSUME NEW keys \in SUBSET Nat, IsFiniteSet(keys)
    PROVE  Lists(mmbit_iterate(keys), keys, Cardinality(keys))
<1> DEFINE n == Cardinality(keys)
           C(f) == \A i, j \in DOMAIN f : i < j => f[i] < f[j]
           h == mmbit_iterate(keys)
<1>1. PICK g : Lists(g, keys, n)
  BY Listing, Zenon
<1>2. n \in Nat
  BY Listing, Zenon
<1>3. g \in [1 .. n -> keys] /\ C(g)
  BY <1>1, Zenon DEF Lists
<1>4. h \in [1 .. n -> keys] /\ C(h)
  <2>1. h = CHOOSE f \in [1 .. n -> keys] : C(f)
    BY Zenon DEF mmbit_iterate
  <2> HIDE DEF C, h
  <2> QED
    BY <2>1, <1>3, Zenon
<1>5. \A i, j \in 1 .. n : i < j => h[i] < h[j]
  BY <1>4, Zenon
<1>6. \A i, j \in 1 .. n : h[i] = h[j] => i = j
  <2>1. \A i \in 1 .. n : h[i] \in Nat
    BY <1>4, Zenon
  <2> HIDE DEF h, n
  <2> QED
    BY <2>1, <1>2, <1>5, SMTT(30)
<1> HIDE DEF h
<1>7. h \in Injection(1 .. n, keys)
  BY <1>4, <1>6, Zenon DEF Injection, IsInjective
<1>8. Cardinality(1 .. n) = n /\ IsFiniteSet(1 .. n)
  BY <1>2, FS_Interval
<1>9. h \in Surjection(1 .. n, keys)
  BY <1>7, <1>8, FS_Injection, Zenon
<1> QED
  BY <1>4, <1>5, <1>9, Zenon DEF Lists, Surjection, h

\* What the proofs take from Numbers is true: the least key, and the loop over the bits of a
\* vector.
LEMMA NumbersHold == Numbers
<1>1. LeastNumber
  BY FirstKey, Zenon DEF LeastNumber
<1>2. ASSUME NEW keys \in SUBSET Combs
      PROVE  /\ Cardinality(keys) \in Nat
             /\ Lists(mmbit_iterate(keys), keys, Cardinality(keys))
  <2>1. Combs \in SUBSET Nat /\ IsFiniteSet(Combs)
    BY TreeAssumption, Zenon
  <2>2. keys \in SUBSET Nat /\ IsFiniteSet(keys)
    BY <2>1, FS_Subset, Zenon
  <2> QED
    BY <2>2, Listing, Iterated, Zenon
<1> QED
  BY <1>1, <1>2, Zenon DEF Numbers, KeysListed

\* The invariant of the vectors, of lastCombMatchOffset and of the reports holds in every
\* state of every sequence of calls.
THEOREM Combining == Spec => []CombInv
<1>1. CombInv /\ [Next]_vars => CombInv'
  BY NumbersHold, NextInv, Zenon
<1> QED
  BY <1>1, InitInv, PTL DEF Spec

\* The offsets of a stream's reports, in the words of the model
LEMMA InModel ==
    ASSUME NEW s, NEW c
    PROVE  /\ MatchOffsets(s, c) = Offsets(matched[s], c)
           /\ \A at : MatchedBy(s, at) = SubsBy(matched[s], at)
           /\ NoneMatched(s, c) <=> Offsets(matched[s], c) = {}
  BY Zenon DEF MatchOffsets, Offsets, MatchedBy, SubsBy, NoneMatched

\* A combination is reported only where one of its sub-expressions matches, or at end of
\* data if none did, unless streams share a scratch in which lastCombMatchOffset is not
\* set for each (flushActiveCombinations).
THEOREM AtMatches == Spec => [](Sound => CombinationOffsets)
<1>1. CombInv /\ Sound => CombinationOffsets
  <2> SUFFICES ASSUME CombInv, Sound, NEW s \in Streams, NEW i \in DOMAIN told[s]
               PROVE  \/ told[s][i].at \in MatchOffsets(s, told[s][i].comb)
                      \/ NoneMatched(s, told[s][i].comb) /\ told[s][i].at = offset[s]
    BY Zenon DEF CombinationOffsets
  <2>1. ToldInv(s) /\ told[s][i] \in Elems(told[s])
    BY Zenon DEF CombInv, StreamInv, Elems
  <2> QED
    BY <2>1, InModel, Zenon DEF ToldInv
<1> QED
  BY <1>1, Combining, PTL

\* What is due of combination c
DueIn(M, c, end) ==
    CombInfo[c].min .. CombInfo[c].max \cap
        ({at \in Offsets(M, c) : Truth(c, SubsBy(M, at))} \cup
         {at \in {end} : Offsets(M, c) = {} /\ Truth(c, {})})

\* ... and in the words of the model
Expected(s, c) ==
    CombInfo[c].min .. CombInfo[c].max \cap
        ({at \in MatchOffsets(s, c) : Truth(c, MatchedBy(s, at))} \cup
         {at \in {offset[s]} : NoneMatched(s, c) /\ Truth(c, {})})

\* ExactCombinations for one combination of a stream that was closed without a halt
LEMMA ExactIs ==
    ASSUME CombInv, Sound, NEW s \in closed, status[s] = {}, NEW c \in Combs
    PROVE  /\ IsInjective(told[s])
           /\ Sent(told[s], c) = IF c \in Single /\ DueIn(matched[s], c, offset[s]) # {}
                                 THEN {Min(DueIn(matched[s], c, offset[s]))}
                                 ELSE DueIn(matched[s], c, offset[s])
<1>1. Exact(told[s], matched[s], offset[s])
  BY Zenon DEF CombInv, TypeInv, StreamInv, EndInv
<1> QED
  BY <1>1, Zenon DEF Exact, DueIn

\* The end of data of a stream that was not stopped finds each combination reported where
\* it was due, once each, and nowhere else, with one exhaustion key only the first time;
\* under the same condition (LAST_FLUSH_COMBINATION).
THEOREM AllReported == Spec => [](Sound => ExactCombinations)
<1>1. CombInv /\ Sound => ExactCombinations
  <2> SUFFICES ASSUME CombInv, Sound PROVE ExactCombinations
    BY Zenon
  <2>1. ASSUME NEW s \in closed, status[s] = {} PROVE IsInjective(told[s])
    BY <2>1, Zenon DEF CombInv, TypeInv, StreamInv, EndInv, Exact
  <2>2. ASSUME NEW s \in closed, NEW c \in Combs
        PROVE  Expected(s, c) = DueIn(matched[s], c, offset[s])
    <3>1. {at \in MatchOffsets(s, c) : Truth(c, MatchedBy(s, at))}
          = {at \in Offsets(matched[s], c) : Truth(c, SubsBy(matched[s], at))}
      BY InModel, Zenon
    <3>2. {at \in {offset[s]} : NoneMatched(s, c) /\ Truth(c, {})}
          = {at \in {offset[s]} : Offsets(matched[s], c) = {} /\ Truth(c, {})}
      BY InModel, Zenon
    <3> QED
      BY <3>1, <3>2, Zenon DEF DueIn, Expected
  <2>3. ASSUME NEW s \in closed, status[s] = {}, NEW c \in Combs
        PROVE  Sent(told[s], c) = IF c \in Single /\ Expected(s, c) # {}
                                  THEN {Min(Expected(s, c))} ELSE Expected(s, c)
    <3>1. Expected(s, c) = DueIn(matched[s], c, offset[s])
      BY <2>2, Zenon
    <3> QED
      BY <2>3, <3>1, ExactIs, Zenon
  <2> QED
    BY <2>1, <2>3, Zenon DEF ExactCombinations, Expected, Sent
<1> QED
  BY <1>1, Combining, PTL

\* A combination that is true when nothing matches is reported at end of data if nothing
\* of it has matched, unless an engine has died before (checkPurelyNegatives); under the
\* same condition.
THEOREM NegativesAtEnd == Spec => [](Sound /\ ~rose.dies => NegativesTold)
<1>1. CombInv /\ Sound /\ ~rose.dies => NegativesTold
  <2> SUFFICES ASSUME CombInv, Sound, ~rose.dies, NEW s \in closed, NEW c \in Combs,
                      "TERMINATED" \notin status[s], NoneMatched(s, c), Truth(c, {}),
                      offset[s] \in CombInfo[c].min .. CombInfo[c].max
               PROVE  \E i \in DOMAIN told[s] : told[s][i].comb = c
    BY Zenon DEF NegativesTold
  <2>1. s \in Streams /\ status[s] \in SUBSET {"TERMINATED", "EXHAUSTED"}
    BY Zenon DEF CombInv, TypeInv, TypeOK
  <2>2. "EXHAUSTED" \notin status[s]
    BY <2>1, Zenon DEF CombInv, StreamInv, PlainInv
  <2>3. status[s] = {}
    BY <2>1, <2>2, Zenon
  <2>4. offset[s] \in DueIn(matched[s], c, offset[s])
    BY InModel, Zenon DEF DueIn
  <2>5. Sent(told[s], c) # {}
    <3> DEFINE D == DueIn(matched[s], c, offset[s])
    <3>1. D # {} /\ {Min(D)} # {}
      BY <2>4, Zenon
    <3>2. Sent(told[s], c) = IF c \in Single /\ D # {} THEN {Min(D)} ELSE D
      BY <2>3, ExactIs, Zenon
    <3> HIDE DEF D
    <3> QED
      BY <3>1, <3>2, Zenon
  <2> QED
    BY <2>5, Zenon DEF Sent
<1> QED
  BY <1>1, Combining, PTL
==============================================================================
