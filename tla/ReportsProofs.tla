--------------------------- MODULE ReportsProofs ---------------------------
(***************************************************************************)
(* Proofs about Reports for every database, every length of the stream and *)
(* any number of reports: what the user is told in a call that was not     *)
(* stopped is exactly what the engines raised, each report once at each    *)
(* offset and with its leftmost start, start-of-match reports in the order *)
(* of their ends and single-match reports once in the life of a stream.    *)
(*                                                                         *)
(* ReportsInv is the inductive invariant.  It says which offset each of    *)
(* the two logs of the deduper stands for, which the code only knows from  *)
(* the parity of the offset, that nothing of an earlier call is left in a  *)
(* log when it comes to be used, and that the two dirty bits cover what is *)
(* stored.                                                                 *)
(***************************************************************************)
EXTENDS Reports, TLAPS

Elems(q) == {q[i] : i \in DOMAIN q}

Stopped == "TERMINATED" \in status

\* The final flush is still to come.
Before == \E i \in DOMAIN todo : todo[i] = "flush"

\* The offset whose reports a log holds
At(p) == IF p = cur % 2 THEN cur ELSE cur - 1

\* The match of the report being processed
Pending == [id |-> now.id, from |-> now.from, to |-> now.at + now.adjust]

Todos ==
    {<<"zero", "match", "flush">>, <<"match", "flush">>, <<"flush">>, <<>>,
     <<"eod", "eodMatch", "flush">>, <<"eodMatch", "flush">>,
     <<"zero", "match", "flush", "eod">>, <<"match", "flush", "eod">>, <<"flush", "eod">>,
     <<"eod">>}

\* The call in progress and the report being processed
CallInv ==
    /\ todo \in Todos
    /\ "EXHAUSTED" \in status => Som = {}
    /\ \A m \in raised : m.id \in Plain => m.from = 0
    /\ now # None =>
          /\ todo # <<>> /\ status = {} /\ Pending \in raised
          /\ cur <= now.at /\ now.id \notin evec
          /\ now.id \in Som => Before

\* A single-match report that was told is exhausted, or its callback stopped the scan.
FiredInv == \A id \in Single : fired[id] = 0 \/ (fired[id] = 1 /\ (id \in evec \/ Stopped))

\* The log of an offset holds what was told at that offset.
LogInv ==
    todo # <<>> /\ ~Stopped =>
        /\ cur = Unset => out = <<>>
        /\ \A x \in Elems(out) : x.id \in Plain =>
              x.to <= cur /\ (cur - 1 <= x.to => x.id \in log[x.to % 2])
        /\ cur # Unset => \A p \in Parity : At(p) >= 0 =>
              \A id \in log[p] : [id |-> id, from |-> 0, to |-> At(p)] \in Elems(out)

\* What is stored was raised at the offset of its log; a clean log is empty; what was
\* told before the final flush ends before both.
StoreInv ==
    todo # <<>> /\ ~Stopped =>
        /\ cur = Unset /\ dirty = 0 => \A p \in Parity : somLog[p] = {}
        /\ cur # Unset =>
              /\ dirty % 2 = 0 => somLog[(cur + 1) % 2] = {}
              /\ dirty \div 2 = 0 => somLog[cur % 2] = {}
              /\ \A p \in Parity : \A id \in somLog[p] :
                    [id |-> id, from |-> starts[p][id], to |-> At(p)] \in raised
        /\ ~Before => \A p \in Parity : somLog[p] = {}
        /\ Before => \A x \in Elems(out) : x.id \in Som => x.to <= cur - 2

\* A raised match has been told with a start that is no later, or is stored with one,
\* or is being processed.
Told(m) == \E x \in Elems(out) : x.id = m.id /\ x.to = m.to /\ x.from <= m.from
Stored(m) == \E p \in Parity : At(p) = m.to /\ m.id \in somLog[p] /\ starts[p][m.id] <= m.from

ToldInv ==
    ~Stopped =>
        /\ Elems(out) \subseteq raised
        /\ \A m \in raised : \/ Told(m)
                             \/ todo # <<>> /\ cur # Unset /\ Stored(m)
                             \/ now # None /\ m = Pending

ReportsInv ==
    /\ TypeOK /\ CallInv /\ FiredInv /\ LogInv /\ StoreInv /\ ToldInv
    /\ NoDuplicate /\ SomInOrder

----------------------------------------------------------------------------
\* Sequences

\* f lists the keys in ascending order, each once.
Lists(f, keys, n) ==
    /\ f \in [1 .. n -> keys]
    /\ \A i, j \in 1 .. n : i < j => f[i] < f[j]
    /\ \A k \in keys : \E i \in 1 .. n : f[i] = k

\* What clearSomLog relies on: the loop over the bits of a log visits finitely many
\* keys in ascending order, each once.  LogsListedHold proves it, and every lemma that
\* needs it says so.
LogsListed ==
    \A all \in SUBSET Nat : IsFiniteSet(all) =>
        \A keys \in SUBSET all :
            /\ Cardinality(keys) \in Nat
            /\ Lists(fatbit_iterate(keys), keys, Cardinality(keys))

\* The elements of a sequence belong to the set it is a sequence over.
LEMMA ElemsIn ==
    ASSUME NEW T, NEW q \in Seq(T), NEW x \in Elems(q)
    PROVE  x \in T
  BY DEF Elems

\* Reports in the order of their ends, none of them twice
Tidy(d) ==
    \A i, j \in DOMAIN d : i < j =>
        d[i].to <= d[j].to /\ ~(d[i].id = d[j].id /\ d[i].to = d[j].to)

\* What a log holds, as reports for offset `to'
Held(p, to) == {[id |-> k, from |-> starts[p][k], to |-> to] : k \in somLog[p]}

\* What is known of the database
LEMMA Keys ==
    ASSUME TypeOK
    PROVE  /\ Ids \subseteq Nat /\ Plain \subseteq Nat /\ Som \subseteq Nat
           /\ Plain \cap Som = {} /\ Single \subseteq Plain /\ IsFiniteSet(Som)
           /\ MaxOffset \in Nat /\ MaxRaises \in Nat
  BY IdsAssumption, ReportBounds, Zenon DEF TypeOK, Ids, Plain, Som, Single

\* r is the content of a log as clearSomLog reports it.
Clears(r, p, to) == Tidy(r) /\ Elems(r) = Held(p, to)

\* clearSomLog reports what the log holds, each key once.
LEMMA Cleared ==
    ASSUME LogsListed, TypeOK, NEW p \in Parity, NEW to \in Int, NEW T, Held(p, to) \subseteq T
    PROVE  clearSomLog(p, to) \in Seq(T) /\ Clears(clearSomLog(p, to), p, to)
<1> DEFINE S == somLog[p]
           n == Cardinality(S)
           f == fatbit_iterate(S)
           c == [i \in 1 .. n |-> [id |-> f[i], from |-> starts[p][f[i]], to |-> to]]
<1>1. S \subseteq Som
  BY Zenon DEF TypeOK
<1>2. S \in SUBSET Nat /\ Som \in SUBSET Nat /\ IsFiniteSet(Som)
  BY <1>1, Keys, Zenon
<1>3. Lists(f, S, n) /\ n \in Nat
  BY <1>1, <1>2, Zenon DEF LogsListed
<1>4. clearSomLog(p, to) = c
  <2>1. DOMAIN f = 1 .. n
    BY <1>3, Zenon DEF Lists
  <2> QED
    BY <2>1, Zenon DEF clearSomLog
<1> HIDE DEF S, n, f
<1>5. /\ \A i \in 1 .. n : f[i] \in S
      /\ \A i, j \in 1 .. n : i < j => f[i] < f[j]
      /\ \A k \in S : \E i \in 1 .. n : f[i] = k
  BY <1>3, Zenon DEF Lists
<1>6. \A i \in 1 .. n : c[i] \in Held(p, to)
  BY <1>5, Zenon DEF Held, S
<1>7. DOMAIN c = 1 .. n /\ \A i \in 1 .. n : c[i].id = f[i] /\ c[i].to = to
  BY Zenon
<1>8. \A x \in Held(p, to) : \E i \in 1 .. n : c[i] = x
  <2> SUFFICES ASSUME NEW x \in Held(p, to)
               PROVE  \E i \in 1 .. n : c[i] = x
    BY Zenon
  <2>1. PICK k \in S : x = [id |-> k, from |-> starts[p][k], to |-> to]
    BY Zenon DEF Held, S
  <2>2. PICK i \in 1 .. n : f[i] = k
    BY <1>5, Zenon
  <2>3. c[i] = x
    BY <2>1, <2>2, Zenon
  <2> QED
    BY <2>3, Zenon
<1> HIDE DEF c
<1>9. c \in Seq(T)
  <2>1. \A i \in 1 .. n : c[i] \in T
    BY <1>6, Zenon
  <2>2. c = [i \in 1 .. n |-> c[i]]
    BY <1>7, Zenon DEF c
  <2> QED
    BY <2>1, <2>2, <1>3
<1>10. Elems(c) = Held(p, to)
  BY <1>6, <1>7, <1>8, Zenon DEF Elems
<1>11. Tidy(c)
  <2> SUFFICES ASSUME NEW i \in 1 .. n, NEW j \in 1 .. n, i < j
               PROVE  c[i].to <= c[j].to /\ c[i].id # c[j].id
    BY <1>7, Zenon DEF Tidy
  <2>1. c[i].to = to /\ c[j].to = to /\ c[i].id = f[i] /\ c[j].id = f[j]
    BY <1>7, Zenon
  <2>2. f[i] < f[j] /\ f[i] \in Nat /\ f[j] \in Nat
    BY <1>2, <1>5, Zenon
  <2> QED
    BY <2>1, <2>2
<1> QED
  BY <1>4, <1>9, <1>10, <1>11, Zenon DEF Clears

\* One after the other: r is a followed by b.
Joins(r, a, b) ==
    /\ Len(r) = Len(a) + Len(b)
    /\ Elems(r) = Elems(a) \union Elems(b)
    /\ \A i \in 1 .. Len(a) : r[i] = a[i]
    /\ \A i \in 1 .. Len(b) : r[Len(a) + i] = b[i]

\* Sequences with the same elements are equal.
LEMMA SameSeq ==
    ASSUME NEW T, NEW a \in Seq(T), NEW b \in Seq(T), Len(a) = Len(b),
           \A i \in 1 .. Len(a) : a[i] = b[i]
    PROVE  a = b
  OBVIOUS

\* Concatenation, position by position
LEMMA Concatenated ==
    ASSUME NEW T, NEW a \in Seq(T), NEW b \in Seq(T)
    PROVE  /\ a \o b \in Seq(T) /\ Len(a \o b) = Len(a) + Len(b)
           /\ \A i \in 1 .. (Len(a) + Len(b)) :
                 (a \o b)[i] = IF i <= Len(a) THEN a[i] ELSE b[i - Len(a)]
<1>1. a \o b \in Seq(T) /\ Len(a \o b) = Len(a) + Len(b)
  OBVIOUS
<1>2. \A i \in 1 .. (Len(a) + Len(b)) : i <= Len(a) => (a \o b)[i] = a[i]
  OBVIOUS
<1>3. \A i \in 1 .. (Len(a) + Len(b)) : ~(i <= Len(a)) => (a \o b)[i] = b[i - Len(a)]
  OBVIOUS
<1> QED
  BY <1>1, <1>2, <1>3, Zenon

\* Concatenation, element by element
LEMMA Joined ==
    ASSUME NEW T, NEW a \in Seq(T), NEW b \in Seq(T)
    PROVE  a \o b \in Seq(T) /\ Joins(a \o b, a, b)
<1> DEFINE r == a \o b
<1>1. /\ r \in Seq(T) /\ Len(r) = Len(a) + Len(b) /\ DOMAIN r = 1 .. (Len(a) + Len(b))
      /\ \A i \in 1 .. (Len(a) + Len(b)) : r[i] = IF i <= Len(a) THEN a[i] ELSE b[i - Len(a)]
      /\ Len(a) \in Nat /\ Len(b) \in Nat /\ DOMAIN a = 1 .. Len(a) /\ DOMAIN b = 1 .. Len(b)
  BY Concatenated
<1> HIDE DEF r
<1>2. \A i \in 1 .. Len(a) : i \in 1 .. (Len(a) + Len(b)) /\ r[i] = a[i]
  BY <1>1
<1>3. \A i \in 1 .. Len(b) : Len(a) + i \in 1 .. (Len(a) + Len(b)) /\ r[Len(a) + i] = b[i]
  <2> TAKE i \in 1 .. Len(b)
  <2>1. /\ Len(a) + i \in 1 .. (Len(a) + Len(b)) /\ ~(Len(a) + i <= Len(a))
        /\ (Len(a) + i) - Len(a) = i
    BY <1>1
  <2> QED
    BY <1>1, <2>1, Zenon
<1>4. \A i \in 1 .. (Len(a) + Len(b)) :
         \/ i \in 1 .. Len(a) /\ r[i] = a[i]
         \/ i - Len(a) \in 1 .. Len(b) /\ r[i] = b[i - Len(a)]
  BY <1>1
<1>5. Elems(r) = Elems(a) \union Elems(b)
  <2>1. \A x \in Elems(r) : x \in Elems(a) \union Elems(b)
    BY <1>1, <1>4, Zenon DEF Elems
  <2>2. \A x \in Elems(a) : x \in Elems(r)
    BY <1>1, <1>2, Zenon DEF Elems
  <2>3. \A x \in Elems(b) : x \in Elems(r)
    <3> SUFFICES ASSUME NEW i \in 1 .. Len(b)
                 PROVE  b[i] \in Elems(r)
      BY <1>1, Zenon DEF Elems
    <3>1. Len(a) + i \in DOMAIN r /\ r[Len(a) + i] = b[i]
      BY <1>1, <1>3, Zenon
    <3> QED
      BY <3>1, Zenon DEF Elems
  <2> QED
    BY <2>1, <2>2, <2>3, Zenon
<1> QED
  BY <1>1, <1>2, <1>3, <1>5, Zenon DEF Joins, r

\* Reports for one offset followed by reports for a later one
LEMMA TidyJoin ==
    ASSUME NEW T, NEW a \in Seq(T), NEW b \in Seq(T), Tidy(a), Tidy(b),
           \A x \in Elems(a) \union Elems(b) : x.to \in Int,
           \A x \in Elems(a), y \in Elems(b) : x.to < y.to,
           NEW r \in Seq(T), Joins(r, a, b)
    PROVE  Tidy(r)
<1>1. /\ Len(a) \in Nat /\ Len(b) \in Nat /\ DOMAIN a = 1 .. Len(a) /\ DOMAIN b = 1 .. Len(b)
      /\ DOMAIN r = 1 .. (Len(a) + Len(b))
  BY DEF Joins
<1>2. \A i \in 1 .. (Len(a) + Len(b)) :
         \/ i \in 1 .. Len(a) /\ r[i] = a[i]
         \/ i - Len(a) \in 1 .. Len(b) /\ r[i] = b[i - Len(a)]
  <2> SUFFICES ASSUME NEW i \in 1 .. (Len(a) + Len(b))
               PROVE  \/ i \in 1 .. Len(a) /\ r[i] = a[i]
                      \/ i - Len(a) \in 1 .. Len(b) /\ r[i] = b[i - Len(a)]
    BY Zenon
  <2>1. CASE i <= Len(a)
    BY <1>1, <2>1 DEF Joins
  <2>2. CASE ~(i <= Len(a))
    <3>1. i - Len(a) \in 1 .. Len(b) /\ Len(a) + (i - Len(a)) = i
      BY <1>1, <2>2
    <3> QED
      BY <3>1, Zenon DEF Joins
  <2> QED
    BY <2>1, <2>2, Zenon
<1> SUFFICES ASSUME NEW i \in 1 .. (Len(a) + Len(b)), NEW j \in 1 .. (Len(a) + Len(b)), i < j
             PROVE  r[i].to <= r[j].to /\ ~(r[i].id = r[j].id /\ r[i].to = r[j].to)
  BY <1>1, Zenon DEF Tidy
<1>3. CASE j \in 1 .. Len(a) /\ r[j] = a[j]
  <2>1. i \in 1 .. Len(a)
    BY <1>1, <1>3
  <2>2. r[i] = a[i]
    BY <2>1, Zenon DEF Joins
  <2> QED
    BY <2>1, <2>2, <1>1, <1>3, Zenon DEF Tidy
<1>4. CASE j - Len(a) \in 1 .. Len(b) /\ r[j] = b[j - Len(a)]
  <2>1. CASE i \in 1 .. Len(a) /\ r[i] = a[i]
    <3>1. r[i] \in Elems(a) /\ r[j] \in Elems(b)
      BY <2>1, <1>1, <1>4, Zenon DEF Elems
    <3>2. r[i].to < r[j].to /\ r[i].to \in Int /\ r[j].to \in Int
      BY <3>1, Zenon
    <3> QED
      BY <3>2
  <2>2. CASE i - Len(a) \in 1 .. Len(b) /\ r[i] = b[i - Len(a)]
    <3>1. i - Len(a) < j - Len(a)
      BY <1>1
    <3> QED
      BY <3>1, <2>2, <1>1, <1>4, Zenon DEF Tidy
  <2> QED
    BY <2>1, <2>2, <1>2, Zenon
<1> QED
  BY <1>2, <1>3, <1>4, Zenon

\* The callback may stop the scan after some of the reports.
LEMMA FrontOf ==
    ASSUME NEW T, NEW d \in Seq(T), Tidy(d), NEW n \in 0 .. Len(d)
    PROVE  /\ SubSeq(d, 1, n) \in Seq(T)
           /\ Tidy(SubSeq(d, 1, n)) /\ Elems(SubSeq(d, 1, n)) \subseteq Elems(d)
           /\ n = Len(d) => Elems(SubSeq(d, 1, n)) = Elems(d)
<1> DEFINE r == SubSeq(d, 1, n)
<1>1. /\ Len(d) \in Nat /\ n \in Nat /\ n <= Len(d) /\ DOMAIN d = 1 .. Len(d)
  OBVIOUS
<1>2. /\ r \in Seq(T) /\ Len(r) = n /\ DOMAIN r = 1 .. n /\ \A i \in 1 .. n : r[i] = d[i]
  BY <1>1
<1> HIDE DEF r
<1>3. \A i \in 1 .. n : i \in 1 .. Len(d)
  BY <1>1
<1>4. Tidy(r)
  BY <1>1, <1>2, <1>3 DEF Tidy
<1>5. Elems(r) \subseteq Elems(d) /\ (n = Len(d) => Elems(r) = Elems(d))
  BY <1>1, <1>2, <1>3, Zenon DEF Elems
<1> QED
  BY <1>2, <1>4, <1>5, Zenon DEF r

----------------------------------------------------------------------------
\* The final flush and the flush at a new offset

\* The two logs of the deduper
LEMMA TwoLogs ==
    ASSUME NEW c \in Nat
    PROVE  /\ c % 2 \in Parity /\ (c + 1) % 2 \in Parity /\ (c + 1) % 2 # c % 2
           /\ \A p \in Parity : p = c % 2 \/ p = (c + 1) % 2
           /\ c >= 1 => (c - 1) % 2 = (c + 1) % 2
  BY DEF Parity

\* A log is reported, before the final flush, for the offset it stands for.
LEMMA BatchTold ==
    ASSUME ReportsInv, todo # <<>>, ~Stopped, NEW d \in Seq(Match), Tidy(d),
           \A x \in Elems(d) : x \in raised /\ x.id \in Som /\ Before /\ cur - 1 <= x.to,
           out' = out \o d, db' = db
    PROVE  /\ out' \in Seq(Match) /\ NoDuplicate' /\ SomInOrder'
           /\ Elems(out') = Elems(out) \union Elems(d)
<1>1. out \in Seq(Match) /\ NoDuplicate /\ SomInOrder /\ cur \in Int
  BY DEF ReportsInv, TypeOK, Unset, Offsets
<1>2. out' \in Seq(Match) /\ Joins(out', out, d)
  BY <1>1, Joined, Zenon
<1>3. \A x \in Elems(out), y \in Elems(d) : x.id \in Som => x.to < y.to
  <2> SUFFICES ASSUME NEW x \in Elems(out), NEW y \in Elems(d), x.id \in Som
               PROVE  x.to < y.to
    BY Zenon
  <2>1. x.to <= cur - 2 /\ cur - 1 <= y.to
    BY Zenon DEF ReportsInv, StoreInv
  <2>2. x \in Match /\ y \in Match
    BY <1>1, ElemsIn, Zenon
  <2>3. x.to \in Int /\ y.to \in Int
    BY <2>2 DEF Match, Offsets
  <2> QED
    BY <1>1, <2>1, <2>3
<1>4. \A y \in Elems(d) : y.id \in Som
  BY Zenon
<1>5. \A x \in Elems(out) \union Elems(d) : x.to \in Int
  <2>1. \A x \in Elems(out) \union Elems(d) : x \in Match
    BY <1>1, ElemsIn, Zenon
  <2> QED
    BY <2>1 DEF Match, Offsets
<1> DEFINE a == Len(out)  b == Len(d)  r == out'
<1>6. /\ a \in Nat /\ b \in Nat /\ DOMAIN out = 1 .. a /\ DOMAIN d = 1 .. b
      /\ DOMAIN r = 1 .. (a + b)
  BY <1>1, <1>2 DEF Joins
<1>7. \A i \in 1 .. (a + b) :
         \/ i \in 1 .. a /\ r[i] = out[i] /\ out[i] \in Elems(out)
         \/ /\ i - a \in 1 .. b /\ i > a /\ r[i] = d[i - a] /\ d[i - a] \in Elems(d)
  <2> SUFFICES ASSUME NEW i \in 1 .. (a + b)
               PROVE  \/ i \in 1 .. a /\ r[i] = out[i] /\ out[i] \in Elems(out)
                      \/ i - a \in 1 .. b /\ i > a /\ r[i] = d[i - a] /\ d[i - a] \in Elems(d)
    BY Zenon
  <2>1. CASE i <= a
    BY <1>2, <1>6, <2>1 DEF Joins, Elems
  <2>2. CASE i > a
    <3>1. i - a \in 1 .. b /\ a + (i - a) = i
      BY <1>6, <2>2
    <3> QED
      BY <1>2, <1>6, <2>2, <3>1, Zenon DEF Joins, Elems
  <2> QED
    BY <1>6, <2>1, <2>2
<1> HIDE DEF a, b, r
<1>8. \A i, j \in 1 .. (a + b) : i < j =>
         /\ ~(r[i].id = r[j].id /\ r[i].to = r[j].to)
         /\ r[i].id \in Som /\ r[j].id \in Som => r[i].to <= r[j].to
  <2> SUFFICES ASSUME NEW i \in 1 .. (a + b), NEW j \in 1 .. (a + b), i < j
               PROVE  /\ ~(r[i].id = r[j].id /\ r[i].to = r[j].to)
                      /\ r[i].id \in Som /\ r[j].id \in Som => r[i].to <= r[j].to
    BY Zenon
  <2>1. CASE j \in 1 .. a
    <3>1. i \in 1 .. a /\ ~(j > a) /\ ~(i > a) /\ i # j
      BY <1>6, <2>1
    <3>2. r[i] = out[i] /\ r[j] = out[j]
      BY <1>7, <3>1, Zenon
    <3> QED
      BY <1>1, <1>6, <2>1, <3>1, <3>2, Zenon DEF NoDuplicate, SomInOrder
  <2>2. CASE j \notin 1 .. a
    <3>1. j - a \in 1 .. b /\ r[j] = d[j - a] /\ d[j - a] \in Elems(d)
      BY <1>7, <2>2, Zenon
    <3>2. CASE i \in 1 .. a /\ r[i] = out[i] /\ out[i] \in Elems(out)
      <4>1. r[i].id \in Som => r[i].to < r[j].to
        BY <1>3, <3>1, <3>2, Zenon
      <4>2. r[i].to \in Int /\ r[j].to \in Int
        BY <1>5, <3>1, <3>2, Zenon
      <4>3. r[j].id \in Som
        BY <1>4, <3>1, Zenon
      <4> QED
        BY <4>1, <4>2, <4>3
    <3>3. CASE i - a \in 1 .. b /\ i > a /\ r[i] = d[i - a] /\ d[i - a] \in Elems(d)
      <4>1. i - a < j - a
        BY <1>6
      <4> QED
        BY <1>6, <3>1, <3>3, <4>1, Zenon DEF Tidy
    <3> QED
      BY <1>7, <3>2, <3>3, Zenon
  <2> QED
    BY <2>1, <2>2, Zenon
<1>9. NoDuplicate'
  <2> SUFFICES ASSUME NEW i \in 1 .. (a + b), NEW j \in 1 .. (a + b),
                      r[i].id = r[j].id, r[i].to = r[j].to
               PROVE  i = j
    BY <1>6, Zenon DEF NoDuplicate, r
  <2>1. ~(i < j) /\ ~(j < i)
    BY <1>8, Zenon
  <2> QED
    BY <1>6, <2>1
<1>10. SomInOrder'
  <2> SUFFICES ASSUME NEW i \in 1 .. (a + b), NEW j \in 1 .. (a + b),
                      i < j, r[i].id \in Som, r[j].id \in Som
               PROVE  r[i].to <= r[j].to
    BY <1>6, Zenon DEF SomInOrder, Som, r
  <2> QED
    BY <1>8, Zenon
<1> QED
  BY <1>2, <1>9, <1>10, Zenon DEF Joins

\* What a flush does to the reports and to the two logs
Flushed(to, halt) ==
    /\ out' \in Seq(Match) /\ NoDuplicate' /\ SomInOrder'
    /\ Elems(out) \subseteq Elems(out') /\ Elems(out') \subseteq raised
    /\ \A x \in Elems(out') \ Elems(out) :
          x.id \in Som /\ cur # Unset /\ x.to <= cur /\ (to = cur + 1 => x.to <= cur - 1)
    /\ dirty' \in 0 .. 3 /\ somLog' \in [Parity -> SUBSET Som]
    /\ ~halt /\ cur = Unset => out' = out /\ \A p \in Parity : somLog'[p] = {}
    /\ ~halt /\ cur # Unset /\ to = cur + 1 =>
          /\ Held((cur + 1) % 2, cur - 1) \subseteq Elems(out')
          /\ dirty' % 2 = 0 => somLog[cur % 2] = {}
          /\ somLog'[(cur + 1) % 2] = {} /\ somLog'[cur % 2] = somLog[cur % 2]
    /\ ~halt /\ cur # Unset /\ to # cur + 1 =>
          /\ Held((cur + 1) % 2, cur - 1) \subseteq Elems(out')
          /\ Held(cur % 2, cur) \subseteq Elems(out')
          /\ \A p \in Parity : somLog'[p] = {}

\* What the logs hold was raised at their offsets, and is empty after the final flush.
LEMMA HeldRaised ==
    ASSUME ReportsInv, todo # <<>>, ~Stopped, cur # Unset
    PROVE  /\ cur \in Nat
           /\ \A x \in Held((cur + 1) % 2, cur - 1) :
                 x \in raised /\ x.id \in Som /\ Before /\ x.to = cur - 1
           /\ \A x \in Held(cur % 2, cur) : x \in raised /\ x.id \in Som /\ Before /\ x.to = cur
           /\ Held((cur + 1) % 2, cur - 1) \subseteq Match /\ Held(cur % 2, cur) \subseteq Match
<1>1. cur \in Nat /\ raised \subseteq Match /\ somLog \in [Parity -> SUBSET Som]
  BY DEF ReportsInv, TypeOK, Offsets
<1>2. At(cur % 2) = cur /\ At((cur + 1) % 2) = cur - 1
  BY <1>1, TwoLogs, Zenon DEF At
<1>3. ASSUME NEW p \in Parity, NEW x \in Held(p, At(p))
      PROVE  x \in raised /\ x.id \in Som /\ Before /\ x.to = At(p)
  <2>1. PICK k \in somLog[p] : x = [id |-> k, from |-> starts[p][k], to |-> At(p)]
    BY <1>3, Zenon DEF Held
  <2>2. k \in Som
    BY <1>1, <2>1, Zenon
  <2>3. x \in raised /\ Before
    BY <2>1, Zenon DEF ReportsInv, StoreInv
  <2> QED
    BY <2>1, <2>2, <2>3, Zenon
<1>4. cur % 2 \in Parity /\ (cur + 1) % 2 \in Parity
  BY <1>1, TwoLogs, Zenon
<1> QED
  BY <1>1, <1>2, <1>3, <1>4, Zenon

\* A flush tells what the logs hold, for the offsets they stand for, in the order of
\* the offsets; stopped by the callback, it tells some of it.
LEMMA Flushing ==
    ASSUME LogsListed, ReportsInv, todo # <<>>, ~Stopped, db' = db,
           NEW to \in Int, NEW halt \in BOOLEAN,
           flushStoredSomMatches(to, halt)
    PROVE  Flushed(to, halt)
<1> DEFINE old == (cur + 1) % 2
           first == clearSomLog(old, cur - 1)
           second == clearSomLog(cur % 2, cur)
<1>1. /\ TypeOK /\ out \in Seq(Match) /\ NoDuplicate /\ SomInOrder /\ Elems(out) \subseteq raised
      /\ dirty \in 0 .. 3 /\ somLog \in [Parity -> SUBSET Som] /\ (cur # Unset => cur \in Nat)
  BY DEF ReportsInv, TypeOK, ToldInv, Offsets
<1>2. UNCHANGED out => /\ out' \in Seq(Match) /\ NoDuplicate' /\ SomInOrder'
                       /\ Elems(out') = Elems(out)
  BY <1>1, Zenon DEF NoDuplicate, SomInOrder, Som, Elems
<1>3. CASE dirty = 0
  <2>1. ~halt /\ UNCHANGED <<somLog, dirty, out>>
    BY <1>3, Zenon DEF flushStoredSomMatches
  <2>2. CASE cur = Unset
    <3>1. \A p \in Parity : somLog[p] = {}
      BY <1>3, <2>2, Zenon DEF ReportsInv, StoreInv
    <3> QED
      BY <1>1, <1>2, <1>3, <2>1, <2>2, <3>1, Zenon DEF Flushed
  <2>3. CASE cur # Unset
    <3>1. somLog[old] = {} /\ somLog[cur % 2] = {}
      BY <1>3, <2>3 DEF ReportsInv, StoreInv
    <3>2. \A p \in Parity : somLog[p] = {}
      BY <1>1, <2>3, <3>1, TwoLogs, Zenon
    <3>3. Held(old, cur - 1) = {} /\ Held(cur % 2, cur) = {}
      BY <3>1, Zenon DEF Held
    <3> HIDE DEF first, second
    <3> QED
      BY <1>1, <1>2, <1>3, <2>1, <2>3, <3>1, <3>2, <3>3, Zenon DEF Flushed
  <2> QED
    BY <2>2, <2>3, Zenon
<1>4. CASE dirty # 0 /\ cur = Unset
  <2>1. /\ ~halt /\ UNCHANGED out
        /\ somLog' = [p \in Parity |-> {}] /\ dirty' = 0
    BY <1>4, Zenon DEF flushStoredSomMatches
  <2> QED
    BY <1>1, <1>2, <1>4, <2>1 DEF Flushed
<1>5. ASSUME cur # Unset
      PROVE  /\ first \in Seq(Match) /\ Tidy(first) /\ Elems(first) = Held(old, cur - 1)
             /\ second \in Seq(Match) /\ Tidy(second) /\ Elems(second) = Held(cur % 2, cur)
             /\ old \in Parity /\ cur % 2 \in Parity /\ old # cur % 2
             /\ \A p \in Parity : p = old \/ p = cur % 2
  <2>1. /\ cur \in Nat /\ cur - 1 \in Int /\ cur \in Int
    BY <1>1, <1>5
  <2>2. /\ old \in Parity /\ cur % 2 \in Parity /\ old # cur % 2
        /\ \A p \in Parity : p = old \/ p = cur % 2
    BY <2>1, TwoLogs, Zenon
  <2>3. Held(old, cur - 1) \subseteq Match /\ Held(cur % 2, cur) \subseteq Match
    BY <1>5, HeldRaised, Zenon
  <2> HIDE DEF old
  <2>4. first \in Seq(Match) /\ Clears(first, old, cur - 1)
    BY <1>1, <2>1, <2>2, <2>3, Cleared, Zenon
  <2>5. second \in Seq(Match) /\ Clears(second, cur % 2, cur)
    BY <1>1, <2>1, <2>2, <2>3, Cleared, Zenon
  <2> QED
    BY <2>2, <2>4, <2>5, Zenon DEF Clears
<1>6. CASE dirty # 0 /\ cur # Unset /\ to = cur + 1
  <2>1. PICK n \in Callbacks(Len(first), halt) :
                    /\ out' = out \o SubSeq(first, 1, n)
                    /\ somLog' = IF halt THEN somLog ELSE [somLog EXCEPT ![old] = {}]
                    /\ dirty' = dirty \div 2
    BY <1>6, Zenon DEF flushStoredSomMatches
  <2>2. /\ \A x \in Held(old, cur - 1) : x \in raised /\ x.id \in Som /\ Before /\ x.to = cur - 1
        /\ cur \in Nat
    BY <1>6, HeldRaised, Zenon
  <2> HIDE DEF first, second, old
  <2>3. n \in 0 .. Len(first) /\ (~halt => n = Len(first))
    BY <1>5, <1>6, <2>1 DEF Callbacks
  <2> DEFINE d == SubSeq(first, 1, n)
  <2>4. /\ d \in Seq(Match) /\ Tidy(d) /\ Elems(d) \subseteq Elems(first)
        /\ n = Len(first) => Elems(d) = Elems(first)
    BY <1>5, <1>6, <2>3, FrontOf, Zenon
  <2> HIDE DEF d
  <2>5. out' = out \o d
    BY <2>1, Zenon DEF d
  <2>6. \A x \in Elems(d) : /\ x \in raised /\ x.id \in Som /\ Before /\ cur - 1 <= x.to
                            /\ x.to = cur - 1
    BY <1>5, <1>6, <2>2, <2>4
  <2>7. /\ out' \in Seq(Match) /\ NoDuplicate' /\ SomInOrder'
        /\ Elems(out') = Elems(out) \union Elems(d)
    BY <2>4, <2>5, <2>6, BatchTold, Zenon
  <2>8. dirty' \in 0 .. 3 /\ somLog' \in [Parity -> SUBSET Som]
    BY <1>1, <1>5, <1>6, <2>1
  <2>9. ~halt => somLog'[old] = {} /\ somLog'[cur % 2] = somLog[cur % 2]
    BY <1>1, <1>5, <1>6, <2>1, Zenon
  <2>10. \A x \in Elems(d) : x.to <= cur /\ x.to <= cur - 1
    BY <2>2, <2>6
  <2>11. ~halt => Held(old, cur - 1) \subseteq Elems(out')
    BY <1>5, <1>6, <2>3, <2>4, <2>7, Zenon
  <2>12. dirty' % 2 = 0 => somLog[cur % 2] = {}
    <3>0. dirty \in 0 .. 3 /\ dirty' = dirty \div 2
      BY <1>1, <2>1, Zenon
    <3>1. dirty' % 2 = 0 => dirty \div 2 = 0
      BY <3>0
    <3> QED
      BY <1>6, <3>1, Zenon DEF ReportsInv, StoreInv
  <2> QED
    BY <1>1, <1>6, <2>6, <2>7, <2>8, <2>9, <2>10, <2>11, <2>12, Zenon DEF Flushed, old
<1>7. CASE dirty # 0 /\ cur # Unset /\ to # cur + 1
  <2>1. PICK n \in Callbacks(Len(first \o second), halt) :
                    /\ out' = out \o SubSeq(first \o second, 1, n)
                    /\ somLog' = CASE halt /\ n <= Len(first) -> somLog
                                   [] halt /\ n > Len(first)  -> [somLog EXCEPT ![old] = {}]
                                   [] OTHER                   -> [p \in Parity |-> {}]
                    /\ dirty' = 0
    BY <1>7, Zenon DEF flushStoredSomMatches
  <2>2. /\ \A x \in Held(old, cur - 1) : x \in raised /\ x.id \in Som /\ Before /\ x.to = cur - 1
        /\ \A x \in Held(cur % 2, cur) : x \in raised /\ x.id \in Som /\ Before /\ x.to = cur
        /\ cur \in Nat
    BY <1>7, HeldRaised, Zenon
  <2> HIDE DEF first, second, old
  <2> DEFINE both == first \o second
  <2>3. both \in Seq(Match) /\ Joins(both, first, second)
    BY <1>5, <1>7, Joined, Zenon
  <2> HIDE DEF both
  <2>4. Tidy(both)
    <3>1. \A x \in Elems(first) \union Elems(second) : x.to \in Int
      BY <1>5, <1>7, <2>2
    <3>2. \A x \in Elems(first), y \in Elems(second) : x.to < y.to
      BY <1>5, <1>7, <2>2
    <3> QED
      BY <1>5, <1>7, <2>3, <3>1, <3>2, TidyJoin, Zenon
  <2>5. Elems(both) = Held(old, cur - 1) \union Held(cur % 2, cur)
    BY <1>5, <1>7, <2>3, Zenon DEF Joins
  <2>6. n \in 0 .. Len(both) /\ (~halt => n = Len(both))
    BY <2>1, <2>3 DEF Callbacks, both
  <2> DEFINE d == SubSeq(both, 1, n)
  <2>7. /\ d \in Seq(Match) /\ Tidy(d) /\ Elems(d) \subseteq Elems(both)
        /\ n = Len(both) => Elems(d) = Elems(both)
    BY <2>3, <2>4, <2>6, FrontOf, Zenon
  <2> HIDE DEF d
  <2>8. out' = out \o d
    BY <2>1, Zenon DEF d, both
  <2>9. \A x \in Elems(d) : /\ x \in raised /\ x.id \in Som /\ Before /\ cur - 1 <= x.to
                            /\ x.to <= cur
    BY <2>2, <2>5, <2>7
  <2>10. /\ out' \in Seq(Match) /\ NoDuplicate' /\ SomInOrder'
         /\ Elems(out') = Elems(out) \union Elems(d)
    BY <2>7, <2>8, <2>9, BatchTold, Zenon
  <2>11. dirty' \in 0 .. 3 /\ somLog' \in [Parity -> SUBSET Som]
    BY <1>1, <1>5, <1>7, <2>1
  <2>12. ~halt => \A p \in Parity : somLog'[p] = {}
    BY <2>1, Zenon
  <2>13. ~halt => Held(old, cur - 1) \union Held(cur % 2, cur) \subseteq Elems(out')
    BY <2>5, <2>6, <2>7, <2>10, Zenon
  <2> QED
    BY <1>1, <1>7, <2>9, <2>10, <2>11, <2>12, <2>13, Zenon DEF Flushed, old
<1> QED
  BY <1>3, <1>4, <1>6, <1>7, Zenon

\* Without start-of-match reports there is nothing to flush.
LEMMA NothingStored ==
    ASSUME ReportsInv, ~Stopped, db' = db, NEW to \in Int, NEW halt \in BOOLEAN, ~hasSom, ~halt,
           UNCHANGED <<somLog, dirty, out>>
    PROVE  Flushed(to, halt)
<1>1. /\ TypeOK /\ out \in Seq(Match) /\ NoDuplicate /\ SomInOrder /\ Elems(out) \subseteq raised
      /\ dirty \in 0 .. 3 /\ somLog \in [Parity -> SUBSET Som] /\ (cur # Unset => cur \in Nat)
  BY DEF ReportsInv, TypeOK, ToldInv, Offsets
<1>2. /\ out' \in Seq(Match) /\ NoDuplicate' /\ SomInOrder' /\ Elems(out') = Elems(out)
  BY <1>1, Zenon DEF NoDuplicate, SomInOrder, Som, Elems
<1>3. \A p \in Parity : somLog[p] = {}
  BY <1>1, Zenon DEF hasSom
<1>4. cur # Unset => cur % 2 \in Parity /\ (cur + 1) % 2 \in Parity
  BY <1>1, TwoLogs, Zenon
<1>5. cur # Unset => Held((cur + 1) % 2, cur - 1) = {} /\ Held(cur % 2, cur) = {}
  BY <1>3, <1>4, Zenon DEF Held
<1> QED
  BY <1>1, <1>2, <1>3, <1>4, <1>5, Zenon DEF Flushed

----------------------------------------------------------------------------
\* Every action keeps the invariant.

\* A call starts with whatever the logs hold and no offset current.
LEMMA StartInv ==
    ASSUME ReportsInv, NEW stages \in Todos, \E i \in DOMAIN stages : stages[i] = "flush",
           NEW last \in Offsets, StartCall(stages, last),
           UNCHANGED <<db, offset, log, somLog, starts>>,
           evec' \subseteq Single, status' = {}, fired' \in [Single -> Nat], FiredInv'
    PROVE  ReportsInv'
<1> USE DEF StartCall
<1>1. out' = <<>> /\ Elems(out') = {} /\ out' \in Seq(Match) /\ DOMAIN out' = {}
  BY DEF Elems
<1>2. TypeOK'
  BY <1>1 DEF ReportsInv, TypeOK, Match, Raise, Ids, Plain, Som, Single
<1>3. CallInv'
  BY Zenon DEF ReportsInv, CallInv, None
<1>4. LogInv'
  BY <1>1, Zenon DEF LogInv
<1>5. Before' /\ cur' = Unset /\ dirty' # 0
  BY DEF Before
<1>6. StoreInv'
  BY <1>1, <1>5, Zenon DEF StoreInv
<1>7. ToldInv'
  BY <1>1, Zenon DEF ToldInv
<1>8. NoDuplicate' /\ SomInOrder'
  BY <1>1, Zenon DEF NoDuplicate, SomInOrder
<1> QED
  BY <1>2, <1>3, <1>4, <1>6, <1>7, <1>8, Zenon DEF ReportsInv

\* Nothing fired since a reset.
LEMMA FiredReset ==
    ASSUME db' = db, fired' = [id \in Single |-> 0]
    PROVE  fired' \in [Single -> Nat] /\ FiredInv'
  BY Zenon DEF FiredInv, Single

\* The calls start in a state of the invariant.
LEMMA CallsInv ==
    ASSUME ReportsInv, NEW len \in 1 .. MaxOffset,
           hs_scan_stream(len) \/ hs_scan(len)
    PROVE  ReportsInv'
<1>1. /\ offset \in 0 .. MaxOffset /\ MaxOffset \in Nat /\ evec \subseteq Single
      /\ fired \in [Single -> Nat] /\ FiredInv /\ TypeOK
  BY Keys, Zenon DEF ReportsInv, TypeOK, Offsets
<1>2. CASE hs_scan_stream(len)
  <2> DEFINE stages == (IF offset = 0 THEN <<"zero">> ELSE <<>>) \o <<"match", "flush">>
  <2>1. stages = IF offset = 0 THEN <<"zero", "match", "flush">> ELSE <<"match", "flush">>
    <3> DEFINE a == <<"zero">>  b == <<"match", "flush">>  r == <<"zero", "match", "flush">>
               T == {"zero", "match", "flush"}
    <3>1. a \in Seq(T) /\ b \in Seq(T)
      OBVIOUS
    <3>2. /\ Len(a) = 1 /\ Len(b) = 2 /\ Len(r) = 3 /\ r \in Seq(T)
          /\ a[1] = r[1] /\ b[1] = r[2] /\ b[2] = r[3]
      OBVIOUS
    <3> HIDE DEF a, b, r, T
    <3>3. a \o b \in Seq(T) /\ Joins(a \o b, a, b)
      BY <3>1, Joined, Zenon
    <3>4. Len(a \o b) = 3 /\ (a \o b)[1] = r[1] /\ (a \o b)[2] = r[2] /\ (a \o b)[3] = r[3]
      <4>1. (a \o b)[1 + 1] = b[1] /\ (a \o b)[1 + 2] = b[2] /\ (a \o b)[1] = a[1]
        BY <3>2, <3>3 DEF Joins
      <4> QED
        BY <3>2, <3>3, <4>1 DEF Joins
    <3>6. a \o b = r
      <4>1. \A i \in 1 .. Len(a \o b) : (a \o b)[i] = r[i]
        BY <3>4
      <4> QED
        BY <3>2, <3>3, <3>4, <4>1, SameSeq, Zenon
    <3>5. <<>> \o b = b
      BY <3>1
    <3> QED
      BY <3>5, <3>6, Zenon DEF a, b, r
  <2>2. stages \in Todos
    BY <2>1, Zenon DEF Todos
  <2>3. \E i \in DOMAIN stages : stages[i] = "flush"
    <3>1. CASE offset = 0
      <4>1. 3 \in DOMAIN stages /\ stages[3] = "flush"
        BY <2>1, <3>1
      <4> QED
        BY <4>1, Zenon
    <3>2. CASE offset # 0
      <4>1. 2 \in DOMAIN stages /\ stages[2] = "flush"
        BY <2>1, <3>2
      <4> QED
        BY <4>1, Zenon
    <3> QED
      BY <3>1, <3>2, Zenon
  <2>4. offset + len \in Offsets
    BY <1>1, <1>2 DEF hs_scan_stream, Offsets
  <2>5. /\ StartCall(stages, offset + len) /\ UNCHANGED <<db, offset, log, somLog, starts>>
        /\ evec' \subseteq Single /\ status' = {} /\ fired' \in [Single -> Nat]
    BY <1>1, <1>2, Zenon DEF hs_scan_stream
  <2>6. FiredInv'
    BY <1>1, <1>2, Zenon DEF hs_scan_stream, FiredInv, Single, Stopped
  <2> HIDE DEF stages
  <2> QED
    BY <2>2, <2>3, <2>4, <2>5, <2>6, StartInv, Zenon
<1>3. CASE hs_scan(len)
  <2> DEFINE stages == <<"zero", "match", "flush", "eod">>
  <2>1. stages \in Todos
    BY Zenon DEF Todos
  <2>2. 3 \in DOMAIN stages /\ stages[3] = "flush"
    OBVIOUS
  <2>3. len \in Offsets
    BY <1>1 DEF Offsets
  <2>4. /\ StartCall(stages, len) /\ UNCHANGED <<db, offset, log, somLog, starts>>
        /\ evec' \subseteq Single /\ status' = {}
    BY <1>1, <1>3, Zenon DEF hs_scan
  <2>5. fired' \in [Single -> Nat] /\ FiredInv'
    BY <1>3, FiredReset, Zenon DEF hs_scan
  <2> HIDE DEF stages
  <2> QED
    BY <2>1, <2>2, <2>3, <2>4, <2>5, StartInv, Zenon
<1> QED
  BY <1>2, <1>3, Zenon

\* The end of data is reported by a call of its own.
LEMMA EodInv ==
    ASSUME ReportsInv, report_eod_matches
    PROVE  ReportsInv'
<1>1. offset \in Offsets /\ FiredInv /\ evec \subseteq Single /\ fired \in [Single -> Nat]
  BY Zenon DEF ReportsInv, TypeOK
<1> DEFINE stages == <<"eod", "eodMatch", "flush">>
<1>2. stages \in Todos /\ 3 \in DOMAIN stages /\ stages[3] = "flush"
  BY DEF Todos
<1>3. /\ StartCall(stages, offset) /\ UNCHANGED <<db, offset, log, somLog, starts>>
      /\ evec' \subseteq Single /\ status' = {} /\ fired' \in [Single -> Nat]
  BY <1>1, Zenon DEF report_eod_matches
<1>4. FiredInv'
  BY <1>1, Zenon DEF report_eod_matches, FiredInv, Single, Stopped
<1> HIDE DEF stages
<1> QED
  BY <1>1, <1>2, <1>3, <1>4, StartInv, Zenon

\* A reset forgets the exhausted keys and keeps the logs.
LEMMA ResetInv ==
    ASSUME ReportsInv, hs_reset_stream
    PROVE  ReportsInv'
<1> USE DEF hs_reset_stream, deduper
<1>1. out' = <<>> /\ Elems(out') = {} /\ out' \in Seq(Match) /\ DOMAIN out' = {}
  BY DEF Elems
<1>2. fired' \in [Single -> Nat] /\ FiredInv'
  BY FiredReset, Zenon
<1>3. offset' \in Offsets
  BY Keys DEF ReportsInv, Offsets
<1>4. TypeOK'
  BY <1>1, <1>2, <1>3, Zenon DEF ReportsInv, TypeOK, Match, Raise, Ids, Plain, Som, Single
<1>5. CallInv'
  BY Zenon DEF ReportsInv, CallInv
<1>6. LogInv' /\ StoreInv'
  BY Zenon DEF LogInv, StoreInv
<1>7. ToldInv'
  BY <1>1, Zenon DEF ToldInv
<1>8. NoDuplicate' /\ SomInOrder'
  BY <1>1, Zenon DEF NoDuplicate, SomInOrder
<1> QED
  BY <1>2, <1>4, <1>5, <1>6, <1>7, <1>8, Zenon DEF ReportsInv

\* Nothing was told in this step.
LEMMA OutSame ==
    ASSUME NoDuplicate, SomInOrder, UNCHANGED <<db, out>>
    PROVE  NoDuplicate' /\ SomInOrder' /\ Elems(out') = Elems(out)
  BY Zenon DEF NoDuplicate, SomInOrder, Som, Elems

\* The boundary programs clear the logs before their first report.
LEMMA BoundaryInv ==
    ASSUME ReportsInv, roseRunBoundaryProgram
    PROVE  ReportsInv'
<1> USE DEF roseRunBoundaryProgram
<1>1. NoDuplicate' /\ SomInOrder' /\ Elems(out') = Elems(out)
  BY OutSame, Zenon DEF ReportsInv
<1>2. TypeOK'
  BY DEF ReportsInv, TypeOK, Match, Raise, Ids, Plain, Som, Single
<1>3. CallInv' /\ FiredInv'
  BY Zenon DEF ReportsInv, CallInv, FiredInv, Pending, Before, Stopped, Som, Plain, Single, Running
<1>4. LogInv'
  BY <1>1, Zenon DEF ReportsInv, LogInv, Stopped, Plain, At
<1>5. StoreInv'
  BY <1>1, Zenon DEF ReportsInv, StoreInv, Stopped, Before, Som
<1>6. ToldInv'
  BY <1>1, Zenon DEF ReportsInv, ToldInv, Told, Stopped, Pending
<1> QED
  BY <1>1, <1>2, <1>3, <1>4, <1>5, <1>6, Zenon DEF ReportsInv

\* An engine raises a report: until it is processed, it is pending.
LEMMA RaiseInv ==
    ASSUME ReportsInv, NEW id \in Ids, NEW from \in Offsets, NEW at \in Offsets,
           NEW adjust \in {0, -1}, RaiseReport(id, from, at, adjust)
    PROVE  ReportsInv'
<1> DEFINE m == [id |-> id, from |-> from, to |-> at + adjust]
<1> USE DEF RaiseReport, deduper
<1>1. NoDuplicate' /\ SomInOrder' /\ Elems(out') = Elems(out)
  BY OutSame, Zenon DEF ReportsInv
<1>2. /\ now' = [id |-> id, from |-> from, at |-> at, adjust |-> adjust]
      /\ raised' = raised \union {m} /\ now = None /\ status = {}
  BY Zenon DEF Running
<1>3. m \in Match
  <2>1. at + adjust \in Offsets
    BY Keys DEF ReportsInv, Offsets
  <2> QED
    BY <2>1, Zenon DEF Match
<1>4. now' \in Raise
  <2> HIDE DEF RaiseReport
  <2>1. [id |-> id, from |-> from, at |-> at, adjust |-> adjust] \in Raise
    BY Zenon DEF Raise
  <2> QED
    BY <1>2, <2>1, Zenon
<1>5. Pending' = m /\ now'.id = id /\ now'.at = at
  BY <1>2 DEF Pending
<1>6. TypeOK'
  <2>1. raised' \subseteq Match
    BY <1>2, <1>3, Zenon DEF ReportsInv, TypeOK
  <2> QED
    BY <1>4, <2>1, Zenon DEF ReportsInv, TypeOK, Match, Raise, Ids, Plain, Som, Single
<1>7. id \in Som => Before
  <2> SUFFICES ASSUME id \in Som PROVE Before
    BY Zenon
  <2>1. id \notin Plain
    BY Keys, Zenon DEF ReportsInv
  <2>2. Head(todo) \notin {"zero", "eod", "flush"} /\ todo # <<>>
    BY <2>1, Zenon DEF RaiseAt
  <2>3. todo \in Todos
    BY Zenon DEF ReportsInv, CallInv
  <2>4. todo \in {<<"match", "flush">>, <<"eodMatch", "flush">>, <<"match", "flush", "eod">>}
    BY <2>2, <2>3 DEF Todos
  <2>5. 2 \in DOMAIN todo /\ todo[2] = "flush"
    BY <2>4
  <2> QED
    BY <2>5, Zenon DEF Before
<1>8. CallInv'
  <2>1. \A k \in raised' : k.id \in Plain' => k.from = 0
    BY <1>2 DEF ReportsInv, CallInv, Plain
  <2>2. Pending' \in raised'
    BY <1>2, <1>5, Zenon
  <2>3. now'.id \in Som' => Before'
    BY <1>5, <1>7, Zenon DEF Som, Before
  <2>4. cur' <= now'.at /\ now'.id \notin evec'
    BY <1>5, Zenon DEF ReportsInv, TypeOK, Offsets, Unset
  <2> HIDE DEF m
  <2> QED
    BY <1>2, <2>1, <2>2, <2>3, <2>4, ZenonT(30) DEF ReportsInv, CallInv, Som
<1>9. FiredInv'
  BY Zenon DEF ReportsInv, FiredInv, Stopped, Single
<1>10. LogInv'
  BY <1>1, Zenon DEF ReportsInv, LogInv, Stopped, Plain, At
<1>11. StoreInv'
  <2> HIDE DEF m
  <2>1. raised \subseteq raised' /\ UNCHANGED <<todo, status, cur, dirty, somLog, starts, db>>
    BY <1>2, Zenon
  <2> QED
    BY <1>1, <2>1, ZenonT(30) DEF ReportsInv, StoreInv, Stopped, Before, Som, At
<1>12. ToldInv'
  <2> SUFFICES ASSUME ~Stopped', NEW k \in raised'
               PROVE  /\ Elems(out') \subseteq raised'
                      /\ \/ Told(k)'
                         \/ todo' # <<>> /\ cur' # Unset /\ Stored(k)'
                         \/ now' # None /\ k = Pending'
    BY ZenonT(30) DEF ToldInv
  <2>1. Elems(out') \subseteq raised'
    BY <1>1, <1>2, Zenon DEF ReportsInv, ToldInv, Stopped
  <2>2. CASE k = m
    <3> HIDE DEF RaiseReport, deduper, m
    <3>1. id # None.id
      <4>1. id \in Nat
        BY Keys, Zenon DEF ReportsInv
      <4> QED
        BY <4>1 DEF None
    <3>2. now' # None
      BY <1>5, <3>1, Zenon
    <3> QED
      BY <1>5, <2>1, <2>2, <3>2, Zenon
  <2>3. CASE k \in raised
    <3>1. Told(k) \/ (todo # <<>> /\ cur # Unset /\ Stored(k))
      BY <1>2, <2>3, Zenon DEF ReportsInv, ToldInv, Stopped
    <3> HIDE DEF m
    <3> QED
      BY <1>1, <2>1, <3>1, Zenon DEF Told, Stored, At
  <2> QED
    BY <1>2, <2>2, <2>3, Zenon
<1> QED
  BY <1>1, <1>6, <1>8, <1>9, <1>10, <1>11, <1>12, Zenon DEF ReportsInv

\* What is known of the report being processed
LEMMA Processed ==
    ASSUME ReportsInv, now # None
    PROVE  /\ todo # <<>> /\ status = {} /\ ~Stopped /\ TypeOK
           /\ now \in Raise /\ now.at \in Nat /\ now.at <= MaxOffset /\ now.id \in Ids
           /\ Pending \in raised /\ Pending \in Match
           /\ now.adjust \in {0, -1} /\ now.at + now.adjust \in Nat
           /\ cur \in Int /\ cur <= now.at /\ (cur # Unset => cur \in Nat)
<1>1. now \in Raise /\ cur \in {Unset} \union Offsets /\ raised \subseteq Match
  BY Zenon DEF ReportsInv, TypeOK
<1>2. todo # <<>> /\ status = {} /\ Pending \in raised /\ cur <= now.at /\ TypeOK
  BY Zenon DEF ReportsInv, CallInv
<1>3. now.at \in Offsets /\ now.id \in Ids /\ now.adjust \in {0, -1}
  BY <1>1, Zenon DEF Raise
<1>4. Pending \in Match /\ Pending.to = now.at + now.adjust
  BY <1>1, <1>2, Zenon DEF Pending
<1>5. now.at + now.adjust \in Offsets
  BY <1>4, Zenon DEF Match
<1> QED
  BY <1>1, <1>2, <1>3, <1>4, <1>5, Keys DEF Offsets, Unset, Stopped

\* A new offset becomes current: what can no longer change is told.
LEMMA CatchupInv ==
    ASSUME LogsListed, ReportsInv, NEW halt \in BOOLEAN, DedupeCatchup(halt)
    PROVE  ReportsInv'
<1> DEFINE at == now.at
<1> USE DEF DedupeCatchup
<1>1. now # None /\ UNCHANGED <<db, offset, evec, starts, todo, end, raised, fired>>
  BY Zenon
<1>2. /\ todo # <<>> /\ status = {} /\ ~Stopped /\ TypeOK
      /\ at \in Nat /\ at <= MaxOffset /\ cur \in Int /\ cur < at /\ (cur # Unset => cur \in Nat)
  BY <1>1, Processed
<1>3. Flushed(at, halt)
  BY <1>1, <1>2, Flushing, NothingStored
<1>4. /\ out' \in Seq(Match) /\ NoDuplicate' /\ SomInOrder'
      /\ Elems(out) \subseteq Elems(out') /\ Elems(out') \subseteq raised
      /\ dirty' \in 0 .. 3 /\ somLog' \in [Parity -> SUBSET Som]
      /\ \A x \in Elems(out') \ Elems(out) :
            x.id \in Som /\ cur # Unset /\ x.to <= cur /\ (at = cur + 1 => x.to <= cur - 1)
  BY <1>3, Zenon DEF Flushed
<1>5. log' \in [Parity -> SUBSET Plain]
  BY <1>2, Zenon DEF TypeOK, ClearLogs
<1>6. TypeOK'
  <2>1. now' = None \/ now' \in Raise
    BY <1>2, Zenon DEF TypeOK
  <2>2. cur' \in {Unset} \union Offsets /\ status' \subseteq {"TERMINATED", "EXHAUSTED"}
    BY <1>2 DEF TypeOK, Offsets
  <2> QED
    BY <1>1, <1>2, <1>4, <1>5, <2>1, <2>2, Zenon DEF TypeOK, Match, Raise, Ids, Plain, Som, Single
<1>7. FiredInv'
  BY <1>1, <1>2, Zenon DEF ReportsInv, FiredInv, Stopped, Single
<1>8. CASE halt
  <2>1. Stopped' /\ now' = None /\ "EXHAUSTED" \notin status'
    BY <1>2, <1>8 DEF Stopped
  <2>2. CallInv'
    BY <1>1, <2>1, Zenon DEF ReportsInv, CallInv, Plain
  <2> QED
    BY <1>4, <1>6, <1>7, <2>1, <2>2, Zenon DEF ReportsInv, LogInv, StoreInv, ToldInv
<1>9. CASE ~halt
  <2>1. cur' = at /\ UNCHANGED <<status, now>> /\ at # Unset /\ log' = ClearLogs(at)
    BY <1>2, <1>9 DEF Unset
  <2>2. CallInv'
    <3>1. cur' <= now'.at
      BY <1>2, <2>1
    <3> QED
      BY <1>1, <2>1, <3>1, Zenon DEF ReportsInv, CallInv, Plain, Som, Pending, Before
  <2>3. ~Stopped' /\ todo' # <<>> /\ cur' # Unset
    BY <1>1, <1>2, <2>1, Zenon DEF Stopped
  <2> HIDE DEF at
  <2>4. at % 2 \in Parity /\ \A p \in Parity : p = at % 2 \/ p = (at + 1) % 2
    BY <1>2, TwoLogs, Zenon
  <2>5. cur # Unset /\ at = cur + 1 =>
           /\ at % 2 = (cur + 1) % 2 /\ (at + 1) % 2 = cur % 2 /\ at % 2 # cur % 2
           /\ cur % 2 \in Parity /\ At(cur % 2) = cur /\ At((cur + 1) % 2) = cur - 1
    BY <1>2, TwoLogs DEF At
  <2>6. \A p \in Parity : At(p)' = IF p = at % 2 THEN at ELSE at - 1
    BY <2>1, Zenon DEF At
  <2>7. \A x \in Elems(out') : x.to \in Int /\ (x \in Elems(out) \/ x.id \in Som)
    <3>1. \A x \in Elems(out') : x \in Match
      BY <1>4, ElemsIn, Zenon
    <3> QED
      BY <1>4, <3>1 DEF Match, Offsets
  <2>8. LogInv'
    <3>1. ASSUME NEW x \in Elems(out'), x.id \in Plain
          PROVE  x.to <= at /\ (at - 1 <= x.to => x.id \in log'[x.to % 2])
      <4>1. x \in Elems(out)
        BY <1>2, <2>7, <3>1, Keys, Zenon
      <4>2. cur # Unset
        BY <1>2, <4>1 DEF ReportsInv, LogInv, Elems
      <4>3. x.to <= cur /\ (cur - 1 <= x.to => x.id \in log[x.to % 2]) /\ x.to \in Int
        BY <1>2, <2>7, <3>1, <4>1, Zenon DEF ReportsInv, LogInv
      <4>4. ASSUME at - 1 <= x.to
            PROVE  x.id \in log'[x.to % 2]
        <5>1. x.to = cur /\ at = cur + 1
          BY <1>2, <4>3, <4>4
        <5>2. log'[cur % 2] = log[cur % 2]
          BY <1>2, <2>1, <2>5, <4>2, <5>1, Zenon DEF ClearLogs, TypeOK
        <5>3. cur - 1 <= x.to
          BY <1>2, <5>1
        <5> QED
          BY <4>3, <5>1, <5>2, <5>3, Zenon
      <4>5. x.to <= at
        BY <1>2, <4>3, SMTT(30)
      <4> QED
        BY <4>4, <4>5, Zenon
    <3>2. ASSUME NEW p \in Parity, At(p)' >= 0, NEW k \in log'[p]
          PROVE  [id |-> k, from |-> 0, to |-> At(p)'] \in Elems(out')
      <4>1. at = cur + 1 /\ p # at % 2
        BY <1>2, <2>1, <3>2, Zenon DEF ClearLogs, TypeOK
      <4>2. p = (at + 1) % 2 /\ At(p)' = at - 1
        BY <2>4, <2>6, <4>1, Zenon
      <4>3. cur # Unset
        BY <1>2, <3>2, <4>1, <4>2 DEF Unset
      <4>4. p = cur % 2 /\ At(p) = cur /\ At(p)' = cur /\ At(p) >= 0
        BY <1>2, <2>5, <4>1, <4>2, <4>3
      <4>5. k \in log[p]
        BY <1>2, <2>1, <2>5, <3>2, <4>1, <4>3, <4>4, Zenon DEF ClearLogs, TypeOK
      <4>6. [id |-> k, from |-> 0, to |-> At(p)] \in Elems(out)
        BY <1>2, <4>3, <4>4, <4>5, Zenon DEF ReportsInv, LogInv
      <4> QED
        BY <1>4, <4>4, <4>6, Zenon
    <3> QED
      BY <1>1, <2>1, <2>3, <3>1, <3>2, Zenon DEF LogInv, Plain
  <2>9. /\ cur = Unset => out' = out /\ \A p \in Parity : somLog'[p] = {}
        /\ cur # Unset /\ at = cur + 1 =>
              /\ Held((cur + 1) % 2, cur - 1) \subseteq Elems(out')
              /\ dirty' % 2 = 0 => somLog[cur % 2] = {}
              /\ somLog'[at % 2] = {} /\ somLog'[(at + 1) % 2] = somLog[(at + 1) % 2]
        /\ cur # Unset /\ at # cur + 1 =>
              /\ Held((cur + 1) % 2, cur - 1) \subseteq Elems(out')
              /\ Held(cur % 2, cur) \subseteq Elems(out')
              /\ \A p \in Parity : somLog'[p] = {}
    BY <1>3, <1>9, <2>5, ZenonT(30) DEF Flushed
  <2>10. StoreInv'
    <3>1. /\ dirty' % 2 = 0 => somLog'[(at + 1) % 2] = {}
          /\ dirty' \div 2 = 0 => somLog'[at % 2] = {}
      <4>1. (at + 1) % 2 \in Parity
        BY <1>2, TwoLogs, Zenon
      <4> QED
        BY <2>4, <2>5, <2>9, <4>1, Zenon
    <3>2. ASSUME NEW p \in Parity, NEW k \in somLog'[p]
          PROVE  [id |-> k, from |-> starts[p][k], to |-> At(p)'] \in raised /\ Before
      <4>1. cur # Unset /\ at = cur + 1 /\ p # at % 2
        BY <2>9, <3>2, ZenonT(30)
      <4>2. p = (at + 1) % 2 /\ p = cur % 2 /\ At(p) = cur /\ At(p)' = cur /\ k \in somLog[p]
        <5>1. p = (at + 1) % 2 /\ k \in somLog[p]
          BY <2>4, <2>9, <3>2, <4>1, Zenon
        <5>2. p = cur % 2 /\ At(p) = cur
          BY <1>2, <2>5, <4>1, <5>1, Zenon
        <5>3. At(p)' = at - 1 /\ cur \in Int /\ at = cur + 1
          BY <1>2, <2>6, <4>1, <5>1, Zenon
        <5> QED
          BY <5>1, <5>2, <5>3
      <4>3. [id |-> k, from |-> starts[p][k], to |-> At(p)] \in raised /\ Before
        BY <1>2, <4>1, <4>2, Zenon DEF ReportsInv, StoreInv
      <4> QED
        BY <4>2, <4>3, ZenonT(30)
    <3>3. ASSUME Before, NEW x \in Elems(out'), x.id \in Som
          PROVE  x.to <= at - 2
      <4>1. CASE x \in Elems(out)
        <5>1. x.to <= cur - 2 /\ x.to \in Int
          BY <1>2, <2>7, <3>3, <4>1, Zenon DEF ReportsInv, StoreInv
        <5> QED
          <6>1. cur \in Int /\ at \in Nat /\ cur < at
            BY <1>2, Zenon
          <6>2. \A n \in Int : n <= cur - 2 => n <= at - 2
            BY <6>1
          <6> QED
            BY <5>1, <6>2, Zenon
      <4>2. CASE x \notin Elems(out)
        <5>1. cur # Unset /\ x.to <= cur /\ (at = cur + 1 => x.to <= cur - 1) /\ x.to \in Int
          BY <1>4, <2>7, <3>3, <4>2, Zenon
        <5> QED
          BY <1>2, <5>1
      <4> QED
        BY <4>1, <4>2, Zenon
    <3>4. Before' <=> Before
      BY <1>1, Zenon DEF Before
    <3> QED
      BY <1>1, <2>1, <2>3, <3>1, <3>2, <3>3, <3>4, Zenon DEF StoreInv, Som
  <2>11. ToldInv'
    <3> SUFFICES ASSUME NEW m \in raised
                 PROVE  \/ Told(m)'
                        \/ Stored(m)'
                        \/ now # None /\ m = Pending
      BY <1>1, <1>4, <2>1, <2>3, Zenon DEF ToldInv, Pending
    <3>1. Told(m) => Told(m)'
      BY <1>4, Zenon DEF Told
    <3>2. ASSUME cur # Unset, Stored(m)
          PROVE  Told(m)' \/ Stored(m)'
      <4>1. PICK p \in Parity : At(p) = m.to /\ m.id \in somLog[p] /\ starts[p][m.id] <= m.from
        BY <3>2, Zenon DEF Stored
      <4> DEFINE x == [id |-> m.id, from |-> starts[p][m.id], to |-> m.to]
      <4>2. /\ p = cur % 2 \/ p = (cur + 1) % 2
            /\ At(cur % 2) = cur /\ At((cur + 1) % 2) = cur - 1
        BY <1>2, <3>2, TwoLogs, Zenon DEF At
      <4>3. x \in Held(p, At(p))
        BY <4>1, Zenon DEF Held
      <4>4. x \in Elems(out') => Told(m)'
        BY <4>1, Zenon DEF Told
      <4>5. CASE at = cur + 1 /\ p = cur % 2
        <5>1. p = (at + 1) % 2 /\ At(p)' = At(p) /\ somLog'[p] = somLog[p]
          BY <1>2, <2>5, <2>6, <2>9, <3>2, <4>2, <4>5
        <5> QED
          BY <1>1, <4>1, <5>1, ZenonT(30) DEF Stored
      <4>6. CASE ~(at = cur + 1 /\ p = cur % 2)
        <5>1. Held(p, At(p)) \subseteq Elems(out')
          BY <2>9, <3>2, <4>2, <4>6, Zenon
        <5> QED
          BY <4>3, <4>4, <5>1, ZenonT(30)
      <4> QED
        BY <4>5, <4>6, Zenon
    <3> QED
      BY <1>2, <3>1, <3>2, Zenon DEF ReportsInv, ToldInv
  <2> QED
    BY <1>4, <1>6, <1>7, <2>2, <2>8, <2>10, <2>11, Zenon DEF ReportsInv
<1> QED
  BY <1>8, <1>9, Zenon

\* The report being processed belongs to one of the two logs.
LEMMA LogOf ==
    ASSUME ReportsInv, now # None, now.at = cur
    PROVE  /\ cur \in Nat /\ cur # Unset /\ (now.at + now.adjust) % 2 \in Parity
           /\ At((now.at + now.adjust) % 2) = now.at + now.adjust
           /\ cur - 1 <= now.at + now.adjust /\ now.at + now.adjust <= cur
           /\ now.adjust = 0 => (now.at + now.adjust) % 2 = cur % 2
           /\ now.adjust = -1 => (now.at + now.adjust) % 2 = (cur + 1) % 2
<1>1. cur \in Nat /\ now.adjust \in {0, -1} /\ cur + now.adjust \in Nat
  BY Processed, Zenon
<1>2. CASE now.adjust = 0
  <2>1. now.at + now.adjust = cur
    BY <1>1, <1>2
  <2> QED
    BY <1>1, <1>2, <2>1, TwoLogs DEF At, Unset
<1>3. CASE now.adjust = -1
  <2>1. now.at + now.adjust = cur - 1 /\ cur >= 1
    BY <1>1, <1>3
  <2>2. (cur - 1) % 2 = (cur + 1) % 2 /\ (cur + 1) % 2 # cur % 2 /\ (cur + 1) % 2 \in Parity
    BY <1>1, <2>1, TwoLogs, Zenon
  <2> QED
    BY <1>1, <1>3, <2>1, <2>2 DEF At, Unset
<1> QED
  BY <1>1, <1>2, <1>3, Zenon

\* A report without start of match is told unless its log says it was.
LEMMA ReportInv ==
    ASSUME ReportsInv, NEW halt \in BOOLEAN, DedupeReport(halt)
    PROVE  ReportsInv'
<1> DEFINE to == now.at + now.adjust
           dupe == now.id \in log[to % 2]
           x == [id |-> now.id, from |-> 0, to |-> to]
<1>1. /\ now # None /\ now.at = cur /\ now.id \in Plain /\ (halt => ~dupe) /\ now' = None
      /\ log' = [log EXCEPT ![to % 2] = @ \union {now.id}]
      /\ out' = IF dupe THEN out ELSE Append(out, x)
      /\ UNCHANGED <<db, offset, cur, somLog, starts, dirty, todo, end, raised>>
  BY Zenon DEF DedupeReport
<1>2. /\ todo # <<>> /\ status = {} /\ ~Stopped /\ TypeOK /\ now.id \in Ids
      /\ Pending \in raised /\ Pending \in Match
  BY <1>1, Processed, Zenon
<1>3. /\ cur \in Nat /\ cur # Unset /\ to % 2 \in Parity /\ At(to % 2) = to
      /\ cur - 1 <= to /\ to <= cur /\ to \in Int
  BY <1>1, LogOf, Processed
<1>4. now.id \notin evec /\ now.id \notin Som
  BY <1>1, <1>2, Keys, Zenon DEF ReportsInv, CallInv
<1>5. x \in raised /\ x \in Match /\ x = Pending
  <2>1. Pending.id = now.id /\ Pending.from = now.from
    BY Zenon DEF Pending
  <2>2. now.from = 0
    BY <1>1, <1>2, <2>1, Zenon DEF ReportsInv, CallInv
  <2>3. Pending = x
    BY <2>2, Zenon DEF Pending
  <2> QED
    BY <1>2, <2>3, Zenon
<1>6. /\ evec' = IF ~dupe /\ ~halt /\ now.id \in Single THEN evec \union {now.id} ELSE evec
      /\ fired' = IF dupe \/ now.id \notin Single THEN fired
                  ELSE [fired EXCEPT ![now.id] = @ + 1]
  BY Zenon DEF DedupeReport
<1>7. /\ Stopped' <=> halt
      /\ "EXHAUSTED" \in status' => Som = {}
      /\ status' \subseteq {"TERMINATED", "EXHAUSTED"}
  BY <1>2, Zenon DEF DedupeReport, Stopped, canExhaust
<1>8. FiredInv' /\ fired' \in [Single -> Nat] /\ evec' \subseteq Single
  <2>1. fired \in [Single -> Nat] /\ evec \subseteq Single /\ FiredInv
    BY Zenon DEF ReportsInv, TypeOK
  <2>2. now.id \in Single => fired[now.id] = 0
    BY <1>2, <1>4, <2>1, Zenon DEF FiredInv
  <2>3. \A k \in Single : fired[k] = 0 \/ (fired[k] = 1 /\ k \in evec)
    BY <1>2, <2>1, Zenon DEF FiredInv
  <2>4. \A k \in Single : fired'[k] = 0 \/ (fired'[k] = 1 /\ (k \in evec' \/ Stopped'))
    BY <1>6, <1>7, <2>1, <2>2, <2>3
  <2>5. Single' = Single
    BY <1>1, Zenon DEF Single
  <2>6. fired' \in [Single -> Nat] /\ evec' \subseteq Single
    BY <1>6, <2>1
  <2> QED
    BY <2>4, <2>5, <2>6, Zenon DEF FiredInv
<1>9. log' \in [Parity -> SUBSET Plain]
  BY <1>1, <1>2, <1>3, Zenon DEF TypeOK
<1>10. CallInv'
  BY <1>1, <1>7, Zenon DEF ReportsInv, CallInv, Plain, Som
<1> HIDE DEF x, dupe, to
<1>11. /\ out' \in Seq(Match) /\ NoDuplicate' /\ SomInOrder'
       /\ Elems(out') = IF dupe THEN Elems(out) ELSE Elems(out) \union {x}
  <2>0. out \in Seq(Match) /\ NoDuplicate /\ SomInOrder
    BY Zenon DEF ReportsInv, TypeOK
  <2>1. CASE dupe
    BY <1>1, <2>0, <2>1, OutSame, Zenon
  <2>2. CASE ~dupe
    <3>1. out' = Append(out, x)
      BY <1>1, <2>2, Zenon
    <3> DEFINE n == Len(out)  r == out'
    <3>2. /\ r \in Seq(Match) /\ n \in Nat /\ DOMAIN out = 1 .. n /\ DOMAIN r = 1 .. (n + 1)
          /\ r[n + 1] = x /\ \A i \in 1 .. n : r[i] = out[i]
      BY <1>5, <2>0, <3>1
    <3>3. x.id = now.id /\ x.to = to
      BY Zenon DEF x
    <3>4. \A i \in 1 .. n : ~(out[i].id = x.id /\ out[i].to = x.to)
      <4> SUFFICES ASSUME NEW i \in 1 .. n, out[i].id = now.id, out[i].to = to
                   PROVE  FALSE
        BY <3>3, Zenon
      <4>1. out[i] \in Elems(out)
        BY <3>2, Zenon DEF Elems
      <4>2. out[i].id \in log[out[i].to % 2]
        BY <1>1, <1>2, <1>3, <4>1, Zenon DEF ReportsInv, LogInv
      <4> QED
        BY <2>2, <4>2, Zenon DEF dupe
    <3> HIDE DEF n, r
    <3>5. \A i \in 1 .. (n + 1) : i \in 1 .. n \/ i = n + 1
      BY <3>2
    <3>6. \A i \in 1 .. n : i # n + 1 /\ i < n + 1
      BY <3>2
    <3>7. \A i, j \in 1 .. (n + 1) : r[i].id = r[j].id /\ r[i].to = r[j].to => i = j
      BY <2>0, <3>2, <3>4, <3>5, Zenon DEF NoDuplicate
    <3>8. \A i, j \in 1 .. (n + 1) :
             i < j /\ r[i].id \in Som /\ r[j].id \in Som => r[i].to <= r[j].to
      BY <1>4, <2>0, <3>2, <3>3, <3>5, Zenon DEF SomInOrder
    <3>9. Elems(r) = Elems(out) \union {x}
      BY <3>2, <3>5 DEF Elems
    <3>10. NoDuplicate' /\ SomInOrder'
      BY <1>1, <3>2, <3>7, <3>8, ZenonT(30) DEF NoDuplicate, SomInOrder, Som, r
    <3> QED
      BY <2>2, <3>2, <3>9, <3>10, Zenon DEF r
  <2> QED
    BY <2>1, <2>2, Zenon
<1>12. TypeOK'
  BY <1>1, <1>2, <1>7, <1>8, <1>9, <1>11, Zenon DEF TypeOK, Match, Raise, Ids, Plain, Som, Single
<1>13. x \in Elems(out')
  <2>1. CASE dupe
    <3>1. [id |-> now.id, from |-> 0, to |-> At(to % 2)] \in Elems(out)
      <4>1. At(to % 2) >= 0
        BY <1>1, <1>3, Processed DEF to
      <4> QED
        BY <1>2, <1>3, <2>1, <4>1, Zenon DEF ReportsInv, LogInv, dupe
    <3> QED
      BY <1>3, <1>11, <2>1, <3>1, Zenon DEF x
  <2>2. CASE ~dupe
    BY <1>11, <2>2, Zenon
  <2> QED
    BY <2>1, <2>2, Zenon
<1>14. x.id = now.id /\ x.to = to /\ x.from = 0
  BY Zenon DEF x
<1>15. Elems(out) \subseteq Elems(out') /\ Elems(out') \subseteq Elems(out) \union {x}
  BY <1>11, Zenon
<1>16. \A p \in Parity : At(p)' = At(p)
  BY <1>1, Zenon DEF At
<1>17. ASSUME ~halt
       PROVE  LogInv'
  <2>1. ASSUME NEW y \in Elems(out'), y.id \in Plain
        PROVE  y.to <= cur /\ (cur - 1 <= y.to => y.id \in log'[y.to % 2])
    <3>1. CASE y = x
      BY <1>1, <1>2, <1>3, <1>14, <3>1, ZenonT(30) DEF TypeOK
    <3>2. CASE y \in Elems(out)
      <4>1. y.to <= cur /\ (cur - 1 <= y.to => y.id \in log[y.to % 2])
        BY <1>2, <2>1, <3>2, Zenon DEF ReportsInv, LogInv
      <4>2. y.to % 2 \in Parity
        <5>1. y \in Match
          BY <1>2, <3>2, ElemsIn, Zenon DEF TypeOK
        <5>2. y.to \in Nat
          BY <5>1 DEF Match, Offsets
        <5> QED
          BY <5>2 DEF Parity
      <4>3. log[y.to % 2] \subseteq log'[y.to % 2]
        BY <1>1, <1>2, <1>3, <4>2, Zenon DEF TypeOK
      <4> QED
        BY <4>1, <4>3, Zenon
    <3> QED
      BY <1>15, <2>1, <3>1, <3>2, Zenon
  <2>2. ASSUME NEW p \in Parity, At(p) >= 0, NEW k \in log'[p]
        PROVE  [id |-> k, from |-> 0, to |-> At(p)] \in Elems(out')
    <3>1. k \in log[p] \/ (p = to % 2 /\ k = now.id)
      BY <1>1, <1>2, <1>3, <2>2, Zenon DEF TypeOK
    <3>2. CASE k \in log[p]
      <4>1. [id |-> k, from |-> 0, to |-> At(p)] \in Elems(out)
        BY <1>2, <1>3, <2>2, <3>2, Zenon DEF ReportsInv, LogInv
      <4> QED
        BY <1>15, <4>1, Zenon
    <3>3. CASE p = to % 2 /\ k = now.id
      BY <1>3, <1>13, <3>3, Zenon DEF x
    <3> QED
      BY <3>1, <3>2, <3>3, Zenon
  <2>3. cur' = cur /\ Plain' = Plain /\ cur # Unset
    BY <1>1, <1>3, Zenon DEF Plain
  <2> QED
    BY <1>16, <2>1, <2>2, <2>3, Zenon DEF LogInv
<1>18. ASSUME ~halt
       PROVE  StoreInv'
  <2>1. \A y \in Elems(out') : y.id \in Som => y \in Elems(out)
    BY <1>4, <1>14, <1>15, Zenon
  <2>2. /\ UNCHANGED <<cur, dirty, somLog, starts, todo, raised>> /\ Som' = Som
        /\ Before' <=> Before
    BY <1>1, Zenon DEF Som, Before
  <2> QED
    BY <1>2, <1>16, <2>1, <2>2, ZenonT(30) DEF ReportsInv, StoreInv
<1>19. ASSUME ~halt
       PROVE  ToldInv'
  <2>1. Elems(out') \subseteq raised
    BY <1>2, <1>5, <1>15, Zenon DEF ReportsInv, ToldInv
  <2>2. ASSUME NEW m \in raised
        PROVE  Told(m)' \/ (todo # <<>> /\ cur # Unset /\ Stored(m)')
    <3>1. CASE Told(m)
      BY <1>15, <3>1, Zenon DEF Told
    <3>2. CASE todo # <<>> /\ cur # Unset /\ Stored(m)
      BY <1>1, <1>16, <3>2, Zenon DEF Stored
    <3>3. CASE m = Pending
      <4>1. m = x
        BY <1>5, <3>3, Zenon
      <4>2. 0 <= 0
        BY SMTT(30)
      <4> QED
        BY <1>13, <1>14, <4>1, <4>2, Zenon DEF Told
    <3> QED
      BY <1>2, <3>1, <3>2, <3>3, Zenon DEF ReportsInv, ToldInv
  <2> QED
    BY <1>1, <2>1, <2>2, Zenon DEF ToldInv
<1>20. halt => LogInv' /\ StoreInv' /\ ToldInv'
  BY <1>7, Zenon DEF LogInv, StoreInv, ToldInv
<1> QED
  BY <1>8, <1>10, <1>11, <1>12, <1>17, <1>18, <1>19, <1>20, Zenon DEF ReportsInv

\* The smaller of two starts
LEMMA MinPair ==
    ASSUME NEW a \in Nat, NEW b \in Nat
    PROVE  Min({a, b}) \in {a, b} /\ Min({a, b}) <= a /\ Min({a, b}) <= b
<1>1. \E y \in {a, b} : \A z \in {a, b} : y <= z
  <2>1. CASE a <= b
    BY <2>1
  <2>2. CASE b <= a
    BY <2>2
  <2> QED
    BY <2>1, <2>2
<1>2. Min({a, b}) \in {a, b} /\ \A z \in {a, b} : Min({a, b}) <= z
  BY <1>1, Zenon DEF Min
<1> QED
  BY <1>2, Zenon

\* A start-of-match report is stored with the leftmost of its starts.
LEMMA StoreSomInv ==
    ASSUME ReportsInv, StoreSom
    PROVE  ReportsInv'
<1> DEFINE to == now.at + now.adjust
           p == to % 2
           s == IF now.id \in somLog[p] THEN Min({starts[p][now.id], now.from}) ELSE now.from
<1>1. /\ now # None /\ now.at = cur /\ now.id \in Som /\ now' = None
      /\ somLog' = [somLog EXCEPT ![p] = @ \union {now.id}]
      /\ dirty' = IF now.adjust = 0 THEN 2 + (dirty % 2) ELSE 1 + 2 * (dirty \div 2)
      /\ UNCHANGED <<db, offset, evec, status, cur, log, todo, end, raised, out, fired>>
  BY Zenon DEF StoreSom
<1>2. /\ todo # <<>> /\ status = {} /\ ~Stopped /\ TypeOK /\ now \in Raise
      /\ Pending \in raised /\ Pending \in Match /\ now.adjust \in {0, -1}
  BY <1>1, Processed, Zenon
<1>3. /\ cur \in Nat /\ cur # Unset /\ p \in Parity /\ At(p) = to
      /\ now.adjust = 0 => p = cur % 2
      /\ now.adjust = -1 => p = (cur + 1) % 2
  BY <1>1, LogOf, Zenon
<1>4. starts' = [starts EXCEPT ![p][now.id] = s]
  BY Zenon DEF StoreSom
<1>5. /\ now.from \in Offsets /\ starts \in [Parity -> [Som -> Offsets]]
      /\ somLog \in [Parity -> SUBSET Som] /\ dirty \in 0 .. 3 /\ Offsets \subseteq Nat
  BY <1>2 DEF TypeOK, Raise, Offsets
<1>6. /\ s \in Offsets /\ s <= now.from
      /\ now.id \in somLog[p] => s <= starts[p][now.id]
      /\ s = now.from \/ (now.id \in somLog[p] /\ s = starts[p][now.id])
  <2>1. CASE now.id \in somLog[p]
    <3> DEFINE a == starts[p][now.id]  b == now.from
    <3>1. a \in Offsets /\ b \in Offsets /\ a \in Nat /\ b \in Nat
      BY <1>1, <1>3, <1>5, Zenon
    <3>2. s = Min({a, b})
      BY <2>1, Zenon
    <3> HIDE DEF a, b, s
    <3>3. Min({a, b}) \in {a, b} /\ Min({a, b}) <= a /\ Min({a, b}) <= b
      BY <3>1, MinPair, Zenon
    <3>4. s \in {a, b} /\ s <= a /\ s <= b
      BY <3>2, <3>3, Zenon
    <3> QED
      BY <2>1, <3>1, <3>4, ZenonT(30) DEF a, b
  <2>2. CASE now.id \notin somLog[p]
    <3>1. s = now.from
      BY <2>2, Zenon
    <3>2. now.from \in Nat
      BY <1>5, Zenon
    <3> HIDE DEF s, p, to
    <3> QED
      BY <1>5, <2>2, <3>1, <3>2
  <2> QED
    BY <2>1, <2>2, ZenonT(30)
<1> HIDE DEF s, p, to
<1>7. /\ \A q \in Parity, k \in Som :
            starts'[q][k] = IF q = p /\ k = now.id THEN s ELSE starts[q][k]
      /\ starts' \in [Parity -> [Som -> Offsets]]
  BY <1>1, <1>3, <1>4, <1>5, <1>6, Zenon
<1>8. /\ \A q \in Parity : somLog'[q] = IF q = p THEN somLog[q] \union {now.id} ELSE somLog[q]
      /\ somLog' \in [Parity -> SUBSET Som]
  BY <1>1, <1>3, <1>5, Zenon
<1>9. /\ dirty' \in 0 .. 3
      /\ now.adjust = 0 => dirty' % 2 = dirty % 2 /\ dirty' \div 2 # 0
      /\ now.adjust = -1 => dirty' % 2 # 0 /\ dirty' \div 2 = dirty \div 2
  <2>1. CASE now.adjust = 0
    <3>1. dirty' = 2 + (dirty % 2)
      BY <1>1, <2>1, Zenon
    <3> QED
      BY <1>5, <2>1, <3>1
  <2>2. CASE now.adjust = -1
    <3>1. dirty' = 1 + 2 * (dirty \div 2)
      BY <1>1, <2>2
    <3> QED
      BY <1>5, <2>2, <3>1
  <2> QED
    BY <1>2, <2>1, <2>2, Zenon
<1>10. NoDuplicate' /\ SomInOrder' /\ Elems(out') = Elems(out)
  BY <1>1, OutSame, Zenon DEF ReportsInv
<1>11. TypeOK'
  BY <1>1, <1>2, <1>7, <1>8, <1>9, ZenonT(30) DEF TypeOK, Match, Raise, Ids, Plain, Som, Single
<1>12. CallInv' /\ FiredInv'
  BY <1>1, ZenonT(30) DEF ReportsInv, CallInv, FiredInv, Stopped, Plain, Som, Single
<1>13. LogInv'
  BY <1>1, <1>10, Zenon DEF ReportsInv, LogInv, Stopped, Plain, At
<1>14. \A q \in Parity : At(q)' = At(q)
  BY <1>1, Zenon DEF At
<1>15. Before /\ (Before' <=> Before)
  BY <1>1, Zenon DEF ReportsInv, CallInv, Before
<1>16. StoreInv'
  <2>1. /\ cur % 2 \in Parity /\ (cur + 1) % 2 \in Parity /\ (cur + 1) % 2 # cur % 2
        /\ dirty % 2 = 0 => somLog[(cur + 1) % 2] = {}
        /\ dirty \div 2 = 0 => somLog[cur % 2] = {}
    BY <1>2, <1>3, TwoLogs, ZenonT(30) DEF ReportsInv, StoreInv
  <2>2. /\ dirty' % 2 = 0 => somLog'[(cur + 1) % 2] = {}
        /\ dirty' \div 2 = 0 => somLog'[cur % 2] = {}
    <3>1. CASE now.adjust = 0
      <4>1. dirty' % 2 = dirty % 2 /\ dirty' \div 2 # 0
        BY <1>9, <3>1, Zenon
      <4>2. somLog'[(cur + 1) % 2] = somLog[(cur + 1) % 2]
        BY <1>3, <1>8, <2>1, <3>1, Zenon
      <4> QED
        BY <2>1, <4>1, <4>2, Zenon
    <3>2. CASE now.adjust = -1
      <4>1. dirty' % 2 # 0 /\ dirty' \div 2 = dirty \div 2
        BY <1>9, <3>2, Zenon
      <4>2. somLog'[cur % 2] = somLog[cur % 2]
        BY <1>3, <1>8, <2>1, <3>2
      <4> QED
        BY <2>1, <4>1, <4>2, Zenon
    <3> QED
      BY <1>2, <3>1, <3>2, Zenon
  <2>4. ASSUME NEW q \in Parity, NEW k \in somLog'[q]
        PROVE  [id |-> k, from |-> starts'[q][k], to |-> At(q)] \in raised
    <3>1. CASE k \in somLog[q] /\ starts'[q][k] = starts[q][k]
      BY <1>2, <1>3, <3>1, Zenon DEF ReportsInv, StoreInv
    <3>2. CASE q = p /\ k = now.id /\ starts'[q][k] = now.from
      BY <1>2, <1>3, <3>2, Zenon DEF Pending, to
    <3>3. k \in Som
      BY <1>8, <2>4, Zenon
    <3> QED
      BY <1>6, <1>7, <1>8, <2>4, <3>1, <3>2, <3>3, ZenonT(30)
  <2>5. \A x \in Elems(out) : x.id \in Som => x.to <= cur - 2
    BY <1>2, <1>15, Zenon DEF ReportsInv, StoreInv
  <2> QED
    BY <1>1, <1>3, <1>10, <1>14, <1>15, <2>2, <2>4, <2>5, ZenonT(30) DEF StoreInv, Som
<1>17. ToldInv'
  <2>1. Elems(out) \subseteq raised
    BY <1>2, Zenon DEF ReportsInv, ToldInv
  <2>2. ASSUME NEW m \in raised
        PROVE  Told(m)' \/ Stored(m)'
    <3>1. CASE Told(m)
      BY <1>10, <3>1, Zenon DEF Told
    <3>2. CASE Stored(m)
      <4>1. PICK q \in Parity : At(q) = m.to /\ m.id \in somLog[q] /\ starts[q][m.id] <= m.from
        BY <3>2, Zenon DEF Stored
      <4>2. m.id \in Som /\ m.id \in somLog'[q] /\ m.from \in Int
        <5>1. m \in Match
          BY <1>2, <2>2, Zenon DEF TypeOK
        <5>2. m.from \in Int
          BY <5>1 DEF Match, Offsets
        <5>3. m.id \in Som /\ m.id \in somLog'[q]
          BY <1>5, <1>8, <4>1, ZenonT(30)
        <5> QED
          BY <5>2, <5>3, Zenon
      <4>3. starts'[q][m.id] <= m.from
        <5>1. CASE q = p /\ m.id = now.id
          <6>1. starts'[q][m.id] = s /\ s <= starts[q][m.id] /\ starts[q][m.id] \in Nat /\ s \in Nat
            BY <1>5, <1>6, <1>7, <4>1, <4>2, <5>1, ZenonT(30)
          <6> QED
            BY <4>1, <4>2, <6>1
        <5>2. CASE ~(q = p /\ m.id = now.id)
          BY <1>7, <4>1, <4>2, <5>2, Zenon
        <5> QED
          BY <5>1, <5>2, Zenon
      <4> QED
        BY <1>14, <4>1, <4>2, <4>3, Zenon DEF Stored
    <3>3. CASE m = Pending
      <4>1. m.id = now.id /\ m.from = now.from /\ m.to = to
        BY <3>3, Zenon DEF Pending, to
      <4>2. PICK q \in Parity : q = p
        BY <1>3, Zenon
      <4>3. At(q)' = m.to /\ m.id \in somLog'[q] /\ starts'[q][m.id] <= m.from
        BY <1>1, <1>3, <1>6, <1>7, <1>8, <1>14, <4>1, <4>2, ZenonT(30)
      <4> QED
        BY <4>3, Zenon DEF Stored
    <3> QED
      BY <1>2, <3>1, <3>2, <3>3, Zenon DEF ReportsInv, ToldInv
  <2> QED
    BY <1>1, <1>2, <1>3, <1>10, <2>1, <2>2, Zenon DEF ToldInv
<1> QED
  BY <1>10, <1>11, <1>12, <1>13, <1>16, <1>17, Zenon DEF ReportsInv

\* A stage is over: the stages that are left, and whether the final flush is among them.
LEMMA NextStage ==
    ASSUME todo \in Todos, todo # <<>>, todo' = Tail(todo)
    PROVE  /\ todo' \in Todos
           /\ Head(todo) # "flush" => (Before' <=> Before) /\ (todo' = <<>> => ~Before)
           /\ Head(todo) = "flush" => ~Before'
<1> USE DEF Before
<1>1. CASE todo = <<"zero", "match", "flush">>
  <2>1. todo' = <<"match", "flush">>
    BY <1>1
  <2> QED
    BY <1>1, <2>1 DEF Todos
<1>2. CASE todo = <<"match", "flush">>
  <2>1. todo' = <<"flush">>
    BY <1>2
  <2> QED
    BY <1>2, <2>1 DEF Todos
<1>3. CASE todo = <<"flush">>
  <2>1. todo' = <<>>
    BY <1>3
  <2> QED
    BY <1>3, <2>1 DEF Todos
<1>4. CASE todo = <<"eod", "eodMatch", "flush">>
  <2>1. todo' = <<"eodMatch", "flush">>
    BY <1>4
  <2> QED
    BY <1>4, <2>1 DEF Todos
<1>5. CASE todo = <<"eodMatch", "flush">>
  <2>1. todo' = <<"flush">>
    BY <1>5
  <2> QED
    BY <1>5, <2>1 DEF Todos
<1>6. CASE todo = <<"zero", "match", "flush", "eod">>
  <2>1. todo' = <<"match", "flush", "eod">>
    BY <1>6
  <2> QED
    BY <1>6, <2>1 DEF Todos
<1>7. CASE todo = <<"match", "flush", "eod">>
  <2>1. todo' = <<"flush", "eod">>
    BY <1>7
  <2> QED
    BY <1>7, <2>1 DEF Todos
<1>8. CASE todo = <<"flush", "eod">>
  <2>1. todo' = <<"eod">>
    BY <1>8
  <2> QED
    BY <1>8, <2>1 DEF Todos
<1>9. CASE todo = <<"eod">>
  <2>1. todo' = <<>>
    BY <1>9
  <2> QED
    BY <1>9, <2>1 DEF Todos
<1> QED
  BY <1>1, <1>2, <1>3, <1>4, <1>5, <1>6, <1>7, <1>8, <1>9, ZenonT(30) DEF Todos

\* The engines are done, or the rest of the stage is skipped.
LEMMA StageInv ==
    ASSUME ReportsInv, EndStage
    PROVE  ReportsInv'
<1> USE DEF EndStage, deduper
<1>1. NoDuplicate' /\ SomInOrder' /\ Elems(out') = Elems(out)
  BY OutSame, Zenon DEF ReportsInv
<1>2. todo' \in Todos /\ (Before' <=> Before) /\ (todo' = <<>> => ~Before) /\ todo # <<>>
  BY NextStage, Zenon DEF ReportsInv, CallInv
<1>3. TypeOK'
  BY ZenonT(30) DEF ReportsInv, TypeOK, Match, Raise, Ids, Plain, Som, Single
<1>4. CallInv' /\ FiredInv'
  BY <1>2, Zenon DEF ReportsInv, CallInv, FiredInv, Stopped, Plain, Som, Single
<1>5. LogInv'
  BY <1>1, <1>2, ZenonT(30) DEF ReportsInv, LogInv, Stopped, Plain, At
<1>6. StoreInv'
  BY <1>1, <1>2, Zenon DEF ReportsInv, StoreInv, Stopped, Som, At
<1>7. ToldInv'
  <2> SUFFICES ASSUME ~Stopped, NEW m \in raised
               PROVE  Told(m)' \/ (todo' # <<>> /\ cur # Unset /\ Stored(m)')
    <3>1. ~Stopped => Elems(out) \subseteq raised
      BY Zenon DEF ReportsInv, ToldInv
    <3> QED
      BY <1>1, <3>1, Zenon DEF ToldInv, Stopped
  <2>1. Told(m) \/ (cur # Unset /\ Stored(m))
    BY Zenon DEF ReportsInv, ToldInv
  <2>2. Told(m) => Told(m)'
    BY <1>1, Zenon DEF Told
  <2>3. Stored(m) => Stored(m)'
    BY Zenon DEF Stored, At
  <2>4. todo' = <<>> => ~Stored(m)
    BY <1>2, Zenon DEF ReportsInv, StoreInv, Stored
  <2> QED
    BY <2>1, <2>2, <2>3, <2>4, Zenon
<1> QED
  BY <1>1, <1>3, <1>4, <1>5, <1>6, <1>7, Zenon DEF ReportsInv

\* The final flush tells all that is stored.
LEMMA FlushInv ==
    ASSUME LogsListed, ReportsInv, NEW halt \in BOOLEAN, FinalFlush(halt)
    PROVE  ReportsInv'
<1>1. /\ todo # <<>> /\ Head(todo) = "flush" /\ now = None /\ todo' = Tail(todo)
      /\ UNCHANGED <<db, evec, cur, log, starts, end, now, raised, fired>>
      /\ status' = status \union (IF halt THEN {"TERMINATED"} ELSE {})
  BY Zenon DEF FinalFlush
<1>2. TypeOK /\ todo' \in Todos /\ ~Before' /\ (cur # Unset => cur \in Nat) /\ cur \in Int
  <2>1. todo' \in Todos /\ ~Before'
    BY <1>1, NextStage, Zenon DEF ReportsInv, CallInv
  <2> QED
    BY <2>1 DEF ReportsInv, TypeOK, Offsets, Unset
<1>3. Stopped' <=> (Stopped \/ halt)
  BY <1>1, Zenon DEF Stopped
<1>4. CASE Stopped
  <2>1. UNCHANGED <<somLog, dirty, out>>
    BY <1>4, Zenon DEF FinalFlush, Stopped
  <2>2. NoDuplicate' /\ SomInOrder'
    BY <1>1, <2>1, OutSame, Zenon DEF ReportsInv
  <2>3. TypeOK'
    <3>1. offset' \in Offsets /\ status' \subseteq {"TERMINATED", "EXHAUSTED"}
      BY <1>1, <1>2, Zenon DEF FinalFlush, TypeOK
    <3> QED
      BY <1>1, <1>2, <2>1, <3>1, ZenonT(30) DEF TypeOK, Match, Raise, Ids, Plain, Som, Single
  <2>4. CallInv' /\ FiredInv'
    BY <1>1, <1>2, <1>3, Zenon DEF ReportsInv, CallInv, FiredInv, Plain, Som, Single
  <2> QED
    BY <1>3, <1>4, <2>2, <2>3, <2>4, Zenon DEF ReportsInv, LogInv, StoreInv, ToldInv
<1>5. CASE ~Stopped
  <2>1. Flushed(Unset, halt)
    <3>1. Unset \in Int /\ db' = db
      BY <1>1 DEF Unset
    <3>2. IF hasSom THEN flushStoredSomMatches(Unset, halt)
                    ELSE ~halt /\ UNCHANGED <<somLog, dirty, out>>
      BY <1>5, Zenon DEF FinalFlush, Stopped
    <3> QED
      BY <1>1, <1>5, <3>1, <3>2, Flushing, NothingStored, Zenon
  <2>2. /\ out' \in Seq(Match) /\ NoDuplicate' /\ SomInOrder'
        /\ Elems(out) \subseteq Elems(out') /\ Elems(out') \subseteq raised
        /\ dirty' \in 0 .. 3 /\ somLog' \in [Parity -> SUBSET Som]
        /\ \A x \in Elems(out') \ Elems(out) : x.id \in Som
    BY <2>1, Zenon DEF Flushed
  <2>3. Unset # cur + 1
    BY <1>2, SMTT(30) DEF Unset
  <2>4. ~halt => \A p \in Parity : somLog'[p] = {}
    BY <2>1, <2>3, Zenon DEF Flushed
  <2>5. ~halt /\ cur # Unset => /\ Held((cur + 1) % 2, cur - 1) \subseteq Elems(out')
                                /\ Held(cur % 2, cur) \subseteq Elems(out')
    BY <2>1, <2>3, ZenonT(30) DEF Flushed
  <2>6. ~halt /\ cur = Unset => out' = out
    BY <2>1, ZenonT(30) DEF Flushed
  <2>7. TypeOK'
    <3>1. offset' \in Offsets /\ status' \subseteq {"TERMINATED", "EXHAUSTED"}
      BY <1>1, <1>2, Zenon DEF FinalFlush, TypeOK
    <3> QED
      BY <1>1, <1>2, <2>2, <3>1, ZenonT(30) DEF TypeOK, Match, Raise, Ids, Plain, Som, Single
  <2>8. CallInv' /\ FiredInv'
    BY <1>1, <1>2, <1>3, Zenon DEF ReportsInv, CallInv, FiredInv, Plain, Som, Single
  <2>9. ASSUME ~halt
        PROVE  LogInv'
    <3>1. \A x \in Elems(out') : x.id \in Plain => x \in Elems(out)
      BY <1>2, <2>2, Keys, Zenon
    <3>2. /\ cur = Unset => out = <<>>
          /\ \A x \in Elems(out) : x.id \in Plain =>
                x.to <= cur /\ (cur - 1 <= x.to => x.id \in log[x.to % 2])
          /\ cur # Unset => \A p \in Parity : At(p) >= 0 =>
                \A id \in log[p] : [id |-> id, from |-> 0, to |-> At(p)] \in Elems(out)
      BY <1>1, <1>5, Zenon DEF ReportsInv, LogInv
    <3>3. \A p \in Parity : At(p)' = At(p)
      BY <1>1, Zenon DEF At
    <3> QED
      BY <1>1, <2>2, <2>6, <2>9, <3>1, <3>2, <3>3, Zenon DEF LogInv, Plain
  <2>10. ASSUME ~halt
         PROVE  StoreInv'
    <3>1. cur # Unset => cur % 2 \in Parity /\ (cur + 1) % 2 \in Parity
      BY <1>2, TwoLogs, Zenon
    <3> QED
      BY <1>1, <1>2, <2>4, <2>10, <3>1, Zenon DEF StoreInv
  <2>11. ASSUME ~halt
         PROVE  ToldInv'
    <3> SUFFICES ASSUME NEW m \in raised PROVE Told(m)'
      BY <1>1, <2>2, Zenon DEF ToldInv
    <3>1. Told(m) => Told(m)'
      BY <2>2, Zenon DEF Told
    <3>2. ASSUME cur # Unset, Stored(m)
          PROVE  Told(m)'
      <4>1. PICK p \in Parity : At(p) = m.to /\ m.id \in somLog[p] /\ starts[p][m.id] <= m.from
        BY <3>2, Zenon DEF Stored
      <4> DEFINE x == [id |-> m.id, from |-> starts[p][m.id], to |-> m.to]
      <4>2. /\ p = cur % 2 \/ p = (cur + 1) % 2
            /\ At(cur % 2) = cur /\ At((cur + 1) % 2) = cur - 1
        BY <1>2, <3>2, TwoLogs, Zenon DEF At
      <4>3. x \in Held(p, At(p))
        BY <4>1, Zenon DEF Held
      <4>4. x \in Elems(out')
        BY <2>5, <2>11, <3>2, <4>2, <4>3, ZenonT(30)
      <4> QED
        BY <4>1, <4>4, Zenon DEF Told
    <3> QED
      BY <1>1, <1>5, <3>1, <3>2, Zenon DEF ReportsInv, ToldInv
  <2>12. halt => LogInv' /\ StoreInv' /\ ToldInv'
    BY <1>3, Zenon DEF LogInv, StoreInv, ToldInv
  <2> QED
    BY <2>2, <2>7, <2>8, <2>9, <2>10, <2>11, <2>12, Zenon DEF ReportsInv
<1> QED
  BY <1>4, <1>5, Zenon

----------------------------------------------------------------------------
\* The theorems

\* The initial state, with the deduper fresh from hs_alloc_scratch
LEMMA InitInv ==
    ASSUME Init
    PROVE  ReportsInv
<1>1. out = <<>> /\ Elems(out) = {} /\ out \in Seq(Match) /\ DOMAIN out = {}
  BY DEF Init, Elems
<1>2. TypeOK
  <2>1. 0 \in Offsets /\ 0 \in 0 .. 3
    BY ReportBounds DEF Offsets
  <2> QED
    BY <1>1, <2>1, Zenon DEF Init, TypeOK
<1>3. CallInv /\ FiredInv
  BY Zenon DEF Init, CallInv, FiredInv, Todos
<1>4. LogInv /\ StoreInv /\ ToldInv
  BY <1>1, Zenon DEF Init, LogInv, StoreInv, ToldInv
<1>5. NoDuplicate /\ SomInOrder
  BY <1>1, Zenon DEF NoDuplicate, SomInOrder
<1> QED
  BY <1>2, <1>3, <1>4, <1>5, Zenon DEF ReportsInv

\* A step that changes nothing
LEMMA SameInv ==
    ASSUME ReportsInv, UNCHANGED vars
    PROVE  ReportsInv'
<1> USE DEF vars, deduper
<1>1. NoDuplicate' /\ SomInOrder' /\ Elems(out') = Elems(out)
  BY OutSame, Zenon DEF ReportsInv
<1>2. TypeOK'
  BY ZenonT(30) DEF ReportsInv, TypeOK, Match, Raise, Ids, Plain, Som, Single
<1>3. CallInv' /\ FiredInv'
  BY ZenonT(30) DEF ReportsInv, CallInv, FiredInv, Pending, Before, Stopped, Som, Plain, Single
<1>4. LogInv' /\ StoreInv'
  BY <1>1, ZenonT(30) DEF ReportsInv, LogInv, StoreInv, Stopped, Before, Plain, Som, At
<1>5. ToldInv'
  BY <1>1, Zenon DEF ReportsInv, ToldInv, Told, Stored, At, Stopped, Pending
<1> QED
  BY <1>1, <1>2, <1>3, <1>4, <1>5, Zenon DEF ReportsInv

\* Every step of a call, and every call, preserves the invariant.
LEMMA StepInv ==
    ASSUME LogsListed, ReportsInv, [Next]_vars
    PROVE  ReportsInv'
<1>1. CASE \E len \in 1 .. MaxOffset : hs_scan_stream(len) \/ hs_scan(len)
  BY <1>1, CallsInv, Zenon
<1>2. CASE report_eod_matches
  BY <1>2, EodInv, Zenon
<1>3. CASE hs_reset_stream
  BY <1>3, ResetInv, Zenon
<1>4. CASE \E id \in Ids, from \in Offsets, at \in Offsets, adjust \in {0, -1} :
              RaiseReport(id, from, at, adjust)
  BY <1>4, RaiseInv, Zenon
<1>5. CASE roseRunBoundaryProgram
  BY <1>5, BoundaryInv, Zenon
<1>6. CASE \E halt \in BOOLEAN : DedupeCatchup(halt) \/ DedupeReport(halt) \/ FinalFlush(halt)
  BY <1>6, CatchupInv, ReportInv, FlushInv, Zenon
<1>7. CASE StoreSom
  BY <1>7, StoreSomInv, Zenon
<1>8. CASE EndStage
  BY <1>8, StageInv, Zenon
<1>9. CASE UNCHANGED vars
  BY <1>9, SameInv, Zenon
<1> QED
  BY <1>1, <1>2, <1>3, <1>4, <1>5, <1>6, <1>7, <1>8, <1>9, Zenon DEF Next

\* Two matches that differ in their starts at most
LEMMA SameButFrom ==
    ASSUME NEW m \in Match, NEW x \in Match, x.id = m.id, x.to = m.to
    PROVE  x = [m EXCEPT !.from = x.from]
<1>1. /\ m = [id |-> m.id, from |-> m.from, to |-> m.to]
      /\ x = [id |-> x.id, from |-> x.from, to |-> x.to]
  BY Zenon DEF Match
<1>2. [m EXCEPT !.from = x.from] = [id |-> m.id, from |-> x.from, to |-> m.to]
  BY <1>1, Zenon
<1> QED
  BY <1>1, <1>2, Zenon

\* Nothing is left to tell when a call that was not stopped returns: what was told are
\* the reports raised, with the leftmost starts.
LEMMA ToldAll ==
    ASSUME ReportsInv
    PROVE  EveryMatchTold
<1> DEFINE leftmost(m) == IF m.id \in Plain THEN 0
                          ELSE Min({n.from : n \in {k \in raised : k.id = m.id /\ k.to = m.to}})
<1> SUFFICES ASSUME todo = <<>>, ~Stopped
             PROVE  Range(out) = {[m EXCEPT !.from = leftmost(m)] : m \in raised}
  BY ZenonT(30) DEF EveryMatchTold, Stopped
<1>1. /\ TypeOK /\ raised \subseteq Match /\ Elems(out) \subseteq raised /\ NoDuplicate
      /\ \A m \in raised : m.id \in Plain => m.from = 0
      /\ \A m \in raised : Told(m)
  BY Zenon DEF ReportsInv, TypeOK, CallInv, ToldInv
<1>2. \A x, y \in Elems(out) : x.id = y.id /\ x.to = y.to => x = y
  BY <1>1, Zenon DEF NoDuplicate, Elems
<1>3. ASSUME NEW m \in raised, NEW x \in Elems(out), x.id = m.id, x.to = m.to
      PROVE  x.from = leftmost(m)
  <2>1. CASE m.id \in Plain
    BY <1>1, <1>3, <2>1, Zenon
  <2>2. CASE m.id \notin Plain
    <3> DEFINE S == {n.from : n \in {k \in raised : k.id = m.id /\ k.to = m.to}}
    <3>1. x.from \in S
      BY <1>1, <1>3, Zenon
    <3>2. \A s \in S : x.from <= s
      <4> SUFFICES ASSUME NEW n \in raised, n.id = m.id, n.to = m.to
                   PROVE  x.from <= n.from
        BY Zenon
      <4>1. PICK y \in Elems(out) : y.id = n.id /\ y.to = n.to /\ y.from <= n.from
        BY <1>1, Zenon DEF Told
      <4>2. y = x
        BY <1>2, <1>3, <4>1, Zenon
      <4> QED
        BY <4>1, <4>2, Zenon
    <3>3. \A s \in S : s \in Int
      BY <1>1 DEF Match, Offsets
    <3>4. leftmost(m) = Min(S)
      BY <2>2, Zenon
    <3> HIDE DEF S, leftmost
    <3>5. Min(S) \in S /\ \A s \in S : Min(S) <= s
      BY <3>1, <3>2, Zenon DEF Min
    <3>6. x.from <= Min(S) /\ Min(S) <= x.from /\ Min(S) \in Int /\ x.from \in Int
      BY <3>1, <3>2, <3>3, <3>5, Zenon
    <3> QED
      BY <3>4, <3>6
  <2> QED
    BY <2>1, <2>2, ZenonT(30)
<1> HIDE DEF leftmost
<1>4. ASSUME NEW m \in raised, NEW x \in Elems(out), x.id = m.id, x.to = m.to
      PROVE  x = [m EXCEPT !.from = leftmost(m)]
  <2>1. m \in Match /\ x \in Match
    BY <1>1, <1>4, Zenon
  <2>2. x = [m EXCEPT !.from = x.from]
    BY <1>4, <2>1, SameButFrom, Zenon
  <2> QED
    BY <1>3, <1>4, <2>2, Zenon
<1>5. \A x \in Elems(out) : x \in {[m EXCEPT !.from = leftmost(m)] : m \in raised}
  <2> SUFFICES ASSUME NEW x \in Elems(out)
               PROVE  \E m \in raised : x = [m EXCEPT !.from = leftmost(m)]
    BY Zenon
  <2>1. x \in raised /\ x = [x EXCEPT !.from = leftmost(x)]
    BY <1>1, <1>4, Zenon
  <2> QED
    BY <2>1, Zenon
<1>6. \A m \in raised : [m EXCEPT !.from = leftmost(m)] \in Elems(out)
  <2> SUFFICES ASSUME NEW m \in raised
               PROVE  [m EXCEPT !.from = leftmost(m)] \in Elems(out)
    BY Zenon
  <2>1. PICK x \in Elems(out) : x.id = m.id /\ x.to = m.to
    BY <1>1, Zenon DEF Told
  <2>2. x = [m EXCEPT !.from = leftmost(m)]
    BY <1>4, <2>1, Zenon
  <2> QED
    BY <2>2, Zenon
<1>7. Range(out) = Elems(out)
  BY Zenon DEF Range, Elems
<1> QED
  BY <1>5, <1>6, <1>7, Zenon

----------------------------------------------------------------------------
\* The theorems

INSTANCE FiniteSetTheorems

\* A set of natural numbers has a least element: the first bit of a log.
LEMMA FirstKey ==
    ASSUME NEW S \in SUBSET Nat, S # {}
    PROVE  \E n \in S : \A m \in S : n <= m
<1> DEFINE R == {ss \in Nat \X Nat : ss[1] < ss[2]}
<1>1. \A a, b \in Nat : a < b => <<a, b>> \in R
  BY Zenon
<1>2. IsWellFoundedOn(R, Nat)
  BY NatLessThanWellFounded, Zenon DEF OpToRel
<1> HIDE DEF R
<1>3. PICK n \in S : \A m \in S : ~(<<m, n>> \in R)
  BY <1>2, WFMin, Zenon
<1>4. \A m \in S : n \in Nat /\ m \in Nat
  BY Zenon
<1>5. \A m \in S : ~(m < n)
  BY <1>1, <1>3, <1>4, Zenon
<1> QED
  BY <1>4, <1>5

\* Finitely many keys can be listed in ascending order: the least number of keys for
\* which they could not would be one too many.
LEMMA Listing ==
    ASSUME NEW keys \in SUBSET Nat, IsFiniteSet(keys)
    PROVE  Cardinality(keys) \in Nat /\ \E f : Lists(f, keys, Cardinality(keys))
<1> DEFINE Bad(n) == \E S \in SUBSET Nat : /\ IsFiniteSet(S) /\ Cardinality(S) = n
                                           /\ ~\E f : Lists(f, S, n)
           B == {n \in Nat : Bad(n)}
<1>1. B = {}
  <2> SUFFICES ASSUME B # {} PROVE FALSE
    BY Zenon
  <2>1. PICK n \in B : \A m \in B : n <= m
    BY FirstKey, Zenon
  <2>2. n \in Nat
    BY <2>1, Zenon
  <2>3. PICK S \in SUBSET Nat : IsFiniteSet(S) /\ Cardinality(S) = n /\ ~\E f : Lists(f, S, n)
    BY <2>1, Zenon
  <2>4. CASE S = {}
    <3>1. n = 0
      BY <2>3, <2>4, FS_EmptySet, Zenon
    <3>2. Lists([i \in 1 .. 0 |-> 0], {}, 0)
      BY DEF Lists
    <3> QED
      BY <2>3, <2>4, <3>1, <3>2, Zenon
  <2>5. CASE S # {}
    <3>1. PICK k \in S : \A m \in S : k <= m
      BY <2>5, FirstKey, Zenon
    <3>2. IsFiniteSet(S \ {k}) /\ Cardinality(S \ {k}) = n - 1
      BY <2>3, <3>1, FS_RemoveElement, Zenon
    <3>3. n - 1 \in Nat
      BY <3>2, FS_CardinalityType, Zenon
    <3>4. n - 1 \notin B
      BY <2>1, <2>2, <3>3
    <3>5. S \ {k} \in SUBSET Nat
      BY Zenon
    <3>6. PICK g : Lists(g, S \ {k}, n - 1)
      BY <3>2, <3>3, <3>4, <3>5, Zenon
    <3> DEFINE f == [i \in 1 .. n |-> IF i = 1 THEN k ELSE g[i - 1]]
    <3>7. f \in [1 .. n -> S]
      <4>1. \A i \in 1 .. n : i # 1 => i - 1 \in 1 .. (n - 1)
        BY <2>2
      <4> QED
        BY <4>1, <3>1, <3>6, Zenon DEF Lists
    <3>8. ASSUME NEW i \in 1 .. n, NEW j \in 1 .. n, i < j PROVE f[i] < f[j]
      <4>1. j - 1 \in 1 .. (n - 1) /\ f[j] = g[j - 1] /\ g[j - 1] \in S \ {k}
        BY <2>2, <3>6, <3>8 DEF Lists
      <4>2. CASE i = 1
        <5>1. ASSUME NEW m \in S \ {k} PROVE k < m
          <6>1. k \in Nat /\ m \in Nat /\ k <= m /\ k # m
            BY <3>1, Zenon
          <6> QED
            BY <6>1
        <5>2. f[i] = k
          BY <4>2, Zenon
        <5> HIDE DEF f
        <5> QED
          BY <4>1, <5>1, <5>2, Zenon
      <4>3. CASE i # 1
        <5>1. i - 1 \in 1 .. (n - 1) /\ f[i] = g[i - 1] /\ i - 1 < j - 1
          BY <2>2, <3>8, <4>3
        <5> QED
          BY <4>1, <5>1, <3>6, Zenon DEF Lists
      <4> QED
        BY <4>2, <4>3, Zenon
    <3>9. ASSUME NEW m \in S PROVE \E i \in 1 .. n : f[i] = m
      <4>1. CASE m = k
        <5>1. 1 \in 1 .. n /\ f[1] = m
          BY <4>1, <2>2, <3>3
        <5> QED
          BY <5>1, Zenon
      <4>2. CASE m # k
        <5>1. PICK i \in 1 .. (n - 1) : g[i] = m
          BY <4>2, <3>6, Zenon DEF Lists
        <5>2. i + 1 \in 1 .. n /\ f[i + 1] = m
          BY <5>1, <2>2
        <5> QED
          BY <5>2, Zenon
      <4> QED
        BY <4>1, <4>2, Zenon
    <3> HIDE DEF f
    <3> QED
      BY <3>7, <3>8, <3>9, <2>3, Zenon DEF Lists
  <2> QED
    BY <2>4, <2>5, Zenon
<1>2. Cardinality(keys) \in Nat
  BY FS_CardinalityType, Zenon
<1> QED
  BY <1>1, <1>2, Zenon

\* The loop over the bits of a log visits its keys in ascending order, each once.
LEMMA Iterated ==
    ASSUME NEW keys \in SUBSET Nat, IsFiniteSet(keys)
    PROVE  Lists(fatbit_iterate(keys), keys, Cardinality(keys))
<1> DEFINE n == Cardinality(keys)
           C(f) == \A i, j \in DOMAIN f : i < j => f[i] < f[j]
           h == fatbit_iterate(keys)
<1>1. PICK g : Lists(g, keys, n)
  BY Listing, Zenon
<1>2. n \in Nat
  BY Listing, Zenon
<1>3. g \in [1 .. n -> keys] /\ C(g)
  BY <1>1, Zenon DEF Lists
<1>4. h \in [1 .. n -> keys] /\ C(h)
  <2>1. h = CHOOSE f \in [1 .. n -> keys] : C(f)
    BY Zenon DEF fatbit_iterate
  <2> HIDE DEF C, h
  <2> QED
    BY <2>1, <1>3, Zenon
<1>5. \A i, j \in 1 .. n : i < j => h[i] < h[j]
  BY <1>4, Zenon
<1>6. \A i, j \in 1 .. n : h[i] = h[j] => i = j
  <2>1. \A i \in 1 .. n : h[i] \in Nat
    BY <1>4, Zenon
  <2> HIDE DEF h, n
  <2> QED
    BY <2>1, <1>2, <1>5
<1> HIDE DEF h
<1>7. h \in Injection(1 .. n, keys)
  BY <1>4, <1>6, Zenon DEF Injection, IsInjective
<1>8. Cardinality(1 .. n) = n /\ IsFiniteSet(1 .. n)
  BY <1>2, FS_Interval
<1>9. h \in Surjection(1 .. n, keys)
  BY <1>7, <1>8, FS_Injection, Zenon
<1> QED
  BY <1>4, <1>5, <1>9, Zenon DEF Lists, Surjection, h

\* The logs are listed in order: they hold keys of the database, of which there are
\* finitely many.
LEMMA LogsListedHold == LogsListed
<1> SUFFICES ASSUME NEW all \in SUBSET Nat, IsFiniteSet(all), NEW keys \in SUBSET all
             PROVE  /\ Cardinality(keys) \in Nat
                    /\ Lists(fatbit_iterate(keys), keys, Cardinality(keys))
  BY Zenon DEF LogsListed
<1>1. keys \in SUBSET Nat /\ IsFiniteSet(keys)
  BY FS_Subset, Zenon
<1> QED
  BY <1>1, Listing, Iterated, Zenon

\* The invariant of the deduper and of the store of start-of-match reports holds in
\* every state of every sequence of calls with one scratch.
THEOREM Deduping == Spec => []ReportsInv
<1>1. ReportsInv /\ [Next]_vars => ReportsInv'
  BY LogsListedHold, StepInv, Zenon
<1> QED
  BY <1>1, InitInv, PTL DEF Spec

\* The user is told of one report at one offset once in a call, whatever the earlier
\* calls with the scratch left in the logs (dedupeCatchup).
THEOREM OnceEach == Spec => []NoDuplicate
<1>1. ReportsInv => NoDuplicate
  BY Zenon DEF ReportsInv
<1> QED
  BY <1>1, Deduping, PTL

\* Stored start-of-match reports come out in the order of their ends
\* (flushStoredSomMatches_i).
THEOREM SomOrder == Spec => []SomInOrder
<1>1. ReportsInv => SomInOrder
  BY Zenon DEF ReportsInv
<1> QED
  BY <1>1, Deduping, PTL

\* A single-match report is told once in the life of a stream: its key is exhausted
\* when the callback returns, and no program raises an exhausted report.
THEOREM OnceInALife == Spec => []SinglematchOnce
<1>1. ReportsInv => SinglematchOnce
  BY DEF ReportsInv, FiredInv, SinglematchOnce
<1> QED
  BY <1>1, Deduping, PTL

\* A call that was not stopped has told exactly what the engines raised, with the
\* leftmost starts: nothing is lost to what an earlier call left in a log, nothing is
\* left in the store, nothing comes out of an earlier call's logs.
THEOREM AllTold == Spec => []EveryMatchTold
<1>1. ReportsInv => EveryMatchTold
  BY ToldAll, Zenon
<1> QED
  BY <1>1, Deduping, PTL
============================================================================
