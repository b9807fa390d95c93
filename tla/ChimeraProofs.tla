--------------------------- MODULE ChimeraProofs ---------------------------
(***************************************************************************)
(* Proofs about Chimera for every database, every data and any number of   *)
(* scans: the queue stays within its capacity and in order, the captures   *)
(* handed to the callback are those of the match it is called for, the     *)
(* matches of both matchers come out in the order of their ends, nothing   *)
(* is delivered after a stop or a skip, the value returned tells how the   *)
(* scan ended, and the scan delivers exactly what PCRE alone would find.   *)
(*                                                                         *)
(* The last of these has an inductive invariant of its own, ExactInv.      *)
(* What is still to be delivered of a pattern is its queued match followed *)
(* by what PCRE finds from scanStart on.  For a pattern that Hyperscan     *)
(* finds this needs that Hyperscan's next event that does not overlap is   *)
(* what PCRE would find from there: no match that ended before was passed  *)
(* over (Followed).                                                        *)
(***************************************************************************)
EXTENDS ChimeraInvProofs

SpanOf(x) == <<x.from, x.to>>

\* What PCRE finds of pattern p from start n on
Remaining(p, n) == MatchesFrom(text.spans[p], db[p].utf8, text.cont)[n]

\* What was delivered of p is a beginning of what is due.
Partly(p) == \E n \in 0 .. Len(Due(p)) : Delivered(p) = SubSeq(Due(p), 1, n)

\* Behind what was delivered of p, the matches s are still to be.
Owed(p, s) == Matches(p) = Delivered(p) \o s /\ (db[p].single => Delivered(p) = <<>>)

\* catchupPcre has delivered the match before the event.
Resumes(p) == pc = "resume" /\ p = event.id

\* How far a scan that has not been stopped is with pattern p
Progress(p) ==
    IF p \notin active THEN Delivered(p) = <<>>
    ELSE /\ \A x \in Elems(queue) :
              x.id = p => Owed(p, <<SpanOf(x)>> \o Remaining(p, scanStart[p]))
         /\ p \notin given /\ ~Queued(p) =>
              IF Resumes(p) THEN Owed(p, Remaining(p, scanStart[p]))
              ELSE Delivered(p) = Due(p)

\* catchupPcre was called for match s of p.
Current(p, s) == pc \in {"catchup", "resume"} /\ p = event.id /\ s = SpanOf(event)

\* Hyperscan has reported match s of p: it may be late by one byte.
Reported(p, s) == s[2] < at - 1 \/ <<p, s[2]>> \in raised

\* When Hyperscan is done every pattern with a match was reported, and of a pattern
\* that it alone finds every match reported was taken over or overlaps the one before.
\* The events of such a pattern come in order of their ends.
Followed ==
    /\ pc = "init" => Unguarded \ left \subseteq active
    /\ pc \notin {"init", "idle"} => Unguarded \subseteq active
    /\ pc \in {"scanned", "flush"} => \A p \in Ids \ active : text.spans[p] = {}
    /\ Scanning => \A p \in active : Fixed(p) /\ ~db[p].single =>
          \A s \in text.spans[p] :
             Reported(p, s) /\ ~Current(p, s) => s[1] < scanStart[p]
    /\ pc \in {"catchup", "resume"} =>
          /\ event.id \notin given => scanStart[event.id] <= event.from
          /\ \A s \in text.spans[event.id] : s[2] < event.to => Reported(event.id, s)

ExactInv ==
    /\ ExactMatches
    /\ halted = "no" /\ pc # "idle" => Followed /\ \A p \in Ids : Progress(p)

----------------------------------------------------------------------------
\* The reference: what PCRE alone finds

Starts == 0 .. (Length + 1)
Ahead(S, n) == {s \in S : s[1] >= n}
Leftmost(A) == CHOOSE s \in A : \A r \in A : s[1] <= r[1]
Least(B) == CHOOSE n \in B : \A m \in B : n <= m

\* f lists for each start the match found there and what is found behind it.
Lists(f, E, first, next) ==
    \A i \in DOMAIN f : f[i] = IF i \in E THEN <<first[i]>> \o f[next[i]] ELSE <<>>

\* A search that goes forward from each start ends: there is a list of what it finds.
LEMMA ListExists ==
    ASSUME Numbers, NEW N \in Nat, NEW E \in SUBSET (0 .. N), NEW T, NEW first \in [E -> T],
           NEW next \in [E -> 0 .. N], \A i \in E : i < next[i]
    PROVE  \E f \in [0 .. N -> Seq(T)] : Lists(f, E, first, next)
<1> DEFINE P(k) == \E f \in [k .. N -> Seq(T)] : Lists(f, E, first, next)
           K == {k \in 0 .. (N + 1) : P(k)}
<1>1. P(N + 1)
  <2> DEFINE f == [i \in (N + 1) .. N |-> <<>>]
  <2>1. f \in [(N + 1) .. N -> Seq(T)] /\ Lists(f, E, first, next)
    BY DEF Lists
  <2> QED
    BY <2>1, Zenon
<1>2. K \in SUBSET Nat /\ K # {}
  <2> HIDE DEF P
  <2> QED
    BY <1>1
<1>3. PICK k \in K : \A m \in K : k <= m
  BY <1>2, LeastNat, Zenon
<1>4. CASE k = 0
  BY <1>3, <1>4, Zenon
<1>5. CASE k # 0
  <2>1. k \in 1 .. (N + 1) /\ k - 1 \in 0 .. N
    BY <1>3, <1>5
  <2>2. PICK f \in [k .. N -> Seq(T)] : Lists(f, E, first, next)
    BY <1>3, Zenon
  <2> DEFINE j == k - 1
             v == IF j \in E THEN <<first[j]>> \o f[next[j]] ELSE <<>>
             g == [i \in j .. N |-> IF i = j THEN v ELSE f[i]]
  <2>3. \A i \in j .. N : i = j \/ i \in k .. N
    BY <2>1
  <2>4. \A i \in E : i \in j .. N => next[i] \in k .. N /\ next[i] # j
    BY <2>1, SMTT(30)
  <2>5. v \in Seq(T)
    <3>1. CASE j \in E
      <4>1. next[j] \in k .. N /\ first[j] \in T
        BY <2>1, <2>4, <3>1
      <4>2. f[next[j]] \in Seq(T)
        BY <4>1, <2>2, Zenon
      <4> QED
        BY <4>1, <4>2, <3>1
    <3> QED
      BY <3>1
  <2>6. g \in [j .. N -> Seq(T)]
    <3> HIDE DEF v, j
    <3> QED
      BY <2>2, <2>3, <2>5, Zenon
  <2>7. Lists(g, E, first, next)
    <3> SUFFICES ASSUME NEW i \in j .. N
                 PROVE  g[i] = IF i \in E THEN <<first[i]>> \o g[next[i]] ELSE <<>>
      BY Zenon DEF Lists
    <3>1. i \in E => g[next[i]] = f[next[i]]
      <4> HIDE DEF v
      <4> QED
        BY <2>1, <2>4
    <3>2. CASE i = j
      BY <3>1, <3>2, Zenon
    <3>3. CASE i # j
      <4>1. i \in k .. N /\ g[i] = f[i]
        BY <2>3, <3>3, Zenon
      <4>2. DOMAIN f = k .. N
        BY <2>2, Zenon
      <4>3. f[i] = IF i \in E THEN <<first[i]>> \o f[next[i]] ELSE <<>>
        BY <2>2, <4>1, <4>2, Zenon DEF Lists
      <4> QED
        BY <3>1, <4>1, <4>3, Zenon
    <3> QED
      BY <3>2, <3>3, Zenon
  <2>8. P(k - 1)
    <3> HIDE DEF g
    <3> QED
      BY <2>6, <2>7, Zenon
  <2> HIDE DEF P
  <2>9. k - 1 \in K
    BY <2>1, <2>8
  <2> QED
    BY <2>1, <2>9, <1>3
<1> QED
  BY <1>4, <1>5, Zenon

\* Whatever satisfies the equations lists sequences.
LEMMA ListType ==
    ASSUME Numbers, NEW N \in Nat, NEW E \in SUBSET (0 .. N), NEW T, NEW first \in [E -> T],
           NEW next \in [E -> 0 .. N], \A i \in E : i < next[i],
           NEW f, DOMAIN f = 0 .. N, Lists(f, E, first, next)
    PROVE  \A i \in 0 .. N : f[i] \in Seq(T)
<1> DEFINE P(k) == \A i \in k .. N : f[i] \in Seq(T)
           K == {k \in 0 .. (N + 1) : P(k)}
<1>1. P(N + 1)
  OBVIOUS
<1>2. K \in SUBSET Nat /\ K # {}
  <2> HIDE DEF P
  <2> QED
    BY <1>1
<1>3. PICK k \in K : \A m \in K : k <= m
  BY <1>2, LeastNat, Zenon
<1>4. CASE k = 0
  BY <1>3, <1>4, Zenon
<1>5. CASE k # 0
  <2>1. k - 1 \in 0 .. N /\ \A i \in (k - 1) .. N : i = k - 1 \/ i \in k .. N
    BY <1>3, <1>5
  <2>2. f[k - 1] \in Seq(T)
    <3>1. CASE k - 1 \in E
      <4>1. next[k - 1] \in k .. N /\ first[k - 1] \in T
        BY <2>1, <3>1
      <4>2. f[next[k - 1]] \in Seq(T)
        BY <4>1, <1>3, Zenon
      <4>3. f[k - 1] = <<first[k - 1]>> \o f[next[k - 1]]
        BY <2>1, <3>1, Zenon DEF Lists
      <4> QED
        BY <4>1, <4>2, <4>3
    <3>2. CASE k - 1 \notin E
      <4>1. f[k - 1] = <<>>
        BY <2>1, <3>2, Zenon DEF Lists
      <4> QED
        BY <4>1
    <3> QED
      BY <3>1, <3>2, Zenon
  <2>3. k - 1 \in K
    BY <2>1, <2>2, <1>3
  <2> QED
    BY <2>1, <2>3, <1>3
<1> QED
  BY <1>4, <1>5, Zenon

\* The equations of a search among the spans S
Searched(f, S, utf8, cont) ==
    \A n \in Starts :
        /\ Ahead(S, n) = {} => f[n] = <<>>
        /\ Ahead(S, n) # {} =>
              f[n] = <<Leftmost(Ahead(S, n))>> \o f[Least(Behind(Leftmost(Ahead(S, n)), utf8, cont))]

GoodSpans(S, cont) ==
    /\ S \subseteq Spans /\ cont \subseteq 1 .. (Length - 1)
    /\ \A s \in S : s[1] <= s[2]

\* The leftmost span ahead, and that the place behind it lies ahead of the start
LEMMA SearchGoesOn ==
    ASSUME Numbers, Length \in Nat, NEW S, NEW cont, GoodSpans(S, cont), NEW utf8 \in BOOLEAN,
           NEW n \in Starts, Ahead(S, n) # {}, NEW s, s = Leftmost(Ahead(S, n))
    PROVE  /\ s \in S /\ n <= s[1] /\ \A r \in Ahead(S, n) : s[1] <= r[1]
           /\ Least(Behind(s, utf8, cont)) \in Starts
           /\ n < Least(Behind(s, utf8, cont))
<1> DEFINE A == Ahead(S, n)
           F == {r[1] : r \in A}
           B == Behind(s, utf8, cont)
<1>1. A \subseteq S /\ \A r \in A : r[1] \in Nat /\ n <= r[1]
  BY DEF Ahead, GoodSpans, Spans, Starts
<1>2. F \in SUBSET Nat /\ F # {}
  BY <1>1, Zenon
<1>3. PICK m \in F : \A k \in F : m <= k
  BY <1>2, LeastNat, Zenon
<1>4. PICK r \in A : r[1] = m
  BY <1>3, Zenon
<1>5. \A x \in A : r[1] <= x[1]
  BY <1>3, <1>4, Zenon
<1> HIDE DEF A, F
<1>6. s \in A /\ \A x \in A : s[1] <= x[1]
  BY <1>4, <1>5, Zenon DEF A, Leftmost
<1>7. /\ s[1] \in 0 .. Length /\ s[2] \in 0 .. Length /\ s[1] <= s[2]
      /\ cont \subseteq 1 .. (Length - 1)
  BY <1>1, <1>6, Zenon DEF GoodSpans, Spans
<1>8. B \in SUBSET Nat /\ Length + 1 \in B
  BY <1>7 DEF Behind
<1>9. PICK b \in B : \A x \in B : b <= x
  BY <1>8, LeastNat, Zenon
<1>10. \A x \in B : x \in Starts /\ n < x
  BY <1>1, <1>6, <1>7 DEF Behind, Starts
<1> HIDE DEF B
<1>11. Least(B) \in B
  BY <1>9, Zenon DEF Least
<1> QED
  BY <1>1, <1>6, <1>10, <1>11, Zenon DEF A, B

\* MatchesFrom is what its definition says: the search ends whatever the spans are.
LEMMA MatchesSearch ==
    ASSUME Numbers, Length \in Nat, NEW S, NEW cont, GoodSpans(S, cont), NEW utf8 \in BOOLEAN
    PROVE  /\ Searched(MatchesFrom(S, utf8, cont), S, utf8, cont)
           /\ \A n \in Starts : MatchesFrom(S, utf8, cont)[n] \in Seq(Spans)
<1> DEFINE E == {n \in Starts : Ahead(S, n) # {}}
           first == [n \in E |-> Leftmost(Ahead(S, n))]
           next == [n \in E |-> Least(Behind(first[n], utf8, cont))]
           R(f, n) == IF Ahead(S, n) = {} THEN <<>>
                      ELSE <<Leftmost(Ahead(S, n))>>
                           \o f[Least(Behind(Leftmost(Ahead(S, n)), utf8, cont))]
           M == MatchesFrom(S, utf8, cont)
<1>1. M = CHOOSE f : f = [n \in Starts |-> R(f, n)]
  BY Zenon DEF MatchesFrom, Ahead, Leftmost, Least, Starts
<1>2. /\ E \in SUBSET (0 .. (Length + 1)) /\ first \in [E -> Spans]
      /\ next \in [E -> 0 .. (Length + 1)] /\ \A n \in E : n < next[n]
  <2>1. ASSUME NEW n \in E
        PROVE  first[n] \in Spans /\ next[n] \in 0 .. (Length + 1) /\ n < next[n]
    <3>1. /\ n \in Starts /\ Ahead(S, n) # {} /\ first[n] = Leftmost(Ahead(S, n))
          /\ next[n] = Least(Behind(first[n], utf8, cont))
      BY Zenon
    <3>2. first[n] \in S /\ next[n] \in Starts /\ n < next[n]
      BY <3>1, SearchGoesOn, Zenon
    <3> QED
      BY <3>2, Zenon DEF GoodSpans, Starts
  <2>2. E \in SUBSET (0 .. (Length + 1))
    BY Zenon DEF Starts
  <2>3. first = [n \in E |-> first[n]] /\ next = [n \in E |-> next[n]]
    BY Zenon
  <2> HIDE DEF E, first, next
  <2> QED
    BY <2>1, <2>2, <2>3, Zenon
<1>3. \A f : DOMAIN f = Starts =>
         (Lists(f, E, first, next) <=> \A n \in Starts : f[n] = R(f, n))
  <2> SUFFICES ASSUME NEW f, DOMAIN f = Starts, NEW n \in Starts
               PROVE  R(f, n) = IF n \in E THEN <<first[n]>> \o f[next[n]] ELSE <<>>
    BY Zenon DEF Lists
  <2> QED
    BY Zenon
<1>4. \E f : f = [n \in Starts |-> R(f, n)]
  <2>1. PICK f \in [0 .. (Length + 1) -> Seq(Spans)] : Lists(f, E, first, next)
    <3> HIDE DEF E, first, next
    <3>1. Length + 1 \in Nat
      OBVIOUS
    <3> QED
      BY <1>2, <3>1, ListExists, Zenon
  <2>2. DOMAIN f = Starts /\ f = [n \in Starts |-> f[n]]
    BY <2>1, Zenon DEF Starts
  <2> HIDE DEF R, E, first, next
  <2>3. f = [n \in Starts |-> R(f, n)]
    BY <1>3, <2>1, <2>2, Zenon
  <2> QED
    BY <2>3, Zenon
<1>5. M = [n \in Starts |-> R(M, n)]
  <2> HIDE DEF R, M
  <2> QED
    BY <1>1, <1>4, Zenon
<1>6. DOMAIN M = Starts /\ \A n \in Starts : M[n] = R(M, n)
  <2> HIDE DEF R, M
  <2> QED
    BY <1>5, Zenon
<1>7. \A n \in Starts : M[n] \in Seq(Spans)
  <2>1. Lists(M, E, first, next)
    <3> HIDE DEF R, M, E, first, next
    <3> QED
      BY <1>3, <1>6, Zenon
  <2> HIDE DEF M, E, first, next
  <2>2. Length + 1 \in Nat /\ DOMAIN M = 0 .. (Length + 1)
    BY <1>6 DEF Starts
  <2>3. \A n \in 0 .. (Length + 1) : M[n] \in Seq(Spans)
    BY <1>2, <2>1, <2>2, ListType, Zenon
  <2> QED
    BY <2>3, Zenon DEF Starts
<1>8. Searched(M, S, utf8, cont)
  <2> HIDE DEF M
  <2> QED
    BY <1>6, Zenon DEF Searched
<1> QED
  BY <1>7, <1>8, Zenon

\* From start n on, PCRE finds the leftmost match and then what it finds from the
\* offset at which the runtime starts it again.
LEMMA NextMatch ==
    ASSUME Numbers, db \in Databases, TextOK, NEW p \in Ids, NEW n \in Starts
    PROVE  /\ Remaining(p, n) \in Seq(Spans)
           /\ SpansFrom(p, n) = {} => Remaining(p, n) = <<>>
           /\ SpansFrom(p, n) # {} =>
                 LET s == pcre_exec(p, n)
                 IN Remaining(p, n) = <<s>> \o Remaining(p, NextStart(p, s[1], s[2]))
<1> DEFINE S == text.spans[p]
           u == db[p].utf8
           c == text.cont
           M == MatchesFrom(S, u, c)
           s == pcre_exec(p, n)
<1>1. Length \in Nat /\ u \in BOOLEAN /\ GoodSpans(S, c) /\ n \in Nat
  BY Patterns DEF TextOK, GoodSpans, IsPattern, Starts
<1>2. Searched(M, S, u, c) /\ \A k \in Starts : M[k] \in Seq(Spans)
  <2> HIDE DEF S, u, c
  <2> QED
    BY <1>1, MatchesSearch, Zenon
<1>3. SpansFrom(p, n) = Ahead(S, n) /\ \A k : Remaining(p, k) = M[k]
  BY Zenon DEF SpansFrom, Ahead, Remaining
<1>4. ASSUME SpansFrom(p, n) # {}
      PROVE  s = Leftmost(Ahead(S, n)) /\ Least(Behind(s, u, c)) = NextStart(p, s[1], s[2])
  <2>1. s = Leftmost(Ahead(S, n))
    BY <1>3, <1>4, Zenon DEF pcre_exec, Leftmost
  <2>2. s \in text.spans[p]
    BY <1>1, <1>4, ExecFinds, Zenon DEF SpansFrom
  <2> HIDE DEF s
  <2> DEFINE k == NextStart(p, s[1], s[2])
             B == Behind(s, u, c)
  <2>3. k \in B /\ k \in Nat /\ \A m \in B : k <= m /\ m \in Nat
    <3>1. k \in B /\ k \in 0 .. (Length + 1) /\ \A m \in B : k <= m
      BY <2>2, StartBehind, Zenon
    <3>2. \A m \in B : m \in Nat
      <4>1. s[2] \in Nat
        BY <1>1, <2>2 DEF GoodSpans, Spans
      <4> QED
        BY <1>1, <4>1 DEF Behind
    <3> QED
      BY <3>1, <3>2, <1>1, Zenon
  <2> HIDE DEF k, B
  <2>4. \A m \in B : (\A j \in B : m <= j) => m = k
    BY <2>3
  <2>5. Least(B) = k
    <3>1. Least(B) \in B /\ \A j \in B : Least(B) <= j
      BY <2>3, Zenon DEF Least
    <3> QED
      BY <3>1, <2>4, Zenon
  <2> QED
    BY <2>1, <2>5, Zenon DEF B, k
<1> HIDE DEF M, S, u, c, s
<1>5. ASSUME SpansFrom(p, n) # {}
      PROVE  Remaining(p, n) = <<s>> \o Remaining(p, NextStart(p, s[1], s[2]))
  <2>1. M[n] = <<Leftmost(Ahead(S, n))>> \o M[Least(Behind(Leftmost(Ahead(S, n)), u, c))]
    BY <1>2, <1>3, <1>5, Zenon DEF Searched
  <2> QED
    BY <1>3, <1>4, <1>5, <2>1, Zenon
<1>6. Remaining(p, n) \in Seq(Spans) /\ (SpansFrom(p, n) = {} => Remaining(p, n) = <<>>)
  BY <1>2, <1>3, Zenon DEF Searched
<1> QED
  BY <1>5, <1>6, Zenon DEF s

----------------------------------------------------------------------------
\* What was delivered

\* f lists for each length the spans of p among the first items of q.
Tallies(f, q, p) ==
    \A n \in DOMAIN f :
        f[n] = IF n = 0 THEN <<>>
               ELSE IF q[n].id = p THEN Append(f[n - 1], SpanOf(q[n])) ELSE f[n - 1]

\* The list exists.
LEMMA TallyExists ==
    ASSUME Numbers, NEW q \in Seq(Items), NEW p
    PROVE  \E f \in [0 .. Len(q) -> Seq(Spans)] : Tallies(f, q, p)
<1> DEFINE N == Len(q)
           P(k) == \E f \in [0 .. (N - k) -> Seq(Spans)] : Tallies(f, q, p)
           K == {k \in 0 .. N : P(k)}
<1>0. N \in Nat /\ \A i \in 1 .. N : q[i] \in Items
  OBVIOUS
<1> HIDE DEF N
<1>1. P(N)
  <2> DEFINE f == [i \in 0 .. (N - N) |-> <<>>]
  <2>1. f \in [0 .. (N - N) -> Seq(Spans)]
    OBVIOUS
  <2>2. Tallies(f, q, p)
    BY <1>0 DEF Tallies
  <2> QED
    BY <2>1, <2>2, Zenon
<1>2. K \in SUBSET Nat /\ K # {}
  <2> HIDE DEF P
  <2> QED
    BY <1>0, <1>1
<1>3. PICK k \in K : \A m \in K : k <= m
  BY <1>2, LeastNat, Zenon
<1>4. CASE k = 0
  <2>1. N - 0 = N
    BY <1>0
  <2> QED
    BY <1>3, <1>4, <2>1, Zenon DEF N
<1>5. CASE k # 0
  <2> DEFINE j == N - k
  <2>1. k - 1 \in 0 .. N /\ j \in Nat /\ j + 1 \in 1 .. N /\ N - (k - 1) = j + 1
    BY <1>0, <1>3, <1>5, SMTT(30)
  <2>2. PICK f \in [0 .. j -> Seq(Spans)] : Tallies(f, q, p)
    BY <1>3, Zenon
  <2> HIDE DEF j
  <2> DEFINE v == IF q[j + 1].id = p THEN Append(f[j], SpanOf(q[j + 1])) ELSE f[j]
             g == [i \in 0 .. (j + 1) |-> IF i = j + 1 THEN v ELSE f[i]]
  <2>3. \A i \in 0 .. (j + 1) : i = j + 1 \/ i \in 0 .. j
    BY <2>1
  <2>4. v \in Seq(Spans)
    <3>1. f[j] \in Seq(Spans) /\ SpanOf(q[j + 1]) \in Spans
      <4>1. q[j + 1] \in Items
        BY <2>1, <1>0, Zenon
      <4>2. SpanOf(q[j + 1]) \in Spans
        BY <4>1, Zenon DEF Items, Spans, SpanOf
      <4> QED
        BY <2>1, <2>2, <4>2, SMTT(30)
    <3> QED
      BY <3>1
  <2>5. g \in [0 .. (j + 1) -> Seq(Spans)]
    <3> HIDE DEF v
    <3> QED
      BY <2>2, <2>3, <2>4, Zenon
  <2>6. Tallies(g, q, p)
    <3> SUFFICES ASSUME NEW i \in 0 .. (j + 1)
                 PROVE  g[i] = IF i = 0 THEN <<>>
                               ELSE IF q[i].id = p THEN Append(g[i - 1], SpanOf(q[i]))
                               ELSE g[i - 1]
      BY Zenon DEF Tallies
    <3>1. i # 0 => g[i - 1] = f[i - 1]
      <4> HIDE DEF v
      <4> QED
        BY <2>1
    <3>2. CASE i = j + 1
      <4>1. i # 0 /\ i - 1 = j
        BY <2>1, <3>2
      <4> QED
        BY <3>1, <3>2, <4>1, Zenon
    <3>3. CASE i # j + 1
      <4>1. i \in 0 .. j /\ g[i] = f[i]
        BY <2>3, <3>3, Zenon
      <4>2. f[i] = IF i = 0 THEN <<>>
                   ELSE IF q[i].id = p THEN Append(f[i - 1], SpanOf(q[i])) ELSE f[i - 1]
        BY <2>2, <4>1, Zenon DEF Tallies
      <4> QED
        BY <3>1, <4>1, <4>2, Zenon
    <3> QED
      BY <3>2, <3>3, Zenon
  <2>7. P(k - 1)
    <3> HIDE DEF g
    <3> QED
      BY <2>1, <2>5, <2>6, Zenon
  <2> HIDE DEF P
  <2>8. k - 1 \in K
    BY <2>1, <2>7, Zenon
  <2> QED
    BY <1>0, <1>3, <2>1, <2>8, SMTT(30)
<1> QED
  BY <1>4, <1>5, Zenon

\* The first N items of q and r are the same.
Agree(q, r, N) == \A i \in 1 .. N : q[i] = r[i]

Covers(f, N) == 0 .. N \subseteq DOMAIN f

\* There is only one list, also when more items follow.
LEMMA TallyUnique ==
    ASSUME Numbers, NEW N \in Nat, NEW q, NEW r, Agree(q, r, N), NEW p,
           NEW f, NEW g, Covers(f, N), Covers(g, N), Tallies(f, q, p), Tallies(g, r, p)
    PROVE  f[N] = g[N]
<1> USE DEF Agree, Covers
<1> DEFINE K == {n \in 0 .. N : f[n] # g[n]}
<1> SUFFICES ASSUME K # {} PROVE FALSE
  OBVIOUS
<1>1. PICK n \in K : \A m \in K : n <= m
  <2>1. K \in SUBSET Nat
    OBVIOUS
  <2> QED
    BY <2>1, LeastNat, Zenon
<1>2. n \in 0 .. N /\ f[n] # g[n]
  BY <1>1, Zenon
<1>3. /\ f[n] = IF n = 0 THEN <<>>
                ELSE IF q[n].id = p THEN Append(f[n - 1], SpanOf(q[n])) ELSE f[n - 1]
      /\ g[n] = IF n = 0 THEN <<>>
                ELSE IF r[n].id = p THEN Append(g[n - 1], SpanOf(r[n])) ELSE g[n - 1]
  BY <1>2, Zenon DEF Tallies
<1>4. n # 0 => n - 1 \in 0 .. N /\ n \in 1 .. N /\ n - 1 < n
  BY <1>2
<1>5. n # 0 => f[n - 1] = g[n - 1]
  BY <1>1, <1>4
<1>6. n # 0 => q[n] = r[n]
  BY <1>4, Zenon
<1> QED
  BY <1>2, <1>3, <1>5, <1>6, Zenon

\* SpansOf is the last entry of the list.
LEMMA SpansOfTally ==
    ASSUME Numbers, NEW q \in Seq(Items), NEW p
    PROVE  \E f \in [0 .. Len(q) -> Seq(Spans)] : Tallies(f, q, p) /\ SpansOf(q, p) = f[Len(q)]
<1> DEFINE D == 0 .. Len(q)
           R(f, n) == IF n = 0 THEN <<>>
                      ELSE IF q[n].id = p THEN Append(f[n - 1], SpanOf(q[n])) ELSE f[n - 1]
           F == CHOOSE f : f = [n \in D |-> R(f, n)]
<1>1. SpansOf(q, p) = F[Len(q)]
  BY Zenon DEF SpansOf, SpanOf
<1>2. PICK f \in [D -> Seq(Spans)] : Tallies(f, q, p)
  BY TallyExists, Zenon
<1>3. \A h : DOMAIN h = D => (Tallies(h, q, p) <=> \A n \in D : h[n] = R(h, n))
  BY Zenon DEF Tallies
<1> HIDE DEF R, D
<1>4. f = [n \in D |-> R(f, n)]
  BY <1>2, <1>3, Zenon
<1>5. F = [n \in D |-> R(F, n)]
  BY <1>4, Zenon
<1> HIDE DEF F
<1>6. DOMAIN F = D /\ Tallies(F, q, p)
  BY <1>3, <1>5, Zenon
<1>7. Len(q) \in Nat /\ D = 0 .. Len(q)
  BY DEF D
<1>8. F[Len(q)] = f[Len(q)]
  <2>1. Covers(f, Len(q)) /\ Covers(F, Len(q)) /\ Agree(q, q, Len(q))
    BY <1>2, <1>6, <1>7, Zenon DEF Covers, Agree
  <2>2. Tallies(f, q, p) /\ Tallies(F, q, p) /\ Len(q) \in Nat /\ Numbers
    BY <1>2, <1>6, <1>7, Zenon
  <2> QED
    BY <2>1, <2>2, TallyUnique
<1> QED
  BY <1>1, <1>2, <1>7, <1>8, Zenon

\* Delivering an item adds its span to those of its pattern and to no other.
LEMMA SpansOfAppend ==
    ASSUME Numbers, NEW q \in Seq(Items), NEW x \in Items, NEW p
    PROVE  /\ SpansOf(q, p) \in Seq(Spans)
           /\ SpansOf(Append(q, x), p) =
                 IF x.id = p THEN Append(SpansOf(q, p), SpanOf(x)) ELSE SpansOf(q, p)
<1> SUFFICES ASSUME NEW r, r = Append(q, x), NEW N, N = Len(q)
             PROVE  /\ SpansOf(q, p) \in Seq(Spans)
                    /\ SpansOf(r, p) =
                          IF x.id = p THEN Append(SpansOf(q, p), SpanOf(x)) ELSE SpansOf(q, p)
  BY Zenon
<1>1. /\ N \in Nat /\ r \in Seq(Items) /\ Len(r) = N + 1 /\ r[N + 1] = x
      /\ \A i \in 1 .. N : q[i] = r[i]
  OBVIOUS
<1>2. PICK f \in [0 .. N -> Seq(Spans)] : Tallies(f, q, p) /\ SpansOf(q, p) = f[N]
  BY SpansOfTally, Zenon
<1>3. PICK g \in [0 .. (N + 1) -> Seq(Spans)] : Tallies(g, r, p) /\ SpansOf(r, p) = g[N + 1]
  <2>1. \E g \in [0 .. Len(r) -> Seq(Spans)] : Tallies(g, r, p) /\ SpansOf(r, p) = g[Len(r)]
    BY <1>1, SpansOfTally, Zenon
  <2> QED
    BY <2>1, <1>1, Zenon
<1>4. N \in 0 .. N /\ N + 1 \in 0 .. (N + 1) /\ N + 1 # 0 /\ (N + 1) - 1 = N
  BY <1>1
<1>5. f[N] = g[N]
  <2>1. Covers(f, N) /\ Covers(g, N) /\ Agree(q, r, N)
    BY <1>1, <1>2, <1>3 DEF Covers, Agree
  <2>2. Tallies(f, q, p) /\ Tallies(g, r, p) /\ N \in Nat /\ Numbers
    BY <1>1, <1>2, <1>3, Zenon
  <2> QED
    BY <2>1, <2>2, TallyUnique
<1>6. g[N + 1] = IF x.id = p THEN Append(g[N], SpanOf(x)) ELSE g[N]
  <2>1. N + 1 \in DOMAIN g
    BY <1>3, <1>4, Zenon
  <2> QED
    BY <1>1, <1>3, <1>4, <2>1, Zenon DEF Tallies
<1> QED
  BY <1>2, <1>3, <1>4, <1>5, <1>6, Zenon

\* Nothing was delivered yet.
LEMMA SpansOfNone ==
    ASSUME Numbers, NEW p
    PROVE  SpansOf(<<>>, p) = <<>>
<1>1. <<>> \in Seq(Items) /\ Len(<<>>) = 0 /\ 0 \in 0 .. 0
  OBVIOUS
<1>2. PICK f \in [0 .. Len(<<>>) -> Seq(Spans)] :
         Tallies(f, <<>>, p) /\ SpansOf(<<>>, p) = f[Len(<<>>)]
  BY <1>1, SpansOfTally, Zenon
<1>3. 0 \in DOMAIN f
  BY <1>1, <1>2, Zenon
<1> QED
  BY <1>1, <1>2, <1>3, Zenon DEF Tallies

----------------------------------------------------------------------------
\* What a delivery does

\* e is d and the first of the matches m behind it, r the rest of m.
Moved(T, m, d, r, e) ==
    /\ m \in Seq(T) /\ e \in Seq(T) /\ m = e \o r /\ m # <<>>
    /\ Len(e) \in 0 .. Len(m) /\ e = SubSeq(m, 1, Len(e))
    /\ d = <<>> => e = <<Head(m)>>

\* The first of the matches that are still to come moves to the end of those that were
\* delivered.
LEMMA MoveFirst ==
    ASSUME NEW T, NEW d \in Seq(T), NEW x \in T, NEW r \in Seq(T),
           NEW m, m = d \o (<<x>> \o r), NEW e, e = Append(d, x)
    PROVE  Moved(T, m, d, r, e)
<1>1. <<x>> \o r \in Seq(T) /\ Len(<<x>> \o r) = Len(r) + 1 /\ Len(d) \in Nat /\ Len(r) \in Nat
  OBVIOUS
<1>2. /\ m \in Seq(T) /\ Len(m) = Len(d) + Len(r) + 1
      /\ e \in Seq(T) /\ Len(e) = Len(d) + 1
  BY <1>1
<1>3. /\ e \o r \in Seq(T) /\ Len(e \o r) = Len(d) + Len(r) + 1
  BY <1>1, <1>2
<1>4. \A i \in 1 .. Len(m) : m[i] = (e \o r)[i]
  <2> SUFFICES ASSUME NEW i \in 1 .. Len(m) PROVE m[i] = (e \o r)[i]
    BY Zenon
  <2>1. CASE i <= Len(d)
    BY <2>1, <1>1, <1>2
  <2>2. CASE i = Len(d) + 1
    BY <2>2, <1>1, <1>2, SMTT(30)
  <2>3. CASE i > Len(d) + 1
    BY <2>3, <1>1, <1>2, SMTT(30)
  <2> QED
    BY <2>1, <2>2, <2>3, <1>1, <1>2, SMTT(30)
<1>5. m = e \o r
  BY <1>2, <1>3, <1>4, SMTT(30)
<1>6. m # <<>> /\ Len(e) \in 0 .. Len(m)
  BY <1>1, <1>2
<1>7. e = SubSeq(m, 1, Len(e))
  <2>1. \A i \in 1 .. Len(e) : e[i] = m[i]
    BY <1>1, <1>2, <1>5
  <2> QED
    BY <1>1, <1>2, <1>6, <2>1, SMTT(30)
<1>8. d = <<>> => e = <<Head(m)>>
  <2> SUFFICES ASSUME d = <<>> PROVE e = <<Head(m)>>
    BY Zenon
  <2>1. m = <<x>> \o r
    OBVIOUS
  <2>2. Head(m) = x
    BY <2>1
  <2> QED
    BY <2>2
<1> QED
  BY <1>2, <1>5, <1>6, <1>7, <1>8, Zenon DEF Moved

\* What PCRE alone finds does not change in a scan.
LEMMA SameMatches ==
    ASSUME db' = db, text' = text, NEW p
    PROVE  /\ Matches(p)' = Matches(p) /\ Due(p)' = Due(p)
           /\ \A n : MatchesFrom(text'.spans[p], db'[p].utf8, text'.cont)[n] = Remaining(p, n)
  BY Zenon DEF Matches, Due, Remaining

\* When nothing was delivered, that is a beginning of what is due.
LEMMA NoneIsPart ==
    ASSUME Numbers, db \in Databases, TextOK, NEW p \in Ids, Delivered(p) = <<>>
    PROVE  Partly(p)
<1>1. Matches(p) \in Seq(Spans)
  <2>1. 0 \in Starts
    BY Patterns DEF Starts
  <2> QED
    BY <2>1, NextMatch, Zenon DEF Remaining, Matches
<1>2. Due(p) \in Seq(Spans)
  BY <1>1 DEF Due
<1>3. Len(Due(p)) \in Nat /\ SubSeq(Due(p), 1, 0) = <<>>
  BY <1>2
<1>4. 0 \in 0 .. Len(Due(p))
  BY <1>3, SMTT(30)
<1> QED
  BY <1>3, <1>4, Zenon DEF Partly

\* The callback for a match that is owed: what was delivered stays a beginning of what is
\* due, and what is owed is what follows; a single-match pattern is done.
LEMMA DeliverOwed ==
    ASSUME Numbers, db \in Databases, out \in Seq(Items), db' = db, text' = text,
           NEW x \in Items, out' = Append(out, x), NEW r \in Seq(Spans),
           Owed(x.id, <<SpanOf(x)>> \o r)
    PROVE  /\ Partly(x.id)'
           /\ ~db[x.id].single => Matches(x.id)' = Delivered(x.id)' \o r
           /\ db[x.id].single => (Delivered(x.id) = Due(x.id))'
<1> DEFINE p == x.id
<1> SUFFICES ASSUME NEW d, d = Delivered(p), NEW m, m = Matches(p),
                    NEW e, e = Append(d, SpanOf(x))
             PROVE  /\ Partly(p)'
                    /\ ~db[p].single => Matches(p)' = Delivered(p)' \o r
                    /\ db[p].single => (Delivered(p) = Due(p))'
  BY Zenon
<1>1. SpanOf(x) \in Spans
  BY Zenon DEF Items, Spans, SpanOf
<1>2. d \in Seq(Spans) /\ Delivered(p)' = e
  BY SpansOfAppend, Zenon DEF Delivered
<1>3. m = d \o (<<SpanOf(x)>> \o r) /\ (db[p].single => d = <<>>)
  BY Zenon DEF Owed
<1>4. Matches(p)' = m /\ Due(p)' = Due(p)
  BY SameMatches, Zenon
<1>5. /\ m \in Seq(Spans) /\ e \in Seq(Spans) /\ m = e \o r /\ m # <<>>
      /\ Len(e) \in 0 .. Len(m) /\ e = SubSeq(m, 1, Len(e))
      /\ d = <<>> => e = <<Head(m)>>
  <2>1. Moved(Spans, m, d, r, e)
    BY <1>1, <1>2, <1>3, MoveFirst, Zenon
  <2> QED
    BY <2>1, Zenon DEF Moved
<1>6. CASE ~db[p].single
  <2>1. Due(p) = m
    BY <1>6, Zenon DEF Due
  <2>2. Partly(p)'
    BY <1>2, <1>4, <1>5, <2>1, Zenon DEF Partly
  <2> QED
    BY <1>2, <1>4, <1>5, <1>6, <2>2, Zenon
<1>7. CASE db[p].single
  <2>1. Due(p) = e
    BY <1>3, <1>5, <1>7, Zenon DEF Due
  <2>2. Len(e) \in 0 .. Len(e) /\ e = SubSeq(e, 1, Len(e))
    BY <1>5
  <2>3. Partly(p)'
    BY <1>2, <1>4, <2>1, <2>2, Zenon DEF Partly
  <2> QED
    BY <1>2, <1>4, <1>7, <2>1, <2>3, Zenon
<1> QED
  BY <1>6, <1>7, Zenon

\* A pattern that a step has nothing to do with
Untouched(p) ==
    /\ Delivered(p)' = Delivered(p) /\ scanStart'[p] = scanStart[p]
    /\ p \in active' <=> p \in active
    /\ p \in given' <=> p \in given
    /\ \A x : x.id = p => (x \in Elems(queue') <=> x \in Elems(queue))
    /\ Resumes(p)' <=> Resumes(p)

\* ... is as far as it was before.
LEMMA UntouchedProgress ==
    ASSUME db' = db, text' = text, NEW p, Untouched(p)
    PROVE  /\ Partly(p) => Partly(p)'
           /\ Progress(p) => Progress(p)'
<1>1. /\ Matches(p)' = Matches(p) /\ Due(p)' = Due(p)
      /\ \A n : MatchesFrom(text'.spans[p], db'[p].utf8, text'.cont)[n] = Remaining(p, n)
  BY SameMatches, Zenon
<1>2. Partly(p) => Partly(p)'
  BY <1>1, Zenon DEF Partly, Untouched
<1>3. Remaining(p, scanStart[p])' = Remaining(p, scanStart[p])
  BY <1>1, Zenon DEF Remaining, Untouched
<1>4. \A s : Owed(p, s)' <=> Owed(p, s)
  BY <1>1, Zenon DEF Owed, Untouched
<1>5. Queued(p)' <=> Queued(p)
  BY Zenon DEF Queued, Untouched
<1>6. ASSUME Progress(p) PROVE Progress(p)'
  BY <1>1, <1>3, <1>4, <1>5, <1>6, Zenon DEF Progress, Untouched
<1> QED
  BY <1>2, <1>6, Zenon

\* ExactInv after a step, from its parts
LEMMA ExactParts ==
    ASSUME db' = db, \A p \in Ids : Partly(p)',
           \/ pc' # "idle" \/ result' # CH_SUCCESS
           \/ \A p \in Ids : p \notin given' => (Delivered(p) = Due(p))',
           halted' = "no" /\ pc' # "idle" => Followed' /\ \A p \in Ids : Progress(p)'
    PROVE  ExactInv'
<1>1. Ids' = Ids
  BY SameDb, Zenon
<1>2. ExactMatches'
  BY <1>1, Zenon DEF ExactMatches, Partly
<1> QED
  BY <1>1, <1>2, Zenon DEF ExactInv

----------------------------------------------------------------------------
\* A pattern becomes known, and its next match is queued

Item(p, s) == [from |-> s[1], to |-> s[2], id |-> p]

\* All patterns but p are as far as they were.
OnlyTouches(p) == \A r \in Ids \ {p} : Untouched(r)

\* A step that works on p, and delivers nothing, has nothing to do with the others.
LEMMA OthersUntouched ==
    ASSUME NEW p, out' = out, \A r \in Ids \ {p} : scanStart'[r] = scanStart[r],
           active' = active \/ active' = active \union {p},
           given' = given \/ given' = given \union {p},
           \A x : x.id # p => (x \in Elems(queue') <=> x \in Elems(queue)),
           \A r \in Ids \ {p} : ~Resumes(r)' /\ ~Resumes(r)
    PROVE  OnlyTouches(p)
<1> SUFFICES ASSUME NEW r \in Ids \ {p} PROVE Untouched(r)
  BY Zenon DEF OnlyTouches
<1>1. Delivered(r)' = Delivered(r)
  BY Zenon DEF Delivered
<1>2. (r \in active' <=> r \in active) /\ (r \in given' <=> r \in given)
  BY Zenon
<1> QED
  BY <1>1, <1>2, Zenon DEF Untouched

\* r is the queue q with the match s of p.
Grown(r, q, p, s) ==
    /\ Elems(r) = Elems(q) \union {Item(p, s)}
    /\ Item(p, s).id = p /\ SpanOf(Item(p, s)) = s

\* Queueing a match adds one item, of its pattern.
LEMMA Enqueued ==
    ASSUME Numbers, ChimeraInv, NEW p \in Ids, NEW s \in text.spans[p],
           NEW q \in Seq(Items), Sorted(q), NEW r, r = PqInsert(q, s[1], s[2], p)
    PROVE  Grown(r, q, p, s)
<1>1. db \in Databases /\ TextOK /\ Items \subseteq NatItems
  BY Patterns, Zenon DEF ChimeraInv, TypeOK
<1>2. s = <<s[1], s[2]>> /\ [from |-> s[1], to |-> s[2], id |-> p] \in Items
  BY <1>1, SpanItem, Zenon
<1>3. Adds(r, q, Item(p, s))
  BY <1>1, <1>2, Inserted, ZenonT(30) DEF Item
<1>4. Item(p, s).id = p /\ SpanOf(Item(p, s)) = <<s[1], s[2]>>
  BY Zenon DEF Item, SpanOf
<1> QED
  BY <1>2, <1>3, <1>4, Zenon DEF Adds, Grown

\* What is owed of p from start n on begins with the match s: it is queued, and the
\* rest is owed from where PCRE is started next.
LEMMA QueuedIsOwed ==
    ASSUME Numbers, ChimeraInv, db' = db, text' = text, NEW p \in Ids, NEW n \in Starts,
           SpansFrom(p, n) # {}, NEW s, s = pcre_exec(p, n),
           Matches(p) = Delivered(p)' \o Remaining(p, n), db[p].single => Delivered(p)' = <<>>,
           NEW q, \A x \in Elems(q) : x.id # p, Grown(queue', q, p, s),
           scanStart'[p] = NextStart(p, s[1], s[2]), p \in active'
    PROVE  Progress(p)'
<1>1. db \in Databases /\ TextOK
  BY Zenon DEF ChimeraInv, TypeOK
<1>2. Remaining(p, n) = <<s>> \o Remaining(p, scanStart'[p])
  BY <1>1, NextMatch, Zenon
<1>3. /\ Matches(p)' = Matches(p)
      /\ Remaining(p, scanStart[p])' = Remaining(p, scanStart'[p])
  BY SameMatches, Zenon DEF Remaining
<1>4. \A x \in Elems(queue') : x.id = p => SpanOf(x) = s
  BY Zenon DEF Grown
<1>5. Queued(p)'
  BY Zenon DEF Queued, Grown
<1>6. Owed(p, <<s>> \o Remaining(p, scanStart[p]))'
  BY <1>2, <1>3, Zenon DEF Owed
<1> QED
  BY <1>4, <1>5, <1>6, Zenon DEF Progress

\* A pattern of which nothing was delivered owes all its matches.
LEMMA OwesAll ==
    ASSUME Numbers, ChimeraInv, NEW p \in Ids
    PROVE  /\ Matches(p) \in Seq(Spans) /\ Matches(p) = <<>> \o Remaining(p, 0) /\ 0 \in Starts
           /\ SpansFrom(p, 0) = {} => Matches(p) = <<>> /\ Due(p) = <<>>
<1>1. db \in Databases /\ TextOK /\ 0 \in Starts
  BY Patterns DEF ChimeraInv, TypeOK, Starts
<1>2. /\ Remaining(p, 0) \in Seq(Spans) /\ Matches(p) = Remaining(p, 0)
      /\ SpansFrom(p, 0) = {} => Remaining(p, 0) = <<>>
  BY <1>1, NextMatch, Zenon DEF Remaining, Matches
<1>3. <<>> \o Remaining(p, 0) = Remaining(p, 0)
  <2> SUFFICES ASSUME NEW r \in Seq(Spans) PROVE <<>> \o r = r
    BY <1>2, Zenon
  <2> QED
    OBVIOUS
<1> QED
  BY <1>1, <1>2, <1>3, Zenon DEF Due

\* What scanPcre found is what pcre_exec returns.
LEMMA FoundSpan ==
    ASSUME NEW p, NEW start, NEW o \in ScanOutcomes(p, start), Found(o)
    PROVE  o.span = pcre_exec(p, start) /\ SpansFrom(p, start) # {}
<1>1. o.span = pcre_exec(p, start)
  BY DEF Found, ScanOutcomes
<1> QED
  BY <1>1, Zenon DEF Found, pcre_exec

\* PCRE looks for the first match of p (initQueue, or the first event of a prefilter).
LEMMA FirstScan ==
    ASSUME Numbers, ChimeraInv, halted = "no", NEW p \in Ids \ active, Progress(p),
           NEW o \in ScanOutcomes(p, 0), NEW n,
           active' = active \union {p}, queue' = ScanQueue(queue, p, o),
           scanStart' = [scanStart EXCEPT ![p] = ScanNext(p, o, n)],
           given' = IF Lost(p, 0, o) THEN given \union {p} ELSE given,
           db' = db, text' = text, out' = out, pc # "resume", pc' # "resume"
    PROVE  OnlyTouches(p) /\ Progress(p)'
<1>1. /\ db \in Databases /\ TextOK /\ queue \in Seq(Items) /\ Sorted(queue) /\ p \in Ids
      /\ \A x \in Elems(queue) : x.id # p
      /\ DOMAIN scanStart = Ids /\ 0 \in Nat
  BY Zenon DEF ChimeraInv, TypeOK, QueueInv, LiveInv
<1>2. Found(o) => o.span = pcre_exec(p, 0) /\ SpansFrom(p, 0) # {}
  BY FoundSpan, Zenon
<1>3. Found(o) => o.span \in text.spans[p]
  BY <1>1, Outcomes, Zenon
<1>4. ASSUME Found(o)
      PROVE  Grown(queue', queue, p, o.span)
  <2>1. queue' = PqInsert(queue, o.span[1], o.span[2], p) /\ o.span \in text.spans[p]
    BY <1>3, <1>4, Zenon DEF ScanQueue
  <2> QED
    BY <1>1, <2>1, Enqueued, Zenon
<1>5. ~Found(o) => queue' = queue
  BY Zenon DEF ScanQueue
<1>6. /\ scanStart'[p] = ScanNext(p, o, n)
      /\ \A r \in Ids \ {p} : scanStart'[r] = scanStart[r]
  BY <1>1, Zenon
<1>7. OnlyTouches(p)
  <2>1. \A x : x.id # p => (x \in Elems(queue') <=> x \in Elems(queue))
    BY <1>4, <1>5, Zenon DEF Grown
  <2>2. \A r \in Ids \ {p} : ~Resumes(r)' /\ ~Resumes(r)
    BY Zenon DEF Resumes
  <2>3. given' = given \/ given' = given \union {p}
    BY Zenon
  <2> QED
    BY <1>6, <2>1, <2>2, <2>3, OthersUntouched, ZenonT(30)
<1>8. Delivered(p)' = <<>> /\ Delivered(p) = <<>> /\ p \in active'
  BY Zenon DEF Progress, Delivered
<1>9. /\ Matches(p) = <<>> \o Remaining(p, 0) /\ 0 \in Starts
      /\ SpansFrom(p, 0) = {} => Due(p) = <<>>
  BY <1>1, OwesAll, Zenon
<1>10. CASE Found(o)
  <2>1. /\ SpansFrom(p, 0) # {} /\ o.span = pcre_exec(p, 0)
        /\ scanStart'[p] = NextStart(p, o.span[1], o.span[2])
        /\ Grown(queue', queue, p, o.span)
    BY <1>2, <1>4, <1>6, <1>10, Zenon DEF ScanNext
  <2>2. Matches(p) = Delivered(p)' \o Remaining(p, 0)
    BY <1>8, <1>9, Zenon
  <2> QED
    BY <1>1, <1>7, <1>8, <1>9, <2>1, <2>2, QueuedIsOwed, ZenonT(30)
<1>11. CASE ~Found(o)
  <2>1. \A x \in Elems(queue') : x.id # p
    BY <1>1, <1>5, <1>11, Zenon
  <2>2. p \notin given' => Due(p)' = <<>>
    <3>1. p \notin given' => SpansFrom(p, 0) = {}
      BY <1>11, Zenon DEF Lost
    <3>2. Due(p)' = Due(p)
      BY SameMatches, Zenon
    <3> QED
      BY <1>9, <3>1, <3>2, Zenon
  <2>3. ~Resumes(p)'
    BY Zenon DEF Resumes
  <2>4. Progress(p)'
    BY <1>8, <2>1, <2>2, <2>3, Zenon DEF Progress
  <2> QED
    BY <1>7, <2>4, Zenon
<1> QED
  BY <1>10, <1>11, Zenon

----------------------------------------------------------------------------
\* The steps keep the invariant

\* What a step that delivers nothing leaves of what was delivered
LEMMA SamePartly ==
    ASSUME ExactInv, db' = db, text' = text, out' = out
    PROVE  \A p \in Ids : Partly(p)'
<1> SUFFICES ASSUME NEW p \in Ids PROVE Partly(p)'
  BY Zenon
<1>1. Partly(p)
  BY Zenon DEF ExactInv, ExactMatches, Partly
<1>2. Due(p)' = Due(p) /\ Delivered(p)' = Delivered(p)
  BY SameMatches, Zenon DEF Delivered
<1> QED
  BY <1>1, <1>2, Zenon DEF Partly

\* A step on pattern p keeps the progress of the others.
LEMMA OneTouched ==
    ASSUME ExactInv, halted = "no", pc # "idle", db' = db, text' = text,
           NEW p, OnlyTouches(p)
    PROVE  /\ \A r \in Ids \ {p} : Partly(r)' /\ Progress(r)'
           /\ Progress(p)' => \A r \in Ids : Progress(r)'
           /\ Partly(p)' => \A r \in Ids : Partly(r)'
<1>1. ASSUME NEW r \in Ids \ {p}
      PROVE  Partly(r)' /\ Progress(r)'
  <2>1. Partly(r) /\ Progress(r) /\ Untouched(r)
    BY Zenon DEF ExactInv, ExactMatches, Partly, OnlyTouches
  <2> QED
    BY <2>1, UntouchedProgress, Zenon
<1> QED
  BY <1>1, Zenon

\* A step that leaves the queue alone, and what belongs to it, keeps all progress.
LEMMA NoneTouched ==
    ASSUME ExactInv, UNCHANGED <<db, text, out, active, scanStart, given, queue>>,
           pc # "resume", pc' # "resume"
    PROVE  /\ \A r \in Ids : Partly(r)'
           /\ halted = "no" /\ pc # "idle" => \A r \in Ids : Progress(r)'
<1>1. ASSUME NEW r \in Ids PROVE Untouched(r)
  BY Zenon DEF Untouched, Delivered, Resumes
<1>2. \A r \in Ids : Partly(r)'
  BY SamePartly, Zenon
<1>3. ASSUME halted = "no", pc # "idle", NEW r \in Ids PROVE Progress(r)'
  BY <1>1, <1>3, UntouchedProgress, Zenon DEF ExactInv
<1> QED
  BY <1>2, <1>3, Zenon

\* A new scan: nothing is delivered, and no pattern is known.
LEMMA ScanExact ==
    ASSUME Numbers, ChimeraInv', ch_scan
    PROVE  ExactInv'
<1>1. /\ db' = db /\ out' = <<>> /\ active' = {} /\ pc' = "init" /\ left' = Unguarded
      /\ halted' = "no"
  BY Zenon DEF ch_scan
<1>2. \A p : Delivered(p)' = <<>>
  BY <1>1, SpansOfNone, Zenon DEF Delivered
<1>3. ASSUME NEW p \in Ids PROVE Partly(p)'
  <2> SUFFICES ASSUME NEW d, d = Due(p)' PROVE \E n \in 0 .. Len(d) : <<>> = SubSeq(d, 1, n)
    BY <1>2, Zenon DEF Partly
  <2>1. /\ Ids' = Ids /\ db \in Databases /\ Length \in Nat /\ IsPattern(db[p])
    <3>1. db' \in Databases
      BY Zenon DEF ChimeraInv, TypeOK
    <3>2. db \in Databases
      BY <1>1, <3>1, Zenon
    <3> QED
      BY <1>1, <3>2, Patterns, SameDb, Zenon
  <2>2. GoodSpans(text'.spans[p], text'.cont) /\ db[p].utf8 \in BOOLEAN
    BY <2>1, Zenon DEF ChimeraInv, TextOK, GoodSpans, IsPattern
  <2>3. MatchesFrom(text'.spans[p], db[p].utf8, text'.cont)[0] \in Seq(Spans)
    <3>1. 0 \in Starts
      BY <2>1 DEF Starts
    <3> QED
      BY <2>1, <2>2, <3>1, MatchesSearch, Zenon
  <2>4. Matches(p)' \in Seq(Spans)
    BY <1>1, <2>3, Zenon DEF Matches
  <2>5. d \in Seq(Spans)
    <3>1. d = IF db[p].single /\ Matches(p)' # <<>> THEN <<Head(Matches(p)')>> ELSE Matches(p)'
      BY <1>1, Zenon DEF Due
    <3> SUFFICES ASSUME NEW m \in Seq(Spans), m # <<>> PROVE <<Head(m)>> \in Seq(Spans)
      BY <2>4, <3>1, Zenon
    <3> QED
      OBVIOUS
  <2>6. 0 \in 0 .. Len(d) /\ SubSeq(d, 1, 0) = <<>>
    BY <2>5
  <2> QED
    BY <2>6, Zenon
<1>4. Followed' /\ \A p \in Ids : Progress(p)'
  <2>1. Followed'
    BY <1>1, SameDb, Zenon DEF Followed, Scanning
  <2> QED
    BY <1>1, <1>2, <2>1, Zenon DEF Progress
<1> QED
  BY <1>1, <1>3, <1>4, ExactParts, Zenon

\* Who stopped the scan, and what it returns
LEMMA StopTells ==
    ASSUME NEW o, Stops(o)
    PROVE  Halter(o) # "no" /\ ScanError(o) # CH_SUCCESS
  BY DEF Stops, Halter, ScanError, CH_SUCCESS, CH_SCAN_TERMINATED, CH_CALLBACK_TERMINATE,
         CH_FAIL_INTERNAL

\* initQueue scans a pattern.
LEMMA InitPatternExact ==
    ASSUME Numbers, ChimeraInv, ExactInv, pc = "init", NEW p \in left,
           NEW o \in ScanOutcomes(p, 0), InitPattern(p, o)
    PROVE  ExactInv'
<1>1. /\ active' = active \union {p} /\ left' = left \ {p}
      /\ queue' = ScanQueue(queue, p, o)
      /\ given' = (IF Lost(p, 0, o) THEN given \union {p} ELSE given)
      /\ IF Stops(o) THEN Return(ScanError(o)) /\ unmarkScratchInUse /\ halted' = Halter(o)
         ELSE UNCHANGED <<pc, result, inUse, halted>>
      /\ UNCHANGED <<db, text, ret, at, raised, event, scans, out>>
  BY Zenon DEF InitPattern
<1>2. /\ halted = "no" /\ p \in Ids \ active /\ DOMAIN scanStart = Ids
  BY Zenon DEF ChimeraInv, TypeOK, CallInv, StageInv, Unguarded
<1>3. Followed /\ \A r \in Ids : Progress(r)
  BY <1>2, Zenon DEF ExactInv
<1>4. PICK n : scanStart' = [scanStart EXCEPT ![p] = ScanNext(p, o, n)]
  BY Zenon DEF InitPattern
<1>5. pc' # "resume" /\ pc' \in {"init", "idle"}
  BY <1>1, Zenon DEF Return
<1>6. OnlyTouches(p) /\ Progress(p)'
  BY <1>1, <1>2, <1>3, <1>4, <1>5, FirstScan, Zenon
<1>7. \A r \in Ids : Partly(r)' /\ Progress(r)'
  BY <1>1, <1>2, <1>6, OneTouched, SamePartly, Zenon
<1>8. halted' = "no" => Followed'
  <2>1. Unguarded' = Unguarded
    BY <1>1, SameDb, Zenon
  <2>2. Unguarded \ left \subseteq active
    BY <1>3, Zenon DEF Followed
  <2> QED
    BY <1>1, <1>5, <2>1, <2>2, StopTells, Zenon DEF Followed, Scanning
<1>9. pc' # "idle" \/ result' # CH_SUCCESS
  BY <1>1, StopTells, Zenon DEF Return
<1> QED
  BY <1>1, <1>7, <1>8, <1>9, ExactParts, Zenon

\* initQueue is done: the patterns it scanned are all known.
LEMMA InitDoneExact ==
    ASSUME ChimeraInv, ExactInv, InitDone
    PROVE  ExactInv'
<1>1. /\ pc = "init" /\ left = {} /\ pc' \in {"flush", "hyperscan"}
      /\ pc' = "flush" => Unguarded = Ids
      /\ UNCHANGED <<db, text, inUse, active, scanStart, match, queue, ret, left, at, raised,
                     event, result, scans, out, given, halted>>
  BY Zenon DEF InitDone, CHIMERA_FLAG_NO_MULTIMATCH
<1>2. halted = "no" /\ active \subseteq Unguarded
  BY <1>1, Zenon DEF ChimeraInv, CallInv, StageInv
<1>3. Unguarded \subseteq active
  BY <1>1, <1>2, Zenon DEF ExactInv, Followed
<1>4. \A p \in active : ~Fixed(p)
  BY <1>2, Zenon DEF Unguarded, Fixed
<1>5. Unguarded' = Unguarded /\ Ids' = Ids /\ \A p : Fixed(p)' = Fixed(p)
  BY <1>1, SameDb, Zenon
<1>6. Followed'
  BY <1>1, <1>3, <1>4, <1>5, Zenon DEF Followed
<1>7. \A r \in Ids : Partly(r)' /\ Progress(r)'
  BY <1>1, <1>2, NoneTouched, Zenon
<1> QED
  BY <1>1, <1>6, <1>7, ExactParts, Zenon

\* A callback for the top of the queue: it was owed, and only its pattern gets a match.
LEMMA DeliverExact ==
    ASSUME Numbers, ChimeraInv, ExactInv, Deliver, CatchupConsts, NEW p, p = Top.id
    PROVE  /\ p \in Ids /\ p \in active /\ halted = "no" /\ pc \in {"catchup", "flush"}
           /\ db' = db /\ text' = text /\ active' = active
           /\ Followed /\ \A r \in Ids : Partly(r)'
           /\ \A r \in Ids \ {p} : Delivered(r)' = Delivered(r)
           /\ ~db[p].single =>
                 Matches(p)' = Delivered(p)' \o Remaining(p, scanStart[p])
           /\ db[p].single => (Delivered(p) = Due(p))'
           /\ \A x : x.id # p => (x \in Elems(Tail(queue)) <=> x \in Elems(queue))
           /\ \A x \in Elems(Tail(queue)) : x.id # p
           /\ Tail(queue) \in Seq(Items) /\ Sorted(Tail(queue))
           /\ scanStart[p] \in Starts
<1>1. /\ halted = "no" /\ Top \in Items /\ Top \in Elems(queue) /\ p \in Ids
      /\ p \in active /\ Removes(Tail(queue), queue, Top) /\ Distinct(queue)
      /\ out' = Append(out, Top) /\ Tail(queue) \in Seq(Items)
  BY Delivery, Zenon
<1>2. /\ db \in Databases /\ TextOK /\ out \in Seq(Items) /\ pc \in {"catchup", "flush"}
      /\ db' = db /\ text' = text /\ active' = active
      /\ scanStart \in [Ids -> 0 .. (Length + 1)]
  BY Zenon DEF ChimeraInv, TypeOK, Deliver, InCatchup, CatchupConsts
<1>3. Followed /\ Progress(p) /\ \A r \in Ids : Partly(r)
  BY <1>1, <1>2, Zenon DEF ExactInv, ExactMatches, Partly
<1>4. scanStart[p] \in Starts
  BY <1>1, <1>2, Zenon DEF Starts
<1>5. Remaining(p, scanStart[p]) \in Seq(Spans)
  BY <1>1, <1>2, <1>4, NextMatch, Zenon
<1>6. PICK x \in Items : x \in Elems(queue) /\ x.id = p /\ out' = Append(out, x)
  BY <1>1, Zenon
<1>7. /\ Partly(p)'
      /\ ~db[p].single =>
            Matches(p)' = Delivered(p)' \o Remaining(p, scanStart[p])
      /\ db[p].single => (Delivered(p) = Due(p))'
  <2>1. Owed(x.id, <<SpanOf(x)>> \o Remaining(p, scanStart[p]))
    BY <1>1, <1>3, <1>6, Zenon DEF Progress
  <2>2. /\ Partly(x.id)'
        /\ ~db[x.id].single =>
              Matches(x.id)' = Delivered(x.id)' \o Remaining(p, scanStart[p])
        /\ db[x.id].single => (Delivered(x.id) = Due(x.id))'
    BY <1>2, <1>5, <1>6, <2>1, DeliverOwed, Zenon
  <2> QED
    BY <1>6, <2>2, Zenon
<1>8. \A r \in Ids \ {p} : Delivered(r)' = Delivered(r)
  BY <1>2, <1>6, SpansOfAppend, Zenon DEF Delivered
<1>9. \A r \in Ids : Partly(r)'
  <2> SUFFICES ASSUME NEW r \in Ids \ {p} PROVE Partly(r)'
    BY <1>7, Zenon
  <2> QED
    BY <1>2, <1>3, <1>8, SameMatches, Zenon DEF Partly
<1>10. /\ \A y : y.id # p => (y \in Elems(Tail(queue)) <=> y \in Elems(queue))
       /\ \A y \in Elems(Tail(queue)) : y.id # p
       /\ Sorted(Tail(queue))
  BY <1>1, Zenon DEF Removes
<1> QED
  BY <1>1, <1>2, <1>3, <1>4, <1>7, <1>8, <1>9, <1>10, ZenonT(30)

\* The other patterns, when catchupPcre goes on or has reached the pattern of the event
LEMMA DeliverTouches ==
    ASSUME Numbers, ChimeraInv, ExactInv, Deliver, CatchupConsts, NEW p, p = Top.id,
           \A r \in Ids \ {p} : scanStart'[r] = scanStart[r],
           given' = given \/ given' = given \union {p},
           \A x : x.id # p => (x \in Elems(queue') <=> x \in Elems(Tail(queue))),
           pc' # "resume" \/ p = event.id
    PROVE  OnlyTouches(p)
<1>1. /\ active' = active /\ event' = event /\ pc # "resume"
      /\ \A r \in Ids \ {p} : Delivered(r)' = Delivered(r)
      /\ \A x : x.id # p => (x \in Elems(Tail(queue)) <=> x \in Elems(queue))
  BY DeliverExact, Zenon DEF CatchupConsts
<1> SUFFICES ASSUME NEW r \in Ids \ {p} PROVE Untouched(r)
  BY Zenon DEF OnlyTouches
<1>2. ~Resumes(r) /\ ~Resumes(r)'
  BY <1>1, Zenon DEF Resumes
<1>3. r \in given' <=> r \in given
  BY Zenon
<1>4. \A x : x.id = r => (x \in Elems(queue') <=> x \in Elems(queue))
  BY <1>1, Zenon
<1> QED
  BY <1>1, <1>2, <1>3, <1>4, Zenon DEF Untouched

\* A pattern that catchupPcre works on is scanned from no earlier offset, or from the end
\* of the data: no match of Hyperscan is passed over.
LEMMA DeliverFollowed ==
    ASSUME Numbers, ChimeraInv, Followed, Deliver, CatchupConsts,
           pc' = pc \/ (pc = "catchup" /\ pc' = "resume"), given \subseteq given',
           \A r \in Ids : scanStart'[r] \in Nat,
           \A r \in Ids : scanStart[r] <= scanStart'[r] \/ Length <= scanStart'[r],
           pc = "catchup" => event.id \in given' \/ scanStart'[event.id] = scanStart[event.id]
    PROVE  Followed'
<1>1. /\ db' = db /\ text' = text /\ active' = active /\ left' = left /\ at' = at
      /\ raised' = raised /\ event' = event /\ pc \in {"catchup", "flush"}
  BY Zenon DEF CatchupConsts, Deliver, InCatchup
<1>2. /\ Ids' = Ids /\ Unguarded' = Unguarded /\ \A p : Fixed(p)' = Fixed(p)
  BY <1>1, SameDb, Zenon
<1>3. ASSUME NEW p \in active, Fixed(p), ~db[p].single, NEW s \in text.spans[p],
             Reported(p, s), ~Current(p, s)', Scanning'
      PROVE  s[1] < scanStart'[p]
  <2>1. ~Current(p, s) /\ Scanning
    BY <1>1, <1>3, Zenon DEF Current, Scanning
  <2>2. s[1] < scanStart[p]
    BY <1>3, <2>1, Zenon DEF Followed
  <2>3. /\ p \in Ids /\ Length \in Nat /\ s \in Spans /\ scanStart[p] \in 0 .. (Length + 1)
        /\ 0 < db[p].minWidth /\ s[2] = s[1] + db[p].minWidth /\ db[p].minWidth \in Nat
    <3>1. db \in Databases /\ p \in Ids /\ TextOK /\ scanStart \in [Ids -> 0 .. (Length + 1)]
      BY <1>3, Zenon DEF ChimeraInv, TypeOK
    <3>2. IsPattern(db[p]) /\ Length \in Nat
      BY <3>1, Patterns, Zenon
    <3> QED
      BY <1>3, <3>1, <3>2, Zenon DEF TextOK, IsPattern
  <2>4. s[1] < Length /\ s[1] \in Nat
    <3>1. s[1] \in 0 .. Length /\ s[2] \in 0 .. Length
      BY <2>3, Zenon DEF Spans
    <3> DEFINE a == s[1]
               b == s[2]
               w == db[p].minWidth
    <3>2. a \in Nat /\ b \in Nat /\ b <= Length /\ 0 < w /\ w \in Nat /\ b = a + w
      BY <2>3, <3>1, SMTT(30)
    <3> HIDE DEF a, b, w
    <3>3. a < Length /\ a \in Nat
      BY <2>3, <3>2, SMTT(30)
    <3> QED
      BY <3>3, Zenon DEF a
  <2>5. scanStart'[p] \in Nat /\ scanStart[p] \in Nat /\ Length \in Nat
    BY <2>3
  <2>6. scanStart[p] <= scanStart'[p] \/ Length <= scanStart'[p]
    BY <2>3, Zenon
  <2> DEFINE a == s[1]
             m == scanStart[p]
             n == scanStart'[p]
  <2>7. a \in Nat /\ m \in Nat /\ n \in Nat /\ a < m /\ a < Length /\ (m <= n \/ Length <= n)
    BY <2>2, <2>4, <2>5, <2>6, Zenon
  <2> HIDE DEF a, m, n
  <2>8. a < n
    BY <2>5, <2>7
  <2> QED
    BY <2>8, Zenon DEF a, n
<1>4. \A p, s : Reported(p, s)' = Reported(p, s)
  BY <1>1, Zenon DEF Reported
<1>5. pc' \in {"catchup", "resume"} =>
         /\ event.id \notin given' => scanStart'[event.id] <= event.from
         /\ \A s \in text.spans[event.id] : s[2] < event.to => Reported(event.id, s)
  BY <1>1, Zenon DEF Followed
<1>6. /\ pc' # "init" /\ pc' # "idle" /\ pc' # "scanned" /\ Unguarded \subseteq active
      /\ pc' = "flush" => \A p \in Ids \ active : text.spans[p] = {}
  BY <1>1, Zenon DEF Followed
<1>7. Scanning' => \A p \in active' : Fixed(p)' /\ ~db'[p].single =>
          \A s \in text'.spans[p] : Reported(p, s)' /\ ~Current(p, s)' => s[1] < scanStart'[p]
  BY <1>1, <1>2, <1>3, <1>4, Zenon
<1> QED
  BY <1>1, <1>2, <1>5, <1>6, <1>7, <1>4, Zenon DEF Followed

\* The callback stops the scan.
LEMMA TerminatedExact ==
    ASSUME Numbers, ChimeraInv, ExactInv, Terminated
    PROVE  ExactInv'
<1>1. Deliver /\ CatchupConsts /\ halted' = "user" /\ Leave(CH_SCAN_TERMINATED)
  BY Zenon DEF Terminated
<1>2. db' = db /\ \A r \in Ids : Partly(r)'
  BY <1>1, DeliverExact, Zenon
<1>3. pc' # "idle" \/ result' # CH_SUCCESS
  BY <1>1 DEF Leave, Return, CH_SCAN_TERMINATED, CH_SUCCESS
<1> QED
  BY <1>1, <1>2, <1>3, ExactParts, Zenon

\* The callback skips the pattern.
LEMMA SkippedExact ==
    ASSUME Numbers, ChimeraInv, ExactInv, Skipped
    PROVE  ExactInv'
<1>0. PICK p : p = Top.id
  BY Zenon
<1>1. /\ Deliver /\ CatchupConsts /\ queue' = Tail(queue) /\ halted' = halted
      /\ scanStart' = [scanStart EXCEPT ![p] = Length] /\ given' = given \union {p}
      /\ IF p = event.id THEN Leave(CH_SUCCESS) ELSE UNCHANGED <<pc, ret, result, inUse>>
  BY <1>0, Zenon DEF Skipped, Top
<1>2. /\ p \in Ids /\ p \in active /\ halted = "no" /\ pc \in {"catchup", "flush"}
      /\ db' = db /\ text' = text /\ active' = active
      /\ Followed /\ \A r \in Ids : Partly(r)'
      /\ \A x \in Elems(Tail(queue)) : x.id # p
  BY <1>0, <1>1, DeliverExact, Zenon
<1>3. pc = "flush" => p # event.id
  BY <1>0, <1>1, Delivery, Zenon
<1>4. /\ pc' = pc \/ (pc = "catchup" /\ pc' = "resume" /\ p = event.id)
      /\ pc' # "idle"
  BY <1>1, <1>2, <1>3, Zenon DEF Leave
<1>5. /\ scanStart \in [Ids -> 0 .. (Length + 1)] /\ Length \in Nat
  BY ChimeraAssumption, Zenon DEF ChimeraInv, TypeOK
<1>6. /\ scanStart'[p] = Length
      /\ \A r \in Ids \ {p} : scanStart'[r] = scanStart[r]
  BY <1>1, <1>2, <1>5, Zenon
<1>7. /\ \A r \in Ids : scanStart'[r] \in Nat
      /\ \A r \in Ids : scanStart[r] <= scanStart'[r] \/ Length <= scanStart'[r]
  BY <1>5, <1>6
<1>8. pc = "catchup" => event.id \in given' \/ scanStart'[event.id] = scanStart[event.id]
  <2>1. pc = "catchup" => event.id \in Ids
    BY Zenon DEF ChimeraInv, EventInv, Items
  <2> QED
    BY <1>1, <1>6, <2>1, Zenon
<1>9. Followed'
  BY <1>1, <1>2, <1>4, <1>7, <1>8, DeliverFollowed, ZenonT(30)
<1>10. OnlyTouches(p)
  BY <1>1, <1>2, <1>4, <1>6, <1>0, DeliverTouches, ZenonT(30)
<1>11. Progress(p)'
  BY <1>1, <1>2, Zenon DEF Progress
<1>12. \A r \in Ids : Progress(r)'
  BY <1>2, <1>10, <1>11, OneTouched, Zenon
<1> QED
  BY <1>2, <1>4, <1>9, <1>12, ExactParts, ZenonT(30)

\* The earlier match of the pattern that Hyperscan reports has been delivered.
LEMMA CaughtUpExact ==
    ASSUME Numbers, ChimeraInv, ExactInv, CaughtUp
    PROVE  ExactInv'
<1>0. PICK p : p = Top.id
  BY Zenon
<1>1. /\ Deliver /\ CatchupConsts /\ queue' = Tail(queue) /\ halted' = halted
      /\ scanStart' = scanStart /\ given' = given /\ p = event.id /\ Leave(CH_SUCCESS)
  BY <1>0, Zenon DEF CaughtUp, Top
<1>2. /\ p \in Ids /\ p \in active /\ halted = "no"
      /\ db' = db /\ text' = text /\ active' = active /\ event' = event
      /\ Followed /\ \A r \in Ids : Partly(r)'
      /\ ~db[p].single =>
            Matches(p)' = Delivered(p)' \o Remaining(p, scanStart[p])
      /\ \A x \in Elems(Tail(queue)) : x.id # p
  BY <1>0, <1>1, DeliverExact, Zenon DEF CatchupConsts
<1>3. pc = "catchup" /\ pc' = "resume" /\ ~db[p].single
  <2>1. pc = "catchup"
    BY <1>0, <1>1, Delivery, Zenon
  <2> QED
    BY <1>1, <2>1, Zenon DEF Leave, ChimeraInv, EventInv
<1>4. /\ \A r \in Ids : scanStart'[r] \in Nat
      /\ \A r \in Ids : scanStart[r] <= scanStart'[r] \/ Length <= scanStart'[r]
  <2>1. scanStart \in [Ids -> 0 .. (Length + 1)] /\ Length \in Nat
    BY ChimeraAssumption, Zenon DEF ChimeraInv, TypeOK
  <2> QED
    BY <1>1, <2>1, SMTT(30)
<1>5. Followed'
  BY <1>1, <1>2, <1>3, <1>4, DeliverFollowed, Zenon
<1>6. OnlyTouches(p)
  BY <1>0, <1>1, DeliverTouches, Zenon
<1>7. Progress(p)'
  <2>1. Remaining(p, scanStart[p])' = Remaining(p, scanStart[p])
    BY <1>1, <1>2, SameMatches, Zenon DEF Remaining
  <2>2. Owed(p, Remaining(p, scanStart[p]))'
    BY <1>2, <1>3, <2>1, Zenon DEF Owed
  <2>3. Resumes(p)' /\ \A x \in Elems(queue') : x.id # p
    BY <1>1, <1>2, <1>3, Zenon DEF Resumes
  <2> QED
    BY <1>2, <2>2, <2>3, Zenon DEF Progress
<1>8. \A r \in Ids : Progress(r)'
  BY <1>2, <1>3, <1>6, <1>7, OneTouched, Zenon
<1> QED
  BY <1>2, <1>3, <1>5, <1>8, ExactParts, ZenonT(30)

\* A step of catchupPcre after a delivery that goes on with the loop
LEMMA GoesOnExact ==
    ASSUME Numbers, ChimeraInv, ExactInv, Deliver, CatchupConsts, NEW p, p = Top.id,
           p # event.id, pc' = pc, halted' = halted, DOMAIN scanStart' = Ids,
           \A r \in Ids \ {p} : scanStart'[r] = scanStart[r], scanStart'[p] \in Nat,
           scanStart[p] <= scanStart'[p] \/ Length <= scanStart'[p],
           given' = given \/ given' = given \union {p},
           \A x : x.id # p => (x \in Elems(queue') <=> x \in Elems(Tail(queue))),
           Progress(p)'
    PROVE  ExactInv'
<1>1. /\ p \in Ids /\ p \in active /\ halted = "no" /\ pc \in {"catchup", "flush"}
      /\ db' = db /\ text' = text /\ Followed /\ \A r \in Ids : Partly(r)'
  BY DeliverExact, Zenon
<1>2. /\ scanStart \in [Ids -> 0 .. (Length + 1)] /\ Length \in Nat
  BY ChimeraAssumption, Zenon DEF ChimeraInv, TypeOK
<1>3. /\ \A r \in Ids : scanStart'[r] \in Nat
      /\ \A r \in Ids : scanStart[r] <= scanStart'[r] \/ Length <= scanStart'[r]
  BY <1>2
<1>4. pc = "catchup" => event.id \in given' \/ scanStart'[event.id] = scanStart[event.id]
  <2>1. pc = "catchup" => event.id \in Ids
    BY Zenon DEF ChimeraInv, EventInv, Items
  <2> QED
    BY <2>1, Zenon
<1>5. Followed'
  BY <1>1, <1>3, <1>4, DeliverFollowed, Zenon
<1>6. OnlyTouches(p)
  BY <1>1, DeliverTouches, Zenon
<1>7. \A r \in Ids : Progress(r)'
  BY <1>1, <1>6, OneTouched, Zenon
<1> QED
  BY <1>1, <1>5, <1>7, ExactParts, Zenon

\* When PCRE finds nothing from start n on, everything that is due was delivered.
LEMMA NothingLeft ==
    ASSUME Numbers, ChimeraInv, db' = db, text' = text, NEW p \in Ids, NEW n \in Starts,
           SpansFrom(p, n) = {}, out' \in Seq(Items), ~db[p].single,
           Matches(p)' = Delivered(p)' \o Remaining(p, n)
    PROVE  (Delivered(p) = Due(p))'
<1>1. db \in Databases /\ TextOK
  BY Zenon DEF ChimeraInv, TypeOK
<1>2. Remaining(p, n) = <<>>
  BY <1>1, NextMatch, Zenon
<1>3. Delivered(p)' \in Seq(Spans)
  <2>1. PICK q \in Seq(Items) : q = out'
    BY Zenon
  <2>2. PICK f \in [0 .. Len(q) -> Seq(Spans)] : SpansOf(q, p) = f[Len(q)]
    BY SpansOfTally, Zenon
  <2>3. Len(q) \in 0 .. Len(q)
    OBVIOUS
  <2> QED
    BY <2>1, <2>2, <2>3, Zenon DEF Delivered
<1>4. \A d \in Seq(Spans) : d \o <<>> = d
  OBVIOUS
<1>5. Matches(p)' = Delivered(p)'
  BY <1>2, <1>3, <1>4, Zenon
<1> QED
  BY <1>5, Zenon DEF Due

\* catchupPcre after a delivery: the next match of the pattern replaces the old one,
\* unless the pattern is single-match or at the end of the data.
LEMMA ContinuedExact ==
    ASSUME Numbers, ChimeraInv, ExactInv, Continued
    PROVE  ExactInv'
<1>0. PICK p : p = Top.id
  BY Zenon
<1>1. /\ Deliver /\ CatchupConsts /\ p # event.id
      /\ IF Rescans(p)
         THEN \E o \in ScanOutcomes(p, scanStart[p]) : Rescan(p, o)
         ELSE queue' = Tail(queue)
              /\ UNCHANGED <<scanStart, match, given, pc, ret, result, inUse, halted>>
  BY <1>0, Zenon DEF Continued, Top
<1>2. /\ p \in Ids /\ p \in active /\ halted = "no" /\ pc \in {"catchup", "flush"}
      /\ db' = db /\ text' = text /\ active' = active /\ event' = event
      /\ \A r \in Ids : Partly(r)'
      /\ ~db[p].single =>
            Matches(p)' = Delivered(p)' \o Remaining(p, scanStart[p])
      /\ db[p].single => (Delivered(p) = Due(p))'
      /\ \A x \in Elems(Tail(queue)) : x.id # p
      /\ Tail(queue) \in Seq(Items) /\ Sorted(Tail(queue))
      /\ scanStart[p] \in Starts
  BY <1>0, <1>1, DeliverExact, Zenon DEF CatchupConsts
<1>3. /\ scanStart \in [Ids -> 0 .. (Length + 1)] /\ Length \in Nat
      /\ db \in Databases /\ TextOK
  BY ChimeraAssumption, Zenon DEF ChimeraInv, TypeOK, ChimeraAssumption
<1>4. out' \in Seq(Items) /\ scanStart[p] \in Nat
  BY <1>1, <1>2, <1>3, Delivery, SMTT(30)
<1>5. ~Resumes(p)'
  BY <1>1, <1>2, Zenon DEF Resumes
<1>6. CASE ~Rescans(p)
  <2>1. /\ queue' = Tail(queue) /\ scanStart' = scanStart /\ given' = given /\ pc' = pc
        /\ halted' = halted
    BY <1>1, <1>6, Zenon
  <2>2. ~db[p].single => SpansFrom(p, scanStart[p]) = {}
    <3>1. ~db[p].single => Length < scanStart[p]
      BY <1>3, <1>4, <1>6, SMTT(30) DEF Rescans
    <3>2. text.spans[p] \subseteq Spans
      BY <1>2, <1>3, Zenon DEF TextOK
    <3>3. \A s \in Spans : s[1] \in 0 .. Length
      BY Zenon DEF Spans
    <3> HIDE DEF Spans
    <3> DEFINE n == scanStart[p]
    <3>4. n \in Nat
      BY <1>4, Zenon
    <3> HIDE DEF n
    <3>5. Length < n => \A i \in 0 .. Length : ~(i >= n)
      BY <1>3, <3>4, SMTT(30)
    <3>6. ~db[p].single => \A s \in text.spans[p] : ~(s[1] >= scanStart[p])
      BY <3>1, <3>2, <3>3, <3>5, Zenon DEF n
    <3> QED
      BY <3>6, Zenon DEF SpansFrom
  <2>3. (Delivered(p) = Due(p))'
    BY <1>2, <1>4, <2>2, NothingLeft, Zenon
  <2>4. Progress(p)'
    BY <1>2, <1>5, <2>1, <2>3, Zenon DEF Progress
  <2>5. /\ DOMAIN scanStart' = Ids /\ scanStart'[p] \in Nat /\ scanStart[p] <= scanStart'[p]
        /\ \A r \in Ids \ {p} : scanStart'[r] = scanStart[r]
    BY <1>3, <1>4, <2>1, SMTT(30)
  <2> QED
    BY <1>0, <1>1, <2>1, <2>4, <2>5, GoesOnExact, Zenon
<1>7. ASSUME Rescans(p), NEW o \in ScanOutcomes(p, scanStart[p]), Rescan(p, o), ~Stops(o)
      PROVE  ExactInv'
  <2>1. /\ queue' = ScanQueue(Tail(queue), p, o) /\ pc' = pc /\ halted' = halted
        /\ given' = IF Lost(p, scanStart[p], o) THEN given \union {p} ELSE given
        /\ scanStart' = [scanStart EXCEPT ![p] = ScanNext(p, o, Length)]
    BY <1>7, Zenon DEF Rescan
  <2>2. /\ DOMAIN scanStart' = Ids /\ scanStart'[p] = ScanNext(p, o, Length)
        /\ \A r \in Ids \ {p} : scanStart'[r] = scanStart[r]
    BY <1>2, <1>3, <2>1, Zenon
  <2>3. given' = given \/ given' = given \union {p}
    BY <2>1, Zenon
  <2>4. ~db[p].single
    BY <1>7, Zenon DEF Rescans
  <2>5. CASE Found(o)
    <3>1. /\ o.span = pcre_exec(p, scanStart[p]) /\ SpansFrom(p, scanStart[p]) # {}
          /\ o.span \in text.spans[p] /\ scanStart[p] <= o.span[1]
      BY <1>2, <1>3, <1>4, <1>7, <2>5, FoundSpan, Outcomes, ZenonT(30)
    <3>2. PICK s : s = o.span
      BY Zenon
    <3>3. /\ queue' = PqInsert(Tail(queue), s[1], s[2], p)
          /\ scanStart'[p] = NextStart(p, s[1], s[2])
      BY <2>1, <2>2, <2>5, <3>2, Zenon DEF ScanQueue, ScanNext
    <3>4. Grown(queue', Tail(queue), p, s)
      BY <1>2, <3>1, <3>2, <3>3, Enqueued, ZenonT(30)
    <3>5. Matches(p) = Delivered(p)' \o Remaining(p, scanStart[p])
      BY <1>2, <2>4, SameMatches, Zenon
    <3>6. Progress(p)'
      BY <1>2, <2>4, <3>1, <3>2, <3>3, <3>4, <3>5, QueuedIsOwed, ZenonT(30)
    <3>7. scanStart'[p] \in Nat /\ scanStart[p] <= scanStart'[p]
      <4>1. /\ NextStart(p, s[1], s[2]) \in 0 .. (Length + 1)
            /\ s[2] <= NextStart(p, s[1], s[2])
        BY <1>2, <1>3, <3>1, <3>2, StartBehind, ZenonT(30)
      <4>2. s[1] \in 0 .. Length /\ s[2] \in 0 .. Length /\ s[1] <= s[2]
        BY <1>2, <1>3, <3>1, <3>2, SpanItem, ZenonT(30)
      <4> DEFINE m == scanStart[p]
                 n == NextStart(p, s[1], s[2])
                 a == s[1]
                 b == s[2]
      <4>3. /\ n \in 0 .. (Length + 1) /\ b <= n /\ a \in 0 .. Length /\ b \in 0 .. Length
            /\ a <= b /\ m \in Nat /\ m <= a
        BY <1>4, <3>1, <3>2, <4>1, <4>2, ZenonT(30)
      <4> HIDE DEF m, n, a, b
      <4>4. n \in Nat /\ m <= n
        BY <1>3, <4>3, SMTT(30)
      <4> QED
        BY <3>3, <4>4, Zenon DEF m, n
    <3>8. \A x : x.id # p => (x \in Elems(queue') <=> x \in Elems(Tail(queue)))
      BY <3>4, Zenon DEF Grown
    <3> QED
      BY <1>0, <1>1, <2>1, <2>2, <2>3, <3>6, <3>7, <3>8, GoesOnExact, ZenonT(30)
  <2>6. CASE ~Found(o)
    <3>1. queue' = Tail(queue) /\ scanStart'[p] = Length
      BY <2>1, <2>2, <2>6, Zenon DEF ScanQueue, ScanNext
    <3>2. p \notin given' => SpansFrom(p, scanStart[p]) = {}
      BY <2>1, <2>6, Zenon DEF Lost
    <3>3. p \notin given' => (Delivered(p) = Due(p))'
      BY <1>2, <1>4, <2>4, <3>2, NothingLeft, ZenonT(30)
    <3>4. Progress(p)'
      BY <1>2, <1>5, <3>1, <3>3, ZenonT(30) DEF Progress
    <3>5. scanStart'[p] \in Nat /\ Length <= scanStart'[p]
      BY <1>3, <3>1, SMTT(30)
    <3> QED
      BY <1>0, <1>1, <2>1, <2>2, <2>3, <3>1, <3>4, <3>5, GoesOnExact, ZenonT(30)
  <2> QED
    BY <2>5, <2>6, Zenon
<1>8. ASSUME NEW o \in ScanOutcomes(p, scanStart[p]), Rescan(p, o), Stops(o)
      PROVE  ExactInv'
  <2>1. Leave(ScanError(o)) /\ halted' = Halter(o)
    BY <1>8, Zenon DEF Rescan
  <2>2. halted' # "no" /\ (pc' # "idle" \/ result' # CH_SUCCESS)
    <3>1. pc' = "idle" => result' = ScanError(o)
      BY <2>1, Zenon DEF Leave, Return
    <3> QED
      BY <1>8, <2>1, <3>1, StopTells, Zenon
  <2> QED
    BY <1>2, <2>2, ExactParts, Zenon
<1> QED
  BY <1>1, <1>6, <1>7, <1>8, Zenon

\* The scan ends: nothing is queued any more, and a pattern that was never reported has
\* no match.
LEMMA CatchupEndExact ==
    ASSUME Numbers, ChimeraInv, ExactInv, CatchupEnd
    PROVE  ExactInv'
<1>1. /\ UNCHANGED <<scanStart, match, out, given, halted>> /\ CatchupConsts
      /\ Leave(CH_SUCCESS) /\ queue = <<>> /\ pc = "flush" /\ halted = "no"
  BY EndsEmpty, Zenon DEF CatchupEnd
<1>2. pc' = "idle" /\ db' = db /\ text' = text /\ out' = out
  BY <1>1, Zenon DEF Leave, Return, CatchupConsts
<1>3. Followed /\ \A p \in Ids : Progress(p)
  BY <1>1, Zenon DEF ExactInv
<1>4. ASSUME NEW p \in Ids, p \notin given'
      PROVE  (Delivered(p) = Due(p))'
  <2>1. Due(p)' = Due(p) /\ Delivered(p)' = Delivered(p)
    BY <1>2, SameMatches, Zenon DEF Delivered
  <2>2. CASE p \in active
    <3>1. Elems(queue) = {}
      BY <1>1 DEF Elems
    <3>2. ~Queued(p) /\ ~Resumes(p) /\ p \notin given
      BY <1>1, <1>4, <3>1, Zenon DEF Queued, Resumes
    <3> QED
      BY <1>3, <2>1, <2>2, <3>2, Zenon DEF Progress
  <2>3. CASE p \notin active
    <3>1. text.spans[p] = {} /\ Delivered(p) = <<>>
      BY <1>1, <1>3, <2>3, Zenon DEF Followed, Progress
    <3>2. SpansFrom(p, 0) = {}
      BY <3>1, Zenon DEF SpansFrom
    <3> QED
      BY <2>1, <3>1, <3>2, OwesAll, Zenon
  <2> QED
    BY <2>2, <2>3, Zenon
<1> QED
  BY <1>1, <1>2, <1>4, SamePartly, ExactParts, Zenon

----------------------------------------------------------------------------
\* multiCallback

\* The spans of a pattern of fixed width, as numbers: they have a width, and start in the
\* order in which they end.
LEMMA FixedSpans ==
    ASSUME Numbers, ChimeraInv, NEW p \in Ids, Fixed(p)
    PROVE  /\ Length \in Nat /\ scanStart[p] \in Nat /\ at \in Nat /\ at <= Length
           /\ db[p].minWidth \in Nat
           /\ \A s \in text.spans[p] :
                 /\ s = <<s[1], s[2]>> /\ s[1] \in Nat /\ s[2] \in Nat /\ s[2] <= Length
                 /\ s[1] < s[2] /\ s[2] = s[1] + db[p].minWidth
           /\ \A s, r \in text.spans[p] :
                 /\ s[1] <= r[1] <=> s[2] <= r[2]
                 /\ s[1] = r[1] \/ s[2] = r[2] => s = r
<1>1. /\ db \in Databases /\ TextOK /\ scanStart \in [Ids -> 0 .. (Length + 1)]
      /\ at \in 0 .. Length
  BY Zenon DEF ChimeraInv, TypeOK
<1>2. Length \in Nat /\ IsPattern(db[p])
  BY <1>1, Patterns, Zenon
<1>3. scanStart[p] \in Nat /\ at \in Nat /\ at <= Length
  BY <1>1, <1>2, SMTT(30)
<1> DEFINE w == db[p].minWidth
           S == text.spans[p]
<1>4. w \in Nat
  BY <1>2, Zenon DEF IsPattern
<1>5. \A s \in S : /\ s = <<s[1], s[2]>> /\ s[1] \in 0 .. Length /\ s[2] \in 0 .. Length
                   /\ 0 < w /\ s[2] = s[1] + w
  BY <1>1, SpanItem, Zenon DEF TextOK
<1> HIDE DEF w, S
<1>6. \A s \in S : /\ s = <<s[1], s[2]>> /\ s[1] \in Nat /\ s[2] \in Nat /\ s[2] <= Length
                   /\ s[1] < s[2] /\ s[2] = s[1] + w
  <2> SUFFICES ASSUME NEW s \in S
               PROVE  /\ s[1] \in Nat /\ s[2] \in Nat /\ s[2] <= Length /\ s[1] < s[2]
    BY <1>5, Zenon
  <2> DEFINE a == s[1]
             b == s[2]
  <2>1. a \in 0 .. Length /\ b \in 0 .. Length /\ 0 < w /\ b = a + w
    BY <1>5, Zenon
  <2> HIDE DEF a, b
  <2>2. a \in Nat /\ b \in Nat /\ b <= Length /\ a < b
    BY <1>2, <1>4, <2>1, SMTT(30)
  <2> QED
    BY <2>2, Zenon DEF a, b
<1>7. ASSUME NEW s \in S, NEW r \in S
      PROVE  /\ s[1] <= r[1] <=> s[2] <= r[2]
             /\ s[1] = r[1] \/ s[2] = r[2] => s = r
  <2> DEFINE a == s[1]
             b == s[2]
             c == r[1]
             d == r[2]
  <2>1. /\ a \in Nat /\ b = a + w /\ c \in Nat /\ d = c + w
        /\ s = <<a, b>> /\ r = <<c, d>>
    BY <1>6, Zenon
  <2> HIDE DEF a, b, c, d
  <2>2. (a <= c <=> b <= d) /\ (a = c \/ b = d => a = c /\ b = d)
    BY <1>4, <2>1, SMTT(30)
  <2>3. a = c \/ b = d => s = r
    BY <2>1, <2>2, Zenon
  <2> QED
    BY <2>2, <2>3, Zenon DEF a, b, c, d
<1> QED
  BY <1>2, <1>3, <1>4, <1>5, <1>6, <1>7, ZenonT(30) DEF w, S

\* What Hyperscan reports of such a pattern is what PCRE would find, if no span that
\* starts at n or behind it ends before.
LEMMA FixedFinds ==
    ASSUME Numbers, ChimeraInv, NEW p \in Ids, Fixed(p), NEW n \in Starts,
           NEW s \in text.spans[p], n <= s[1],
           \A r \in text.spans[p] : r[2] < s[2] => r[1] < n
    PROVE  SpansFrom(p, n) # {} /\ s = pcre_exec(p, n)
<1>1. /\ \A r \in text.spans[p] : r[1] \in Nat /\ r[2] \in Nat
      /\ \A r \in text.spans[p] : r[1] <= s[1] <=> r[2] <= s[2]
      /\ \A r \in text.spans[p] : s[1] <= r[1] <=> s[2] <= r[2]
      /\ \A r \in text.spans[p] : s[1] = r[1] \/ s[2] = r[2] => s = r
      /\ Length \in Nat
  BY FixedSpans, ZenonT(30)
<1>2. n \in Nat
  BY <1>1 DEF Starts
<1>3. s \in SpansFrom(p, n)
  <2> DEFINE a == s[1]
  <2>1. a \in Nat /\ n <= a
    BY <1>1, Zenon
  <2> HIDE DEF a
  <2>2. a >= n
    BY <1>2, <2>1, Zenon
  <2> QED
    BY <2>2, Zenon DEF SpansFrom, a
<1>4. ASSUME NEW r \in SpansFrom(p, n)
      PROVE  s[1] <= r[1]
  <2>1. r \in text.spans[p] /\ r[1] >= n
    BY <1>4, Zenon DEF SpansFrom
  <2> DEFINE b == s[2]
             c == r[1]
             d == r[2]
  <2>2. b \in Nat /\ c \in Nat /\ d \in Nat /\ c >= n /\ (d < b => c < n)
    BY <1>1, <2>1, Zenon
  <2> HIDE DEF b, c, d
  <2>3. b <= d
    BY <1>2, <2>2, SMTT(30)
  <2> QED
    BY <1>1, <2>1, <2>3, Zenon DEF b, d
<1>5. PICK t : t = pcre_exec(p, n)
  BY Zenon
<1>6. t \in SpansFrom(p, n) /\ \A r \in SpansFrom(p, n) : t[1] <= r[1]
  BY <1>3, <1>4, <1>5, Zenon DEF pcre_exec
<1>7. t \in text.spans[p] /\ t[1] <= s[1] /\ s[1] <= t[1]
  BY <1>3, <1>4, <1>6, Zenon DEF SpansFrom
<1>8. t[1] = s[1]
  <2> DEFINE a == s[1]
             c == t[1]
  <2>1. a \in Nat /\ c \in Nat /\ c <= a /\ a <= c
    BY <1>1, <1>7, Zenon
  <2> HIDE DEF a, c
  <2>2. c = a
    BY <2>1
  <2> QED
    BY <2>2, Zenon DEF a, c
<1>9. s = t
  BY <1>1, <1>7, <1>8, Zenon
<1> QED
  BY <1>3, <1>5, <1>9, Zenon

\* The events of a pattern that Hyperscan finds come in order of their ends: what ends
\* before the one reported has been reported.
LEMMA EarlierReported ==
    ASSUME Numbers, ChimeraInv, NEW p \in Ids, Fixed(p), NEW e, Reports(p, e),
           NEW s \in text.spans[p], s[2] < e
    PROVE  Reported(p, s)
<1>1. /\ e \in {at - 1, at} \cap (0 .. Length) /\ ~NeedConfirm(p)
      /\ s[2] \in (at - 1) .. (e - 1) => <<p, s[2]>> \in raised
  BY Zenon DEF Reports, NeedConfirm, Fixed
<1>2. at \in Nat /\ s[2] \in Nat
  BY FixedSpans, Zenon
<1>3. s[2] < at - 1 \/ s[2] \in (at - 1) .. (e - 1)
  <2> DEFINE b == s[2]
  <2>1. b \in Nat /\ b < e
    BY <1>2, Zenon
  <2> HIDE DEF b
  <2>2. b < at - 1 \/ b \in (at - 1) .. (e - 1)
    BY <1>1, <1>2, <2>1
  <2> QED
    BY <2>2, Zenon DEF b
<1> QED
  BY <1>1, <1>3, Zenon DEF Reported

\* What Hyperscan reported, when it has reported pattern p as well
LEMMA ReportFollowed ==
    ASSUME Numbers, ChimeraInv, ExactInv, NEW p \in Ids, NEW e, Reports(p, e), EventConsts,
           active' = active \union {p},
           \A r \in active \ {p} : scanStart'[r] = scanStart[r],
           pc' \in {"hyperscan", "catchup", "scanned"},
           pc' = "scanned" => active = Ids \/ halted' # "no",
           pc' = "catchup" =>
              /\ scanStart'[event'.id] <= event'.from
              /\ \A s \in text.spans[event'.id] : s[2] < event'.to => Reported(event'.id, s),
           Scanning' /\ Fixed(p) /\ ~db[p].single =>
              \A s \in text.spans[p] :
                 (Reported(p, s) \/ s[2] = e) /\ ~Current(p, s)' => s[1] < scanStart'[p]
    PROVE  halted' = "no" => Followed'
<1>1. /\ pc = "hyperscan" /\ halted = "no" /\ raised' = raised \union {<<p, e>>}
      /\ db' = db /\ text' = text /\ left' = left /\ at' = at
      /\ Ids' = Ids /\ Unguarded' = Unguarded /\ \A r : Fixed(r)' = Fixed(r)
  BY Reporting, Zenon
<1>2. Followed
  BY <1>1, Zenon DEF ExactInv
<1>3. /\ \A r, s : Reported(r, s)' => Reported(r, s) \/ <<r, s[2]>> = <<p, e>>
      /\ \A r, s : Reported(r, s) => Reported(r, s)'
  BY <1>1, Zenon DEF Reported
<1>4. Unguarded \subseteq active'
  BY <1>1, <1>2, Zenon DEF Followed
<1>5. pc' = "scanned" /\ halted' = "no" => Ids \ active' = {}
  BY Zenon
<1>6. ASSUME NEW r \in active', Fixed(r), ~db[r].single, NEW s \in text.spans[r],
             Reported(r, s)', ~Current(r, s)', Scanning'
      PROVE  s[1] < scanStart'[r]
  <2>1. Reported(r, s) \/ (r = p /\ s[2] = e)
    <3>1. Reported(r, s) \/ <<r, s[2]>> = <<p, e>>
      BY <1>3, <1>6, Zenon
    <3> QED
      BY <3>1
  <2>2. CASE r = p
    BY <1>6, <2>1, <2>2, Zenon
  <2>3. CASE r # p
    <3>1. r \in active /\ scanStart'[r] = scanStart[r] /\ Scanning /\ ~Current(r, s)
      BY <1>1, <1>6, <2>3, Zenon DEF Scanning, Current
    <3> QED
      BY <1>2, <1>6, <2>1, <2>3, <3>1, Zenon DEF Followed
  <2> QED
    BY <2>2, <2>3, Zenon
<1>7. Scanning' => \A r \in active' : Fixed(r)' /\ ~db'[r].single =>
          \A s \in text'.spans[r] : Reported(r, s)' /\ ~Current(r, s)' => s[1] < scanStart'[r]
  BY <1>1, <1>6, Zenon
<1>8. (pc \in {"catchup", "resume"} =>
          /\ event.id \notin given => scanStart[event.id] <= event.from
          /\ \A s \in text.spans[event.id] : s[2] < event.to => Reported(event.id, s))'
  <2>1. ASSUME pc' = "catchup", NEW s \in text.spans[event'.id], s[2] < event'.to
        PROVE  s[2] < at' - 1 \/ <<event'.id, s[2]>> \in raised'
    <3>1. Reported(event'.id, s)
      BY <2>1, Zenon
    <3> QED
      BY <1>1, <3>1, Zenon DEF Reported
  <2> QED
    BY <1>1, <2>1, Zenon DEF Reported
<1> QED
  BY <1>1, <1>4, <1>5, <1>7, <1>8, Zenon DEF Followed

\* An event that tells nothing new: its match overlaps the one scanned last.
LEMMA IgnoreEventExact ==
    ASSUME Numbers, ChimeraInv, ExactInv, NEW p \in Ids, NEW e, IgnoreEvent(p, e)
    PROVE  ExactInv'
<1>1. /\ Reports(p, e) /\ EventConsts /\ p \in active /\ pc' \in {"hyperscan", "scanned"}
      /\ UNCHANGED <<active, scanStart, match, queue, ret, event, given, halted>>
  BY Zenon DEF IgnoreEvent, Seen
<1>2. /\ pc = "hyperscan" /\ halted = "no" /\ db' = db /\ text' = text /\ out' = out
  BY <1>1, Reporting, Zenon
<1>3. ASSUME Fixed(p), ~db[p].single, NEW s \in text.spans[p], Reported(p, s) \/ s[2] = e
      PROVE  s[1] < scanStart[p]
  <2>1. CASE Reported(p, s)
    <3>1. Followed /\ Scanning /\ ~Current(p, s)
      BY <1>2, Zenon DEF ExactInv, Scanning, Current
    <3> QED
      BY <1>1, <1>3, <2>1, <3>1, Zenon DEF Followed
  <2>2. CASE s[2] = e
    <3>1. s[2] < scanStart[p] + db[p].minWidth
      <4>1. ~NeedConfirm(p)
        BY <1>3, Zenon DEF NeedConfirm, Fixed
      <4> QED
        BY <1>3, <2>2, <4>1, Zenon DEF IgnoreEvent, Overlaps
    <3> DEFINE a == s[1]
               b == s[2]
               w == db[p].minWidth
               n == scanStart[p]
    <3>2. a \in Nat /\ b \in Nat /\ b = a + w /\ n \in Nat /\ w \in Nat /\ b < n + w
      BY <1>3, <3>1, FixedSpans, Zenon
    <3> HIDE DEF a, b, w, n
    <3>3. a < n
      BY <3>2
    <3> QED
      BY <3>3, Zenon DEF a, n
  <2> QED
    BY <1>3, <2>1, <2>2, Zenon
<1>4. pc' = "scanned" => active = Ids
  BY Zenon DEF IgnoreEvent
<1>5. active' = active \union {p} /\ pc' # "catchup" /\ pc' # "resume" /\ pc' # "idle"
  BY <1>1, Zenon
<1>6. Followed'
  BY <1>1, <1>2, <1>3, <1>4, <1>5, ReportFollowed, ZenonT(30)
<1>7. \A r \in Ids : Partly(r)' /\ Progress(r)'
  BY <1>1, <1>2, <1>5, NoneTouched, Zenon
<1> QED
  BY <1>2, <1>5, <1>6, <1>7, ExactParts, ZenonT(30)

\* The first event of a prefilter: PCRE looks for the first match.
LEMMA ConfirmEventExact ==
    ASSUME Numbers, ChimeraInv, ExactInv, NEW p \in Ids, NEW e, ConfirmEvent(p, e)
    PROVE  ExactInv'
<1>0. PICK o \in ScanOutcomes(p, 0) : ConfirmPattern(p, o)
  BY Zenon DEF ConfirmEvent
<1>1. /\ Reports(p, e) /\ EventConsts /\ NeedConfirm(p) /\ p \notin active
      /\ active' = active \union {p} /\ queue' = ScanQueue(queue, p, o)
      /\ given' = (IF Lost(p, 0, o) THEN given \union {p} ELSE given)
      /\ IF Stops(o) THEN pc' = "scanned" /\ halted' = Halter(o) ELSE UNCHANGED <<pc, halted>>
  BY <1>0, Zenon DEF ConfirmEvent, ConfirmPattern, Seen
<1>2. /\ pc = "hyperscan" /\ halted = "no" /\ db' = db /\ text' = text /\ out' = out
  BY <1>1, Reporting, Zenon
<1>3. PICK n : scanStart' = [scanStart EXCEPT ![p] = ScanNext(p, o, n)]
  BY <1>0, Zenon DEF ConfirmPattern
<1>4. /\ pc' \in {"hyperscan", "scanned"} /\ (pc' = "scanned" => halted' # "no")
      /\ pc' # "resume" /\ pc' # "idle" /\ pc' # "catchup"
  BY <1>1, <1>2, StopTells, Zenon
<1>5. OnlyTouches(p) /\ Progress(p)'
  <2>1. Progress(p) /\ p \in Ids \ active /\ pc # "resume"
    BY <1>1, <1>2, Zenon DEF ExactInv
  <2> QED
    BY <1>1, <1>2, <1>3, <1>4, <2>1, FirstScan, ZenonT(30)
<1>6. \A r \in Ids : Partly(r)' /\ Progress(r)'
  BY <1>2, <1>5, OneTouched, SamePartly, Zenon
<1>7. halted' = "no" => Followed'
  <2>1. ~Fixed(p)
    BY <1>1, Zenon DEF NeedConfirm, Fixed
  <2>2. \A r \in active \ {p} : scanStart'[r] = scanStart[r]
    <3>1. DOMAIN scanStart = Ids /\ active \subseteq Ids
      BY Zenon DEF ChimeraInv, TypeOK
    <3> QED
      BY <1>3, <3>1, Zenon
  <2> QED
    BY <1>1, <1>4, <2>1, <2>2, ReportFollowed, ZenonT(30)
<1> QED
  BY <1>2, <1>4, <1>6, <1>7, ExactParts, ZenonT(30)

\* The first event of a pattern that Hyperscan finds is its first match.
LEMMA FirstEventExact ==
    ASSUME Numbers, ChimeraInv, ExactInv, NEW p \in Ids, NEW s \in text.spans[p],
           FirstEvent(p, s)
    PROVE  ExactInv'
<1>1. /\ Reports(p, s[2]) /\ EventConsts /\ ~NeedConfirm(p) /\ p \notin active
      /\ active' = active \union {p}
      /\ scanStart' = [scanStart EXCEPT ![p] = NextStart(p, s[1], s[2])]
      /\ queue' = PqInsert(queue, s[1], s[2], p)
      /\ UNCHANGED <<pc, ret, event, given, halted>>
  BY Zenon DEF FirstEvent, Seen, Enqueue
<1>2. /\ pc = "hyperscan" /\ halted = "no" /\ db' = db /\ text' = text /\ out' = out
      /\ db \in Databases /\ TextOK /\ Fixed(p) /\ at \in 0 .. Length /\ Length \in Nat
      /\ \A r \in text.spans[p] : at <= r[2] + 1
  BY <1>1, Reporting, Zenon
<1>3. /\ queue \in Seq(Items) /\ Sorted(queue) /\ \A x \in Elems(queue) : x.id # p
      /\ DOMAIN scanStart = Ids /\ active \subseteq Ids
  BY <1>1, <1>2, Zenon DEF ChimeraInv, TypeOK, QueueInv, LiveInv
<1>4. /\ scanStart'[p] = NextStart(p, s[1], s[2])
      /\ \A r \in Ids \ {p} : scanStart'[r] = scanStart[r]
  BY <1>1, <1>3, Zenon
<1>5. Grown(queue', queue, p, s)
  BY <1>1, <1>3, Enqueued, Zenon
<1>6. Delivered(p) = <<>> /\ Delivered(p)' = <<>>
  BY <1>1, <1>2, Zenon DEF ExactInv, Progress, Delivered
<1>7. Matches(p) = Delivered(p)' \o Remaining(p, 0) /\ 0 \in Starts
  BY <1>6, OwesAll, Zenon
<1>8. ASSUME NEW r \in text.spans[p] PROVE ~Reported(p, r)
  <2>1. <<p, r[2]>> \notin raised
    <3>1. <<p, r[2]>>[1] = p /\ Scanning
      BY <1>2, Zenon DEF Scanning
    <3> QED
      BY <1>1, <3>1, Zenon DEF ChimeraInv, StageInv
  <2>2. ~(r[2] < at - 1)
    <3> DEFINE d == r[2]
    <3>1. d \in Nat /\ at <= d + 1
      BY <1>2, FixedSpans, Zenon
    <3> HIDE DEF d
    <3>2. ~(d < at - 1)
      BY <1>2, <3>1
    <3> QED
      BY <3>2, Zenon DEF d
  <2> QED
    BY <2>1, <2>2, Zenon DEF Reported
<1>9. SpansFrom(p, 0) # {} /\ s = pcre_exec(p, 0)
  <2>1. 0 <= s[1]
    <3>1. s[1] \in Nat
      BY <1>2, FixedSpans, Zenon
    <3> QED
      BY <3>1
  <2>2. \A r \in text.spans[p] : ~(r[2] < s[2])
    BY <1>1, <1>2, <1>8, EarlierReported, Zenon
  <2> QED
    BY <1>2, <1>7, <2>1, <2>2, FixedFinds, Zenon
<1>10. Progress(p)'
  BY <1>1, <1>2, <1>3, <1>4, <1>5, <1>6, <1>7, <1>9, QueuedIsOwed, ZenonT(30)
<1>11. OnlyTouches(p)
  <2>1. /\ \A x : x.id # p => (x \in Elems(queue') <=> x \in Elems(queue))
        /\ \A r \in Ids \ {p} : ~Resumes(r)' /\ ~Resumes(r)
    BY <1>1, <1>2, <1>5, Zenon DEF Grown, Resumes
  <2> QED
    BY <1>1, <1>2, <1>4, <2>1, OthersUntouched, Zenon
<1>12. \A r \in Ids : Partly(r)' /\ Progress(r)'
  BY <1>2, <1>10, <1>11, OneTouched, SamePartly, ZenonT(30)
<1>13. ASSUME NEW r \in text.spans[p], Reported(p, r) \/ r[2] = s[2]
       PROVE  r[1] < scanStart'[p]
  <2>1. /\ s[1] \in Nat /\ s[2] \in Nat /\ s[1] < s[2]
        /\ s[2] = r[2] => s = r
    BY <1>2, FixedSpans, ZenonT(30)
  <2>2. s = r
    BY <1>13, <1>8, <2>1, Zenon
  <2> DEFINE a == s[1]
             b == s[2]
             n == scanStart'[p]
  <2>3. n \in 0 .. (Length + 1) /\ b <= n /\ a \in Nat /\ b \in Nat /\ a < b
    BY <1>2, <1>4, <2>1, StartBehind, ZenonT(30)
  <2> HIDE DEF a, b, n
  <2>4. a < n
    BY <1>2, <2>3, SMTT(30)
  <2> QED
    BY <2>2, <2>4, Zenon DEF a, n
<1>14. Followed'
  <2>1. pc' = "hyperscan" /\ \A r \in active \ {p} : scanStart'[r] = scanStart[r]
    BY <1>1, <1>2, <1>3, <1>4, Zenon
  <2>2. pc' \in {"hyperscan", "catchup", "scanned"} /\ pc' # "catchup" /\ pc' # "scanned"
    BY <2>1, Zenon
  <2> QED
    BY <1>1, <1>2, <1>13, <2>1, <2>2, ReportFollowed, ZenonT(30)
<1> QED
  BY <1>1, <1>2, <1>12, <1>14, ExactParts, ZenonT(30)

\* A later event that does not overlap the match scanned last: no match that PCRE would
\* find before it has been passed over.
LEMMA LaterEventExact ==
    ASSUME Numbers, ChimeraInv, ExactInv, NEW p \in Ids, NEW s \in text.spans[p],
           LaterEvent(p, s)
    PROVE  ExactInv'
<1>1. /\ Reports(p, s[2]) /\ EventConsts /\ ~NeedConfirm(p) /\ p \in active
      /\ ~Overlaps(p, s[2]) /\ ~db[p].single /\ pc' = "catchup"
      /\ event' = [id |-> p, from |-> s[1], to |-> s[2]]
      /\ UNCHANGED <<active, scanStart, match, queue, ret, given, halted>>
  BY Zenon DEF LaterEvent, Seen
<1>2. /\ pc = "hyperscan" /\ halted = "no" /\ db' = db /\ text' = text /\ out' = out /\ Fixed(p)
  BY <1>1, Reporting, Zenon
<1>3. event'.id = p /\ event'.from = s[1] /\ event'.to = s[2]
  BY <1>1, Zenon
<1>4. scanStart[p] <= s[1]
  <2> DEFINE a == s[1]
             b == s[2]
             w == db[p].minWidth
             n == scanStart[p]
  <2>1. a \in Nat /\ b = a + w /\ n \in Nat /\ w \in Nat /\ ~(b < n + w)
    BY <1>1, <1>2, FixedSpans, Zenon DEF Overlaps
  <2> HIDE DEF a, b, w, n
  <2>2. n <= a
    BY <2>1
  <2> QED
    BY <2>2, Zenon DEF a, n
<1>5. ASSUME NEW r \in text.spans[p], Reported(p, r) \/ r[2] = s[2], ~Current(p, r)'
      PROVE  r[1] < scanStart[p]
  <2>1. /\ s[2] = r[2] => s = r
        /\ s = <<s[1], s[2]>>
    BY <1>2, FixedSpans, ZenonT(30)
  <2>2. r # s
    BY <1>1, <1>3, <1>5, <2>1, Zenon DEF Current, SpanOf
  <2>3. Reported(p, r)
    BY <1>5, <2>1, <2>2, Zenon
  <2>4. Followed /\ Scanning /\ ~Current(p, r)
    BY <1>2, Zenon DEF ExactInv, Scanning, Current
  <2> QED
    BY <1>1, <1>2, <2>3, <2>4, ZenonT(30) DEF Followed
<1>6. Followed'
  <2>1. /\ active' = active \union {p} /\ pc' \in {"hyperscan", "catchup", "scanned"}
        /\ pc' # "scanned" /\ scanStart'[event'.id] <= event'.from
    BY <1>1, <1>3, <1>4, Zenon
  <2>2. \A r \in text.spans[p] : r[2] < s[2] => Reported(p, r)
    BY <1>1, <1>2, EarlierReported, Zenon
  <2>3. \A r \in text.spans[event'.id] : r[2] < event'.to => Reported(event'.id, r)
    BY <1>3, <2>2, Zenon
  <2> QED
    BY <1>1, <1>2, <1>5, <2>1, <2>3, ReportFollowed, ZenonT(30)
<1>7. \A r \in Ids : Partly(r)' /\ Progress(r)'
  BY <1>1, <1>2, NoneTouched, Zenon
<1> QED
  BY <1>1, <1>2, <1>6, <1>7, ExactParts, Zenon

\* multiCallback goes on when catchupPcre has delivered the earlier match: the match it
\* was called for is what PCRE would find next, or the pattern was given up.
LEMMA ResumeExact ==
    ASSUME Numbers, ChimeraInv, ExactInv, Resume
    PROVE  ExactInv'
<1>1. /\ pc = "resume" /\ UNCHANGED <<active, raised, given, halted, db, text, out, left, at>>
      /\ event' = NoEvent /\ pc' \in {"hyperscan", "scanned"} /\ pc' # "idle" /\ pc' # "resume"
      /\ pc' = (IF ret = CH_SUCCESS THEN "hyperscan" ELSE "scanned")
      /\ IF scanStart[event.id] >= Length THEN UNCHANGED <<scanStart, match, queue>>
         ELSE Enqueue(event.id, event.from, event.to)
  BY Zenon DEF Resume, EventConsts
<1>2. \A r \in Ids : Partly(r)'
  BY <1>1, SamePartly, Zenon
<1> SUFFICES ASSUME halted = "no" PROVE Followed' /\ \A r \in Ids : Progress(r)'
  BY <1>1, <1>2, ExactParts, Zenon
<1>3. pc' = "hyperscan"
  <2>1. ret = CH_SUCCESS
    BY <1>1, Zenon DEF ChimeraInv, CallInv
  <2> QED
    BY <1>1, <2>1, Zenon
<1>4. PICK p \in Ids : p = event.id /\ p \in active /\ Fixed(p) /\ ~db[p].single
  <2>1. event \in Items
    BY <1>1, Zenon DEF ChimeraInv, EventInv
  <2>2. event.id \in Ids
    BY <2>1, Zenon DEF Items
  <2> QED
    BY <1>1, <2>2, Zenon DEF ChimeraInv, EventInv
<1>5. PICK s \in text.spans[p] : s = SpanOf(event) /\ s[1] = event.from /\ s[2] = event.to
  <2>1. SpanOf(event) \in text.spans[p]
    BY <1>1, <1>4, Zenon DEF ChimeraInv, EventInv, SpanOf
  <2>2. SpanOf(event)[1] = event.from /\ SpanOf(event)[2] = event.to
    BY Zenon DEF SpanOf
  <2> QED
    BY <2>1, <2>2, Zenon
<1>6. /\ Followed /\ Progress(p) /\ \A x \in Elems(queue) : x.id # p
  BY <1>1, <1>4, Zenon DEF ExactInv, ChimeraInv, Caught, Queued
<1>7. /\ db \in Databases /\ TextOK /\ queue \in Seq(Items) /\ Sorted(queue)
      /\ DOMAIN scanStart = Ids /\ active \subseteq Ids /\ scanStart[p] \in Starts
  BY <1>4, Zenon DEF ChimeraInv, TypeOK, QueueInv, Starts
<1>8. /\ Length \in Nat /\ scanStart[p] \in Nat
      /\ \A r \in text.spans[p] : r[1] \in Nat /\ r[2] \in Nat /\ r[2] <= Length /\ r[1] < r[2]
      /\ \A r \in text.spans[p] : s[2] = r[2] => s = r
  BY <1>4, FixedSpans, Zenon
<1>9. p \notin given => scanStart[p] <= s[1]
  BY <1>1, <1>4, <1>5, <1>6, ZenonT(30) DEF Followed
\* A span of p that ended before the event lies before scanStart.
<1>10. ASSUME NEW r \in text.spans[p], r[2] < s[2] PROVE r[1] < scanStart[p]
  <2>1. r # s
    <3> DEFINE d == r[2]
               e == s[2]
    <3>1. d \in Nat /\ e \in Nat /\ d < e
      BY <1>8, <1>10, Zenon
    <3> HIDE DEF d, e
    <3>2. d # e
      BY <3>1, SMTT(30)
    <3> QED
      BY <3>2, Zenon DEF d, e
  <2>2. ~Current(p, r) /\ Scanning
    BY <1>1, <1>5, <2>1, Zenon DEF Current, Scanning
  <2>3. Reported(p, r)
    BY <1>1, <1>4, <1>5, <1>6, <1>10, Zenon DEF Followed
  <2> QED
    BY <1>4, <1>6, <2>2, <2>3, ZenonT(30) DEF Followed
<1>11. ~Resumes(p)' /\ \A r \in Ids \ {p} : ~Resumes(r)' /\ ~Resumes(r)
  BY <1>3, <1>4, Zenon DEF Resumes
<1>12. ASSUME \A r \in Ids \ {p} : scanStart'[r] = scanStart[r],
              \A x : x.id # p => (x \in Elems(queue') <=> x \in Elems(queue)),
              Progress(p)', s[1] < scanStart'[p],
              \A r \in text.spans[p] : r[1] < scanStart[p] => r[1] < scanStart'[p]
       PROVE  Followed' /\ \A r \in Ids : Progress(r)'
  <2>1. OnlyTouches(p)
    BY <1>1, <1>11, <1>12, OthersUntouched, Zenon
  <2>2. \A r \in Ids : Progress(r)'
    BY <1>1, <1>12, <2>1, OneTouched, Zenon
  <2>3. ASSUME NEW r \in active, Fixed(r), ~db[r].single, NEW t \in text.spans[r],
               Reported(r, t)
        PROVE  t[1] < scanStart'[r]
    <3>1. CASE r = p /\ t = s
      BY <1>12, <3>1, Zenon
    <3>2. CASE ~(r = p /\ t = s)
      <4>1. ~Current(r, t) /\ Scanning
        BY <1>1, <1>4, <1>5, <3>2, ZenonT(30) DEF Current, Scanning
      <4>2. t[1] < scanStart[r]
        BY <1>6, <2>3, <4>1, Zenon DEF Followed
      <4> QED
        BY <1>7, <1>12, <2>3, <4>2, Zenon
    <3> QED
      BY <3>1, <3>2, Zenon
  <2>4. Unguarded' = Unguarded /\ Ids' = Ids /\ \A r : Fixed(r)' = Fixed(r)
    BY <1>1, SameDb, Zenon
  <2>5. Unguarded \subseteq active
    BY <1>1, <1>6, Zenon DEF Followed
  <2>6. Followed'
    <3>1. \A r, t : Reported(r, t)' = Reported(r, t)
      BY <1>1, Zenon DEF Reported
    <3> QED
      BY <1>1, <1>3, <2>3, <2>4, <2>5, <3>1, ZenonT(30) DEF Followed
  <2> QED
    BY <2>2, <2>6, Zenon
<1>13. s[1] < Length
  <2> DEFINE a == s[1]
             b == s[2]
  <2>1. a \in Nat /\ b \in Nat /\ b <= Length /\ a < b
    BY <1>8, Zenon
  <2> HIDE DEF a, b
  <2>2. a < Length
    BY <1>8, <2>1, SMTT(30)
  <2> QED
    BY <2>2, Zenon DEF a
<1>14. CASE scanStart[p] >= Length
  <2>1. scanStart' = scanStart /\ queue' = queue
    BY <1>1, <1>4, <1>14, Zenon
  <2>2. s[1] < scanStart[p] /\ ~(scanStart[p] <= s[1])
    <3> DEFINE a == s[1]
               n == scanStart[p]
    <3>1. a \in Nat /\ n \in Nat /\ a < Length /\ n >= Length
      BY <1>8, <1>13, <1>14, Zenon
    <3> HIDE DEF a, n
    <3>2. a < n /\ ~(n <= a)
      BY <1>8, <3>1, SMTT(30)
    <3> QED
      BY <3>2, Zenon DEF a, n
  <2>3. p \in given
    BY <1>9, <2>2, Zenon
  <2>4. Progress(p)'
    BY <1>1, <1>4, <1>6, <2>1, <2>3, Zenon DEF Progress
  <2> QED
    BY <1>12, <2>1, <2>2, <2>4, Zenon
<1>15. CASE ~(scanStart[p] >= Length)
  <2>1. /\ scanStart' = [scanStart EXCEPT ![p] = NextStart(p, s[1], s[2])]
        /\ queue' = PqInsert(queue, s[1], s[2], p)
    BY <1>1, <1>4, <1>5, <1>15, Zenon DEF Enqueue
  <2>2. /\ scanStart'[p] = NextStart(p, s[1], s[2])
        /\ \A r \in Ids \ {p} : scanStart'[r] = scanStart[r]
    BY <1>7, <2>1, Zenon
  <2>3. p \notin given
    <3>1. ~(Length <= scanStart[p])
      <4> DEFINE n == scanStart[p]
      <4>1. n \in Nat /\ ~(n >= Length)
        BY <1>8, <1>15, Zenon
      <4> HIDE DEF n
      <4>2. ~(Length <= n)
        BY <1>8, <4>1, Zenon
      <4> QED
        BY <4>2, Zenon DEF n
    <3> QED
      BY <1>4, <3>1, Zenon DEF ChimeraInv, LiveInv
  <2>4. scanStart[p] <= s[1]
    BY <1>9, <2>3, Zenon
  <2>5. SpansFrom(p, scanStart[p]) # {} /\ s = pcre_exec(p, scanStart[p])
    BY <1>4, <1>5, <1>7, <1>10, <2>4, FixedFinds, ZenonT(30)
  <2>6. Grown(queue', queue, p, s)
    BY <1>7, <2>1, Enqueued, Zenon
  <2>7. Matches(p) = Delivered(p)' \o Remaining(p, scanStart[p])
    <3>1. Delivered(p)' = Delivered(p) /\ ~Queued(p) /\ Resumes(p)
      BY <1>1, <1>4, <1>6, Zenon DEF Delivered, Queued, Resumes
    <3> QED
      BY <1>4, <1>6, <2>3, <3>1, Zenon DEF Progress, Owed
  <2>8. Progress(p)'
    BY <1>1, <1>4, <1>6, <1>7, <2>2, <2>5, <2>6, <2>7, QueuedIsOwed, ZenonT(30)
  <2>9. \A x : x.id # p => (x \in Elems(queue') <=> x \in Elems(queue))
    BY <2>6, Zenon DEF Grown
  <2>10. /\ s[1] < scanStart'[p]
         /\ \A r \in text.spans[p] : r[1] < scanStart[p] => r[1] < scanStart'[p]
    <3> DEFINE a == s[1]
               b == s[2]
               m == scanStart[p]
               n == scanStart'[p]
    <3>1. /\ n \in 0 .. (Length + 1) /\ b <= n /\ a \in Nat /\ b \in Nat /\ a < b
          /\ m \in Nat /\ m <= a
      BY <1>7, <1>8, <2>2, <2>4, StartBehind, ZenonT(30)
    <3> HIDE DEF a, b, m, n
    <3>2. a < n /\ \A c \in Nat : c < m => c < n
      BY <1>8, <3>1, SMTT(30)
    <3> QED
      BY <1>8, <3>2, Zenon DEF a, m, n
  <2> QED
    BY <1>12, <2>2, <2>8, <2>9, <2>10, Zenon
<1> QED
  BY <1>14, <1>15, Zenon

----------------------------------------------------------------------------
\* The other steps

\* Hyperscan goes on when it has reported every match that ends one byte before; when it
\* ends, a pattern that it has not reported has no match.
LEMMA HyperscanMovesExact ==
    ASSUME Numbers, ChimeraInv, ExactInv, HyperscanMoves
    PROVE  ExactInv'
<1>1. /\ pc = "hyperscan"
      /\ \A p \in Ids \ Unguarded : \A s \in text.spans[p] :
            s[2] = at - 1 \/ (s[2] = at /\ at = Length)
               => <<p, s[2]>> \in raised \/ (NeedConfirm(p) /\ p \in active)
      /\ IF at = Length THEN pc' = "scanned" /\ UNCHANGED <<at, raised>>
         ELSE at' = at + 1 /\ raised' = {r \in raised : r[2] = at} /\ UNCHANGED pc
      /\ UNCHANGED <<db, text, inUse, active, scanStart, match, queue, ret, left, event,
                     result, scans, out, given, halted>>
  BY Zenon DEF HyperscanMoves
<1>2. /\ pc' \in {"hyperscan", "scanned"} /\ pc' # "resume" /\ pc' # "idle" /\ halted = "no"
  BY <1>1, Zenon DEF ChimeraInv, CallInv
<1>3. \A r \in Ids : Partly(r)' /\ Progress(r)'
  BY <1>1, <1>2, NoneTouched, Zenon
<1>4. /\ Followed /\ Unguarded \subseteq active /\ active \subseteq Ids
      /\ \A r \in raised : r[1] \in active
      /\ \A p \in Ids \ (active \union Unguarded) : \A s \in text.spans[p] : at <= s[2] + 1
  BY <1>1, <1>2, Zenon DEF ExactInv, Followed, ChimeraInv, StageInv, Scanning, TypeOK
<1>5. /\ at \in 0 .. Length /\ Length \in Nat /\ TextOK
  BY ChimeraAssumption, Zenon DEF ChimeraInv, TypeOK
<1>6. ASSUME NEW p \in Ids, NEW s \in text.spans[p] PROVE s[2] \in Nat /\ s[2] <= Length
  <2>1. s \in Spans
    BY <1>5, <1>6, Zenon DEF TextOK
  <2>2. s[2] \in 0 .. Length
    BY <2>1, Zenon DEF Spans
  <2> QED
    BY <1>5, <2>2, SMTT(30)
<1>7. ASSUME pc' = "scanned", NEW p \in Ids \ active PROVE text.spans[p] = {}
  <2> SUFFICES ASSUME NEW s \in text.spans[p] PROVE FALSE
    BY Zenon
  <2>1. /\ at = Length /\ at <= s[2] + 1 /\ s[2] \in Nat /\ s[2] <= Length
        /\ p \in Ids \ Unguarded
    BY <1>1, <1>4, <1>6, <1>7, Zenon
  <2>2. s[2] = at - 1 \/ s[2] = at
    <3> DEFINE b == s[2]
    <3>1. at = Length /\ at <= b + 1 /\ b \in Nat /\ b <= Length
      BY <2>1, Zenon
    <3> HIDE DEF b
    <3>2. b = at - 1 \/ b = at
      BY <1>5, <3>1
    <3> QED
      BY <3>2, Zenon DEF b
  <2>3. <<p, s[2]>> \in raised \/ p \in active
    BY <1>1, <2>1, <2>2, Zenon
  <2>4. <<p, s[2]>>[1] = p
    BY Zenon
  <2> QED
    BY <1>4, <1>7, <2>3, <2>4, Zenon
<1>8. ASSUME pc' = "hyperscan", NEW p \in active, Fixed(p), ~db[p].single,
             NEW s \in text.spans[p], Reported(p, s)'
      PROVE  s[1] < scanStart[p]
  <2>1. at' = at + 1 /\ raised' \subseteq raised
    BY <1>1, <1>8, Zenon
  <2>2. p \in Ids \ Unguarded /\ ~NeedConfirm(p)
    BY <1>4, <1>8, Zenon DEF Unguarded, Fixed, NeedConfirm
  <2>3. s[2] < at' - 1 \/ <<p, s[2]>> \in raised
    BY <1>8, <2>1, Zenon DEF Reported
  <2>4. s[2] < at' - 1 => s[2] < at - 1 \/ s[2] = at - 1
    <3> DEFINE b == s[2]
    <3>1. b \in Nat
      BY <1>6, <2>2, Zenon
    <3> HIDE DEF b
    <3>2. b < at' - 1 => b < at - 1 \/ b = at - 1
      BY <1>5, <2>1, <3>1, SMTT(30)
    <3> QED
      BY <3>2, Zenon DEF b
  <2>5. s[2] = at - 1 => <<p, s[2]>> \in raised
    BY <1>1, <2>2, Zenon
  <2>6. Reported(p, s)
    BY <2>3, <2>4, <2>5, Zenon DEF Reported
  <2>7. Scanning /\ ~Current(p, s)
    BY <1>1, Zenon DEF Scanning, Current
  <2> QED
    BY <1>4, <1>8, <2>6, <2>7, Zenon DEF Followed
<1>9. Unguarded' = Unguarded /\ Ids' = Ids /\ \A r : Fixed(r)' = Fixed(r)
  BY <1>1, SameDb, Zenon
<1>10. Followed'
  BY <1>1, <1>2, <1>4, <1>7, <1>8, <1>9, ZenonT(30) DEF Followed, Scanning
<1> QED
  BY <1>1, <1>2, <1>3, <1>10, ExactParts, Zenon

\* The scan is flushed when Hyperscan has ended, or returns when it was stopped.
LEMMA AfterHyperscanExact ==
    ASSUME Numbers, ChimeraInv, ExactInv, AfterHyperscan
    PROVE  ExactInv'
<1>1. /\ pc = "scanned"
      /\ IF ret = CH_CALLBACK_TERMINATE THEN Return(CH_SCAN_TERMINATED) /\ unmarkScratchInUse
         ELSE IF ret # CH_SUCCESS THEN Return(ret) /\ unmarkScratchInUse
         ELSE pc' = "flush" /\ UNCHANGED <<result, inUse>>
      /\ UNCHANGED <<db, text, active, scanStart, match, queue, ret, left, at, raised,
                     event, scans, out, given, halted>>
  BY Zenon DEF AfterHyperscan
<1>2. pc' = "flush" \/ (pc' = "idle" /\ result' # CH_SUCCESS)
  BY <1>1, SMTT(30) DEF Return, CH_SUCCESS, CH_SCAN_TERMINATED, CH_CALLBACK_TERMINATE
<1>3. pc' # "resume" /\ pc # "resume" /\ pc # "idle"
  BY <1>1, <1>2, Zenon
<1>4. /\ \A r \in Ids : Partly(r)'
      /\ halted = "no" => \A r \in Ids : Progress(r)'
  BY <1>1, <1>3, NoneTouched, Zenon
<1>5. ASSUME halted = "no", pc' = "flush" PROVE Followed'
  <2>1. Followed
    BY <1>3, <1>5, Zenon DEF ExactInv
  <2>2. Unguarded' = Unguarded /\ Ids' = Ids
    BY <1>1, SameDb, Zenon
  <2>3. Unguarded \subseteq active /\ \A p \in Ids \ active : text.spans[p] = {}
    BY <1>1, <2>1, Zenon DEF Followed
  <2> QED
    BY <1>1, <1>5, <2>2, <2>3, ZenonT(30) DEF Followed, Scanning
<1> QED
  BY <1>1, <1>2, <1>4, <1>5, ExactParts, Zenon

\* Nothing happens.
LEMMA StutterExact ==
    ASSUME ExactInv, UNCHANGED vars
    PROVE  ExactInv'
<1>1. UNCHANGED <<db, text, active, scanStart, queue, pc, left, at, raised, event, result, scans,
                  out, given, halted>>
  BY Zenon DEF vars
<1>2. /\ Ids' = Ids /\ Unguarded' = Unguarded /\ (Scanning' <=> Scanning)
      /\ \A p : Fixed(p)' = Fixed(p)
      /\ \A p, s : Current(p, s)' <=> Current(p, s)
      /\ \A p, s : Reported(p, s)' <=> Reported(p, s)
  BY <1>1, SameDb, Zenon DEF Scanning, Current, SpanOf, Reported
<1>3. ASSUME NEW p \in Ids PROVE Untouched(p)
  BY <1>1, Zenon DEF Untouched, Delivered, Resumes
<1>4. ASSUME NEW p \in Ids
      PROVE  /\ Partly(p) => Partly(p)'
             /\ Progress(p) => Progress(p)'
             /\ Delivered(p)' = Delivered(p) /\ Due(p)' = Due(p)
  BY <1>1, <1>3, UntouchedProgress, SameMatches, Zenon DEF Delivered
<1>5. Followed => Followed'
  BY <1>1, <1>2, Zenon DEF Followed
<1>6. ExactMatches'
  BY <1>1, <1>2, <1>4, Zenon DEF ExactInv, ExactMatches, Partly
<1> QED
  BY <1>1, <1>2, <1>4, <1>5, <1>6, ZenonT(30) DEF ExactInv

\* Before the first scan nothing was delivered and nothing is due.
LEMMA InitExact ==
    ASSUME Numbers, ChimeraInv, Init
    PROVE  ExactInv
<1>1. out = <<>> /\ pc = "idle" /\ scans = 0 /\ db \in Databases /\ TextOK
  BY Zenon DEF Init, ChimeraInv
<1>2. \A p \in Ids : Delivered(p) = <<>>
  BY <1>1, SpansOfNone, Zenon DEF Delivered
<1>3. \A p \in Ids : Partly(p)
  BY <1>1, <1>2, NoneIsPart, Zenon
<1>4. ~(scans > 0)
  BY <1>1
<1> QED
  BY <1>1, <1>3, <1>4, Zenon DEF ExactInv, ExactMatches, Partly

\* Every step keeps the invariant.
LEMMA StepExact ==
    ASSUME Numbers, ChimeraInv, ChimeraInv', ExactInv, [Next]_vars
    PROVE  ExactInv'
<1>1. CASE ch_scan
  BY <1>1, ScanExact, Zenon
<1>2. CASE initQueue
  <2>1. PICK p \in left : \E o \in ScanOutcomes(p, 0) : InitPattern(p, o)
    BY <1>2, Zenon DEF initQueue
  <2>2. PICK o \in ScanOutcomes(p, 0) : InitPattern(p, o)
    BY <2>1, Zenon
  <2>3. pc = "init"
    BY <1>2, Zenon DEF initQueue
  <2> QED
    BY <2>2, <2>3, InitPatternExact, Zenon
<1>3. CASE InitDone
  BY <1>3, InitDoneExact, Zenon
<1>4. CASE multiCallback
  <2>1. CASE \E p \in Ids, e \in {at - 1, at} : IgnoreEvent(p, e) \/ ConfirmEvent(p, e)
    BY <2>1, IgnoreEventExact, ConfirmEventExact, Zenon
  <2>2. CASE \E p \in Ids : \E s \in text.spans[p] : FirstEvent(p, s) \/ LaterEvent(p, s)
    BY <2>2, FirstEventExact, LaterEventExact, Zenon
  <2>3. CASE Resume
    BY <2>3, ResumeExact, Zenon
  <2> QED
    BY <1>4, <2>1, <2>2, <2>3, Zenon DEF multiCallback
<1>5. CASE catchupPcre
  BY <1>5, CatchupEndExact, TerminatedExact, SkippedExact, CaughtUpExact, ContinuedExact,
     ZenonT(30) DEF catchupPcre
<1>6. CASE HyperscanMoves
  BY <1>6, HyperscanMovesExact, Zenon
<1>7. CASE AfterHyperscan
  BY <1>7, AfterHyperscanExact, Zenon
<1>8. CASE Rest \/ UNCHANGED vars
  BY <1>8, StutterExact, Zenon DEF Rest
<1> QED
  BY <1>1, <1>2, <1>3, <1>4, <1>5, <1>6, <1>7, <1>8, ZenonT(30) DEF Next

----------------------------------------------------------------------------
\* The theorems

INSTANCE FiniteSetTheorems

\* The library's facts about numbers and finite sets are those the lemmas use.
LEMMA NumbersHold == Numbers
<1>1. ASSUME NEW S \in SUBSET Nat, S # {}
      PROVE  \E n \in S : \A m \in S : n <= m
  <2> DEFINE R == {ss \in Nat \X Nat : ss[1] < ss[2]}
  <2>1. \A a, b \in Nat : a < b => <<a, b>> \in R
    BY Zenon
  <2>2. IsWellFoundedOn(R, Nat)
    BY NatLessThanWellFounded, Zenon DEF OpToRel
  <2> HIDE DEF R
  <2>3. PICK n \in S : \A m \in S : ~(<<m, n>> \in R)
    <3>1. S \subseteq Nat /\ S # {}
      BY <1>1, Zenon
    <3> QED
      BY <3>1, <2>2, WFMin, ZenonT(30)
  <2>4. \A m \in S : n \in Nat /\ m \in Nat
    BY Zenon
  <2>5. \A m \in S : ~(m < n)
    BY <2>1, <2>3, <2>4, ZenonT(30)
  <2>6. \A m \in S : n <= m
    BY <2>4, <2>5, SMTT(30)
  <2> QED
    BY <2>6, Zenon
<1>2. LeastNumber
  BY <1>1, Zenon DEF LeastNumber
<1>3. IntervalSize
  BY FS_Interval, SMTT(30) DEF IntervalSize
<1>4. OneToOne
  <2> SUFFICES ASSUME NEW I, NEW n \in Nat, NEW f \in [1 .. n -> I], IsFiniteSet(I),
                      \A i, j \in 1 .. n : f[i] = f[j] => i = j
               PROVE  n <= Cardinality(I)
    BY Zenon DEF OneToOne
  <2>1. f \in Injection(1 .. n, I)
    BY Zenon DEF Injection, IsInjective
  <2>2. Cardinality(1 .. n) <= Cardinality(I)
    BY <2>1, FS_Injection, Zenon
  <2> QED
    BY <2>2, <1>3, ZenonT(30) DEF IntervalSize
<1>5. SizeType
  BY FS_CardinalityType, Zenon DEF SizeType
<1> QED
  BY <1>2, <1>3, <1>4, <1>5, ZenonT(30) DEF Numbers

\* The invariant holds in every state of every sequence of scans made with a scratch
\* (ch_runtime.c).
THEOREM ScanInvariant == Spec => []ChimeraInv
<1>1. ChimeraInv /\ [Next]_vars => ChimeraInv'
  BY NumbersHold, StepInv, Zenon
<1> QED
  BY <1>1, InitInv, PTL DEF Spec

\* Every variable has its type: in particular PCRE is never started further than one
\* byte behind the end of the data (ch_runtime.c:277-289).
THEOREM ScanTyping == Spec => []TypeOK
<1>1. ChimeraInv => TypeOK
  BY ZenonT(30) DEF ChimeraInv
<1> QED
  BY <1>1, ScanInvariant, PTL

\* The matches of all patterns, whoever finds them, are delivered in the order of
\* their ends (catchupPcre, ch_runtime.c:296-366).
THEOREM InOrder == Spec => []DeliveredInOrder
<1>1. ChimeraInv => DeliveredInOrder
  BY ZenonT(30) DEF ChimeraInv
<1> QED
  BY <1>1, ScanInvariant, PTL

\* The queue has room for every match put into it, also for the one that multiCallback
\* queues after the scan was stopped, and until then it holds one match per pattern
\* (ch_scratch.c:77, ch_runtime.c:457-465).
THEOREM WithinCapacity == Spec => []QueueWithinCapacity
<1>1. ChimeraInv => QueueWithinCapacity
  <2> SUFFICES ASSUME ChimeraInv PROVE QueueWithinCapacity
    BY Zenon
  <2>1. Len(queue) <= Cardinality(Ids)
    BY NumbersHold, QueueLen, ZenonT(30)
  <2>2. halted = "no" => Distinct(queue)
    BY ZenonT(30) DEF ChimeraInv, LiveInv
  <2> QED
    BY <2>1, <2>2, ZenonT(30) DEF QueueWithinCapacity, Distinct
<1> QED
  BY <1>1, ScanInvariant, PTL

\* The captures that the callback is handed, kept in the pattern's data, are those of
\* the queued match it is called for (ch_runtime.c:319-321, 457-465).
THEOREM Captures == Spec => []CapturesOfQueued
<1>1. ChimeraInv => CapturesOfQueued
  BY ZenonT(30) DEF ChimeraInv, LiveInv, CapturesOfQueued, Elems
<1> QED
  BY <1>1, ScanInvariant, PTL

\* PCRE is started again for a queued match of a UTF-8 pattern at the beginning of a
\* codepoint (ch_runtime.c:279-284, 340-345).
THEOREM AtCodepoint == Spec => []StartsAtCodepoint
<1>1. ChimeraInv => StartsAtCodepoint
  BY ZenonT(30) DEF ChimeraInv, QueueInv, StartsAtCodepoint, Elems
<1> QED
  BY <1>1, ScanInvariant, PTL

\* A scan that has returned has freed the scratch, and its value tells whether a
\* callback or PCRE stopped it (ch_runtime.c:589-629).
THEOREM Tell == Spec => []ReturnTells
<1>1. ChimeraInv => ReturnTells
  BY Zenon DEF ChimeraInv, CallInv, ReturnTells
<1> QED
  BY <1>1, ScanInvariant, PTL

\* Nothing is delivered after a callback or PCRE has stopped the scan, and no match of
\* a pattern that a callback has skipped (ch_runtime.c:323-333, 436).
THEOREM StopsForGood == Spec => NothingAfterStop
<1> DEFINE Quietly == pc # "idle" /\ out' # out =>
                         halted = "no" /\ out'[Len(out')].id \notin given
<1>1. ASSUME ChimeraInv, Next PROVE Quietly
  <2> SUFFICES ASSUME pc # "idle", out' # out
               PROVE  halted = "no" /\ out'[Len(out')].id \notin given
    BY Zenon
  <2>1. Deliver
    <3>1. ~ch_scan /\ ~initQueue /\ ~InitDone /\ ~HyperscanMoves /\ ~AfterHyperscan /\ ~Rest
      BY ZenonT(30) DEF ch_scan, initQueue, InitPattern, InitDone, HyperscanMoves, AfterHyperscan, Rest, vars
    <3>2. ~multiCallback
      BY ZenonT(30) DEF multiCallback, IgnoreEvent, ConfirmEvent, ConfirmPattern, FirstEvent, LaterEvent,
             Resume, EventConsts
    <3>3. catchupPcre
      BY <1>1, <3>1, <3>2, ZenonT(30) DEF Next
    <3> QED
      BY <3>3, Zenon DEF catchupPcre, CatchupEnd, Terminated, Skipped, CaughtUp, Continued
  <2>2. halted = "no" /\ Top \in Items /\ Top.id \notin given /\ out' = Append(out, Top)
    BY <1>1, <2>1, NumbersHold, Delivery, ZenonT(30)
  <2>3. out'[Len(out')] = Top
    <3>1. out \in Seq(Items)
      BY <1>1, ZenonT(30) DEF ChimeraInv, TypeOK
    <3>2. Len(out') = Len(out) + 1 /\ out'[Len(out) + 1] = Top
      <4>1. \A o \in Seq(Items) : \A h \in Items :
                Len(Append(o, h)) = Len(o) + 1 /\ Append(o, h)[Len(o) + 1] = h
        OBVIOUS
      <4> QED
        BY <3>1, <2>2, <4>1, Zenon
    <3> QED
      BY <3>2, Zenon
  <2> QED
    BY <2>2, <2>3, ZenonT(30)
<1>2. ChimeraInv /\ [Next]_vars => [Quietly]_vars
  BY <1>1, Zenon
<1> QED
  BY <1>2, ScanInvariant, PTL DEF Spec, NothingAfterStop

\* A scan delivers for each pattern the matches that PCRE alone would find in the data,
\* in their order, each once and none between them left out, whoever found them; all of
\* them if it returns CH_SUCCESS and the pattern was not given up (ch_runtime.c:339-362,
\* 396-466).
THEOREM Exact == Spec => []ExactMatches
<1>1. Init => ExactInv
  BY NumbersHold, InitInv, InitExact, ZenonT(30)
<1>2. ChimeraInv /\ ChimeraInv' /\ ExactInv /\ [Next]_vars => ExactInv'
  BY NumbersHold, StepExact, ZenonT(30)
<1>3. ExactInv => ExactMatches
  BY Zenon DEF ExactInv
<1> QED
  BY <1>1, <1>2, <1>3, ScanInvariant, PTL DEF Spec
=============================================================================
