------------------------- MODULE ScratchAllocProofs -------------------------
(***************************************************************************)
(* Proofs about databases and scratches in memory: for any number of       *)
(* databases, serialized copies, scratches and blocks, for any sizes in    *)
(* the bytecodes, and whichever allocations fail.                          *)
(*                                                                         *)
(* The inductive invariant has one part per kind of object (DbOK, BlobOK,  *)
(* ScratchOK) and one that relates the heap to the pointers (Accounted).   *)
(***************************************************************************)
EXTENDS ScratchAlloc, TLAPS

-----------------------------------------------------------------------------
(* Families of pointers: f maps each handle to None or to an object with a  *)
(* block.                                                                   *)

Held(f) == {f[x].block : x \in {y \in DOMAIN f : f[y] # None}}
OneEach(f) == \A x, y \in DOMAIN f :
                 f[x] # None /\ f[y] # None /\ f[x].block = f[y].block => x = y

\* The live blocks are those of the three families, each of one pointer.
Accounted(live, f, g, k) ==
    /\ live = Held(f) \cup Held(g) \cup Held(k)
    /\ Held(f) \cap Held(g) = {} /\ Held(f) \cap Held(k) = {} /\ Held(g) \cap Held(k) = {}
    /\ OneEach(f) /\ OneEach(g) /\ OneEach(k)

(* A null pointer is set to an object in a block of its own, as Compile,    *)
(* hs_serialize_database, hs_deserialize_database, hs_alloc_scratch and     *)
(* hs_clone_scratch do: the family holds one more block.                    *)
LEMMA HeldPut ==
    ASSUME NEW S, NEW T, NEW f \in [S -> T], NEW x \in S, NEW r,
           f[x] = None, r # None, r.block \notin Held(f), OneEach(f)
    PROVE  /\ Held([f EXCEPT ![x] = r]) = Held(f) \cup {r.block}
           /\ OneEach([f EXCEPT ![x] = r])
<1> DEFINE g == [f EXCEPT ![x] = r]
<1>1. DOMAIN f = S /\ DOMAIN g = S /\ g[x] = r /\ \A y \in S \ {x} : g[y] = f[y]
  BY Zenon
<1>2. Held(g) = Held(f) \cup {r.block}
  <2>1. ASSUME NEW b \in Held(g) PROVE b \in Held(f) \cup {r.block}
    <3> HIDE DEF g
    <3>1. PICK y \in S : g[y] # None /\ b = g[y].block
      BY <1>1, <2>1, Zenon DEF Held
    <3>2. CASE y = x  BY <3>1, <3>2, <1>1, Zenon
    <3>3. CASE y # x  BY <3>1, <3>3, <1>1, Zenon DEF Held
    <3>4. QED  BY <3>2, <3>3, Zenon
  <2>2. ASSUME NEW b \in Held(f) \cup {r.block} PROVE b \in Held(g)
    <3> HIDE DEF g
    <3>1. CASE b = r.block  BY <3>1, <1>1, Zenon DEF Held
    <3>2. CASE b \in Held(f)
      <4>1. PICK y \in S : f[y] # None /\ b = f[y].block
        BY <1>1, <3>2, Zenon DEF Held
      <4>2. QED  BY <4>1, <1>1, Zenon DEF Held
    <3>3. QED  BY <2>2, <3>1, <3>2, Zenon
  <2>3. QED  BY <2>1, <2>2, Zenon
<1>3. OneEach(g)
  <2> HIDE DEF g
  <2>1. \A y \in S : f[y] # None => f[y].block # r.block
    BY <1>1, Zenon DEF Held
  <2>2. QED  BY <1>1, <2>1 DEF OneEach
<1>4. QED  BY <1>2, <1>3, Zenon

(* A pointer is set to null when its object is freed, as hs_free_database   *)
(* and hs_free_scratch do: the family holds its block no more.              *)
LEMMA HeldDrop ==
    ASSUME NEW S, NEW T, NEW f \in [S -> T], NEW x \in S, f[x] # None, OneEach(f)
    PROVE  /\ Held([f EXCEPT ![x] = None]) = Held(f) \ {f[x].block}
           /\ f[x].block \in Held(f)
           /\ OneEach([f EXCEPT ![x] = None])
<1> DEFINE g == [f EXCEPT ![x] = None]
<1>1. DOMAIN f = S /\ DOMAIN g = S /\ g[x] = None /\ \A y \in S \ {x} : g[y] = f[y]
  BY Zenon
<1>2. Held(g) = Held(f) \ {f[x].block}
  <2>1. ASSUME NEW b \in Held(g) PROVE b \in Held(f) \ {f[x].block}
    <3> HIDE DEF g
    <3>1. PICK y \in S : g[y] # None /\ b = g[y].block
      BY <1>1, <2>1, Zenon DEF Held
    <3>2. y # x /\ f[y] # None /\ b = f[y].block
      BY <3>1, <1>1, Zenon
    <3>3. QED  BY <3>2, <1>1, Zenon DEF Held, OneEach
  <2>2. ASSUME NEW b \in Held(f), b # f[x].block PROVE b \in Held(g)
    <3> HIDE DEF g
    <3>1. PICK y \in S : f[y] # None /\ b = f[y].block
      BY <1>1, <2>2, Zenon DEF Held
    <3>2. QED  BY <3>1, <2>2, <1>1, Zenon DEF Held
  <2>3. QED  BY <2>1, <2>2, Zenon
<1>3. f[x].block \in Held(f)
  BY <1>1, Zenon DEF Held
<1>4. OneEach(g)
  <2> HIDE DEF g
  <2>1. QED  BY <1>1 DEF OneEach
<1>5. QED  BY <1>2, <1>3, <1>4, Zenon

(* An object is rewritten in its block, as scans and hs_alloc_scratch do    *)
(* with the flag of a scratch, and storage with a serialized database.      *)
LEMMA HeldKeep ==
    ASSUME NEW S, NEW T, NEW f \in [S -> T], NEW x \in S, NEW r,
           f[x] # None, r # None, r.block = f[x].block, OneEach(f)
    PROVE  /\ Held([f EXCEPT ![x] = r]) = Held(f)
           /\ OneEach([f EXCEPT ![x] = r])
<1> DEFINE g == [f EXCEPT ![x] = r]
<1>1. DOMAIN f = S /\ DOMAIN g = S /\ g[x] = r /\ \A y \in S \ {x} : g[y] = f[y]
  BY Zenon
<1> HIDE DEF g
<1>2. \A y \in S : (g[y] # None <=> f[y] # None) /\ (f[y] # None => g[y].block = f[y].block)
  BY <1>1, Zenon
<1>3. Held(g) = Held(f)
  BY <1>1, <1>2, Zenon DEF Held
<1>4. OneEach(g)
  BY <1>1, <1>2 DEF OneEach
<1>5. QED  BY <1>3, <1>4, Zenon DEF g

(* The families may be taken in any order. *)
LEMMA AccountedTurn ==
    ASSUME NEW live, NEW f, NEW g, NEW k
    PROVE  /\ Accounted(live, f, g, k) <=> Accounted(live, g, f, k)
           /\ Accounted(live, f, g, k) <=> Accounted(live, k, g, f)
BY Zenon DEF Accounted

(* A block just allocated goes to one null pointer: the heap and the        *)
(* pointers still agree (Compile, hs_serialize_database, hs_clone_scratch). *)
LEMMA AccountedPut ==
    ASSUME NEW live, NEW S, NEW T, NEW f \in [S -> T], NEW g, NEW k, Accounted(live, f, g, k),
           NEW x \in S, f[x] = None, NEW r, r # None, r.block \notin live
    PROVE  Accounted(live \cup {r.block}, [f EXCEPT ![x] = r], g, k)
<1>1. OneEach(f) /\ r.block \notin Held(f)
  BY Zenon DEF Accounted
<1>2. /\ Held([f EXCEPT ![x] = r]) = Held(f) \cup {r.block}
      /\ OneEach([f EXCEPT ![x] = r])
  BY <1>1, HeldPut, Zenon
<1>3. QED  BY <1>2, Zenon DEF Accounted

(* What a pointer points to is live, and once it is freed and the pointer   *)
(* is null the heap and the pointers still agree (hs_free_database).        *)
LEMMA AccountedDrop ==
    ASSUME NEW live, NEW S, NEW T, NEW f \in [S -> T], NEW g, NEW k, Accounted(live, f, g, k),
           NEW x \in S, f[x] # None
    PROVE  /\ f[x].block \in live
           /\ Accounted(live \ {f[x].block}, [f EXCEPT ![x] = None], g, k)
<1>1. OneEach(f)
  BY Zenon DEF Accounted
<1>2. /\ Held([f EXCEPT ![x] = None]) = Held(f) \ {f[x].block}
      /\ f[x].block \in Held(f)
      /\ OneEach([f EXCEPT ![x] = None])
  BY <1>1, HeldDrop, Zenon
<1>3. QED  BY <1>2, Zenon DEF Accounted

(* An object rewritten in its block leaves the heap and the pointers in     *)
(* agreement (the flag that scans set).                                     *)
LEMMA AccountedKeep ==
    ASSUME NEW live, NEW S, NEW T, NEW f \in [S -> T], NEW g, NEW k, Accounted(live, f, g, k),
           NEW x \in S, f[x] # None, NEW r, r # None, r.block = f[x].block
    PROVE  Accounted(live, [f EXCEPT ![x] = r], g, k)
<1>1. OneEach(f)
  BY Zenon DEF Accounted
<1>2. Held([f EXCEPT ![x] = r]) = Held(f) /\ OneEach([f EXCEPT ![x] = r])
  BY <1>1, HeldKeep, Zenon
<1>3. QED  BY <1>2, Zenon DEF Accounted

-----------------------------------------------------------------------------
(* Sizes. *)

(* ROUNDUP_N gives the next multiple: for the two alignments alloc_scratch  *)
(* uses.                                                                    *)
LEMMA RoundUp8 ==
    ASSUME NEW n \in Nat
    PROVE  RoundUp(n, 8) \in Nat /\ RoundUp(n, 8) % 8 = 0
           /\ n <= RoundUp(n, 8) /\ RoundUp(n, 8) <= n + 7
BY DEF RoundUp

(* ROUNDUP_N leaves a multiple of 8 alone: the regions of alloc_scratch     *)
(* that need no padding.                                                    *)
LEMMA Aligned8 ==
    ASSUME NEW n \in Nat, n % 8 = 0
    PROVE  RoundUp(n, 8) = n
BY DEF RoundUp

(* ROUNDUP_CL gives the next cache line, at most 63 bytes on.               *)
LEMMA RoundUp64 ==
    ASSUME NEW n \in Nat
    PROVE  /\ RoundUp(n, 64) \in Nat /\ RoundUp(n, 64) % 64 = 0 /\ RoundUp(n, 64) % 8 = 0
           /\ n <= RoundUp(n, 64) /\ RoundUp(n, 64) <= n + 63
BY DEF RoundUp

(* fatbit_size is a multiple of 8 and at least sizeof(struct fatbit).       *)
LEMMA FatbitAligned ==
    ASSUME NEW n \in Nat
    PROVE  fatbit_size(n) \in Nat /\ fatbit_size(n) % 8 = 0 /\ fatbit_size(n) >= 32
<1>1. CASE n <= 256
  <2>1. mmbit_size(n) \in Nat /\ mmbit_size(n) <= 32
    BY <1>1 DEF mmbit_size, RoundUp
  <2>2. QED  BY <2>1 DEF fatbit_size
<1>2. CASE n > 256
  <2> DEFINE k == Level(1, n) + Level(64, n) + Level(4096, n) + Level(262144, n)
                  + Level(16777216, n) + RoundUp(n, MmbKeyBits) \div MmbKeyBits
  <2>1. k \in Nat
    BY DEF Level, RoundUp, MmbKeyBits
  <2>2. mmbit_size(n) = 8 * k
    BY <1>2 DEF mmbit_size
  <2> HIDE DEF k
  <2>3. QED  BY <2>1, <2>2 DEF fatbit_size
<1>3. QED  BY <1>1, <1>2

(* fatbit_size grows with the number of bits: a fatbit for the larger of    *)
(* two counts has room for the smaller.                                     *)
LEMMA FatbitMonotone ==
    ASSUME NEW m \in Nat, NEW n \in Nat, m <= n
    PROVE  fatbit_size(m) <= fatbit_size(n)
<1>1. CASE m <= 256
  <2>1. mmbit_size(m) \in Nat /\ mmbit_size(m) <= 32
    BY <1>1 DEF mmbit_size, RoundUp
  <2>2. fatbit_size(m) = 32
    BY <2>1 DEF fatbit_size
  <2>3. QED  BY <2>2, FatbitAligned
<1>2. CASE m > 256
  <2>1. /\ Level(1, m) <= Level(1, n) /\ Level(64, m) <= Level(64, n)
        /\ Level(4096, m) <= Level(4096, n) /\ Level(262144, m) <= Level(262144, n)
        /\ Level(16777216, m) <= Level(16777216, n)
    BY DEF Level, MmbKeyBits
  <2>2. RoundUp(m, MmbKeyBits) \div MmbKeyBits <= RoundUp(n, MmbKeyBits) \div MmbKeyBits
    BY DEF RoundUp, MmbKeyBits
  <2>3. \A k \in {1, 64, 4096, 262144, 16777216} : Level(k, m) \in Nat /\ Level(k, n) \in Nat
    BY DEF Level, MmbKeyBits
  <2>4. /\ RoundUp(m, MmbKeyBits) \div MmbKeyBits \in Nat
        /\ RoundUp(n, MmbKeyBits) \div MmbKeyBits \in Nat
    BY DEF RoundUp, MmbKeyBits
  <2>5. mmbit_size(m) <= mmbit_size(n) /\ mmbit_size(m) \in Nat /\ mmbit_size(n) \in Nat
    BY <1>2, <2>1, <2>2, <2>3, <2>4 DEF mmbit_size
  <2>6. QED  BY <2>5 DEF fatbit_size
<1>3. QED  BY <1>1, <1>2

AllFields == DOMAIN NoSizes

(* What a bytecode asks for is a size in every field, and the sizes of bit  *)
(* vectors are multiples of 8.                                              *)
LEMMA NeedType ==
    ASSUME NEW c \in Codes
    PROVE  /\ \A f \in AllFields : Need[c][f] \in Nat
           /\ \A f \in {"alFat", "delayFat", "handledFat", "somFat", "aqa"} : Need[c][f] % 8 = 0
           /\ Need[c].dkeyCount = Engine[c].dkeys /\ Need[c].logSize = fatbit_size(Engine[c].dkeys)
           /\ Need[c].queueCount = Engine[c].queues
           /\ Need[c].bState = BStateSize(c)
<1> DEFINE e == Engine[c]
<1>1. /\ e.mode \in {"block", "vectored", "stream"}
      /\ e.stateEnd \in Nat /\ e.anchoredDistance \in Nat /\ e.anchored \in Nat /\ e.delay \in Nat
      /\ e.handled \in Nat /\ e.tState \in Nat /\ e.som \in Nat /\ e.queues \in Nat
      /\ e.fullState \in Nat /\ e.dkeys \in Nat
  BY EngineAssumption
<1>2. BStateSize(c) \in Nat
  BY <1>1, ScratchAssumption DEF BStateSize
<1>3. \A n \in Nat : fatbit_size(n) \in Nat /\ fatbit_size(n) % 8 = 0
  BY FatbitAligned
<1>4. AllFields = {"alLen", "alFat", "delayFat", "handledFat", "tState", "somCount", "somFat",
                   "queueCount", "aqa", "bState", "fullState", "dkeyCount", "logSize"}
  BY DEF AllFields, NoSizes, Fields
<1>5. Need[c] =
        [alLen |-> e.anchoredDistance, alFat |-> fatbit_size(e.anchored),
         delayFat |-> fatbit_size(e.delay), handledFat |-> fatbit_size(e.handled),
         tState |-> e.tState, somCount |-> e.som, somFat |-> fatbit_size(e.som),
         queueCount |-> e.queues, aqa |-> fatbit_size(e.queues), bState |-> BStateSize(c),
         fullState |-> e.fullState, dkeyCount |-> e.dkeys, logSize |-> fatbit_size(e.dkeys)]
  BY DEF Need
<1> HIDE DEF e
<1>6. \A f \in AllFields : Need[c][f] \in Nat
  BY <1>1, <1>2, <1>3, <1>4, <1>5
<1>7. \A f \in {"alFat", "delayFat", "handledFat", "somFat", "aqa"} : Need[c][f] % 8 = 0
  BY <1>1, <1>3, <1>5
<1>8. QED  BY <1>5, <1>6, <1>7 DEF e

\* Sizes that hs_alloc_scratch can give a scratch.
LogSizeOf(n) == IF n = 0 THEN 0 ELSE fatbit_size(n)
SizesOK(p) ==
    /\ p \in [AllFields -> Nat]
    /\ \A f \in {"alFat", "delayFat", "handledFat", "somFat", "aqa"} : p[f] % 8 = 0
    /\ p.logSize = LogSizeOf(p.dkeyCount)

(* The prototype grown for a database has room for it and for what it had   *)
(* room for before; the size of the logs stays that of its count of keys.   *)
LEMMA GrownOK ==
    ASSUME NEW p, SizesOK(p), NEW c \in Codes
    PROVE  /\ SizesOK(Grown(p, Need[c]))
           /\ \A f \in AllFields \ {"logSize"} :
                 p[f] <= Grown(p, Need[c])[f] /\ Need[c][f] <= Grown(p, Need[c])[f]
<1> DEFINE n == Need[c]
           g == Grown(p, n)
<1>1. /\ \A f \in AllFields : n[f] \in Nat
      /\ \A f \in {"alFat", "delayFat", "handledFat", "somFat", "aqa"} : n[f] % 8 = 0
      /\ n.logSize = fatbit_size(n.dkeyCount)
  BY NeedType
<1>2. {"alFat", "delayFat", "handledFat", "somFat", "aqa", "logSize", "dkeyCount"} \subseteq AllFields
  BY DEF AllFields, NoSizes, Fields
<1> HIDE DEF n
<1>3. DOMAIN p = AllFields /\ \A f \in AllFields : p[f] \in Nat
  BY DEF SizesOK
<1>4. g = [f \in AllFields |->
             IF f = "logSize" THEN IF n.dkeyCount > p.dkeyCount THEN n.logSize ELSE p.logSize
             ELSE IF n[f] > p[f] THEN n[f] ELSE p[f]]
  BY <1>3 DEF Grown
<1> HIDE DEF g
<1>5. g \in [AllFields -> Nat]
  BY <1>1, <1>2, <1>3, <1>4
<1>6. \A f \in AllFields \ {"logSize"} :
         g[f] = (IF n[f] > p[f] THEN n[f] ELSE p[f]) /\ p[f] <= g[f] /\ n[f] <= g[f]
  BY <1>1, <1>3, <1>4
<1>7. \A f \in {"alFat", "delayFat", "handledFat", "somFat", "aqa"} : g[f] % 8 = 0
  BY <1>1, <1>2, <1>6 DEF SizesOK
<1>8. g.logSize = LogSizeOf(g.dkeyCount)
  <2>1. g.logSize = IF n.dkeyCount > p.dkeyCount THEN n.logSize ELSE p.logSize
    BY <1>2, <1>4
  <2>2. g.dkeyCount = IF n.dkeyCount > p.dkeyCount THEN n.dkeyCount ELSE p.dkeyCount
    BY <1>2, <1>6
  <2>3. n.dkeyCount \in Nat /\ p.dkeyCount \in Nat
    BY <1>1, <1>2, <1>3
  <2>4. QED  BY <2>1, <2>2, <2>3, <1>1 DEF SizesOK, LogSizeOf
<1>9. SizesOK(g)
  BY <1>5, <1>7, <1>8 DEF SizesOK
<1>10. QED  BY <1>6, <1>9 DEF g, n

(* A scratch that is not resized has room for the database already.         *)
LEMMA NoResize ==
    ASSUME NEW p, SizesOK(p), NEW c \in Codes, ~Resize(p, Need[c])
    PROVE  \A f \in AllFields \ {"logSize"} : Need[c][f] <= p[f]
<1>1. AllFields \ {"logSize"} = Fields \cup {"dkeyCount"}
  BY DEF AllFields, NoSizes, Fields
<1>2. \A f \in AllFields : Need[c][f] \in Nat /\ p[f] \in Nat
  BY NeedType DEF SizesOK
<1>3. QED  BY <1>1, <1>2 DEF Resize

(* alloc_scratch hands out aligned regions, and alloc_size covers them,     *)
(* wherever its block lies.                                                 *)
LEMMA LayoutHolds ==
    ASSUME NEW p, SizesOK(p), NEW a \in 0 .. 63
    PROVE  /\ \A x \in {QueuesAt(p, a), SomStoreAt(p, a), DelayAt(p, a), DelaySlotsAt(p, a),
                        AlLogAt(p, a), AlSlotsAt(p, a), QmAt(p, a), StartLogAt(p, a),
                        AqaAt(p, a), HandledAt(p, a), LogAt(p, a), SomSetAt(p, a)} : x % 8 = 0
           /\ \A f \in {"delayFat", "alFat", "logSize", "somFat"} : p[f] % 8 = 0
           /\ FullStateAt(p, a) % 64 = 0
           /\ LayoutEnd(p, a) - a <= AllocSize(p)
<1>1. /\ p.alLen \in Nat /\ p.alFat \in Nat /\ p.delayFat \in Nat /\ p.handledFat \in Nat
      /\ p.tState \in Nat /\ p.somCount \in Nat /\ p.somFat \in Nat /\ p.queueCount \in Nat
      /\ p.aqa \in Nat /\ p.bState \in Nat /\ p.fullState \in Nat /\ p.dkeyCount \in Nat
      /\ p.logSize \in Nat
  BY DEF SizesOK, AllFields, NoSizes, Fields
<1>2. /\ p.alFat % 8 = 0 /\ p.delayFat % 8 = 0 /\ p.handledFat % 8 = 0
      /\ p.somFat % 8 = 0 /\ p.aqa % 8 = 0
  BY DEF SizesOK
<1>3. p.logSize % 8 = 0
  BY <1>1, FatbitAligned DEF SizesOK, LogSizeOf
<1> DEFINE len == p.alLen * p.alFat
<1>4. len \in Nat
  BY <1>1
<1>5. len % 8 = 0
  <2>1. PICK k \in Nat : p.alFat = 8 * k
    BY <1>1, <1>2
  <2>2. p.alLen * k \in Nat /\ len = 8 * (p.alLen * k)
    BY <1>1, <2>1
  <2> HIDE DEF len
  <2>3. QED  BY <2>2
<1>6. HeaderAt(a) \in Nat /\ HeaderAt(a) % 64 = 0 /\ HeaderAt(a) <= a + 63
  BY RoundUp64 DEF HeaderAt
<1>7. /\ QueuesAt(p, a) \in Nat /\ QueuesAt(p, a) % 8 = 0
      /\ QueuesAt(p, a) = HeaderAt(a) + SizeofScratch
  <2>1. HeaderAt(a) + SizeofScratch \in Nat /\ (HeaderAt(a) + SizeofScratch) % 8 = 0
    BY <1>6, ScratchAssumption
  <2>2. QED  BY <2>1, Aligned8 DEF QueuesAt
<1>8. /\ SomStoreAt(p, a) \in Nat /\ SomStoreAt(p, a) % 8 = 0
      /\ SomStoreAt(p, a) = QueuesAt(p, a) + p.queueCount * 344
  BY <1>1, <1>7 DEF SomStoreAt, SizeofMq
<1>9. /\ DelayAt(p, a) \in Nat /\ DelayAt(p, a) % 8 = 0
      /\ DelayAt(p, a) = SomStoreAt(p, a) + 16 * p.somCount
  <2>1. /\ SomStoreAt(p, a) + 2 * 8 * p.somCount \in Nat
        /\ (SomStoreAt(p, a) + 2 * 8 * p.somCount) % 8 = 0
    BY <1>1, <1>8
  <2>2. QED  BY <1>1, <1>8, <2>1, Aligned8 DEF DelayAt
<1>10. /\ DelaySlotsAt(p, a) \in Nat /\ DelaySlotsAt(p, a) % 8 = 0
       /\ DelaySlotsAt(p, a) = DelayAt(p, a) + 256
  BY <1>9 DEF DelaySlotsAt, RoundUp, DelaySlotCount
<1>11. /\ AlLogAt(p, a) \in Nat /\ AlLogAt(p, a) % 8 = 0
       /\ AlLogAt(p, a) = DelaySlotsAt(p, a) + 32 * p.delayFat
  BY <1>1, <1>10 DEF AlLogAt, RoundUp, DelaySlotCount
<1>12. /\ AlSlotsAt(p, a) \in Nat /\ AlSlotsAt(p, a) % 8 = 0
       /\ AlSlotsAt(p, a) = AlLogAt(p, a) + 8 * p.alLen
  BY <1>1, <1>11 DEF AlSlotsAt, RoundUp
<1>13. /\ QmAt(p, a) \in Nat /\ QmAt(p, a) % 8 = 0
       /\ QmAt(p, a) = AlSlotsAt(p, a) + len
  <2>1. QmAt(p, a) = RoundUp(AlSlotsAt(p, a) + len, 8)
    BY DEF QmAt
  <2> HIDE DEF len
  <2>2. AlSlotsAt(p, a) + len \in Nat /\ (AlSlotsAt(p, a) + len) % 8 = 0
    BY <1>4, <1>5, <1>12
  <2>3. QED  BY <2>1, <2>2, Aligned8
<1>14. BstateAt(p, a) \in Nat /\ BstateAt(p, a) = QmAt(p, a) + 16 * p.queueCount
  BY <1>1, <1>13 DEF BstateAt, SizeofQueueMatch
<1>15. /\ StartLogAt(p, a) \in Nat /\ StartLogAt(p, a) % 8 = 0
       /\ StartLogAt(p, a) <= BstateAt(p, a) + p.bState + p.tState + 63
  <2>1. BstateAt(p, a) + p.bState + p.tState \in Nat
    BY <1>1, <1>14
  <2>2. QED  BY <2>1, RoundUp64 DEF StartLogAt
<1>16. /\ AqaAt(p, a) \in Nat /\ AqaAt(p, a) % 8 = 0
       /\ AqaAt(p, a) = StartLogAt(p, a) + 16 * p.dkeyCount
  BY <1>1, <1>15 DEF AqaAt
<1>17. /\ HandledAt(p, a) \in Nat /\ HandledAt(p, a) % 8 = 0
       /\ HandledAt(p, a) = AqaAt(p, a) + p.aqa
  BY <1>1, <1>2, <1>16 DEF HandledAt
<1>18. /\ LogAt(p, a) \in Nat /\ LogAt(p, a) % 8 = 0
       /\ LogAt(p, a) = HandledAt(p, a) + p.handledFat
  BY <1>1, <1>2, <1>17 DEF LogAt
<1>19. /\ SomSetAt(p, a) \in Nat /\ SomSetAt(p, a) % 8 = 0
       /\ SomSetAt(p, a) = LogAt(p, a) + 4 * p.logSize
  BY <1>1, <1>3, <1>18 DEF SomSetAt
<1>20. /\ FullStateAt(p, a) \in Nat /\ FullStateAt(p, a) % 64 = 0
       /\ FullStateAt(p, a) <= SomSetAt(p, a) + 2 * p.somFat + 63
  <2>1. SomSetAt(p, a) + 2 * p.somFat \in Nat
    BY <1>1, <1>19
  <2>2. QED  BY <2>1, RoundUp64, Zenon DEF FullStateAt
<1>21. LayoutEnd(p, a) - a <= AllocSize(p)
  <2>1. fatbit_array_size(p.alLen, p.alFat) >= 8 * p.alLen + len
    <3>1. p.alFat * p.alLen = len
      BY <1>1
    <3>2. RoundUp(8 * p.alLen, 8) \in Nat /\ RoundUp(8 * p.alLen, 8) >= 8 * p.alLen
      <4>1. 8 * p.alLen \in Nat
        BY <1>1
      <4>2. QED  BY <4>1, RoundUp8, Zenon
    <3>3. fatbit_array_size(p.alLen, p.alFat) = RoundUp(RoundUp(8 * p.alLen, 8) + len, 8)
      BY <3>1 DEF fatbit_array_size
    <3> HIDE DEF len
    <3>4. RoundUp(8 * p.alLen, 8) + len \in Nat
      BY <1>4, <3>2
    <3>5. fatbit_array_size(p.alLen, p.alFat) >= RoundUp(8 * p.alLen, 8) + len
      BY <3>3, <3>4, RoundUp8
    <3>6. fatbit_array_size(p.alLen, p.alFat) \in Nat
      BY <3>3, <3>4, RoundUp8
    <3>7. QED  BY <1>1, <1>4, <3>2, <3>5, <3>6
  <2>2. fatbit_array_size(DelaySlotCount, p.delayFat) >= 256 + 32 * p.delayFat
    BY <1>1 DEF fatbit_array_size, RoundUp, DelaySlotCount
  <2>3. fatbit_array_size(DelaySlotCount, p.delayFat) \in Nat
    BY <1>1 DEF fatbit_array_size, RoundUp, DelaySlotCount
  <2>4. fatbit_array_size(p.alLen, p.alFat) \in Nat
    <3>1. 8 * p.alLen \in Nat /\ p.alFat * p.alLen \in Nat
      BY <1>1
    <3>2. RoundUp(8 * p.alLen, 8) + p.alFat * p.alLen \in Nat
      BY <3>1, RoundUp8
    <3>3. QED  BY <3>2, RoundUp8 DEF fatbit_array_size
  <2> DEFINE al == fatbit_array_size(p.alLen, p.alFat)
             dl == fatbit_array_size(DelaySlotCount, p.delayFat)
  <2>5. AllocSize(p) =
          SizeofScratch + 256
          + p.queueCount * 344 + 63 + p.bState + p.tState + p.fullState + 63
          + p.handledFat + p.aqa + 4 * p.logSize + 16 * p.dkeyCount
          + al + p.queueCount * 16 + dl + 16 * p.somCount + 2 * p.somFat + 15
    BY <1>1 DEF AllocSize, SizeofMq, SizeofQueueMatch
  <2>6. LayoutEnd(p, a) = FullStateAt(p, a) + p.fullState
    BY DEF LayoutEnd
  <2>7. al \in Nat /\ dl \in Nat /\ al >= 8 * p.alLen + len /\ dl >= 256 + 32 * p.delayFat
    BY <2>1, <2>2, <2>3, <2>4
  <2> HIDE DEF len, al, dl
  <2>8. PICK hd \in Nat, qs \in Nat, sl \in Nat, sf \in Nat, dn \in Nat, st \in Nat, an \in Nat :
           /\ hd = HeaderAt(a) /\ qs = p.queueCount /\ sl = p.somCount /\ sf = p.somFat
           /\ dn = p.delayFat /\ st = SizeofScratch /\ an = p.alLen
    BY <1>1, <1>6, ScratchAssumption, Zenon
  <2>9. PICK bs \in Nat, ts \in Nat, fs \in Nat, dk \in Nat, lg \in Nat, aq \in Nat, hf \in Nat :
           /\ bs = p.bState /\ ts = p.tState /\ fs = p.fullState /\ dk = p.dkeyCount
           /\ lg = p.logSize /\ aq = p.aqa /\ hf = p.handledFat
    BY <1>1, Zenon
  <2>10. PICK al1 \in Nat, dl1 \in Nat, ln \in Nat : al1 = al /\ dl1 = dl /\ ln = len
    BY <1>4, <2>7
  <2>11. PICK s0 \in Nat, s1 \in Nat, s2 \in Nat, s3 \in Nat, s4 \in Nat :
           s0 = QmAt(p, a) /\ s1 = StartLogAt(p, a) /\ s2 = SomSetAt(p, a)
           /\ s3 = FullStateAt(p, a) /\ s4 = BstateAt(p, a)
    BY <1>13, <1>14, <1>15, <1>19, <1>20, Zenon
  <2>12. s0 = hd + st + qs * 344 + 16 * sl + 256 + 32 * dn + 8 * an + ln
    BY <1>7, <1>8, <1>9, <1>10, <1>11, <1>12, <1>13, <2>8, <2>10, <2>11
  <2>13. s4 = s0 + 16 * qs /\ s1 <= s4 + bs + ts + 63
    BY <1>14, <1>15, <2>8, <2>9, <2>11
  <2>14. s2 = s1 + 16 * dk + aq + hf + 4 * lg /\ s3 <= s2 + 2 * sf + 63
    BY <1>16, <1>17, <1>18, <1>19, <1>20, <2>8, <2>9, <2>11
  <2>15. hd <= a + 63 /\ al1 >= 8 * an + ln /\ dl1 >= 256 + 32 * dn
    BY <1>6, <2>7, <2>8, <2>10
  <2>16. s3 + fs - a <= st + 256 + qs * 344 + 63 + bs + ts + fs + 63 + hf + aq + 4 * lg + 16 * dk
                        + al1 + qs * 16 + dl1 + 16 * sl + 2 * sf + 15
    BY <2>12, <2>13, <2>14, <2>15
  <2>17. QED  BY <2>5, <2>6, <2>8, <2>9, <2>10, <2>11, <2>16
<1>22. QED
  BY <1>2, <1>3, <1>7, <1>8, <1>9, <1>10, <1>11, <1>12, <1>13, <1>15, <1>16, <1>17, <1>18,
     <1>19, <1>20, <1>21

-----------------------------------------------------------------------------
(* The heap. *)

Heaps == [live : SUBSET Blocks, fault : {FALSE}]

\* What the proofs use about sizes of sets of blocks; BlockSizesHold proves it, and
\* every lemma that needs it says so.
BlockSizes ==
    /\ Cardinality(Blocks) = MaxBlocks
    /\ \A live \in SUBSET Blocks :
          /\ Cardinality(live) \in Nat
          /\ \A part \in SUBSET live : Cardinality(part) <= Cardinality(live)
          /\ \A b : Cardinality(live \cup {b}) \in {Cardinality(live), Cardinality(live) + 1}

(* An allocator with a free block returns one. *)
LEMMA Fresh ==
    ASSUME BlockSizes, NEW hp \in Heaps, Cardinality(hp.live) < MaxBlocks
    PROVE  FreshBlock(hp) \in Blocks /\ FreshBlock(hp) \notin hp.live
<1>1. hp.live # Blocks
  BY DatabaseAssumption DEF BlockSizes
<1>2. \E b \in Blocks : b \notin hp.live
  BY <1>1, Zenon DEF Heaps
<1>3. QED  BY <1>2, Zenon DEF FreshBlock

(* After one allocation there is room for one less. *)
LEMMA FreshTwice ==
    ASSUME BlockSizes, NEW hp \in Heaps, Cardinality(hp.live) + 2 <= MaxBlocks, NEW b
    PROVE  Cardinality(hp.live) < MaxBlocks /\ Cardinality(hp.live \cup {b}) < MaxBlocks
<1>1. hp.live \in SUBSET Blocks /\ MaxBlocks \in Nat
  BY DatabaseAssumption, Zenon DEF Heaps
<1>2. /\ Cardinality(hp.live) \in Nat
      /\ Cardinality(hp.live \cup {b}) \in {Cardinality(hp.live), Cardinality(hp.live) + 1}
  BY <1>1, Zenon DEF BlockSizes
<1>3. QED  BY <1>1, <1>2

(* An allocator with room for one block returns a block that is not live.   *)
LEMMA OneRoom ==
    ASSUME BlockSizes, NEW hp \in Heaps, Cardinality(hp.live) + 1 <= MaxBlocks
    PROVE  FreshBlock(hp) \in Blocks /\ FreshBlock(hp) \notin hp.live
<1>1. hp.live \in SUBSET Blocks /\ MaxBlocks \in Nat
  BY DatabaseAssumption, Zenon DEF Heaps
<1>2. Cardinality(hp.live) \in Nat
  BY <1>1, Zenon DEF BlockSizes
<1>3. Cardinality(hp.live) < MaxBlocks
  BY <1>1, <1>2
<1>4. QED  BY <1>3, Fresh, Zenon

(* The allocator of a call that succeeds adds its block to the live ones.   *)
LEMMA MallocOK ==
    ASSUME NEW hp \in Heaps, NEW a, a # NoMem, FreshBlock(hp) \in Blocks
    PROVE  /\ Malloc(hp, a) \in Heaps
           /\ Malloc(hp, a).live = hp.live \cup {FreshBlock(hp)}
<1>1. Malloc(hp, a) = [hp EXCEPT !.live = @ \cup {FreshBlock(hp)}]
  BY Zenon DEF Malloc
<1>2. QED  BY <1>1, Zenon DEF Heaps

(* Freeing a live block removes it and is no fault.                         *)
LEMMA FreeOK ==
    ASSUME NEW hp \in Heaps, NEW b \in hp.live
    PROVE  FreeBlock(hp, b) \in Heaps /\ FreeBlock(hp, b).live = hp.live \ {b}
<1>1. FreeBlock(hp, b) = [hp EXCEPT !.live = @ \ {b}]
  BY Zenon DEF FreeBlock
<1>2. QED  BY <1>1, Zenon DEF Heaps

(* A failed or misaligned allocation that is given back leaves the heap as  *)
(* it was.                                                                  *)
LEMMA UndoOK ==
    ASSUME NEW hp \in Heaps, NEW a, FreshBlock(hp) \in Blocks, FreshBlock(hp) \notin hp.live
    PROVE  /\ Undo(Malloc(hp, a), FreshBlock(hp), a) \in Heaps
           /\ Undo(Malloc(hp, a), FreshBlock(hp), a).live = hp.live
<1>1. CASE a = NoMem
  BY <1>1, Zenon DEF Undo, Malloc
<1>2. CASE a # NoMem
  <2> DEFINE m == Malloc(hp, a)
             b == FreshBlock(hp)
  <2>1. m \in Heaps /\ m.live = hp.live \cup {b}
    BY <1>2, MallocOK, Zenon
  <2>2. Undo(m, b, a) = FreeBlock(m, b)
    BY <1>2, Zenon DEF Undo
  <2> HIDE DEF m, b
  <2>3. FreeBlock(m, b) \in Heaps /\ FreeBlock(m, b).live = m.live \ {b}
    BY <2>1, FreeOK, Zenon
  <2>4. m.live \ {b} = hp.live
    BY <2>1, Zenon DEF b
  <2>5. QED  BY <2>2, <2>3, <2>4, Zenon DEF m, b
<1>3. QED  BY <1>1, <1>2, Zenon

-----------------------------------------------------------------------------
(* The invariant. *)

Db == [kind : {"db"}, block : Blocks, addr : 0 .. 63, magic : BOOLEAN, version : BOOLEAN,
       platform : BOOLEAN, length : Nat, crc : Codes \cup {NoCrc}, code : Codes \cup {Broken},
       bytecode : Int, origin : Codes]
Blob == [kind : {"blob"}, block : Blocks, magic : BOOLEAN, version : BOOLEAN,
         platform : BOOLEAN, length : Nat, crc : Codes \cup {NoCrc},
         code : Codes \cup {Broken}, size : Nat, origin : Codes]
Scratch == [kind : {"scratch"}, block : Blocks, addr : 0 .. 63, size : [AllFields -> Nat],
            allocated : Int, inUse : BOOLEAN, ready : SUBSET Codes]

\* Bytecode is what was compiled, unless it was damaged under the crc of what was.
Genuine(x) == x.code = x.origin \/ (x.code = Broken /\ x.crc = x.origin)

DbOK == /\ dbs \in [DbHandles -> {None} \cup Db]
        /\ \A h \in DbHandles : dbs[h] # None =>
              Genuine(dbs[h]) /\ dbs[h].bytecode = BytecodeAt(dbs[h].addr)
BlobOK == /\ blobs \in [Blobs -> {None} \cup Blob]
          /\ \A s \in Blobs : blobs[s] # None => Genuine(blobs[s])

\* A scratch has room for the databases it was prepared for.
Serves(x) ==
    /\ SizesOK(x.size) /\ x.allocated = AllocSize(x.size)
    /\ \A c \in x.ready : \A f \in AllFields \ {"logSize"} : Need[c][f] <= x.size[f]
ScratchOK == /\ scr \in [Scratches -> {None} \cup Scratch]
             /\ \A s \in Scratches : scr[s] # None => Serves(scr[s])
             /\ scanning = {s \in Scratches : scr[s] # None /\ scr[s].inUse}

MemoryInv == /\ heap \in Heaps
             /\ DbOK /\ BlobOK /\ ScratchOK
             /\ Accounted(heap.live, dbs, blobs, scr)

-----------------------------------------------------------------------------
(* Database calls. *)

(* Nothing is a null pointer that is an object. *)
LEMMA NotNone ==
    /\ \A x \in Db : x # None
    /\ \A x \in Blob : x # None
    /\ \A x \in Scratch : x # None
<1>1. \A x \in Db : x.kind = "db"  BY Zenon DEF Db
<1>2. \A x \in Blob : x.kind = "blob"  BY Zenon DEF Blob
<1>3. \A x \in Scratch : x.kind = "scratch"  BY Zenon DEF Scratch
<1>4. None.kind = "none"  BY Zenon DEF None
<1>5. QED  BY <1>1, <1>2, <1>3, <1>4, Zenon

(* A handle is set to a new database in a fresh block. *)
LEMMA PutDb ==
    ASSUME BlockSizes, MemoryInv, NEW h \in DbHandles, dbs[h] = None, HasRoom(1), NEW a, a # NoMem,
           NEW d \in Db,
           d.block = FreshBlock(heap), Genuine(d), d.bytecode = BytecodeAt(d.addr),
           heap' = Malloc(heap, a), dbs' = [dbs EXCEPT ![h] = d],
           UNCHANGED <<blobs, scr, scanning>>
    PROVE  MemoryInv'
<1> DEFINE b == FreshBlock(heap)
<1>1. heap \in Heaps
  BY Zenon DEF MemoryInv
<1>2. b \in Blocks /\ b \notin heap.live
  BY <1>1, OneRoom, Zenon DEF HasRoom
<1>3. heap' \in Heaps /\ heap'.live = heap.live \cup {b}
  BY <1>1, <1>2, MallocOK, Zenon
<1>4. d # None  BY NotNone, Zenon
<1>5. Accounted(heap.live, dbs, blobs, scr) /\ dbs \in [DbHandles -> {None} \cup Db]
  BY Zenon DEF MemoryInv, DbOK
<1> HIDE DEF b
<1>6. Accounted(heap'.live, dbs', blobs, scr)
  <2>1. d.block \notin heap.live /\ heap'.live = heap.live \cup {d.block}
    BY <1>2, <1>3, Zenon DEF b
  <2>2. Accounted(heap.live \cup {d.block}, [dbs EXCEPT ![h] = d], blobs, scr)
    BY <1>4, <1>5, <2>1, AccountedPut, Zenon
  <2>3. QED  BY <2>1, <2>2, Zenon
<1>7. dbs' \in [DbHandles -> {None} \cup Db]
  BY <1>5, Zenon
<1>8. \A x \in DbHandles : dbs'[x] = IF x = h THEN d ELSE dbs[x]
  BY <1>5, Zenon
<1>9. DbOK'
  BY <1>7, <1>8 DEF DbOK, MemoryInv, Genuine, BytecodeAt, Shift
<1>10. BlobOK' /\ ScratchOK'
  BY Zenon DEF MemoryInv, BlobOK, ScratchOK, Genuine, Serves, SizesOK
<1>11. QED  BY <1>3, <1>6, <1>9, <1>10, Zenon DEF MemoryInv

(* A call that fails leaves the live blocks and the pointers as they were.  *)
LEMMA SameMemory ==
    ASSUME MemoryInv, heap' \in Heaps, heap'.live = heap.live,
           UNCHANGED <<dbs, blobs, scr, scanning>>
    PROVE  MemoryInv'
BY Zenon DEF MemoryInv, DbOK, BlobOK, ScratchOK

(* An allocation that is given back, or never was.                          *)
LEMMA Undone ==
    ASSUME BlockSizes, MemoryInv, HasRoom(1), NEW a,
           heap' = Undo(Malloc(heap, a), FreshBlock(heap), a),
           UNCHANGED <<dbs, blobs, scr, scanning>>
    PROVE  MemoryInv'
<1>1. heap \in Heaps
  BY Zenon DEF MemoryInv
<1>2. FreshBlock(heap) \in Blocks /\ FreshBlock(heap) \notin heap.live
  BY <1>1, OneRoom, Zenon DEF HasRoom
<1>3. heap' \in Heaps /\ heap'.live = heap.live
  BY <1>1, <1>2, UndoOK, Zenon
<1>4. QED  BY <1>3, SameMemory, Zenon

(* Whatever result an allocation has, the address of an aligned one is in   *)
(* the range of addresses.                                                  *)
LEMMA Address ==
    ASSUME NEW a \in Results
    PROVE  /\ a # NoMem => a \in 0 .. 63
           /\ hs_check_alloc(a) => a # NoMem /\ a % 8 = 0
BY DatabaseAssumption, Zenon DEF Results, hs_check_alloc

(* dbCreate, at the end of hs_compile, keeps the invariant.                 *)
LEMMA CompileStep ==
    ASSUME BlockSizes, MemoryInv, NEW h \in DbHandles, NEW c \in Codes, NEW a \in Results,
           Compile(h, c, a), UNCHANGED <<scr, scanning>>
    PROVE  MemoryInv'
<1>1. CASE hs_check_alloc(a)
  <2> DEFINE d == Compiled(FreshBlock(heap), c, a)
  <2>1. a # NoMem /\ a \in 0 .. 63
    BY <1>1, Address, Zenon
  <2>2. FreshBlock(heap) \in Blocks
    BY OneRoom, Zenon DEF Compile, HasRoom, MemoryInv
  <2>3. BytecodeAt(a) \in Int
    BY <2>1 DEF BytecodeAt, Shift, OffsetOfBytes
  <2>4. Length[c] \in Nat
    BY DatabaseAssumption, Zenon
  <2>5. d \in Db /\ d.block = FreshBlock(heap) /\ Genuine(d) /\ d.bytecode = BytecodeAt(d.addr)
    BY <2>1, <2>2, <2>3, <2>4, Zenon DEF Compiled, Db, Genuine, Crc32c
  <2>6. /\ dbs[h] = None /\ HasRoom(1) /\ heap' = Malloc(heap, a)
        /\ dbs' = [dbs EXCEPT ![h] = d] /\ UNCHANGED blobs
    BY <1>1, Zenon DEF Compile
  <2> HIDE DEF d
  <2>7. QED  BY <2>1, <2>5, <2>6, PutDb, Zenon
<1>2. CASE ~hs_check_alloc(a)
  <2>1. HasRoom(1) /\ heap' = Undo(Malloc(heap, a), FreshBlock(heap), a) /\ UNCHANGED <<dbs, blobs>>
    BY <1>2, Zenon DEF Compile
  <2>2. QED  BY <2>1, Undone, Zenon
<1>3. QED  BY <1>1, <1>2, Zenon

(* hs_free_database keeps the invariant.                                    *)
LEMMA FreeDatabaseStep ==
    ASSUME MemoryInv, NEW h \in DbHandles, hs_free_database(h), UNCHANGED <<scr, scanning>>
    PROVE  MemoryInv'
<1>1. /\ heap \in Heaps /\ dbs \in [DbHandles -> {None} \cup Db]
      /\ Accounted(heap.live, dbs, blobs, scr)
  BY Zenon DEF MemoryInv, DbOK
<1>2. /\ dbs[h] # None /\ heap' = FreeBlock(heap, dbs[h].block)
      /\ dbs' = [dbs EXCEPT ![h] = None] /\ UNCHANGED blobs
  BY Zenon DEF hs_free_database
<1>3. /\ dbs[h].block \in heap.live
      /\ Accounted(heap.live \ {dbs[h].block}, [dbs EXCEPT ![h] = None], blobs, scr)
  BY <1>1, <1>2, AccountedDrop, Zenon
<1>4. heap' \in Heaps /\ heap'.live = heap.live \ {dbs[h].block}
  BY <1>1, <1>2, <1>3, FreeOK, Zenon
<1>5. DbOK'
  BY <1>1, <1>2, Zenon DEF MemoryInv, DbOK, Genuine, BytecodeAt, Shift
<1>6. BlobOK' /\ ScratchOK'
  BY <1>2, Zenon DEF MemoryInv, BlobOK, ScratchOK
<1>7. QED  BY <1>2, <1>3, <1>4, <1>5, <1>6, Zenon DEF MemoryInv

(* hs_serialize_database keeps the invariant: the copy has the bytecode     *)
(* and the crc of the database, whether they agree or not.                  *)
LEMMA SerializeStep ==
    ASSUME BlockSizes, MemoryInv, NEW h \in DbHandles, NEW s \in Blobs, NEW a \in Results,
           hs_serialize_database(h, s, a), UNCHANGED <<scr, scanning>>
    PROVE  MemoryInv'
<1> DEFINE d == dbs[h]
           b == FreshBlock(heap)
           r == [kind |-> "blob", block |-> b, magic |-> d.magic, version |-> d.version,
                 platform |-> d.platform, length |-> d.length, crc |-> d.crc,
                 code |-> d.code, size |-> OffsetOfBytes + d.length, origin |-> d.origin]
<1>1. /\ heap \in Heaps /\ blobs \in [Blobs -> {None} \cup Blob]
      /\ Accounted(heap.live, blobs, dbs, scr)
  BY AccountedTurn, Zenon DEF MemoryInv, BlobOK
<1>2. d \in Db /\ Genuine(d)
  BY Zenon DEF MemoryInv, DbOK, hs_serialize_database
<1>3. b \in Blocks /\ b \notin heap.live
  BY <1>1, OneRoom, Zenon DEF hs_serialize_database, HasRoom
<1>4. CASE validDatabase(d) /\ hs_check_alloc(a)
  <2>1. blobs[s] = None /\ heap' = Malloc(heap, a) /\ blobs' = [blobs EXCEPT ![s] = r] /\ UNCHANGED dbs
    BY <1>4, Zenon DEF hs_serialize_database
  <2>2. r \in Blob
    <3>1. OffsetOfBytes + d.length \in Nat
      BY <1>2 DEF OffsetOfBytes, Db
    <3>2. QED  BY <1>2, <1>3, <3>1, Zenon DEF Db, Blob
  <2>3. Genuine(r) /\ r.block = b
    BY <1>2, Zenon DEF Genuine
  <2>4. a # NoMem
    BY <1>4, Address, Zenon
  <2>5. heap' \in Heaps /\ heap'.live = heap.live \cup {b}
    BY <1>1, <1>3, <2>1, <2>4, MallocOK, Zenon
  <2> HIDE DEF r, d
  <2>6. r # None /\ r.block \notin heap.live /\ heap'.live = heap.live \cup {r.block}
    BY <1>3, <2>2, <2>3, <2>5, NotNone, Zenon
  <2>7. Accounted(heap.live \cup {r.block}, [blobs EXCEPT ![s] = r], dbs, scr)
    BY <1>1, <2>1, <2>6, AccountedPut, Zenon
  <2>8. BlobOK'
    BY <1>1, <2>1, <2>2, <2>3, Zenon DEF MemoryInv, BlobOK, Genuine
  <2>9. DbOK' /\ ScratchOK'
    BY <2>1, Zenon DEF MemoryInv, DbOK, ScratchOK
  <2>10. Accounted(heap'.live, dbs', blobs', scr')
    BY <2>1, <2>6, <2>7, AccountedTurn, Zenon
  <2>11. QED  BY <2>5, <2>8, <2>9, <2>10, Zenon DEF MemoryInv
<1>5. CASE validDatabase(d) /\ ~hs_check_alloc(a)
  <2>1. HasRoom(1) /\ heap' = Undo(Malloc(heap, a), FreshBlock(heap), a) /\ UNCHANGED <<dbs, blobs>>
    BY <1>5, Zenon DEF hs_serialize_database
  <2>2. QED  BY <2>1, Undone, Zenon
<1>6. CASE ~validDatabase(d)
  <2>1. UNCHANGED <<heap, dbs, blobs>>
    BY <1>6, Zenon DEF hs_serialize_database
  <2>2. QED  BY <1>1, <2>1, SameMemory, Zenon
<1>7. QED  BY <1>4, <1>5, <1>6, Zenon

(* What db_decode_header and db_copy_bytecode make of a stored database.    *)
LEMMA DecodedOK ==
    ASSUME NEW x \in Blob, Genuine(x), NEW b \in Blocks, NEW a \in 0 .. 63
    PROVE  /\ Decoded(x, b, a) \in Db /\ Genuine(Decoded(x, b, a))
           /\ Decoded(x, b, a).block = b
           /\ Decoded(x, b, a).bytecode = BytecodeAt(Decoded(x, b, a).addr)
<1>1. BytecodeAt(a) \in Int
  BY DEF BytecodeAt, Shift, OffsetOfBytes
<1>2. QED  BY <1>1, Zenon DEF Decoded, Db, Blob, Genuine

(* hs_deserialize_database keeps the invariant on each of its returns: a    *)
(* header that does not decode, no memory, a wrong crc, and success.        *)
LEMMA DeserializeStep ==
    ASSUME BlockSizes, MemoryInv, NEW s \in Blobs, NEW h \in DbHandles, NEW a \in Results,
           hs_deserialize_database(s, h, a), UNCHANGED <<scr, scanning>>
    PROVE  MemoryInv'
<1> DEFINE b == FreshBlock(heap)
           m == Malloc(heap, a)
           d == Decoded(blobs[s], b, a)
<1>1. heap \in Heaps /\ blobs[s] \in Blob /\ Genuine(blobs[s])
  BY Zenon DEF MemoryInv, BlobOK, hs_deserialize_database
<1>2. dbs[h] = None /\ HasRoom(1) /\ UNCHANGED blobs
  BY Zenon DEF hs_deserialize_database
<1>3. b \in Blocks /\ b \notin heap.live
  BY <1>1, <1>2, OneRoom, Zenon DEF HasRoom
<1>4. CASE ~HeaderDecodes(blobs[s])
  <2>1. UNCHANGED <<heap, dbs>>
    BY <1>4, Zenon DEF hs_deserialize_database
  <2>2. QED  BY <1>1, <1>2, <2>1, SameMemory, Zenon
<1>5. CASE HeaderDecodes(blobs[s]) /\ ~hs_check_alloc(a)
  <2>1. heap' = Undo(m, b, a) /\ UNCHANGED dbs
    BY <1>5, Zenon DEF hs_deserialize_database
  <2>2. QED  BY <1>2, <2>1, Undone, Zenon
<1>6. CASE HeaderDecodes(blobs[s]) /\ hs_check_alloc(a)
  <2>1. a # NoMem /\ a \in 0 .. 63
    BY <1>6, Address, Zenon
  <2>2. d \in Db /\ Genuine(d) /\ d.block = b /\ d.bytecode = BytecodeAt(d.addr)
    BY <1>1, <1>3, <2>1, DecodedOK, Zenon
  <2>3. CASE ~db_check_crc(d)
    <3>1. heap' = FreeBlock(m, b) /\ UNCHANGED dbs
      BY <1>6, <2>3, Zenon DEF hs_deserialize_database
    <3>2. heap' = Undo(m, b, a)
      BY <2>1, <3>1, Zenon DEF Undo
    <3>3. QED  BY <1>2, <3>1, <3>2, Undone, Zenon
  <2>4. CASE db_check_crc(d)
    <3>1. heap' = m /\ dbs' = [dbs EXCEPT ![h] = d]
      BY <1>6, <2>4, Zenon DEF hs_deserialize_database
    <3> HIDE DEF d
    <3>2. QED  BY <1>2, <2>1, <2>2, <3>1, PutDb, Zenon
  <2>5. QED  BY <2>3, <2>4, Zenon
<1>7. QED  BY <1>4, <1>5, <1>6, Zenon

(* hs_deserialize_database_at keeps the invariant, in memory that the       *)
(* application provides.                                                    *)
LEMMA DeserializeAtStep ==
    ASSUME BlockSizes, MemoryInv, NEW s \in Blobs, NEW h \in DbHandles, NEW a \in Results,
           hs_deserialize_database_at(s, h, a), UNCHANGED <<scr, scanning>>
    PROVE  MemoryInv'
<1> DEFINE b == FreshBlock(heap)
           d == Decoded(blobs[s], b, a)
<1>1. heap \in Heaps /\ blobs[s] \in Blob /\ Genuine(blobs[s])
  BY Zenon DEF MemoryInv, BlobOK, hs_deserialize_database_at
<1>2. dbs[h] = None /\ HasRoom(1) /\ a \in Addrs /\ UNCHANGED blobs
  BY Zenon DEF hs_deserialize_database_at
<1>3. b \in Blocks
  BY <1>1, <1>2, OneRoom, Zenon DEF HasRoom
<1>4. a # NoMem /\ a \in 0 .. 63
  BY <1>2, DatabaseAssumption DEF NoMem
<1>5. CASE a % 8 = 0 /\ HeaderDecodes(blobs[s])
  <2>1. d \in Db /\ Genuine(d) /\ d.block = b /\ d.bytecode = BytecodeAt(d.addr)
    BY <1>1, <1>3, <1>4, DecodedOK, Zenon
  <2>2. heap' = Malloc(heap, a) /\ dbs' = [dbs EXCEPT ![h] = d]
    BY <1>5, Zenon DEF hs_deserialize_database_at
  <2> HIDE DEF d
  <2>3. QED  BY <1>2, <1>4, <2>1, <2>2, PutDb, Zenon
<1>6. CASE ~(a % 8 = 0 /\ HeaderDecodes(blobs[s]))
  <2>1. UNCHANGED <<heap, dbs>>
    BY <1>6, Zenon DEF hs_deserialize_database_at
  <2>2. QED  BY <1>1, <1>2, <2>1, SameMemory, Zenon
<1>7. QED  BY <1>5, <1>6, Zenon

(* The application frees a serialized database.                             *)
LEMMA FreeBlobStep ==
    ASSUME MemoryInv, NEW s \in Blobs, FreeBlob(s), UNCHANGED <<scr, scanning>>
    PROVE  MemoryInv'
<1>1. /\ heap \in Heaps /\ blobs \in [Blobs -> {None} \cup Blob]
      /\ Accounted(heap.live, blobs, dbs, scr)
  BY AccountedTurn, Zenon DEF MemoryInv, BlobOK
<1>2. /\ blobs[s] # None /\ heap' = FreeBlock(heap, blobs[s].block)
      /\ blobs' = [blobs EXCEPT ![s] = None] /\ UNCHANGED dbs
  BY Zenon DEF FreeBlob
<1>3. /\ blobs[s].block \in heap.live
      /\ Accounted(heap.live \ {blobs[s].block}, [blobs EXCEPT ![s] = None], dbs, scr)
  BY <1>1, <1>2, AccountedDrop, Zenon
<1>4. heap' \in Heaps /\ heap'.live = heap.live \ {blobs[s].block}
  BY <1>1, <1>2, <1>3, FreeOK, Zenon
<1>5. BlobOK'
  BY <1>1, <1>2, Zenon DEF MemoryInv, BlobOK, Genuine
<1>6. DbOK' /\ ScratchOK'
  BY <1>2, Zenon DEF MemoryInv, DbOK, ScratchOK
<1>7. Accounted(heap'.live, dbs', blobs', scr')
  BY <1>2, <1>3, <1>4, AccountedTurn, Zenon
<1>8. QED  BY <1>4, <1>5, <1>6, <1>7, Zenon DEF MemoryInv

(* Only a whole database is damaged, and in one field: bytecode and crc     *)
(* are not both changed.                                                    *)
LEMMA DamageStep ==
    ASSUME MemoryInv, NEW s \in Blobs, NEW f \in DamagedFields, Damage(s, f),
           UNCHANGED <<scr, scanning>>
    PROVE  MemoryInv'
<1> DEFINE x == blobs[s]
           r == [x EXCEPT ![f] = Damaged[f]]
<1>1. /\ heap \in Heaps /\ blobs \in [Blobs -> {None} \cup Blob]
      /\ Accounted(heap.live, blobs, dbs, scr)
  BY AccountedTurn, Zenon DEF MemoryInv, BlobOK
<1>2. x \in Blob /\ Genuine(x) /\ x.code = x.crc
  BY <1>1, Zenon DEF MemoryInv, BlobOK, Damage, Intact, Crc32c
<1>3. blobs' = [blobs EXCEPT ![s] = r] /\ UNCHANGED <<heap, dbs>> /\ x # None
  BY Zenon DEF Damage
<1>4. f \in {"magic", "version", "platform", "code", "crc", "size"}
  BY DatabaseAssumption, Zenon DEF Damaged
<1>5. x.code = x.origin /\ x.crc = x.origin
  BY <1>2, DatabaseAssumption, Zenon DEF Genuine, Blob
<1> HIDE DEF x
<1>6. r \in Blob /\ Genuine(r) /\ r.block = x.block
  <2>1. CASE f = "magic"  BY <1>2, <1>5, <2>1, Zenon DEF Blob, Damaged, Genuine
  <2>2. CASE f = "version"  BY <1>2, <1>5, <2>2, Zenon DEF Blob, Damaged, Genuine
  <2>3. CASE f = "platform"  BY <1>2, <1>5, <2>3, Zenon DEF Blob, Damaged, Genuine
  <2>4. CASE f = "code"  BY <1>2, <1>5, <2>4, Zenon DEF Blob, Damaged, Genuine
  <2>5. CASE f = "crc"  BY <1>2, <1>5, <2>5, Zenon DEF Blob, Damaged, Genuine
  <2>6. CASE f = "size"  BY <1>2, <1>5, <2>6, Zenon DEF Blob, Damaged, Genuine
  <2>7. QED  BY <1>4, <2>1, <2>2, <2>3, <2>4, <2>5, <2>6, Zenon
<1> HIDE DEF r
<1>7. r # None  BY <1>6, NotNone, Zenon
<1>8. Accounted(heap.live, [blobs EXCEPT ![s] = r], dbs, scr)
  BY <1>1, <1>3, <1>6, <1>7, AccountedKeep, Zenon DEF x
<1>9. BlobOK'
  BY <1>1, <1>3, <1>6, Zenon DEF MemoryInv, BlobOK, Genuine
<1>10. DbOK' /\ ScratchOK'
  BY <1>3, Zenon DEF MemoryInv, DbOK, ScratchOK
<1>11. Accounted(heap'.live, dbs', blobs', scr')
  BY <1>3, <1>8, AccountedTurn, Zenon
<1>12. QED  BY <1>1, <1>3, <1>9, <1>10, <1>11, Zenon DEF MemoryInv

-----------------------------------------------------------------------------
(* Scratch calls. *)

\* The block of a pointer, if it has one.
BlockOf(x) == IF x = None THEN {} ELSE {x.block}

(* A scratch is set to null or to a scratch that serves its databases, and  *)
(* the heap and the flags agree with it.                                    *)
LEMMA SetScratch ==
    ASSUME MemoryInv, NEW s \in Scratches, NEW r \in {None} \cup Scratch, r # None => Serves(r),
           heap' \in Heaps, scr' = [scr EXCEPT ![s] = r],
           Accounted(heap'.live, scr', blobs, dbs),
           scanning' = IF r # None /\ r.inUse THEN scanning \cup {s} ELSE scanning \ {s},
           UNCHANGED <<dbs, blobs>>
    PROVE  MemoryInv'
<1>1. scr \in [Scratches -> {None} \cup Scratch]
  BY Zenon DEF MemoryInv, ScratchOK
<1>2. \A x \in Scratches : scr'[x] = IF x = s THEN r ELSE scr[x]
  BY <1>1, Zenon
<1>3. scr' \in [Scratches -> {None} \cup Scratch]
  BY <1>1, Zenon
<1>4. \A x \in Scratches : scr'[x] # None => Serves(scr'[x])
  <2>1. SUFFICES ASSUME NEW x \in Scratches, scr'[x] # None PROVE Serves(scr'[x])
    BY Zenon
  <2>2. CASE x = s  BY <1>2, <2>1, <2>2, Zenon
  <2>3. CASE x # s
    <3>1. scr'[x] = scr[x]  BY <1>2, <2>3, Zenon
    <3>2. scr[x] # None => Serves(scr[x])
      BY Zenon DEF MemoryInv, ScratchOK
    <3>3. QED  BY <2>1, <3>1, <3>2, Zenon
  <2>4. QED  BY <2>2, <2>3, Zenon
<1>5. scanning' = {x \in Scratches : scr'[x] # None /\ scr'[x].inUse}
  <2>1. scanning = {x \in Scratches : scr[x] # None /\ scr[x].inUse}
    BY Zenon DEF MemoryInv, ScratchOK
  <2>2. QED  BY <1>2, <2>1, Zenon
<1>6. (\A x \in Scratches : scr[x] # None => Serves(scr[x]))'
  BY <1>4, Zenon DEF Serves, SizesOK
<1>7. ScratchOK'
  BY <1>3, <1>5, <1>6, Zenon DEF ScratchOK
<1>8. DbOK' /\ BlobOK'
  BY Zenon DEF MemoryInv, DbOK, BlobOK
<1>9. Accounted(heap'.live, dbs', blobs', scr')
  BY AccountedTurn, Zenon
<1>10. QED  BY <1>7, <1>8, <1>9, Zenon DEF MemoryInv

(* hs_free_scratch frees nothing through a null pointer, and the block of a *)
(* scratch otherwise; that block is live.                                   *)
LEMMA ScratchFreed ==
    ASSUME MemoryInv, NEW s \in Scratches, NEW hp \in Heaps, heap.live \subseteq hp.live
    PROVE  /\ FreeScratch(hp, scr[s]) \in Heaps
           /\ FreeScratch(hp, scr[s]).live = hp.live \ BlockOf(scr[s])
           /\ BlockOf(scr[s]) \subseteq heap.live
           /\ Accounted(heap.live \ BlockOf(scr[s]), [scr EXCEPT ![s] = None], blobs, dbs)
<1>1. scr \in [Scratches -> {None} \cup Scratch] /\ Accounted(heap.live, scr, blobs, dbs)
  BY AccountedTurn, Zenon DEF MemoryInv, ScratchOK
<1>2. CASE scr[s] = None
  <2>1. [scr EXCEPT ![s] = None] = scr
    BY <1>1, <1>2, Zenon
  <2>2. BlockOf(scr[s]) = {} /\ FreeScratch(hp, scr[s]) = hp
    BY <1>2, Zenon DEF BlockOf, FreeScratch
  <2>3. heap.live \ {} = heap.live /\ hp.live \ {} = hp.live
    BY Zenon
  <2>4. QED  BY <1>1, <2>1, <2>2, <2>3, Zenon
<1>3. CASE scr[s] # None
  <2>1. /\ scr[s].block \in heap.live
        /\ Accounted(heap.live \ {scr[s].block}, [scr EXCEPT ![s] = None], blobs, dbs)
    BY <1>1, <1>3, AccountedDrop, Zenon
  <2>2. BlockOf(scr[s]) = {scr[s].block} /\ FreeScratch(hp, scr[s]) = FreeBlock(hp, scr[s].block)
    BY <1>3, Zenon DEF BlockOf, FreeScratch
  <2>3. /\ FreeBlock(hp, scr[s].block) \in Heaps
        /\ FreeBlock(hp, scr[s].block).live = hp.live \ {scr[s].block}
    BY <2>1, FreeOK, Zenon
  <2>4. QED  BY <2>1, <2>2, <2>3, Zenon
<1>4. QED  BY <1>2, <1>3, Zenon

\* Sizes p are enough for the bytecodes in `ready'.
Enough(p, ready) ==
    /\ SizesOK(p) /\ ready \in SUBSET Codes
    /\ \A c \in ready : \A f \in AllFields \ {"logSize"} : Need[c][f] <= p[f]

\* x is a scratch in block b that a scan can use.
Usable(x, b) == x \in Scratch /\ Serves(x) /\ x.block = b /\ ~x.inUse

(* alloc_scratch makes a scratch of the prototype's sizes. *)
LEMMA NewScratchOK ==
    ASSUME NEW b \in Blocks, NEW a \in 0 .. 63, NEW inUse \in BOOLEAN, NEW p, NEW ready,
           Enough(p, ready)
    PROVE  Usable(NewScratch(b, a, p, inUse, ready), b)
<1>0. /\ SizesOK(p) /\ ready \in SUBSET Codes
      /\ \A c \in ready : \A f \in AllFields \ {"logSize"} : Need[c][f] <= p[f]
  BY Zenon DEF Enough
<1>1. AllocSize(p) \in Int
  <2>1. /\ p.alLen \in Nat /\ p.alFat \in Nat /\ p.delayFat \in Nat /\ p.handledFat \in Nat
        /\ p.tState \in Nat /\ p.somCount \in Nat /\ p.somFat \in Nat /\ p.queueCount \in Nat
        /\ p.aqa \in Nat /\ p.bState \in Nat /\ p.fullState \in Nat /\ p.dkeyCount \in Nat
        /\ p.logSize \in Nat
    BY <1>0, Zenon DEF SizesOK, AllFields, NoSizes, Fields
  <2>2. fatbit_array_size(p.alLen, p.alFat) \in Int
    <3>1. 8 * p.alLen \in Nat /\ p.alFat * p.alLen \in Nat
      BY <2>1
    <3>2. RoundUp(8 * p.alLen, 8) + p.alFat * p.alLen \in Nat
      BY <3>1, RoundUp8, SMTT(30)
    <3>3. QED  BY <3>2, RoundUp8 DEF fatbit_array_size
  <2>3. fatbit_array_size(DelaySlotCount, p.delayFat) \in Int
    BY <2>1 DEF fatbit_array_size, RoundUp, DelaySlotCount
  <2>4. PICK qs \in Nat, sl \in Nat, sf \in Nat, bs \in Nat, ts \in Nat, fs \in Nat :
           /\ qs = p.queueCount /\ sl = p.somCount /\ sf = p.somFat
           /\ bs = p.bState /\ ts = p.tState /\ fs = p.fullState
    BY <2>1, Zenon
  <2>5. PICK dk \in Nat, lg \in Nat, aq \in Nat, hf \in Nat, al \in Int, dl \in Int :
           /\ dk = p.dkeyCount /\ lg = p.logSize /\ aq = p.aqa /\ hf = p.handledFat
           /\ al = fatbit_array_size(p.alLen, p.alFat)
           /\ dl = fatbit_array_size(DelaySlotCount, p.delayFat)
    BY <2>1, <2>2, <2>3, Zenon
  <2>6. AllocSize(p) = SizeofScratch + 256 + qs * 344 + 63 + bs + ts + fs + 63 + hf + aq + 4 * lg
                       + 2 * 8 * dk + al + qs * 16 + dl + 2 * 8 * sl + 2 * sf + 15
    BY <2>4, <2>5 DEF AllocSize, SizeofMq, SizeofQueueMatch
  <2>7. QED  BY <2>6, ScratchAssumption
<1>2. p \in [AllFields -> Nat]
  BY <1>0, Zenon DEF SizesOK
<1> DEFINE x == NewScratch(b, a, p, inUse, ready)
<1>3. /\ x \in Scratch /\ x.block = b /\ ~x.inUse
      /\ x.size = p /\ x.allocated = AllocSize(p) /\ x.ready = ready
  BY <1>0, <1>1, <1>2, Zenon DEF NewScratch, Scratch
<1> HIDE DEF x
<1>4. Serves(x)
  BY <1>0, <1>3, Zenon DEF Serves
<1>5. QED  BY <1>3, <1>4, Zenon DEF x, Usable

(* hs_alloc_scratch without memory for its prototype. *)
LEMMA NoPrototypeStep ==
    ASSUME MemoryInv, NEW s \in Scratches, NEW hp \in Heaps, hp.live = heap.live,
           scr[s] # None => ~scr[s].inUse,
           NoPrototype(s, hp), UNCHANGED <<dbs, blobs, scanning>>
    PROVE  MemoryInv'
<1>1. heap' = FreeScratch(hp, scr[s]) /\ scr' = [scr EXCEPT ![s] = None]
  BY Zenon DEF NoPrototype
<1>2. /\ heap' \in Heaps
      /\ heap'.live = hp.live \ BlockOf(scr[s])
      /\ Accounted(heap.live \ BlockOf(scr[s]), [scr EXCEPT ![s] = None], blobs, dbs)
  BY <1>1, ScratchFreed, Zenon
<1>3. Accounted(heap'.live, scr', blobs, dbs)
  BY <1>1, <1>2, Zenon
<1>4. scanning' = scanning \ {s}
  BY Zenon DEF MemoryInv, ScratchOK
<1>5. QED  BY <1>1, <1>2, <1>3, <1>4, SetScratch, Zenon

(* hs_alloc_scratch replaces a scratch: its block and the prototype's are   *)
(* given back, and the new one is the application's if it was allocated.    *)
LEMMA ReplaceStep ==
    ASSUME BlockSizes, MemoryInv, HasRoom(2), NEW s \in Scratches,
           scr[s] # None => ~scr[s].inUse,
           NEW a1, a1 # NoMem, NEW a2 \in Results, NEW p, SizesOK(p), NEW ready \in SUBSET Codes,
           \A c \in ready : \A f \in AllFields \ {"logSize"} : Need[c][f] <= p[f],
           Replace(s, FreeScratch(Malloc(heap, a1), scr[s]), FreshBlock(heap), a2, p, ready),
           UNCHANGED <<dbs, blobs, scanning>>
    PROVE  MemoryInv'
<1> DEFINE b1 == FreshBlock(heap)
           hp == Malloc(heap, a1)
           h2 == FreeScratch(hp, scr[s])
           b2 == FreshBlock(h2)
           gone == BlockOf(scr[s])
<1>1. heap \in Heaps /\ Cardinality(heap.live) + 2 <= MaxBlocks
  BY Zenon DEF MemoryInv, HasRoom
<1>2. b1 \in Blocks /\ b1 \notin heap.live
  BY <1>1, FreshTwice, Fresh, ZenonT(30)
<1>3. hp \in Heaps /\ hp.live = heap.live \cup {b1}
  BY <1>1, <1>2, MallocOK, Zenon
<1>4. /\ h2 \in Heaps /\ h2.live = hp.live \ gone /\ gone \subseteq heap.live
      /\ Accounted(heap.live \ gone, [scr EXCEPT ![s] = None], blobs, dbs)
  <2> HIDE DEF hp
  <2>1. QED  BY <1>3, ScratchFreed, ZenonT(30)
<1>5. Cardinality(h2.live) < MaxBlocks
  <2>1. Cardinality(hp.live) < MaxBlocks
    BY <1>1, <1>3, FreshTwice, ZenonT(30)
  <2>2. hp.live \in SUBSET Blocks /\ h2.live \in SUBSET hp.live /\ h2.live \in SUBSET Blocks
    <3> HIDE DEF hp, h2
    <3>1. QED  BY <1>3, <1>4, Zenon DEF Heaps
  <2>3. /\ Cardinality(h2.live) <= Cardinality(hp.live)
        /\ Cardinality(h2.live) \in Nat /\ Cardinality(hp.live) \in Nat
    <3> HIDE DEF hp, h2
    <3>1. QED  BY <2>2, Zenon DEF BlockSizes
  <2>4. MaxBlocks \in Nat
    BY DatabaseAssumption, Zenon
  <2>5. QED  BY <2>1, <2>3, <2>4
<1>6. b2 \in Blocks /\ b2 \notin h2.live
  BY <1>4, <1>5, Fresh, ZenonT(30)
<1>7. b1 \in h2.live /\ h2.live \ {b1} = heap.live \ gone
  BY <1>2, <1>3, <1>4, ZenonT(30)
<1>8. scr \in [Scratches -> {None} \cup Scratch]
  BY ZenonT(30) DEF MemoryInv, ScratchOK
<1>9. scanning' = scanning \ {s}
  BY Zenon DEF MemoryInv, ScratchOK
<1>10. CASE hs_check_alloc(a2)
  <2> DEFINE m == Malloc(h2, a2)
             r == NewScratch(b2, a2, p, TRUE, ready)
  <2>1. heap' = FreeBlock(m, b1) /\ scr' = [scr EXCEPT ![s] = r]
    BY <1>10, ZenonT(30) DEF Replace
  <2>2. a2 # NoMem /\ a2 \in 0 .. 63
    BY <1>10, Address, ZenonT(30)
  <2>3. m \in Heaps /\ m.live = h2.live \cup {b2}
    BY <1>4, <1>6, <2>2, MallocOK, ZenonT(30)
  <2> HIDE DEF m
  <2>4. heap' \in Heaps /\ heap'.live = m.live \ {b1}
    BY <1>7, <2>1, <2>3, FreeOK, Zenon
  <2>5. r \in Scratch /\ Serves(r) /\ r.block = b2 /\ ~r.inUse
    <3> HIDE DEF b2
    <3>1. TRUE \in BOOLEAN /\ Enough(p, ready)
      BY Zenon DEF Enough
    <3>2. Usable(r, b2)
      BY <1>6, <2>2, <3>1, NewScratchOK, Zenon
    <3>3. QED  BY <3>2, Zenon DEF Usable
  <2> HIDE DEF r
  <2>6. r # None  BY <2>5, NotNone, Zenon
  <2>7. b2 \notin heap.live \ gone /\ heap'.live = (heap.live \ gone) \cup {b2}
    BY <1>6, <1>7, <2>3, <2>4, ZenonT(30)
  <2>8. Accounted(heap'.live, scr', blobs, dbs)
    <3> DEFINE k == [scr EXCEPT ![s] = None]
    <3>1. k \in [Scratches -> {None} \cup Scratch] /\ k[s] = None
      BY <1>8, Zenon
    <3>2. [k EXCEPT ![s] = r] = scr'
      BY <1>8, <2>1, ZenonT(30)
    <3>3. Accounted(heap.live \ gone, k, blobs, dbs)
      BY <1>4, Zenon
    <3> HIDE DEF k, gone
    <3>4. Accounted((heap.live \ gone) \cup {r.block}, [k EXCEPT ![s] = r], blobs, dbs)
      <4>1. r.block \notin heap.live \ gone
        BY <2>5, <2>7, Zenon
      <4>2. QED  BY <3>1, <3>3, <2>6, <4>1, AccountedPut, ZenonT(30)
    <3>5. QED  BY <2>5, <2>7, <3>2, <3>4, ZenonT(30)
  <2>9. QED  BY <1>9, <2>1, <2>4, <2>5, <2>8, SetScratch, ZenonT(30)
<1>11. CASE ~hs_check_alloc(a2)
  <2> DEFINE m == Undo(Malloc(h2, a2), b2, a2)
  <2>1. heap' = FreeBlock(m, b1) /\ scr' = [scr EXCEPT ![s] = None]
    BY <1>11, ZenonT(30) DEF Replace
  <2>2. m \in Heaps /\ m.live = h2.live
    <3> HIDE DEF h2
    <3>1. QED  BY <1>4, <1>6, UndoOK, ZenonT(30)
  <2> HIDE DEF m
  <2>3. heap' \in Heaps /\ heap'.live = m.live \ {b1}
    BY <1>7, <2>1, <2>2, FreeOK, ZenonT(30)
  <2>4. heap'.live = heap.live \ gone
    BY <1>7, <2>2, <2>3, Zenon
  <2>5. Accounted(heap'.live, scr', blobs, dbs)
    BY <1>4, <2>1, <2>4, Zenon
  <2>6. QED  BY <1>9, <2>1, <2>3, <2>5, SetScratch, ZenonT(30)
<1>12. QED  BY <1>10, <1>11, Zenon

(* A database that hs_alloc_scratch accepts has the bytecode it was made    *)
(* with: dbIsValid checks the crc.                                          *)
LEMMA AcceptedCode ==
    ASSUME MemoryInv, NEW h \in DbHandles, dbs[h] # None, dbIsValid(dbs[h])
    PROVE  dbs[h].code = dbs[h].origin /\ dbs[h].code \in Codes
<1>1. dbs[h] \in Db /\ Genuine(dbs[h]) /\ dbs[h].code = dbs[h].crc
  BY Zenon DEF MemoryInv, DbOK, dbIsValid, db_check_crc, Crc32c
<1>2. QED  BY <1>1, DatabaseAssumption, Zenon DEF Db, Genuine

(* hs_alloc_scratch keeps the invariant on each of its returns: without a   *)
(* prototype, with a new scratch or none, and with the scratch it was given. *)
LEMMA AllocScratchStep ==
    ASSUME BlockSizes, MemoryInv, NEW s \in Scratches, NEW h \in DbHandles, NEW a1 \in Results,
           NEW a2 \in Results, hs_alloc_scratch(s, h, a1, a2)
    PROVE  MemoryInv'
<1> DEFINE proto == FreshBlock(heap)
           hp == Malloc(heap, a1)
           c == dbs[h].code
           p == Sizes(scr[s])
           ready == Ready(scr[s]) \cup {c}
<1>1. /\ HasRoom(2) /\ dbs[h] # None /\ dbIsValid(dbs[h])
      /\ scr[s] # None => ~scr[s].inUse
      /\ UNCHANGED <<dbs, blobs, scanning>>
  BY Zenon DEF hs_alloc_scratch
<1>2. c \in Codes
  BY <1>1, AcceptedCode, Zenon
<1>3. heap \in Heaps /\ proto \in Blocks /\ proto \notin heap.live
  BY <1>1, FreshTwice, Fresh, Zenon DEF MemoryInv, HasRoom
<1>4. scr \in [Scratches -> {None} \cup Scratch] /\ (scr[s] # None => Serves(scr[s]))
  BY Zenon DEF MemoryInv, ScratchOK
<1>5. SizesOK(p) /\ Ready(scr[s]) \subseteq Codes
      /\ \A d \in Ready(scr[s]) : \A f \in AllFields \ {"logSize"} : Need[d][f] <= p[f]
  <2>1. CASE scr[s] = None
    <3>1. SizesOK(NoSizes)
      BY DEF SizesOK, AllFields, NoSizes, Fields, LogSizeOf
    <3>2. QED  BY <2>1, <3>1, Zenon DEF Sizes, Ready
  <2>2. CASE scr[s] # None
    <3>1. scr[s] \in Scratch /\ Serves(scr[s]) /\ p = scr[s].size /\ Ready(scr[s]) = scr[s].ready
      BY <1>4, <2>2, Zenon DEF Sizes, Ready
    <3> HIDE DEF p
    <3>2. scr[s].ready \subseteq Codes
      BY <3>1, Zenon DEF Scratch
    <3>3. QED  BY <3>1, <3>2, Zenon DEF Serves
  <2>3. QED  BY <2>1, <2>2, Zenon
<1>6. CASE ~hs_check_alloc(a1)
  <2>1. NoPrototype(s, Undo(hp, proto, a1))
    BY <1>6, Zenon DEF hs_alloc_scratch
  <2>2. Undo(hp, proto, a1) \in Heaps /\ Undo(hp, proto, a1).live = heap.live
    BY <1>3, UndoOK, Zenon
  <2> HIDE DEF hp, proto
  <2>3. QED  BY <1>1, <2>1, <2>2, NoPrototypeStep, Zenon
<1>7. CASE hs_check_alloc(a1) /\ (scr[s] = None \/ Resize(p, Need[c]))
  <2> DEFINE g == Grown(p, Need[c])
  <2>1. Replace(s, FreeScratch(hp, scr[s]), proto, a2, g, ready)
    BY <1>7, Zenon DEF hs_alloc_scratch
  <2>2. a1 # NoMem
    BY <1>7, Address, Zenon
  <2> HIDE DEF c, p
  <2>3. /\ SizesOK(g)
        /\ \A f \in AllFields \ {"logSize"} : p[f] <= g[f] /\ Need[c][f] <= g[f]
    BY <1>2, <1>5, GrownOK, Zenon
  <2> HIDE DEF g
  <2>4. \A d \in ready : \A f \in AllFields \ {"logSize"} : Need[d][f] <= g[f]
    <3>1. SUFFICES ASSUME NEW d \in Ready(scr[s]), NEW f \in AllFields \ {"logSize"}
                   PROVE  Need[d][f] <= g[f]
      BY <2>3, Zenon
    <3>2. Need[d][f] <= p[f] /\ p[f] <= g[f]
      BY <1>5, <2>3, Zenon
    <3>3. Need[d][f] \in Nat /\ p[f] \in Nat /\ g[f] \in Nat
      BY <1>5, <2>3, NeedType, Zenon DEF SizesOK
    <3>4. QED  BY <3>2, <3>3
  <2>5. ready \in SUBSET Codes
    BY <1>2, <1>5, Zenon
  <2> HIDE DEF ready
  <2>6. QED  BY <1>1, <2>1, <2>2, <2>3, <2>4, <2>5, ReplaceStep, Zenon
<1>8. CASE hs_check_alloc(a1) /\ scr[s] # None /\ ~Resize(p, Need[c])
  <2> DEFINE r == [scr[s] EXCEPT !.inUse = FALSE, !.ready = ready]
  <2>1. heap' = FreeBlock(hp, proto) /\ scr' = [scr EXCEPT ![s] = r]
    <3>1. /\ heap' = FreeBlock(hp, proto)
          /\ scr' = [scr EXCEPT ![s].inUse = FALSE, ![s].ready = ready]
      BY <1>8, Zenon DEF hs_alloc_scratch
    <3> HIDE DEF ready, hp, proto
    <3>2. QED  BY <1>4, <3>1, Zenon
  <2>2. a1 # NoMem
    BY <1>8, Address, Zenon
  <2>3. hp \in Heaps /\ hp.live = heap.live \cup {proto}
    BY <1>3, <2>2, MallocOK, Zenon
  <2> HIDE DEF hp
  <2>4. FreeBlock(hp, proto) \in Heaps /\ FreeBlock(hp, proto).live = hp.live \ {proto}
    BY <2>3, FreeOK, Zenon
  <2>5. heap' \in Heaps /\ heap'.live = heap.live
    BY <1>3, <2>1, <2>3, <2>4, Zenon
  <2>6. scr[s] \in Scratch /\ Serves(scr[s]) /\ p = scr[s].size
    BY <1>4, <1>8, Zenon DEF Sizes
  <2> HIDE DEF p, c
  <2>7. \A f \in AllFields \ {"logSize"} : Need[c][f] <= p[f]
    BY <1>2, <1>5, <1>8, NoResize, Zenon
  <2>8. ready \in SUBSET Codes
        /\ \A d \in ready : \A f \in AllFields \ {"logSize"} : Need[d][f] <= p[f]
    BY <1>2, <1>5, <2>7, Zenon
  <2> HIDE DEF ready
  <2>9. /\ r \in Scratch /\ r.block = scr[s].block /\ ~r.inUse /\ r.ready = ready
        /\ r.size = scr[s].size /\ r.allocated = scr[s].allocated
    BY <2>6, <2>8, Zenon DEF Scratch
  <2> HIDE DEF r
  <2>10. Serves(r)
    BY <2>6, <2>8, <2>9, Zenon DEF Serves
  <2>11. r # None  BY <2>9, NotNone, Zenon
  <2>12. Accounted(heap'.live, scr', blobs, dbs)
    <3>1. Accounted(heap.live, scr, blobs, dbs)
      BY AccountedTurn, Zenon DEF MemoryInv
    <3>2. Accounted(heap.live, [scr EXCEPT ![s] = r], blobs, dbs)
      BY <1>4, <1>8, <2>9, <2>11, <3>1, AccountedKeep, ZenonT(30)
    <3>3. QED  BY <2>1, <2>5, <3>2, Zenon
  <2>13. scanning' = scanning \ {s}
    BY <1>1, Zenon DEF MemoryInv, ScratchOK
  <2>14. QED  BY <1>1, <2>1, <2>5, <2>9, <2>10, <2>12, <2>13, SetScratch, Zenon
<1>9. QED  BY <1>6, <1>7, <1>8, Zenon

(* The clone has the sizes of its source and is not in use. *)
LEMMA CloneStep ==
    ASSUME BlockSizes, MemoryInv, NEW s \in Scratches, NEW t \in Scratches, NEW a \in Results,
           hs_clone_scratch(s, t, a)
    PROVE  MemoryInv'
<1> DEFINE b == FreshBlock(heap)
<1>1. /\ scr[s] # None /\ scr[t] = None /\ HasRoom(1)
      /\ UNCHANGED <<dbs, blobs, scanning>>
  BY Zenon DEF hs_clone_scratch
<1>2. heap \in Heaps /\ b \in Blocks /\ b \notin heap.live
  BY <1>1, OneRoom, Zenon DEF MemoryInv, HasRoom
<1>3. scr \in [Scratches -> {None} \cup Scratch] /\ scr[s] \in Scratch /\ Serves(scr[s])
  BY <1>1, Zenon DEF MemoryInv, ScratchOK
<1>4. CASE ~hs_check_alloc(a)
  <2>1. heap' = Undo(Malloc(heap, a), b, a) /\ UNCHANGED scr
    BY <1>4, Zenon DEF hs_clone_scratch
  <2>2. QED  BY <1>1, <2>1, Undone, Zenon
<1>5. CASE hs_check_alloc(a)
  <2> DEFINE r == NewScratch(b, a, scr[s].size, scr[s].inUse, scr[s].ready)
  <2>1. heap' = Malloc(heap, a) /\ scr' = [scr EXCEPT ![t] = r]
    BY <1>5, Zenon DEF hs_clone_scratch
  <2>2. a # NoMem /\ a \in 0 .. 63
    BY <1>5, Address, Zenon
  <2>3. heap' \in Heaps /\ heap'.live = heap.live \cup {b}
    BY <1>2, <2>1, <2>2, MallocOK, Zenon
  <2> HIDE DEF b
  <2>4. r \in Scratch /\ Serves(r) /\ r.block = b /\ ~r.inUse
    <3>1. scr[s].inUse \in BOOLEAN /\ Enough(scr[s].size, scr[s].ready)
      BY <1>3, Zenon DEF Scratch, Serves, Enough
    <3>2. Usable(r, b)
      BY <1>2, <2>2, <3>1, NewScratchOK, Zenon
    <3>3. QED  BY <3>2, Zenon DEF Usable
  <2> HIDE DEF r
  <2>5. r # None  BY <2>4, NotNone, Zenon
  <2>6. Accounted(heap'.live, scr', blobs, dbs)
    <3>1. Accounted(heap.live, scr, blobs, dbs)
      BY AccountedTurn, Zenon DEF MemoryInv
    <3>2. Accounted(heap.live \cup {r.block}, [scr EXCEPT ![t] = r], blobs, dbs)
      BY <1>1, <1>2, <1>3, <2>4, <2>5, <3>1, AccountedPut, Zenon
    <3>3. QED  BY <2>1, <2>3, <2>4, <3>2, Zenon
  <2>7. scanning' = scanning \ {t}
    BY <1>1, Zenon DEF MemoryInv, ScratchOK
  <2>8. QED  BY <1>1, <2>1, <2>3, <2>4, <2>6, <2>7, SetScratch, ZenonT(30)
<1>6. QED  BY <1>4, <1>5, Zenon

(* hs_free_scratch refuses a scratch in use. *)
LEMMA FreeScratchStep ==
    ASSUME MemoryInv, NEW s \in Scratches, hs_free_scratch(s)
    PROVE  MemoryInv'
<1>1. /\ scr[s] # None /\ ~scr[s].inUse /\ heap' = FreeBlock(heap, scr[s].block)
      /\ scr' = [scr EXCEPT ![s] = None] /\ UNCHANGED <<dbs, blobs, scanning>>
  BY Zenon DEF hs_free_scratch
<1>2. heap \in Heaps /\ heap' = FreeScratch(heap, scr[s])
  BY <1>1, Zenon DEF MemoryInv, FreeScratch
<1>3. /\ heap' \in Heaps /\ heap'.live = heap.live \ BlockOf(scr[s])
      /\ Accounted(heap.live \ BlockOf(scr[s]), [scr EXCEPT ![s] = None], blobs, dbs)
  BY <1>2, ScratchFreed, Zenon
<1>4. Accounted(heap'.live, scr', blobs, dbs)
  BY <1>1, <1>3, Zenon
<1>5. scanning' = scanning \ {s}
  BY <1>1, Zenon DEF MemoryInv, ScratchOK
<1>6. QED  BY <1>1, <1>3, <1>4, <1>5, SetScratch, Zenon

(* A scan sets the flag of its scratch when it begins and clears it when it *)
(* ends, and leaves the rest of the scratch's header alone.                 *)
LEMMA FlagStep ==
    ASSUME MemoryInv, NEW s \in Scratches, scr[s] # None, NEW i \in BOOLEAN,
           scr' = [scr EXCEPT ![s] = [scr[s] EXCEPT !.inUse = i]],
           scanning' = IF i THEN scanning \cup {s} ELSE scanning \ {s},
           UNCHANGED <<heap, dbs, blobs>>
    PROVE  MemoryInv'
<1> DEFINE r == [scr[s] EXCEPT !.inUse = i]
<1>1. /\ scr \in [Scratches -> {None} \cup Scratch] /\ scr[s] \in Scratch /\ Serves(scr[s])
      /\ heap \in Heaps /\ Accounted(heap.live, scr, blobs, dbs)
  BY AccountedTurn, Zenon DEF MemoryInv, ScratchOK
<1>2. /\ r \in Scratch /\ r.block = scr[s].block /\ r.ready = scr[s].ready
      /\ r.size = scr[s].size /\ r.allocated = scr[s].allocated /\ r.inUse = i
  BY <1>1, Zenon DEF Scratch
<1>3. scr' = [scr EXCEPT ![s] = r]
  BY Zenon
<1> HIDE DEF r
<1>4. Serves(r)
  BY <1>1, <1>2, Zenon DEF Serves
<1>5. r # None  BY <1>2, NotNone, Zenon
<1>6. Accounted(heap.live, [scr EXCEPT ![s] = r], blobs, dbs)
  BY <1>1, <1>2, <1>5, AccountedKeep, Zenon
<1>7. heap' \in Heaps /\ Accounted(heap'.live, scr', blobs, dbs)
  BY <1>1, <1>3, <1>6, Zenon
<1>8. scanning' = IF r # None /\ r.inUse THEN scanning \cup {s} ELSE scanning \ {s}
  BY <1>2, <1>5, Zenon
<1>9. QED  BY <1>2, <1>3, <1>4, <1>7, <1>8, SetScratch, Zenon

(* A scan marks the scratch it uses (markScratchInUse).                     *)
LEMMA BeginScanStep ==
    ASSUME MemoryInv, NEW s \in Scratches, NEW h \in DbHandles, BeginScan(s, h)
    PROVE  MemoryInv'
<1>1. /\ scr[s] # None /\ scr' = [scr EXCEPT ![s].inUse = TRUE]
      /\ scanning' = scanning \cup {s} /\ UNCHANGED <<heap, dbs, blobs>>
  BY Zenon DEF BeginScan, dvars
<1>2. scr' = [scr EXCEPT ![s] = [scr[s] EXCEPT !.inUse = TRUE]]
  BY <1>1, Zenon
<1>3. PICK i \in BOOLEAN : i = TRUE  BY Zenon
<1>4. QED  BY <1>1, <1>2, <1>3, FlagStep, Zenon

(* The end of a scan takes the mark back (unmarkScratchInUse).              *)
LEMMA EndScanStep ==
    ASSUME MemoryInv, NEW s \in Scratches, EndScan(s)
    PROVE  MemoryInv'
<1>1. /\ s \in scanning /\ scr' = [scr EXCEPT ![s].inUse = FALSE]
      /\ scanning' = scanning \ {s} /\ UNCHANGED <<heap, dbs, blobs>>
  BY Zenon DEF EndScan, dvars
<1>2. scr[s] # None
  BY <1>1, Zenon DEF MemoryInv, ScratchOK
<1>3. scr' = [scr EXCEPT ![s] = [scr[s] EXCEPT !.inUse = FALSE]]
  BY <1>1, Zenon
<1>4. PICK i \in BOOLEAN : i = FALSE  BY Zenon
<1>5. QED  BY <1>1, <1>2, <1>3, <1>4, FlagStep, Zenon

-----------------------------------------------------------------------------
(* The theorems. *)

(* Before the first call there is no memory in use. *)
LEMMA MemoryStarts ==
    ASSUME Init
    PROVE  MemoryInv
<1>1. /\ heap = [live |-> {}, fault |-> FALSE] /\ dbs = [h \in DbHandles |-> None]
      /\ blobs = [b \in Blobs |-> None] /\ scr = [s \in Scratches |-> None] /\ scanning = {}
  BY Zenon DEF Init, DInit
<1>2. heap \in Heaps /\ heap.live = {}
  BY <1>1, Zenon DEF Heaps
<1>3. DbOK /\ BlobOK /\ ScratchOK
  BY <1>1, Zenon DEF DbOK, BlobOK, ScratchOK
<1>4. Held(dbs) = {} /\ Held(blobs) = {} /\ Held(scr) = {}
  BY <1>1, Zenon DEF Held
<1>5. OneEach(dbs) /\ OneEach(blobs) /\ OneEach(scr)
  BY <1>1, Zenon DEF OneEach
<1>6. QED  BY <1>2, <1>3, <1>4, <1>5, Zenon DEF MemoryInv, Accounted

(* Every call, scan and damage keeps the invariant. *)
LEMMA MemoryKept ==
    ASSUME BlockSizes, MemoryInv, [Next]_vars
    PROVE  MemoryInv'
<1>1. CASE UNCHANGED vars
  <2>1. UNCHANGED <<heap, dbs, blobs, scr, scanning>>
    BY <1>1, Zenon DEF vars
  <2>2. heap' \in Heaps /\ heap'.live = heap.live
    BY <2>1, Zenon DEF MemoryInv
  <2>3. QED  BY <2>1, <2>2, SameMemory, Zenon
<1>2. CASE DNext /\ UNCHANGED <<scr, scanning>>
  <2>1. ASSUME NEW h \in DbHandles, hs_free_database(h) PROVE MemoryInv'
    BY <1>2, <2>1, FreeDatabaseStep, Zenon
  <2>2. ASSUME NEW h \in DbHandles, NEW c \in Codes, NEW a \in Results, Compile(h, c, a)
        PROVE  MemoryInv'
    BY <1>2, <2>2, CompileStep, Zenon
  <2>3. ASSUME NEW h \in DbHandles, NEW s \in Blobs, NEW a \in Results,
               hs_serialize_database(h, s, a)
        PROVE  MemoryInv'
    BY <1>2, <2>3, SerializeStep, Zenon
  <2>4. ASSUME NEW h \in DbHandles, NEW s \in Blobs, NEW a \in Results,
               hs_deserialize_database(s, h, a)
        PROVE  MemoryInv'
    BY <1>2, <2>4, DeserializeStep, Zenon
  <2>5. ASSUME NEW h \in DbHandles, NEW s \in Blobs, NEW a \in Results,
               hs_deserialize_database_at(s, h, a)
        PROVE  MemoryInv'
    BY <1>2, <2>5, DeserializeAtStep, Zenon
  <2>6. ASSUME NEW s \in Blobs, FreeBlob(s) PROVE MemoryInv'
    BY <1>2, <2>6, FreeBlobStep, Zenon
  <2>7. ASSUME NEW s \in Blobs, NEW f \in DamagedFields, Damage(s, f) PROVE MemoryInv'
    BY <1>2, <2>7, DamageStep, Zenon
  <2>8. QED  BY <1>2, <2>1, <2>2, <2>3, <2>4, <2>5, <2>6, <2>7, Zenon DEF DNext
<1>3. ASSUME NEW s \in Scratches, NEW h \in DbHandles, NEW a1 \in Results, NEW a2 \in Results,
             hs_alloc_scratch(s, h, a1, a2)
      PROVE  MemoryInv'
  BY <1>3, AllocScratchStep, Zenon
<1>4. ASSUME NEW s \in Scratches, NEW t \in Scratches, NEW a \in Results, hs_clone_scratch(s, t, a)
      PROVE  MemoryInv'
  BY <1>4, CloneStep, Zenon
<1>5. ASSUME NEW s \in Scratches, hs_free_scratch(s) PROVE MemoryInv'
  BY <1>5, FreeScratchStep, Zenon
<1>6. ASSUME NEW s \in Scratches, EndScan(s) PROVE MemoryInv'
  BY <1>6, EndScanStep, Zenon
<1>7. ASSUME NEW s \in Scratches, NEW h \in DbHandles, BeginScan(s, h) PROVE MemoryInv'
  BY <1>7, BeginScanStep, Zenon
<1>8. QED  BY <1>1, <1>2, <1>3, <1>4, <1>5, <1>6, <1>7, Zenon DEF Next

(* The blocks in use are those the pointers of the application lead to, one *)
(* block for each.                                                          *)
LEMMA Balance ==
    ASSUME MemoryInv
    PROVE  MemoryAccounted
<1>1. /\ DOMAIN dbs = DbHandles /\ DOMAIN blobs = Blobs /\ DOMAIN scr = Scratches
      /\ heap \in Heaps /\ Accounted(heap.live, dbs, blobs, scr)
  BY Zenon DEF MemoryInv, DbOK, BlobOK, ScratchOK
<1>2. ~heap.fault
  BY <1>1, ZenonT(30) DEF Heaps
<1>3. /\ \A h \in DbHandles : Target(<<"db", h>>) = dbs[h].block
      /\ \A b \in Blobs : Target(<<"blob", b>>) = blobs[b].block
      /\ \A s \in Scratches : Target(<<"scratch", s>>) = scr[s].block
  BY Zenon DEF Target
<1>4. \A p \in Pointers :
         \/ \E h \in DbHandles : p = <<"db", h>> /\ dbs[h] # None
         \/ \E b \in Blobs : p = <<"blob", b>> /\ blobs[b] # None
         \/ \E s \in Scratches : p = <<"scratch", s>> /\ scr[s] # None
  BY Zenon DEF Pointers
<1>5. /\ \A h \in DbHandles : dbs[h] # None => <<"db", h>> \in Pointers
      /\ \A b \in Blobs : blobs[b] # None => <<"blob", b>> \in Pointers
      /\ \A s \in Scratches : scr[s] # None => <<"scratch", s>> \in Pointers
  BY Zenon DEF Pointers
<1>6. \A p \in Pointers : Target(p) \in heap.live
  BY <1>1, <1>3, <1>4 DEF Accounted, Held
<1>7. \A b \in heap.live : \E p \in Pointers : Target(p) = b
  <2> SUFFICES ASSUME NEW b \in heap.live PROVE \E p \in Pointers : Target(p) = b
    BY Zenon
  <2>1. b \in Held(dbs) \/ b \in Held(blobs) \/ b \in Held(scr)
    BY <1>1, Zenon DEF Accounted
  <2>2. CASE b \in Held(dbs)
    <3>1. PICK h \in DbHandles : dbs[h] # None /\ dbs[h].block = b
      BY <1>1, <2>2, Zenon DEF Held
    <3>2. QED  BY <1>3, <1>5, <3>1, Zenon
  <2>3. CASE b \in Held(blobs)
    <3>1. PICK x \in Blobs : blobs[x] # None /\ blobs[x].block = b
      BY <1>1, <2>3, Zenon DEF Held
    <3>2. QED  BY <1>3, <1>5, <3>1, Zenon
  <2>4. CASE b \in Held(scr)
    <3>1. PICK s \in Scratches : scr[s] # None /\ scr[s].block = b
      BY <1>1, <2>4, Zenon DEF Held
    <3>2. QED  BY <1>3, <1>5, <3>1, ZenonT(30)
  <2>5. QED  BY <2>1, <2>2, <2>3, <2>4, Zenon
<1>8. ASSUME NEW p \in Pointers, NEW q \in Pointers, Target(p) = Target(q) PROVE p = q
  <2>1. /\ \A h \in DbHandles : dbs[h] # None => dbs[h].block \in Held(dbs)
        /\ \A b \in Blobs : blobs[b] # None => blobs[b].block \in Held(blobs)
        /\ \A s \in Scratches : scr[s] # None => scr[s].block \in Held(scr)
    BY <1>1, Zenon DEF Held
  <2>2. /\ Held(dbs) \cap Held(blobs) = {} /\ Held(dbs) \cap Held(scr) = {}
        /\ Held(blobs) \cap Held(scr) = {}
    BY <1>1, Zenon DEF Accounted
  <2>3. /\ \A x, y \in DbHandles :
              dbs[x] # None /\ dbs[y] # None /\ dbs[x].block = dbs[y].block => x = y
        /\ \A x, y \in Blobs :
              blobs[x] # None /\ blobs[y] # None /\ blobs[x].block = blobs[y].block => x = y
        /\ \A x, y \in Scratches :
              scr[x] # None /\ scr[y] # None /\ scr[x].block = scr[y].block => x = y
    BY <1>1, Zenon DEF Accounted, OneEach
  <2>4. QED  BY <1>3, <1>4, <1>8, <2>1, <2>2, <2>3
<1>9. QED  BY <1>2, <1>6, <1>7, <1>8 DEF MemoryAccounted

(* A scratch has the sizes of every bytecode it was prepared for, and       *)
(* validScratch accepts it.                                                 *)
LEMMA Room ==
    ASSUME MemoryInv
    PROVE  ScratchFits
<1> SUFFICES ASSUME NEW s \in Scratches, scr[s] # None, NEW c \in scr[s].ready
             PROVE  /\ validScratch(c, scr[s])
                    /\ \A f \in DOMAIN NoSizes \ {"logSize"} : Need[c][f] <= scr[s].size[f]
                    /\ Need[c].dkeyCount > 0 => Need[c].logSize <= scr[s].size.logSize
  BY Zenon DEF ScratchFits
<1> DEFINE p == scr[s].size
<1>1. scr[s] \in Scratch /\ Serves(scr[s])
  BY Zenon DEF MemoryInv, ScratchOK
<1>2. c \in Codes /\ scr[s].addr \in 0 .. 63 /\ SizesOK(p)
  BY <1>1, Zenon DEF Scratch, Serves
<1>3. \A f \in AllFields \ {"logSize"} : Need[c][f] <= p[f]
  BY <1>1, Zenon DEF Serves
<1>4. {"dkeyCount", "queueCount", "bState"} \subseteq AllFields \ {"logSize"}
  BY Zenon DEF AllFields, NoSizes, Fields
<1> HIDE DEF p
<1>5. Need[c].dkeyCount <= p.dkeyCount /\ Need[c].queueCount <= p.queueCount
      /\ Need[c].bState <= p.bState
  BY <1>3, <1>4, Zenon
<1>6. /\ Need[c].dkeyCount \in Nat /\ p.dkeyCount \in Nat
      /\ Need[c].logSize = fatbit_size(Need[c].dkeyCount) /\ p.logSize = LogSizeOf(p.dkeyCount)
  BY <1>2, <1>4, NeedType, Zenon DEF SizesOK
<1>7. Need[c].dkeyCount > 0 => Need[c].logSize <= p.logSize
  <2>1. SUFFICES ASSUME Need[c].dkeyCount > 0 PROVE Need[c].logSize <= p.logSize
    BY Zenon
  <2>2. p.dkeyCount # 0
    BY <1>5, <1>6, <2>1
  <2>3. fatbit_size(Need[c].dkeyCount) <= fatbit_size(p.dkeyCount)
    BY <1>5, <1>6, FatbitMonotone, Zenon
  <2>4. QED  BY <1>6, <2>2, <2>3, Zenon DEF LogSizeOf
<1>8. HeaderAt(scr[s].addr) % 64 = 0
  <2>1. scr[s].addr \in Nat
    BY <1>2
  <2>2. QED  BY <2>1, RoundUp64, Zenon DEF HeaderAt
<1>9. /\ Engine[c].mode = "block" => Engine[c].stateEnd <= p.bState
      /\ Engine[c].queues <= p.queueCount
  BY <1>2, <1>5, NeedType, Zenon DEF BStateSize
<1>10. validScratch(c, scr[s])
  BY <1>8, <1>9, Zenon DEF validScratch, p
<1>11. QED  BY <1>3, <1>7, <1>10, Zenon DEF AllFields, p

-----------------------------------------------------------------------------
(* The theorems. *)

INSTANCE FiniteSetTheorems

(* The library's facts about finite sets give the sizes the lemmas use. *)
LEMMA BlockSizesHold == BlockSizes
<1>1. IsFiniteSet(Blocks) /\ Cardinality(Blocks) = MaxBlocks
  BY FS_Interval, DatabaseAssumption DEF Blocks
<1>2. ASSUME NEW live \in SUBSET Blocks
      PROVE  /\ Cardinality(live) \in Nat
             /\ \A part \in SUBSET live : Cardinality(part) <= Cardinality(live)
             /\ \A b : Cardinality(live \cup {b}) \in {Cardinality(live), Cardinality(live) + 1}
  <2>1. IsFiniteSet(live)
    BY <1>1, FS_Subset, Zenon
  <2>2. Cardinality(live) \in Nat
    BY <2>1, FS_CardinalityType, Zenon
  <2>3. \A part \in SUBSET live : Cardinality(part) <= Cardinality(live)
    BY <2>1, FS_Subset, Zenon
  <2>4. \A b : Cardinality(live \cup {b}) \in {Cardinality(live), Cardinality(live) + 1}
    BY <2>1, FS_AddElement, Zenon
  <2>5. QED  BY <2>2, <2>3, <2>4, Zenon
<1>3. QED  BY <1>1, <1>2, Zenon DEF BlockSizes

(* The invariant of memory holds in every reachable state. *)
LEMMA MemoryInvariant == Spec => []MemoryInv
<1>1. Init => MemoryInv  BY MemoryStarts, Zenon
<1>2. MemoryInv /\ [Next]_vars => MemoryInv'  BY BlockSizesHold, MemoryKept, Zenon
<1>3. QED  BY <1>1, <1>2, PTL DEF Spec

(* Whatever the application's pointers to databases, serialized databases   *)
(* and scratches, and whichever allocations fail: no call leaks a block,    *)
(* frees one twice, or leaves a pointer to a freed block.                   *)
THEOREM Memory == Spec => []MemoryAccounted
<1>1. MemoryInv => MemoryAccounted
  BY Balance, Zenon
<1>2. QED  BY <1>1, MemoryInvariant, PTL

(* For bytecodes of any sizes, prepared in any order and through any clones *)
(* and failed allocations: a scratch has room for every database it was     *)
(* prepared for, and a scan with it is accepted.                            *)
THEOREM Fits == Spec => []ScratchFits
<1>1. MemoryInv => ScratchFits
  BY Room, Zenon
<1>2. QED  BY <1>1, MemoryInvariant, PTL

(* Wherever the allocator puts the block of a scratch, and whatever sizes   *)
(* it grew to: the regions alloc_scratch hands out are aligned and end      *)
(* inside alloc_size.                                                       *)
THEOREM Layout == Spec => []LayoutFits
<1>1. MemoryInv => LayoutFits
  <2> SUFFICES ASSUME MemoryInv PROVE LayoutFits
    BY Zenon
  <2>1. \A s \in Scratches : scr[s] # None =>
           scr[s].addr \in 0 .. 63 /\ SizesOK(scr[s].size) /\ scr[s].allocated = AllocSize(scr[s].size)
    BY Zenon DEF MemoryInv, ScratchOK, Scratch, Serves
  <2>2. QED  BY <2>1, LayoutHolds, ZenonT(30) DEF LayoutFits
<1>2. QED  BY <1>1, MemoryInvariant, PTL

(* The flag of a scratch is set exactly while a scan uses it: no return of  *)
(* hs_alloc_scratch or hs_clone_scratch leaves it set.                      *)
THEOREM Marked == Spec => []MarkedWhileScanning
<1>1. MemoryInv => MarkedWhileScanning
  BY Zenon DEF MemoryInv, ScratchOK, MarkedWhileScanning
<1>2. QED  BY <1>1, MemoryInvariant, PTL

(* Storage may damage any one field of a serialized database: a database    *)
(* that hs_alloc_scratch accepts still has the bytecode that was compiled.  *)
THEOREM Accepted == Spec => []AcceptedIsCompiled
<1>1. MemoryInv => AcceptedIsCompiled
  BY AcceptedCode, ZenonT(30) DEF AcceptedIsCompiled
<1>2. QED  BY <1>1, MemoryInvariant, PTL

(* Wherever a database lies, db_copy_bytecode puts its bytecode on a cache  *)
(* line behind the header's fields.                                         *)
THEOREM Placed == Spec => []BytecodePlaced
<1>1. MemoryInv => BytecodePlaced
  <2> SUFFICES ASSUME MemoryInv, NEW h \in DbHandles, dbs[h] # None
               PROVE  /\ (dbs[h].addr + dbs[h].bytecode) % 64 = 0
                      /\ dbs[h].bytecode >= PaddingAt
                      /\ dbs[h].bytecode + dbs[h].length <= OffsetOfBytes + dbs[h].length
    BY Zenon DEF BytecodePlaced
  <2>1. PICK a \in 0 .. 63, n \in Nat : /\ a = dbs[h].addr /\ n = dbs[h].length
                                        /\ dbs[h].bytecode = BytecodeAt(a)
    BY Zenon DEF MemoryInv, DbOK, Db
  <2>2. BytecodeAt(a) = 104 - ((a + 104) % 64)
    BY Zenon DEF BytecodeAt, Shift, OffsetOfBytes
  <2>3. (a + (104 - ((a + 104) % 64))) % 64 = 0 /\ (a + 104) % 64 \in 0 .. 63
    OBVIOUS
  <2>4. QED  BY <2>1, <2>2, <2>3 DEF PaddingAt, OffsetOfBytes
<1>2. QED  BY <1>1, MemoryInvariant, PTL

=============================================================================
