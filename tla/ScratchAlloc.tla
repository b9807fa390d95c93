---------------------------- MODULE ScratchAlloc ----------------------------
(***************************************************************************)
(* Scratch space: hs_alloc_scratch, hs_clone_scratch, hs_free_scratch and  *)
(* the flag that scans set, over the databases of module Database.         *)
(*                                                                         *)
(* A scratch serves every database it was prepared for: each of its sizes  *)
(* only grows.  Each call allocates up to twice, and each allocation may   *)
(* fail.                                                                   *)
(***************************************************************************)
EXTENDS Database

CONSTANTS
    Scratches,      \* the application's hs_scratch_t pointers
    Engine,         \* Engine[c]: the sizes in the RoseEngine of bytecode c
    SizeofScratch,  \* sizeof(struct hs_scratch), a multiple of its alignment
    SizeofStream    \* sizeof(struct hs_stream)

VARIABLES
    scr,            \* what each scratch pointer points to
    scanning        \* history: the scratches a scan is using

vars == <<heap, dbs, blobs, scr, scanning>>

ASSUME ScratchAssumption ==
    SizeofScratch \in Nat /\ SizeofScratch % 64 = 0 /\ SizeofStream \in Nat
ASSUME EngineAssumption ==
    \A c \in Codes :
        Engine[c] \in [mode : {"block", "vectored", "stream"}, stateEnd : Nat,
                      anchoredDistance : Nat, anchored : Nat, delay : Nat, handled : Nat,
                      tState : Nat, som : Nat, queues : Nat, fullState : Nat, dkeys : Nat]
-----------------------------------------------------------------------------
(* Sizes, in bytes. *)

MmbKeyBits == 64

\* The blocks of the level with n of them, unless it is the last.  After 64 ^ 4
\* blocks come 64 ^ 5, which is the last level for every number of bits.
Level(n, bits) == IF n * MmbKeyBits < bits THEN n ELSE 0

\* mmbit_size: a bit vector, or a pyramid of 64-bit blocks.
mmbit_size(bits) ==
    IF bits <= 256 THEN RoundUp(bits, 8) \div 8
    ELSE 8 * (Level(1, bits) + Level(64, bits) + Level(4096, bits) + Level(262144, bits)
              + Level(16777216, bits) + RoundUp(bits, MmbKeyBits) \div MmbKeyBits)

fatbit_size(bits) == IF mmbit_size(bits) > 32 THEN mmbit_size(bits) ELSE 32

\* The block of a scratch that holds the stream state of block or vectored mode.
BStateSize(c) ==
    CASE Engine[c].mode = "block"    -> Engine[c].stateEnd
      [] Engine[c].mode = "vectored" -> SizeofStream + Engine[c].stateEnd
      [] Engine[c].mode = "stream"   -> 0

\* The sizes that each bytecode asks for, as the compiler derives them.
Need ==
    [c \in Codes |->
        LET e == Engine[c] IN
        [alLen |-> e.anchoredDistance, alFat |-> fatbit_size(e.anchored),
         delayFat |-> fatbit_size(e.delay), handledFat |-> fatbit_size(e.handled),
         tState |-> e.tState, somCount |-> e.som, somFat |-> fatbit_size(e.som),
         queueCount |-> e.queues, aqa |-> fatbit_size(e.queues), bState |-> BStateSize(c),
         fullState |-> e.fullState, dkeyCount |-> e.dkeys, logSize |-> fatbit_size(e.dkeys)]]

Fields == {"alLen", "alFat", "delayFat", "handledFat", "tState", "somCount", "somFat",
           "queueCount", "aqa", "bState", "fullState"}
NoSizes == [f \in Fields \cup {"dkeyCount", "logSize"} |-> 0]

Resize(p, n) == (\E f \in Fields : n[f] > p[f]) \/ n.dkeyCount > p.dkeyCount

\* Mutant: the log size is that of the last database.
Grown_log(p, n) ==
    [f \in DOMAIN p |-> IF f = "logSize" THEN n.logSize
                        ELSE IF n[f] > p[f] THEN n[f] ELSE p[f]]

\* The prototype p grown for the needs n: each size by itself, except that the
\* size of the deduper's logs follows its count of keys.
Grown(p, n) ==
    [f \in DOMAIN p |->
        IF f = "logSize" THEN IF n.dkeyCount > p.dkeyCount THEN n.logSize ELSE p.logSize
        ELSE IF n[f] > p[f] THEN n[f] ELSE p[f]]
-----------------------------------------------------------------------------
(* The layout of a scratch with sizes p allocated at a: addresses in the     *)
(* order in which alloc_scratch hands them out.                              *)

DelaySlotCount == 32
SizeofMq == 344
SizeofQueueMatch == 16

HeaderAt(a) == RoundUp(a, 64)
QueuesAt(p, a) == RoundUp(HeaderAt(a) + SizeofScratch, 8)
SomStoreAt(p, a) == QueuesAt(p, a) + p.queueCount * SizeofMq
DelayAt(p, a) == RoundUp(SomStoreAt(p, a) + 2 * 8 * p.somCount, 8)
DelaySlotsAt(p, a) == RoundUp(DelayAt(p, a) + 8 * DelaySlotCount, 8)
AlLogAt(p, a) == RoundUp(DelaySlotsAt(p, a) + DelaySlotCount * p.delayFat, 8)
AlSlotsAt(p, a) == RoundUp(AlLogAt(p, a) + 8 * p.alLen, 8)
QmAt(p, a) == RoundUp(AlSlotsAt(p, a) + p.alLen * p.alFat, 8)
BstateAt(p, a) == QmAt(p, a) + p.queueCount * SizeofQueueMatch
StartLogAt(p, a) == RoundUp(BstateAt(p, a) + p.bState + p.tState, 64)
AqaAt(p, a) == StartLogAt(p, a) + 2 * 8 * p.dkeyCount
HandledAt(p, a) == AqaAt(p, a) + p.aqa
LogAt(p, a) == HandledAt(p, a) + p.handledFat
SomSetAt(p, a) == LogAt(p, a) + 4 * p.logSize
FullStateAt(p, a) == RoundUp(SomSetAt(p, a) + 2 * p.somFat, 64)
LayoutEnd(p, a) == FullStateAt(p, a) + p.fullState

fatbit_array_size(n, len) == RoundUp(RoundUp(8 * n, 8) + len * n, 8)

\* Mutant: room for one pair of logs only.
AllocSize_logs(p) ==
    SizeofScratch + 256
    + p.queueCount * SizeofMq + 63 + p.bState + p.tState + p.fullState + 63
    + p.handledFat + p.aqa + 2 * p.logSize + 2 * 8 * p.dkeyCount
    + fatbit_array_size(p.alLen, p.alFat) + p.queueCount * SizeofQueueMatch
    + fatbit_array_size(DelaySlotCount, p.delayFat)
    + 2 * 8 * p.somCount + 2 * p.somFat + 15

\* alloc_size of alloc_scratch.
AllocSize(p) ==
    SizeofScratch + 256
    + p.queueCount * SizeofMq + 63 + p.bState + p.tState + p.fullState + 63
    + p.handledFat + p.aqa + 4 * p.logSize + 2 * 8 * p.dkeyCount
    + fatbit_array_size(p.alLen, p.alFat) + p.queueCount * SizeofQueueMatch
    + fatbit_array_size(DelaySlotCount, p.delayFat)
    + 2 * 8 * p.somCount + 2 * p.somFat + 15
-----------------------------------------------------------------------------
(* The calls.  The returns that change nothing are guards. *)

\* Mutant: the flag of the prototype is kept.
NewScratch_flag(b, a, p, inUse, ready) ==
    [kind |-> "scratch", block |-> b, addr |-> a, size |-> p, allocated |-> AllocSize(p),
     inUse |-> inUse, ready |-> ready]

\* alloc_scratch: a scratch of the sizes p in block b at a, from a prototype
\* whose flag was inUse.
NewScratch(b, a, p, inUse, ready) ==
    [kind |-> "scratch", block |-> b, addr |-> a, size |-> p, allocated |-> AllocSize(p),
     inUse |-> FALSE, ready |-> ready]

FreeScratch(hp, x) == IF x = None THEN hp ELSE FreeBlock(hp, x.block)

\* alloc_scratch with the allocation result a on the heap hp, which still holds
\* the prototype's block; then the prototype is freed.
Replace(s, hp, proto, a, p, ready) ==
    LET b == FreshBlock(hp)
        ok == hs_check_alloc(a)
    IN /\ heap' = FreeBlock(IF ok THEN Malloc(hp, a) ELSE Undo(Malloc(hp, a), b, a), proto)
       /\ scr' = [scr EXCEPT ![s] = IF ok THEN NewScratch(b, a, p, TRUE, ready) ELSE None]

\* Mutant: the scratch stays with the application when there is no prototype.
NoPrototype_kept(s, hp) == heap' = FreeScratch(hp, scr[s]) /\ UNCHANGED scr

\* There is no memory for the prototype: the scratch is lost as well.
NoPrototype(s, hp) ==
    /\ heap' = FreeScratch(hp, scr[s])
    /\ scr' = [scr EXCEPT ![s] = None]

Sizes(x) == IF x = None THEN NoSizes ELSE x.size
Ready(x) == IF x = None THEN {} ELSE x.ready

\* a1 is the allocation of the prototype, a2 that of the new scratch.
hs_alloc_scratch(s, h, a1, a2) ==
    /\ HasRoom(2)
    /\ dbs[h] # None /\ dbIsValid(dbs[h])
    /\ scr[s] # None => ~scr[s].inUse
    /\ LET proto == FreshBlock(heap)
           hp == Malloc(heap, a1)
           need == Need[dbs[h].code]
           ready == Ready(scr[s]) \cup {dbs[h].code}
       IN IF ~hs_check_alloc(a1)
          THEN NoPrototype(s, Undo(hp, proto, a1))
          ELSE IF scr[s] = None \/ Resize(Sizes(scr[s]), need)
          THEN Replace(s, FreeScratch(hp, scr[s]), proto, a2, Grown(Sizes(scr[s]), need), ready)
          ELSE /\ heap' = FreeBlock(hp, proto)
               /\ scr' = [scr EXCEPT ![s].inUse = FALSE, ![s].ready = ready]
    /\ UNCHANGED <<dbs, blobs, scanning>>

\* The source may be in use: an application clones it from a callback.
hs_clone_scratch(s, t, a) ==
    /\ scr[s] # None /\ scr[t] = None /\ HasRoom(1)
    /\ LET b == FreshBlock(heap) IN
       IF hs_check_alloc(a)
       THEN /\ heap' = Malloc(heap, a)
            /\ scr' = [scr EXCEPT ![t] = NewScratch(b, a, scr[s].size, scr[s].inUse, scr[s].ready)]
       ELSE heap' = Undo(Malloc(heap, a), b, a) /\ UNCHANGED scr
    /\ UNCHANGED <<dbs, blobs, scanning>>

hs_free_scratch(s) ==
    /\ scr[s] # None /\ ~scr[s].inUse
    /\ heap' = FreeBlock(heap, scr[s].block)
    /\ scr' = [scr EXCEPT ![s] = None]
    /\ UNCHANGED <<dbs, blobs, scanning>>

validScratch(c, x) ==
    /\ HeaderAt(x.addr) % 64 = 0
    /\ Engine[c].mode = "block" => Engine[c].stateEnd <= x.size.bState
    /\ Engine[c].queues <= x.size.queueCount

\* A scan with a database the scratch was prepared for, up to its first callback,
\* and its return.
BeginScan(s, h) ==
    /\ scr[s] # None /\ dbs[h] # None
    /\ dbs[h].code \in scr[s].ready
    /\ validDatabase(dbs[h]) /\ validScratch(dbs[h].code, scr[s]) /\ ~scr[s].inUse
    /\ scr' = [scr EXCEPT ![s].inUse = TRUE]
    /\ scanning' = scanning \cup {s}
    /\ UNCHANGED dvars

EndScan(s) ==
    /\ s \in scanning
    /\ scr' = [scr EXCEPT ![s].inUse = FALSE]
    /\ scanning' = scanning \ {s}
    /\ UNCHANGED dvars

Init ==
    /\ DInit
    /\ scr = [s \in Scratches |-> None]
    /\ scanning = {}

Next ==
    \/ DNext /\ UNCHANGED <<scr, scanning>>
    \/ \E s \in Scratches, h \in DbHandles, a1, a2 \in Results : hs_alloc_scratch(s, h, a1, a2)
    \/ \E s, t \in Scratches, a \in Results : hs_clone_scratch(s, t, a)
    \/ \E s \in Scratches : hs_free_scratch(s) \/ EndScan(s)
    \/ \E s \in Scratches, h \in DbHandles : BeginScan(s, h)

Spec == Init /\ [][Next]_vars
-----------------------------------------------------------------------------
(* Properties. *)

Pointers ==
    {<<"db", h>> : h \in {h \in DbHandles : dbs[h] # None}}
    \cup {<<"blob", b>> : b \in {b \in Blobs : blobs[b] # None}}
    \cup {<<"scratch", s>> : s \in {s \in Scratches : scr[s] # None}}

Target(p) == CASE p[1] = "db" -> dbs[p[2]].block
               [] p[1] = "blob" -> blobs[p[2]].block
               [] p[1] = "scratch" -> scr[p[2]].block

TypeOK ==
    /\ heap.live \subseteq Blocks
    /\ \A s \in Scratches : scr[s] # None =>
          scr[s].size \in [DOMAIN NoSizes -> Nat] /\ scr[s].ready \subseteq Codes
    /\ \A h \in DbHandles : dbs[h] # None => dbs[h].addr % 8 = 0
    /\ scanning \subseteq Scratches

\* No call of the API leaks memory, frees a block twice or leaves the application
\* with a pointer to a freed block, whichever allocation of hs_alloc_scratch,
\* hs_clone_scratch or hs_deserialize_database fails or is misaligned.
MemoryAccounted ==
    /\ ~heap.fault
    /\ {Target(p) : p \in Pointers} = heap.live
    /\ \A p, q \in Pointers : Target(p) = Target(q) => p = q

\* A scratch has room for every database it was ever prepared for, in whatever
\* order the sizes grew and through clones, and a scan with it is accepted
\* (hs_alloc_scratch's maxima; log_size follows dkey_count).  The deduper's logs
\* are needed by the databases that have keys to dedupe.
ScratchFits ==
    \A s \in Scratches : scr[s] # None =>
        \A c \in scr[s].ready :
            /\ validScratch(c, scr[s])
            /\ \A f \in DOMAIN NoSizes \ {"logSize"} : Need[c][f] <= scr[s].size[f]
            /\ Need[c].dkeyCount > 0 => Need[c].logSize <= scr[s].size.logSize

\* Every database finds logs of the size its bytecode states, "size of fatbit for
\* storing dkey log (bytes)" (rose_internal.h:353).
LogsAsStated ==
    \A s \in Scratches : scr[s] # None =>
        \A c \in scr[s].ready : Need[c].logSize <= scr[s].size.logSize

\* The regions that alloc_scratch carves out of its block are aligned for their
\* types and end inside the block (the assertions of alloc_scratch).
LayoutFits ==
    \A s \in Scratches : scr[s] # None =>
        LET p == scr[s].size a == scr[s].addr IN
        /\ \A x \in {QueuesAt(p, a), SomStoreAt(p, a), DelayAt(p, a), DelaySlotsAt(p, a),
                     AlLogAt(p, a), AlSlotsAt(p, a), QmAt(p, a), StartLogAt(p, a),
                     AqaAt(p, a), HandledAt(p, a), LogAt(p, a), SomSetAt(p, a)} : x % 8 = 0
        /\ \A f \in {"delayFat", "alFat", "logSize", "somFat"} : p[f] % 8 = 0
        /\ FullStateAt(p, a) % 64 = 0
        /\ LayoutEnd(p, a) - a <= scr[s].allocated

\* A scratch is marked in use exactly while a scan uses it: hs_alloc_scratch
\* marks it too, and takes the mark back on every return that keeps the scratch;
\* a clone of a scratch in use is free.
MarkedWhileScanning ==
    {s \in Scratches : scr[s] # None /\ scr[s].inUse} = scanning
=============================================================================
