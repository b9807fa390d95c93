--------------------------- MODULE SomSlotsProofs ---------------------------
(***************************************************************************)
(* Proofs about start-of-match slots: for any number of slots, any layout  *)
(* of kinds and copies, any horizon and any length of stream.              *)
(*                                                                         *)
(* The inductive invariant says, slot by slot, which of the sets of this   *)
(* offset a slot is in and which of its two places holds the start that    *)
(* the operations so far ask for (SlotInv), and between writes what the    *)
(* distances in the stream state stand for (KeptInv).                      *)
(***************************************************************************)
EXTENDS SomSlots, TLAPS

Start(s) == IF Takes(s) THEN due[s] ELSE base[s].start

\* A slot while a call runs.  It is in som_set_now exactly if the slot takes the
\* start asked for at this offset; a start that a locked slot refused is in
\* som_attempted_store; the operations that compare starts find exact ones.
SlotInv(s) ==
    /\ s \in valid <=> base[s].valid \/ due[s] # None
    /\ s \in writable <=> (base[s].writable \/ s \in esc) /\ ~(Locks(s) /\ due[s] # None)
    /\ s \in valid => Tracks(store[s], Start(s))
    /\ s \in Now(setNow) <=> Takes(s)
    /\ Locks(s) /\ due[s] # None => s \in Now(attempted) \/ s \in Now(setNow)
    /\ s \in Now(attempted) => Locks(s) /\ due[s] # None
    /\ s \in Now(attempted) /\ s \notin Now(setNow) => Tracks(failed[s], due[s])
    /\ Kind[s] \notin {"copy", "copyw"} =>
          /\ s \in Now(setNow) => store[s] = due[s]
          /\ s \in Now(attempted) /\ s \notin Now(setNow) => failed[s] = due[s]
    /\ base[s].start <= now /\ (due[s] # None => due[s] <= now)

\* A slot between writes.
KeptInv(s) ==
    /\ s \in valid <=> base[s].valid
    /\ s \in writable <=> base[s].writable
    /\ s \in valid => Tracks(loadSomValue(kept[s], offset), base[s].start)
    /\ base[s].start <= offset /\ due[s] = None

SomInv ==
    /\ TypeOK
    /\ call # "idle" => /\ offset <= now /\ now <= end /\ (setAt = None \/ setAt <= now)
                        /\ call = "eod" => offset = now
                        /\ \A s \in Slots : SlotInv(s)
    /\ call = "idle" => esc = {} /\ \A s \in Slots : KeptInv(s)

-----------------------------------------------------------------------------
(* Slots and layouts. *)

(* The five kinds of operation on a slot. *)
LEMMA Kinds ==
    ASSUME TypeOK, NEW s \in Slots
    PROVE  Kind[s] \in {"set", "unset", "writable", "copy", "copyw"} /\ From[s] \in Slots
BY SlotAssumption, Zenon DEF TypeOK, Kind, From

(* What a slot holds before this offset, and what is asked of it.  No start *)
(* is the sentinel ~0 of som_set_now_offset.                                *)
LEMMA SlotTypes ==
    ASSUME TypeOK, NEW s \in Slots
    PROVE  /\ base[s].valid \in BOOLEAN /\ base[s].writable \in BOOLEAN
           /\ base[s].start \in Offsets /\ due[s] \in Offsets \cup {None}
           /\ store[s] \in Offsets \cup {Past} /\ failed[s] \in Offsets \cup {Past}
           /\ kept[s] \in 0 .. Horizon
           /\ None \notin Offsets /\ Past \notin Offsets /\ Past # None
<1>1. /\ base[s] \in [valid : BOOLEAN, writable : BOOLEAN, start : Offsets]
      /\ due[s] \in Offsets \cup {None} /\ kept[s] \in 0 .. Horizon
      /\ store[s] \in Offsets \cup {Past} /\ failed[s] \in Offsets \cup {Past}
  BY Zenon DEF TypeOK
<1>2. None \notin Offsets /\ Past \notin Offsets /\ Past # None
  BY SlotAssumption DEF None, Past, Offsets
<1>3. QED  BY <1>1, <1>2, Zenon

(* The start that a slot resolves to is an offset. *)
LEMMA StartType ==
    ASSUME TypeOK, NEW s \in Slots
    PROVE  /\ Start(s) \in Offsets
           /\ Resolved(s).start = Start(s)
<1>1. Start(s) \in Offsets
  BY SlotTypes, Zenon DEF Start, Takes
<1>2. QED  BY <1>1, Zenon DEF Resolved, Start

(* A slot that an operation does not name keeps its state: the sets of an   *)
(* earlier offset are empty for it before and after they are cleared.       *)
LEMMA OtherSlot ==
    ASSUME NEW t \in Slots, SlotInv(t), UNCHANGED <<layout, offset, now, base>>,
           due'[t] = due[t], t \in esc' <=> t \in esc,
           t \in valid' <=> t \in valid, t \in writable' <=> t \in writable,
           store'[t] = store[t], failed'[t] = failed[t], setAt' = now,
           t \in setNow' <=> t \in Now(setNow), t \in attempted' <=> t \in Now(attempted)
    PROVE  SlotInv(t)'
<1>1. Kind' = Kind /\ (Locks(t)' <=> Locks(t))
  BY Zenon DEF Kind, Locks
<1>2. Takes(t)' <=> Takes(t)
  BY <1>1, Zenon DEF Takes
<1>3. Start(t)' = Start(t)
  BY <1>2, Zenon DEF Start
<1>4. /\ t \in Now(setNow)' <=> t \in Now(setNow)
      /\ t \in Now(attempted)' <=> t \in Now(attempted)
  BY Zenon DEF Now
<1>5. QED  BY <1>1, <1>2, <1>3, <1>4, Zenon DEF SlotInv, Tracks

-----------------------------------------------------------------------------
(* What the operations do to a slot. *)

(* An operation on slot s at this offset keeps the invariant if it keeps    *)
(* that of s: the other slots only lose sets of earlier offsets.            *)
LEMMA OneSlot ==
    ASSUME SomInv, NEW s \in Slots, call # "idle", TypeOK', SlotInv(s)',
           UNCHANGED <<layout, offset, now, base, call, end>>, setAt' = now,
           \A t \in Slots \ {s} :
              /\ due'[t] = due[t] /\ (t \in esc' <=> t \in esc)
              /\ t \in valid' <=> t \in valid
              /\ t \in writable' <=> t \in writable
              /\ store'[t] = store[t] /\ failed'[t] = failed[t]
              /\ t \in setNow' <=> t \in Now(setNow)
              /\ t \in attempted' <=> t \in Now(attempted)
    PROVE  SomInv'
<1>1. \A t \in Slots : SlotInv(t)
  BY Zenon DEF SomInv
<1>2. \A t \in Slots \ {s} : SlotInv(t)'
  BY <1>1, OtherSlot, Zenon
<1>3. \A t \in Slots : SlotInv(t)'
  BY <1>2, Zenon
<1>4. offset <= now /\ now <= end /\ (call = "eod" => offset = now)
  BY Zenon DEF SomInv
<1>5. now \in Int
  BY DEF SomInv, TypeOK, Offsets
<1>6. /\ offset' <= now' /\ now' <= end' /\ (setAt' = None \/ setAt' <= now')
      /\ call' = "eod" => offset' = now'
  BY <1>4, <1>5
<1>7. call' # "idle"
  BY Zenon
<1>8. QED  BY <1>3, <1>6, <1>7, Zenon DEF SomInv

(* A write to a slot that may be written, as setSomLoc and the copies make  *)
(* it: the slot is valid and holds the start asked for.                     *)
LEMMA WriteKeeps ==
    ASSUME SomInv, NEW s \in Slots, NEW start \in Offsets, NEW v \in Offsets \cup {Past},
           Operation(s, start), Write(s, v), start <= now, Tracks(v, start),
           \/ Kind[s] \in {"set", "copy"} \/ ~base[s].valid
           \/ Locks(s) /\ (base[s].writable \/ s \in esc),
           writable' = IF Locks(s) THEN writable \ {s} ELSE writable,
           Kind[s] \notin {"copy", "copyw"} => v = start
    PROVE  SomInv'
<1>1. TypeOK /\ SlotInv(s) /\ call # "idle"
  BY Zenon DEF SomInv, Operation
<1>2. /\ store' = [store EXCEPT ![s] = v] /\ failed' = failed /\ setAt' = now
      /\ setNow' = Now(setNow) \cup {s} /\ valid' = valid \cup {s} /\ attempted' = Now(attempted)
      /\ due' = [due EXCEPT ![s] = start]
      /\ UNCHANGED <<layout, offset, kept, call, now, end, base, esc>>
  BY Zenon DEF Write, Operation
<1>3. TypeOK'
  BY <1>1, <1>2, Zenon DEF TypeOK, Now
<1>4. store'[s] = v /\ due'[s] = start /\ start # None
  BY <1>1, <1>2, SlotTypes, Zenon DEF TypeOK
<1>5. /\ Kind' = Kind /\ (Locks(s)' <=> Locks(s)) /\ Takes(s)'
  BY <1>2, <1>4, Zenon DEF Kind, Locks, Takes
<1>6. Start(s)' = start
  BY <1>4, <1>5, Zenon DEF Start
<1>7. s \in Now(setNow)' /\ s \in valid'
  BY <1>2, Zenon DEF Now
<1>8. s \in writable' <=> (base[s].writable \/ s \in esc) /\ ~Locks(s)
  BY <1>1, Zenon DEF SlotInv
<1>9. base[s].start <= now /\ (s \in Now(attempted)' => Locks(s))
  BY <1>1, <1>2, Zenon DEF SlotInv, Now
<1>10. SlotInv(s)'
  BY <1>2, <1>4, <1>5, <1>6, <1>7, <1>8, <1>9, Zenon DEF SlotInv, Tracks
<1>11. \A t \in Slots \ {s} :
          /\ due'[t] = due[t] /\ (t \in esc' <=> t \in esc)
          /\ t \in valid' <=> t \in valid
          /\ t \in writable' <=> t \in writable
          /\ store'[t] = store[t] /\ failed'[t] = failed[t]
          /\ t \in setNow' <=> t \in Now(setNow)
          /\ t \in attempted' <=> t \in Now(attempted)
  BY <1>1, <1>2, Zenon DEF TypeOK
<1>12. QED  BY <1>1, <1>2, <1>3, <1>10, <1>11, OneSlot, Zenon

(* A write to a locked slot: the start is put aside, the slot keeps its own. *)
LEMMA StashKeeps ==
    ASSUME SomInv, NEW s \in Slots, NEW start \in Offsets, NEW v \in Offsets \cup {Past},
           Operation(s, start), Stash(s, v), start <= now, Tracks(v, start),
           Locks(s), base[s].valid, ~base[s].writable, s \notin esc, UNCHANGED writable,
           Kind[s] \notin {"copy", "copyw"} => v = start
    PROVE  SomInv'
<1>1. TypeOK /\ SlotInv(s) /\ call # "idle"
  BY Zenon DEF SomInv, Operation
<1>2. /\ failed' = [failed EXCEPT ![s] = v] /\ store' = store /\ setAt' = now
      /\ setNow' = Now(setNow) /\ valid' = valid \cup {s} /\ attempted' = Now(attempted) \cup {s}
      /\ due' = [due EXCEPT ![s] = start]
      /\ UNCHANGED <<layout, offset, kept, call, now, end, base, esc>>
  BY Zenon DEF Stash, Operation
<1>3. TypeOK'
  BY <1>1, <1>2, Zenon DEF TypeOK, Now
<1>4. failed'[s] = v /\ due'[s] = start /\ start # None
  BY <1>1, <1>2, SlotTypes, Zenon DEF TypeOK
<1>5. ~Takes(s) /\ Kind[s] \notin {"set", "copy"}
  BY Zenon DEF Takes, Locks
<1>6. Kind' = Kind /\ Locks(s)' /\ ~Takes(s)'
  BY <1>2, <1>5, Zenon DEF Kind, Locks, Takes
<1>7. Start(s)' = base[s].start /\ Start(s) = base[s].start
  BY <1>2, <1>5, <1>6, Zenon DEF Start
<1>8. s \notin Now(setNow)' /\ s \in Now(attempted)' /\ s \in valid' /\ s \in valid
  BY <1>1, <1>2, <1>5, Zenon DEF Now, SlotInv
<1>9. Tracks(store[s], base[s].start) /\ base[s].start <= now /\ s \notin writable
  BY <1>1, <1>7, <1>8, Zenon DEF SlotInv
<1>10. SlotInv(s)'
  BY <1>2, <1>4, <1>6, <1>7, <1>8, <1>9, Zenon DEF SlotInv, Tracks
<1>11. \A t \in Slots \ {s} :
          /\ due'[t] = due[t] /\ (t \in esc' <=> t \in esc)
          /\ t \in valid' <=> t \in valid
          /\ t \in writable' <=> t \in writable
          /\ store'[t] = store[t] /\ failed'[t] = failed[t]
          /\ t \in setNow' <=> t \in Now(setNow)
          /\ t \in attempted' <=> t \in Now(attempted)
  BY <1>1, <1>2, Zenon DEF TypeOK
<1>12. QED  BY <1>1, <1>2, <1>3, <1>10, <1>11, OneSlot, Zenon

(* A slot that may be written compares with the start it took at this       *)
(* offset, or with none: the result is the earliest asked for.              *)
LEMMA EarliestIsDue ==
    ASSUME SomInv, NEW s \in Slots, NEW v \in Offsets, v <= now, call # "idle",
           Kind[s] \notin {"copy", "copyw"}
    PROVE  /\ Min2(due[s], v) \in Offsets /\ Min2(due[s], v) <= now
           /\ s \in Now(setNow) \/ due[s] = None
                 => Earliest(s, setNow, store[s], v) = Min2(due[s], v)
           /\ s \notin Now(setNow) /\ (s \in Now(attempted) \/ due[s] = None)
                 => Earliest(s, attempted, failed[s], v) = Min2(due[s], v)
<1>1. TypeOK /\ SlotInv(s)
  BY Zenon DEF SomInv
<1>2. due[s] \in Offsets \cup {None} /\ None > MaxOffset /\ Offsets \subseteq Nat
      /\ \A x \in Offsets : x <= MaxOffset
  BY <1>1, SlotTypes, SlotAssumption DEF None, Offsets
<1>3. MaxOffset \in Nat /\ None \in Nat
  BY SlotAssumption DEF None
<1>4. due[s] = None => Min2(due[s], v) = v
  BY <1>2, <1>3 DEF Min2
<1>5. due[s] # None => due[s] <= now
  BY <1>1, Zenon DEF SlotInv
<1>6. Min2(due[s], v) \in Offsets /\ Min2(due[s], v) <= now
  BY <1>2, <1>4, <1>5, Zenon DEF Min2
<1>7. s \in Now(setNow) => store[s] = due[s] /\ due[s] # None
  BY <1>1, Zenon DEF SlotInv, Takes
<1>8. s \in Now(attempted) /\ s \notin Now(setNow) => failed[s] = due[s]
  BY <1>1, Zenon DEF SlotInv
<1>9. s \in Now(attempted) => due[s] # None
  BY <1>1, Zenon DEF SlotInv
<1>10. QED  BY <1>4, <1>6, <1>7, <1>8, <1>9, Zenon DEF Earliest

-----------------------------------------------------------------------------
(* The actions. *)

(* SOM_INTERNAL_LOC_SET always writes. *)
LEMMA SetStep ==
    ASSUME SomInv, NEW s \in Slots, NEW v \in Offsets, LocSet(s, v)
    PROVE  SomInv'
<1> DEFINE start == Min2(due[s], v)
<1>1. /\ Kind[s] = "set" /\ v <= now /\ Operation(s, start) /\ call # "idle"
      /\ Write(s, Earliest(s, setNow, store[s], v)) /\ UNCHANGED writable
  BY Zenon DEF LocSet, Operation
<1>2. SlotInv(s)
  BY <1>1, Zenon DEF SomInv
<1>3. s \in Now(setNow) \/ due[s] = None
  BY <1>1, <1>2, Zenon DEF SlotInv, Takes
<1>4. start \in Offsets /\ start <= now /\ Earliest(s, setNow, store[s], v) = start
  BY <1>1, <1>3, EarliestIsDue, Zenon
<1>5. ~Locks(s)
  BY <1>1, Zenon DEF Locks
<1> HIDE DEF start
<1>6. Tracks(start, start)
  BY Zenon DEF Tracks
<1>7. QED  BY <1>1, <1>4, <1>5, <1>6, WriteKeeps, Zenon

(* SOM_INTERNAL_LOC_SET_IF_UNSET writes a slot that was not valid before    *)
(* this offset.                                                             *)
LEMMA SetIfUnsetStep ==
    ASSUME SomInv, NEW s \in Slots, NEW v \in Offsets, LocSetIfUnset(s, v)
    PROVE  SomInv'
<1> DEFINE start == Min2(due[s], v)
<1>1. Kind[s] = "unset" /\ v <= now /\ Operation(s, start) /\ call # "idle" /\ UNCHANGED writable
  BY Zenon DEF LocSetIfUnset, Operation
<1>2. TypeOK /\ SlotInv(s) /\ ~Locks(s)
  BY <1>1, Zenon DEF SomInv, Locks
<1>3. start \in Offsets /\ start <= now
  BY <1>1, EarliestIsDue, Zenon
<1>4. CASE ok_and_mark_if_unset(s)
  <2>1. Write(s, Earliest(s, setNow, store[s], v))
    BY <1>4, Zenon DEF LocSetIfUnset
  <2>2. ~base[s].valid /\ (s \in Now(setNow) \/ due[s] = None)
    BY <1>1, <1>2, <1>4, Zenon DEF ok_and_mark_if_unset, SlotInv, Takes
  <2>3. Earliest(s, setNow, store[s], v) = start
    BY <1>1, <2>2, EarliestIsDue, Zenon
  <2> HIDE DEF start
  <2>4. Tracks(start, start)
    BY Zenon DEF Tracks
  <2>5. QED  BY <1>1, <1>2, <1>3, <2>1, <2>2, <2>3, <2>4, WriteKeeps, Zenon
<1>5. CASE ~ok_and_mark_if_unset(s)
  <2>1. /\ setNow' = Now(setNow) /\ attempted' = Now(attempted) /\ setAt' = now
        /\ UNCHANGED <<store, failed, valid, writable>>
        /\ due' = [due EXCEPT ![s] = start]
        /\ UNCHANGED <<layout, offset, kept, call, now, end, base, esc>>
    BY <1>1, <1>5, Zenon DEF LocSetIfUnset, Ignore, Operation
  <2>2. s \in valid /\ s \notin Now(setNow) /\ base[s].valid /\ ~Takes(s)
    BY <1>1, <1>2, <1>5, Zenon DEF ok_and_mark_if_unset, SlotInv, Takes
  <2> HIDE DEF start
  <2>3. due'[s] = start /\ start # None
    BY <1>2, <1>3, <2>1, SlotTypes, Zenon DEF TypeOK
  <2>4. Kind' = Kind /\ ~Locks(s)' /\ ~Takes(s)'
    BY <1>1, <1>2, <2>1, <2>2, Zenon DEF Kind, Locks, Takes
  <2>5. Start(s)' = base[s].start /\ Start(s) = base[s].start
    BY <2>1, <2>2, <2>4, Zenon DEF Start
  <2>6. /\ s \in Now(setNow)' <=> s \in Now(setNow)
        /\ s \in Now(attempted)' <=> s \in Now(attempted)
    BY <2>1, Zenon DEF Now
  <2>7. s \notin Now(attempted)
    BY <1>2, Zenon DEF SlotInv
  <2>8. SlotInv(s)'
    BY <1>2, <1>3, <2>1, <2>2, <2>3, <2>4, <2>5, <2>6, <2>7, Zenon DEF SlotInv, Tracks
  <2>9. TypeOK'
    BY <1>2, <1>3, <2>1, Zenon DEF TypeOK, Now
  <2>10. \A t \in Slots \ {s} : due'[t] = due[t]
    BY <1>2, <2>1, Zenon DEF TypeOK
  <2>11. QED  BY <1>1, <2>1, <2>8, <2>9, <2>10, OneSlot, Zenon
<1>6. QED  BY <1>4, <1>5, Zenon

(* A locked slot: ok_and_mark_if_write lets a write through exactly if the  *)
(* slot was not valid, was writable, or was escaped at this offset.         *)
LEMMA WritableIsTaken ==
    ASSUME TypeOK, NEW s \in Slots, SlotInv(s), Locks(s)
    PROVE  /\ ok_and_mark_if_write(s) =>
                 /\ ~base[s].valid \/ base[s].writable \/ s \in esc
                 /\ s \in Now(setNow) \/ due[s] = None
           /\ ~ok_and_mark_if_write(s) =>
                 /\ base[s].valid /\ ~base[s].writable /\ s \notin esc
                 /\ s \notin Now(setNow) /\ (s \in Now(attempted) \/ due[s] = None)
<1>1. Kind[s] \notin {"set", "copy"}
  BY Zenon DEF Locks
<1>2. QED  BY <1>1, Zenon DEF SlotInv, Takes, ok_and_mark_if_write

(* SOM_INTERNAL_LOC_SET_IF_WRITABLE writes, or puts the start aside.        *)
LEMMA SetIfWritableStep ==
    ASSUME SomInv, NEW s \in Slots, NEW v \in Offsets, LocSetIfWritable(s, v)
    PROVE  SomInv'
<1> DEFINE start == Min2(due[s], v)
<1>1. Kind[s] = "writable" /\ v <= now /\ Operation(s, start) /\ call # "idle"
  BY Zenon DEF LocSetIfWritable, Operation
<1>2. TypeOK /\ SlotInv(s) /\ Locks(s)
  BY <1>1, Zenon DEF SomInv, Locks
<1>3. start \in Offsets /\ start <= now
  BY <1>1, EarliestIsDue, Zenon
<1>4. Tracks(start, start)
  BY Zenon DEF Tracks
<1>5. CASE ok_and_mark_if_write(s)
  <2>1. Write(s, Earliest(s, setNow, store[s], v)) /\ writable' = writable \ {s}
    BY <1>5, Zenon DEF LocSetIfWritable
  <2>2. Earliest(s, setNow, store[s], v) = start
    BY <1>1, <1>2, <1>5, EarliestIsDue, WritableIsTaken, Zenon
  <2>3. ~base[s].valid \/ base[s].writable \/ s \in esc
    BY <1>2, <1>5, WritableIsTaken, Zenon
  <2> HIDE DEF start
  <2>4. QED  BY <1>1, <1>2, <1>3, <1>4, <2>1, <2>2, <2>3, WriteKeeps, Zenon
<1>6. CASE ~ok_and_mark_if_write(s)
  <2>1. Stash(s, Earliest(s, attempted, failed[s], v)) /\ UNCHANGED writable
    BY <1>6, Zenon DEF LocSetIfWritable
  <2>2. Earliest(s, attempted, failed[s], v) = start
    BY <1>1, <1>2, <1>6, EarliestIsDue, WritableIsTaken, Zenon
  <2>3. base[s].valid /\ ~base[s].writable /\ s \notin esc
    BY <1>2, <1>6, WritableIsTaken, Zenon
  <2> HIDE DEF start
  <2>4. QED  BY <1>1, <1>2, <1>3, <1>4, <2>1, <2>2, <2>3, StashKeeps, Zenon
<1>7. QED  BY <1>5, <1>6, Zenon

(* A copy takes what its source resolves to so far. *)
LEMMA CopySource ==
    ASSUME SomInv, NEW s \in Slots, call # "idle", From[s] \in valid
    PROVE  /\ Resolved(From[s]).start \in Offsets /\ Resolved(From[s]).start <= now
           /\ store[From[s]] \in Offsets \cup {Past}
           /\ Tracks(store[From[s]], Resolved(From[s]).start)
<1> DEFINE f == From[s]
<1>1. TypeOK /\ f \in Slots
  BY Kinds, Zenon DEF SomInv
<1>2. SlotInv(f)
  BY <1>1, Zenon DEF SomInv
<1> HIDE DEF f
<1>3. Start(f) \in Offsets /\ Resolved(f).start = Start(f) /\ store[f] \in Offsets \cup {Past}
  BY <1>1, StartType, SlotTypes, Zenon
<1>4. Start(f) <= now
  BY <1>2, Zenon DEF SlotInv, Start, Takes
<1>5. f \in valid => Tracks(store[f], Start(f))
  BY <1>2, Zenon DEF SlotInv
<1>6. QED  BY <1>3, <1>4, <1>5, Zenon DEF f

(* SOM_INTERNAL_LOC_COPY always writes. *)
LEMMA CopyStep ==
    ASSUME SomInv, NEW s \in Slots, LocCopy(s)
    PROVE  SomInv'
<1> DEFINE start == Resolved(From[s]).start
           v == store[From[s]]
<1>1. /\ Kind[s] = "copy" /\ From[s] \in valid /\ Operation(s, start) /\ Write(s, v)
      /\ call # "idle" /\ UNCHANGED writable
  BY Zenon DEF LocCopy, Operation
<1>2. start \in Offsets /\ start <= now /\ v \in Offsets \cup {Past} /\ Tracks(v, start)
  BY <1>1, CopySource, Zenon
<1>3. ~Locks(s)
  BY <1>1, Zenon DEF Locks
<1> HIDE DEF start, v
<1>4. QED  BY <1>1, <1>2, <1>3, WriteKeeps, Zenon

(* SOM_INTERNAL_LOC_COPY_IF_WRITABLE writes, or puts the start aside.       *)
LEMMA CopyIfWritableStep ==
    ASSUME SomInv, NEW s \in Slots, LocCopyIfWritable(s)
    PROVE  SomInv'
<1> DEFINE start == Resolved(From[s]).start
           v == store[From[s]]
<1>1. Kind[s] = "copyw" /\ From[s] \in valid /\ Operation(s, start) /\ call # "idle"
  BY Zenon DEF LocCopyIfWritable, Operation
<1>2. start \in Offsets /\ start <= now /\ v \in Offsets \cup {Past} /\ Tracks(v, start)
  BY <1>1, CopySource, Zenon
<1>3. TypeOK /\ SlotInv(s) /\ Locks(s)
  BY <1>1, Zenon DEF SomInv, Locks
<1>4. CASE ok_and_mark_if_write(s)
  <2>1. Write(s, v) /\ writable' = writable \ {s}
    BY <1>4, Zenon DEF LocCopyIfWritable
  <2>2. ~base[s].valid \/ base[s].writable \/ s \in esc
    BY <1>3, <1>4, WritableIsTaken, Zenon
  <2> HIDE DEF start, v
  <2>3. QED  BY <1>1, <1>2, <1>3, <2>1, <2>2, WriteKeeps, Zenon
<1>5. CASE ~ok_and_mark_if_write(s)
  <2>1. Stash(s, v) /\ UNCHANGED writable
    BY <1>5, Zenon DEF LocCopyIfWritable
  <2>2. base[s].valid /\ ~base[s].writable /\ s \notin esc
    BY <1>3, <1>5, WritableIsTaken, Zenon
  <2> HIDE DEF start, v
  <2>3. QED  BY <1>1, <1>2, <1>3, <2>1, <2>2, StashKeeps, Zenon
<1>6. QED  BY <1>4, <1>5, Zenon

(* SOM_INTERNAL_LOC_MAKE_WRITABLE leaves a slot that was just written,      *)
(* takes a start that was put aside, or makes the slot writable.            *)
LEMMA MakeWritableStep ==
    ASSUME SomInv, NEW s \in Slots, LocMakeWritable(s)
    PROVE  SomInv'
<1>1. /\ Locks(s) /\ call # "idle" /\ esc' = esc \cup {s}
      /\ UNCHANGED <<layout, offset, kept, call, now, end, base, due, valid>>
  BY Zenon DEF LocMakeWritable, Escape
<1>2. TypeOK /\ SlotInv(s)
  BY <1>1, Zenon DEF SomInv
<1>3. Kind' = Kind /\ Locks(s)' /\ Kind[s] \notin {"set", "copy"}
  BY <1>1, Zenon DEF Kind, Locks
<1>4. Takes(s)' <=> due[s] # None
  BY <1>1, <1>3, Zenon DEF Takes
<1>5. CASE s \in Now(setNow)
  <2>1. /\ setNow' = Now(setNow) /\ attempted' = Now(attempted) /\ setAt' = now
        /\ UNCHANGED <<store, failed, writable>>
    BY <1>5, Zenon DEF LocMakeWritable, Ignore
  <2>2. due[s] # None /\ Takes(s)
    BY <1>2, <1>5, Zenon DEF SlotInv, Takes
  <2>3. Start(s)' = Start(s)
    BY <1>1, <1>4, <2>2, Zenon DEF Start
  <2>4. s \in Now(setNow)' /\ (s \in Now(attempted)' <=> s \in Now(attempted))
    BY <1>1, <1>5, <2>1, Zenon DEF Now
  <2>5. SlotInv(s)'
    BY <1>1, <1>2, <1>3, <1>4, <1>5, <2>1, <2>2, <2>3, <2>4, Zenon DEF SlotInv, Tracks
  <2>6. TypeOK'
    BY <1>1, <1>2, <2>1, Zenon DEF TypeOK, Now
  <2>7. QED  BY <1>1, <2>1, <2>5, <2>6, OneSlot, Zenon
<1>6. CASE s \notin Now(setNow) /\ s \in Now(attempted)
  <2>1. /\ store' = [store EXCEPT ![s] = failed[s]] /\ setNow' = Now(setNow) \cup {s}
        /\ attempted' = Now(attempted) /\ setAt' = now /\ UNCHANGED <<failed, writable>>
    BY <1>6, Zenon DEF LocMakeWritable
  <2>2. due[s] # None /\ Tracks(failed[s], due[s]) /\ s \notin writable
    BY <1>1, <1>2, <1>6, Zenon DEF SlotInv
  <2>3. Start(s)' = due[s] /\ Takes(s)'
    BY <1>1, <1>4, <2>2, Zenon DEF Start
  <2>4. s \in Now(setNow)' /\ s \in Now(attempted)' /\ store'[s] = failed[s]
    BY <1>1, <1>2, <1>6, <2>1, Zenon DEF Now, TypeOK
  <2>5. /\ Kind[s] \notin {"copy", "copyw"} => failed[s] = due[s]
        /\ s \in valid /\ base[s].start <= now /\ due[s] <= now
    BY <1>2, <1>6, <2>2, Zenon DEF SlotInv
  <2>6. SlotInv(s)'
    BY <1>1, <1>3, <2>1, <2>2, <2>3, <2>4, <2>5, Zenon DEF SlotInv, Tracks
  <2>7. TypeOK'
    BY <1>1, <1>2, <2>1, Zenon DEF TypeOK, Now
  <2>8. \A t \in Slots \ {s} : store'[t] = store[t]
    BY <1>2, <2>1, Zenon DEF TypeOK
  <2>9. QED  BY <1>1, <2>1, <2>6, <2>7, <2>8, OneSlot, Zenon
<1>7. CASE s \notin Now(setNow) /\ s \notin Now(attempted)
  <2>1. /\ setNow' = Now(setNow) /\ attempted' = Now(attempted) /\ setAt' = now
        /\ writable' = writable \cup {s} /\ UNCHANGED <<store, failed>>
    BY <1>7, Zenon DEF LocMakeWritable, Ignore
  <2>2. due[s] = None /\ ~Takes(s) /\ ~Takes(s)'
    BY <1>1, <1>2, <1>4, <1>7, Zenon DEF SlotInv, Takes
  <2>3. Start(s)' = Start(s)
    BY <1>1, <2>2, Zenon DEF Start
  <2>4. s \notin Now(setNow)' /\ s \notin Now(attempted)'
    BY <1>1, <1>7, <2>1, Zenon DEF Now
  <2>5. SlotInv(s)'
    BY <1>1, <1>2, <1>3, <2>1, <2>2, <2>3, <2>4, Zenon DEF SlotInv, Tracks
  <2>6. TypeOK'
    BY <1>1, <1>2, <2>1, Zenon DEF TypeOK, Now
  <2>7. QED  BY <1>1, <2>1, <2>5, <2>6, OneSlot, Zenon
<1>8. QED  BY <1>5, <1>6, <1>7, Zenon

-----------------------------------------------------------------------------
(* Calls. *)

(* A distance stands for its start, or for one the horizon has passed: what *)
(* storeSomValue keeps at the end of a write, loadSomValue finds at the     *)
(* beginning of the next.                                                   *)
LEMMA KeptTracks ==
    ASSUME NEW v \in Offsets, NEW x \in Offsets \cup {Past}, NEW at \in Offsets, v <= at,
           x = v \/ (x = Past /\ at - v >= Horizon)
    PROVE  /\ storeSomValue(x, at) \in 0 .. Horizon
           /\ \/ loadSomValue(storeSomValue(x, at), at) = v
              \/ loadSomValue(storeSomValue(x, at), at) = Past /\ at - v >= Horizon
<1>1. Horizon \in Nat \ {0} /\ v \in Nat /\ at \in Nat /\ Past \notin Offsets
  BY SlotAssumption DEF Offsets, Past
<1>2. CASE x = Past
  BY <1>1, <1>2 DEF storeSomValue, loadSomValue
<1>3. CASE x # Past
  BY <1>1, <1>3 DEF storeSomValue, loadSomValue, Min2
<1>4. QED  BY <1>2, <1>3, Zenon

(* The end of an offset: what the slots resolve to is where the next starts. *)
LEMMA ResolvedType ==
    ASSUME TypeOK
    PROVE  /\ ResolvedAll \in [Slots -> [valid : BOOLEAN, writable : BOOLEAN, start : Offsets]]
           /\ \A s \in Slots :
                 /\ ResolvedAll[s].valid <=> base[s].valid \/ due[s] # None
                 /\ ResolvedAll[s].writable <=>
                       (base[s].writable \/ s \in esc) /\ ~(Locks(s) /\ due[s] # None)
                 /\ ResolvedAll[s].start = Start(s)
<1>1. SUFFICES ASSUME NEW s \in Slots
               PROVE  /\ Resolved(s) \in [valid : BOOLEAN, writable : BOOLEAN, start : Offsets]
                      /\ Resolved(s).valid <=> base[s].valid \/ due[s] # None
                      /\ Resolved(s).writable <=>
                            (base[s].writable \/ s \in esc) /\ ~(Locks(s) /\ due[s] # None)
                      /\ Resolved(s).start = Start(s)
  BY Zenon DEF ResolvedAll
<1>2. Start(s) \in Offsets /\ Resolved(s).start = Start(s)
  BY StartType, Zenon
<1>3. base[s].valid \in BOOLEAN /\ base[s].writable \in BOOLEAN
  BY SlotTypes, Zenon
<1>4. Locks(s) /\ due[s] # None /\ base[s].writable => Takes(s)
  BY Zenon DEF Takes
<1>5. Resolved(s).valid = (base[s].valid \/ due[s] # None)
  BY Zenon DEF Resolved
<1>6. Resolved(s).writable = (IF Locks(s) /\ due[s] # None THEN base[s].writable /\ ~Takes(s)
                              ELSE base[s].writable \/ s \in esc)
  BY Zenon DEF Resolved
<1>7. Resolved(s) \in [valid : BOOLEAN, writable : BOOLEAN, start : Offsets]
  BY <1>2, <1>3, Zenon DEF Resolved, Start
<1>8. QED  BY <1>2, <1>3, <1>4, <1>5, <1>6, <1>7, Zenon

(* A write or the end of data loads the slots from the stream state. *)
LEMMA BeginStep ==
    ASSUME SomInv, NEW k \in {"scan", "eod"}, NEW len \in Nat, k = "eod" => len = 0, Begin(k, len)
    PROVE  SomInv'
<1>1. /\ call = "idle" /\ offset + len <= MaxOffset /\ call' = k /\ now' = offset
      /\ end' = offset + len /\ setAt' = None
      /\ base' = ResolvedAll /\ due' = [s \in Slots |-> None] /\ esc' = {}
      /\ store' = [s \in Slots |-> IF s \in valid THEN loadSomValue(kept[s], offset) ELSE store[s]]
      /\ UNCHANGED <<layout, offset, kept, valid, writable, setNow, attempted, failed>>
  BY Zenon DEF Begin, loadSomFromStream, NextOffset, slots
<1>2. TypeOK /\ esc = {} /\ \A s \in Slots : KeptInv(s)
  BY <1>1, Zenon DEF SomInv
<1>3. MaxOffset \in Nat /\ offset \in Offsets /\ None \notin Offsets
  <2>1. MaxOffset \in Nat /\ offset \in Offsets
    BY <1>2, SlotAssumption, Zenon DEF TypeOK
  <2>2. None \notin Offsets
    BY <2>1, SMTT(30) DEF Offsets, None
  <2> QED
    BY <2>1, <2>2, Zenon
<1>4. ASSUME NEW s \in Slots
      PROVE  /\ s \in valid <=> base'[s].valid /\ base'[s].valid \in BOOLEAN
             /\ s \in writable <=> base'[s].writable /\ base'[s].writable \in BOOLEAN
             /\ base'[s].start = base[s].start /\ base[s].start <= offset
             /\ s \in valid => Tracks(loadSomValue(kept[s], offset), base[s].start)
  <2>1. KeptInv(s)
    BY <1>2, Zenon
  <2>2. ~Takes(s) /\ Start(s) = base[s].start
    BY <2>1, Zenon DEF KeptInv, Takes, Start
  <2>3. base'[s] \in [valid : BOOLEAN, writable : BOOLEAN, start : Offsets]
    BY <1>1, <1>2, ResolvedType, Zenon
  <2>4. QED  BY <1>1, <1>2, <2>1, <2>2, <2>3, ResolvedType, Zenon DEF KeptInv
<1>5. TypeOK'
  <2>1. base' \in [Slots -> [valid : BOOLEAN, writable : BOOLEAN, start : Offsets]]
    BY <1>1, <1>2, ResolvedType, Zenon
  <2>2. offset + len \in Offsets
    BY <1>1, <1>3 DEF Offsets
  <2>3. store' \in [Slots -> Offsets \cup {Past}]
    <3>1. \A s \in valid : loadSomValue(kept[s], offset) \in Offsets \cup {Past}
      <4>1. SUFFICES ASSUME NEW s \in valid
                     PROVE  loadSomValue(kept[s], offset) \in Offsets \cup {Past}
        BY Zenon
      <4>2. s \in Slots /\ base[s].start \in Offsets
        BY <1>2, SlotTypes, Zenon DEF TypeOK
      <4>3. QED  BY <1>4, <4>2, Zenon DEF Tracks
    <3>2. QED  BY <1>1, <1>2, <3>1, Zenon DEF TypeOK
  <2>4. due' \in [Slots -> Offsets \cup {None}] /\ esc' \subseteq Slots
    BY <1>1, Zenon
  <2>5. QED  BY <1>1, <1>2, <1>3, <2>1, <2>2, <2>3, <2>4, Zenon DEF TypeOK
<1>6. ASSUME NEW s \in Slots PROVE SlotInv(s)'
  <2>1. s \notin Now(setNow)' /\ s \notin Now(attempted)'
    BY <1>1, <1>3, Zenon DEF Now
  <2>2. s \in valid' => Tracks(store[s], base[s].start)'
    BY <1>1, <1>4, Zenon DEF Tracks
  <2>3. due'[s] = None
    BY <1>1, Zenon
  <2>4. ~Takes(s)' /\ Start(s)' = base'[s].start
    BY <2>3, Zenon DEF Takes, Start, None
  <2>5. None' = None
    BY Zenon DEF None
  <2>6. QED  BY <1>1, <1>4, <2>1, <2>2, <2>3, <2>4, <2>5, Zenon DEF SlotInv
<1>7. offset <= offset + len /\ (k = "eod" => offset = now')
  BY <1>1, <1>3 DEF Offsets
<1>8. /\ offset' <= now' /\ now' <= end' /\ (setAt = None)'
      /\ call' = "eod" => offset' = now'
  BY <1>1, <1>3, <1>7 DEF Offsets, None
<1>9. call' # "idle"
  BY <1>1, Zenon
<1>10. QED  BY <1>5, <1>6, <1>8, <1>9, Zenon DEF SomInv

(* The scan reaches the next offset: the sets are those of an earlier one.  *)
LEMMA AdvanceStep ==
    ASSUME SomInv, Advance
    PROVE  SomInv'
<1>1. /\ call = "scan" /\ now < end /\ now' = now + 1
      /\ base' = ResolvedAll /\ due' = [s \in Slots |-> None] /\ esc' = {}
      /\ UNCHANGED <<layout, offset, kept, valid, writable, store, setNow, attempted, failed,
                     setAt, call, end>>
  BY Zenon DEF Advance, NextOffset, slots, scratch
<1>2. /\ TypeOK /\ offset <= now /\ (setAt = None \/ setAt <= now)
      /\ \A s \in Slots : SlotInv(s)
  BY <1>1, Zenon DEF SomInv
<1>3. /\ now \in Nat /\ end \in Nat /\ offset \in Nat /\ end <= MaxOffset /\ MaxOffset \in Nat
      /\ None = MaxOffset + 2 /\ setAt \in Nat
  BY <1>2, SlotAssumption DEF TypeOK, Offsets, None
<1>4. TypeOK'
  <2>1. base' \in [Slots -> [valid : BOOLEAN, writable : BOOLEAN, start : Offsets]]
    BY <1>1, <1>2, ResolvedType, Zenon
  <2>2. now' \in Offsets
    BY <1>1, <1>3 DEF Offsets
  <2>3. due' \in [Slots -> Offsets \cup {None}] /\ esc' \subseteq Slots
    BY <1>1, Zenon
  <2>4. QED  BY <1>1, <1>2, <2>1, <2>2, <2>3, Zenon DEF TypeOK
<1>5. ASSUME NEW s \in Slots PROVE SlotInv(s)'
  <2>1. SlotInv(s)
    BY <1>2, Zenon
  <2>2. setAt' # now'
    BY <1>1, <1>2, <1>3
  <2>3. s \notin Now(setNow)' /\ s \notin Now(attempted)'
    BY <2>2, Zenon DEF Now
  <2>4. /\ s \in valid' <=> base'[s].valid
        /\ s \in writable' <=> base'[s].writable
        /\ base'[s].start = Start(s)
    BY <1>1, <1>2, <2>1, ResolvedType, Zenon DEF SlotInv
  <2>5. s \in valid' => Tracks(store[s], base[s].start)'
    BY <1>1, <2>1, <2>4, Zenon DEF SlotInv, Tracks
  <2>6. Start(s) \in Nat /\ Start(s) <= now
    <3>1. Start(s) \in Nat
      BY <1>2, SlotAssumption, StartType DEF Offsets
    <3>2. base[s].start <= now /\ (due[s] # None => due[s] <= now)
      BY <2>1, Zenon DEF SlotInv
    <3>3. Takes(s) => due[s] # None
      BY Zenon DEF Takes
    <3>4. Start(s) <= now
      BY <3>2, <3>3, Zenon DEF Start
    <3>5. QED  BY <3>1, <3>4, Zenon
  <2>7. base'[s].start <= now'
    BY <1>1, <1>3, <2>4, <2>6
  <2>8. (due[s] = None)'
    BY <1>1, Zenon DEF None
  <2>9. ~Takes(s)' /\ Start(s)' = base'[s].start
    BY <2>8, Zenon DEF Takes, Start
  <2>10. QED  BY <1>1, <2>3, <2>4, <2>5, <2>7, <2>8, <2>9, Zenon DEF SlotInv
<1>6. offset' <= now' /\ now' <= end' /\ (setAt = None \/ setAt <= now)'
  BY <1>1, <1>2, <1>3 DEF None
<1>7. call' = "scan"
  BY <1>1, Zenon
<1>8. QED  BY <1>4, <1>5, <1>6, <1>7, Zenon DEF SomInv

(* The end of a write: the slots go to the stream as distances from its     *)
(* last offset, and the scratch may be used for another stream.             *)
LEMMA EndScanStep ==
    ASSUME SomInv, EndScan
    PROVE  SomInv'
<1>1. /\ call = "scan" /\ now = end /\ offset' = end /\ call' = "idle"
      /\ kept' = [s \in Slots |-> IF s \in valid THEN storeSomValue(store[s], end) ELSE kept[s]]
      /\ store' = [s \in Slots |-> 0]
      /\ base' = ResolvedAll /\ due' = [s \in Slots |-> None] /\ esc' = {}
      /\ UNCHANGED <<layout, valid, writable, setNow, attempted, failed, setAt, now, end>>
  BY Zenon DEF EndScan, storeSomToStream, NextOffset, slots
<1>2. /\ TypeOK /\ offset <= now /\ \A s \in Slots : SlotInv(s)
  BY <1>1, Zenon DEF SomInv
<1>3. end \in Offsets /\ offset \in Offsets /\ Offsets \subseteq Nat /\ Horizon \in Nat
  BY <1>2, SlotAssumption DEF TypeOK, Offsets
<1>4. ASSUME NEW s \in valid
      PROVE  /\ storeSomValue(store[s], end) \in 0 .. Horizon
             /\ \/ loadSomValue(storeSomValue(store[s], end), end) = Start(s)
                \/ /\ loadSomValue(storeSomValue(store[s], end), end) = Past
                   /\ end - Start(s) >= Horizon
  <2>1. s \in Slots
    BY <1>2, Zenon DEF TypeOK
  <2>2. SlotInv(s) /\ Start(s) \in Offsets /\ store[s] \in Offsets \cup {Past}
    BY <1>2, <2>1, StartType, SlotTypes, Zenon
  <2>3. Start(s) <= end /\ Tracks(store[s], Start(s))
    BY <1>1, <2>2, Zenon DEF SlotInv, Start, Takes
  <2>4. store[s] = Start(s) \/ (store[s] = Past /\ end - Start(s) >= Horizon)
    <3>1. offset <= end /\ offset \in Nat /\ end \in Nat /\ Start(s) \in Nat /\ Horizon \in Nat
      BY <1>1, <1>2, <1>3, <2>2, Zenon
    <3>2. offset - Start(s) >= Horizon => end - Start(s) >= Horizon
      BY <3>1
    <3>3. QED  BY <2>3, <3>2, Zenon DEF Tracks
  <2>5. QED  BY <1>3, <2>2, <2>3, <2>4, KeptTracks, Zenon
<1>5. TypeOK'
  <2>1. base' \in [Slots -> [valid : BOOLEAN, writable : BOOLEAN, start : Offsets]]
    BY <1>1, <1>2, ResolvedType, Zenon
  <2>2. kept' \in [Slots -> 0 .. Horizon]
    BY <1>1, <1>2, <1>4, Zenon DEF TypeOK
  <2>3. due' \in [Slots -> Offsets \cup {None}] /\ esc' \subseteq Slots
    BY <1>1, Zenon
  <2>4. store' \in [Slots -> Offsets \cup {Past}]
    BY <1>1, SlotAssumption DEF Offsets
  <2>5. QED  BY <1>1, <1>2, <1>3, <2>1, <2>2, <2>3, <2>4, Zenon DEF TypeOK
<1>6. ASSUME NEW s \in Slots PROVE KeptInv(s)'
  <2>1. SlotInv(s) /\ Start(s) \in Offsets
    BY <1>2, StartType, Zenon
  <2>2. /\ s \in valid' <=> base'[s].valid
        /\ s \in writable' <=> base'[s].writable
        /\ base'[s].start = Start(s)
    BY <1>1, <1>2, <2>1, ResolvedType, ZenonT(30) DEF SlotInv
  <2>3. Start(s) <= offset'
    BY <1>1, <2>1, Zenon DEF SlotInv, Start, Takes
  <2>4. s \in valid => kept'[s] = storeSomValue(store[s], end)
    BY <1>1, Zenon
  <2>5. s \in valid' => Tracks(loadSomValue(kept[s], offset), base[s].start)'
    <3>1. SUFFICES ASSUME s \in valid PROVE Tracks(loadSomValue(kept[s], offset), base[s].start)'
      BY <1>1, Zenon
    <3>2. kept'[s] = storeSomValue(store[s], end) /\ offset' = end /\ base'[s].start = Start(s)
      BY <1>1, <2>2, <2>4, <3>1, Zenon
    <3>3. /\ loadSomValue(kept[s], offset)' = loadSomValue(kept'[s], offset')
          /\ Past' = Past
      BY Zenon DEF loadSomValue, Past
    <3>4. QED  BY <1>4, <3>1, <3>2, <3>3, Zenon DEF Tracks
  <2>6. (due[s] = None)'
    BY <1>1, Zenon DEF None
  <2>7. QED  BY <2>2, <2>3, <2>5, <2>6, Zenon DEF KeptInv
<1>7. call' = "idle" /\ esc' = {}
  BY <1>1, Zenon
<1>8. QED  BY <1>5, <1>6, <1>7, Zenon DEF SomInv

(* A stream that is reset starts with no slot valid. *)
LEMMA InitSomStateStep ==
    ASSUME SomInv, initSomState
    PROVE  SomInv'
<1>1. /\ call' = "idle" /\ offset' = 0 /\ valid' = {} /\ writable' = {}
      /\ base' = [s \in Slots |-> [valid |-> FALSE, writable |-> FALSE, start |-> 0]]
      /\ due' = [s \in Slots |-> None] /\ esc' = {}
      /\ UNCHANGED <<layout, kept, store, setNow, attempted, failed, setAt, now, end>>
  BY Zenon DEF initSomState, scratch
<1>2. TypeOK /\ 0 \in Offsets
  BY SlotAssumption DEF SomInv, Offsets
<1>3. TypeOK'
  BY <1>1, <1>2, Zenon DEF TypeOK
<1>4. ASSUME NEW s \in Slots PROVE KeptInv(s)'
  BY <1>1 DEF KeptInv, None
<1>5. QED  BY <1>1, <1>3, <1>4, Zenon DEF SomInv

(* A stream just opened. *)
LEMMA SomStarts ==
    ASSUME Init
    PROVE  SomInv
<1>1. 0 \in Offsets /\ 0 \in 0 .. Horizon
  BY SlotAssumption DEF Offsets
<1>2. TypeOK
  BY <1>1, Zenon DEF Init, TypeOK
<1>3. ASSUME NEW s \in Slots PROVE KeptInv(s)
  BY DEF Init, KeptInv
<1>4. QED  BY <1>2, <1>3, Zenon DEF Init, SomInv

(* Every step keeps the invariant. *)
LEMMA SomKept ==
    ASSUME SomInv, [Next]_vars
    PROVE  SomInv'
<1>1. CASE UNCHANGED vars
  <2>1. UNCHANGED <<layout, offset, now, end, kept, valid, writable, store, setNow, attempted,
                    failed, setAt, call, base, due, esc>>
    BY <1>1, Zenon DEF vars, slots, scratch
  <2>2. TypeOK => TypeOK'
    BY <2>1, Zenon DEF TypeOK
  <2>3. ASSUME NEW s \in Slots, SlotInv(s) PROVE SlotInv(s)'
    BY <2>1, <2>3, ZenonT(30) DEF SlotInv, Kind, Locks, Takes, Start, Now, Tracks
  <2>4. ASSUME NEW s \in Slots, KeptInv(s) PROVE KeptInv(s)'
    BY <2>1, <2>4, Zenon DEF KeptInv, Tracks, loadSomValue
  <2>5. QED  BY <2>1, <2>2, <2>3, <2>4, Zenon DEF SomInv
<1>2. ASSUME NEW s \in Slots, NEW v \in Offsets,
             LocSet(s, v) \/ LocSetIfUnset(s, v) \/ LocSetIfWritable(s, v)
      PROVE  SomInv'
  BY <1>2, SetStep, SetIfUnsetStep, SetIfWritableStep, Zenon
<1>3. ASSUME NEW s \in Slots, LocCopy(s) \/ LocCopyIfWritable(s) \/ LocMakeWritable(s)
      PROVE  SomInv'
  BY <1>3, CopyStep, CopyIfWritableStep, MakeWritableStep, Zenon
<1>4. ASSUME NEW len \in 1 .. MaxOffset, Begin("scan", len) PROVE SomInv'
  <2>1. len \in Nat
    BY SlotAssumption
  <2>2. QED  BY <1>4, <2>1, BeginStep, Zenon
<1>5. CASE Begin("eod", 0)
  BY <1>5, BeginStep, Zenon
<1>6. CASE Advance
  BY <1>6, AdvanceStep, Zenon
<1>7. CASE EndScan
  BY <1>7, EndScanStep, Zenon
<1>8. CASE initSomState
  BY <1>8, InitSomStateStep, Zenon
<1>9. QED  BY <1>1, <1>2, <1>3, <1>4, <1>5, <1>6, <1>7, <1>8, Zenon DEF Next

(* For any number of slots, layout, horizon and length of stream: in every  *)
(* call the slots hold what the operations so far resolve to, in whatever   *)
(* order they came, with the exact start unless the horizon has passed it.  *)
THEOREM SomResolved == Spec => []SlotsResolved
<1>1. Init => SomInv  BY SomStarts, Zenon
<1>2. SomInv /\ [Next]_vars => SomInv'  BY SomKept, Zenon
<1>3. SomInv => SlotsResolved
  <2> SUFFICES ASSUME SomInv, call # "idle", NEW s \in Slots
               PROVE  /\ (s \in valid) = Resolved(s).valid
                      /\ (s \in writable) = Resolved(s).writable
                      /\ s \in valid => Tracks(store[s], Resolved(s).start)
    BY Zenon DEF SlotsResolved
  <2>1. TypeOK /\ SlotInv(s)
    BY Zenon DEF SomInv
  <2>2. ResolvedAll[s] = Resolved(s)
    BY Zenon DEF ResolvedAll
  <2>3. Resolved(s) \in [valid : BOOLEAN, writable : BOOLEAN, start : Offsets]
    BY <2>1, <2>2, ResolvedType, Zenon
  <2>4. Resolved(s).valid \in BOOLEAN /\ Resolved(s).writable \in BOOLEAN
    BY <2>3, Zenon
  <2>5. /\ s \in valid <=> Resolved(s).valid
        /\ s \in writable <=> Resolved(s).writable
        /\ s \in valid => Tracks(store[s], Resolved(s).start)
    BY <2>1, <2>2, ResolvedType, Zenon DEF SlotInv
  <2>6. QED  BY <2>4, <2>5
<1>4. QED  BY <1>1, <1>2, <1>3, PTL DEF Spec

=============================================================================
