------------------------------ MODULE SomSlots ------------------------------
(***************************************************************************)
(* Start-of-match slots: prefixes of a pattern record where they started   *)
(* in a slot, and a later report reads it.  Operations on a slot arrive in *)
(* any order at one offset and are resolved for the earliest start; a slot *)
(* that is locked is only overwritten once an escape makes it writable,    *)
(* and an escape may arrive before or after the write it allows.  Between  *)
(* writes of a stream the slots are kept as distances of limited width.    *)
(***************************************************************************)
EXTENDS Integers, FiniteSets

CONSTANTS
    Slots,      \* somLocationCount slots
    Layouts,    \* databases: [kind, from]; see layout
    Horizon,    \* the sentinel of the stream's slot width, 2^16 - 1 or 2^32 - 1
    MaxOffset   \* bound: length of a stream

(* Each slot is written by operations of one kind: updatePrefixReports and  *)
(* the copy reports give every prefix a slot of its own.                    *)
ASSUME SlotAssumption ==
    /\ Layouts \subseteq [kind : [Slots -> {"set", "unset", "writable", "copy", "copyw"}],
                         from : [Slots -> Slots]]
    /\ Horizon \in Nat \ {0} /\ MaxOffset \in Nat

Past == MaxOffset + 1   \* SOM_SENTINEL_LARGE, above every offset
None == MaxOffset + 2   \* no operation yet at this offset; som_set_now_offset ~0

VARIABLES
    layout,     \* slot -> the kind of its operations, and the slot it is copied from
    offset,     \* id->offset
    kept,       \* kept[s]: the distance stored in the stream state
    valid,      \* som_store_valid
    writable,   \* som_store_writable
    store,      \* som_store, in scratch
    setNow,     \* som_set_now
    attempted,  \* som_attempted_set
    failed,     \* som_attempted_store
    setAt,      \* som_set_now_offset
    call,       \* "idle", "scan" or "eod"
    now, end,   \* offset the call has reached, and its last one
    base,       \* base[s]: the slot before this offset, exactly (history variable)
    due,        \* due[s]: start this offset's operations resolve to (history variable)
    esc         \* slots escaped at this offset (history variable)

slots == <<valid, writable>>
scratch == <<store, setNow, attempted, failed, setAt>>
vars == <<layout, offset, kept, slots, scratch, call, now, end, base, due, esc>>

Kind == layout.kind
From == layout.from

Offsets == 0 .. MaxOffset
TypeOK ==
    /\ layout \in Layouts
    /\ offset \in Offsets /\ now \in Offsets /\ end \in Offsets
    /\ kept \in [Slots -> 0 .. Horizon]
    /\ valid \subseteq Slots /\ writable \subseteq Slots
    /\ store \in [Slots -> Offsets \cup {Past}] /\ failed \in [Slots -> Offsets \cup {Past}]
    /\ setNow \subseteq Slots /\ attempted \subseteq Slots
    /\ setAt \in Offsets \cup {None}
    /\ call \in {"idle", "scan", "eod"}
    /\ base \in [Slots -> [valid : BOOLEAN, writable : BOOLEAN, start : Offsets]]
    /\ due \in [Slots -> Offsets \cup {None}] /\ esc \subseteq Slots

Min2(a, b) == IF a <= b THEN a ELSE b

-----------------------------------------------------------------------------
(* Reference: the slot after all operations of this offset, whatever their  *)
(* order.  A locked slot takes the new start only if it was escaped; an     *)
(* escape without a write leaves the slot writable.                         *)
Locks(s) == Kind[s] \in {"writable", "copyw"}
Takes(s) == /\ due[s] # None
            /\ \/ Kind[s] \in {"set", "copy"} \/ ~base[s].valid
               \/ Locks(s) /\ (base[s].writable \/ s \in esc)
Resolved(s) ==
    [valid    |-> base[s].valid \/ due[s] # None,
     writable |-> IF Locks(s) /\ due[s] # None THEN base[s].writable /\ ~Takes(s)
                  ELSE base[s].writable \/ s \in esc,
     start    |-> IF Takes(s) THEN due[s] ELSE base[s].start]
ResolvedAll == [s \in Slots |-> Resolved(s)]

NextOffset == base' = ResolvedAll /\ due' = [s \in Slots |-> None] /\ esc' = {}

-----------------------------------------------------------------------------
(* Slot operations, at offset now. *)

(* Sets belong to som_set_now_offset and are empty at any other offset. *)
Now(S) == IF setAt = now THEN S ELSE {}

Write(s, v) ==
    /\ store' = [store EXCEPT ![s] = v]
    /\ setNow' = Now(setNow) \cup {s} /\ valid' = valid \cup {s}
    /\ attempted' = Now(attempted) /\ setAt' = now
    /\ UNCHANGED failed
Stash(s, v) ==
    /\ failed' = [failed EXCEPT ![s] = v]
    /\ attempted' = Now(attempted) \cup {s} /\ setNow' = Now(setNow)
    /\ setAt' = now /\ valid' = valid \cup {s}
    /\ UNCHANGED store
Ignore(s) ==
    /\ setNow' = Now(setNow) /\ attempted' = Now(attempted) /\ setAt' = now
    /\ UNCHANGED <<store, failed>>

(* setSomLoc, setSomLocRevNfa: the first start of this offset overwrites,   *)
(* later ones only if earlier.                                              *)
Earliest(s, S, old, v) == IF s \in Now(S) THEN Min2(old, v) ELSE v

(* A slot operation, while a call runs; `start' is what it asks for.        *)
Operation(s, start) ==
    /\ call \in {"scan", "eod"} /\ (call = "scan" => now > offset)
    /\ due' = [due EXCEPT ![s] = start]
    /\ UNCHANGED <<layout, offset, kept, call, now, end, base, esc>>

(* SOM_INTERNAL_LOC_SET, its reverse NFA form and SET_FROM. *)
LocSet(s, v) ==
    /\ Kind[s] = "set" /\ v <= now
    /\ Operation(s, Min2(due[s], v))
    /\ Write(s, Earliest(s, setNow, store[s], v))
    /\ UNCHANGED writable

ok_and_mark_if_unset(s) == s \notin valid \/ s \in Now(setNow)

(* SOM_INTERNAL_LOC_SET_IF_UNSET and its reverse NFA form. *)
LocSetIfUnset(s, v) ==
    /\ Kind[s] = "unset" /\ v <= now
    /\ Operation(s, Min2(due[s], v))
    /\ IF ok_and_mark_if_unset(s) THEN Write(s, Earliest(s, setNow, store[s], v))
       ELSE Ignore(s) /\ UNCHANGED valid
    /\ UNCHANGED writable

ok_and_mark_if_write(s) == s \notin valid \/ s \in Now(setNow) \/ s \in writable

(* SOM_INTERNAL_LOC_SET_IF_WRITABLE, its reverse NFA form and               *)
(* SET_FROM_IF_WRITABLE: a write to a locked slot is stashed, in case its   *)
(* escape comes later at this offset.                                       *)
LocSetIfWritable(s, v) ==
    /\ Kind[s] = "writable" /\ v <= now
    /\ Operation(s, Min2(due[s], v))
    /\ IF ok_and_mark_if_write(s)
       THEN Write(s, Earliest(s, setNow, store[s], v)) /\ writable' = writable \ {s}
       ELSE Stash(s, Earliest(s, attempted, failed[s], v)) /\ UNCHANGED writable

(* SOM_INTERNAL_LOC_COPY: the last copy wins. *)
LocCopy(s) ==
    /\ Kind[s] = "copy" /\ From[s] \in valid
    /\ Operation(s, Resolved(From[s]).start)
    /\ Write(s, store[From[s]])
    /\ UNCHANGED writable

(* SOM_INTERNAL_LOC_COPY_IF_WRITABLE. *)
LocCopyIfWritable(s) ==
    /\ Kind[s] = "copyw" /\ From[s] \in valid
    /\ Operation(s, Resolved(From[s]).start)
    /\ IF ok_and_mark_if_write(s)
       THEN Write(s, store[From[s]]) /\ writable' = writable \ {s}
       ELSE Stash(s, store[From[s]]) /\ UNCHANGED writable

Escape(s) ==
    /\ Locks(s) /\ call = "scan" /\ now > offset
    /\ esc' = esc \cup {s}
    /\ UNCHANGED <<layout, offset, kept, call, now, end, base, due, valid>>

(* Mutant: stashed writes are forgotten. *)
LocMakeWritable_unstashed(s) ==
    /\ Escape(s)
    /\ Ignore(s) /\ writable' = IF s \in Now(setNow) THEN writable ELSE writable \cup {s}

(* SOM_INTERNAL_LOC_MAKE_WRITABLE: nothing if the slot was just written,    *)
(* else the stashed write, else the slot becomes writable.                  *)
LocMakeWritable(s) ==
    /\ Escape(s)
    /\ CASE s \in Now(setNow)    -> Ignore(s) /\ UNCHANGED writable
         [] s \notin Now(setNow) /\ s \in Now(attempted) ->
              /\ store' = [store EXCEPT ![s] = failed[s]]
              /\ setNow' = Now(setNow) \cup {s}
              /\ attempted' = Now(attempted) /\ setAt' = now
              /\ UNCHANGED <<failed, writable>>
         [] OTHER                -> Ignore(s) /\ writable' = writable \cup {s}

-----------------------------------------------------------------------------
(* Calls. *)

storeSomValue(v, at) == IF v = Past THEN Horizon ELSE Min2(at - v, Horizon)
loadSomValue(r, at) == IF r = Horizon THEN Past ELSE at - r

loadSomFromStream ==
    store' = [s \in Slots |-> IF s \in valid THEN loadSomValue(kept[s], offset) ELSE store[s]]

storeSomToStream(at) ==
    kept' = [s \in Slots |-> IF s \in valid THEN storeSomValue(store[s], at) ELSE kept[s]]

(* A write of len bytes, or the end of data. *)
Begin(kind, len) ==
    /\ call = "idle" /\ offset + len <= MaxOffset
    /\ call' = kind /\ now' = offset /\ end' = offset + len
    /\ setAt' = None
    /\ loadSomFromStream /\ NextOffset
    /\ UNCHANGED <<layout, offset, kept, slots, setNow, attempted, failed>>

(* The scan moves on. *)
Advance ==
    /\ call = "scan" /\ now < end
    /\ now' = now + 1 /\ NextOffset
    /\ UNCHANGED <<layout, offset, kept, slots, scratch, call, end>>

(* The end of a write; other streams may use the scratch before the next. *)
EndScan ==
    /\ call = "scan" /\ now = end
    /\ offset' = end /\ storeSomToStream(end)
    /\ store' = [s \in Slots |-> 0] /\ call' = "idle" /\ NextOffset
    /\ UNCHANGED <<layout, slots, setNow, attempted, failed, setAt, now, end>>

(* initSomState, for a stream reset after its end of data. *)
initSomState ==
    /\ call = "eod" /\ call' = "idle" /\ offset' = 0
    /\ valid' = {} /\ writable' = {}
    /\ base' = [s \in Slots |-> [valid |-> FALSE, writable |-> FALSE, start |-> 0]]
    /\ due' = [s \in Slots |-> None] /\ esc' = {}
    /\ UNCHANGED <<layout, kept, scratch, now, end>>

Init ==
    /\ layout \in Layouts
    /\ offset = 0 /\ kept = [s \in Slots |-> 0] /\ valid = {} /\ writable = {}
    /\ store = [s \in Slots |-> 0] /\ failed = [s \in Slots |-> 0]
    /\ setNow = {} /\ attempted = {} /\ setAt = None
    /\ call = "idle" /\ now = 0 /\ end = 0
    /\ base = [s \in Slots |-> [valid |-> FALSE, writable |-> FALSE, start |-> 0]]
    /\ due = [s \in Slots |-> None] /\ esc = {}

Next ==
    \/ \E s \in Slots, v \in Offsets : LocSet(s, v) \/ LocSetIfUnset(s, v) \/ LocSetIfWritable(s, v)
    \/ \E s \in Slots : LocCopy(s) \/ LocCopyIfWritable(s) \/ LocMakeWritable(s)
    \/ \E len \in 1 .. MaxOffset : Begin("scan", len)
    \/ Begin("eod", 0) \/ Advance \/ EndScan \/ initSomState

Spec == Init /\ [][Next]_vars

-----------------------------------------------------------------------------
(* x is the start v, or the sentinel when v is Horizon or more behind. *)
Tracks(x, v) == x = v \/ (x = Past /\ offset - v >= Horizon)

(* While a call runs, every slot holds what the operations so far resolve   *)
(* to, in whatever order they came at each offset: validity, lock, and the  *)
(* exact start unless it fell behind the horizon at a write boundary.       *)
SlotsResolved ==
    call # "idle" =>
        \A s \in Slots :
            /\ (s \in valid) = Resolved(s).valid
            /\ (s \in writable) = Resolved(s).writable
            /\ s \in valid => Tracks(store[s], Resolved(s).start)
=============================================================================
