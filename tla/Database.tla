------------------------------ MODULE Database ------------------------------
(***************************************************************************)
(* Databases in memory and serialized: hs_serialize_database,              *)
(* hs_deserialize_database, hs_deserialize_database_at, hs_free_database.  *)
(*                                                                         *)
(* Bytecode is an opaque value, and crc32 tells apart the bytecodes that   *)
(* occur, damaged ones included.  Memory is a set of blocks; an allocator  *)
(* may fail, or return a block that is not aligned to 8 bytes, and where a *)
(* block lies modulo 64 is kept with what it holds.                        *)
(***************************************************************************)
EXTENDS Integers, FiniteSets

CONSTANTS
    Codes,        \* compiled bytecodes
    Length,       \* Length[c]: size of a bytecode in bytes
    DbHandles,    \* the application's hs_database_t pointers
    Blobs,        \* the application's pointers to serialized databases
    DamagedFields,\* the fields of a serialized database that storage may damage
    Addrs,        \* addresses modulo 64 that an allocation can have
    MaxBlocks     \* bound: blocks in use at once

NoMem == -1               \* an allocation that fails
None == [kind |-> "none"] \* a null pointer of the application
Broken == "damaged"       \* bytecode that was damaged
NoCrc == "no crc"         \* a damaged checksum
Damaged == [magic |-> FALSE, version |-> FALSE, platform |-> FALSE,
            code |-> Broken, crc |-> NoCrc, size |-> 0]

ASSUME DatabaseAssumption ==
    /\ Addrs \subseteq 0 .. 63 /\ MaxBlocks \in Nat
    /\ \A c \in Codes : Length[c] \in Nat \ {0}
    /\ DamagedFields \subseteq DOMAIN Damaged
    /\ Broken \notin Codes /\ NoCrc \notin Codes

VARIABLES
    heap,   \* [live: blocks in use, fault: a free of a block that is not live]
    dbs,    \* what each handle points to
    blobs   \* what each serialized database holds

dvars == <<heap, dbs, blobs>>

OffsetOfBytes == 104      \* offsetof(struct hs_database, bytes), and its size
PaddingAt == 40           \* offsetof(struct hs_database, padding)

RoundUp(n, k) == ((n + k - 1) \div k) * k
-----------------------------------------------------------------------------
(* The allocators. *)

Blocks == 1 .. MaxBlocks
FreshBlock(hp) == CHOOSE b \in Blocks : b \notin hp.live
Malloc(hp, a) == IF a = NoMem THEN hp ELSE [hp EXCEPT !.live = @ \cup {FreshBlock(hp)}]

FreeBlock(hp, b) ==
    IF b \in hp.live
    THEN [hp EXCEPT !.live = @ \ {b}]
    ELSE [hp EXCEPT !.fault = TRUE]

hs_check_alloc(a) == a # NoMem /\ a % 8 = 0

\* The block just allocated with the result a is given back; free(NULL) is allowed.
Undo(hp, b, a) == IF a = NoMem THEN hp ELSE FreeBlock(hp, b)
-----------------------------------------------------------------------------
(* Database headers. *)

Shift(a) == (a + OffsetOfBytes) % 64

\* Mutant: the bytecode moves up to the next cache line.
BytecodeAt_up(a) == OffsetOfBytes + ((64 - Shift(a)) % 64)

\* db_copy_bytecode: the offset in the database at a at which its bytecode is
\* put, on a cache line of its own.
BytecodeAt(a) == OffsetOfBytes - Shift(a)

Crc32c(code) == code

\* dbCreate: a compiled database at address a of block b.
Compiled(b, c, a) ==
    [kind |-> "db", block |-> b, addr |-> a, magic |-> TRUE, version |-> TRUE,
     platform |-> TRUE, length |-> Length[c], crc |-> Crc32c(c), code |-> c,
     bytecode |-> BytecodeAt(a), origin |-> c]

\* validDatabase.
validDatabase(d) == d.magic /\ d.version

\* db_decode_header and db_check_platform for a blob s.
HeaderDecodes(s) == s.magic /\ s.version /\ s.size = OffsetOfBytes + s.length /\ s.platform

\* The header and bytecode of the blob s, copied to a database at address a.
Decoded(s, b, a) ==
    [kind |-> "db", block |-> b, addr |-> a, magic |-> s.magic, version |-> s.version,
     platform |-> s.platform, length |-> s.length, crc |-> s.crc, code |-> s.code,
     bytecode |-> BytecodeAt(a), origin |-> s.origin]

db_check_crc(d) == Crc32c(d.code) = d.crc

\* Mutant: the bytecode is not checked.
dbIsValid_nocrc(d) ==
    d.magic /\ d.version /\ d.platform /\ (d.addr + d.bytecode) % 16 = 0

dbIsValid(d) ==
    /\ d.magic /\ d.version /\ d.platform
    /\ (d.addr + d.bytecode) % 16 = 0
    /\ db_check_crc(d)
-----------------------------------------------------------------------------
Results == Addrs \cup {NoMem}
HasRoom(n) == Cardinality(heap.live) + n <= MaxBlocks

DInit ==
    /\ heap = [live |-> {}, fault |-> FALSE]
    /\ dbs = [h \in DbHandles |-> None]
    /\ blobs = [b \in Blobs |-> None]

\* hs_compile ends in dbCreate; without memory for it the compilation fails.
Compile(h, c, a) ==
    /\ dbs[h] = None /\ HasRoom(1)
    /\ LET b == FreshBlock(heap) IN
       IF hs_check_alloc(a)
       THEN heap' = Malloc(heap, a) /\ dbs' = [dbs EXCEPT ![h] = Compiled(b, c, a)]
       ELSE heap' = Undo(Malloc(heap, a), b, a) /\ UNCHANGED dbs
    /\ UNCHANGED blobs

hs_free_database(h) ==
    /\ dbs[h] # None /\ dbs[h].magic
    /\ heap' = FreeBlock(heap, dbs[h].block)
    /\ dbs' = [dbs EXCEPT ![h] = None]
    /\ UNCHANGED blobs

\* The bytecode is copied with the crc of the header, whether they agree or not.
hs_serialize_database(h, s, a) ==
    /\ dbs[h] # None /\ blobs[s] = None /\ HasRoom(1)
    /\ LET b == FreshBlock(heap) d == dbs[h] IN
       IF validDatabase(d) /\ hs_check_alloc(a)
       THEN /\ heap' = Malloc(heap, a)
            /\ blobs' = [blobs EXCEPT ![s] =
                   [kind |-> "blob", block |-> b, magic |-> d.magic, version |-> d.version,
                    platform |-> d.platform, length |-> d.length, crc |-> d.crc,
                    code |-> d.code, size |-> OffsetOfBytes + d.length, origin |-> d.origin]]
       ELSE /\ heap' = IF validDatabase(d) THEN Undo(Malloc(heap, a), b, a) ELSE heap
            /\ UNCHANGED blobs
    /\ UNCHANGED dbs

hs_deserialize_database(s, h, a) ==
    /\ blobs[s] # None /\ dbs[h] = None /\ HasRoom(1)
    /\ LET b == FreshBlock(heap)
           m == Malloc(heap, a)
           d == Decoded(blobs[s], b, a)
       IN IF ~HeaderDecodes(blobs[s]) THEN UNCHANGED <<heap, dbs>>
          ELSE IF ~hs_check_alloc(a) THEN heap' = Undo(m, b, a) /\ UNCHANGED dbs
          ELSE IF ~db_check_crc(d) THEN heap' = FreeBlock(m, b) /\ UNCHANGED dbs
          ELSE heap' = m /\ dbs' = [dbs EXCEPT ![h] = d]
    /\ UNCHANGED blobs

\* The application provides the memory, and frees it.  When the bytecode is
\* damaged the call fails after it has filled the memory, which the application
\* still has.
hs_deserialize_database_at(s, h, a) ==
    /\ blobs[s] # None /\ dbs[h] = None /\ HasRoom(1) /\ a \in Addrs
    /\ IF a % 8 = 0 /\ HeaderDecodes(blobs[s])
       THEN /\ heap' = Malloc(heap, a)
            /\ dbs' = [dbs EXCEPT ![h] = Decoded(blobs[s], FreshBlock(heap), a)]
       ELSE UNCHANGED <<heap, dbs>>
    /\ UNCHANGED blobs

Intact(s) == HeaderDecodes(s) /\ Crc32c(s.code) = s.crc

\* The application frees a serialized database.
FreeBlob(s) ==
    /\ blobs[s] # None
    /\ heap' = FreeBlock(heap, blobs[s].block)
    /\ blobs' = [blobs EXCEPT ![s] = None]
    /\ UNCHANGED dbs

\* What was stored comes back with one of its fields damaged.
Damage(s, f) ==
    /\ blobs[s] # None /\ Intact(blobs[s])
    /\ blobs' = [blobs EXCEPT ![s] = [@ EXCEPT ![f] = Damaged[f]]]
    /\ UNCHANGED <<heap, dbs>>

DNext ==
    \/ \E h \in DbHandles : hs_free_database(h)
    \/ \E h \in DbHandles, c \in Codes, a \in Results : Compile(h, c, a)
    \/ \E h \in DbHandles, s \in Blobs, a \in Results :
          hs_serialize_database(h, s, a) \/ hs_deserialize_database(s, h, a)
          \/ hs_deserialize_database_at(s, h, a)
    \/ \E s \in Blobs : FreeBlob(s)
    \/ \E s \in Blobs, f \in DamagedFields : Damage(s, f)
-----------------------------------------------------------------------------
(* Properties. *)

\* A database that hs_alloc_scratch accepts has the bytecode that was compiled,
\* however it was stored and loaded (hs_serialize_database, dbIsValid).
AcceptedIsCompiled ==
    \A h \in DbHandles : dbs[h] # None /\ dbIsValid(dbs[h]) => dbs[h].code = dbs[h].origin

\* Wherever a database lies, its bytecode starts on a cache line, behind the
\* fields of the header and inside the database's memory (db_copy_bytecode).
BytecodePlaced ==
    \A h \in DbHandles : dbs[h] # None =>
        LET d == dbs[h] IN
        /\ (d.addr + d.bytecode) % 64 = 0
        /\ d.bytecode >= PaddingAt
        /\ d.bytecode + d.length <= OffsetOfBytes + d.length
=============================================================================
