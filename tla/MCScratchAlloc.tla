--------------------------- MODULE MCScratchAlloc ---------------------------
(* TLC instances of ScratchAlloc: bytecodes of the three modes, each the     *)
(* largest in some sizes and the smallest in others.                         *)
EXTENDS ScratchAlloc, TLC

Symmetric == Permutations(Scratches)

MCCodes == {"block", "vector", "stream"}
MCLength == "block" :> 640 @@ "vector" :> 100 @@ "stream" :> 64

MCEngine ==
    "block" :> [mode |-> "block", stateEnd |-> 70, anchoredDistance |-> 5, anchored |-> 3,
                delay |-> 300, handled |-> 2, tState |-> 9, som |-> 0, queues |-> 2,
                fullState |-> 100, dkeys |-> 5000]
    @@ "vector" :> [mode |-> "vectored", stateEnd |-> 33, anchoredDistance |-> 0,
                anchored |-> 0, delay |-> 0, handled |-> 700, tState |-> 0, som |-> 3,
                queues |-> 5, fullState |-> 8, dkeys |-> 0]
    @@ "stream" :> [mode |-> "stream", stateEnd |-> 500, anchoredDistance |-> 63,
                anchored |-> 257, delay |-> 1, handled |-> 0, tState |-> 1, som |-> 0,
                queues |-> 1, fullState |-> 1, dkeys |-> 260]
=============================================================================
