--------------------------- MODULE MCLogicalComb ---------------------------
(* TLC instances of LogicalComb. *)
EXTENDS LogicalComb, TLC

CONSTANTS s1, s2   \* model values: the streams

\* Combination 1 is 1 & !2 from offset 2 on, combination 2 is !1 | 2.
TwoSubs == {1, 2}
Tree == 3 :> [op |-> "NOT", lo |-> 2, ro |-> 2] @@ 4 :> [op |-> "AND", lo |-> 1, ro |-> 3]
     @@ 5 :> [op |-> "NOT", lo |-> 1, ro |-> 1] @@ 6 :> [op |-> "OR", lo |-> 5, ro |-> 2]
TwoCombs == {1, 2}
Infos == 1 :> [start |-> 3, result |-> 4, min |-> 2, max |-> MaxOffset]
      @@ 2 :> [start |-> 5, result |-> 6, min |-> 0, max |-> MaxOffset]
OneSingle == {2}
Lengths == s1 :> MaxOffset @@ s2 :> MaxOffset - 1

Engine(impl, eodWork, boundary, dies, streams) ==
    [impl |-> impl, eodWork |-> eodWork, boundary |-> boundary, dies |-> dies,
     streams |-> streams]

\* Each runtime with a scratch of its own, and the full runtime with a shared
\* scratch and engines that run at end of data.
SoundEngines ==
    {Engine("FULL_ROSE", TRUE, TRUE, FALSE, {s1}),
     Engine("FULL_ROSE", FALSE, FALSE, TRUE, {s1}),
     Engine("PURE_LITERAL", FALSE, FALSE, FALSE, {s1}),
     Engine("SINGLE_OUTFIX", TRUE, FALSE, TRUE, {s1}),
     Engine("FULL_ROSE", TRUE, FALSE, FALSE, {s1, s2})}
SharedEngines == {Engine("PURE_LITERAL", FALSE, FALSE, FALSE, {s1, s2}),
                  Engine("FULL_ROSE", FALSE, FALSE, FALSE, {s1, s2})}
DyingEngines == {Engine("FULL_ROSE", TRUE, FALSE, TRUE, {s1}),
                 Engine("SINGLE_OUTFIX", TRUE, FALSE, TRUE, {s1})}
=============================================================================
