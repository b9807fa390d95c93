-------------------------- MODULE MCDelayedLiterals --------------------------
(* TLC instances of DelayedLiterals: a ring of four slots. *)
EXTENDS DelayedLiterals, TLC

\* Two delayed literals, with the longest and the shortest delay.
Ring == [floating |-> {1, 2}, delay |-> 1 :> 3 @@ 2 :> 1, anchored |-> {},
         anchoredDistance |-> 0, floatMin |-> 1, maxDelayed |-> 100]

\* One delayed literal and two anchored ones; anchored matches up to offset 3
\* run at once, the delayed ones after offset 6 are not wanted.
Early == [floating |-> {1}, delay |-> 1 :> 3, anchored |-> {1, 2},
          anchoredDistance |-> 4, floatMin |-> 3, maxDelayed |-> 6]

\* Several anchored tables: matches come in any order, all by the log.
Logs == [Early EXCEPT !.floatMin = 1, !.anchored = {1}, !.anchoredDistance = 3]

AllTables == {Ring, Early, Logs}
=============================================================================
