------------------------------ MODULE MCCatchUp ------------------------------
(* TLC instances of CatchUp. *)
EXTENDS CatchUp, TLC

Rep(lo, hi) == [lo |-> lo, hi |-> hi]

\* An outfix and two suffixes, no MPV; the queues hold four events.
Plain == [begin |-> 0, end |-> 1, count |-> 3, mqe |-> 4, block |-> FALSE,
          rep |-> 0 :> Rep(2, 3) @@ 1 :> Rep(1, 2) @@ 2 :> Rep(2, 2),
          chained |-> {}, exhaustible |-> {}, once |-> {}, bad |-> {}, puff |-> 0]

\* An MPV triggered by literals and by the outfix, and a suffix.
Chain == [begin |-> 1, end |-> 2, count |-> 3, mqe |-> 3, block |-> FALSE,
          rep |-> 1 :> Rep(1, 3) @@ 2 :> Rep(1, 2),
          chained |-> {1}, exhaustible |-> {}, once |-> {}, bad |-> {2}, puff |-> 2]

\* The MPV is triggered by literals only (mpvTriggeredByLeaf is unset).
LitChain == [Chain EXCEPT !.chained = {}, !.bad = {1, 4}, !.rep = 1 :> Rep(3, 3) @@ 2 :> Rep(1, 2)]

\* An MPV triggered by literals and by a suffix; the other suffix has an
\* exhaustible report and is never triggered again while it is active.
Exhaust == [begin |-> 1, end |-> 2, count |-> 4, mqe |-> 4, block |-> FALSE,
            rep |-> 1 :> Rep(2, 4) @@ 2 :> Rep(1, 2) @@ 3 :> Rep(2, 0),
            chained |-> {2}, exhaustible |-> {3}, once |-> {3}, bad |-> {}, puff |-> 2]

\* The same in block mode, with an exhaustible outfix.
Block == [Exhaust EXCEPT !.block = TRUE, !.exhaustible = {1}, !.once = {}]

AllDatabases == {Plain, Chain, LitChain, Exhaust, Block}
=============================================================================
