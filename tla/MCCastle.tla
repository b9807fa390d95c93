----------------------------- MODULE MCCastle -----------------------------
(***************************************************************************)
(* Castles of one repeat of each model, with and without escapes, and of   *)
(* several repeats.                                                        *)
(***************************************************************************)
EXTENDS Castle

One(type, min, max, period, class, reset, m, bound) ==
    [subs |-> <<RepeatStateInfo(type, min, max, period)>>, group |-> <<0>>,
     class |-> class, reset |-> reset, modes |-> {m}, bound |-> bound]

\* Every byte is in the class: long streams, many tops
Dot(type, min, max, period, m, bound) ==
    One(type, min, max, period, FALSE, {}, m, bound)

\* A leftfix with escapes
Left(type, min, max, period, bound) == One(type, min, max, period, TRUE, {}, "QR", bound)

\* Several repeats; group 0: not exclusive
Many(subs, group, reset, m, bound) ==
    [subs |-> subs, group |-> group, class |-> TRUE, reset |-> reset, modes |-> {m},
     bound |-> bound]

Info(type, min, max) == RepeatStateInfo(type, min, max, 0)

MCCastles == {
    Dot("FIRST", 2, REPEAT_INF, 0, "Q2", 8), Dot("RING", 2, 4, 0, "Q", 9),
    Dot("RANGE", 2, 3, 0, "Q2", 9), Dot("BITMAP", 2, 4, 0, "Q", 9),
    Dot("TRAILER", 3, 5, 0, "Q2", 9), Dot("SPARSE", 3, 5, 2, "Q", 12),
    Dot("SPARSE", 2, 3, 4, "Q2", 12),
    Left("LAST", 0, 2, 0, 5), Left("ALWAYS", 0, REPEAT_INF, 0, 4),
    Left("TRAILER", 2, 3, 0, 5), Left("RING", 1, 2, 0, 5),
    Many(<<Info("LAST", 2, 3)>>, <<0>>, {1}, "Q", 6),
    Many(<<Info("FIRST", 2, REPEAT_INF), Info("BITMAP", 1, 2)>>, <<0, 0>>, {}, "Q", 4),
    Many(<<Info("BITMAP", 1, 2), Info("BITMAP", 2, 3), Info("FIRST", 1, REPEAT_INF)>>,
         <<1, 1, 0>>, {}, "Q2", 4),
    Many(<<Info("BITMAP", 1, 2), Info("TRAILER", 2, 2)>>, <<1, 1>>, {}, "QR", 4) }

MCWriteSizes == {1, 2}
=============================================================================
