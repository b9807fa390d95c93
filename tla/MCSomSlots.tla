----------------------------- MODULE MCSomSlots -----------------------------
(* TLC instances of SomSlots. *)
EXTENDS SomSlots, TLC

Two == {1, 2}

\* Two slots, the second copied from the first: each kind of operation with
\* and without locks.
Pairs == {[kind |-> 1 :> first @@ 2 :> second, from |-> 1 :> 1 @@ 2 :> 1] :
            <<first, second>> \in {<<"writable", "copyw">>, <<"set", "copyw">>,
                                  <<"unset", "copy">>}}
=============================================================================
