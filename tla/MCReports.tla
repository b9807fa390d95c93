------------------------------ MODULE MCReports ------------------------------
(* TLC instances of Reports. *)
EXTENDS Reports

\* A stream with start of match, one in which every report is single-match,
\* one that mixes them, and blocks.
AllKinds ==
    {[plain |-> {1}, som |-> {2}, single |-> {}, block |-> FALSE],
     [plain |-> {1, 2}, som |-> {}, single |-> {1, 2}, block |-> FALSE],
     [plain |-> {1, 2}, som |-> {}, single |-> {1}, block |-> FALSE],
     [plain |-> {1}, som |-> {2}, single |-> {1}, block |-> TRUE]}
=============================================================================
