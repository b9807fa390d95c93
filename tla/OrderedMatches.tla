--------------------------- MODULE OrderedMatches ----------------------------
(***************************************************************************)
(* What the Rose runtime promises its caller about the order of matches,   *)
(* whatever engines find them.                                             *)
(*                                                                         *)
(* due is the set of matches <<source, offset>> that the bytes scanned so  *)
(* far contain, out the sequence of those delivered.  The matches that are *)
(* learned later lie at or after the last one delivered, and a match is    *)
(* delivered once, after every due match with a smaller offset.            *)
(***************************************************************************)
EXTENDS Integers, Sequences

VARIABLES due, out, stopped

ovars == <<due, out, stopped>>

OInit == due = {} /\ out = <<>> /\ stopped = FALSE

\* The scan goes on: it reads bytes, or a literal triggers an engine.  What is
\* learned lies at or after every match delivered by then.
Learn ==
    /\ due \subseteq due'
    /\ \A m \in due' \ due, i \in DOMAIN out' : out'[i][2] <= m[2]

\* Matches are delivered, each the least one left; the caller may stop the
\* scan at the last of them.
Deliver ==
    /\ Len(out') >= Len(out) /\ SubSeq(out', 1, Len(out)) = out
    /\ \A i \in (Len(out) + 1) .. Len(out') :
          LET left == due' \ {out'[j] : j \in 1 .. (i - 1)}
          IN out'[i] \in left /\ \A m \in left : out'[i][2] <= m[2]
    /\ stopped' => stopped \/ out' # out

ONext == ~stopped /\ Learn /\ Deliver

OSpec == OInit /\ [][ONext]_ovars
=============================================================================
