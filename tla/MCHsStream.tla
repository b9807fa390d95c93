------------------------------ MODULE MCHsStream ------------------------------
(* TLC instances of HsStream. *)
EXTENDS HsStream, TLC

StateCalls == {"open", "scan", "reset", "copyTo", "compress", "expand", "expandTo"}
NestingCalls == {"open", "scan", "close", "reset", "copy", "copyTo", "vector", "block"}
StreamCalls == AllCalls \ {"block"}
BlockCalls == {"block", "vector"}
Handles == Permutations(Streams) \cup Permutations(Scratches)
Symmetric == Permutations(Streams) \cup Permutations(Bytes)
=============================================================================
