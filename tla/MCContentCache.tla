--------------------------- MODULE MCContentCache ---------------------------
(* Instances of ContentCache for TLC.                                      *)
EXTENDS ContentCache, TLC

Perms == Permutations(Readers) \cup Permutations(Writers) \cup Permutations(Ids)
=============================================================================
