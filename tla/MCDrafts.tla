------------------------------ MODULE MCDrafts ------------------------------
(* Instances of Drafts for TLC.                                            *)
EXTENDS Drafts, TLC

Perms == Permutations(Requests) \cup Permutations(Ticks)
=============================================================================
