----------------------------- MODULE MCWebhooks -----------------------------
(* Instances of Webhooks for TLC.                                          *)
EXTENDS Webhooks, TLC

Perms == Permutations(Jobs) \cup Permutations(Workers) \cup Permutations(Sweeps)
=============================================================================
