----------------------------- MODULE MCContent -----------------------------
(* The content API: its cache, what is told of the writes behind it, and    *)
(* the workspace of the admin in front of it.                               *)
(* They are looked at one at a time: `part' says which one moves.           *)
EXTENDS MCContentCache, ContentWrites, AdminContent

VARIABLE part

MCInit == /\ Init /\ ContentWritesInit /\ AdminContentInit
          /\ part \in {"cache", "writes", "admin"}
          /\ part # "cache" => live = Ids

MCNext == \/ part = "cache" /\ Next /\ UNCHANGED <<writesVars, adminVars, part>>
          \/ part = "writes" /\ ContentWritesNext /\ UNCHANGED <<vars, adminVars, part>>
          \/ part = "admin" /\ AdminContentNext /\ UNCHANGED <<vars, writesVars, part>>

MCSpec == MCInit /\ [][MCNext]_<<vars, writesVars, adminVars, part>>
=============================================================================
