------------------------------ MODULE MCMedia ------------------------------
(* Instances of Media: many folders, or many requests, or some of both. *)
EXTENDS Media, TLC

CONSTANTS f1, f2, f3, r1, r2, r3

MCFolders == {f1, f2, f3}
MCRequests == {r1, r2, r3}

Quota(fs, rs, ds) == [folders |-> fs, requests |-> rs, records |-> ds]

MCQuotas == {Quota({f1, f2, f3}, {r1}, {}),
             Quota({f1, f2}, {r1, r2}, {}),
             Quota({}, {r1, r2}, {1, 2}),
             Quota({}, {r1, r2, r3}, {})}

Symmetry == Permutations(MCFolders) \cup Permutations(MCRequests)
=============================================================================
