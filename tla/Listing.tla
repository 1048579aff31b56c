------------------------------ MODULE Listing ------------------------------
(***************************************************************************)
(* What following the cursors of a list promises to a reader: rows come    *)
(* and go, and a walk that has ended returned every row that was stored    *)
(* from its beginning to its end.  How a page is found is left open.       *)
(***************************************************************************)
CONSTANT Ids

VARIABLES
    rows,       \* the rows stored
    phase,      \* "ready", "walking" or "done"
    due,        \* the rows stored ever since the walk began
    seen        \* the rows returned to the reader

vars == <<rows, phase, due, seen>>

Init == /\ rows = {}
        /\ phase = "ready"
        /\ due = {}
        /\ seen = {}

Add(r) == /\ rows' = rows \cup {r}
          /\ UNCHANGED <<phase, due, seen>>

Remove(r) == /\ rows' = rows \ {r}
             /\ due' = due \ {r}
             /\ UNCHANGED <<phase, seen>>

Begin == /\ phase = "ready"
         /\ phase' = "walking"
         /\ due' = rows
         /\ UNCHANGED <<rows, seen>>

\* A page holds stored rows, and the last one leaves no row out.
Page(items, last) == /\ phase = "walking"
                     /\ items \subseteq rows
                     /\ seen' = seen \cup items
                     /\ IF last THEN phase' = "done" /\ due \subseteq seen'
                                ELSE UNCHANGED phase
                     /\ UNCHANGED <<rows, due>>

Next == \/ \E r \in Ids : Add(r) \/ Remove(r)
        \/ Begin
        \/ \E items \in SUBSET Ids, last \in BOOLEAN : Page(items, last)

Spec == Init /\ [][Next]_vars
=============================================================================
