--------------------------- MODULE ContentWrites ---------------------------
(***************************************************************************)
(* The ways a document is written - the content REST routes, the GraphQL   *)
(* mutations and the routes the content-type builder mounts - with the     *)
(* lifecycle hooks and the content events on the way, and the audit log    *)
(* that is written from the events.                                        *)
(*                                                                         *)
(* One document: what it contains is the number of its last write, a       *)
(* deletion included; 0 stands for no record.  Every way is a sequence of  *)
(* steps with an `await' between two of them.                              *)
(***************************************************************************)
EXTENDS Integers, Sequences, FiniteSets

CONSTANTS
    Authors,    \* requests in flight at one time
    MaxWrites,  \* bound on the requests made
    Surfaces    \* the ways in, of {"rest", "graphql", "builder"}

ASSUME ContentWritesAssumption ==
    MaxWrites \in Nat /\ Surfaces \subseteq {"rest", "graphql", "builder"}

VARIABLES
    document, \* the content of the document, 0 if there is none
    written,  \* writes made so far
    author,   \* what each request is doing
    asked,    \* requests made so far
    trail,    \* the audit log, in the order of its entries
    untold    \* writes no entry will tell of (history)

writesVars == <<document, written, author, asked, trail, untold>>

Asking(surface, op, todo) ==
    [surface |-> surface, op |-> op, todo |-> todo,
     before |-> 0, wrote |-> 0, hooked |-> FALSE, alone |-> TRUE]
NotAsking == Asking("none", "none", <<>>)

ContentWritesInit == /\ document = 0
                     /\ written = 0
                     /\ author = [a \in Authors |-> NotAsking]
                     /\ asked = 0
                     /\ trail = <<>>
                     /\ untold = {}

-----------------------------------------------------------------------------
(* The steps of each way. *)

BuilderSteps(op) == <<"db">>

\* Mutant: a handler without its event.
RestStepsSilent(op) == IF op = "create" THEN <<"db", "emit">> ELSE <<"get", "db">>
RestSteps(op) == IF op = "create" THEN <<"db", "emit">> ELSE <<"get", "db", "emit">>

GraphqlSteps(op) == CASE op = "create" -> <<"hook", "db", "after", "emit">>
                      [] op \in {"update", "delete"} -> <<"get", "hook", "db", "after", "emit">>
                      [] op \in {"publish", "unpublish"} -> <<"db", "emit">>

Steps(surface, op) == CASE surface = "rest" -> RestSteps(op)
                        [] surface = "graphql" -> GraphqlSteps(op)
                        [] surface = "builder" -> BuilderSteps(op)

Offers(surface) == {"create", "update", "delete"} \cup
                   (IF surface = "graphql" THEN {"publish", "unpublish"} ELSE {})

Busy == {a \in Authors : author[a].todo # <<>>}

\* The document is created once: another create is another document.
Begin(a) ==
    /\ author[a].todo = <<>>
    /\ asked < MaxWrites
    /\ asked' = asked + 1
    /\ \E surface \in Surfaces, op \in {"create", "update", "delete", "publish", "unpublish"} :
          /\ op \in Offers(surface)
          /\ (op = "create") = (asked = 0)
          /\ author' = [b \in Authors |->
                IF b = a THEN [Asking(surface, op, Steps(surface, op)) EXCEPT !.alone = Busy = {}]
                ELSE [author[b] EXCEPT !.alone = FALSE]]
    /\ UNCHANGED <<document, written, trail, untold>>

Doing(a, step) == author[a].todo # <<>> /\ Head(author[a].todo) = step

GoesOn(a, changed) == author' = [author EXCEPT ![a] = [changed EXCEPT !.todo = Tail(@)]]

\* The request ends; a write it made and did not announce stays untold.
Ends(a) == /\ author' = [author EXCEPT ![a] = NotAsking]
           /\ untold' = untold \cup ({author[a].wrote} \ {0})

\* REST answers 404 to the update of a missing document, the others go on.
Get(a) == /\ Doing(a, "get")
          /\ \/ /\ document # 0 \/ author[a].op = "delete" \/ author[a].surface = "graphql"
                /\ GoesOn(a, [author[a] EXCEPT !.before = document])
                /\ UNCHANGED untold
             \/ /\ document = 0 /\ author[a].op = "update" /\ author[a].surface = "rest"
                /\ Ends(a)
          /\ UNCHANGED <<document, written, asked, trail>>

BeforeHook(a) == /\ Doing(a, "hook")
                 /\ \/ GoesOn(a, [author[a] EXCEPT !.hooked = TRUE]) /\ UNCHANGED untold
                    \/ Ends(a)
                 /\ UNCHANGED <<document, written, asked, trail>>

\* A delete of a missing document succeeds and writes nothing; the other
\* operations throw.
WriteDocument(a) ==
    LET r == author[a]
        last == Len(r.todo) = 1
    IN /\ Doing(a, "db")
       /\ IF document # 0 \/ r.op = "create"
          THEN /\ written' = written + 1
               /\ document' = IF r.op = "delete" THEN 0 ELSE written'
               /\ IF last THEN /\ author' = [author EXCEPT ![a] = NotAsking]
                               /\ untold' = untold \cup {n \in {written'} : r.surface = "builder"}
                  ELSE GoesOn(a, [r EXCEPT !.wrote = written']) /\ UNCHANGED untold
          ELSE /\ IF r.op = "delete" /\ ~last THEN GoesOn(a, r) /\ UNCHANGED untold ELSE Ends(a)
               /\ UNCHANGED <<document, written>>
       /\ UNCHANGED <<asked, trail>>

\* An after hook that throws fails the mutation, which is done.
AfterHook(a) == /\ Doing(a, "after")
                /\ \/ GoesOn(a, author[a]) /\ UNCHANGED untold
                   \/ Ends(a)
                /\ UNCHANGED <<document, written, asked, trail>>

\* What the recorder makes of an event; unpublish tells the record it left.
Entry(r) == [op |-> r.op, surface |-> r.surface, wrote |-> r.wrote, alone |-> r.alone,
             before |-> CASE r.op \in {"update", "delete"} -> r.before
                          [] r.op = "unpublish" -> r.wrote
                          [] OTHER -> 0,
             after |-> IF r.op \in {"create", "update", "publish"} THEN r.wrote ELSE 0]

\* GraphQL is silent about the delete of what it did not find.
Announces(r) == ~(r.op = "delete" /\ r.surface = "graphql" /\ r.before = 0)

\* The entry is dated when the event is emitted; an append that fails is
\* swallowed, and the entry lost.
EmitEvent(a) == /\ Doing(a, "emit")
            /\ author' = [author EXCEPT ![a] = NotAsking]
            /\ \/ /\ Announces(author[a])
                  /\ trail' = Append(trail, Entry(author[a]))
                  /\ UNCHANGED untold
               \/ /\ untold' = untold \cup ({author[a].wrote} \ {0})
                  /\ UNCHANGED trail
            /\ UNCHANGED <<document, written, asked>>

\* The database throws, or the process dies and the client sees the error.
Dies(a) == /\ author[a].todo # <<>>
           /\ Ends(a)
           /\ UNCHANGED <<document, written, asked, trail>>

ContentWritesNext ==
    \E a \in Authors : \/ Begin(a) \/ Get(a)
                       \/ BeforeHook(a) \/ WriteDocument(a) \/ AfterHook(a)
                       \/ EmitEvent(a) \/ Dies(a)

ContentWritesSpec == ContentWritesInit /\ [][ContentWritesNext]_writesVars

-----------------------------------------------------------------------------

TrailEntries == {trail[i] : i \in DOMAIN trail}

\* Every write is told by the audit log, or is about to be, or one of the ways a
\* write stays untold was taken: the builder's routes, an after hook that throws, a
\* store that fails, a request that dies.
EveryWriteIsTold ==
    1..written \subseteq {e.wrote : e \in TrailEntries} \cup untold
                           \cup {author[a].wrote : a \in Authors}

\* The diff of an update or a delete is what that request changed, unless another
\* was in flight: `before' is read before the hooks and the write.
DiffIsTheAuthorsOwn ==
    \A e \in TrailEntries : e.op \in {"update", "delete"} /\ e.wrote # 0 /\ e.alone =>
        e.before = e.wrote - 1

\* A deletion that deleted nothing is announced by REST, and else in a race only.
GhostsAreRestDeletes ==
    \A e \in TrailEntries : e.wrote = 0 => e.op = "delete" /\ (e.surface = "rest" \/ ~e.alone)

\* The audit log tells all of the writes, each as its author made it, and no other.
TrailIsTrue == EveryWriteIsTold /\ DiffIsTheAuthorsOwn /\ GhostsAreRestDeletes
=============================================================================
