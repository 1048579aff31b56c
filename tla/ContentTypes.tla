---------------------------- MODULE ContentTypes ----------------------------
(***************************************************************************)
(* The content-type builder: POST, PUT and DELETE /cms/content-types over  *)
(* the collections the whole CMS shares, the source files its writer       *)
(* keeps, the names routed while it runs and the GraphQL schema built     *)
(* from the collections, up to the restart that reads the files again.     *)
(*                                                                         *)
(* A definition is the collection a relation field leads to, which is what *)
(* the validation of a change is about, and the change that wrote it.      *)
(***************************************************************************)
EXTENDS Integers, FiniteSets

CONSTANTS
    Names,      \* the names a collection may have
    Admins,     \* changes in flight at one time
    MaxChanges, \* bound on the changes asked for
    Removable   \* whether the writer implements removeCollection

ASSUME ContentTypesAssumption == MaxChanges \in Nat /\ Removable \in BOOLEAN

NoName == "-"

Def(change, to) == [change |-> change, to |-> to]
Absent == Def(-1, NoName)

VARIABLES
    live,     \* ctx.collections
    file,     \* the source files of the schema
    routed,   \* the names with routes on the content sub-app
    graphql,  \* the collections of the schema GraphQL executes
    change,   \* what each administrator's request is doing
    changes,  \* changes asked for so far
    shared,   \* names two requests were changing at one time (history)
    gone,     \* names that went although a relation may lead there (history)
    renamed   \* names a rename left, whose files are still there (history)

typesVars == <<live, file, routed, graphql, change, changes, shared, gone, renamed>>

Request(pc, op, name, new, def, alone) ==
    [pc |-> pc, op |-> op, name |-> name, new |-> new, def |-> def, alone |-> alone]
NoRequest == Request("idle", "none", NoName, NoName, Absent, TRUE)

In(collections) == {n \in Names : collections[n] # Absent}

\* validateSchema: a relation leads to a collection of the schema.
RelationsLead(collections) ==
    \A n \in In(collections) : collections[n].to \in In(collections) \cup {NoName}

ContentTypesInit ==
    /\ \E first \in Names : live = [n \in Names |-> IF n = first THEN Def(0, NoName) ELSE Absent]
    /\ file = live
    /\ routed = In(live)
    /\ graphql = live
    /\ change = [a \in Admins |-> NoRequest]
    /\ changes = 0
    /\ shared = {}
    /\ gone = {}
    /\ renamed = {}

-----------------------------------------------------------------------------
(* A request, up to the call of the writer. *)

InFlight == {a \in Admins : change[a].pc # "idle"}
Touches(a) == {change[a].name, change[a].new}

Start(a, request) ==
    /\ changes < MaxChanges
    /\ changes' = changes + 1
    /\ change' = [b \in Admins |-> IF b = a THEN [request EXCEPT !.alone = InFlight = {}]
                                   ELSE [change[b] EXCEPT !.alone = FALSE]]
    /\ UNCHANGED <<live, file, routed, graphql, gone, renamed>>

Shares(names) == shared' = shared \cup UNION {names \cap Touches(b) : b \in InFlight}

\* PUT looks its collection up before it reads the body.
Finds(a, n) == /\ change[a].pc = "idle"
               /\ n \in In(live)
               /\ Start(a, Request("parse", "put", n, n, Absent, TRUE))
               /\ Shares({n})

\* The collections as they are to be.
Changed(collections, name, new, def) ==
    [n \in Names |-> CASE n = new -> def
                       [] n = name /\ n # new -> Absent
                       [] OTHER -> collections[n]]

\* The body of the PUT is there: checked against the collections of that moment.
Parses(a, new, to) ==
    LET name == change[a].name
        def == Def(changes, to)
    IN /\ change[a].pc = "parse"
       /\ IF (new = name \/ new \notin In(live)) /\ RelationsLead(Changed(live, name, new, def))
          THEN /\ change' = [change EXCEPT ![a] = [@ EXCEPT !.pc = "write", !.new = new, !.def = def]]
               /\ shared' = shared \cup UNION {{new} \cap Touches(b) : b \in InFlight \ {a}}
          ELSE /\ change' = [change EXCEPT ![a] = NoRequest]
               /\ UNCHANGED shared
       /\ UNCHANGED <<live, file, routed, graphql, changes, gone, renamed>>

Post(a, n, to) ==
    LET def == Def(changes, to)
    IN /\ change[a].pc = "idle"
       /\ n \notin In(live)
       /\ RelationsLead(Changed(live, n, n, def))
       /\ Start(a, Request("write", "post", n, n, def, TRUE))
       /\ Shares({n})

\* DELETE looks at nothing but the existence of its collection.
Remove(a, n) == /\ Removable
                /\ change[a].pc = "idle"
                /\ n \in In(live)
                /\ Start(a, Request("write", "delete", n, n, Absent, TRUE))
                /\ Shares({n})

-----------------------------------------------------------------------------
(* The writer (external) and what follows its call. *)

\* writeCollection writes the file of the new name, and removes no other.
Write(a) == /\ change[a].pc = "write"
            /\ file' = [file EXCEPT ![change[a].new] = change[a].def]
            /\ change' = [change EXCEPT ![a].pc = "apply"]
            /\ UNCHANGED <<live, routed, graphql, changes, shared, gone, renamed>>

WriteFails(a) == /\ change[a].pc = "write"
                 /\ change' = [change EXCEPT ![a] = NoRequest]
                 /\ UNCHANGED <<live, file, routed, graphql, changes, shared, gone, renamed>>

\* onCollectionChange: routes are added once, and for live collections only.
Register(n) == routed' = routed \cup ({n} \cap In(live'))

\* Mutant: the events come before the change of the map.
RebuildBefore == graphql' = IF RelationsLead(live) THEN live ELSE graphql

\* The listeners rebuild at once; a schema that cannot be built leaves the last one.
Rebuild == graphql' = IF RelationsLead(live') THEN live' ELSE graphql

\* From the change of the map to the events there is no await.
Apply(a) ==
    LET r == change[a]
    IN /\ r.pc = "apply"
       /\ live' = Changed(live, r.name, r.new, r.def)
       /\ Register(r.new)
       /\ Rebuild
       /\ gone' = gone \cup (IF r.op = "delete" \/ (r.new # r.name /\ ~r.alone) THEN {r.name} ELSE {})
       /\ shared' = IF r.alone THEN shared \ {r.new} ELSE shared \cup Touches(a)
       /\ change' = [change EXCEPT ![a] = NoRequest]
       /\ renamed' = (renamed \cup {r.name}) \ {r.new}
       /\ UNCHANGED <<file, changes>>

\* The process ends at any point and starts from the files: defineSchema throws on
\* a relation that leads nowhere, and the CMS does not start.
Restart == /\ RelationsLead(file)
           /\ live' = file
           /\ graphql' = file
           /\ routed' = In(file)
           /\ change' = [a \in Admins |-> NoRequest]
           /\ shared' = {}
           /\ renamed' = {}
           /\ UNCHANGED <<file, changes, gone>>

ContentTypesNext ==
    \/ Restart
    \/ \E a \in Admins :
          \/ Write(a) \/ WriteFails(a) \/ Apply(a)
          \/ \E n \in Names : Finds(a, n) \/ Remove(a, n)
          \/ \E n \in Names, to \in Names \cup {NoName} : Parses(a, n, to) \/ Post(a, n, to)

ContentTypesSpec == ContentTypesInit /\ [][ContentTypesNext]_typesVars

-----------------------------------------------------------------------------

\* Apart from the names a rename left, whose files stay, and from names two
\* requests were changing at one time, the files of a CMS at rest are its
\* collections: a restart brings back what was there.
FilesAreLive ==
    InFlight = {} => \A n \in Names \ (shared \cup renamed) : file[n] = live[n]

\* A relation leads nowhere only after a DELETE, which checks no relation, or
\* after changes that overlapped: each is validated before the call of the writer
\* and made after it (routes.ts).
OnlyRemovalBreaksTheSchema ==
    \A n \in In(live) : live[n].to \in In(live) \cup {NoName} \cup gone

\* Whatever overlaps or fails, GraphQL executes the collections as they are as
\* soon as they can be built, and each of them has its routes.
SurfacesFollow == /\ RelationsLead(live) => graphql = live
                  /\ In(live) \subseteq routed

\* The four forms of a collection (its file, the object in memory, the GraphQL
\* schema, its routes) agree, and changes that are valid, made one after the other,
\* never leave a relation without its target.
TypesAreSound == FilesAreLive /\ SurfacesFollow /\ OnlyRemovalBreaksTheSchema
=============================================================================
