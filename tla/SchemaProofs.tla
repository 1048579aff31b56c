---------------------------- MODULE SchemaProofs ----------------------------
(***************************************************************************)
(* Proofs about the schema's way: the forms of a content type agree while  *)
(* administrators change it, applies of the schema take turns and leave a  *)
(* sound history, a join table holds what the finished writes said,        *)
(* the development server keeps up with the files it watches, the adapters *)
(* differ in what they list only as named, and populating relations holds  *)
(* its limits.                                                             *)
(***************************************************************************)
EXTENDS ContentTypes, SchemaApply, JoinTables, DevServer, Filters, Populate, FiniteSetTheorems, TLAPS

-----------------------------------------------------------------------------
(* Content types: what is in flight. *)

Defs == [change : Int, to : Names \cup {NoName}]
MaybeNames == Names \cup {NoName}
Requests == [pc : {"idle", "parse", "write", "apply"}, op : {"none", "put", "post", "delete"},
             name : MaybeNames, new : MaybeNames, def : Defs, alone : BOOLEAN]

TypesTypeOK == /\ live \in [Names -> Defs]
               /\ file \in [Names -> Defs]
               /\ change \in [Admins -> Requests]
               /\ changes \in Nat
               /\ \A a \in InFlight : change[a].name \in Names /\ change[a].new \in Names

\* A request that was alone all the time is the only one.
AloneIsOnly == \A a \in InFlight : change[a].alone => InFlight = {a}

\* Names that two requests are changing are known to be shared.
SharedIsKnown == \A a, b \in InFlight : a # b => Touches(a) \cap Touches(b) \subseteq shared

\* A file that differs from the live collection is one whose change is half done.
FileWaitsForApply ==
    \A n \in Names \ (shared \cup renamed) :
        file[n] = live[n] \/ \E a \in InFlight : change[a].pc = "apply" /\ change[a].new = n

\* What is about to be applied is in the file, unless another wrote there.
FileIsWritten ==
    \A a \in InFlight : change[a].pc = "apply" /\ (change[a].alone \/ change[a].new \notin shared)
                           => file[change[a].new] = change[a].def

\* A definition that was accepted leads to a collection that is still there, or that went.
AcceptedLeads ==
    \A a \in InFlight :
        LET r == change[a]
        IN  r.pc \in {"write", "apply"} /\ r.op # "delete" =>
                /\ r.def # Absent
                /\ r.def.to \in {NoName, r.new} \cup gone \cup (In(live) \ {r.name})

\* What a request found valid stays valid as long as it is alone.
AloneStaysValid ==
    \A a \in InFlight :
        LET r == change[a]
        IN  r.pc \in {"write", "apply"} /\ r.op # "delete" /\ r.alone =>
                RelationsLead(Changed(live, r.name, r.new, r.def))

\* A DELETE has no definition and no other name; what a PUT is to write comes with its body.
RequestsAreWhole ==
    \A a \in InFlight :
        /\ change[a].op = "delete" => change[a].new = change[a].name /\ change[a].def = Absent
        /\ change[a].pc = "parse" => change[a].op = "put" /\ change[a].new = change[a].name

TypesInv == /\ TypesTypeOK /\ AloneIsOnly /\ SharedIsKnown
            /\ FileWaitsForApply /\ FileIsWritten
            /\ AcceptedLeads /\ AloneStaysValid /\ RequestsAreWhole
            /\ OnlyRemovalBreaksTheSchema /\ SurfacesFollow

-----------------------------------------------------------------------------
(* Content types: the steps. *)

\* A request that is none is well formed.
LEMMA NoRequestTypes == NoRequest \in Requests /\ NoRequest.pc = "idle"
  BY DEF NoRequest, Request, Requests, MaybeNames, Defs, Absent, Def

\* The first collection is alone, in its file, routed and in the GraphQL schema.
LEMMA TypesStart == ContentTypesInit => TypesInv
<1> SUFFICES ASSUME ContentTypesInit PROVE TypesInv
  OBVIOUS
<1>1. InFlight = {}
  BY NoRequestTypes DEF ContentTypesInit, InFlight
<1>2. PICK first \in Names : live = [n \in Names |-> IF n = first THEN Def(0, NoName) ELSE Absent]
  BY DEF ContentTypesInit
<1>3. TypesTypeOK
  BY <1>1, <1>2, NoRequestTypes DEF ContentTypesInit, TypesTypeOK, Defs, Def, Absent
<1>4. RelationsLead(live)
  BY <1>2 DEF RelationsLead, In, Def, Absent
<1>5. OnlyRemovalBreaksTheSchema /\ SurfacesFollow
  BY <1>4 DEF ContentTypesInit, OnlyRemovalBreaksTheSchema, SurfacesFollow, RelationsLead
<1>6. QED
  BY <1>1, <1>3, <1>5 DEF ContentTypesInit, TypesInv, AloneIsOnly, SharedIsKnown,
     FileWaitsForApply, FileIsWritten, AcceptedLeads, AloneStaysValid, RequestsAreWhole

\* The collections after a change: nothing but the old and the new name differ.
LEMMA ChangedNames ==
  ASSUME NEW c, NEW name \in Names, NEW new \in Names, NEW def
  PROVE  /\ In(Changed(c, name, new, def)) \subseteq In(c) \cup {new}
         /\ In(c) \ {name, new} \subseteq In(Changed(c, name, new, def))
         /\ def # Absent => In(Changed(c, name, new, def)) = (In(c) \ {name}) \cup {new}
         /\ Changed(c, name, new, def)[new] = def
         /\ \A n \in Names \ {name, new} : Changed(c, name, new, def)[n] = c[n]
         /\ name # new => Changed(c, name, new, def)[name] = Absent
  BY DEF In, Changed

\* A request that begins finds others shared and itself accepted, or still to be read.
LEMMA StartKeeps ==
  ASSUME TypesInv, NEW a \in Admins, NEW n \in Names, NEW r \in Requests,
         change[a].pc = "idle", Start(a, r), Shares({n}),
         r.pc \in {"parse", "write"}, r.name = n, r.new = n,
         r.pc = "parse" => r.op = "put",
         r.op = "delete" => r.def = Absent,
         r.pc = "write" /\ r.op # "delete" =>
             n \notin In(live) /\ r.def # Absent /\ RelationsLead(Changed(live, n, n, r.def))
  PROVE  TypesInv'
<1> USE DEF TypesInv
<1>1. /\ change' \in [Admins -> Requests]
      /\ change'[a] = [r EXCEPT !.alone = InFlight = {}]
      /\ \A b \in Admins \ {a} : change'[b] = [change[b] EXCEPT !.alone = FALSE]
  BY DEF Start, TypesTypeOK, Requests
<1>2. /\ change'[a].pc = r.pc /\ change'[a].op = r.op /\ change'[a].name = n
      /\ change'[a].new = n /\ change'[a].def = r.def /\ change'[a].alone = (InFlight = {})
  BY <1>1 DEF Requests
<1>3. ASSUME NEW b \in Admins \ {a}
      PROVE  /\ change'[b].pc = change[b].pc /\ change'[b].op = change[b].op
             /\ change'[b].name = change[b].name /\ change'[b].new = change[b].new
             /\ change'[b].def = change[b].def /\ change'[b].alone = FALSE
  BY <1>1, <1>3 DEF TypesTypeOK, Requests
<1>4. InFlight' = InFlight \cup {a} /\ a \notin InFlight
  BY <1>2, <1>3 DEF InFlight
<1>5. UNCHANGED <<live, file, routed, graphql, gone, renamed>>
  BY DEF Start
<1>6. shared \subseteq shared'
  BY DEF Shares
<1>7. TypesTypeOK'
  BY <1>1, <1>2, <1>3, <1>4, <1>5 DEF TypesTypeOK, Start, InFlight
<1>8. AloneIsOnly'
  BY <1>2, <1>3, <1>4 DEF AloneIsOnly, InFlight
<1>9. SharedIsKnown'
  <2> SUFFICES ASSUME NEW b \in InFlight', NEW c \in InFlight', b # c
               PROVE  Touches(b)' \cap Touches(c)' \subseteq shared'
    BY DEF SharedIsKnown
  <2>1. Touches(a)' = {n} /\ \A d \in InFlight : Touches(d)' = Touches(d)
    BY <1>2, <1>3, <1>4 DEF Touches, InFlight
  <2>2. \A d \in InFlight : {n} \cap Touches(d) \subseteq shared'
    BY DEF Shares
  <2>3. QED
    BY <1>4, <1>6, <2>1, <2>2 DEF SharedIsKnown
<1>10. FileWaitsForApply'
  <2> SUFFICES ASSUME NEW m \in Names \ (shared' \cup renamed'), file'[m] # live'[m]
               PROVE  \E b \in InFlight' : change'[b].pc = "apply" /\ change'[b].new = m
    BY DEF FileWaitsForApply
  <2>1. PICK b \in InFlight : change[b].pc = "apply" /\ change[b].new = m
    BY <1>5, <1>6 DEF FileWaitsForApply
  <2>2. QED
    BY <1>3, <1>4, <2>1 DEF InFlight
<1>11. FileIsWritten'
  BY <1>2, <1>3, <1>4, <1>5, <1>6 DEF FileIsWritten, InFlight
<1>12. AcceptedLeads'
  <2>1. ASSUME r.pc = "write", r.op # "delete"
        PROVE  r.def.to \in {NoName, n} \cup (In(live) \ {n})
    BY <2>1, ChangedNames DEF RelationsLead
  <2> SUFFICES ASSUME NEW b \in InFlight', change'[b].pc \in {"write", "apply"},
                      change'[b].op # "delete"
               PROVE  /\ change'[b].def # Absent
                      /\ change'[b].def.to \in {NoName, change'[b].new} \cup gone'
                                                \cup (In(live') \ {change'[b].name})
    BY DEF AcceptedLeads, In
  <2>2. CASE b = a
    BY <1>2, <1>5, <2>1, <2>2
  <2>3. CASE b # a
    <3>1. b \in InFlight /\ b \in Admins \ {a}
      BY <1>4, <2>3 DEF InFlight
    <3>2. QED
      BY <1>3, <1>5, <3>1 DEF AcceptedLeads
  <2>4. QED
    BY <2>2, <2>3
<1>13. AloneStaysValid'
  <2>1. r.pc = "write" /\ r.op # "delete" => RelationsLead(Changed(live, n, n, r.def))
    OBVIOUS
  <2> SUFFICES ASSUME NEW b \in InFlight', change'[b].op # "delete", change'[b].alone,
                      change'[b].pc \in {"write", "apply"}
               PROVE  RelationsLead(Changed(live', change'[b].name, change'[b].new, change'[b].def))
    BY Zenon DEF AloneStaysValid
  <2>2. b = a
    BY <1>3, <1>4 DEF InFlight
  <2>3. QED
    BY <1>2, <1>5, <2>1, <2>2
<1>14. RequestsAreWhole'
  <2> SUFFICES ASSUME NEW b \in InFlight'
               PROVE  /\ change'[b].op = "delete" =>
                             change'[b].new = change'[b].name /\ change'[b].def = Absent
                      /\ change'[b].pc = "parse" =>
                             change'[b].op = "put" /\ change'[b].new = change'[b].name
    BY DEF RequestsAreWhole
  <2>1. CASE b = a
    BY <1>2, <2>1
  <2>2. CASE b # a
    BY <1>3, <1>4, <2>2 DEF RequestsAreWhole, InFlight
  <2>3. QED
    BY <2>1, <2>2
<1>15. OnlyRemovalBreaksTheSchema' /\ SurfacesFollow'
  BY <1>5 DEF OnlyRemovalBreaksTheSchema, SurfacesFollow, RelationsLead, In
<1>16. QED
  BY <1>7, <1>8, <1>9, <1>10, <1>11, <1>12, <1>13, <1>14, <1>15

\* PUT finds its collection.
LEMMA FindsKeeps ==
  ASSUME TypesInv, NEW a \in Admins, NEW n \in Names, Finds(a, n) PROVE TypesInv'
<1> DEFINE r == Request("parse", "put", n, n, Absent, TRUE)
<1>1. r \in Requests /\ r.pc = "parse" /\ r.op = "put" /\ r.name = n /\ r.new = n
  BY DEF Request, Requests, MaybeNames, Defs, Absent, Def
<1>2. change[a].pc = "idle" /\ Start(a, r) /\ Shares({n})
  BY DEF Finds
<1>3. QED
  BY <1>1, <1>2, StartKeeps

\* POST is validated before it begins.
LEMMA PostKeeps ==
  ASSUME TypesInv, NEW a \in Admins, NEW n \in Names, NEW to \in Names \cup {NoName}, Post(a, n, to)
  PROVE  TypesInv'
<1> DEFINE def == Def(changes, to)
           r   == Request("write", "post", n, n, def, TRUE)
<1>1. /\ r \in Requests /\ r.pc = "write" /\ r.op = "post" /\ r.name = n /\ r.new = n
      /\ r.def = def /\ def # Absent
  BY DEF Request, Requests, MaybeNames, Defs, Absent, Def, TypesInv, TypesTypeOK
<1>2. /\ change[a].pc = "idle" /\ Start(a, r) /\ Shares({n})
      /\ n \notin In(live) /\ RelationsLead(Changed(live, n, n, def))
  BY DEF Post
<1>3. QED
  BY <1>1, <1>2, StartKeeps

\* DELETE finds its collection.
LEMMA RemoveKeeps ==
  ASSUME TypesInv, NEW a \in Admins, NEW n \in Names, Remove(a, n) PROVE TypesInv'
<1> DEFINE r == Request("write", "delete", n, n, Absent, TRUE)
<1>1. /\ r \in Requests /\ r.pc = "write" /\ r.op = "delete" /\ r.name = n /\ r.new = n
      /\ r.def = Absent
  BY DEF Request, Requests, MaybeNames, Defs, Absent, Def
<1>2. change[a].pc = "idle" /\ Start(a, r) /\ Shares({n})
  BY DEF Remove
<1>3. QED
  BY <1>1, <1>2, StartKeeps

\* A request that ends before the map changes leaves every form as it is.
LEMMA EndKeeps ==
  ASSUME TypesInv, NEW a \in Admins, change[a].pc \in {"parse", "write"},
         change' = [change EXCEPT ![a] = NoRequest],
         UNCHANGED <<live, file, routed, graphql, changes, shared, gone, renamed>>
  PROVE  TypesInv'
<1> USE DEF TypesInv
<1>1. /\ change' \in [Admins -> Requests] /\ change'[a].pc = "idle"
      /\ \A b \in Admins \ {a} : change'[b] = change[b]
  BY NoRequestTypes DEF TypesTypeOK
<1>2. InFlight' = InFlight \ {a} /\ a \in InFlight
  BY <1>1 DEF InFlight
<1>3. TypesTypeOK' /\ AloneIsOnly' /\ FileIsWritten' /\ RequestsAreWhole'
  BY <1>1, <1>2 DEF TypesTypeOK, AloneIsOnly, FileIsWritten, RequestsAreWhole, InFlight
<1>7. SharedIsKnown'
  BY <1>1, <1>2 DEF SharedIsKnown, Touches, InFlight
<1>8. AcceptedLeads'
  BY <1>1, <1>2 DEF AcceptedLeads, In, InFlight
<1>4. FileWaitsForApply'
  <2> SUFFICES ASSUME NEW m \in Names \ (shared' \cup renamed'), file'[m] # live'[m]
               PROVE  \E b \in InFlight' : change'[b].pc = "apply" /\ change'[b].new = m
    BY DEF FileWaitsForApply
  <2>1. PICK b \in InFlight : change[b].pc = "apply" /\ change[b].new = m
    BY DEF FileWaitsForApply
  <2>2. QED
    BY <1>1, <1>2, <2>1
<1>5. OnlyRemovalBreaksTheSchema' /\ SurfacesFollow'
  BY DEF OnlyRemovalBreaksTheSchema, SurfacesFollow, RelationsLead, In
<1>6. AloneStaysValid'
  BY <1>1, <1>2 DEF AloneStaysValid, AloneIsOnly, InFlight
<1>9. QED
  BY <1>3, <1>4, <1>5, <1>6, <1>7, <1>8

\* The body of a PUT is accepted against the collections of that moment, or refused.
LEMMA ParsesKeeps ==
  ASSUME TypesInv, NEW a \in Admins, NEW new \in Names, NEW to \in Names \cup {NoName},
         Parses(a, new, to)
  PROVE  TypesInv'
<1> DEFINE name == change[a].name
           def  == Def(changes, to)
           ok   == (new = name \/ new \notin In(live)) /\ RelationsLead(Changed(live, name, new, def))
<1>1. CASE ~ok
  BY <1>1, EndKeeps DEF Parses
<1>2. CASE ok
  <2> USE DEF TypesInv
  <2>1. /\ change' = [change EXCEPT ![a] = [@ EXCEPT !.pc = "write", !.new = new, !.def = def]]
        /\ shared' = shared \cup UNION {{new} \cap Touches(b) : b \in InFlight \ {a}}
        /\ UNCHANGED <<live, file, routed, graphql, changes, gone, renamed>>
        /\ change[a].pc = "parse"
    BY <1>2 DEF Parses
  <2>2. def \in Defs /\ def # Absent /\ def.to = to
    BY DEF Def, Defs, Absent, TypesTypeOK
  <2>3. a \in InFlight /\ change[a] \in Requests /\ change[a].op = "put" /\ name \in Names
        /\ change[a].new = name
    BY <2>1 DEF InFlight, TypesTypeOK, RequestsAreWhole
  <2>4. /\ change'[a] \in Requests /\ change'[a].pc = "write" /\ change'[a].op = "put"
        /\ change'[a].name = name /\ change'[a].new = new /\ change'[a].def = def
        /\ change'[a].alone = change[a].alone
        /\ \A b \in Admins \ {a} : change'[b] = change[b]
    BY <2>1, <2>2, <2>3 DEF TypesTypeOK, Requests, MaybeNames
  <2>5. InFlight' = InFlight
    BY <2>1, <2>4 DEF InFlight
  <2>6. TypesTypeOK'
    BY <2>1, <2>3, <2>4, <2>5 DEF TypesTypeOK
  <2>7. AloneIsOnly' /\ RequestsAreWhole' /\ FileIsWritten'
    BY <2>1, <2>4, <2>5 DEF AloneIsOnly, RequestsAreWhole, FileIsWritten
  <2>8. SharedIsKnown'
    <3>1. Touches(a)' = Touches(a) \cup {new}
      BY <2>3, <2>4 DEF Touches
    <3>2. \A b \in InFlight \ {a} : Touches(b)' = Touches(b)
      BY <2>4 DEF Touches, InFlight
    <3>3. \A b \in InFlight \ {a} : {new} \cap Touches(b) \subseteq shared'
      BY <2>1
    <3>4. QED
      BY <2>1, <2>5, <3>1, <3>2, <3>3 DEF SharedIsKnown
  <2>9. FileWaitsForApply'
    <3> SUFFICES ASSUME NEW m \in Names \ (shared' \cup renamed'), file'[m] # live'[m]
                 PROVE  \E b \in InFlight' : change'[b].pc = "apply" /\ change'[b].new = m
      BY DEF FileWaitsForApply
    <3>1. PICK b \in InFlight : change[b].pc = "apply" /\ change[b].new = m
      BY <2>1 DEF FileWaitsForApply
    <3>2. QED
      BY <2>1, <2>4, <2>5, <3>1 DEF InFlight
  <2>10. AcceptedLeads'
    <3> DEFINE C == Changed(live, name, new, def)
    <3>3. In(C) = (In(live) \ {name}) \cup {new} /\ C[new] = def
      <4>1. name \in Names /\ def # Absent
        BY <2>2, <2>3
      <4> HIDE DEF name, def
      <4>2. QED
        BY <4>1, ChangedNames
    <3>4. \A n \in In(C) : C[n].to \in In(C) \cup {NoName}
      BY <1>2 DEF RelationsLead
    <3>1. to \in {NoName, new} \cup (In(live) \ {name})
      <4> HIDE DEF C, def
      <4> QED
        BY <2>2, <3>3, <3>4
    <3>2. QED
      BY <2>1, <2>2, <2>4, <2>5, <3>1 DEF AcceptedLeads, InFlight, In
  <2>11. AloneStaysValid'
    <3>1. RelationsLead(Changed(live, name, new, def))
      BY <1>2
    <3> HIDE DEF name, def, ok
    <3> SUFFICES ASSUME NEW b \in InFlight', change'[b].op # "delete", change'[b].alone,
                        change'[b].pc \in {"write", "apply"}
                 PROVE  RelationsLead(Changed(live', change'[b].name, change'[b].new, change'[b].def))
      BY Zenon DEF AloneStaysValid
    <3>2. CASE b = a
      BY <2>1, <2>4, <3>1, <3>2
    <3>3. CASE b # a
      BY <2>1, <2>4, <2>5, <3>3 DEF AloneStaysValid, InFlight
    <3> QED
      BY <3>2, <3>3
  <2>12. OnlyRemovalBreaksTheSchema' /\ SurfacesFollow'
    BY <2>1 DEF OnlyRemovalBreaksTheSchema, SurfacesFollow, RelationsLead, In
  <2>13. QED
    BY <2>6, <2>7, <2>8, <2>9, <2>10, <2>11, <2>12
<1>3. QED
  BY <1>1, <1>2

\* The file is written first; a request that touches the same name knows it is not alone.
LEMMA WriteKeeps ==
  ASSUME TypesInv, NEW a \in Admins, Write(a) PROVE TypesInv'
<1> USE DEF TypesInv
<1> DEFINE new == change[a].new
           def == change[a].def
<1>1. /\ change[a].pc = "write" /\ a \in InFlight /\ new \in Names /\ def \in Defs
      /\ file' = [file EXCEPT ![new] = def]
      /\ UNCHANGED <<live, routed, graphql, changes, shared, gone, renamed>>
  BY DEF Write, InFlight, TypesTypeOK, Requests
<1>2. /\ change' \in [Admins -> Requests] /\ change'[a].pc = "apply"
      /\ \A b \in Admins : /\ b # a => change'[b] = change[b]
                           /\ change'[b].op = change[b].op /\ change'[b].name = change[b].name
                           /\ change'[b].new = change[b].new /\ change'[b].def = change[b].def
                           /\ change'[b].alone = change[b].alone
  BY DEF Write, TypesTypeOK, Requests
<1>3. InFlight' = InFlight
  BY <1>1, <1>2 DEF InFlight
<1>4. file' \in [Names -> Defs] /\ file'[new] = def /\ \A m \in Names \ {new} : file'[m] = file[m]
  BY <1>1 DEF TypesTypeOK
<1>5. TypesTypeOK'
  BY <1>1, <1>2, <1>3, <1>4 DEF TypesTypeOK, InFlight
<1>6. AloneIsOnly' /\ RequestsAreWhole'
  BY <1>1, <1>2, <1>3 DEF AloneIsOnly, RequestsAreWhole, InFlight
<1>7. SharedIsKnown'
  BY <1>1, <1>2, <1>3 DEF SharedIsKnown, Touches, InFlight
<1>8. FileWaitsForApply'
  <2> SUFFICES ASSUME NEW m \in Names \ (shared' \cup renamed'), file'[m] # live'[m]
               PROVE  \E b \in InFlight' : change'[b].pc = "apply" /\ change'[b].new = m
    BY DEF FileWaitsForApply
  <2>1. CASE m = new
    BY <1>1, <1>2, <1>3, <2>1
  <2>2. CASE m # new
    <3>1. PICK b \in InFlight : change[b].pc = "apply" /\ change[b].new = m
      BY <1>1, <1>4, <2>2 DEF FileWaitsForApply
    <3>2. QED
      BY <1>1, <1>2, <1>3, <3>1 DEF InFlight
  <2>3. QED
    BY <2>1, <2>2
<1>9. FileIsWritten'
  <2> SUFFICES ASSUME NEW b \in InFlight, change'[b].pc = "apply",
                      change[b].alone \/ change[b].new \notin shared
               PROVE  file'[change[b].new] = change[b].def
    BY <1>1, <1>2, <1>3 DEF FileIsWritten, InFlight
  <2>1. CASE b = a
    BY <1>4, <2>1
  <2>2. CASE b # a
    <3>1. ~change[b].alone
      BY <1>1, <2>2 DEF AloneIsOnly
    <3>2. change[b].new # new
      BY <1>1, <2>2, <3>1 DEF SharedIsKnown, Touches
    <3>3. file[change[b].new] = change[b].def
      BY <1>2, <2>2, <3>1 DEF FileIsWritten, InFlight
    <3>4. change[b].new \in Names
      BY DEF TypesTypeOK
    <3>5. QED
      BY <1>4, <3>2, <3>3, <3>4
  <2>3. QED
    BY <2>1, <2>2
<1>10. AcceptedLeads'
  BY <1>1, <1>2, <1>3 DEF AcceptedLeads, In, InFlight
<1>11. AloneStaysValid'
  <2> SUFFICES ASSUME NEW b \in InFlight, change[b].op # "delete", change[b].alone,
                      change'[b].pc \in {"write", "apply"}
               PROVE  RelationsLead(Changed(live, change[b].name, change[b].new, change[b].def))
    BY <1>1, <1>2, <1>3 DEF AloneStaysValid, InFlight
  <2>1. change[b].pc \in {"write", "apply"}
    BY <1>1, <1>2 DEF InFlight
  <2>2. QED
    BY <2>1 DEF AloneStaysValid
<1>12. OnlyRemovalBreaksTheSchema' /\ SurfacesFollow'
  BY <1>1 DEF OnlyRemovalBreaksTheSchema, SurfacesFollow, RelationsLead, In
<1>13. QED
  BY <1>5, <1>6, <1>7, <1>8, <1>9, <1>10, <1>11, <1>12

\* The map changes, and with it the routes and the GraphQL schema, in one step.
LEMMA ApplyKeeps ==
  ASSUME TypesInv, NEW a \in Admins, Apply(a) PROVE TypesInv'
<1> USE DEF TypesInv
<1> DEFINE r    == change[a]
           name == r.name
           new  == r.new
           def  == r.def
<1>1. /\ r.pc = "apply" /\ a \in InFlight /\ new \in Names /\ name \in Names /\ def \in Defs
      /\ r \in Requests
      /\ live' = Changed(live, name, new, def)
      /\ gone' = gone \cup (IF r.op = "delete" \/ (new # name /\ ~r.alone) THEN {name} ELSE {})
      /\ shared' = IF r.alone THEN shared \ {new} ELSE shared \cup {name, new}
      /\ renamed' = (renamed \cup {name}) \ {new}
      /\ UNCHANGED <<file, changes>>
  BY DEF Apply, InFlight, TypesTypeOK, Requests, Touches
<1>2. /\ change' \in [Admins -> Requests] /\ change'[a].pc = "idle"
      /\ \A b \in Admins \ {a} : change'[b] = change[b]
  BY NoRequestTypes DEF Apply, TypesTypeOK
<1>3. InFlight' = InFlight \ {a}
  BY <1>2 DEF InFlight
<1>4. /\ In(live)' \subseteq In(live) \cup {new}
      /\ In(live) \ {name, new} \subseteq In(live)'
      /\ def # Absent => In(live)' = (In(live) \ {name}) \cup {new}
      /\ live'[new] = def
      /\ \A m \in Names \ {name, new} : live'[m] = live[m]
      /\ live' \in [Names -> Defs]
  <2> HIDE DEF r, name, new, def
  <2>1. /\ In(live') \subseteq In(live) \cup {new}
        /\ In(live) \ {name, new} \subseteq In(live')
        /\ def # Absent => In(live') = (In(live) \ {name}) \cup {new}
        /\ live'[new] = def
        /\ \A m \in Names \ {name, new} : live'[m] = live[m]
    <3>1. name \in Names /\ new \in Names /\ live' = Changed(live, name, new, def)
      BY <1>1
    <3>2. QED
      BY <3>1, ChangedNames
  <2>2. live' \in [Names -> Defs]
    BY <1>1 DEF Changed, TypesTypeOK, Defs, Absent, Def
  <2>3. In(live)' = In(live')
    BY DEF In
  <2>4. QED
    BY <2>1, <2>2, <2>3
<1>5. r.op = "delete" => new = name /\ def = Absent
  BY <1>1 DEF RequestsAreWhole
<1>6. r.op # "delete" => def # Absent /\ def.to \in {NoName, new} \cup gone \cup (In(live) \ {name})
  BY <1>1 DEF AcceptedLeads
<1>7. r.alone => InFlight' = {}
  BY <1>1, <1>3 DEF AloneIsOnly
<1>8. \A b \in InFlight' : ~change[b].alone
  BY <1>1, <1>3 DEF AloneIsOnly
<1> HIDE DEF r, name, new, def
<1>9. TypesTypeOK'
  BY <1>1, <1>2, <1>3, <1>4 DEF TypesTypeOK, InFlight
<1>10. AloneIsOnly' /\ RequestsAreWhole'
  BY <1>2, <1>3, <1>8 DEF AloneIsOnly, RequestsAreWhole, InFlight
<1>11. SharedIsKnown'
  BY <1>1, <1>2, <1>3, <1>7 DEF SharedIsKnown, Touches, InFlight
<1>12. FileWaitsForApply'
  <2> SUFFICES ASSUME NEW m \in Names, m \notin shared', m \notin renamed', file[m] # live'[m]
               PROVE  \E b \in InFlight' : change'[b].pc = "apply" /\ change'[b].new = m
    BY <1>1 DEF FileWaitsForApply
  <2>1. m # new
    <3>1. SUFFICES ASSUME m = new PROVE FALSE
      OBVIOUS
    <3>2. r.alone
      BY <1>1, <3>1
    <3>3. file[new] = def
      BY <1>1, <3>2 DEF FileIsWritten, r, new, def
    <3>4. QED
      BY <1>4, <3>1, <3>3
  <2>2. m \notin shared /\ m \notin renamed /\ m # name
    BY <1>1, <2>1
  <2>3. file[m] # live[m]
    BY <1>4, <2>1, <2>2
  <2>4. PICK b \in InFlight : change[b].pc = "apply" /\ change[b].new = m
    BY <2>2, <2>3 DEF FileWaitsForApply
  <2>5. b # a
    BY <2>1, <2>4 DEF r, new
  <2>6. QED
    BY <1>2, <1>3, <2>4, <2>5 DEF InFlight
<1>13. FileIsWritten'
  BY <1>1, <1>2, <1>3, <1>7, <1>8 DEF FileIsWritten, InFlight
<1>14. AcceptedLeads'
  <2> SUFFICES ASSUME NEW b \in InFlight, b # a, change[b].pc \in {"write", "apply"},
                      change[b].op # "delete"
               PROVE  /\ change[b].def # Absent
                      /\ change[b].def.to \in {NoName, change[b].new} \cup gone'
                                               \cup (In(live)' \ {change[b].name})
    BY <1>2, <1>3 DEF AcceptedLeads, InFlight
  <2>1. /\ change[b].def # Absent
        /\ change[b].def.to \in {NoName, change[b].new} \cup gone \cup (In(live) \ {change[b].name})
    BY DEF AcceptedLeads
  <2>2. ~r.alone
    BY <1>3, <1>7
  <2>3. In(live) \subseteq In(live)' \cup gone'
    BY <1>1, <1>4, <1>5, <1>6, <2>2
  <2>4. gone \subseteq gone'
    BY <1>1
  <2>5. QED
    BY <2>1, <2>3, <2>4
<1>15. AloneStaysValid'
  BY <1>2, <1>3, <1>8 DEF AloneStaysValid, InFlight
<1>16. OnlyRemovalBreaksTheSchema'
  <2> SUFFICES ASSUME NEW m \in In(live)'
               PROVE  live'[m].to \in In(live)' \cup {NoName} \cup gone'
    BY DEF OnlyRemovalBreaksTheSchema
  <2>1. m \in Names /\ live'[m] # Absent
    BY DEF In
  <2>2. CASE r.alone /\ r.op # "delete"
    <3>1. RelationsLead(Changed(live, name, new, def))
      BY <1>1, <2>2 DEF AloneStaysValid, r, name, new, def
    <3>2. QED
      BY <1>1, <3>1 DEF RelationsLead, In
  <2>3. CASE r.op = "delete" \/ ~r.alone
    <3>1. In(live) \subseteq In(live)' \cup gone'
      BY <1>1, <1>4, <1>5, <1>6, <2>3
    <3>2. CASE m = new
      <4>1. def # Absent /\ r.op # "delete"
        BY <1>4, <1>5, <2>1, <3>2
      <4>2. QED
        BY <1>1, <1>4, <1>6, <3>1, <3>2, <4>1
    <3>3. CASE m # new
      <4>1. m # name
        <5>1. CASE def = Absent
          <6>1. r.op = "delete"
            BY <1>6, <5>1
          <6>2. QED
            BY <1>5, <3>3, <6>1
        <5>2. CASE def # Absent
          BY <1>4, <3>3, <5>2
        <5>3. QED
          BY <5>1, <5>2
      <4>2. live'[m] = live[m] /\ m \in In(live)
        BY <1>4, <2>1, <3>3, <4>1 DEF In
      <4>3. live[m].to \in In(live) \cup {NoName} \cup gone
        BY <4>2 DEF OnlyRemovalBreaksTheSchema
      <4>4. QED
        BY <1>1, <3>1, <4>2, <4>3
    <3>4. QED
      BY <3>2, <3>3
  <2>4. QED
    BY <2>2, <2>3
<1>17. SurfacesFollow'
  <2>1. RelationsLead(live)' => graphql' = live'
    BY DEF Apply, Rebuild, RelationsLead, In
  <2>2. routed' = routed \cup ({new} \cap In(live)')
    BY DEF Apply, Register, In, r, new
  <2>3. QED
    BY <1>4, <2>1, <2>2 DEF SurfacesFollow
<1>18. QED
  BY <1>9, <1>10, <1>11, <1>12, <1>13, <1>14, <1>15, <1>16, <1>17

\* A process that starts reads files whose relations lead somewhere, or does not start.
LEMMA RestartKeeps == TypesInv /\ Restart => TypesInv'
<1> SUFFICES ASSUME TypesInv, Restart PROVE TypesInv'
  OBVIOUS
<1> USE DEF TypesInv
<1>1. InFlight' = {}
  BY NoRequestTypes DEF Restart, InFlight
<1>2. TypesTypeOK'
  BY <1>1, NoRequestTypes DEF Restart, TypesTypeOK
<1>3. AloneIsOnly' /\ SharedIsKnown' /\ FileIsWritten' /\ AcceptedLeads' /\ AloneStaysValid'
      /\ RequestsAreWhole'
  BY <1>1 DEF AloneIsOnly, SharedIsKnown, FileIsWritten, AcceptedLeads, AloneStaysValid,
     RequestsAreWhole
<1>4. FileWaitsForApply'
  BY DEF Restart, FileWaitsForApply
<1>5. OnlyRemovalBreaksTheSchema' /\ SurfacesFollow'
  BY DEF Restart, OnlyRemovalBreaksTheSchema, SurfacesFollow, RelationsLead, In
<1>6. QED
  BY <1>2, <1>3, <1>4, <1>5

\* Every step of every request, and a restart between any two, keeps the invariant.
LEMMA TypesStep == TypesInv /\ [ContentTypesNext]_typesVars => TypesInv'
<1> SUFFICES ASSUME TypesInv, [ContentTypesNext]_typesVars PROVE TypesInv'
  OBVIOUS
<1>1. CASE Restart
  BY <1>1, RestartKeeps
<1>2. ASSUME NEW a \in Admins, Write(a) PROVE TypesInv'
  BY <1>2, WriteKeeps
<1>3. ASSUME NEW a \in Admins, WriteFails(a) PROVE TypesInv'
  BY <1>3, EndKeeps DEF WriteFails
<1>4. ASSUME NEW a \in Admins, Apply(a) PROVE TypesInv'
  BY <1>4, ApplyKeeps
<1>5. ASSUME NEW a \in Admins, NEW n \in Names, Finds(a, n) \/ Remove(a, n) PROVE TypesInv'
  BY <1>5, FindsKeeps, RemoveKeeps
<1>6. ASSUME NEW a \in Admins, NEW n \in Names, NEW to \in Names \cup {NoName},
             Parses(a, n, to) \/ Post(a, n, to)
      PROVE  TypesInv'
  BY <1>6, ParsesKeeps, PostKeeps
<1>7. CASE UNCHANGED typesVars
  <2> USE <1>7 DEF typesVars, TypesInv, InFlight
  <2>1. TypesTypeOK' /\ AloneIsOnly' /\ FileIsWritten' /\ RequestsAreWhole'
    BY DEF TypesTypeOK, AloneIsOnly, FileIsWritten, RequestsAreWhole
  <2>2. SharedIsKnown' /\ FileWaitsForApply'
    BY DEF SharedIsKnown, FileWaitsForApply, Touches
  <2>3. AcceptedLeads'
    BY DEF AcceptedLeads, In
  <2>4. AloneStaysValid'
    BY DEF AloneStaysValid
  <2>5. OnlyRemovalBreaksTheSchema' /\ SurfacesFollow'
    BY DEF OnlyRemovalBreaksTheSchema, SurfacesFollow, RelationsLead, In
  <2>6. QED
    BY <2>1, <2>2, <2>3, <2>4, <2>5
<1>8. QED
  BY <1>1, <1>2, <1>3, <1>4, <1>5, <1>6, <1>7 DEF ContentTypesNext

\* For any names and any number of administrators: the files of a CMS at rest are its
\* collections, GraphQL and the routes follow them, and a relation loses its target only
\* by a DELETE or by changes that overlapped.
THEOREM TypesStaySound == ContentTypesSpec => []TypesAreSound
<1>1. TypesInv => TypesAreSound
  BY DEF TypesInv, TypesAreSound, FilesAreLive, FileWaitsForApply
<1>2. QED
  BY TypesStart, TypesStep, <1>1, PTL DEF ContentTypesSpec

-----------------------------------------------------------------------------
(* Schema apply: the turns and the story of the journal. *)

Steps == {"idle", "plan", "look", "clear", "open"} \cup Inside
Appliers == [pc : Steps, want : SUBSET Features, base : SUBSET Features,
             over : SUBSET Features, released : BOOLEAN]

ApplyTypeOK == /\ wanted \in SUBSET Features /\ snapshot \in SUBSET Features
               /\ IsFiniteSet(journal)
               /\ lock \in [owner : Procs \cup {"none", Gone}, stamped : BOOLEAN]
               /\ proc \in [Procs -> Appliers]
               /\ forked \in BOOLEAN /\ overwritten \in BOOLEAN /\ orphaned \in BOOLEAN
               /\ disturbed \in BOOLEAN

\* As long as no process was stopped, who is inside owns the lock, and no lock is stale.
InsideOwnsLock ==
    ~disturbed => /\ lock.owner # Gone
                  /\ \A p \in Procs : /\ proc[p].pc \in Inside => lock.owner = p
                                      /\ proc[p].pc # "clear" /\ ~proc[p].released

Recording(p) == proc[p].pc \in {"tear", "write"}

\* Unless plans crossed, one process at a time is between its migration and its snapshot.
OneRecords == ~forked => \A p, q \in Procs : Recording(p) /\ Recording(q) => p = q

\* ... and the snapshot it replaces is the one its plan was made against.
PlanStillHolds ==
    ~forked => \A p \in Procs : /\ proc[p].pc = "tear" => snapshot = proc[p].base
                                /\ proc[p].pc = "write" => proc[p].over = proc[p].base

\* Consent is asked of the plan.
PlanIsConsented ==
    \A p \in Procs \ Consenting :
        proc[p].pc \notin {"idle", "plan"} => proc[p].base \subseteq proc[p].want

\* The journal builds the schema S.
Builds(S) == \A f \in Features : Times(f) = IF f \in S THEN 1 ELSE 0

\* While a process is between its migration and its snapshot, the journal is ahead of it.
JournalLeads ==
    ~forked /\ ~overwritten /\ ~orphaned =>
        /\ \A p \in Procs : Recording(p) => Builds(proc[p].want)
        /\ BetweenApplies => Builds(snapshot)

ApplyInv == /\ ApplyTypeOK /\ InsideOwnsLock /\ OneRecords /\ PlanStillHolds
            /\ PlanIsConsented /\ JournalLeads /\ DropsAreConsented

\* Before the first apply there is no journal, and nothing in the snapshot.
LEMMA ApplyStart == SchemaApplyInit => ApplyInv
<1> SUFFICES ASSUME SchemaApplyInit PROVE ApplyInv
  OBVIOUS
<1>1. Idle \in Appliers /\ Idle.pc = "idle" /\ ~Idle.released
  BY DEF Idle, Appliers, Steps
<1>2. \A p \in Procs : proc[p] = Idle
  BY DEF SchemaApplyInit
<1>3. ApplyTypeOK
  BY <1>1, FS_EmptySet DEF SchemaApplyInit, ApplyTypeOK, NoLock
<1>4. InsideOwnsLock
  BY <1>1, <1>2 DEF SchemaApplyInit, InsideOwnsLock, Inside, NoLock, Gone
<1>5. OneRecords /\ PlanStillHolds /\ PlanIsConsented /\ DropsAreConsented
  BY <1>1, <1>2 DEF SchemaApplyInit, OneRecords, PlanStillHolds, PlanIsConsented,
     DropsAreConsented, Recording
<1>6. JournalLeads
  <2>1. Builds({})
    <3>1. \A f \in Features : {m \in journal : f \in m.creates} = {} /\ {m \in journal : f \in m.drops} = {}
      BY DEF SchemaApplyInit
    <3>2. QED
      BY <3>1, FS_EmptySet DEF Builds, Times
  <2>2. QED
    BY <1>1, <1>2, <2>1 DEF SchemaApplyInit, JournalLeads, Recording
<1>7. QED
  BY <1>3, <1>4, <1>5, <1>6 DEF ApplyInv

\* What a step leaves of the story when it touches neither journal nor snapshot, and
\* its process neither begins nor ends recording.
LEMMA QuietKeeps ==
  ASSUME ApplyInv, NEW p \in Procs, NEW r \in Appliers, proc' = [proc EXCEPT ![p] = r],
         Recording(p) => /\ r.pc = proc[p].pc /\ r.want = proc[p].want
                         /\ r.base = proc[p].base /\ r.over = proc[p].over,
         ~Recording(p) => r.pc \notin {"tear", "write"},
         p \notin Consenting /\ r.pc \notin {"idle", "plan"} => r.base \subseteq r.want,
         UNCHANGED <<snapshot, journal, forked, overwritten, orphaned, taken>>
  PROVE  OneRecords' /\ PlanStillHolds' /\ PlanIsConsented' /\ JournalLeads' /\ DropsAreConsented'
<1> USE DEF ApplyInv
<1>1. proc'[p] = r /\ \A q \in Procs \ {p} : proc'[q] = proc[q]
  BY DEF ApplyTypeOK
<1>2. \A q \in Procs : /\ Recording(q)' <=> Recording(q)
                       /\ Recording(q) => /\ proc'[q].pc = proc[q].pc /\ proc'[q].want = proc[q].want
                                          /\ proc'[q].base = proc[q].base /\ proc'[q].over = proc[q].over
  BY <1>1 DEF Recording
<1>3. OneRecords'
  BY <1>2 DEF OneRecords
<1>4. PlanStillHolds'
  BY <1>2 DEF PlanStillHolds, Recording
<1>5. PlanIsConsented'
  BY <1>1 DEF PlanIsConsented
<1>6. JournalLeads'
  <2>1. BetweenApplies' <=> BetweenApplies
    BY <1>2 DEF BetweenApplies, Recording
  <2>2. \A q \in Procs : Recording(q) => (Builds(proc[q].want)' <=> Builds(proc[q].want))
    BY <1>2 DEF Builds, Times
  <2>3. Builds(snapshot)' <=> Builds(snapshot)
    BY DEF Builds, Times
  <2>4. QED
    BY <1>2, <2>1, <2>2, <2>3 DEF JournalLeads
<1>7. DropsAreConsented'
  BY DEF DropsAreConsented
<1>8. QED
  BY <1>3, <1>4, <1>5, <1>6, <1>7

\* An edit of the schema and the clock concern no apply.
LEMMA EditKeeps ==
  ASSUME ApplyInv, Tick \/ \E f \in Features : EditSchema(f) PROVE ApplyInv'
<1> USE DEF ApplyInv
<1>1. UNCHANGED <<snapshot, journal, lock, proc, forked, overwritten, orphaned, disturbed, taken>>
  BY DEF Tick, EditSchema
<1>2. wanted' \in SUBSET Features
  BY DEF Tick, EditSchema, ApplyTypeOK
<1>3. ApplyTypeOK' /\ InsideOwnsLock' /\ PlanIsConsented' /\ DropsAreConsented'
  BY <1>1, <1>2 DEF ApplyTypeOK, InsideOwnsLock, PlanIsConsented, DropsAreConsented
<1>4. OneRecords' /\ PlanStillHolds' /\ JournalLeads'
  BY <1>1 DEF OneRecords, PlanStillHolds, JournalLeads, Recording, Builds, Times, BetweenApplies
<1>5. QED
  BY <1>3, <1>4

\* The schema is loaded, and the plan made and, if it drops, consented to.
LEMMA PlanKeeps ==
  ASSUME ApplyInv, NEW p \in Procs, LoadSchema(p) \/ Plan(p) PROVE ApplyInv'
<1> USE DEF ApplyInv
<1>1. proc[p] \in Appliers /\ wanted \in SUBSET Features /\ snapshot \in SUBSET Features
  BY DEF ApplyTypeOK
<1>2. proc[p].pc \in {"idle", "plan"} /\ ~Recording(p)
  BY DEF LoadSchema, Plan, Recording
<1>3. UNCHANGED <<wanted, snapshot, journal, lock, forked, overwritten, orphaned, disturbed, taken>>
  BY DEF LoadSchema, Plan
<1>4. PICK s \in Appliers :
         /\ proc' = [proc EXCEPT ![p] = s] /\ s.pc \in {"idle", "plan", "look"}
         /\ s.released = FALSE \/ s.released = proc[p].released
         /\ s.pc = "look" /\ p \notin Consenting => s.base \subseteq s.want
  <2>1. CASE LoadSchema(p)
    <3> DEFINE s == [proc[p] EXCEPT !.pc = "plan", !.want = wanted]
    <3>1. s \in Appliers /\ s.pc = "plan" /\ s.released = proc[p].released
      BY <1>1 DEF Appliers, Steps
    <3>2. proc' = [proc EXCEPT ![p] = s]
      BY <2>1 DEF LoadSchema
    <3>3. QED
      BY <3>1, <3>2
  <2>2. CASE Plan(p)
    <3> DEFINE go == [proc[p] EXCEPT !.pc = "look", !.base = snapshot]
               ends == PlanIsEmpty(snapshot, proc[p].want)
                       \/ (PlanDestroys(snapshot, proc[p].want) /\ p \notin Consenting)
    <3>1. /\ Idle \in Appliers /\ Idle.pc = "idle" /\ Idle.released = FALSE
          /\ go \in Appliers /\ go.pc = "look" /\ go.released = proc[p].released
          /\ go.base = snapshot /\ go.want = proc[p].want
      BY <1>1 DEF Appliers, Steps, Idle
    <3>2. proc' = [proc EXCEPT ![p] = IF ends THEN Idle ELSE go]
      BY <2>2 DEF Plan
    <3>3. CASE ends
      BY <3>1, <3>2, <3>3
    <3>4. CASE ~ends
      <4>1. p \notin Consenting => go.base \subseteq go.want
        BY <3>1, <3>4 DEF PlanDestroys, PlanDrops
      <4>2. QED
        BY <3>1, <3>2, <3>4, <4>1
    <3>5. QED
      BY <3>3, <3>4
  <2>3. QED
    BY <2>1, <2>2
<1>5. proc'[p] = s /\ \A q \in Procs \ {p} : proc'[q] = proc[q]
  BY <1>4 DEF ApplyTypeOK
<1>6. ApplyTypeOK'
  BY <1>1, <1>3, <1>4 DEF ApplyTypeOK
<1>7. InsideOwnsLock'
  BY <1>3, <1>4, <1>5 DEF InsideOwnsLock, Inside
<1>8. QED
  BY <1>2, <1>3, <1>4, <1>6, <1>7, QuietKeeps

\* What a step of p around the lock makes of p and of the lock.
LockStep(p, r) ==
    /\ proc' = [proc EXCEPT ![p] = r]
    /\ r.pc \in {"idle", "clear", "open", "stamp", "migrate"}
    /\ r.released = FALSE \/ r.released = proc[p].released
    /\ r.pc # "idle" => r.base = proc[p].base /\ r.want = proc[p].want
    /\ r.pc = "clear" => lock.owner = Gone
    /\ \/ r.pc \notin Inside /\ ~ReleaseLock(p) /\ (~ClearStaleLock(p) => lock' = lock)
       \/ r.pc = "stamp" /\ lock = NoLock /\ lock' = [owner |-> p, stamped |-> FALSE]
       \/ r.pc = "migrate" /\ proc[p].pc = "stamp" /\ lock'.owner = lock.owner
       \/ r.pc = "idle" /\ proc[p].pc = "release"
    /\ lock' \in [owner : Procs \cup {"none", Gone}, stamped : BOOLEAN]

\* The steps around the lock: whoever is inside keeps it, as long as no process stops.
LEMMA LockKeeps ==
  ASSUME ApplyInv, NEW p \in Procs,
         LookAtLock(p) \/ ClearStaleLock(p) \/ OpenLock(p) \/ StampLock(p) \/ ReleaseLock(p)
  PROVE  ApplyInv'
<1> USE DEF ApplyInv
<1>1. /\ proc[p] \in Appliers /\ lock \in [owner : Procs \cup {"none", Gone}, stamped : BOOLEAN]
      /\ disturbed \in BOOLEAN
  BY DEF ApplyTypeOK
<1>2. proc[p].pc \in {"look", "clear", "open", "stamp", "release"} /\ ~Recording(p)
  BY DEF LookAtLock, ClearStaleLock, OpenLock, StampLock, ReleaseLock, Recording
<1>3. UNCHANGED <<wanted, snapshot, journal, forked, overwritten, orphaned, disturbed, taken>>
  BY DEF LookAtLock, ClearStaleLock, OpenLock, StampLock, ReleaseLock
<1>12. ~disturbed => ~ClearStaleLock(p)
  <2> SUFFICES ASSUME ~disturbed PROVE proc[p].pc # "clear"
    BY DEF ClearStaleLock
  <2>1. QED
    BY Zenon DEF InsideOwnsLock
<1>4. NoLock \in [owner : Procs \cup {"none", Gone}, stamped : BOOLEAN] /\ NoLock.owner = "none"
  BY DEF NoLock
<1>5. /\ Idle \in Appliers /\ Idle.pc = "idle" /\ Idle.released = FALSE
      /\ \A pc \in Steps : LET r == [proc[p] EXCEPT !.pc = pc]
                           IN  /\ r \in Appliers /\ r.pc = pc /\ r.base = proc[p].base
                               /\ r.want = proc[p].want /\ r.released = proc[p].released
  BY <1>1 DEF Appliers, Steps, Idle
<1>13. PICK r \in Appliers : LockStep(p, r)
  <2> DEFINE At(pc) == [proc[p] EXCEPT !.pc = pc]
  <2>0. \A pc \in Steps : /\ At(pc) \in Appliers /\ At(pc).pc = pc /\ At(pc).base = proc[p].base
                          /\ At(pc).want = proc[p].want /\ At(pc).released = proc[p].released
    BY <1>5
  <2>1. CASE LookAtLock(p)
    <3>1. lock' = lock /\ ~ReleaseLock(p)
      BY <2>1 DEF LookAtLock, ReleaseLock
    <3>2. CASE lock.stamped /\ lock.owner = Gone
      <4>1. proc' = [proc EXCEPT ![p] = At("clear")]
        BY <2>1, <3>2 DEF LookAtLock
      <4> HIDE DEF At
      <4>2. LockStep(p, At("clear"))
        BY <1>1, <2>0, <3>1, <3>2, <4>1 DEF LockStep, Steps, Inside
      <4>3. At("clear") \in Appliers
        BY <2>0 DEF Steps
      <4>4. QED
        BY <4>2, <4>3, Zenon
    <3>3. CASE ~(lock.stamped /\ lock.owner = Gone)
      <4>1. proc' = [proc EXCEPT ![p] = At("open")]
        BY <2>1, <3>3 DEF LookAtLock
      <4> HIDE DEF At
      <4>2. LockStep(p, At("open"))
        BY <1>1, <2>0, <3>1, <4>1 DEF LockStep, Steps, Inside
      <4>3. At("open") \in Appliers
        BY <2>0 DEF Steps
      <4>4. QED
        BY <4>2, <4>3, Zenon
    <3>4. QED
      BY <3>2, <3>3
  <2>2. CASE ClearStaleLock(p)
    <3>1. proc' = [proc EXCEPT ![p] = At("open")] /\ lock' = NoLock /\ ~ReleaseLock(p)
      BY <2>2 DEF ClearStaleLock, ReleaseLock
    <3> HIDE DEF At
    <3>2. LockStep(p, At("open"))
      BY <1>4, <2>0, <2>2, <3>1 DEF LockStep, Steps, Inside
    <3>3. At("open") \in Appliers
      BY <2>0 DEF Steps
    <3>4. QED
      BY <3>2, <3>3, Zenon
  <2>3. CASE OpenLock(p)
    <3>1. CASE LockIsFree
      <4>1. /\ proc' = [proc EXCEPT ![p] = At("stamp")] /\ lock = NoLock
            /\ lock' = [owner |-> p, stamped |-> FALSE]
        BY <2>3, <3>1 DEF OpenLock, LockIsFree
      <4> HIDE DEF At
      <4>2. lock' \in [owner : Procs \cup {"none", Gone}, stamped : BOOLEAN]
        BY <4>1
      <4>3. LockStep(p, At("stamp"))
        BY <2>0, <4>1, <4>2 DEF LockStep, Steps, Inside
      <4>4. At("stamp") \in Appliers
        BY <2>0 DEF Steps, Inside
      <4>5. QED
        BY <4>3, <4>4, Zenon
    <3>2. CASE ~LockIsFree
      <4>1. proc' = [proc EXCEPT ![p] = Idle] /\ lock' = lock /\ ~ReleaseLock(p)
        BY <2>3, <3>2 DEF OpenLock, ReleaseLock
      <4>2. LockStep(p, Idle)
        BY <1>1, <1>5, <4>1 DEF LockStep, Inside
      <4>3. QED
        BY <1>5, <4>2, Zenon
    <3>3. QED
      BY <3>1, <3>2
  <2>4. CASE StampLock(p)
    <3>1. /\ proc' = [proc EXCEPT ![p] = At("migrate")] /\ proc[p].pc = "stamp"
          /\ lock' = IF lock.owner = p THEN [lock EXCEPT !.stamped = TRUE] ELSE lock
      BY <2>4 DEF StampLock
    <3>2. lock'.owner = lock.owner /\ lock' \in [owner : Procs \cup {"none", Gone}, stamped : BOOLEAN]
      BY <1>1, <3>1
    <3> HIDE DEF At
    <3>3. LockStep(p, At("migrate"))
      BY <2>0, <3>1, <3>2 DEF LockStep, Steps, Inside
    <3>4. At("migrate") \in Appliers
      BY <2>0 DEF Steps, Inside
    <3>5. QED
      BY <3>3, <3>4, Zenon
  <2>5. CASE ReleaseLock(p)
    <3>1. /\ proc' = [proc EXCEPT ![p] = Idle] /\ proc[p].pc = "release"
          /\ lock' \in {lock, NoLock}
      BY <2>5 DEF ReleaseLock
    <3>2. LockStep(p, Idle)
      BY <1>1, <1>4, <1>5, <3>1 DEF LockStep
    <3>3. QED
      BY <1>5, <3>2, Zenon
  <2>6. QED
    BY <2>1, <2>2, <2>3, <2>4, <2>5
<1>6. /\ proc' = [proc EXCEPT ![p] = r]
      /\ r.pc \in {"idle", "clear", "open", "stamp", "migrate"}
      /\ r.released = FALSE \/ r.released = proc[p].released
      /\ r.pc # "idle" => r.base = proc[p].base /\ r.want = proc[p].want
      /\ r.pc = "clear" => lock.owner = Gone
      /\ \/ r.pc \notin Inside /\ ~ReleaseLock(p) /\ (~ClearStaleLock(p) => lock' = lock)
         \/ r.pc = "stamp" /\ lock = NoLock /\ lock' = [owner |-> p, stamped |-> FALSE]
         \/ r.pc = "migrate" /\ proc[p].pc = "stamp" /\ lock'.owner = lock.owner
         \/ r.pc = "idle" /\ proc[p].pc = "release"
      /\ lock' \in [owner : Procs \cup {"none", Gone}, stamped : BOOLEAN]
  BY <1>13, Zenon DEF LockStep
<1>7. proc'[p] = r /\ \A q \in Procs \ {p} : proc'[q] = proc[q]
  BY <1>6 DEF ApplyTypeOK
<1>8. ApplyTypeOK'
  BY <1>3, <1>6 DEF ApplyTypeOK
<1>9. InsideOwnsLock'
  <2> SUFFICES ASSUME ~disturbed PROVE InsideOwnsLock'
    BY <1>3 DEF InsideOwnsLock
  <2>2. /\ lock.owner # Gone
        /\ \A q \in Procs : /\ proc[q].pc \in Inside => lock.owner = q
                            /\ proc[q].pc # "clear" /\ ~proc[q].released
    BY Zenon DEF InsideOwnsLock
  <2>1. ~ClearStaleLock(p) /\ lock.owner # Gone /\ r.pc # "clear"
    BY <1>6, <1>12, <2>2
  <2>3. ~r.released
    BY <1>6, <2>2
  <2>4. CASE r.pc \notin Inside /\ ~ReleaseLock(p) /\ lock' = lock
    BY <1>7, <2>1, <2>2, <2>3, <2>4 DEF InsideOwnsLock
  <2>5. CASE r.pc = "stamp" /\ lock = NoLock /\ lock' = [owner |-> p, stamped |-> FALSE]
    <3>1. \A q \in Procs : proc[q].pc \notin Inside
      BY <1>4, <2>2, <2>5, SchemaApplyAssumption
    <3>2. lock'.owner = p /\ p # Gone
      BY <2>5, SchemaApplyAssumption DEF Gone
    <3>3. QED
      BY <1>7, <2>1, <2>2, <2>3, <3>1, <3>2 DEF InsideOwnsLock
  <2>6. CASE r.pc = "migrate" /\ proc[p].pc = "stamp" /\ lock'.owner = lock.owner
    BY <1>7, <2>1, <2>2, <2>3, <2>6 DEF InsideOwnsLock, Inside
  <2>7. CASE r.pc = "idle" /\ proc[p].pc = "release"
    <3>1. lock.owner = p /\ \A q \in Procs \ {p} : proc[q].pc \notin Inside
      BY <2>2, <2>7 DEF Inside
    <3>2. lock'.owner # Gone
      <4>1. lock' = lock \/ lock' = NoLock
        BY <1>2, <2>7 DEF LookAtLock, ClearStaleLock, OpenLock, StampLock, ReleaseLock
      <4>2. QED
        BY <1>4, <2>1, <4>1 DEF Gone
    <3>3. QED
      BY <1>7, <2>1, <2>2, <2>3, <2>7, <3>1, <3>2 DEF InsideOwnsLock, Inside
  <2>8. QED
    BY <1>6, <2>1, <2>4, <2>5, <2>6, <2>7
<1>10. p \notin Consenting /\ r.pc \notin {"idle", "plan"} => r.base \subseteq r.want
  BY <1>2, <1>6 DEF PlanIsConsented
<1>11. QED
  BY <1>2, <1>3, <1>6, <1>8, <1>9, <1>10, QuietKeeps

\* SIGINT releases the lock, and the apply goes on.
LEMMA InterruptKeeps ==
  ASSUME ApplyInv, NEW p \in Procs, Interrupt(p) PROVE ApplyInv'
<1> USE DEF ApplyInv
<1> DEFINE r == [proc[p] EXCEPT !.released = TRUE]
<1>1. /\ r \in Appliers /\ r.pc = proc[p].pc /\ r.want = proc[p].want
      /\ r.base = proc[p].base /\ r.over = proc[p].over
  BY DEF ApplyTypeOK, Appliers
<1>2. /\ proc' = [proc EXCEPT ![p] = r] /\ lock' = NoLock /\ disturbed' = TRUE
      /\ proc[p].pc \in Inside
      /\ UNCHANGED <<wanted, snapshot, journal, forked, overwritten, orphaned, taken>>
  BY DEF Interrupt
<1>3. ApplyTypeOK'
  BY <1>1, <1>2 DEF ApplyTypeOK, NoLock
<1>4. InsideOwnsLock'
  BY <1>2 DEF InsideOwnsLock
<1>5. p \notin Consenting => r.base \subseteq r.want
  BY <1>1, <1>2 DEF PlanIsConsented, Inside
<1>6. ~Recording(p) => r.pc \notin {"tear", "write"}
  BY <1>1 DEF Recording
<1> HIDE DEF r
<1>7. QED
  BY <1>1, <1>2, <1>3, <1>4, <1>5, <1>6, QuietKeeps

\* A process that ends while it records leaves a migration without its snapshot.
LEMMA CrashKeeps ==
  ASSUME ApplyInv, NEW p \in Procs, CrashApply(p) PROVE ApplyInv'
<1> USE DEF ApplyInv
<1>1. /\ proc' = [proc EXCEPT ![p] = Idle] /\ disturbed' = TRUE
      /\ lock' = (IF lock.owner = p THEN [lock EXCEPT !.owner = Gone] ELSE lock)
      /\ orphaned' = (orphaned \/ Recording(p))
      /\ UNCHANGED <<wanted, snapshot, journal, forked, overwritten, taken>>
  BY DEF CrashApply, Recording
<1>2. Idle \in Appliers /\ Idle.pc = "idle"
  BY DEF Idle, Appliers, Steps
<1>3. ApplyTypeOK'
  BY <1>1, <1>2 DEF ApplyTypeOK, Recording
<1>4. InsideOwnsLock'
  BY <1>1 DEF InsideOwnsLock
<1>5. CASE ~Recording(p)
  <2>1. orphaned' = orphaned
    BY <1>1, <1>5 DEF ApplyTypeOK
  <2>2. QED
    BY <1>1, <1>2, <1>3, <1>4, <1>5, <2>1, QuietKeeps
<1>6. CASE Recording(p)
  <2>1. proc'[p] = Idle /\ \A q \in Procs \ {p} : proc'[q] = proc[q]
    BY <1>1 DEF ApplyTypeOK
  <2>2. OneRecords' /\ PlanStillHolds' /\ PlanIsConsented' /\ DropsAreConsented'
    BY <1>1, <1>2, <2>1 DEF OneRecords, PlanStillHolds, PlanIsConsented, DropsAreConsented, Recording
  <2>3. JournalLeads'
    BY <1>1, <1>6 DEF JournalLeads
  <2>4. QED
    BY <1>3, <1>4, <2>2, <2>3
<1>7. QED
  BY <1>5, <1>6

\* A migration more creates and drops what it creates and drops, once more.
LEMMA OneMigrationMore ==
  ASSUME IsFiniteSet(journal), NEW m, m \notin journal, journal' = journal \cup {m},
         NEW f \in Features, m.creates \cap m.drops = {}
  PROVE  Times(f)' = Times(f) + (IF f \in m.creates THEN 1 ELSE 0) - (IF f \in m.drops THEN 1 ELSE 0)
<1> DEFINE C == {n \in journal : f \in n.creates}
           D == {n \in journal : f \in n.drops}
           E == {n \in journal' : f \in n.creates}
           G == {n \in journal' : f \in n.drops}
<1>1. IsFiniteSet(C) /\ Cardinality(C) \in Nat /\ IsFiniteSet(D) /\ Cardinality(D) \in Nat
      /\ m \notin C /\ m \notin D
  <2>1. C \subseteq journal /\ D \subseteq journal
    OBVIOUS
  <2>2. QED
    BY <2>1, FS_Subset, FS_CardinalityType
<1>2. Cardinality(E) = Cardinality(C) + (IF f \in m.creates THEN 1 ELSE 0)
  <2>1. CASE f \in m.creates
    <3>1. E = C \cup {m}
      BY <2>1
    <3> HIDE DEF C, E
    <3>2. QED
      BY <1>1, <2>1, <3>1, FS_AddElement
  <2>2. CASE f \notin m.creates
    <3>1. E = C
      BY <2>2
    <3> HIDE DEF C, E
    <3>2. QED
      BY <1>1, <2>2, <3>1
  <2>3. QED
    BY <2>1, <2>2
<1>3. Cardinality(G) = Cardinality(D) + (IF f \in m.drops THEN 1 ELSE 0)
  <2>1. CASE f \in m.drops
    <3>1. G = D \cup {m}
      BY <2>1
    <3> HIDE DEF D, G
    <3>2. QED
      BY <1>1, <2>1, <3>1, FS_AddElement
  <2>2. CASE f \notin m.drops
    <3>1. G = D
      BY <2>2
    <3> HIDE DEF D, G
    <3>2. QED
      BY <1>1, <2>2, <3>1
  <2>3. QED
    BY <2>1, <2>2
<1>4. Times(f) = Cardinality(C) - Cardinality(D) /\ Times(f)' = Cardinality(E) - Cardinality(G)
  BY DEF Times
<1> HIDE DEF C, D, E, G
<1>5. QED
  BY <1>1, <1>2, <1>3, <1>4

\* The migration is written first: from now on the journal is ahead of the snapshot.
LEMMA MigrationKeeps ==
  ASSUME ApplyInv, NEW p \in Procs, WriteMigration(p) PROVE ApplyInv'
<1> USE DEF ApplyInv
<1> DEFINE base == proc[p].base
           want == proc[p].want
           m    == Migration(base, want)
           r    == [proc[p] EXCEPT !.pc = "tear"]
<1>1. /\ proc[p].pc = "migrate" /\ proc' = [proc EXCEPT ![p] = r]
      /\ journal' = {n \in journal : ~SameFile(m, n)} \cup {m}
      /\ overwritten' = (overwritten \/ \E n \in journal : SameFile(m, n))
      /\ forked' = (forked \/ snapshot # base \/ \E q \in Procs : Recording(q))
      /\ UNCHANGED <<wanted, snapshot, lock, orphaned, disturbed, taken>>
  BY DEF WriteMigration, Recording
<1>2. /\ proc[p] \in Appliers /\ r \in Appliers /\ r.pc = "tear" /\ r.want = want /\ r.base = base
      /\ r.released = proc[p].released
  BY DEF ApplyTypeOK, Appliers, Steps, Inside
<1>3. proc'[p] = r /\ \A q \in Procs \ {p} : proc'[q] = proc[q]
  BY <1>1 DEF ApplyTypeOK
<1>4. IsFiniteSet(journal')
  <2>1. IsFiniteSet({n \in journal : ~SameFile(m, n)})
    BY FS_Subset DEF ApplyTypeOK
  <2>2. QED
    BY <1>1, <2>1, FS_AddElement
<1>5. ApplyTypeOK'
  BY <1>1, <1>2, <1>4 DEF ApplyTypeOK
<1>6. InsideOwnsLock'
  <2> SUFFICES ASSUME ~disturbed PROVE InsideOwnsLock'
    BY <1>1 DEF InsideOwnsLock
  <2>1. /\ lock.owner # Gone
        /\ \A q \in Procs : /\ proc[q].pc \in Inside => lock.owner = q
                            /\ proc[q].pc # "clear" /\ ~proc[q].released
    BY DEF InsideOwnsLock
  <2>2. QED
    BY <1>1, <1>2, <1>3, <2>1 DEF InsideOwnsLock, Inside
<1>7. PlanIsConsented'
  BY <1>1, <1>2, <1>3 DEF PlanIsConsented
<1>8. CASE forked'
  BY <1>5, <1>6, <1>7, <1>8 DEF OneRecords, PlanStillHolds, JournalLeads, DropsAreConsented
<1>9. CASE ~forked'
  <2>1. ~forked /\ snapshot = base /\ \A q \in Procs : ~Recording(q)
    BY <1>1, <1>9
  <2> HIDE DEF base, want, m, r
  <2>2. OneRecords' /\ PlanStillHolds' /\ DropsAreConsented'
    BY <1>1, <1>2, <1>3, <2>1 DEF OneRecords, PlanStillHolds, DropsAreConsented, Recording
  <2>3. JournalLeads'
    <3> SUFFICES ASSUME ~overwritten', ~orphaned' PROVE JournalLeads'
      BY DEF JournalLeads
    <3>1. ~overwritten /\ ~orphaned /\ \A n \in journal : ~SameFile(m, n)
      BY <1>1
    <3>2. Builds(base)
      BY <2>1, <3>1 DEF JournalLeads, BetweenApplies, Recording
    <3>3. m \notin journal /\ journal' = journal \cup {m}
      BY <1>1, <3>1 DEF SameFile
    <3>4. m.creates = want \ base /\ m.drops = base \ want
      BY DEF m, Migration, PlanCreates, PlanDrops, base, want
    <3>5. \A f \in Features : Times(f)' = IF f \in want THEN 1 ELSE 0
      <4> TAKE f \in Features
      <4>1. Times(f)' = Times(f) + (IF f \in m.creates THEN 1 ELSE 0) - (IF f \in m.drops THEN 1 ELSE 0)
        BY <3>3, <3>4, OneMigrationMore DEF ApplyTypeOK
      <4>2. Times(f) = IF f \in base THEN 1 ELSE 0
        BY <3>2 DEF Builds
      <4>3. QED
        BY <3>4, <4>1, <4>2
    <3>6. \A q \in Procs : Recording(q)' => q = p
      BY <1>3, <2>1 DEF Recording
    <3>7. proc'[p].want = want /\ ~BetweenApplies'
      BY <1>2, <1>3 DEF BetweenApplies
    <3>8. QED
      BY <3>5, <3>6, <3>7 DEF JournalLeads, Builds
  <2>4. QED
    BY <1>5, <1>6, <1>7, <2>2, <2>3
<1>10. QED
  BY <1>8, <1>9

\* The file of the snapshot is emptied: the plan was made against what was in it.
LEMMA TearKeeps ==
  ASSUME ApplyInv, NEW p \in Procs, TearSnapshot(p) PROVE ApplyInv'
<1> USE DEF ApplyInv
<1> DEFINE r == [proc[p] EXCEPT !.pc = "write", !.over = snapshot]
<1>1. /\ proc[p].pc = "tear" /\ proc' = [proc EXCEPT ![p] = r] /\ snapshot' = {}
      /\ forked' = (forked \/ snapshot # proc[p].base)
      /\ UNCHANGED <<wanted, journal, lock, orphaned, overwritten, disturbed, taken>>
  BY DEF TearSnapshot
<1>2. /\ proc[p] \in Appliers /\ r \in Appliers /\ r.pc = "write" /\ r.want = proc[p].want
      /\ r.base = proc[p].base /\ r.over = snapshot /\ r.released = proc[p].released
  BY DEF ApplyTypeOK, Appliers, Steps, Inside
<1>3. proc'[p] = r /\ \A q \in Procs \ {p} : proc'[q] = proc[q]
  BY <1>1 DEF ApplyTypeOK
<1> HIDE DEF r
<1>4. ApplyTypeOK'
  BY <1>1, <1>2 DEF ApplyTypeOK
<1>5. InsideOwnsLock'
  <2> SUFFICES ASSUME ~disturbed PROVE InsideOwnsLock'
    BY <1>1 DEF InsideOwnsLock
  <2>1. /\ lock.owner # Gone
        /\ \A q \in Procs : /\ proc[q].pc \in Inside => lock.owner = q
                            /\ proc[q].pc # "clear" /\ ~proc[q].released
    BY DEF InsideOwnsLock
  <2>2. QED
    BY <1>1, <1>2, <1>3, <2>1 DEF InsideOwnsLock, Inside
<1>6. PlanIsConsented'
  BY <1>1, <1>2, <1>3 DEF PlanIsConsented
<1>7. CASE forked'
  BY <1>4, <1>5, <1>6, <1>7 DEF OneRecords, PlanStillHolds, JournalLeads, DropsAreConsented
<1>8. CASE ~forked'
  <2>1. ~forked /\ snapshot = proc[p].base
    BY <1>1, <1>8
  <2>2. \A q \in Procs : Recording(q) <=> q = p
    BY <1>1, <2>1 DEF OneRecords, Recording
  <2>3. \A q \in Procs : Recording(q)' <=> q = p
    BY <1>2, <1>3, <2>2 DEF Recording
  <2>4. OneRecords' /\ DropsAreConsented'
    BY <1>1, <2>1, <2>3 DEF OneRecords, DropsAreConsented
  <2>5. PlanStillHolds'
    BY <1>2, <1>3, <2>1, <2>3 DEF PlanStillHolds, Recording
  <2>6. JournalLeads'
    <3> SUFFICES ASSUME ~overwritten, ~orphaned PROVE JournalLeads'
      BY <1>1 DEF JournalLeads
    <3>1. Builds(proc[p].want)
      BY <2>1, <2>2 DEF JournalLeads
    <3>2. Builds(proc[p].want)'
      BY <1>1, <1>2, <1>3, <3>1 DEF Builds, Times
    <3>3. ~BetweenApplies'
      BY <1>2, <1>3 DEF BetweenApplies
    <3>4. QED
      BY <2>3, <3>2, <3>3 DEF JournalLeads
  <2>7. QED
    BY <1>4, <1>5, <1>6, <2>4, <2>5, <2>6
<1>9. QED
  BY <1>7, <1>8

\* The new snapshot says what the journal builds, and what it loses was consented to.
LEMMA SnapshotKeeps ==
  ASSUME ApplyInv, NEW p \in Procs, WriteSnapshot(p) PROVE ApplyInv'
<1> USE DEF ApplyInv
<1> DEFINE r == [proc[p] EXCEPT !.pc = "release"]
<1>1. /\ proc[p].pc = "write" /\ proc' = [proc EXCEPT ![p] = r] /\ snapshot' = proc[p].want
      /\ forked' = (forked \/ snapshot # {})
      /\ taken' = (IF p \in Consenting THEN taken ELSE taken \cup (proc[p].over \ proc[p].want))
      /\ UNCHANGED <<wanted, journal, lock, orphaned, overwritten, disturbed>>
  BY DEF WriteSnapshot, SnapshotOf
<1>2. /\ proc[p] \in Appliers /\ r \in Appliers /\ r.pc = "release" /\ r.want = proc[p].want
      /\ r.base = proc[p].base /\ r.released = proc[p].released /\ proc[p].want \in SUBSET Features
  BY DEF ApplyTypeOK, Appliers, Steps, Inside
<1>3. proc'[p] = r /\ \A q \in Procs \ {p} : proc'[q] = proc[q]
  BY <1>1 DEF ApplyTypeOK
<1> HIDE DEF r
<1>4. ApplyTypeOK'
  BY <1>1, <1>2 DEF ApplyTypeOK
<1>5. InsideOwnsLock'
  <2> SUFFICES ASSUME ~disturbed PROVE InsideOwnsLock'
    BY <1>1 DEF InsideOwnsLock
  <2>1. /\ lock.owner # Gone
        /\ \A q \in Procs : /\ proc[q].pc \in Inside => lock.owner = q
                            /\ proc[q].pc # "clear" /\ ~proc[q].released
    BY DEF InsideOwnsLock
  <2>2. QED
    BY <1>1, <1>2, <1>3, <2>1 DEF InsideOwnsLock, Inside
<1>6. PlanIsConsented'
  BY <1>1, <1>2, <1>3 DEF PlanIsConsented
<1>7. CASE forked'
  BY <1>4, <1>5, <1>6, <1>7 DEF OneRecords, PlanStillHolds, JournalLeads, DropsAreConsented
<1>8. CASE ~forked'
  <2>1. ~forked /\ snapshot = {}
    BY <1>1, <1>8
  <2>2. \A q \in Procs : Recording(q) <=> q = p
    BY <1>1, <2>1 DEF OneRecords, Recording
  <2>3. \A q \in Procs : ~Recording(q)'
    BY <1>2, <1>3, <2>2 DEF Recording
  <2>4. OneRecords' /\ PlanStillHolds'
    BY <2>3 DEF OneRecords, PlanStillHolds, Recording
  <2>5. DropsAreConsented'
    <3>1. p \notin Consenting => proc[p].over \subseteq proc[p].want
      BY <1>1, <2>1 DEF PlanStillHolds, PlanIsConsented
    <3>2. QED
      BY <1>1, <2>1, <3>1 DEF DropsAreConsented
  <2>6. JournalLeads'
    <3> SUFFICES ASSUME ~overwritten, ~orphaned PROVE JournalLeads'
      BY <1>1 DEF JournalLeads
    <3>1. Builds(proc[p].want)
      BY <2>1, <2>2 DEF JournalLeads
    <3>2. Builds(snapshot)'
      BY <1>1, <3>1 DEF Builds, Times
    <3>3. QED
      BY <2>3, <3>2 DEF JournalLeads
  <2>7. QED
    BY <1>4, <1>5, <1>6, <2>4, <2>5, <2>6
<1>9. QED
  BY <1>7, <1>8

\* Every step of every process keeps the invariant.
LEMMA ApplyStep == ApplyInv /\ [SchemaApplyNext]_schemaVars => ApplyInv'
<1> SUFFICES ASSUME ApplyInv, [SchemaApplyNext]_schemaVars PROVE ApplyInv'
  OBVIOUS
<1>1. CASE Tick \/ \E f \in Features : EditSchema(f)
  BY <1>1, EditKeeps
<1>2. ASSUME NEW p \in Procs, LoadSchema(p) \/ Plan(p) PROVE ApplyInv'
  BY <1>2, PlanKeeps
<1>3. ASSUME NEW p \in Procs,
             LookAtLock(p) \/ ClearStaleLock(p) \/ OpenLock(p) \/ StampLock(p) \/ ReleaseLock(p)
      PROVE  ApplyInv'
  BY <1>3, LockKeeps
<1>4. ASSUME NEW p \in Procs, WriteMigration(p) PROVE ApplyInv'
  BY <1>4, MigrationKeeps
<1>5. ASSUME NEW p \in Procs, TearSnapshot(p) PROVE ApplyInv'
  BY <1>5, TearKeeps
<1>6. ASSUME NEW p \in Procs, WriteSnapshot(p) PROVE ApplyInv'
  BY <1>6, SnapshotKeeps
<1>7. ASSUME NEW p \in Procs, Interrupt(p) \/ CrashApply(p) PROVE ApplyInv'
  BY <1>7, InterruptKeeps, CrashKeeps
<1>8. CASE UNCHANGED schemaVars
  <2> USE <1>8 DEF schemaVars, ApplyInv
  <2>1. ApplyTypeOK' /\ InsideOwnsLock' /\ PlanIsConsented' /\ DropsAreConsented'
    BY DEF ApplyTypeOK, InsideOwnsLock, PlanIsConsented, DropsAreConsented
  <2>2. OneRecords' /\ PlanStillHolds' /\ JournalLeads'
    BY DEF OneRecords, PlanStillHolds, JournalLeads, Recording, Builds, Times, BetweenApplies
  <2>3. QED
    BY <2>1, <2>2
<1>9. QED
  BY <1>1, <1>2, <1>3, <1>4, <1>5, <1>6, <1>7, <1>8 DEF SchemaApplyNext

\* For any number of processes: applies that are not stopped half way take turns; unless
\* plans crossed, a migration was overwritten or a process stopped between its two
\* writes, the journal builds the snapshot; and no feature leaves it without consent.
THEOREM AppliesStaySound == SchemaApplySpec => []AppliesAreSound
<1>1. ApplyInv => AppliesAreSound
  <2> SUFFICES ASSUME ApplyInv PROVE AppliesAreSound
    OBVIOUS
  <2>1. OneApplyAtATime
    BY DEF ApplyInv, InsideOwnsLock, OneApplyAtATime
  <2>2. JournalBuildsSnapshot
    BY DEF ApplyInv, JournalLeads, JournalBuildsSnapshot, Builds
  <2>3. QED
    BY <2>1, <2>2 DEF ApplyInv, AppliesAreSound, HistoryIsSound
<1>2. QED
  BY ApplyStart, ApplyStep, <1>1, PTL DEF SchemaApplySpec

-----------------------------------------------------------------------------
(* Join tables: what a write that is alone has done to its pairs so far. *)

Ids == Lefts \cup Rights
Writers == [pc : {"idle", "next", "link"}, rec : Ids \cup {0}, body : Seq(Seq(Ids)),
            list : Seq(Ids), todo : Seq(Ids), alone : BOOLEAN]

JoinTypeOK ==
    /\ stored \subseteq given /\ given \subseteq Ids
    /\ clerk \in [Clerks -> Writers]
    /\ \A c \in Writing :
          LET w == clerk[c]
          IN  /\ w.rec \in given
              /\ \A i \in DOMAIN w.body : \A j \in DOMAIN w.body[i] : w.body[i][j] \in Other(w.rec)
              /\ \A i \in DOMAIN w.list : w.list[i] \in Other(w.rec)

\* Between the DELETE of its last list and the SELECT.
Cleared(c) == c \in Writing /\ (clerk[c].pc = "link" \/ clerk[c].body = <<>>)
Done(c) == 1..(Len(clerk[c].list) - Len(clerk[c].todo))
Linked(c) == {PairOf(clerk[c].rec, clerk[c].list[i]) : i \in Done(c)}

\* What is left of the list is its end; what is done of it was there.
RestIsLeft(c) ==
    LET w == clerk[c]
    IN  /\ Len(w.todo) <= Len(w.list)
        /\ \A i \in 1..Len(w.todo) : w.todo[i] = w.list[(Len(w.list) - Len(w.todo)) + i]
        /\ \A i \in Done(c) : w.list[i] \in given
        /\ w.pc = "next" => w.todo = <<>>
TodoIsTheRest == \A c \in Clerks : Cleared(c) => RestIsLeft(c)

\* Nobody else writes the pairs of a record whose writer is alone.
AloneMeetsNone ==
    \A c, d \in Writing :
        c # d /\ clerk[c].alone => PairsOf(clerk[c].rec) \cap PairsOf(clerk[d].rec) = {}

\* The rows of its record are those it wrote, but for records that went meanwhile.
AloneLinks ==
    \A c \in Clerks : Cleared(c) /\ clerk[c].alone =>
        joined \cap PairsOf(clerk[c].rec) = Linked(c) \cap (stored \X stored)

JoinInv == JoinTypeOK /\ TodoIsTheRest /\ AloneMeetsNone /\ AloneLinks /\ LinksAreTheLastList

\* A pair belongs to the two records it names.
LEMMA PairsOfTwo ==
  ASSUME NEW r \in Ids, NEW s \in Other(r)
  PROVE  /\ s \in Ids /\ PairOf(r, s) \in PairsOf(r)
         /\ \A x \in Ids : PairOf(r, s) \in PairsOf(x) <=> x \in {r, s}
         /\ \A S : PairOf(r, s) \in S \X S <=> {r, s} \subseteq S
<1>1. CASE r \in Lefts
  BY <1>1, JoinTablesAssumption DEF Ids, Other, PairOf, PairsOf
<1>2. CASE r \notin Lefts
  BY <1>2, JoinTablesAssumption DEF Ids, Other, PairOf, PairsOf
<1>3. QED
  BY <1>1, <1>2

\* Two records that have pairs in common are one, or on two sides.
LEMMA PairsInCommon ==
  ASSUME NEW r \in Ids, NEW x \in Ids, x # r, x \notin Other(r)
  PROVE  PairsOf(r) \cap PairsOf(x) = {} /\ r \notin Other(x)
BY JoinTablesAssumption DEF Ids, Other, PairOf, PairsOf

\* Nothing is written before the first write.
LEMMA JoinStart == JoinTablesInit => JoinInv
<1> SUFFICES ASSUME JoinTablesInit PROVE JoinInv
  OBVIOUS
<1>1. NotWriting \in Writers /\ NotWriting.pc = "idle"
  BY DEF NotWriting, Writers
<1>2. Writing = {}
  BY <1>1 DEF JoinTablesInit, Writing
<1>3. JoinTypeOK
  BY <1>1, <1>2 DEF JoinTablesInit, JoinTypeOK, Ids
<1>4. QED
  BY <1>2, <1>3 DEF JoinTablesInit, JoinInv, TodoIsTheRest, AloneMeetsNone, AloneLinks,
     LinksAreTheLastList, Cleared

\* A write begins; the writes it meets, and it, are not alone from now on.
LEMMA StartsKeeps ==
  ASSUME JoinInv, NEW c \in Clerks, NEW r \in Ids, NEW body \in Bodies,
         \A i \in DOMAIN body : \A j \in DOMAIN body[i] : body[i][j] \in Other(r),
         Starts(c, r, body), stored \subseteq stored', given \subseteq given', stored' \subseteq given',
         given' \subseteq Ids, r \in given', (stored' \ stored) \cap given = {}
  PROVE  JoinInv'
<1> USE DEF JoinInv
<1> DEFINE met == {d \in Writing : Meets(r, d)}
           new == [NotWriting EXCEPT !.pc = "next", !.rec = r, !.body = body, !.alone = met = {}]
<1>1. /\ body \in Seq(Seq(Ids)) /\ body # <<>>
  BY JoinTablesAssumption DEF Ids
<1>2. /\ new \in Writers /\ new.pc = "next" /\ new.rec = r /\ new.body = body /\ new.list = <<>>
      /\ new.todo = <<>> /\ (new.alone <=> met = {})
  <2>1. <<>> \in Seq(Ids) /\ (met = {}) \in BOOLEAN /\ r \in Ids \cup {0}
    OBVIOUS
  <2> HIDE DEF met
  <2>2. QED
    BY <1>1, <2>1 DEF NotWriting, Writers
<1>3. /\ clerk[c].pc = "idle" /\ UNCHANGED <<joined, meant, mixed>>
      /\ clerk' = [d \in Clerks |-> IF d = c THEN new
                                    ELSE IF d \in met THEN [clerk[d] EXCEPT !.alone = FALSE] ELSE clerk[d]]
  BY DEF Starts
<1> HIDE DEF new
<1>4. /\ clerk' \in [Clerks -> Writers] /\ clerk'[c] = new
      /\ \A d \in Clerks \ {c} :
            /\ clerk'[d].pc = clerk[d].pc /\ clerk'[d].rec = clerk[d].rec
            /\ clerk'[d].body = clerk[d].body /\ clerk'[d].list = clerk[d].list
            /\ clerk'[d].todo = clerk[d].todo
            /\ clerk'[d].alone => clerk[d].alone /\ d \notin met
  BY <1>2, <1>3 DEF JoinTypeOK, Writers
<1>5. Writing' = Writing \cup {c} /\ c \notin Writing
  BY <1>2, <1>3, <1>4 DEF Writing
<1>6. \A d \in Clerks : Cleared(d)' <=> Cleared(d)
  BY <1>1, <1>2, <1>4, <1>5 DEF Cleared, Writing
<1>7. \A d \in Writing : Done(d)' = Done(d) /\ Linked(d)' = Linked(d) /\ d # c
  <2> TAKE d \in Writing
  <2>1. d \in Clerks \ {c}
    BY <1>5 DEF Writing
  <2>2. Done(d)' = Done(d)
    BY <1>4, <2>1 DEF Done
  <2>3. Linked(d)' = Linked(d)
    BY <1>4, <2>1, <2>2 DEF Linked, PairOf
  <2>4. QED
    BY <2>1, <2>2, <2>3
<1>8. JoinTypeOK'
  <2>1. \A d \in Writing : clerk'[d].rec \in given'
    BY <1>4, <1>5 DEF JoinTypeOK, Writing
  <2>2. \A d \in Writing : /\ clerk'[d].body = clerk[d].body /\ clerk'[d].list = clerk[d].list
                           /\ clerk'[d].rec = clerk[d].rec
    BY <1>4, <1>5 DEF Writing
  <2>3. DOMAIN <<>> = {}
    OBVIOUS
  <2>4. QED
    BY <1>2, <1>4, <1>5, <2>1, <2>2, <2>3 DEF JoinTypeOK
<1>9. TodoIsTheRest'
  <2> SUFFICES ASSUME NEW d \in Clerks, Cleared(d) PROVE RestIsLeft(d)'
    BY <1>6 DEF TodoIsTheRest
  <2>1. d \in Writing /\ d # c /\ RestIsLeft(d)
    BY <1>5 DEF Cleared, TodoIsTheRest
  <2>2. clerk'[d].pc = clerk[d].pc /\ clerk'[d].list = clerk[d].list /\ clerk'[d].todo = clerk[d].todo
    BY <1>4, <2>1
  <2>3. QED
    BY <1>7, <2>1, <2>2 DEF RestIsLeft
<1>10. AloneMeetsNone'
  <2>1. \A d \in Writing : clerk[d].rec \in Ids
    BY DEF JoinTypeOK, Writing
  <2>2. \A d \in Writing \ met : PairsOf(r) \cap PairsOf(clerk[d].rec) = {}
    BY <2>1, PairsInCommon DEF Meets
  <2>3. \A d \in Writing : d \in Clerks \ {c} /\ clerk'[d].rec = clerk[d].rec
                           /\ (clerk'[d].alone => clerk[d].alone /\ d \notin met)
    BY <1>4, <1>5 DEF Writing
  <2>4. clerk'[c].rec = r /\ (clerk'[c].alone => met = {})
    BY <1>2, <1>4
  <2> HIDE DEF met
  <2> SUFFICES ASSUME NEW b \in Writing \cup {c}, NEW d \in Writing \cup {c}, b # d, clerk'[b].alone
               PROVE  PairsOf(clerk'[b].rec) \cap PairsOf(clerk'[d].rec) = {}
    BY <1>5 DEF AloneMeetsNone
  <2>5. CASE b = c
    BY <2>2, <2>3, <2>4, <2>5
  <2>6. CASE d = c
    BY <2>2, <2>3, <2>4, <2>6
  <2>7. CASE b # c /\ d # c
    BY <2>3, <2>7 DEF AloneMeetsNone
  <2>8. QED
    BY <2>5, <2>6, <2>7
<1>11. AloneLinks'
  <2> SUFFICES ASSUME NEW d \in Clerks, Cleared(d), clerk'[d].alone
               PROVE  joined \cap PairsOf(clerk'[d].rec) = Linked(d)' \cap (stored' \X stored')
    BY <1>3, <1>6 DEF AloneLinks
  <2>1. d \in Writing /\ d # c
    BY <1>5 DEF Cleared
  <2>2. /\ clerk[d].alone /\ clerk'[d].rec = clerk[d].rec /\ Linked(d)' = Linked(d)
        /\ clerk[d].rec \in given /\ clerk[d].rec \in Ids
        /\ \A i \in Done(d) : clerk[d].list[i] \in given /\ clerk[d].list[i] \in Other(clerk[d].rec)
    <3>1. \A i \in Done(d) : i \in DOMAIN clerk[d].list
      BY DEF Done, JoinTypeOK, Writers
    <3>2. QED
      BY <1>4, <1>7, <2>1, <3>1 DEF JoinTypeOK, TodoIsTheRest, RestIsLeft
  <2>3. Linked(d) \cap (stored' \X stored') = Linked(d) \cap (stored \X stored)
    <3>1. \A i \in Done(d) :
             PairOf(clerk[d].rec, clerk[d].list[i]) \in stored' \X stored'
                <=> PairOf(clerk[d].rec, clerk[d].list[i]) \in stored \X stored
      <4> TAKE i \in Done(d)
      <4>1. \A S : PairOf(clerk[d].rec, clerk[d].list[i]) \in S \X S
                      <=> {clerk[d].rec, clerk[d].list[i]} \subseteq S
        BY <2>2, PairsOfTwo
      <4>2. QED
        BY <2>2, <4>1
    <3>2. QED
      BY <3>1 DEF Linked
  <2>4. QED
    BY <2>2, <2>3 DEF AloneLinks
<1>12. LinksAreTheLastList'
  <2>1. \A d \in Writing : d \in Writing' /\ clerk'[d].rec = clerk[d].rec
    BY <1>4, <1>5 DEF Writing
  <2>2. QED
    BY <1>3, <2>1 DEF LinksAreTheLastList
<1>13. QED
  BY <1>8, <1>9, <1>10, <1>11, <1>12

\* A create gives an id that was never given, an update writes one that was.
LEMMA DocumentKeeps ==
  ASSUME JoinInv, NEW c \in Clerks, NEW r \in Ids, NEW body \in Bodies,
         \A i \in DOMAIN body : \A j \in DOMAIN body[i] : body[i][j] \in Other(r),
         CreateDocument(c, r, body) \/ UpdateDocument(c, r, body)
  PROVE  JoinInv'
<1>1. /\ Starts(c, r, body) /\ stored \subseteq stored' /\ given \subseteq given'
      /\ stored' \subseteq given' /\ given' \subseteq Ids /\ r \in given' /\ (stored' \ stored) \cap given = {}
  BY DEF CreateDocument, UpdateDocument, JoinInv, JoinTypeOK
<1>2. QED
  BY <1>1, StartsKeeps

\* A write that ends, however it does, leaves the others as they are.
LEMMA EndsKeeps ==
  ASSUME JoinInv, NEW c \in Writing, clerk' = [clerk EXCEPT ![c] = NotWriting],
         UNCHANGED <<stored, given, joined>>
  PROVE  /\ JoinTypeOK' /\ TodoIsTheRest' /\ AloneMeetsNone' /\ AloneLinks'
         /\ \A d \in Writing \ {c} : d \in Writing' /\ clerk'[d].rec = clerk[d].rec
<1> USE DEF JoinInv
<1>1. NotWriting \in Writers /\ NotWriting.pc = "idle"
  BY DEF NotWriting, Writers
<1>2. /\ c \in Clerks /\ clerk' \in [Clerks -> Writers] /\ clerk'[c].pc = "idle"
      /\ \A d \in Clerks \ {c} : clerk'[d] = clerk[d]
  BY <1>1 DEF JoinTypeOK, Writing
<1>3. Writing' = Writing \ {c}
  BY <1>2 DEF Writing
<1>4. JoinTypeOK'
  <2>1. \A d \in Writing' : d \in Writing /\ clerk'[d] = clerk[d]
    BY <1>2, <1>3 DEF Writing
  <2>2. QED
    BY <1>2, <2>1 DEF JoinTypeOK
<1>5. \A d \in Clerks : Cleared(d)' => Cleared(d) /\ d # c /\ d \in Writing
  BY <1>2, <1>3 DEF Cleared
<1>6. \A d \in Clerks \ {c} : Done(d)' = Done(d) /\ Linked(d)' = Linked(d)
  BY <1>2 DEF Done, Linked
<1>7. TodoIsTheRest'
  <2> SUFFICES ASSUME NEW d \in Clerks, Cleared(d)' PROVE RestIsLeft(d)'
    BY DEF TodoIsTheRest
  <2>1. RestIsLeft(d) /\ clerk'[d] = clerk[d] /\ Done(d)' = Done(d) /\ given' = given
    BY <1>2, <1>5, <1>6 DEF TodoIsTheRest
  <2>2. QED
    BY <2>1, Zenon DEF RestIsLeft
<1>8. AloneMeetsNone'
  BY <1>2, <1>3 DEF AloneMeetsNone, Writing
<1>9. AloneLinks'
  BY <1>2, <1>5, <1>6 DEF AloneLinks
<1>10. QED
  BY <1>2, <1>3, <1>4, <1>7, <1>8, <1>9 DEF Writing

\* A write that ends half way leaves the pairs of its record open.
LEMMA StopsKeeps ==
  ASSUME JoinInv, NEW c \in Writing, Stops(c), UNCHANGED joined PROVE JoinInv'
<1>1. /\ clerk' = [clerk EXCEPT ![c] = NotWriting] /\ mixed' = mixed \cup PairsOf(clerk[c].rec)
      /\ UNCHANGED <<stored, given, joined, meant>>
  BY DEF Stops
<1>2. /\ JoinTypeOK' /\ TodoIsTheRest' /\ AloneMeetsNone' /\ AloneLinks'
      /\ \A d \in Writing \ {c} : d \in Writing' /\ clerk'[d].rec = clerk[d].rec
  BY <1>1, EndsKeeps
<1>3. LinksAreTheLastList'
  BY <1>1, <1>2 DEF JoinInv, LinksAreTheLastList
<1>4. QED
  BY <1>2, <1>3 DEF JoinInv

\* The next list begins with a DELETE: of its record's rows none is left.
LEMMA ClearLinksKeeps ==
  ASSUME JoinInv, NEW c \in Clerks, ClearLinks(c) PROVE JoinInv'
<1> USE DEF JoinInv
<1> DEFINE w == clerk[c]
           v == [w EXCEPT !.pc = "link", !.list = Head(w.body), !.todo = Head(w.body), !.body = Tail(w.body)]
<1>1. /\ w.pc = "next" /\ w.body # <<>> /\ c \in Writing /\ w \in Writers
      /\ joined' = joined \ PairsOf(w.rec)
      /\ clerk' = [clerk EXCEPT ![c] = v]
      /\ UNCHANGED <<stored, given, called, meant, mixed>>
  BY DEF ClearLinks, Clears, Writing, JoinTypeOK
<1>2. /\ Head(w.body) \in Seq(Ids) /\ Tail(w.body) \in Seq(Seq(Ids))
      /\ Head(w.body) = w.body[1] /\ 1 \in DOMAIN w.body
      /\ \A i \in DOMAIN Tail(w.body) : i + 1 \in DOMAIN w.body /\ Tail(w.body)[i] = w.body[i + 1]
  <2>1. w.body \in Seq(Seq(Ids)) /\ w.body # <<>>
    BY <1>1 DEF Writers
  <2> HIDE DEF w
  <2>2. QED
    BY <2>1
<1>3. /\ v \in Writers /\ v.pc = "link" /\ v.rec = w.rec /\ v.list = Head(w.body)
      /\ v.todo = Head(w.body) /\ v.body = Tail(w.body) /\ v.alone = w.alone
  BY <1>1, <1>2 DEF Writers
<1> HIDE DEF v
<1>4. clerk' \in [Clerks -> Writers] /\ clerk'[c] = v /\ \A d \in Clerks \ {c} : clerk'[d] = clerk[d]
  BY <1>1, <1>3 DEF JoinTypeOK
<1>5. Writing' = Writing
  BY <1>1, <1>3, <1>4 DEF Writing
<1>6. /\ w.rec \in given
      /\ \A i \in DOMAIN w.body : \A j \in DOMAIN w.body[i] : w.body[i][j] \in Other(w.rec)
  BY <1>1 DEF JoinTypeOK
<1>7. JoinTypeOK'
  <2>1. \A i \in DOMAIN v.list : v.list[i] \in Other(v.rec)
    BY <1>2, <1>3, <1>6
  <2>2. \A i \in DOMAIN v.body : \A j \in DOMAIN v.body[i] : v.body[i][j] \in Other(v.rec)
    BY <1>2, <1>3, <1>6
  <2>3. v.rec \in given
    BY <1>3, <1>6
  <2> HIDE DEF w
  <2>4. QED
    BY <1>1, <1>4, <1>5, <2>1, <2>2, <2>3 DEF JoinTypeOK
<1>8. \A d \in Clerks \ {c} : /\ Cleared(d)' <=> Cleared(d)
                              /\ Done(d)' = Done(d) /\ Linked(d)' = Linked(d)
  BY <1>4, <1>5 DEF Cleared, Done, Linked
<1>9. Done(c)' = {} /\ Linked(c)' = {}
  <2>1. Len(v.list) - Len(v.todo) = 0
    BY <1>2, <1>3
  <2>2. Done(c)' = 1..0
    BY <1>4, <2>1 DEF Done
  <2>3. 1..0 = {}
    OBVIOUS
  <2>4. QED
    BY <2>2, <2>3 DEF Linked
<1>10. TodoIsTheRest'
  <2>1. /\ Len(v.todo) <= Len(v.list) /\ v.pc # "next"
        /\ \A i \in 1..Len(v.todo) : v.todo[i] = v.list[(Len(v.list) - Len(v.todo)) + i]
    BY <1>2, <1>3
  <2>2. RestIsLeft(c)'
    BY <1>4, <1>9, <2>1 DEF RestIsLeft
  <2>3. \A d \in Clerks \ {c} : RestIsLeft(d) => RestIsLeft(d)'
    BY <1>1, <1>4, <1>8 DEF RestIsLeft
  <2>4. QED
    BY <1>8, <2>2, <2>3 DEF TodoIsTheRest
<1>11. AloneMeetsNone'
  BY <1>3, <1>4, <1>5 DEF AloneMeetsNone, Writing
<1>12. AloneLinks'
  <2>1. \A d \in Writing \ {c} : clerk[d].alone => PairsOf(clerk[d].rec) \cap PairsOf(w.rec) = {}
    BY <1>1 DEF AloneMeetsNone
  <2>2. QED
    BY <1>1, <1>3, <1>4, <1>8, <1>9, <2>1 DEF AloneLinks, Cleared
<1>13. LinksAreTheLastList'
  BY <1>1, <1>3, <1>4, <1>5 DEF LinksAreTheLastList, Writing
<1>14. QED
  BY <1>7, <1>10, <1>11, <1>12, <1>13

\* An INSERT adds the next pair, if both its records are there and it is not.
LEMMA InsertKeeps ==
  ASSUME JoinInv, NEW c \in Clerks, InsertLink(c) PROVE JoinInv'
<1> USE DEF JoinInv
<1> DEFINE w == clerk[c]
           s == Head(w.todo)
           p == PairOf(w.rec, s)
           v == [w EXCEPT !.todo = Tail(w.todo)]
<1>1. w.pc = "link" /\ w.todo # <<>> /\ c \in Writing /\ w \in Writers /\ Cleared(c)
  BY DEF InsertLink, Writing, JoinTypeOK, Cleared
<1>2. CASE ~({w.rec, s} \subseteq stored /\ p \notin joined)
  <2>1. Stops(c) /\ UNCHANGED joined
    BY <1>2 DEF InsertLink
  <2>2. QED
    BY <1>1, <2>1, StopsKeeps
<1>3. CASE {w.rec, s} \subseteq stored /\ p \notin joined
  <2>1. /\ joined' = joined \cup {p} /\ clerk' = [clerk EXCEPT ![c] = v]
        /\ UNCHANGED <<stored, given, called, meant, mixed>>
    BY <1>3 DEF InsertLink
  <2>2. /\ Tail(w.todo) \in Seq(Ids) /\ Len(Tail(w.todo)) = Len(w.todo) - 1 /\ Len(w.todo) \in Nat \ {0}
        /\ s = w.todo[1] /\ Len(w.list) \in Nat
        /\ \A i \in 1..Len(Tail(w.todo)) : Tail(w.todo)[i] = w.todo[i + 1]
        /\ DOMAIN w.list = 1..Len(w.list)
    <3>1. w.todo \in Seq(Ids) /\ w.todo # <<>> /\ w.list \in Seq(Ids)
      BY <1>1 DEF Writers
    <3> HIDE DEF w
    <3>2. QED
      BY <3>1
  <2>20. given' = given
    BY <2>1
  <2>3. /\ v \in Writers /\ v.pc = "link" /\ v.rec = w.rec /\ v.list = w.list
        /\ v.todo = Tail(w.todo) /\ v.body = w.body /\ v.alone = w.alone
    BY <1>1, <2>2 DEF Writers
  <2> HIDE DEF v
  <2>4. clerk' \in [Clerks -> Writers] /\ clerk'[c] = v /\ \A d \in Clerks \ {c} : clerk'[d] = clerk[d]
    BY <2>1, <2>3 DEF JoinTypeOK
  <2>5. Writing' = Writing
    BY <1>1, <2>3, <2>4 DEF Writing
  <2>6. \A d \in Clerks : Cleared(d)' <=> Cleared(d)
    BY <1>1, <2>3, <2>4, <2>5 DEF Cleared
  <2>7. /\ Len(w.todo) <= Len(w.list)
        /\ \A i \in 1..Len(w.todo) : w.todo[i] = w.list[(Len(w.list) - Len(w.todo)) + i]
        /\ \A i \in Done(c) : w.list[i] \in given
    BY <1>1 DEF TodoIsTheRest, RestIsLeft
  <2>8. \A d \in Clerks \ {c} : Done(d)' = Done(d) /\ Linked(d)' = Linked(d)
    BY <2>4 DEF Done, Linked
  <2> DEFINE n == Len(w.list) - Len(w.todo)
  <2>9. /\ n \in Nat /\ n + 1 \in DOMAIN w.list /\ s = w.list[n + 1]
        /\ Done(c) = 1..n /\ Done(c)' = 1..(n + 1) /\ 1..(n + 1) = (1..n) \cup {n + 1}
    <3>1. n \in Nat /\ n + 1 \in DOMAIN w.list /\ s = w.list[n + 1] /\ Done(c) = 1..n
      <4>1. Done(c) = 1..n
        BY DEF Done
      <4> HIDE DEF w, s
      <4>2. n \in Nat /\ n + 1 \in 1..Len(w.list) /\ 1 \in 1..Len(w.todo)
        <5> DEFINE L == Len(w.list)
                   T == Len(w.todo)
        <5>1. L \in Nat /\ T \in Nat \ {0} /\ T <= L
          BY <2>2, <2>7
        <5> HIDE DEF L, T
        <5>2. L - T \in Nat /\ (L - T) + 1 \in 1..L /\ 1 \in 1..T
          BY <5>1
        <5>3. QED
          BY <5>2 DEF L, T
      <4>3. w.todo[1] = w.list[n + 1]
        BY <2>7, <4>2
      <4>4. QED
        BY <2>2, <4>1, <4>2, <4>3
    <3>2. Done(c)' = 1..(Len(w.list) - (Len(w.todo) - 1))
      BY <2>2, <2>3, <2>4 DEF Done
    <3>3. Len(w.list) - (Len(w.todo) - 1) = n + 1
      BY <2>2
    <3> HIDE DEF n
    <3>4. 1..(n + 1) = (1..n) \cup {n + 1}
      BY <3>1
    <3>5. QED
      BY <3>1, <3>2, <3>3, <3>4
  <2>10. /\ w.rec \in given /\ w.rec \in Ids /\ s \in Other(w.rec) /\ s \in given
         /\ s \in stored /\ w.rec \in stored
    BY <1>1, <1>3, <2>9 DEF JoinTypeOK
  <2> HIDE DEF w, s, n
  <2>11. /\ \A x \in Ids : p \in PairsOf(x) <=> x \in {w.rec, s}
         /\ p \in stored \X stored
    BY <2>10, PairsOfTwo
  <2>12. Linked(c)' = Linked(c) \cup {p}
    <3>1. Linked(c) = {PairOf(w.rec, w.list[i]) : i \in 1..n}
      BY <2>9 DEF Linked, w
    <3>2. Linked(c)' = {PairOf(v.rec, v.list[i]) : i \in 1..(n + 1)}
      BY <2>4, <2>9 DEF Linked
    <3>3. p = PairOf(w.rec, w.list[n + 1])
      BY <2>9
    <3> HIDE DEF p
    <3>4. QED
      BY <2>3, <2>9, <3>1, <3>2, <3>3
  <2> HIDE DEF p
  <2>13. JoinTypeOK'
    <3>1. \A d \in Writing : clerk'[d].rec = clerk[d].rec /\ clerk'[d].body = clerk[d].body
                             /\ clerk'[d].list = clerk[d].list
      BY <2>3, <2>4 DEF w, Writing
    <3>2. QED
      BY <2>1, <2>4, <2>5, <3>1 DEF JoinTypeOK
  <2>14. TodoIsTheRest'
    <3> SUFFICES ASSUME NEW d \in Clerks, Cleared(d)' PROVE RestIsLeft(d)'
      BY DEF TodoIsTheRest
    <3>1. CASE d # c
      <4>1. RestIsLeft(d) /\ clerk'[d] = clerk[d] /\ Done(d)' = Done(d)
        BY <2>4, <2>6, <2>8, <3>1 DEF TodoIsTheRest
      <4>2. QED
        BY <2>20, <4>1 DEF RestIsLeft
    <3>2. CASE d = c
      <4>1. v.pc # "next" /\ Len(v.todo) <= Len(v.list)
        BY <2>2, <2>3, <2>7
      <4>2. \A i \in 1..Len(v.todo) : v.todo[i] = v.list[(Len(v.list) - Len(v.todo)) + i]
        <5> TAKE i \in 1..Len(v.todo)
        <5> DEFINE L == Len(w.list)
                   T == Len(w.todo)
        <5>0. Len(v.list) = L /\ Len(v.todo) = T - 1 /\ L \in Nat /\ T \in Nat
          BY <2>2, <2>3
        <5> HIDE DEF L, T
        <5>1. i + 1 \in 1..Len(w.todo) /\ v.todo[i] = w.todo[i + 1]
          <6>1. i + 1 \in 1..T
            BY <5>0
          <6>2. QED
            BY <2>2, <2>3, <6>1 DEF T
        <5>2. (Len(v.list) - Len(v.todo)) + i = (L - T) + (i + 1)
          BY <5>0
        <5>3. QED
          BY <2>3, <2>7, <5>1, <5>2 DEF L, T
      <4>3. \A i \in Done(c)' : v.list[i] \in given
        BY <2>3, <2>7, <2>9, <2>10
      <4>4. QED
        BY <2>1, <2>4, <3>2, <4>1, <4>2, <4>3 DEF RestIsLeft
    <3>3. QED
      BY <3>1, <3>2
  <2>15. \A d \in Writing : clerk'[d].rec = clerk[d].rec /\ clerk'[d].alone = clerk[d].alone
    BY <2>3, <2>4 DEF w, Writing
  <2>16. AloneMeetsNone'
    BY <2>5, <2>15 DEF AloneMeetsNone
  <2>17. AloneLinks'
    <3> SUFFICES ASSUME NEW d \in Clerks, Cleared(d), clerk[d].alone
                 PROVE  joined' \cap PairsOf(clerk[d].rec) = Linked(d)' \cap (stored \X stored)
      BY <2>1, <2>6, <2>15 DEF AloneLinks, Cleared
    <3>1. joined \cap PairsOf(clerk[d].rec) = Linked(d) \cap (stored \X stored)
      BY DEF AloneLinks
    <3>2. CASE d = c
      <4>1. p \in PairsOf(clerk[d].rec)
        BY <2>10, <2>11, <3>2 DEF w
      <4>2. QED
        BY <2>1, <2>11, <2>12, <3>1, <3>2, <4>1
    <3>3. CASE d # c
      <4>1. p \in PairsOf(w.rec) /\ d \in Writing
        BY <2>10, <2>11 DEF Cleared
      <4>2. p \notin PairsOf(clerk[d].rec)
        BY <1>1, <3>3, <4>1 DEF AloneMeetsNone, w
      <4>3. QED
        BY <2>1, <2>8, <3>1, <3>3, <4>2
    <3>4. QED
      BY <3>2, <3>3
  <2>18. LinksAreTheLastList'
    <3>1. p \in PairsOf(clerk[c].rec)
      BY <2>10, <2>11 DEF w
    <3>2. QED
      BY <1>1, <2>1, <2>5, <2>15, <3>1 DEF LinksAreTheLastList
  <2>19. QED
    BY <2>13, <2>14, <2>16, <2>17, <2>18
<1>4. QED
  BY <1>2, <1>3

\* A list is written when nothing of it is left.
LEMMA ListDoneKeeps ==
  ASSUME JoinInv, NEW c \in Clerks, ListDone(c) PROVE JoinInv'
<1> USE DEF JoinInv
<1>1. /\ c \in Writing /\ clerk[c].todo = <<>> /\ clerk[c].pc = "link" /\ clerk[c] \in Writers
      /\ clerk' = [clerk EXCEPT ![c].pc = "next"] /\ UNCHANGED <<stored, given, joined, meant, mixed>>
  BY DEF ListDone, Writing, JoinTypeOK
<1>2. /\ clerk' \in [Clerks -> Writers] /\ clerk'[c].pc = "next"
      /\ \A d \in Clerks : /\ d # c => clerk'[d].pc = clerk[d].pc
                           /\ clerk'[d].rec = clerk[d].rec /\ clerk'[d].body = clerk[d].body
                           /\ clerk'[d].list = clerk[d].list /\ clerk'[d].todo = clerk[d].todo
                           /\ clerk'[d].alone = clerk[d].alone
  BY <1>1 DEF JoinTypeOK, Writers
<1>3. Writing' = Writing
  BY <1>1, <1>2 DEF Writing
<1>4. \A d \in Clerks : Cleared(d)' => Cleared(d)
  BY <1>1, <1>2, <1>3 DEF Cleared
<1>5. \A d \in Clerks : Done(d)' = Done(d)
  BY <1>2 DEF Done
<1>6. \A d \in Clerks : Linked(d)' = Linked(d)
  BY <1>2, <1>5 DEF Linked, PairOf
<1>7. JoinTypeOK'
  <2>1. \A d \in Writing : clerk'[d].rec = clerk[d].rec /\ clerk'[d].body = clerk[d].body
                           /\ clerk'[d].list = clerk[d].list
    BY <1>2 DEF Writing
  <2>2. QED
    BY <1>1, <1>2, <1>3, <2>1 DEF JoinTypeOK
<1>8. TodoIsTheRest'
  <2> SUFFICES ASSUME NEW d \in Clerks, Cleared(d) PROVE RestIsLeft(d)'
    BY <1>4 DEF TodoIsTheRest
  <2>1. RestIsLeft(d)
    BY DEF TodoIsTheRest
  <2>2. /\ clerk'[d].list = clerk[d].list /\ clerk'[d].todo = clerk[d].todo /\ given' = given
        /\ Done(d)' = Done(d) /\ (clerk'[d].pc = "next" => clerk[d].pc = "next" \/ clerk[d].todo = <<>>)
    BY <1>1, <1>2, <1>5
  <2>3. QED
    BY <2>1, <2>2 DEF RestIsLeft
<1>9. AloneMeetsNone'
  BY <1>2, <1>3 DEF AloneMeetsNone, Writing
<1>10. AloneLinks'
  BY <1>1, <1>2, <1>4, <1>6 DEF AloneLinks
<1>11. LinksAreTheLastList'
  BY <1>1, <1>2, <1>3 DEF LinksAreTheLastList, Writing
<1>12. QED
  BY <1>7, <1>8, <1>9, <1>10, <1>11

\* The SELECT ends a write: its last list is what its record is linked to.
LEMMA ReadBackKeeps ==
  ASSUME JoinInv, NEW c \in Clerks, ReadBack(c) PROVE JoinInv'
<1> USE DEF JoinInv
<1> DEFINE w == clerk[c]
           pairs == {PairOf(w.rec, w.list[i]) : i \in DOMAIN w.list}
<1>1. w.pc = "next" /\ w.body = <<>> /\ c \in Writing /\ w \in Writers /\ Cleared(c) /\ UNCHANGED joined
  BY DEF ReadBack, Writing, JoinTypeOK, Cleared
<1>2. CASE w.rec \notin stored
  <2>1. Stops(c)
    BY <1>2 DEF ReadBack
  <2>2. QED
    BY <1>1, <2>1, StopsKeeps
<1>3. CASE w.rec \in stored
  <2>1. /\ clerk' = [clerk EXCEPT ![c] = NotWriting]
        /\ meant' = (meant \ PairsOf(w.rec)) \cup (pairs \cap (stored \X stored))
        /\ mixed' = (IF w.alone THEN mixed \ PairsOf(w.rec) ELSE mixed \cup PairsOf(w.rec))
        /\ UNCHANGED <<stored, given, joined>>
    BY <1>1, <1>3 DEF ReadBack
  <2>2. /\ JoinTypeOK' /\ TodoIsTheRest' /\ AloneMeetsNone' /\ AloneLinks'
        /\ \A d \in Writing \ {c} : d \in Writing' /\ clerk'[d].rec = clerk[d].rec
    BY <1>1, <2>1, EndsKeeps
  <2>3. pairs = Linked(c)
    <3>1. w.todo = <<>> /\ w.list \in Seq(Ids)
      BY <1>1 DEF TodoIsTheRest, RestIsLeft, Writers
    <3>2. Len(w.list) - Len(w.todo) = Len(w.list) /\ DOMAIN w.list = 1..Len(w.list)
      <4> HIDE DEF w
      <4>1. QED
        BY <3>1
    <3>3. Done(c) = DOMAIN w.list
      BY <3>2 DEF Done
    <3>4. QED
      BY <3>3 DEF Linked
  <2>4. pairs \subseteq PairsOf(w.rec)
    <3>1. w.rec \in Ids /\ \A i \in DOMAIN w.list : w.list[i] \in Other(w.rec)
      BY <1>1 DEF JoinTypeOK
    <3>2. \A i \in DOMAIN w.list : PairOf(w.rec, w.list[i]) \in PairsOf(w.rec)
      BY <3>1, PairsOfTwo
    <3>3. QED
      BY <3>2
  <2>5. w.alone => joined \cap PairsOf(w.rec) = pairs \cap (stored \X stored)
    BY <1>1, <2>3 DEF AloneLinks
  <2> HIDE DEF pairs
  <2>6. LinksAreTheLastList'
    <3> SUFFICES ASSUME NEW p \in Lefts \X Rights, p \notin mixed',
                        \A d \in Writing' : p \notin PairsOf(clerk'[d].rec)
                 PROVE  p \in joined <=> p \in meant'
      BY <2>1 DEF LinksAreTheLastList
    <3>1. CASE p \in PairsOf(w.rec)
      BY <2>1, <2>5, <3>1
    <3>2. CASE p \notin PairsOf(w.rec)
      <4>1. p \notin mixed
        BY <2>1, <3>2
      <4>2. \A d \in Writing : p \notin PairsOf(clerk[d].rec)
        BY <2>2, <3>2
      <4>3. p \in joined <=> p \in meant
        BY <4>1, <4>2 DEF LinksAreTheLastList
      <4>4. QED
        BY <2>1, <2>4, <3>2, <4>3
    <3>3. QED
      BY <3>1, <3>2
  <2>7. QED
    BY <2>2, <2>6
<1>4. QED
  BY <1>2, <1>3

\* A record that is deleted takes its rows, and nobody means them any more.
LEMMA DeleteKeeps ==
  ASSUME JoinInv, NEW r \in Ids, DeleteDocument(r) PROVE JoinInv'
<1> USE DEF JoinInv
<1>1. /\ stored' = stored \ {r} /\ joined' = joined \ PairsOf(r) /\ meant' = meant \ PairsOf(r)
      /\ UNCHANGED <<given, clerk, mixed>>
  BY DEF DeleteDocument
<1>2. /\ Writing' = Writing
      /\ \A d \in Clerks : /\ Cleared(d)' <=> Cleared(d)
                           /\ Done(d)' = Done(d) /\ Linked(d)' = Linked(d)
                           /\ RestIsLeft(d)' <=> RestIsLeft(d)
  BY <1>1 DEF Writing, Cleared, Done, Linked, RestIsLeft
<1>3. JoinTypeOK'
  BY <1>1, <1>2 DEF JoinTypeOK
<1>4. TodoIsTheRest' /\ AloneMeetsNone'
  BY <1>1, <1>2 DEF TodoIsTheRest, AloneMeetsNone
<1>5. AloneLinks'
  <2> SUFFICES ASSUME NEW d \in Clerks, Cleared(d), clerk[d].alone
               PROVE  joined' \cap PairsOf(clerk[d].rec) = Linked(d) \cap (stored' \X stored')
    BY <1>1, <1>2 DEF AloneLinks
  <2> DEFINE rec == clerk[d].rec
  <2>1. joined \cap PairsOf(rec) = Linked(d) \cap (stored \X stored)
    BY DEF AloneLinks
  <2>2. d \in Writing /\ rec \in Ids /\ \A i \in DOMAIN clerk[d].list : clerk[d].list[i] \in Other(rec)
    BY DEF JoinTypeOK, Cleared
  <2>3. \A i \in Done(d) : i \in DOMAIN clerk[d].list
    BY DEF Done, JoinTypeOK, Writers
  <2> HIDE DEF rec
  <2>4. Linked(d) \subseteq PairsOf(rec)
    <3>1. \A i \in Done(d) : PairOf(rec, clerk[d].list[i]) \in PairsOf(rec)
      BY <2>2, <2>3, PairsOfTwo
    <3>2. QED
      BY <3>1 DEF Linked, rec
  <2>5. \A x \in PairsOf(rec) : x \in stored' \X stored' <=> x \in stored \X stored /\ x \notin PairsOf(r)
    <3> TAKE x \in PairsOf(rec)
    <3>1. PICK s \in Other(rec) : x = PairOf(rec, s)
      BY DEF PairsOf
    <3>2. /\ x \in PairsOf(r) <=> r \in {rec, s}
          /\ \A S : x \in S \X S <=> {rec, s} \subseteq S
      BY <2>2, <3>1, PairsOfTwo
    <3>3. QED
      BY <1>1, <3>2
  <2>6. QED
    BY <1>1, <2>1, <2>4, <2>5 DEF rec
<1>6. LinksAreTheLastList'
  BY <1>1, <1>2 DEF LinksAreTheLastList
<1>7. QED
  BY <1>3, <1>4, <1>5, <1>6

\* Every statement of every write keeps the invariant.
LEMMA JoinStep == JoinInv /\ [JoinTablesNext]_joinVars => JoinInv'
<1> SUFFICES ASSUME JoinInv, [JoinTablesNext]_joinVars PROVE JoinInv'
  OBVIOUS
<1>1. ASSUME NEW c \in Clerks, NEW r \in Ids, NEW body \in Bodies,
             \A i \in DOMAIN body : \A j \in DOMAIN body[i] : body[i][j] \in Other(r),
             CreateDocument(c, r, body) \/ UpdateDocument(c, r, body)
      PROVE  JoinInv'
  BY <1>1, DocumentKeeps
<1>2. ASSUME NEW c \in Clerks, ClearLinks(c) PROVE JoinInv'
  BY <1>2, ClearLinksKeeps
<1>3. ASSUME NEW c \in Clerks, InsertLink(c) PROVE JoinInv'
  BY <1>3, InsertKeeps
<1>4. ASSUME NEW c \in Clerks, ListDone(c) PROVE JoinInv'
  BY <1>4, ListDoneKeeps
<1>5. ASSUME NEW c \in Clerks, ReadBack(c) PROVE JoinInv'
  BY <1>5, ReadBackKeeps
<1>6. ASSUME NEW c \in Clerks, WriterDies(c) PROVE JoinInv'
  BY <1>6, StopsKeeps DEF WriterDies, Writing
<1>7. ASSUME NEW r \in Ids, DeleteDocument(r) PROVE JoinInv'
  BY <1>7, DeleteKeeps
<1>8. CASE UNCHANGED joinVars
  <2> USE <1>8 DEF joinVars, JoinInv
  <2>1. /\ Writing' = Writing
        /\ \A d \in Clerks : /\ Cleared(d)' <=> Cleared(d)
                             /\ Linked(d)' = Linked(d)
                             /\ RestIsLeft(d)' <=> RestIsLeft(d)
    BY DEF Writing, Cleared, Done, Linked, RestIsLeft
  <2>2. JoinTypeOK' /\ TodoIsTheRest'
    BY <2>1 DEF JoinTypeOK, TodoIsTheRest
  <2>3. AloneMeetsNone' /\ AloneLinks' /\ LinksAreTheLastList'
    BY <2>1 DEF AloneMeetsNone, AloneLinks, LinksAreTheLastList
  <2>4. QED
    BY <2>2, <2>3
<1>9. QED
  BY <1>1, <1>2, <1>3, <1>4, <1>5, <1>6, <1>7, <1>8 DEF JoinTablesNext, Ids

\* For any records and lists, and any number of requests that write: a join table holds
\* the last list of each record, but for the pairs of writes that overlap or broke off.
THEOREM LinksStayTheLastList == JoinTablesSpec => []LinksAreTheLastList
<1>1. JoinInv => LinksAreTheLastList
  BY DEF JoinInv
<1>2. QED
  BY JoinStart, JoinStep, <1>1, PTL DEF JoinTablesSpec

-----------------------------------------------------------------------------
(* The development server: what is under way, and what is left to do. *)

StageNames == {"migrate", "sdk", "drizzle", "kit", "import", "listen"}
Reading == {"migrate", "sdk", "drizzle", "kit"}

\* Where a duty can be in a stage.
Places(stage) ==
    {"read"} \cup (IF stage = "migrate" THEN {"plan", "lock", "stamp", "write"}
                   ELSE IF stage = "kit" THEN {"write", "run"}
                   ELSE IF stage \in {"sdk", "drizzle"} THEN {"write"} ELSE {})

DutyShapes == [kind : {"startup", "refresh", "writer"}, todo : Seq(StageNames) \ {<< >>},
               at : {"read", "plan", "lock", "stamp", "write", "run"}, want : SUBSET Declarable]

DevTypes ==
    /\ opts \in [layout : {"one", "apart"}, migrates : BOOLEAN, kit : BOOLEAN]
    /\ server \in {"off", "starting", "up", "down"}
    /\ timer \in BOOLEAN /\ tangled \in BOOLEAN /\ missed \in BOOLEAN /\ removed \in BOOLEAN
    /\ declared \in SUBSET Declarable
    /\ DOMAIN duty = Duties
    /\ duty = [d \in Duties |-> duty[d]]
    /\ \A d \in Duties : \/ duty[d] = Resting
                         \/ duty[d] \in DutyShapes /\ duty[d].at \in Places(Stage(d))

\* Duties overlap only where it is noted, a request of the builder is followed by a refresh,
\* and a process that has ended does nothing.
DutiesAreNoted ==
    /\ ~tangled => \A c, d \in Underway : c = d
    /\ \A d \in Underway : /\ server \in {"starting", "up"}
                           /\ duty[d].kind = "writer" => server = "up" /\ (timer \/ tangled)
    /\ why # "-" => server = "down"

\* The lock is of the one duty that took it.
Holding(d) == IsAt(d, {"migrate"}, "stamp") \/ IsAt(d, {"migrate"}, "write")
LockIsOfOne ==
    /\ \A d \in Duties : IsAt(d, {"migrate"}, "stamp") => applyLock = "blank"
    /\ \A d \in Duties : IsAt(d, {"migrate"}, "write") => applyLock = "held"
    /\ \A c, d \in Duties : Holding(c) /\ Holding(d) => c = d
    /\ applyLock = "held" => \E d \in Duties : IsAt(d, {"migrate"}, "write")

\* What was applied, and what is about to be, was declared.
AppliedIsDeclared ==
    ~removed =>
        /\ applied \subseteq declared
        /\ \A d \in Duties : duty[d].want \subseteq declared
        /\ ~tangled => \A d \in Underway : Stage(d) = "migrate" /\ duty[d].at # "read"
                                           => applied \subseteq duty[d].want

Left(todo) == {todo[i] : i \in 1..Len(todo)}
Pending(stage) == \E d \in Duties : stage \in Left(duty[d].todo)

Quiet == server \in {"up", "starting"} /\ ~timer /\ ~tangled /\ ~missed

\* While nothing waits for the timer, what is not current is still to be done, from what
\* the files declare.
ToDoOrDone ==
    Quiet =>
        /\ opts.migrates => declared = applied \/ Pending("migrate")
        /\ opts.migrates => declared = sdk \/ Pending("sdk")
        /\ opts.migrates => declared = drizzle \/ Pending("drizzle")
        /\ opts.migrates /\ opts.kit => declared = database \/ Pending("kit")
        /\ served = Cms(config, Collections) \/ Pending("import")
        /\ \A d \in Underway : duty[d].at # "read" => duty[d].want = declared
        /\ \A d \in Underway : duty[d].at = "run" => drizzle = declared

DevInv == /\ DevTypes
          /\ DutiesAreNoted
          /\ LockIsOfOne
          /\ AppliedIsDeclared
          /\ ToDoOrDone
          /\ EndsAreExplained

-----------------------------------------------------------------------------

\* What is left to do of a list of stages, when the first is done.
LEMMA TailLeft ==
    ASSUME NEW q \in Seq(StageNames), q # << >>
    PROVE  /\ Head(q) \in StageNames
           /\ Len(q) = 1 => Left(q) \subseteq {Head(q)}
           /\ Len(q) # 1 => /\ Tail(q) \in Seq(StageNames) \ {<< >>}
                            /\ Left(q) \subseteq {Head(q)} \cup Left(Tail(q))
<1>1. Head(q) \in StageNames /\ Len(q) \in Nat \ {0} /\ Head(q) = q[1]
  OBVIOUS
<1>2. Len(q) = 1 => Left(q) \subseteq {Head(q)}
  BY <1>1 DEF Left
<1>3. ASSUME Len(q) # 1
      PROVE  /\ Tail(q) \in Seq(StageNames) \ {<< >>}
             /\ Left(q) \subseteq {Head(q)} \cup Left(Tail(q))
  <2>1. Tail(q) \in Seq(StageNames) /\ Len(Tail(q)) = Len(q) - 1
    OBVIOUS
  <2>2. Tail(q) # << >>
    BY <2>1, <1>1, <1>3
  <2>3. ASSUME NEW i \in 2..Len(q) PROVE q[i] = Tail(q)[i - 1] /\ i - 1 \in 1..Len(Tail(q))
    BY <2>1, <1>1
  <2>4. Left(q) \subseteq {Head(q)} \cup Left(Tail(q))
    BY <2>3, <1>1 DEF Left
  <2>5. QED
    BY <2>1, <2>2, <2>4
<1>4. QED
  BY <1>1, <1>2, <1>3

\* What is left to do of two lists in a row.
LEMMA LeftOfBoth ==
    ASSUME NEW a \in Seq(StageNames), NEW b \in Seq(StageNames)
    PROVE  /\ a \o b \in Seq(StageNames)
           /\ Left(a) \subseteq Left(a \o b)
           /\ Left(b) \subseteq Left(a \o b)
           /\ b # << >> => a \o b # << >>
           /\ a # << >> => a \o b # << >>
<1>1. /\ a \o b \in Seq(StageNames) /\ Len(a \o b) = Len(a) + Len(b)
      /\ Len(a) \in Nat /\ Len(b) \in Nat
  OBVIOUS
<1>2. \A i \in 1..Len(a) : (a \o b)[i] = a[i] /\ i \in 1..Len(a \o b)
  BY <1>1
<1>3. \A i \in 1..Len(b) : (a \o b)[Len(a) + i] = b[i] /\ Len(a) + i \in 1..Len(a \o b)
  BY <1>1
<1>4. Left(a) \subseteq Left(a \o b)
  BY <1>2 DEF Left
<1>5. Left(b) \subseteq Left(a \o b)
  BY <1>3 DEF Left
<1>6. (b # << >> => a \o b # << >>) /\ (a # << >> => a \o b # << >>)
  BY <1>1
<1>7. QED
  BY <1>1, <1>4, <1>5, <1>6

\* A refresh does all that the options ask for.
LEMMA RefreshDoesAll ==
    ASSUME opts \in [layout : {"one", "apart"}, migrates : BOOLEAN, kit : BOOLEAN]
    PROVE  \A stages \in {RefreshStages, RefreshStages \o <<"listen">>} :
              /\ stages \in Seq(StageNames) \ {<< >>}
              /\ opts.migrates => {"migrate", "sdk", "drizzle"} \subseteq Left(stages)
              /\ opts.migrates /\ opts.kit => "kit" \in Left(stages)
              /\ "import" \in Left(stages)
<1> DEFINE a == IF opts.migrates THEN <<"migrate", "sdk", "drizzle">> ELSE << >>
           k == IF opts.migrates /\ opts.kit THEN <<"kit">> ELSE << >>
           m == <<"import">>
           n == <<"listen">>
<1>1. /\ a \in Seq(StageNames) /\ (opts.migrates => {"migrate", "sdk", "drizzle"} \subseteq Left(a))
  <2>1. << >> \in Seq(StageNames) /\ <<"migrate", "sdk", "drizzle">> \in Seq(StageNames)
    BY DEF StageNames
  <2>2. {"migrate", "sdk", "drizzle"} \subseteq Left(<<"migrate", "sdk", "drizzle">>)
    <3> DEFINE q == <<"migrate", "sdk", "drizzle">>
    <3>1. Len(q) = 3 /\ q[1] = "migrate" /\ q[2] = "sdk" /\ q[3] = "drizzle"
      OBVIOUS
    <3>2. 1 \in 1..3 /\ 2 \in 1..3 /\ 3 \in 1..3
      OBVIOUS
    <3> HIDE DEF q
    <3>3. {"migrate", "sdk", "drizzle"} \subseteq Left(q)
      BY <3>1, <3>2 DEF Left
    <3>4. QED
      BY <3>3 DEF q
  <2>3. QED
    BY <2>1, <2>2
<1>2. \A s \in StageNames : <<s>> \in Seq(StageNames) /\ <<s>> # << >> /\ s \in Left(<<s>>)
  <2> TAKE s \in StageNames
  <2>1. Len(<<s>>) = 1 /\ <<s>>[1] = s /\ 1 \in 1..1
    OBVIOUS
  <2>2. s \in Left(<<s>>)
    BY <2>1 DEF Left
  <2>3. QED
    BY <2>2
<1>3. /\ k \in Seq(StageNames) /\ (opts.migrates /\ opts.kit => "kit" \in Left(k))
      /\ m \in Seq(StageNames) /\ "import" \in Left(m) /\ m # << >>
      /\ n \in Seq(StageNames)
  <2>1. "kit" \in StageNames /\ "import" \in StageNames /\ "listen" \in StageNames
        /\ << >> \in Seq(StageNames)
    BY DEF StageNames
  <2>2. k \in Seq(StageNames)
    BY <1>2, <2>1, Zenon
  <2>3. opts.migrates /\ opts.kit => "kit" \in Left(k)
    BY <1>2, <2>1, Zenon
  <2>4. QED
    BY <1>2, <2>1, <2>2, <2>3, Zenon
<1>4. RefreshStages = (a \o k) \o m
  BY Zenon DEF RefreshStages
<1> HIDE DEF a, k, m
<1>5. /\ a \o k \in Seq(StageNames) /\ Left(a) \subseteq Left(a \o k)
      /\ Left(k) \subseteq Left(a \o k)
  BY <1>1, <1>3, LeftOfBoth
<1>6. /\ RefreshStages \in Seq(StageNames) /\ RefreshStages # << >>
      /\ Left(a \o k) \subseteq Left(RefreshStages) /\ Left(m) \subseteq Left(RefreshStages)
  <2> HIDE DEF RefreshStages
  <2>1. PICK ak \in Seq(StageNames) : ak = a \o k
    BY <1>5
  <2>2. RefreshStages = ak \o m
    BY <1>4, <2>1
  <2>3. QED
    BY <2>1, <2>2, <1>3, LeftOfBoth
<1>7. /\ RefreshStages \o n \in Seq(StageNames) /\ RefreshStages \o n # << >>
      /\ Left(RefreshStages) \subseteq Left(RefreshStages \o n)
  <2> HIDE DEF RefreshStages, n
  <2>1. QED
    BY <1>3, <1>6, LeftOfBoth
<1> HIDE DEF RefreshStages
<1>8. QED
  BY <1>1, <1>3, <1>5, <1>6, <1>7 DEF n

\* A request of the builder has stages to do.
LEMMA WriterDoesSome ==
    ASSUME opts \in [layout : {"one", "apart"}, migrates : BOOLEAN, kit : BOOLEAN]
    PROVE  WriterStages \in Seq(StageNames) \ {<< >>}
<1>1. /\ <<"sdk", "migrate", "drizzle">> \in Seq(StageNames)
      /\ <<"sdk", "migrate", "drizzle">> # << >>
      /\ << >> \in Seq(StageNames) /\ <<"kit">> \in Seq(StageNames)
  BY DEF StageNames
<1>2. PICK k \in Seq(StageNames) : k = IF opts.kit THEN <<"kit">> ELSE << >>
  BY <1>1
<1>3. WriterStages = <<"sdk", "migrate", "drizzle">> \o k
  BY <1>2 DEF WriterStages
<1>4. PICK a \in Seq(StageNames) : a = <<"sdk", "migrate", "drizzle">>
  BY <1>1
<1>5. QED
  BY <1>1, <1>3, <1>4, LeftOfBoth

-----------------------------------------------------------------------------

\* A duty under way has a stage, and nothing is left of one that rests.
LEMMA WorkHasAStage ==
    ASSUME DevTypes, NEW d \in Duties
    PROVE  /\ Resting.todo = << >> /\ Resting.want = {} /\ Resting.at = "read"
           /\ Left(<< >>) = {}
           /\ d \in Underway <=> duty[d] # Resting
           /\ d \in Underway => /\ duty[d] \in DutyShapes
                                /\ duty[d].todo \in Seq(StageNames) /\ duty[d].todo # << >>
                                /\ Stage(d) \in StageNames
                                /\ duty[d].at \in Places(Stage(d))
                                /\ duty[d].kind \in {"startup", "refresh", "writer"}
                                /\ duty[d].want \in SUBSET Declarable
<1>1. /\ Resting.todo = << >> /\ Resting.want = {} /\ Resting.at = "read"
  BY DEF Resting, Doing
<1>2. Left(<< >>) = {}
  BY DEF Left
<1>3. d \in Underway <=> duty[d] # Resting
  BY DEF Underway
<1>4. ASSUME d \in Underway
      PROVE  /\ duty[d] \in DutyShapes /\ duty[d].at \in Places(Stage(d))
             /\ duty[d].todo \in Seq(StageNames) /\ duty[d].todo # << >>
             /\ duty[d].kind \in {"startup", "refresh", "writer"}
             /\ duty[d].want \in SUBSET Declarable
  <2>1. duty[d] \in DutyShapes /\ duty[d].at \in Places(Stage(d))
    BY <1>3, <1>4 DEF DevTypes
  <2>2. QED
    BY <2>1 DEF DutyShapes
<1>5. d \in Underway => Stage(d) \in StageNames
  BY <1>4, TailLeft DEF Stage
<1>6. QED
  BY <1>1, <1>2, <1>3, <1>4, <1>5

\* What a duty comes to.
Becomes(d, r) ==
    /\ duty' = [duty EXCEPT ![d] = r]
    /\ \/ r = Resting
       \/ r \in DutyShapes /\ r.at \in Places(Head(r.todo)) /\ r.kind = duty[d].kind

\* A duty that becomes something leaves the other duties as they are.
LEMMA BecomesIt ==
    ASSUME DevTypes, NEW d \in Duties, NEW r, Becomes(d, r)
    PROVE  /\ duty'[d] = r
           /\ \A c \in Duties : c # d => duty'[c] = duty[c]
           /\ Underway' \ {d} = Underway \ {d}
           /\ d \in Underway' <=> r # Resting
<1>1. /\ duty'[d] = r
      /\ \A c \in Duties : c # d => duty'[c] = duty[c]
  BY DEF Becomes, DevTypes
<1>2. QED
  BY <1>1 DEF Underway

\* A duty at the beginning of a stage.
LEMMA DoingIsShaped ==
    ASSUME NEW kind \in {"startup", "refresh", "writer"},
           NEW stages \in Seq(StageNames) \ {<< >>}, NEW r, r = Doing(kind, stages)
    PROVE  /\ r.kind = kind /\ r.todo = stages /\ r.at = "read" /\ r.want = {}
           /\ r \in DutyShapes /\ r # Resting /\ r.at \in Places(Head(r.todo))
<1>2. r = [kind |-> kind, todo |-> stages, at |-> "read", want |-> {}]
  BY DEF Doing
<1>3. r.kind = kind /\ r.todo = stages /\ r.at = "read" /\ r.want = {}
  BY <1>2
<1>4. r \in DutyShapes
  BY <1>2 DEF DutyShapes
<1>5. Resting.kind = "none"
  BY DEF Resting, Doing
<1>6. r # Resting
  BY <1>3, <1>5
<1>7. r.at \in Places(Head(r.todo))
  BY <1>3 DEF Places
<1>8. QED
  BY <1>3, <1>4, <1>6, <1>7

\* The next stage, or the end.
LEMMA NextStageComes ==
    ASSUME DevTypes, NEW d \in Underway, NextStage(d)
    PROVE  \E r : /\ Becomes(d, r)
                  /\ r.at = "read" /\ r.want = {}
                  /\ Left(duty[d].todo) \subseteq {Stage(d)} \cup Left(r.todo)
<1> d \in Duties
  BY DEF Underway
<1>1. /\ duty[d] \in DutyShapes /\ duty[d].todo \in Seq(StageNames) /\ duty[d].todo # << >>
      /\ Resting.todo = << >> /\ Resting.want = {} /\ Resting.at = "read"
      /\ duty[d].kind \in {"startup", "refresh", "writer"}
  BY WorkHasAStage
<1> DEFINE todo == duty[d].todo
<1>2. CASE Len(todo) = 1
  <2>1. duty' = [duty EXCEPT ![d] = Resting]
    BY <1>2 DEF NextStage
  <2>2. Left(todo) \subseteq {Stage(d)}
    BY <1>1, <1>2, TailLeft DEF Stage
  <2>3. QED
    BY <1>1, <2>1, <2>2 DEF Becomes
<1>3. CASE Len(todo) # 1
  <2>1. PICK r, t, k : r = Doing(k, t) /\ t = Tail(todo) /\ k = duty[d].kind
    OBVIOUS
  <2>2. /\ Tail(todo) \in Seq(StageNames) \ {<< >>}
        /\ Left(todo) \subseteq {Stage(d)} \cup Left(Tail(todo))
    BY <1>1, <1>3, TailLeft DEF Stage
  <2>3. duty' = [duty EXCEPT ![d] = r]
    BY <1>3, <2>1, Zenon DEF NextStage
  <2>4. /\ r.kind = duty[d].kind /\ r.todo = Tail(todo) /\ r.at = "read" /\ r.want = {}
        /\ r \in DutyShapes /\ r.at \in Places(Head(r.todo))
    <3>1. k \in {"startup", "refresh", "writer"} /\ t \in Seq(StageNames) \ {<< >>}
      BY <1>1, <2>1, <2>2, Zenon
    <3>2. /\ r.kind = k /\ r.todo = t /\ r.at = "read" /\ r.want = {}
          /\ r \in DutyShapes /\ r.at \in Places(Head(r.todo))
      <4>1. r = Doing(k, t)
        BY <2>1, Zenon
      <4>2. k \in {"startup", "refresh", "writer"}
        BY <3>1, Zenon
      <4>3. t \in Seq(StageNames) \ {<< >>}
        BY <3>1, Zenon
      <4>4. QED
        BY <4>1, <4>2, <4>3, DoingIsShaped
    <3>3. QED
      BY <2>1, <3>2, Zenon
  <2>5. Becomes(d, r)
    BY <2>3, <2>4, Zenon DEF Becomes
  <2>6. QED
    BY <2>2, <2>4, <2>5
<1>4. QED
  BY <1>2, <1>3

-----------------------------------------------------------------------------
\* What stays when a duty moves on.

Moving == UNCHANGED <<opts, editorVars, timer, why, tangled, missed>>

\* A duty that goes on, or ends well, is noted as before.
LEMMA GoesOnNoted ==
    ASSUME DevTypes, DutiesAreNoted, NEW d \in Underway, NEW r, Becomes(d, r), Moving,
           server' = server \/ server' = "up"
    PROVE  DevTypes' /\ DutiesAreNoted'
<1> d \in Duties
  BY DEF Underway
<1>1. /\ duty'[d] = r
      /\ \A c \in Duties : c # d => duty'[c] = duty[c]
      /\ r = Resting \/ (r \in DutyShapes /\ r.at \in Places(Head(r.todo)) /\ r.kind = duty[d].kind)
      /\ Underway' \ {d} = Underway \ {d}
  <2>1. r = Resting \/ (r \in DutyShapes /\ r.at \in Places(Head(r.todo)) /\ r.kind = duty[d].kind)
    BY Zenon DEF Becomes
  <2>2. QED
    BY <2>1, BecomesIt, Zenon
<1>2. DevTypes'
  <2>1. /\ duty' = [c \in Duties |-> duty'[c]] /\ DOMAIN duty' = Duties
    BY DEF Becomes, DevTypes
  <2>2. \A c \in Duties : \/ duty'[c] = Resting
                          \/ duty'[c] \in DutyShapes /\ duty'[c].at \in Places(Head(duty'[c].todo))
    <3> HIDE DEF DutyShapes
    <3>1. \A c \in Duties : \/ duty[c] = Resting
                            \/ duty[c] \in DutyShapes /\ duty[c].at \in Places(Head(duty[c].todo))
      BY DEF DevTypes, Stage
    <3>2. QED
      BY <1>1, <3>1
  <2>3. QED
    BY <2>1, <2>2 DEF DevTypes, Moving, editorVars, Stage
<1>3. DutiesAreNoted'
  <2>1. Underway' \subseteq Underway
    BY <1>1
  <2>2. \A c \in Underway' : duty'[c].kind = duty[c].kind
    <3> TAKE c \in Underway'
    <3>1. c \in Duties /\ duty'[c] # Resting
      BY DEF Underway
    <3>2. QED
      BY <1>1, <3>1
  <2>3. server \in {"starting", "up"} /\ server # "down" /\ why = "-"
    BY DEF DutiesAreNoted
  <2>4. server' \in {"starting", "up"} /\ (server = "up" => server' = "up")
    BY <2>3
  <2>5. QED
    BY <2>1, <2>2, <2>3, <2>4 DEF DutiesAreNoted, Moving
<1>4. QED
  BY <1>2, <1>3

\* The lock stays with its duty, while another moves elsewhere.
LEMMA LockStaysThere ==
    ASSUME DevTypes, LockIsOfOne, NEW d \in Underway, NEW r, Becomes(d, r),
           ~Holding(d), r.at \notin {"stamp", "write"} \/ Head(r.todo) # "migrate",
           applyLock' = applyLock
    PROVE  LockIsOfOne'
<1> d \in Duties
  BY DEF Underway
<1>1. /\ duty'[d] = r
      /\ \A c \in Duties : c # d => duty'[c] = duty[c]
  BY BecomesIt
<1>2. \A c \in Duties : /\ IsAt(c, {"migrate"}, "stamp")' <=> IsAt(c, {"migrate"}, "stamp")
                        /\ IsAt(c, {"migrate"}, "write")' <=> IsAt(c, {"migrate"}, "write")
  <2> TAKE c \in Duties
  <2>1. CASE c = d
    BY <1>1, <2>1 DEF Holding, IsAt, Stage
  <2>2. CASE c # d
    BY <1>1, <2>2 DEF IsAt, Stage
  <2>3. QED
    BY <2>1, <2>2
<1>3. QED
  BY <1>2 DEF LockIsOfOne, Holding

\* What was declared stays so, where a duty wants it.
LEMMA DeclaredStaysThere ==
    ASSUME DevTypes, AppliedIsDeclared, NEW d \in Underway, NEW r, Becomes(d, r), Moving,
           applied' = applied,
           r.want = {} \/ r.want = declared \/ r.want = duty[d].want,
           r.at # "read" /\ Head(r.todo) = "migrate" =>
               \/ r.want = declared
               \/ r.want = duty[d].want /\ Stage(d) = "migrate" /\ duty[d].at # "read"
    PROVE  AppliedIsDeclared'
<1> d \in Duties
  BY DEF Underway
<1>1. /\ duty'[d] = r
      /\ \A c \in Duties : c # d => duty'[c] = duty[c]
      /\ Underway' \subseteq Underway
      /\ removed' = removed /\ declared' = declared /\ tangled' = tangled
  BY BecomesIt DEF Moving, editorVars
<1>2. SUFFICES ASSUME ~removed PROVE AppliedIsDeclared'
  BY <1>1 DEF AppliedIsDeclared
<1>3. applied \subseteq declared /\ \A c \in Duties : duty[c].want \subseteq declared
  BY <1>2 DEF AppliedIsDeclared
<1>4. \A c \in Duties : duty'[c].want \subseteq declared
  <2> TAKE c \in Duties
  <2>1. CASE c = d
    BY <1>1, <1>3, <2>1
  <2>2. CASE c # d
    BY <1>1, <1>3, <2>2
  <2>3. QED
    BY <2>1, <2>2
<1>5. ASSUME ~tangled, NEW c \in Underway', Head(duty'[c].todo) = "migrate", duty'[c].at # "read"
      PROVE  applied \subseteq duty'[c].want
  <2>1. c \in Underway /\ c \in Duties
    BY <1>1 DEF Underway
  <2>2. \A e \in Underway : Head(duty[e].todo) = "migrate" /\ duty[e].at # "read"
                            => applied \subseteq duty[e].want
    BY <1>2, <1>5 DEF AppliedIsDeclared, Stage
  <2>3. CASE c = d
    BY <1>1, <1>3, <1>5, <2>2, <2>3 DEF Stage
  <2>4. CASE c # d
    BY <1>1, <1>5, <2>1, <2>2, <2>4
  <2>5. QED
    BY <2>3, <2>4
<1>6. QED
  BY <1>1, <1>3, <1>4, <1>5 DEF AppliedIsDeclared, Stage

\* In a quiet server one duty is under way at most, and it is no request of the builder:
\* what is to be done, it has to do.
LEMMA QuietIsAlone ==
    ASSUME DevTypes, DutiesAreNoted, Quiet, NEW d \in Underway
    PROVE  /\ \A c \in Duties : c # d => duty[c] = Resting
           /\ duty[d].kind # "writer"
           /\ \A st : Pending(st) <=> st \in Left(duty[d].todo)
<1> d \in Duties
  BY DEF Underway
<1>1. \A c \in Duties : c # d => duty[c] = Resting
  BY DEF DutiesAreNoted, Quiet, Underway
<1>2. duty[d].kind # "writer"
  BY DEF DutiesAreNoted, Quiet
<1>3. \A st : Pending(st) <=> st \in Left(duty[d].todo)
  <2>1. Resting.todo = << >> /\ Left(<< >>) = {}
    BY WorkHasAStage
  <2>2. QED
    BY <1>1, <2>1 DEF Pending
<1>4. QED
  BY <1>1, <1>2, <1>3

\* What is still to be done, when the one duty has gone on.
LEMMA QuietGoesOn ==
    ASSUME DevTypes, DutiesAreNoted, NEW d \in Underway, NEW r, Becomes(d, r), Quiet
    PROVE  /\ \A st : Pending(st)' <=> st \in Left(r.todo)
           /\ Underway' \subseteq {d} /\ duty'[d] = r
<1> d \in Duties
  BY DEF Underway
<1>1. /\ duty'[d] = r
      /\ \A c \in Duties : c # d => duty'[c] = Resting
  BY BecomesIt, QuietIsAlone
<1>2. Resting.todo = << >> /\ Left(<< >>) = {}
  BY WorkHasAStage
<1>3. \A st : (\E c \in Duties : st \in Left(duty'[c].todo)) <=> st \in Left(r.todo)
  BY <1>1, <1>2
<1>4. QED
  BY <1>1, <1>3 DEF Pending, Underway

\* What the one duty of a quiet server has done is done, and what it has left it will do.
LEMMA WorkGoesOn ==
    ASSUME DevTypes, DutiesAreNoted, ToDoOrDone, NEW d \in Underway, NEW r, Becomes(d, r),
           Moving, server' = server \/ server' = "up",
           \A st \in Left(duty[d].todo) : st \in Left(r.todo) \/ st = Stage(d),
           Quiet =>
             /\ opts.migrates =>
                  /\ declared = applied => declared = applied'
                  /\ declared = sdk => declared = sdk'
                  /\ declared = drizzle => declared = drizzle'
                  /\ Stage(d) = "migrate" => declared = applied' \/ "migrate" \in Left(r.todo)
                  /\ Stage(d) = "sdk" => declared = sdk' \/ "sdk" \in Left(r.todo)
                  /\ Stage(d) = "drizzle" => declared = drizzle' \/ "drizzle" \in Left(r.todo)
             /\ opts.migrates /\ opts.kit =>
                  /\ declared = database => declared = database'
                  /\ Stage(d) = "kit" => declared = database' \/ "kit" \in Left(r.todo)
             /\ served = Cms(config, Collections) => (served = Cms(config, Collections))'
             /\ Stage(d) = "import" => (served = Cms(config, Collections))' \/ "import" \in Left(r.todo)
             /\ r.at # "read" => r.want = declared
             /\ r.at = "run" => drizzle' = declared
    PROVE  ToDoOrDone'
<1>1. /\ opts' = opts /\ declared' = declared /\ timer' = timer /\ tangled' = tangled
      /\ missed' = missed
  BY DEF Moving, editorVars
<1>2. SUFFICES ASSUME Quiet' PROVE ToDoOrDone'
  BY DEF ToDoOrDone
<1>3. Quiet
  BY <1>1, <1>2 DEF Quiet, DutiesAreNoted
<1>4. \A st : Pending(st) => Pending(st)' \/ st = Stage(d)
  BY <1>3, QuietIsAlone, QuietGoesOn
<1>5. \A st : Pending(st)' <=> st \in Left(r.todo)
  BY <1>3, QuietGoesOn
<1>6. /\ opts.migrates => declared = applied' \/ Pending("migrate")'
      /\ opts.migrates => declared = sdk' \/ Pending("sdk")'
      /\ opts.migrates => declared = drizzle' \/ Pending("drizzle")'
      /\ opts.migrates /\ opts.kit => declared = database' \/ Pending("kit")'
  BY <1>3, <1>4, <1>5 DEF ToDoOrDone
<1>7. (served = Cms(config, Collections))' \/ Pending("import")'
  BY <1>3, <1>4, <1>5 DEF ToDoOrDone
<1>8. \A c \in Underway' : /\ duty'[c].at # "read" => duty'[c].want = declared
                           /\ duty'[c].at = "run" => drizzle' = declared
  BY <1>3, QuietGoesOn
<1>9. QED
  BY <1>1, <1>6, <1>7, <1>8 DEF ToDoOrDone

-----------------------------------------------------------------------------
\* The steps of a duty.

\* What an exception ends, of a builder's request or of the process, is explained.
LEMMA ThrowsKeeps ==
    ASSUME DevInv, NEW d \in Underway, NEW reason, Throws(d, reason),
           UNCHANGED <<opts, editorVars, applied, missed, tangled>>, ~Holding(d),
           reason = "locked" => tangled \/ applyLock = "blank",
           reason = "destructive" => removed \/ tangled
    PROVE  DevInv'
<1> d \in Duties
  BY DEF Underway
<1> DevTypes /\ DutiesAreNoted /\ LockIsOfOne /\ AppliedIsDeclared /\ ToDoOrDone
  BY DEF DevInv
<1>1. CASE duty[d].kind = "writer"
  <2>1. /\ duty' = [duty EXCEPT ![d] = Resting] /\ server' = server /\ timer' = timer
        /\ applyLock' = applyLock /\ why' = why
    BY <1>1 DEF Throws
  <2>2. Becomes(d, Resting) /\ Moving
    BY <2>1 DEF Becomes, Moving
  <2>3. Resting.want = {} /\ Resting.at = "read"
    BY WorkHasAStage
  <2>4. DevTypes' /\ DutiesAreNoted'
    BY <2>1, <2>2, GoesOnNoted
  <2>5. LockIsOfOne'
    BY <2>1, <2>2, <2>3, LockStaysThere
  <2>6. AppliedIsDeclared'
    BY <2>2, <2>3, DeclaredStaysThere
  <2>7. ~Quiet'
    BY <1>1, <2>1 DEF Quiet, DutiesAreNoted
  <2>8. why' = "-"
    BY <2>1 DEF DutiesAreNoted
  <2>9. QED
    BY <2>4, <2>5, <2>6, <2>7, <2>8 DEF DevInv, ToDoOrDone, EndsAreExplained
<1>2. CASE duty[d].kind # "writer"
  <2>1. /\ duty' = [c \in Duties |-> Resting] /\ server' = "down" /\ timer' = FALSE
        /\ why' = reason
        /\ applyLock' = IF applyLock = "held" THEN "stale" ELSE applyLock
    BY <1>2 DEF Throws
  <2>2. Resting.todo = << >> /\ Resting.want = {} /\ Resting.at = "read"
    BY WorkHasAStage
  <2>3. \A c \in Duties : duty'[c] = Resting
    BY <2>1
  <2>4. Underway' = {}
    BY <2>3 DEF Underway
  <2>5. DevTypes'
    BY <2>1, <2>3 DEF DevTypes, editorVars
  <2>6. DutiesAreNoted'
    BY <2>1, <2>4 DEF DutiesAreNoted
  <2>7. LockIsOfOne'
    <3>1. \A c \in Duties : ~IsAt(c, {"migrate"}, "stamp")' /\ ~IsAt(c, {"migrate"}, "write")'
      BY <2>3 DEF IsAt
    <3>2. applyLock' # "held"
      BY <2>1
    <3>3. QED
      BY <3>1, <3>2 DEF LockIsOfOne, Holding
  <2>8. AppliedIsDeclared'
    BY <2>2, <2>3, <2>4 DEF AppliedIsDeclared, editorVars
  <2>9. ~Quiet'
    BY <2>1 DEF Quiet
  <2>10. EndsAreExplained'
    BY <2>1 DEF EndsAreExplained, editorVars
  <2>11. QED
    BY <2>5, <2>6, <2>7, <2>8, <2>9, <2>10 DEF DevInv, ToDoOrDone
<1>3. QED
  BY <1>1, <1>2

\* A duty goes on: what it needs for the invariant to go on with it.
LEMMA GoesOnKeeps ==
    ASSUME DevInv, NEW d \in Underway, NEW r, Becomes(d, r), Moving,
           server' = server \/ server' = "up",
           LockIsOfOne', AppliedIsDeclared', ToDoOrDone'
    PROVE  DevInv'
<1>1. DevTypes' /\ DutiesAreNoted'
  BY GoesOnNoted DEF DevInv
<1>2. why' = "-"
  BY DEF DevInv, DutiesAreNoted, Moving
<1>3. QED
  BY <1>1, <1>2 DEF DevInv, EndsAreExplained

\* The record of a duty that goes on within its stage.
Within(x, at, want) == [x EXCEPT !.at = at, !.want = want]

\* It has the shape of a duty.
LEMMA WithinAStage ==
    ASSUME NEW x \in DutyShapes, NEW at, NEW want \in SUBSET Declarable, NEW r,
           r = Within(x, at, want), at \in Places(Head(x.todo))
    PROVE  /\ r \in DutyShapes /\ r.at = at /\ r.want = want /\ r.todo = x.todo
           /\ r.kind = x.kind
<1>1. at \in {"read", "plan", "lock", "stamp", "write", "run"}
  BY DEF Places
<1>2. QED
  BY <1>1 DEF DutyShapes, Within

\* The stage a duty is in is among what it has left.
LEMMA StageIsLeft ==
    ASSUME DevTypes, NEW d \in Underway
    PROVE  Stage(d) \in Left(duty[d].todo)
<1>1. duty[d].todo \in Seq(StageNames) /\ duty[d].todo # << >>
  BY WorkHasAStage DEF Underway
<1>2. \A q \in Seq(StageNames) : q # << >> => 1 \in 1..Len(q) /\ Head(q) = q[1]
  OBVIOUS
<1>3. QED
  BY <1>1, <1>2 DEF Stage, Left

\* A duty that goes on within its stage, with what it has read.
LEMMA GoesWithin ==
    ASSUME DevTypes, NEW d \in Underway, NEW at, at \in Places(Stage(d)), Goes(d, at)
    PROVE  \E r : /\ Becomes(d, r) /\ r.at = at /\ r.want = duty[d].want
                  /\ r.todo = duty[d].todo /\ Head(r.todo) = Stage(d)
<1> d \in Duties
  BY DEF Underway
<1>0. duty[d].want \in SUBSET Declarable /\ duty[d] \in DutyShapes
  BY WorkHasAStage
<1>2. PICK x \in DutyShapes, w \in SUBSET Declarable : x = duty[d] /\ w = x.want
  BY <1>0
<1>1. PICK r : r = Within(x, at, w)
  OBVIOUS
<1>3. /\ r \in DutyShapes /\ r.at = at /\ r.want = duty[d].want /\ r.todo = duty[d].todo
      /\ r.kind = duty[d].kind /\ Head(r.todo) = Stage(d)
  <2>1. at \in Places(Head(x.todo))
    BY <1>2 DEF Stage
  <2>2. /\ r \in DutyShapes /\ r.at = at /\ r.want = w /\ r.todo = x.todo /\ r.kind = x.kind
    BY <1>1, <2>1, WithinAStage
  <2>3. QED
    BY <1>2, <2>2, Zenon DEF Stage
<1>4. r = [x EXCEPT !.at = at]
  BY <1>1, <1>2 DEF DutyShapes, Within
<1>5. duty' = [duty EXCEPT ![d] = r]
  BY <1>2, <1>4, Zenon DEF Goes
<1>6. QED
  BY <1>3, <1>5 DEF Becomes

\* Reading the collections keeps the invariant: what is read is what is declared.
LEMMA ReadKeeps ==
    ASSUME DevInv, NEW d \in Duties, ReadSchema(d)
    PROVE  DevInv'
<1> DevTypes /\ DutiesAreNoted /\ LockIsOfOne /\ AppliedIsDeclared /\ ToDoOrDone
  BY DEF DevInv
<1>1. d \in Underway /\ Stage(d) \in Reading /\ duty[d].at = "read" /\ ~Holding(d)
  BY DEF ReadSchema, IsAt, Underway, Holding, Reading
<1>2. CASE Fails("collections")
  BY <1>1, <1>2, ThrowsKeeps DEF ReadSchema, Unmoved
<1>3. CASE ~Fails("collections")
  <2> DEFINE at == IF Stage(d) = "migrate" THEN "plan" ELSE "write"
  <2>0. PICK x : x = duty[d]
    OBVIOUS
  <2>1. PICK r, w : r = Within(x, at, w) /\ w = declared
    OBVIOUS
  <2>2. at \in Places(Stage(d)) /\ declared \in SUBSET Declarable /\ duty[d] \in DutyShapes
    BY <1>1, WorkHasAStage DEF Reading, Places, DevTypes
  <2>3. /\ duty' = [duty EXCEPT ![d].want = declared, ![d].at = at]
        /\ UNCHANGED <<server, timer, applyLock, why>>
    BY <1>3 DEF ReadSchema
  <2>4. /\ UNCHANGED <<applied, evaluated, served, sdk, drizzle, database>> /\ Moving
    BY <2>3 DEF ReadSchema, Unmoved, Moving
  <2>5. at # "read" /\ at # "run" /\ at # "stamp" /\ (at = "write" => Stage(d) # "migrate")
    OBVIOUS
  <2> HIDE DEF at
  <2>6. duty' = [duty EXCEPT ![d] = r]
    <3>1. DOMAIN duty' = Duties /\ duty' = [c \in Duties |-> duty'[c]]
      BY <2>3 DEF DevTypes
    <3>2. \A c \in Duties : c # d => duty'[c] = duty[c]
      BY <2>3 DEF DevTypes
    <3>3. duty'[d] = [[duty[d] EXCEPT !.want = declared] EXCEPT !.at = at]
      BY <2>3 DEF DevTypes
    <3>4. x \in DutyShapes
      BY <2>0, <2>2
    <3>5. [[x EXCEPT !.want = w] EXCEPT !.at = at] = Within(x, at, w)
      BY <3>4 DEF DutyShapes, Within
    <3>6. duty'[d] = r
      BY <2>0, <2>1, <3>3, <3>5, Zenon
    <3>7. QED
      BY <3>1, <3>2, <3>6 DEF DevTypes
  <2>7. /\ r \in DutyShapes /\ r.at = at /\ r.want = declared /\ r.todo = duty[d].todo
        /\ r.kind = duty[d].kind /\ Head(r.todo) = Stage(d)
    <3>1. at \in Places(Head(x.todo)) /\ x \in DutyShapes /\ w \in SUBSET Declarable
      BY <2>0, <2>1, <2>2 DEF Stage
    <3>2. /\ r \in DutyShapes /\ r.at = at /\ r.want = w /\ r.todo = x.todo /\ r.kind = x.kind
      BY <2>1, <3>1, WithinAStage
    <3>3. QED
      BY <2>0, <2>1, <3>2, Zenon DEF Stage
  <2>8. Becomes(d, r)
    BY <2>2, <2>6, <2>7 DEF Becomes
  <2>9. LockIsOfOne'
    BY <1>1, <2>3, <2>5, <2>7, <2>8, LockStaysThere
  <2>10. AppliedIsDeclared'
    BY <1>1, <2>4, <2>7, <2>8, DeclaredStaysThere
  <2>11. ToDoOrDone'
    <3>1. (served = Cms(config, Collections))' <=> served = Cms(config, Collections)
      BY <2>4 DEF Moving, editorVars, Collections
    <3>2. \A st \in Left(duty[d].todo) : st \in Left(r.todo)
      BY <2>7
    <3>3. Stage(d) \in Left(r.todo)
      BY <1>1, <2>7, StageIsLeft
    <3>4. QED
      BY <1>1, <2>3, <2>4, <2>5, <2>7, <2>8, <3>1, <3>2, <3>3, WorkGoesOn
  <2>12. QED
    BY <1>1, <2>3, <2>4, <2>8, <2>9, <2>10, <2>11, GoesOnKeeps
<1>4. QED
  BY <1>2, <1>3

\* Where a duty goes on within its stage, with nothing done or read, the invariant goes on.
LEMMA GoesKeeps ==
    ASSUME DevInv, NEW d \in Underway, NEW at \in {"lock", "stamp", "write"}, Goes(d, at),
           Stage(d) = "migrate", duty[d].at # "read",
           UNCHANGED <<server, timer, why, applied, evaluated, served>>, Unmoved, LockIsOfOne'
    PROVE  DevInv'
<1> d \in Duties /\ Moving
  BY DEF Underway, Moving, Unmoved
<1> DevTypes /\ DutiesAreNoted /\ LockIsOfOne /\ AppliedIsDeclared /\ ToDoOrDone
  BY DEF DevInv
<1>1. PICK r : /\ Becomes(d, r) /\ r.at = at /\ r.want = duty[d].want
               /\ r.todo = duty[d].todo /\ Head(r.todo) = Stage(d)
  BY GoesWithin DEF Places
<1>2. AppliedIsDeclared'
  BY <1>1, DeclaredStaysThere
<1>3. (served = Cms(config, Collections))' <=> served = Cms(config, Collections)
  BY DEF Moving, editorVars, Collections
<1>4. \A st \in Left(duty[d].todo) : st \in Left(r.todo)
  BY <1>1
<1>5. Stage(d) \in Left(r.todo)
  BY <1>1, StageIsLeft
<1>6. Quiet => r.want = declared
  BY <1>1 DEF ToDoOrDone
<1>7. ToDoOrDone'
  BY <1>1, <1>3, <1>4, <1>5, <1>6, WorkGoesOn DEF Unmoved
<1>8. QED
  BY <1>1, <1>2, <1>7, GoesOnKeeps

\* A plan that drops something comes of a removal, or of a duty that overtook another.
LEMMA MigrationPlanKeeps ==
    ASSUME DevInv, NEW d \in Duties, PlanMigration(d)
    PROVE  DevInv'
<1> DevTypes /\ DutiesAreNoted /\ LockIsOfOne /\ AppliedIsDeclared /\ ToDoOrDone
  BY DEF DevInv
<1>1. d \in Underway /\ Stage(d) = "migrate" /\ duty[d].at = "plan" /\ ~Holding(d)
  BY DEF PlanMigration, IsAt, Underway, Holding
<1>2. UNCHANGED <<applied, evaluated, served>> /\ Unmoved
  BY DEF PlanMigration
<1>3. CASE ~(applied \subseteq duty[d].want)
  <2>1. removed \/ tangled
    BY <1>1, <1>3 DEF AppliedIsDeclared
  <2>2. Throws(d, "destructive")
    BY <1>3 DEF PlanMigration
  <2>3. QED
    BY <1>1, <1>2, <2>1, <2>2, ThrowsKeeps DEF Unmoved
<1>4. CASE applied \subseteq duty[d].want /\ applied # duty[d].want
  <2>1. Goes(d, "lock") /\ UNCHANGED <<server, timer, applyLock, why>>
    BY <1>4 DEF PlanMigration
  <2>2. "lock" \in Places(Stage(d))
    BY <1>1 DEF Places
  <2>3. PICK r : /\ Becomes(d, r) /\ r.at = "lock"
    BY <1>1, <2>1, <2>2, GoesWithin
  <2>4. LockIsOfOne'
    BY <1>1, <2>1, <2>3, LockStaysThere
  <2>5. QED
    BY <1>1, <1>2, <2>1, <2>4, GoesKeeps
<1>5. CASE applied = duty[d].want
  <2>1. NextStage(d) /\ UNCHANGED <<server, timer, applyLock, why>>
    BY <1>5 DEF PlanMigration
  <2>2. PICK r : /\ Becomes(d, r) /\ r.at = "read" /\ r.want = {}
                 /\ Left(duty[d].todo) \subseteq {Stage(d)} \cup Left(r.todo)
    BY <1>1, <2>1, NextStageComes
  <2>3. Moving
    BY <1>2, <2>1 DEF Unmoved, Moving
  <2>4. LockIsOfOne' /\ AppliedIsDeclared'
    BY <1>1, <1>2, <2>1, <2>2, <2>3, LockStaysThere, DeclaredStaysThere
  <2>5. Quiet => applied' = declared
    BY <1>1, <1>2, <1>5 DEF ToDoOrDone
  <2>6. (served = Cms(config, Collections))' <=> served = Cms(config, Collections)
    BY <1>2, <2>3 DEF Moving, editorVars, Collections
  <2>7. ToDoOrDone'
    BY <1>1, <1>2, <2>1, <2>2, <2>3, <2>5, <2>6, WorkGoesOn DEF Unmoved
  <2>8. QED
    BY <1>1, <2>1, <2>2, <2>3, <2>4, <2>7, GoesOnKeeps
<1>6. QED
  BY <1>3, <1>4, <1>5

\* A lock that is held is another duty's: duties overlap then.
LEMMA TakeLockKeeps ==
    ASSUME DevInv, NEW d \in Duties, TakeLock(d)
    PROVE  DevInv'
<1> DevTypes /\ DutiesAreNoted /\ LockIsOfOne /\ AppliedIsDeclared /\ ToDoOrDone
  BY DEF DevInv
<1>1. /\ d \in Underway /\ Stage(d) = "migrate" /\ duty[d].at = "lock" /\ ~Holding(d)
      /\ duty[d].at # "read"
  BY DEF TakeLock, IsAt, Underway, Holding
<1>2. UNCHANGED <<applied, evaluated, served>> /\ Unmoved
  BY DEF TakeLock
<1>3. CASE applyLock \in {"blank", "held"}
  <2>1. ASSUME applyLock = "held" PROVE tangled
    <3>1. PICK c \in Duties : IsAt(c, {"migrate"}, "write")
      BY <2>1 DEF LockIsOfOne
    <3>2. c \in Underway /\ c # d
      BY <1>1, <3>1 DEF IsAt, Underway
    <3>3. QED
      BY <1>1, <3>2 DEF DutiesAreNoted
  <2>2. Throws(d, "locked")
    BY <1>3 DEF TakeLock
  <2>3. QED
    BY <1>1, <1>2, <1>3, <2>1, <2>2, ThrowsKeeps DEF Unmoved
<1>4. CASE applyLock \notin {"blank", "held"}
  <2>1. Goes(d, "stamp") /\ applyLock' = "blank" /\ UNCHANGED <<server, timer, why>>
    BY <1>4 DEF TakeLock
  <2>2. "stamp" \in Places(Stage(d))
    BY <1>1 DEF Places
  <2>3. PICK r : Becomes(d, r) /\ r.at = "stamp" /\ Head(r.todo) = "migrate"
    BY <1>1, <2>1, <2>2, GoesWithin
  <2>4. /\ duty'[d] = r /\ \A c \in Duties : c # d => duty'[c] = duty[c]
    BY <2>3, BecomesIt
  <2>5. \A c \in Duties : ~Holding(c)
    BY <1>4 DEF LockIsOfOne, Holding
  <2>6. \A c \in Duties : ~IsAt(c, {"migrate"}, "write")' /\ (IsAt(c, {"migrate"}, "stamp")' => c = d)
    <3> TAKE c \in Duties
    <3>1. CASE c = d
      BY <2>3, <2>4, <3>1 DEF IsAt
    <3>2. CASE c # d
      BY <2>4, <2>5, <3>2 DEF IsAt, Stage, Holding
    <3>3. QED
      BY <3>1, <3>2
  <2>7. LockIsOfOne'
    BY <2>1, <2>6 DEF LockIsOfOne, Holding
  <2>8. QED
    BY <1>1, <1>2, <2>1, <2>7, GoesKeeps
<1>5. QED
  BY <1>3, <1>4

\* The duty that took the lock names itself in it.
LEMMA NameInLockKeeps ==
    ASSUME DevInv, NEW d \in Duties, NameInLock(d)
    PROVE  DevInv'
<1> DevTypes /\ DutiesAreNoted /\ LockIsOfOne /\ AppliedIsDeclared /\ ToDoOrDone
  BY DEF DevInv
<1>1. /\ d \in Underway /\ Stage(d) = "migrate" /\ duty[d].at = "stamp" /\ Holding(d)
      /\ duty[d].at # "read"
  BY DEF NameInLock, IsAt, Underway, Holding
<1>2. /\ UNCHANGED <<applied, evaluated, served>> /\ Unmoved
      /\ Goes(d, "write") /\ applyLock' = "held" /\ UNCHANGED <<server, timer, why>>
  BY DEF NameInLock
<1>3. PICK r : Becomes(d, r) /\ r.at = "write" /\ r.todo = duty[d].todo /\ Head(r.todo) = "migrate"
  BY <1>1, <1>2, GoesWithin DEF Places
<1>4. /\ duty'[d] = r /\ \A c \in Duties : c # d => duty'[c] = duty[c]
  BY <1>3, BecomesIt
<1>5. \A c \in Duties : /\ ~IsAt(c, {"migrate"}, "stamp")'
                        /\ IsAt(c, {"migrate"}, "write")' <=> c = d
  <2> TAKE c \in Duties
  <2>1. CASE c = d
    <3>1. r # Resting
      BY <1>3, WorkHasAStage
    <3>2. QED
      BY <1>3, <1>4, <2>1, <3>1 DEF IsAt, Stage
  <2>2. CASE c # d
    BY <1>1, <1>4, <2>2 DEF IsAt, Stage, Holding, LockIsOfOne
  <2>3. QED
    BY <2>1, <2>2
<1>6. LockIsOfOne'
  BY <1>2, <1>5 DEF LockIsOfOne, Holding
<1>7. QED
  BY <1>1, <1>2, <1>6, GoesKeeps

\* The migration brings the snapshot to what the duty has read, and frees its lock.
LEMMA WriteMigratedKeeps ==
    ASSUME DevInv, NEW d \in Duties, WriteMigrated(d)
    PROVE  DevInv'
<1> DevTypes /\ DutiesAreNoted /\ LockIsOfOne /\ AppliedIsDeclared /\ ToDoOrDone
  BY DEF DevInv
<1>1. /\ d \in Underway /\ Stage(d) = "migrate" /\ duty[d].at = "write" /\ Holding(d)
      /\ duty[d].at # "read"
  BY DEF WriteMigrated, IsAt, Underway, Holding
<1>2. /\ applied' = duty[d].want /\ applyLock' = "free" /\ NextStage(d)
      /\ UNCHANGED <<server, timer, why, evaluated, served>> /\ Unmoved
  BY DEF WriteMigrated
<1>3. Moving
  BY <1>2 DEF Unmoved, Moving
<1>4. PICK r : /\ Becomes(d, r) /\ r.at = "read" /\ r.want = {}
               /\ Left(duty[d].todo) \subseteq {Stage(d)} \cup Left(r.todo)
  BY <1>1, <1>2, NextStageComes
<1>5. /\ duty'[d] = r /\ \A c \in Duties : c # d => duty'[c] = duty[c]
      /\ Underway' \subseteq Underway
  BY <1>1, <1>4, BecomesIt
<1>6. LockIsOfOne'
  <2>1. ASSUME NEW c \in Duties PROVE ~IsAt(c, {"migrate"}, "stamp")' /\ ~IsAt(c, {"migrate"}, "write")'
    <3>1. CASE c = d
      BY <1>4, <1>5, <3>1 DEF IsAt
    <3>2. CASE c # d
      BY <1>1, <1>5, <3>2 DEF IsAt, Stage, Holding, LockIsOfOne
    <3>3. QED
      BY <3>1, <3>2
  <2>2. QED
    BY <1>2, <2>1 DEF LockIsOfOne, Holding
<1>7. AppliedIsDeclared'
  <2>1. removed' = removed /\ declared' = declared /\ tangled' = tangled
    BY <1>3 DEF Moving, editorVars
  <2>2. SUFFICES ASSUME ~removed PROVE AppliedIsDeclared'
    BY <2>1 DEF AppliedIsDeclared
  <2>3. \A c \in Duties : duty[c].want \subseteq declared
    BY <2>2 DEF AppliedIsDeclared
  <2>4. \A c \in Duties : duty'[c].want \subseteq declared
    <3> TAKE c \in Duties
    <3>1. CASE c = d
      BY <1>4, <1>5, <3>1
    <3>2. CASE c # d
      BY <1>5, <2>3, <3>2
    <3>3. QED
      BY <3>1, <3>2
  <2>5. ASSUME ~tangled, NEW c \in Underway' PROVE duty'[c].at = "read"
    BY <1>1, <1>4, <1>5, <2>5 DEF DutiesAreNoted
  <2>6. QED
    BY <1>2, <2>1, <2>3, <2>4, <2>5 DEF AppliedIsDeclared
<1>8. Quiet => applied' = declared
  BY <1>1, <1>2 DEF ToDoOrDone
<1>9. (served = Cms(config, Collections))' <=> served = Cms(config, Collections)
  BY <1>2, <1>3 DEF Moving, editorVars, Collections
<1>10. ToDoOrDone'
  BY <1>1, <1>2, <1>3, <1>4, <1>8, <1>9, WorkGoesOn DEF Unmoved
<1>11. QED
  BY <1>1, <1>2, <1>3, <1>4, <1>6, <1>7, <1>10, GoesOnKeeps

\* What is generated declares what was read: what the files declare, if all is quiet.
LEMMA WriteArtifactKeeps ==
    ASSUME DevInv, NEW d \in Duties, WriteArtifact(d)
    PROVE  DevInv'
<1> DevTypes /\ DutiesAreNoted /\ LockIsOfOne /\ AppliedIsDeclared /\ ToDoOrDone
  BY DEF DevInv
<1>1. /\ d \in Underway /\ Stage(d) \in {"sdk", "drizzle", "kit"} /\ duty[d].at = "write"
      /\ duty[d].at # "read" /\ ~Holding(d)
  BY DEF WriteArtifact, IsAt, Underway, Holding
<1>2. /\ UNCHANGED <<opts, editorVars, server, timer, applied, applyLock, database, evaluated,
                     served, why, tangled, missed>>
      /\ IF Stage(d) = "sdk" THEN sdk' = duty[d].want /\ UNCHANGED drizzle
                             ELSE drizzle' = duty[d].want /\ UNCHANGED sdk
      /\ Moving
  BY DEF WriteArtifact, Moving
<1>3. Quiet => duty[d].want = declared
  BY <1>1 DEF ToDoOrDone
<1>4. (served = Cms(config, Collections))' <=> served = Cms(config, Collections)
  BY <1>2 DEF editorVars, Collections
<1>5. CASE Stage(d) = "kit"
  <2>1. Goes(d, "run") /\ "run" \in Places(Stage(d))
    BY <1>5 DEF WriteArtifact, Places
  <2>2. PICK r : /\ Becomes(d, r) /\ r.at = "run" /\ r.want = duty[d].want
                 /\ r.todo = duty[d].todo /\ Head(r.todo) = Stage(d)
    BY <1>1, <2>1, GoesWithin
  <2>3. LockIsOfOne' /\ AppliedIsDeclared'
    BY <1>1, <1>2, <1>5, <2>2, LockStaysThere, DeclaredStaysThere
  <2>4. \A st \in Left(duty[d].todo) : st \in Left(r.todo)
    BY <2>2
  <2>5. "kit" \in Left(r.todo)
    BY <1>1, <1>5, <2>2, StageIsLeft
  <2>6. ToDoOrDone'
    BY <1>1, <1>2, <1>3, <1>4, <1>5, <2>2, <2>4, <2>5, WorkGoesOn
  <2>7. QED
    BY <1>1, <1>2, <2>2, <2>3, <2>6, GoesOnKeeps
<1>6. CASE Stage(d) \in {"sdk", "drizzle"}
  <2>1. NextStage(d)
    BY <1>6 DEF WriteArtifact
  <2>2. PICK r : /\ Becomes(d, r) /\ r.at = "read" /\ r.want = {}
                 /\ Left(duty[d].todo) \subseteq {Stage(d)} \cup Left(r.todo)
    BY <1>1, <2>1, NextStageComes
  <2>3. LockIsOfOne' /\ AppliedIsDeclared'
    BY <1>1, <1>2, <2>2, LockStaysThere, DeclaredStaysThere
  <2>4. ToDoOrDone'
    BY <1>1, <1>2, <1>3, <1>4, <1>6, <2>2, WorkGoesOn
  <2>5. QED
    BY <1>1, <1>2, <2>2, <2>3, <2>4, GoesOnKeeps
<1>7. QED
  BY <1>1, <1>5, <1>6

\* drizzle-kit migrates the database to the generated file.
LEMMA RunKitKeeps ==
    ASSUME DevInv, NEW d \in Duties, RunKit(d)
    PROVE  DevInv'
<1> DevTypes /\ DutiesAreNoted /\ LockIsOfOne /\ AppliedIsDeclared /\ ToDoOrDone
  BY DEF DevInv
<1>1. /\ d \in Underway /\ Stage(d) = "kit" /\ duty[d].at = "run" /\ ~Holding(d)
  BY DEF RunKit, IsAt, Underway, Holding
<1>2. UNCHANGED <<opts, editorVars, applied, sdk, drizzle, evaluated, served, tangled, missed>>
  BY DEF RunKit
<1>3. CASE Throws(d, "kit")
  BY <1>1, <1>2, <1>3, ThrowsKeeps
<1>4. CASE /\ database' = drizzle /\ NextStage(d)
           /\ UNCHANGED <<server, timer, applyLock, why>>
  <2>1. Moving
    BY <1>2, <1>4 DEF Moving
  <2>2. PICK r : /\ Becomes(d, r) /\ r.at = "read" /\ r.want = {}
                 /\ Left(duty[d].todo) \subseteq {Stage(d)} \cup Left(r.todo)
    BY <1>1, <1>4, NextStageComes
  <2>3. LockIsOfOne' /\ AppliedIsDeclared'
    BY <1>1, <1>2, <1>4, <2>1, <2>2, LockStaysThere, DeclaredStaysThere
  <2>4. Quiet => database' = declared
    BY <1>1, <1>4 DEF ToDoOrDone
  <2>5. (served = Cms(config, Collections))' <=> served = Cms(config, Collections)
    BY <1>2 DEF editorVars, Collections
  <2>6. ToDoOrDone'
    BY <1>1, <1>2, <1>4, <2>1, <2>2, <2>4, <2>5, WorkGoesOn
  <2>7. QED
    BY <1>1, <1>4, <2>1, <2>2, <2>3, <2>6, GoesOnKeeps
<1>5. QED
  BY <1>3, <1>4 DEF RunKit

\* The import serves the CMS file as it is, over the collections the process evaluated.
LEMMA ImportKeeps ==
    ASSUME DevInv, NEW d \in Duties, ImportCms(d)
    PROVE  DevInv'
<1> DevTypes /\ DutiesAreNoted /\ LockIsOfOne /\ AppliedIsDeclared /\ ToDoOrDone
  BY DEF DevInv
<1>1. /\ d \in Underway /\ Stage(d) = "import" /\ duty[d].at = "read" /\ ~Holding(d)
  BY DEF ImportCms, IsAt, Underway, Holding
<1>2. /\ UNCHANGED <<opts, editorVars, applied, sdk, drizzle, database, missed, tangled>>
  BY DEF ImportCms, Unmoved
<1>3. CASE Fails("config") \/ (evaluated = {} /\ Fails("collections"))
  BY <1>1, <1>2, <1>3, ThrowsKeeps DEF ImportCms
<1>4. CASE ~(Fails("config") \/ (evaluated = {} /\ Fails("collections")))
  <2>1. /\ served' = Cms(config, Collections)
        /\ evaluated' = IF opts.layout = "one" THEN evaluated ELSE {Collections}
        /\ NextStage(d) /\ UNCHANGED <<server, timer, applyLock, why>>
    BY <1>4 DEF ImportCms
  <2>2. Moving
    BY <1>2, <2>1 DEF Moving
  <2>3. PICK r : /\ Becomes(d, r) /\ r.at = "read" /\ r.want = {}
                 /\ Left(duty[d].todo) \subseteq {Stage(d)} \cup Left(r.todo)
    BY <1>1, <2>1, NextStageComes
  <2>4. LockIsOfOne' /\ AppliedIsDeclared'
    BY <1>1, <1>2, <2>1, <2>2, <2>3, LockStaysThere, DeclaredStaysThere
  <2>5. Collections' = Collections
    <3>1. CASE opts.layout = "one"
      BY <1>2, <3>1 DEF Collections, editorVars
    <3>2. CASE opts.layout # "one"
      <4>1. evaluated' = {Collections}
        BY <2>1, <3>2
      <4>2. Collections' = CHOOSE c \in evaluated' : TRUE
        BY <1>2, <3>2, <4>1 DEF Collections
      <4>3. PICK k : k = Collections
        OBVIOUS
      <4>4. (CHOOSE c \in {k} : TRUE) = k
        OBVIOUS
      <4>5. QED
        BY <4>1, <4>2, <4>3, <4>4
    <3>3. QED
      BY <3>1, <3>2
  <2>6. (served = Cms(config, Collections))'
    BY <1>2, <2>1, <2>5 DEF editorVars
  <2>7. ToDoOrDone'
    BY <1>1, <1>2, <2>1, <2>2, <2>3, <2>6, WorkGoesOn
  <2>8. QED
    BY <1>1, <2>1, <2>2, <2>3, <2>4, <2>7, GoesOnKeeps
<1>5. QED
  BY <1>3, <1>4

\* The server listens when the startup has come to its end.
LEMMA ListensKeeps ==
    ASSUME DevInv, NEW d \in Duties, Listens(d)
    PROVE  DevInv'
<1> DevTypes /\ DutiesAreNoted /\ LockIsOfOne /\ AppliedIsDeclared /\ ToDoOrDone
  BY DEF DevInv
<1>1. /\ d \in Underway /\ Stage(d) = "listen" /\ duty[d].at = "read" /\ ~Holding(d)
  BY DEF Listens, IsAt, Underway, Holding
<1>2. /\ UNCHANGED <<timer, applied, applyLock, evaluated, served, why>> /\ Unmoved
      /\ server' = "up" /\ NextStage(d)
  BY DEF Listens
<1>3. Moving
  BY <1>2 DEF Unmoved, Moving
<1>4. PICK r : /\ Becomes(d, r) /\ r.at = "read" /\ r.want = {}
               /\ Left(duty[d].todo) \subseteq {Stage(d)} \cup Left(r.todo)
  BY <1>1, <1>2, NextStageComes
<1>5. LockIsOfOne' /\ AppliedIsDeclared'
  BY <1>1, <1>2, <1>3, <1>4, LockStaysThere, DeclaredStaysThere
<1>6. (served = Cms(config, Collections))' <=> served = Cms(config, Collections)
  BY <1>2, <1>3 DEF Moving, editorVars, Collections
<1>7. ToDoOrDone'
  BY <1>1, <1>2, <1>3, <1>4, <1>6, WorkGoesOn DEF Unmoved
<1>8. QED
  BY <1>1, <1>2, <1>3, <1>4, <1>5, <1>7, GoesOnKeeps

-----------------------------------------------------------------------------
\* What begins, and the changes of the files.

\* Another duty under way, at the beginning of its first stage.
LEMMA BeginShape ==
    ASSUME DevTypes, NEW d \in Duties, NEW kind \in {"startup", "refresh", "writer"},
           NEW stages \in Seq(StageNames) \ {<< >>}, BeginDuty(d, kind, stages)
    PROVE  /\ DOMAIN duty' = Duties /\ duty' = [c \in Duties |-> duty'[c]]
           /\ \A c \in Duties : c # d => duty'[c] = duty[c]
           /\ duty[d] = Resting
           /\ duty'[d].kind = kind /\ duty'[d].todo = stages /\ duty'[d].at = "read"
           /\ duty'[d].want = {}
           /\ duty'[d] \in DutyShapes /\ duty'[d].at \in Places(Head(duty'[d].todo))
           /\ Underway' = Underway \cup {d}
           /\ tangled' \in BOOLEAN
           /\ ~tangled' => Underway = {} /\ Underway' = {d}
           /\ ~tangled' => ~tangled \/ kind # "writer"
<1>1. PICK r : r = Doing(kind, stages)
  OBVIOUS
<1>2. /\ r.kind = kind /\ r.todo = stages /\ r.at = "read" /\ r.want = {}
      /\ r \in DutyShapes /\ r # Resting /\ r.at \in Places(Head(r.todo))
  BY <1>1, DoingIsShaped
<1>3. duty[d] = Resting /\ duty' = [duty EXCEPT ![d] = r]
  BY <1>1 DEF BeginDuty
<1>4. /\ DOMAIN duty' = Duties /\ duty' = [c \in Duties |-> duty'[c]]
      /\ \A c \in Duties : c # d => duty'[c] = duty[c]
      /\ duty'[d] = r
  BY <1>3 DEF DevTypes
<1>5. Underway' = Underway \cup {d}
  BY <1>2, <1>4 DEF Underway
<1>6. tangled' = IF Underway # {} THEN TRUE ELSE tangled /\ kind = "writer"
  BY DEF BeginDuty
<1>7. /\ tangled' \in BOOLEAN
      /\ ~tangled' => Underway = {} /\ Underway' = {d}
      /\ ~tangled' => ~tangled \/ kind # "writer"
  BY <1>5, <1>6 DEF DevTypes
<1>8. QED
  BY <1>2, <1>3, <1>4, <1>5, <1>7

\* A duty that begins has no lock, and wants nothing yet.
LEMMA BeginKeeps ==
    ASSUME DevTypes, LockIsOfOne, AppliedIsDeclared,
           NEW d \in Duties, NEW kind \in {"startup", "refresh", "writer"},
           NEW stages \in Seq(StageNames) \ {<< >>}, BeginDuty(d, kind, stages),
           applied' = applied, applyLock' = applyLock, opts' = opts,
           declared' \in SUBSET Declarable, removed' \in BOOLEAN,
           ~removed' => ~removed /\ declared \subseteq declared',
           server' \in {"off", "starting", "up", "down"}, timer' \in BOOLEAN, missed' \in BOOLEAN
    PROVE  DevTypes' /\ LockIsOfOne' /\ AppliedIsDeclared'
<1>1. /\ DOMAIN duty' = Duties /\ duty' = [c \in Duties |-> duty'[c]]
      /\ \A c \in Duties : c # d => duty'[c] = duty[c]
      /\ duty[d] = Resting
      /\ duty'[d].at = "read" /\ duty'[d].want = {}
      /\ duty'[d] \in DutyShapes /\ duty'[d].at \in Places(Head(duty'[d].todo))
      /\ tangled' \in BOOLEAN
      /\ ~tangled' => Underway' = {d}
  BY BeginShape
<1>2. DevTypes'
  <2>1. \A c \in Duties : \/ duty'[c] = Resting
                          \/ duty'[c] \in DutyShapes /\ duty'[c].at \in Places(Head(duty'[c].todo))
    <3> HIDE DEF DutyShapes
    <3>1. \A c \in Duties : \/ duty[c] = Resting
                            \/ duty[c] \in DutyShapes /\ duty[c].at \in Places(Head(duty[c].todo))
      BY DEF DevTypes, Stage
    <3>2. QED
      BY <1>1, <3>1
  <2>2. QED
    BY <1>1, <2>1 DEF DevTypes, Stage
<1>3. LockIsOfOne'
  <2>1. \A c \in Duties : /\ IsAt(c, {"migrate"}, "stamp")' <=> IsAt(c, {"migrate"}, "stamp")
                          /\ IsAt(c, {"migrate"}, "write")' <=> IsAt(c, {"migrate"}, "write")
    <3> TAKE c \in Duties
    <3>1. CASE c = d
      BY <1>1, <3>1 DEF IsAt
    <3>2. CASE c # d
      BY <1>1, <3>2 DEF IsAt, Stage
    <3>3. QED
      BY <3>1, <3>2
  <2>2. QED
    BY <2>1 DEF LockIsOfOne, Holding
<1>4. AppliedIsDeclared'
  <2>1. SUFFICES ASSUME ~removed' PROVE AppliedIsDeclared'
    BY DEF AppliedIsDeclared
  <2>2. applied \subseteq declared' /\ \A c \in Duties : duty[c].want \subseteq declared'
    BY <2>1 DEF AppliedIsDeclared
  <2>3. \A c \in Duties : duty'[c].want \subseteq declared'
    <3> TAKE c \in Duties
    <3>1. CASE c = d
      BY <1>1, <3>1
    <3>2. CASE c # d
      BY <1>1, <2>2, <3>2
    <3>3. QED
      BY <3>1, <3>2
  <2>4. ~tangled' => \A c \in Underway' : duty'[c].at = "read"
    BY <1>1
  <2>5. QED
    BY <2>2, <2>3, <2>4 DEF AppliedIsDeclared
<1>5. QED
  BY <1>2, <1>3, <1>4

\* A refresh that begins alone will do all there is to do.
LEMMA BeginsQuiet ==
    ASSUME DevTypes, NEW d \in Duties, NEW kind \in {"startup", "refresh"},
           NEW stages \in {RefreshStages, RefreshStages \o <<"listen">>},
           BeginDuty(d, kind, stages), opts' = opts
    PROVE  ToDoOrDone'
<1>1. /\ stages \in Seq(StageNames) \ {<< >>}
      /\ opts.migrates => {"migrate", "sdk", "drizzle"} \subseteq Left(stages)
      /\ opts.migrates /\ opts.kit => "kit" \in Left(stages)
      /\ "import" \in Left(stages)
  BY RefreshDoesAll DEF DevTypes
<1>2. /\ duty'[d].todo = stages /\ duty'[d].at = "read"
      /\ ~tangled' => Underway' = {d}
  BY <1>1, BeginShape
<1>3. \A st \in Left(stages) : Pending(st)'
  BY <1>2 DEF Pending
<1>4. ~tangled' => \A c \in Underway' : duty'[c].at # "run" /\ duty'[c].at = "read"
  BY <1>2
<1>5. Quiet' => ~tangled'
  BY DEF Quiet
<1>6. QED
  BY <1>1, <1>3, <1>4, <1>5 DEF ToDoOrDone

\* The start of the server, after the end of an earlier one.
LEMMA ServerStartKeeps ==
    ASSUME DevInv, NEW d \in Duties, StartServer(d)
    PROVE  DevInv'
<1> DevTypes /\ DutiesAreNoted /\ LockIsOfOne /\ AppliedIsDeclared /\ ToDoOrDone
  BY DEF DevInv
<1> DEFINE stages == RefreshStages \o <<"listen">>
<1>1. /\ server \in {"off", "down"} /\ server' = "starting" /\ missed' = FALSE /\ why' = "-"
      /\ UNCHANGED <<opts, editorVars, timer, filesOnDisk, served>>
      /\ BeginDuty(d, "startup", stages)
  BY DEF StartServer
<1>2. stages \in Seq(StageNames) \ {<< >>}
  BY RefreshDoesAll DEF DevTypes
<1> HIDE DEF stages
<1>3. DevTypes' /\ LockIsOfOne' /\ AppliedIsDeclared'
  <2>1. /\ applied' = applied /\ applyLock' = applyLock /\ opts' = opts /\ declared' = declared
        /\ removed' = removed /\ timer' = timer
    BY <1>1 DEF editorVars, filesOnDisk
  <2>2. /\ declared \in SUBSET Declarable /\ removed \in BOOLEAN /\ timer \in BOOLEAN
    BY DEF DevTypes
  <2>3. QED
    BY <1>1, <1>2, <2>1, <2>2, BeginKeeps
<1>4. Underway = {}
  BY <1>1 DEF DutiesAreNoted
<1>5. Underway' = {d} /\ duty'[d].kind = "startup"
  BY <1>1, <1>2, <1>4, BeginShape
<1>6. DutiesAreNoted'
  BY <1>1, <1>5 DEF DutiesAreNoted
<1>7. ToDoOrDone'
  BY <1>1, BeginsQuiet DEF stages
<1>8. EndsAreExplained'
  BY <1>1 DEF EndsAreExplained
<1>9. QED
  BY <1>3, <1>6, <1>7, <1>8 DEF DevInv

\* The timer fires, and a refresh begins beside what is under way.
LEMMA TimerKeeps ==
    ASSUME DevInv, NEW d \in Duties, TimerFires(d)
    PROVE  DevInv'
<1> DevTypes /\ DutiesAreNoted /\ LockIsOfOne /\ AppliedIsDeclared /\ ToDoOrDone
  BY DEF DevInv
<1>1. /\ server = "up" /\ timer' = FALSE /\ missed' = (missed /\ Underway # {})
      /\ UNCHANGED <<opts, editorVars, server, filesOnDisk, why>>
      /\ BeginDuty(d, "refresh", RefreshStages)
  BY DEF TimerFires
<1>2. RefreshStages \in Seq(StageNames) \ {<< >>}
  BY RefreshDoesAll DEF DevTypes
<1>3. DevTypes' /\ LockIsOfOne' /\ AppliedIsDeclared'
  <2>1. /\ applied' = applied /\ applyLock' = applyLock /\ opts' = opts /\ declared' = declared
        /\ removed' = removed
    BY <1>1 DEF editorVars, filesOnDisk
  <2>2. declared \in SUBSET Declarable /\ removed \in BOOLEAN /\ missed' \in BOOLEAN
    BY <1>1 DEF DevTypes
  <2>3. QED
    BY <1>1, <1>2, <2>1, <2>2, BeginKeeps
<1>4. /\ Underway' = Underway \cup {d} /\ duty'[d].kind = "refresh"
      /\ \A c \in Duties : c # d => duty'[c] = duty[c]
      /\ ~tangled' => Underway = {} /\ Underway' = {d}
  BY <1>1, <1>2, BeginShape
<1>5. DutiesAreNoted'
  <2>1. \A c \in Underway' : duty'[c].kind = "writer" => tangled'
    BY <1>4
  <2>2. QED
    BY <1>1, <1>4, <2>1 DEF DutiesAreNoted
<1>6. ToDoOrDone'
  BY <1>1, BeginsQuiet
<1>7. EndsAreExplained'
  BY <1>1 DEF EndsAreExplained, DutiesAreNoted
<1>8. QED
  BY <1>3, <1>5, <1>6, <1>7 DEF DevInv

\* What a change of the collections takes out is noted.
LEMMA ToggleIsNoted ==
    ASSUME DevTypes, NEW f \in Declarable, Toggle(f)
    PROVE  /\ declared' \in SUBSET Declarable /\ removed' \in BOOLEAN
           /\ ~removed' => ~removed /\ declared \subseteq declared'
  BY DEF DevTypes, Toggle

\* A request of the builder begins, and the watcher notices the file it wrote.
LEMMA BuilderKeeps ==
    ASSUME DevInv, NEW d \in Duties, BuilderWrites(d)
    PROVE  DevInv'
<1> DevTypes /\ DutiesAreNoted /\ LockIsOfOne /\ AppliedIsDeclared /\ ToDoOrDone
  BY DEF DevInv
<1>1. /\ server = "up" /\ timer' = TRUE
      /\ UNCHANGED <<opts, server, filesOnDisk, why, missed>>
      /\ BeginDuty(d, "writer", WriterStages)
      /\ \E f \in Declarable : Toggle(f)
  BY DEF BuilderWrites, Notices
<1>2. WriterStages \in Seq(StageNames) \ {<< >>}
  BY WriterDoesSome DEF DevTypes
<1>3. DevTypes' /\ LockIsOfOne' /\ AppliedIsDeclared'
  <2>1. applied' = applied /\ applyLock' = applyLock /\ missed' \in BOOLEAN
    BY <1>1 DEF filesOnDisk, DevTypes
  <2>2. QED
    BY <1>1, <1>2, <2>1, ToggleIsNoted, BeginKeeps
<1>4. /\ Underway' = Underway \cup {d}
      /\ ~tangled' => Underway' = {d}
  BY <1>1, <1>2, BeginShape
<1>5. why = "-"
  BY <1>1 DEF DutiesAreNoted
<1>6. DutiesAreNoted'
  BY <1>1, <1>4, <1>5 DEF DutiesAreNoted
<1>7. ToDoOrDone'
  BY <1>1 DEF ToDoOrDone, Quiet
<1>8. EndsAreExplained'
  BY <1>1, <1>5 DEF EndsAreExplained
<1>9. QED
  BY <1>3, <1>6, <1>7, <1>8 DEF DevInv

\* A file changes: the timer runs, or the change is missed, or nobody serves yet.
LEMMA SaveKeeps ==
    ASSUME DevInv, NEW x \in {"collections", "config"}, SaveFile(x)
    PROVE  DevInv'
<1> DevTypes /\ DutiesAreNoted /\ LockIsOfOne /\ AppliedIsDeclared /\ ToDoOrDone
  BY DEF DevInv
<1>1. /\ timer' = (server = "up") /\ missed' = (missed \/ server = "starting")
      /\ UNCHANGED <<opts, server, duty, filesOnDisk, why, tangled>>
  BY DEF SaveFile, Notices
<1>2. /\ declared' \in SUBSET Declarable /\ removed' \in BOOLEAN
      /\ ~removed' => ~removed /\ declared \subseteq declared'
  <2>1. CASE \E f \in Declarable : Toggle(f)
    BY <2>1, ToggleIsNoted
  <2>2. CASE UNCHANGED <<declared, removed>>
    BY <2>2 DEF DevTypes
  <2>3. QED
    BY <2>1, <2>2 DEF SaveFile
<1>3. DevTypes'
  <2>1. timer' \in BOOLEAN /\ missed' \in BOOLEAN
    BY <1>1
  <2>2. QED
    BY <1>1, <1>2, <2>1 DEF DevTypes, Stage
<1>4. Underway' = Underway
  BY <1>1 DEF Underway
<1>5. DutiesAreNoted'
  BY <1>1, <1>4 DEF DutiesAreNoted
<1>6. LockIsOfOne'
  BY <1>1 DEF LockIsOfOne, Holding, IsAt, Stage, filesOnDisk
<1>7. AppliedIsDeclared'
  <2>1. SUFFICES ASSUME ~removed' PROVE AppliedIsDeclared'
    BY DEF AppliedIsDeclared
  <2>2. applied' = applied
    BY <1>1 DEF filesOnDisk
  <2>3. applied \subseteq declared' /\ \A c \in Duties : duty[c].want \subseteq declared'
    BY <1>2, <2>1 DEF AppliedIsDeclared
  <2>4. ~tangled => \A c \in Underway : Head(duty[c].todo) = "migrate" /\ duty[c].at # "read"
                                        => applied \subseteq duty[c].want
    BY <1>2, <2>1 DEF AppliedIsDeclared, Stage
  <2>5. QED
    BY <1>1, <1>4, <2>2, <2>3, <2>4 DEF AppliedIsDeclared, Stage
<1>8. ~Quiet'
  BY <1>1 DEF Quiet
<1>9. EndsAreExplained'
  <2>1. removed => removed'
    BY <1>2 DEF DevTypes
  <2>2. QED
    BY <1>1, <2>1 DEF DevInv, EndsAreExplained, filesOnDisk
<1>10. QED
  BY <1>3, <1>5, <1>6, <1>7, <1>8, <1>9 DEF DevInv, ToDoOrDone

-----------------------------------------------------------------------------
\* The development server, altogether.

\* Before the first start nothing is under way.
LEMMA DevStart == DevServerInit => DevInv
<1> SUFFICES ASSUME DevServerInit PROVE DevInv
  OBVIOUS
<1>1. /\ \A d \in Duties : duty[d] = Resting
      /\ DOMAIN duty = Duties /\ duty = [d \in Duties |-> duty[d]]
  BY DEF DevServerInit
<1>2. Underway = {}
  BY <1>1 DEF Underway
<1>3. Resting.want = {}
  BY DEF Resting, Doing
<1>4. DevTypes
  BY <1>1 DEF DevServerInit, DevTypes
<1>5. DutiesAreNoted /\ LockIsOfOne
  BY <1>1, <1>2 DEF DevServerInit, DutiesAreNoted, LockIsOfOne, Holding, IsAt
<1>6. AppliedIsDeclared
  BY <1>1, <1>2, <1>3 DEF DevServerInit, AppliedIsDeclared
<1>7. ToDoOrDone /\ EndsAreExplained
  BY DEF DevServerInit, ToDoOrDone, Quiet, EndsAreExplained
<1>8. QED
  BY <1>4, <1>5, <1>6, <1>7 DEF DevInv

\* Every change of a file, and every step of every refresh, keeps the invariant.
LEMMA DevStep == DevInv /\ [DevServerNext]_devVars => DevInv'
<1> SUFFICES ASSUME DevInv, [DevServerNext]_devVars PROVE DevInv'
  OBVIOUS
<1>1. ASSUME NEW x \in {"collections", "config"}, SaveFile(x) PROVE DevInv'
  BY <1>1, SaveKeeps
<1>2. ASSUME NEW d \in Duties, StartServer(d) \/ TimerFires(d) \/ BuilderWrites(d) PROVE DevInv'
  BY <1>2, ServerStartKeeps, TimerKeeps, BuilderKeeps
<1>3. ASSUME NEW d \in Duties,
             ReadSchema(d) \/ PlanMigration(d) \/ TakeLock(d) \/ NameInLock(d) \/ WriteMigrated(d)
      PROVE  DevInv'
  BY <1>3, ReadKeeps, MigrationPlanKeeps, TakeLockKeeps, NameInLockKeeps, WriteMigratedKeeps
<1>4. ASSUME NEW d \in Duties, WriteArtifact(d) \/ RunKit(d) \/ ImportCms(d) \/ Listens(d)
      PROVE  DevInv'
  BY <1>4, WriteArtifactKeeps, RunKitKeeps, ImportKeeps, ListensKeeps
<1>5. CASE UNCHANGED devVars
  <2> USE <1>5 DEF devVars, DevInv
  <2>1. Underway' = Underway /\ Collections' = Collections
    BY DEF Underway, Collections
  <2>2. \A st : Pending(st)' <=> Pending(st)
    BY DEF Pending
  <2>3. DevTypes' /\ DutiesAreNoted' /\ LockIsOfOne'
    BY <2>1 DEF DevTypes, DutiesAreNoted, LockIsOfOne, Holding, IsAt, Stage
  <2>4. AppliedIsDeclared' /\ EndsAreExplained'
    BY <2>1 DEF AppliedIsDeclared, EndsAreExplained, Stage
  <2>5. ToDoOrDone'
    BY <2>1, <2>2 DEF ToDoOrDone, Quiet
  <2>6. QED
    BY <2>3, <2>4, <2>5
<1>6. QED
  BY <1>1, <1>2, <1>3, <1>4, <1>5 DEF DevServerNext

\* For any collections, and any number of changes, refreshes and requests of the builder
\* at once: a server at rest has taken in every change, except after duties that
\* overlapped or a change made while it started, and it ends for cause only.
THEOREM ServersKeepUp == DevServerSpec => []DevServerKeepsUp
<1>1. DevInv => DevServerKeepsUp
  <2> SUFFICES ASSUME DevInv, AtRest, ~tangled, ~missed PROVE RestMeansCurrent
    BY DEF DevInv, DevServerKeepsUp, RestMeansCurrent
  <2>1. \A d \in Duties : duty[d].todo = << >>
    BY WorkHasAStage DEF DevInv, AtRest, Underway
  <2>2. Left(<< >>) = {}
    BY DEF Left
  <2>3. \A st : ~Pending(st)
    BY <2>1, <2>2 DEF Pending
  <2>4. Quiet
    BY DEF AtRest, Quiet
  <2>5. QED
    BY <2>3, <2>4 DEF DevInv, ToDoOrDone, RestMeansCurrent
<1>2. QED
  BY DevStart, DevStep, <1>1, PTL DEF DevServerSpec

-----------------------------------------------------------------------------
(* The filters of a query, by three evaluators. *)

Values == [type : {"number", "text"}, n : Nat] \cup {Null, Undefined}
Rows == [exists : BOOLEAN, price : Values, due : Values]

\* The records have values, and an answer is of the records there are.
FiltersInv ==
    /\ held \in [FilteredRows -> Rows]
    /\ answer # NoAnswer =>
          /\ answer.query \in Queries
          /\ answer.lists["memory"] = ListsInMemory(answer.query)
          /\ answer.rejected => Unbalanced(answer.query)
          /\ answer.lists["sql"] = IF answer.rejected THEN {} ELSE ListsBySql(answer.query)
          /\ answer.lists["tables"] = ListsFromTables(answer.query)

\* What makes a value empty, finite or ordered.
LEMMA ValuesAreOrdered ==
    /\ Null \in Values /\ Undefined \in Values /\ Null # Undefined
    /\ ~Finite(Undefined)
    /\ Operands \subseteq Values /\ Undefined \notin Operands
    /\ \A v \in Values : /\ v.n \in Nat /\ (Finite(v) <=> v.type # "text" /\ v # Undefined)
                         /\ ~Empty(v) => v.type \in {"number", "text"}
                         /\ Empty(v) => v.n = 0
<1>1. Null.type = "null" /\ Null.n = 0 /\ Undefined.type = "undefined" /\ Undefined.n = 0
  BY DEF Null, Undefined, Value
<1>2. Null # Undefined
  BY <1>1
<1>3. Null \in Values /\ Undefined \in Values /\ Operands \subseteq Values
  BY DEF Values, Operands
<1>4. Undefined \notin Operands
  BY <1>1, <1>2 DEF Operands
<1>5. ASSUME NEW v \in Values
      PROVE  /\ v.n \in Nat /\ (Finite(v) <=> v.type # "text" /\ v # Undefined)
             /\ ~Empty(v) => v.type \in {"number", "text"}
             /\ Empty(v) => v.n = 0
  <2>1. CASE v \in [type : {"number", "text"}, n : Nat]
    BY <1>1, <2>1 DEF Empty, Finite
  <2>2. CASE v = Null
    BY <1>1, <1>2, <2>2 DEF Empty, Finite
  <2>3. CASE v = Undefined
    BY <1>1, <1>2, <2>3 DEF Empty, Finite
  <2>4. QED
    BY <2>1, <2>2, <2>3 DEF Values
<1>6. ~Finite(Undefined)
  BY <1>1 DEF Finite
<1>7. QED
  BY <1>2, <1>3, <1>4, <1>5, <1>6

\* Where neither is empty, the memory adapter compares as SQL does.
LEMMA ComparesAlike ==
    ASSUME NEW v \in Values, NEW x \in Values, ~Empty(v), ~Empty(x)
    PROVE  CompareValues(v, x) = v.n - x.n
<1>1. v.n \in Nat /\ x.n \in Nat
  BY ValuesAreOrdered
<1>2. QED
  BY <1>1 DEF CompareValues, TextRank

\* One condition of the SQL adapters, beside the memory adapter's.
LEMMA ClauseIsMatch ==
    ASSUME NEW v \in Values, NEW c, c.x \in Operands, c.y \in Operands
    PROVE  ClauseHolds(IF Empty(v) THEN Null ELSE v, c)
             <=> /\ MatchesFilter(v, c)
                 /\ c.op \notin OnlyInMemory /\ ~Empty(v) /\ ~(c.x = Null /\ c.op # "$in")
<1>1. CASE Empty(v)
  BY <1>1 DEF ClauseHolds
<1>2. CASE ~Empty(v) /\ c.x = Null
  <2>1. v # Null
    BY <1>2 DEF Empty
  <2>2. c.op = "$in" => (MatchesFilter(v, c) <=> v \in {c.x, c.y})
    BY DEF MatchesFilter
  <2>3. ClauseHolds(v, c) <=> c.op = "$in" /\ v \in {c.x, c.y}
    BY <1>2, <2>1 DEF ClauseHolds
  <2>4. QED
    BY <1>2, <2>2, <2>3 DEF OnlyInMemory
<1>3. CASE ~Empty(v) /\ c.x # Null
  <2>1. v # Null /\ c.x \in Values /\ ~Empty(c.x) /\ v.n \in Nat /\ c.x.n \in Nat
    BY <1>3, ValuesAreOrdered DEF Empty
  <2>2. CompareValues(v, c.x) = v.n - c.x.n
    BY <1>3, <2>1, ComparesAlike
  <2>3. PICK m \in Nat, n \in Nat : m = v.n /\ n = c.x.n
    BY <2>1
  <2>4. /\ m - n > 0 <=> m > n
        /\ m - n >= 0 <=> m >= n
        /\ m - n < 0 <=> m < n
        /\ m - n <= 0 <=> m <= n
    OBVIOUS
  <2>5. ClauseHolds(v, c) <=> MatchesFilter(v, c) /\ c.op \notin OnlyInMemory
    BY <1>3, <2>1, <2>2, <2>3, <2>4 DEF ClauseHolds, MatchesFilter, OnlyInMemory
  <2>6. QED
    BY <1>3, <2>5
<1>4. QED
  BY <1>1, <1>2, <1>3

\* One condition of an adapter with tables of its own, beside the memory adapter's.
LEMMA TableIsMatch ==
    ASSUME NEW v \in Values, NEW c, c.x \in Operands, c.y \in Operands
    PROVE  TableMatches(v, c)
             <=> /\ MatchesFilter(v, c)
                 /\ c.op \notin OnlyInMemory
                 /\ ~(c.op \in Orders /\ (~Finite(v) \/ ~Finite(c.x)))
<1>1. v.n \in Nat /\ c.x.n \in Nat
  BY ValuesAreOrdered
<1>2. PICK m \in Nat, n \in Nat : m = v.n /\ n = c.x.n
  BY <1>1
<1>3. /\ m - n > 0 <=> m > n
      /\ m - n >= 0 <=> m >= n
      /\ m - n < 0 <=> m < n
      /\ m - n <= 0 <=> m <= n
  OBVIOUS
<1>4. Finite(v) /\ Finite(c.x) => CompareValues(v, c.x) = m - n
  BY <1>2 DEF CompareValues
<1>5. CASE c.op \in Orders
  <2>1. TableMatches(v, c) <=> OrderedAsNumbers(v, c)
    BY <1>5 DEF TableMatches, Orders
  <2>2. Finite(v) /\ Finite(c.x) => (MatchesFilter(v, c) <=> OrderedAsNumbers(v, c))
    BY <1>2, <1>3, <1>4, <1>5 DEF MatchesFilter, OrderedAsNumbers, Orders
  <2>3. OrderedAsNumbers(v, c) => Finite(v) /\ Finite(c.x)
    BY DEF OrderedAsNumbers
  <2>4. c.op \notin OnlyInMemory
    BY <1>5 DEF Orders, OnlyInMemory
  <2>5. QED
    BY <1>5, <2>1, <2>2, <2>3, <2>4
<1>6. CASE c.op \notin Orders
  BY <1>6 DEF Orders, OnlyInMemory, TableMatches, OrderedAsNumbers, MatchesFilter
<1>7. QED
  BY <1>5, <1>6

\* The value of a field of the schema.
LEMMA FieldsHaveValues ==
    ASSUME NEW row \in Rows, NEW field
    PROVE  /\ Field(row, field) \in Values
           /\ field \in Declared => /\ Field(row, field) = row[field]
                                    /\ Column(row, field) = IF Empty(row[field]) THEN Null ELSE row[field]
<1>1. row["price"] \in Values /\ row["due"] \in Values
  BY DEF Rows
<1>2. Undefined \in Values
  BY DEF Values
<1>3. QED
  BY <1>1, <1>2 DEF Field, Column, Declared

\* The lists of the three evaluators, over the same records.
LEMMA ListsDifferAsNamed ==
    ASSUME FiltersInv, answer # NoAnswer
    PROVE  /\ ListsBySql(answer.query) = {r \in ListsInMemory(KnownQuery) : ~SqlLeavesOut(r)}
           /\ ListsFromTables(answer.query)
                = {r \in ListsInMemory(answer.query) : ~TablesLeaveOut(r)}
<1>1. \A c \in answer.query : c.x \in Operands /\ c.y \in Operands
  BY FiltersAssumption DEF FiltersInv
<1>2. \A r \in Existing : r \in FilteredRows /\ held[r] \in Rows
  BY DEF FiltersInv, Existing
<1>3. KnownQuery = {d \in answer.query : HasColumn(d)}
  BY DEF KnownQuery
<1>4. \A r \in Existing : \A c \in KnownQuery :
         ClauseHolds(Column(held[r], c.field), c)
           <=> /\ MatchesFilter(Field(held[r], c.field), c)
               /\ ~(c.op \in OnlyInMemory \/ Empty(held[r][c.field]) \/ (c.x = Null /\ c.op # "$in"))
  <2> TAKE r \in Existing
  <2> TAKE c \in KnownQuery
  <2>1. /\ c.x \in Operands /\ c.y \in Operands /\ c.field \in Declared
    BY <1>1, <1>3 DEF HasColumn
  <2>2. PICK v \in Values : /\ v = Field(held[r], c.field) /\ v = held[r][c.field]
                            /\ Column(held[r], c.field) = IF Empty(v) THEN Null ELSE v
    BY <1>2, <2>1, FieldsHaveValues
  <2>3. QED
    BY <2>1, <2>2, ClauseIsMatch
<1>5. \A r \in Existing : \A c \in answer.query :
         TableMatches(Field(held[r], c.field), c)
           <=> /\ MatchesFilter(Field(held[r], c.field), c)
               /\ ~(\/ c.op \in OnlyInMemory
                    \/ c.op \in Orders /\ (~Finite(Field(held[r], c.field)) \/ ~Finite(c.x)))
  <2> TAKE r \in Existing
  <2> TAKE c \in answer.query
  <2>1. PICK v \in Values : v = Field(held[r], c.field)
    BY <1>2, FieldsHaveValues
  <2>2. QED
    BY <1>1, <2>1, TableIsMatch
<1>6. \A r \in Existing : SqlLeavesOut(r) <=>
         \E c \in KnownQuery : c.op \in OnlyInMemory \/ Empty(held[r][c.field]) \/ (c.x = Null /\ c.op # "$in")
  BY DEF SqlLeavesOut
<1>7. \A r \in Existing : TablesLeaveOut(r) <=>
         \E c \in answer.query :
            \/ c.op \in OnlyInMemory
            \/ c.op \in Orders /\ (~Finite(Field(held[r], c.field)) \/ ~Finite(c.x))
  BY DEF TablesLeaveOut
<1>8. ListsBySql(answer.query) = {r \in Existing : \A c \in KnownQuery : ClauseHolds(Column(held[r], c.field), c)}
  BY <1>3, Zenon DEF ListsBySql
<1>9. ListsInMemory(KnownQuery) = {r \in Existing : \A c \in KnownQuery : MatchesFilter(Field(held[r], c.field), c)}
  BY Zenon DEF ListsInMemory
<1>10. ListsBySql(answer.query) = {r \in ListsInMemory(KnownQuery) : ~SqlLeavesOut(r)}
  BY <1>4, <1>6, <1>8, <1>9
<1>11. ListsFromTables(answer.query) = {r \in ListsInMemory(answer.query) : ~TablesLeaveOut(r)}
  BY <1>5, <1>7 DEF ListsFromTables, ListsInMemory
<1>12. QED
  BY <1>10, <1>11

\* An unbalanced query has an operator that only the memory adapter knows: no row is
\* listed by the clause.
LEMMA UnbalancedListsNothing ==
    ASSUME FiltersInv, answer # NoAnswer, Unbalanced(answer.query)
    PROVE  /\ \E c \in KnownQuery : c.op \in OnlyInMemory
           /\ {r \in ListsInMemory(KnownQuery) : ~SqlLeavesOut(r)} = {}
<1>1. PICK c \in answer.query : HasColumn(c) /\ Binds(c) # Placeholders(c)
  BY DEF Unbalanced
<1>2. c.op \in Operators
  BY FiltersAssumption DEF FiltersInv
<1>3. c.op \in OnlyInMemory
  BY <1>1, <1>2 DEF Operators, SqlOperators, OnlyInMemory, Binds, Placeholders
<1>4. c \in KnownQuery
  BY <1>1 DEF KnownQuery
<1>5. \A r : SqlLeavesOut(r)
  BY <1>3, <1>4 DEF SqlLeavesOut
<1>6. QED
  BY <1>3, <1>4, <1>5

\* A record of values is written, changed and dropped, as long as nothing is listed.
LEMMA RowsKeep ==
    ASSUME FiltersInv, NEW r \in FilteredRows, CreateRow(r) \/ PatchRow(r) \/ DropRow(r)
    PROVE  FiltersInv'
<1>1. answer = NoAnswer /\ answer' = answer
  BY DEF CreateRow, PatchRow, DropRow
<1>2. held \in [FilteredRows -> Rows]
  BY DEF FiltersInv
<1>3. Price \cup Due \cup {Undefined} \subseteq Values
  <2>1. Numbers \subseteq Nat /\ Dates \subseteq Nat
    BY FiltersAssumption
  <2>2. \A n \in Nat : Value("number", n) \in Values /\ Value("text", n) \in Values
    BY DEF Value, Values
  <2>3. Null \in Values
    BY DEF Values
  <2>4. Price \subseteq Values
    BY <2>1, <2>2, <2>3 DEF Price
  <2>5. Due \subseteq Values
    BY <2>1, <2>2, <2>3 DEF Due
  <2>6. QED
    BY <2>4, <2>5, ValuesAreOrdered
<1>4. NoRow \in Rows
  BY ValuesAreOrdered DEF NoRow, Rows
<1>5. CASE CreateRow(r)
  <2>1. PICK price \in Price \cup {Undefined}, due \in Due \cup {Undefined} :
           held' = [held EXCEPT ![r] = [exists |-> TRUE, price |-> price, due |-> due]]
    BY <1>5 DEF CreateRow
  <2>2. [exists |-> TRUE, price |-> price, due |-> due] \in Rows
    BY <1>3 DEF Rows
  <2>3. held' \in [FilteredRows -> Rows]
    BY <1>2, <2>1, <2>2
  <2>4. QED
    BY <1>1, <2>3 DEF FiltersInv
<1>6. CASE PatchRow(r)
  <2>1. CASE \E price \in Price : held' = [held EXCEPT ![r].price = price]
    <3>1. PICK price \in Values : held' = [held EXCEPT ![r].price = price]
      BY <1>3, <2>1
    <3>2. held' \in [FilteredRows -> Rows]
      BY <1>2, <3>1 DEF Rows
    <3>3. QED
      BY <1>1, <3>2 DEF FiltersInv
  <2>2. CASE \E due \in Due : held' = [held EXCEPT ![r].due = due]
    <3>1. PICK due \in Values : held' = [held EXCEPT ![r].due = due]
      BY <1>3, <2>2
    <3>2. held' \in [FilteredRows -> Rows]
      BY <1>2, <3>1 DEF Rows
    <3>3. QED
      BY <1>1, <3>2 DEF FiltersInv
  <2>3. QED
    BY <1>6, <2>1, <2>2 DEF PatchRow
<1>7. CASE DropRow(r)
  <2>1. held' = [held EXCEPT ![r] = NoRow]
    BY <1>7 DEF DropRow
  <2>2. held' \in [FilteredRows -> Rows]
    BY <1>2, <1>4, <2>1
  <2>3. QED
    BY <1>1, <2>2 DEF FiltersInv
<1>8. QED
  BY <1>5, <1>6, <1>7

\* A query is answered over the records as they are.
LEMMA ListKeeps ==
    ASSUME FiltersInv, NEW query \in Queries, List(query)
    PROVE  FiltersInv'
<1>1. PICK m, s, t : m = ListsInMemory(query) /\ s = ListsBySql(query) /\ t = ListsFromTables(query)
  OBVIOUS
<1>0. PICK rejected \in BOOLEAN :
         /\ rejected => Unbalanced(query)
         /\ answer' = [query |-> query, rejected |-> rejected,
                lists |-> [a \in Evaluators |->
                    CASE a = "memory" -> ListsInMemory(query)
                      [] a = "sql"    -> IF rejected THEN {} ELSE ListsBySql(query)
                      [] a = "tables" -> ListsFromTables(query)]]
  BY Zenon DEF List
<1>2. held' = held
  BY DEF List
<1>3. answer'.query = query /\ (answer'.rejected <=> rejected)
  BY <1>0
<1>4. /\ answer'.lists["memory"] = m /\ answer'.lists["tables"] = t
      /\ answer'.lists["sql"] = IF rejected THEN {} ELSE s
  BY <1>0, <1>1 DEF Evaluators
<1>8. rejected => Unbalanced(answer.query)'
  BY <1>0, <1>3 DEF Unbalanced
<1>5. Existing' = Existing
  BY <1>2 DEF Existing
<1>6. /\ m = ListsInMemory(answer.query)' /\ s = ListsBySql(answer.query)'
      /\ t = ListsFromTables(answer.query)'
  <2>1. /\ m = ListsInMemory(query)' /\ s = ListsBySql(query)' /\ t = ListsFromTables(query)'
    BY <1>1, <1>2, <1>5 DEF ListsInMemory, ListsBySql, ListsFromTables
  <2>3. /\ ListsInMemory(answer.query)' = ListsInMemory(query)'
        /\ ListsBySql(answer.query)' = ListsBySql(query)'
        /\ ListsFromTables(answer.query)' = ListsFromTables(query)'
    BY <1>3 DEF ListsInMemory, ListsBySql, ListsFromTables
  <2>4. QED
    BY <2>1, <2>3
<1>7. QED
  BY <1>2, <1>3, <1>4, <1>6, <1>8 DEF FiltersInv

\* Every request keeps the invariant.
LEMMA FiltersStep == FiltersInv /\ [FiltersNext]_filterVars => FiltersInv'
<1> SUFFICES ASSUME FiltersInv, [FiltersNext]_filterVars PROVE FiltersInv'
  OBVIOUS
<1>1. ASSUME NEW r \in FilteredRows, CreateRow(r) \/ PatchRow(r) \/ DropRow(r) PROVE FiltersInv'
  BY <1>1, RowsKeep
<1>2. ASSUME NEW query \in Queries, List(query) PROVE FiltersInv'
  BY <1>2, ListKeeps
<1>3. CASE Return
  BY <1>3 DEF Return, FiltersInv, NoAnswer
<1>4. CASE UNCHANGED filterVars
  <2>1. held' = held /\ answer' = answer
    BY <1>4 DEF filterVars
  <2>2. QED
    BY <2>1 DEF FiltersInv, ListsInMemory, ListsBySql, ListsFromTables, Existing, Unbalanced
<1>5. QED
  BY <1>1, <1>2, <1>3, <1>4 DEF FiltersNext

\* For any records, numbers, dates and queries that compare a field with values of its
\* type: the three adapters list the same records, but for the ones a condition leaves
\* out that one of them compares otherwise or does not know; in the last case an SQL
\* adapter may fail, and in no other.
THEOREM AdaptersStayAlike == FiltersSpec => []AdaptersDifferAsNamed
<1>1. FiltersInit => FiltersInv
  <2>1. NoRow \in Rows
    BY ValuesAreOrdered DEF NoRow, Rows
  <2>2. QED
    BY <2>1 DEF FiltersInit, FiltersInv
<1>2. FiltersInv => AdaptersDifferAsNamed
  <2> SUFFICES ASSUME FiltersInv, answer # NoAnswer PROVE AdaptersDifferAsNamed
    BY DEF AdaptersDifferAsNamed
  <2>1. CASE answer.rejected
    BY <2>1, ListsDifferAsNamed, UnbalancedListsNothing DEF FiltersInv, AdaptersDifferAsNamed
  <2>2. CASE ~answer.rejected
    BY <2>2, ListsDifferAsNamed DEF FiltersInv, AdaptersDifferAsNamed
  <2>3. QED
    BY <2>1, <2>2
<1>3. QED
  BY FiltersStep, <1>1, <1>2, PTL DEF FiltersSpec

-----------------------------------------------------------------------------
(* Populating relations: the budget of a call counts what its records looked up. *)

PathSteps == ({0} \cup Relations) \X Documents
TaskShapes == [pc : {"begin", "query", "nested", "done"}, field : 0..NRelations,
               taken : [Relations -> Nat]]

\* The ids of field g are all taken, or the budget of the call is spent.
IsSettled(p, g) == \/ task[p].taken[g] = Len(link[RecordAt(p)][g])
                   \/ budget[CallOf(p)] = MaxNodes

\* A record is on its path, and behind its field nothing is left without a reason.
RecordIsSound(p) ==
    /\ p \in Seq(PathSteps) /\ Len(p) \in 1..Levels
    /\ CallOf(p) \in DOMAIN budget
    /\ task[p] \in TaskShapes
    /\ \A g \in Relations : task[p].taken[g] <= Len(link[RecordAt(p)][g])
    /\ task[p].pc = "begin" => \A g \in Relations : task[p].taken[g] = 0
    /\ task[p].pc \in {"query", "nested"} =>
           /\ task[p].field \in Relations
           /\ \A g \in Relations : /\ g > task[p].field => task[p].taken[g] = 0
                                   /\ g <= task[p].field => IsSettled(p, g)
    /\ task[p].pc = "done" => \A g \in Relations : IsSettled(p, g)

\* A call below is for ids that were taken, and begins once their query has returned.
CallIsBelow(c) ==
    /\ c[1] \in DOMAIN task /\ c[2] \in Relations
    /\ task[c[1]].taken[c[2]] >= 1
    /\ \/ task[c[1]].pc = "done"
       \/ task[c[1]].pc \in {"query", "nested"} /\ c[2] < task[c[1]].field
       \/ task[c[1]].pc = "nested" /\ c[2] = task[c[1]].field

\* The budget of a call counts what its records looked up.
BudgetIsCounted(c) ==
    /\ budget[c] \in Nat /\ budget[c] <= MaxNodes
    /\ IsFiniteSet(LookedUp(RecordsOf(c)))
    /\ Cardinality(LookedUp(RecordsOf(c))) = budget[c]

PopulateInv ==
    /\ link \in [Documents -> [Relations -> Lists]] /\ asked \in Nat \ {0}
    /\ \A p \in DOMAIN task : RecordIsSound(p)
    /\ FirstCall \in DOMAIN budget
    /\ \A c \in DOMAIN budget : (c = FirstCall \/ CallIsBelow(c)) /\ BudgetIsCounted(c)
    /\ IsFiniteSet(LookedUp(DOMAIN task))

\* Numbers of the configuration.
LEMMA PopulateNumbers ==
    ASSUME PopulateInv
    PROVE  /\ NRelations \in Nat /\ MaxNodes \in Nat /\ Relations \subseteq Nat \ {0}
           /\ Levels \in Nat \ {0} /\ Levels <= MaxDepth /\ MaxDepth \in Nat \ {0}
  BY PopulateAssumption DEF PopulateInv, Levels, Relations

\* The ids of a record's field.
LEMMA IdsAreSequences ==
    ASSUME PopulateInv, NEW p \in Seq(PathSteps), Len(p) >= 1, NEW g \in Relations
    PROVE  /\ link[RecordAt(p)][g] \in Seq(Documents) /\ RecordAt(p) \in Documents
           /\ Len(link[RecordAt(p)][g]) \in Nat
<1>1. p[Len(p)] \in PathSteps
  OBVIOUS
<1>2. RecordAt(p) \in Documents
  BY <1>1 DEF RecordAt, PathSteps
<1>3. link[RecordAt(p)][g] \in Lists
  BY <1>2 DEF PopulateInv
<1>4. QED
  BY <1>2, <1>3, PopulateAssumption

\* What is looked up in the records of a set, one by one.
LEMMA LookedUpOneByOne ==
    ASSUME NEW P, NEW x
    PROVE  x \in LookedUp(P) <=> \E p \in P, f \in Relations : \E i \in 1..task[p].taken[f] : x = <<p, f, i>>
<1> DEFINE N(p, f) == {<<p, f, i>> : i \in 1..task[p].taken[f]}
           S == {N(p, f) : p \in P, f \in Relations}
<1>1. LookedUp(P) = UNION S
  BY DEF LookedUp
<1>2. ASSUME NEW p \in P, NEW f \in Relations, NEW i \in 1..task[p].taken[f], x = <<p, f, i>>
      PROVE  x \in LookedUp(P)
  <2>1. x \in N(p, f) /\ N(p, f) \in S
    BY <1>2
  <2> HIDE DEF N, S
  <2>2. x \in UNION S
    BY <2>1
  <2>3. QED
    BY <1>1, <2>2
<1>3. ASSUME x \in LookedUp(P)
      PROVE  \E p \in P, f \in Relations : \E i \in 1..task[p].taken[f] : x = <<p, f, i>>
  <2>1. PICK T \in S : x \in T
    BY <1>1, <1>3
  <2>2. PICK p \in P, f \in Relations : T = N(p, f)
    BY <2>1
  <2>3. x \in N(p, f)
    BY <2>1, <2>2
  <2>4. QED
    BY <2>3
<1>4. QED
  BY <1>2, <1>3

\* The same of the state after a step.
LEMMA LookedUpThen ==
    ASSUME NEW P, NEW x
    PROVE  x \in LookedUp(P)' <=> \E p \in P, f \in Relations : \E i \in 1..task'[p].taken[f] : x = <<p, f, i>>
<1> DEFINE N(p, f) == {<<p, f, i>> : i \in 1..task'[p].taken[f]}
           S == {N(p, f) : p \in P, f \in Relations}
<1>1. LookedUp(P)' = UNION S
  BY DEF LookedUp
<1>2. ASSUME NEW p \in P, NEW f \in Relations, NEW i \in 1..task'[p].taken[f], x = <<p, f, i>>
      PROVE  x \in LookedUp(P)'
  <2>1. x \in N(p, f) /\ N(p, f) \in S
    BY <1>2
  <2> HIDE DEF N, S
  <2>2. x \in UNION S
    BY <2>1
  <2>3. QED
    BY <1>1, <2>2
<1>3. ASSUME x \in LookedUp(P)'
      PROVE  \E p \in P, f \in Relations : \E i \in 1..task'[p].taken[f] : x = <<p, f, i>>
  <2>1. PICK T \in S : x \in T
    BY <1>1, <1>3
  <2>2. PICK p \in P, f \in Relations : T = N(p, f)
    BY <2>1
  <2>3. x \in N(p, f)
    BY <2>1, <2>2
  <2>4. QED
    BY <2>3
<1>4. QED
  BY <1>2, <1>3

\* Nothing more is looked up where nothing more is taken.
LEMMA LookedUpStays ==
    ASSUME NEW P, \A p \in P : task'[p].taken = task[p].taken
    PROVE  LookedUp(P)' = LookedUp(P)
<1> SUFFICES ASSUME NEW x PROVE x \in LookedUp(P)' <=> x \in LookedUp(P)
  OBVIOUS
<1> QED
  BY LookedUpOneByOne, LookedUpThen

\* Fewer records replace less.
LEMMA LookedUpGrows ==
    ASSUME NEW P, NEW Q \in SUBSET P
    PROVE  LookedUp(Q) \subseteq LookedUp(P)
  BY LookedUpOneByOne

\* A record that is done: nothing of it is left without a reason.
LEMMA EndOfRecordKeeps ==
    ASSUME PopulateInv, NEW path \in DOMAIN task, \A g \in Relations : IsSettled(path, g),
           task' = [task EXCEPT ![path].pc = "done"],
           UNCHANGED <<link, asked, budget>>
    PROVE  PopulateInv'
<1> DEFINE t == [task[path] EXCEPT !.pc = "done"]
<1>1. RecordIsSound(path) /\ task[path] \in TaskShapes
  BY DEF PopulateInv, RecordIsSound
<1>2. t \in TaskShapes /\ t.pc = "done" /\ t.field = task[path].field /\ t.taken = task[path].taken
  BY <1>1 DEF TaskShapes
<1>3. DOMAIN task' = DOMAIN task /\ task'[path] = t /\ \A p \in DOMAIN task \ {path} : task'[p] = task[p]
  OBVIOUS
<1> HIDE DEF t
<1>4. \A p \in DOMAIN task : task'[p].taken = task[p].taken
  BY <1>2, <1>3
<1>5. Levels' = Levels /\ \A p \in DOMAIN task, g \in Relations : IsSettled(p, g)' = IsSettled(p, g)
  BY <1>4 DEF Levels, IsSettled
<1>6. ASSUME NEW p \in DOMAIN task PROVE RecordIsSound(p)'
  <2>1. CASE p = path
    BY <1>1, <1>2, <1>3, <1>5, <2>1 DEF RecordIsSound
  <2>2. CASE p # path
    BY <1>3, <1>5, <2>2 DEF PopulateInv, RecordIsSound
  <2>3. QED
    BY <2>1, <2>2
<1>7. ASSUME NEW c \in DOMAIN budget, CallIsBelow(c) PROVE CallIsBelow(c)'
  <2>1. CASE c[1] = path
    BY <1>2, <1>3, <1>7, <2>1 DEF CallIsBelow
  <2>2. CASE c[1] # path
    BY <1>3, <1>7, <2>2 DEF CallIsBelow
  <2>3. QED
    BY <2>1, <2>2
<1>8. ASSUME NEW c \in DOMAIN budget PROVE BudgetIsCounted(c)'
  <2>1. RecordsOf(c)' = RecordsOf(c) /\ RecordsOf(c) \subseteq DOMAIN task
    BY <1>3 DEF RecordsOf
  <2>2. PICK R : R = RecordsOf(c)
    OBVIOUS
  <2>3. LookedUp(R)' = LookedUp(R)
    BY <1>4, <2>1, <2>2, LookedUpStays
  <2>4. LookedUp(RecordsOf(c))' = LookedUp(R)'
    BY <2>1, <2>2 DEF LookedUp
  <2>5. QED
    BY <2>2, <2>3, <2>4 DEF PopulateInv, BudgetIsCounted
<1>9. IsFiniteSet(LookedUp(DOMAIN task))'
  <2>1. PICK R : R = DOMAIN task
    OBVIOUS
  <2>2. LookedUp(R)' = LookedUp(R)
    BY <1>4, <2>1, LookedUpStays
  <2>3. LookedUp(DOMAIN task)' = LookedUp(R)'
    BY <1>3, <2>1 DEF LookedUp
  <2>4. QED
    BY <2>1, <2>2, <2>3 DEF PopulateInv
<1>10. QED
  BY <1>3, <1>6, <1>7, <1>8, <1>9 DEF PopulateInv

\* What may be taken of a field: all of it, or what is left.
LEMMA SliceIsRight ==
    ASSUME PopulateInv, NEW p \in DOMAIN task, NEW g \in Relations
    PROVE  /\ Slice(p, g) \in Int /\ Slice(p, g) <= Len(link[RecordAt(p)][g])
           /\ Slice(p, g) <= MaxNodes - budget[CallOf(p)]
           /\ Slice(p, g) = Len(link[RecordAt(p)][g]) \/ Slice(p, g) = MaxNodes - budget[CallOf(p)]
           /\ budget[CallOf(p)] \in Nat /\ Len(link[RecordAt(p)][g]) \in Nat
<1>1. p \in Seq(PathSteps) /\ Len(p) >= 1 /\ CallOf(p) \in DOMAIN budget
  BY PopulateNumbers DEF PopulateInv, RecordIsSound
<1>2. Len(link[RecordAt(p)][g]) \in Nat
  BY <1>1, IdsAreSequences
<1>3. budget[CallOf(p)] \in Nat /\ MaxNodes \in Nat
  BY <1>1, PopulateNumbers DEF PopulateInv, BudgetIsCounted
<1>4. QED
  BY <1>2, <1>3 DEF Slice

\* A record whose first field with room is f takes its ids, which the budget counts.
LEMMA TakeKeeps ==
    ASSUME PopulateInv, NEW path \in DOMAIN task, NEW f \in Relations,
           NEW n \in Nat \ {0}, n = Slice(path, f),
           \A g \in Relations : g >= f => task[path].taken[g] = 0,
           \A g \in Relations : g < f => IsSettled(path, g),
           \A c \in DOMAIN budget : c # FirstCall /\ c[1] = path => c[2] < f,
           task' = [task EXCEPT ![path] = Querying(path, f)],
           budget' = [budget EXCEPT ![CallOf(path)] = @ + n],
           UNCHANGED <<link, asked>>
    PROVE  PopulateInv'
<1>1. RecordIsSound(path) /\ task[path] \in TaskShapes /\ CallOf(path) \in DOMAIN budget
  BY DEF PopulateInv, RecordIsSound
<1>2. PICK b : b = budget[CallOf(path)]
  OBVIOUS
<1>3. /\ b \in Nat /\ MaxNodes \in Nat /\ f \in Nat /\ n <= MaxNodes - b
      /\ Len(link[RecordAt(path)][f]) \in Nat /\ n <= Len(link[RecordAt(path)][f])
      /\ n = Len(link[RecordAt(path)][f]) \/ b + n = MaxNodes
  BY <1>2, SliceIsRight, PopulateNumbers
<1>4. PICK t : t = Querying(path, f)
  OBVIOUS
<1>5. /\ t \in TaskShapes /\ t.pc = "query" /\ t.field = f
      /\ t.taken[f] = n /\ \A g \in Relations \ {f} : t.taken[g] = task[path].taken[g]
  <2>1. task[path].taken \in [Relations -> Nat]
    BY <1>1 DEF TaskShapes
  <2>2. PICK k : k = [task[path].taken EXCEPT ![f] = n]
    OBVIOUS
  <2>3. k \in [Relations -> Nat] /\ k[f] = n /\ \A g \in Relations \ {f} : k[g] = task[path].taken[g]
    BY <2>1, <2>2
  <2>4. t = [pc |-> "query", field |-> f, taken |-> k]
    BY <1>4, <2>2 DEF Querying
  <2>5. f \in 0..NRelations
    BY DEF Relations
  <2>6. QED
    BY <2>3, <2>4, <2>5 DEF TaskShapes
<1>6. DOMAIN task' = DOMAIN task /\ task'[path] = t /\ \A p \in DOMAIN task \ {path} : task'[p] = task[p]
  BY <1>4
<1>7. /\ DOMAIN budget' = DOMAIN budget /\ budget'[CallOf(path)] = b + n
      /\ \A c \in DOMAIN budget \ {CallOf(path)} : budget'[c] = budget[c]
  BY <1>1, <1>2
<1>8. Levels' = Levels /\ b # MaxNodes
  BY <1>3 DEF Levels
<1>9. \A p \in DOMAIN task \ {path}, g \in Relations : IsSettled(p, g) => IsSettled(p, g)'
  BY <1>2, <1>6, <1>7, <1>8 DEF IsSettled, PopulateInv, RecordIsSound
<1>10. \A g \in Relations : g <= f => IsSettled(path, g)'
  <2> TAKE g \in Relations
  <2>1. CASE g = f
    <3>1. task'[path].taken[f] = n /\ budget'[CallOf(path)] = b + n
      BY <1>5, <1>6, <1>7
    <3>2. QED
      BY <1>3, <2>1, <3>1 DEF IsSettled
  <2>2. CASE g # f /\ g <= f
    <3>1. g < f
      BY <2>2, PopulateNumbers
    <3>2. IsSettled(path, g)
      BY <3>1
    <3>3. task[path].taken[g] = Len(link[RecordAt(path)][g])
      BY <1>2, <1>8, <3>2 DEF IsSettled
    <3>4. QED
      BY <1>5, <1>6, <2>2, <3>3 DEF IsSettled
  <2>3. QED
    BY <2>1, <2>2
<1>11. ASSUME NEW p \in DOMAIN task PROVE RecordIsSound(p)'
  <2>1. CASE p = path
    <3>1. \A g \in Relations : t.taken[g] <= Len(link[RecordAt(path)][g])
      BY <1>1, <1>3, <1>5 DEF RecordIsSound
    <3>2. \A g \in Relations : g > f => t.taken[g] = 0
      BY <1>5, PopulateNumbers
    <3>3. QED
      BY <1>1, <1>5, <1>6, <1>7, <1>8, <1>10, <2>1, <3>1, <3>2 DEF RecordIsSound
  <2>2. CASE p # path
    BY <1>6, <1>7, <1>8, <1>9, <2>2 DEF PopulateInv, RecordIsSound
  <2>3. QED
    BY <2>1, <2>2
<1>12. ASSUME NEW c \in DOMAIN budget, c # FirstCall PROVE CallIsBelow(c)'
  <2>1. CallIsBelow(c)
    BY <1>12 DEF PopulateInv
  <2>2. CASE c[1] = path
    <3>1. c[2] < f /\ c[2] # f
      BY <1>3, <1>12, <2>2
    <3>2. QED
      BY <1>5, <1>6, <2>1, <2>2, <3>1 DEF CallIsBelow
  <2>3. CASE c[1] # path
    BY <1>6, <2>1, <2>3 DEF CallIsBelow
  <2>4. QED
    BY <2>2, <2>3
<1> DEFINE More == {<<path, f, i>> : i \in 1..n}
<1>13. IsFiniteSet(More) /\ Cardinality(More) = n
  <2> DEFINE h == [i \in 1..n |-> <<path, f, i>>]
  <2>1. h \in Bijection(1..n, More)
    BY DEF Bijection, Injection, Surjection, IsInjective
  <2> HIDE DEF h, More
  <2>2. ExistsBijection(1..n, More)
    BY <2>1 DEF ExistsBijection
  <2>3. QED
    BY <2>2, FS_CountingElements, FS_NatBijection
<1>14. ASSUME NEW P \in SUBSET DOMAIN task, path \in P
       PROVE  LookedUp(P)' = LookedUp(P) \cup More /\ LookedUp(P) \cap More = {}
  <2>1. \A x : x \in LookedUp(P)' <=> x \in LookedUp(P) \cup More
    <3> TAKE x
    <3>1. x \in LookedUp(P)' => x \in LookedUp(P) \cup More
      <4> SUFFICES ASSUME NEW p \in P, NEW g \in Relations, NEW i \in 1..task'[p].taken[g], x = <<p, g, i>>
                   PROVE  x \in LookedUp(P) \cup More
        BY LookedUpThen
      <4>1. CASE p = path /\ g = f
        BY <1>5, <1>6, <4>1
      <4>2. CASE ~(p = path /\ g = f)
        <5>1. task'[p].taken[g] = task[p].taken[g]
          BY <1>5, <1>6, <4>2
        <5>2. QED
          BY <5>1, LookedUpOneByOne
      <4>3. QED
        BY <4>1, <4>2
    <3>2. x \in More => x \in LookedUp(P)'
      <4> SUFFICES ASSUME NEW i \in 1..n, x = <<path, f, i>> PROVE x \in LookedUp(P)'
        OBVIOUS
      <4>1. i \in 1..task'[path].taken[f]
        BY <1>5, <1>6
      <4>2. QED
        BY <1>14, <4>1, LookedUpThen
    <3>3. x \in LookedUp(P) => x \in LookedUp(P)'
      <4> SUFFICES ASSUME NEW p \in P, NEW g \in Relations, NEW i \in 1..task[p].taken[g], x = <<p, g, i>>
                   PROVE  x \in LookedUp(P)'
        BY LookedUpOneByOne
      <4>1. ~(p = path /\ g = f)
        <5> SUFFICES ASSUME p = path, g = f PROVE FALSE
          OBVIOUS
        <5>1. task[p].taken[g] = 0
          BY <1>3
        <5>2. QED
          BY <5>1
      <4>2. task'[p].taken[g] = task[p].taken[g]
        BY <1>5, <1>6, <4>1
      <4>3. QED
        BY <4>2, LookedUpThen
    <3>4. QED
      BY <3>1, <3>2, <3>3
  <2>2. ASSUME NEW x \in LookedUp(P), x \in More PROVE FALSE
    <3>1. PICK p \in P, g \in Relations : \E i \in 1..task[p].taken[g] : x = <<p, g, i>>
      BY LookedUpOneByOne
    <3>2. p = path /\ g = f
      BY <2>2, <3>1
    <3>3. task[p].taken[g] = 0
      BY <1>3, <3>2
    <3>4. QED
      BY <3>1, <3>3
  <2> HIDE DEF More
  <2>3. QED
    BY <2>1, <2>2
<1> HIDE DEF More
<1>15. ASSUME NEW c \in DOMAIN budget PROVE BudgetIsCounted(c)'
  <2>1. RecordsOf(c)' = RecordsOf(c) /\ RecordsOf(c) \subseteq DOMAIN task
    BY <1>6 DEF RecordsOf
  <2>2. PICK R \in SUBSET DOMAIN task : R = RecordsOf(c)
    BY <2>1
  <2>3. LookedUp(RecordsOf(c))' = LookedUp(R)'
    BY <2>1, <2>2 DEF LookedUp
  <2>4. /\ IsFiniteSet(LookedUp(R)) /\ Cardinality(LookedUp(R)) = budget[c]
        /\ budget[c] \in Nat /\ budget[c] <= MaxNodes
    BY <2>2 DEF PopulateInv, BudgetIsCounted
  <2>5. CASE c = CallOf(path)
    <3>1. path \in R
      BY <2>2, <2>5 DEF RecordsOf
    <3>2. LookedUp(R)' = LookedUp(R) \cup More /\ LookedUp(R) \cap More = {}
      BY <3>1, <1>14
    <3>3. /\ IsFiniteSet(LookedUp(R) \cup More)
          /\ Cardinality(LookedUp(R) \cup More) = Cardinality(LookedUp(R)) + Cardinality(More)
                                                  - Cardinality(LookedUp(R) \cap More)
      BY <1>13, <2>4, FS_Union
    <3>4. Cardinality(LookedUp(R) \cap More) = 0
      BY <3>2, FS_EmptySet
    <3>5. Cardinality(LookedUp(R) \cup More) = b + n
      BY <1>2, <1>3, <1>13, <2>4, <2>5, <3>3, <3>4
    <3>6. budget'[c] = b + n /\ b + n \in Nat /\ b + n <= MaxNodes
      BY <1>3, <1>7, <2>5
    <3>7. QED
      BY <2>3, <3>2, <3>3, <3>5, <3>6 DEF BudgetIsCounted
  <2>6. CASE c # CallOf(path)
    <3>1. path \notin R
      BY <2>2, <2>6 DEF RecordsOf
    <3>2. LookedUp(R)' = LookedUp(R)
      BY <1>6, <3>1, LookedUpStays
    <3>3. QED
      BY <1>7, <2>3, <2>4, <2>6, <3>2 DEF BudgetIsCounted
  <2>7. QED
    BY <2>5, <2>6
<1>16. IsFiniteSet(LookedUp(DOMAIN task))'
  <2>1. PICK R : R = DOMAIN task
    OBVIOUS
  <2>2. LookedUp(R)' = LookedUp(R) \cup More
    BY <1>14, <2>1
  <2>3. LookedUp(DOMAIN task)' = LookedUp(R)'
    BY <1>6, <2>1 DEF LookedUp
  <2>4. IsFiniteSet(LookedUp(R))
    BY <2>1 DEF PopulateInv
  <2>5. IsFiniteSet(LookedUp(R) \cup More)
    BY <1>13, <2>4, FS_Union
  <2>6. QED
    BY <2>2, <2>3, <2>5
<1>17. QED
  BY <1>6, <1>7, <1>11, <1>12, <1>15, <1>16 DEF PopulateInv

\* populateRecord goes on from a field: what lies before it has its reasons.
LEMMA RunKeeps ==
    ASSUME PopulateInv, NEW path \in DOMAIN task, NEW from \in Nat \ {0},
           \A g \in Relations : g >= from => task[path].taken[g] = 0,
           \A g \in Relations : g < from => IsSettled(path, g),
           \A c \in DOMAIN budget : c # FirstCall /\ c[1] = path => c[2] < from,
           RunsFrom(path, from), UNCHANGED <<link, asked>>
    PROVE  PopulateInv'
<1> DEFINE fields == {f \in from..NRelations : Slice(path, f) > 0}
<1>1. /\ MaxNodes \in Nat /\ NRelations \in Nat /\ Relations \subseteq Nat \ {0}
      /\ \A g \in Relations : g \in 1..NRelations
  BY PopulateNumbers DEF Relations
<1>2. fields \subseteq Relations
  BY <1>1 DEF Relations
<1>3. ~(Len(path) > Levels)
  BY PopulateNumbers DEF PopulateInv, RecordIsSound
<1>4. \A g \in Relations : g >= from /\ ~(Slice(path, g) > 0) => IsSettled(path, g)
  <2> SUFFICES ASSUME NEW g \in Relations, g >= from, ~(Slice(path, g) > 0)
               PROVE  IsSettled(path, g)
    OBVIOUS
  <2>1. task[path].taken[g] = 0
    OBVIOUS
  <2>2. budget[CallOf(path)] <= MaxNodes
    BY DEF PopulateInv, RecordIsSound, BudgetIsCounted
  <2>3. Len(link[RecordAt(path)][g]) = 0 \/ budget[CallOf(path)] = MaxNodes
    BY <1>1, <2>2, SliceIsRight
  <2>4. QED
    BY <2>1, <2>3 DEF IsSettled
<1>5. CASE fields = {} \/ budget[CallOf(path)] >= MaxNodes
  <2>1. task' = [task EXCEPT ![path].pc = "done"] /\ budget' = budget
    BY <1>5 DEF RunsFrom
  <2>2. \A g \in Relations : IsSettled(path, g)
    <3> SUFFICES ASSUME NEW g \in Relations, g >= from PROVE IsSettled(path, g)
      BY <1>1
    <3>1. CASE fields = {}
      <4>1. g \in from..NRelations
        BY <1>1
      <4>2. ~(Slice(path, g) > 0)
        BY <3>1, <4>1
      <4>3. QED
        BY <1>4, <4>2
    <3>2. CASE budget[CallOf(path)] >= MaxNodes
      <4>1. budget[CallOf(path)] <= MaxNodes /\ budget[CallOf(path)] \in Nat
        BY DEF PopulateInv, RecordIsSound, BudgetIsCounted
      <4>2. QED
        BY <1>1, <3>2, <4>1 DEF IsSettled
    <3>3. QED
      BY <1>5, <3>1, <3>2
  <2>3. QED
    BY <2>1, <2>2, EndOfRecordKeeps
<1>6. CASE ~(fields = {} \/ budget[CallOf(path)] >= MaxNodes)
  <2>1. \E f \in fields : \A h \in fields : f <= h
    <3>1. fields \subseteq Nat /\ fields # {}
      BY <1>1, <1>2, <1>6
    <3> HIDE DEF fields
    <3>2. IsWellFoundedOn(OpToRel(<, Nat), Nat)
      BY NatLessThanWellFounded
    <3> DEFINE R == OpToRel(<, Nat)
    <3> HIDE DEF R
    <3>3. PICK f \in fields : \A h \in fields : <<h, f>> \notin R
      BY <3>1, <3>2, WFMin DEF R
    <3>4. \A h \in fields : f <= h
      <4> TAKE h \in fields
      <4>1. h \in Nat /\ f \in Nat /\ ~(h < f)
        BY <3>1, <3>3 DEF R, OpToRel
      <4>2. QED
        BY <4>1
    <3>5. QED
      BY <3>4
  <2>2. PICK f \in fields : /\ \A h \in fields : f <= h
                            /\ task' = [task EXCEPT ![path] = Querying(path, f)]
                            /\ budget' = [budget EXCEPT ![CallOf(path)] = @ + Slice(path, f)]
    <3>1. PICK f : f = CHOOSE g \in fields : \A h \in fields : g <= h
      OBVIOUS
    <3>2. f \in fields /\ \A h \in fields : f <= h
      BY <2>1, <3>1
    <3>3. /\ task' = [task EXCEPT ![path] = Querying(path, f)]
          /\ budget' = [budget EXCEPT ![CallOf(path)] = @ + Slice(path, f)]
      BY <1>3, <1>6, <3>1 DEF RunsFrom
    <3>4. QED
      BY <3>2, <3>3
  <2>3. f \in Relations /\ f \in from..NRelations /\ Slice(path, f) > 0
    BY <1>2
  <2>4. PICK n \in Nat \ {0} : n = Slice(path, f)
    BY <2>3, SliceIsRight
  <2> HIDE DEF fields
  <2>5. \A g \in Relations : g >= f => task[path].taken[g] = 0
    <3> SUFFICES ASSUME NEW g \in Relations, g >= f PROVE task[path].taken[g] = 0
      OBVIOUS
    <3>1. f >= from /\ f \in Nat /\ g \in Nat
      BY <1>1, <2>3
    <3>2. g >= from
      BY <3>1
    <3>3. QED
      BY <3>2
  <2>6. \A g \in Relations : g < f => IsSettled(path, g)
    <3> SUFFICES ASSUME NEW g \in Relations, g < f, g >= from PROVE IsSettled(path, g)
      BY <1>1
    <3>1. g \in from..NRelations
      BY <1>1
    <3>2. g \notin fields
      BY <1>1, <2>2, <2>3
    <3>3. ~(Slice(path, g) > 0)
      BY <3>1, <3>2 DEF fields
    <3>4. QED
      BY <1>4, <3>3
  <2>7. \A c \in DOMAIN budget : c # FirstCall /\ c[1] = path => c[2] < f
    <3> SUFFICES ASSUME NEW c \in DOMAIN budget, c # FirstCall, c[1] = path PROVE c[2] < f
      OBVIOUS
    <3>1. c[2] \in Relations /\ c[2] < from
      BY DEF PopulateInv, CallIsBelow
    <3>2. f >= from /\ f \in Nat
      BY <2>3
    <3>3. c[2] \in Nat
      BY <1>1, <3>1
    <3>4. QED
      BY <3>1, <3>2, <3>3
  <2>8. budget' = [budget EXCEPT ![CallOf(path)] = @ + n]
    BY <2>2, <2>4
  <2>9. QED
    BY <2>2, <2>3, <2>4, <2>5, <2>6, <2>7, <2>8, TakeKeeps
<1>7. QED
  BY <1>5, <1>6

\* What a path becomes with one more step.
LEMMA OneStepBelow ==
    ASSUME NEW path \in Seq(PathSteps), NEW x \in PathSteps, NEW q, q = Append(path, x)
    PROVE  /\ q \in Seq(PathSteps) /\ Len(q) = Len(path) + 1 /\ Len(path) \in Nat
           /\ CallOf(q) = <<path, x[1]>>
<1>1. q \in Seq(PathSteps) /\ Len(q) = Len(path) + 1 /\ Len(path) \in Nat /\ q[Len(q)] = x
  OBVIOUS
<1>2. SubSeq(q, 1, Len(q) - 1) = path
  <2>1. Len(q) - 1 = Len(path)
    BY <1>1
  <2>2. \A i \in 1..Len(path) : q[i] = path[i]
    OBVIOUS
  <2>3. SubSeq(q, 1, Len(path)) = [i \in 1..Len(path) |-> q[i]]
    BY <1>1
  <2>4. path = [i \in 1..Len(path) |-> path[i]]
    OBVIOUS
  <2>5. QED
    BY <2>1, <2>2, <2>3, <2>4
<1>3. QED
  BY <1>1, <1>2 DEF CallOf

\* A field whose query is out has no call below yet.
LEMMA NoCallYet ==
    ASSUME PopulateInv, NEW path \in DOMAIN task, task[path].pc \in {"query", "nested"},
           NEW c \in DOMAIN budget, c # FirstCall, c[1] = path
    PROVE  /\ c[2] \in Relations /\ c[2] <= task[path].field
           /\ task[path].pc = "query" => c[2] < task[path].field
<1>1. CallIsBelow(c) /\ task[path].field \in Relations
  BY DEF PopulateInv, RecordIsSound
<1>2. QED
  BY <1>1, PopulateNumbers DEF CallIsBelow

\* What is looked up after a step was looked up before it, where no record took more.
LEMMA LookedUpIsOf ==
    ASSUME NEW P, NEW Q,
           \A p \in P, g \in Relations : \/ p \in Q /\ task'[p].taken[g] = task[p].taken[g]
                                       \/ task'[p].taken[g] = 0
    PROVE  LookedUp(P)' \subseteq LookedUp(Q)
<1> SUFFICES ASSUME NEW x, x \in LookedUp(P)' PROVE x \in LookedUp(Q)
  OBVIOUS
<1>1. PICK p \in P, g \in Relations : \E i \in 1..task'[p].taken[g] : x = <<p, g, i>>
  BY LookedUpThen
<1>2. PICK i \in 1..task'[p].taken[g] : x = <<p, g, i>>
  BY <1>1
<1>3. task'[p].taken[g] # 0
  BY <1>2
<1>4. p \in Q /\ i \in 1..task[p].taken[g]
  BY <1>3
<1>5. QED
  BY <1>2, <1>4, LookedUpOneByOne

\* A call c1 begins for the ids taken of field f: its records are new, and t is what
\* becomes of the record they are below.
BeginsBelow(path, f, c1, children, t) ==
    /\ task[path].pc = "query" /\ f = task[path].field /\ task[path].taken[f] >= 1
    /\ c1 # FirstCall /\ c1[1] = path /\ c1[2] = f /\ c1 \notin DOMAIN budget
    /\ \A q \in children : q \in Seq(PathSteps) /\ Len(q) \in 1..Levels /\ CallOf(q) = c1
    /\ t \in TaskShapes /\ t.pc = "nested" /\ t.field = f /\ t.taken = task[path].taken
    /\ DOMAIN task' = DOMAIN task \cup children /\ task'[path] = t
    /\ \A p \in DOMAIN task \ {path} : task'[p] = task[p]
    /\ \A q \in children : task'[q] = NewTask
    /\ DOMAIN budget' = DOMAIN budget \cup {c1} /\ budget'[c1] = 0
    /\ \A c \in DOMAIN budget : budget'[c] = budget[c]
    /\ UNCHANGED <<link, asked>>

\* Records below a field begin with nothing taken, in a call that has counted nothing.
LEMMA BelowKeeps ==
    ASSUME PopulateInv, NEW path \in DOMAIN task, NEW f, NEW c1, NEW children, NEW t,
           BeginsBelow(path, f, c1, children, t)
    PROVE  PopulateInv'
<1>0. /\ task[path].pc = "query" /\ f = task[path].field
      /\ UNCHANGED <<link, asked>>
  BY DEF BeginsBelow
<1>1. /\ RecordIsSound(path) /\ task[path] \in TaskShapes /\ path \in Seq(PathSteps)
      /\ Len(path) \in 1..Levels /\ f \in Relations /\ task[path].taken[f] \in Nat
  BY <1>0 DEF PopulateInv, RecordIsSound, TaskShapes
<1>2. /\ Levels \in Nat /\ Levels' = Levels /\ Relations \subseteq Nat \ {0}
      /\ NRelations \in Nat /\ MaxNodes \in Nat
  BY <1>0, PopulateNumbers DEF Levels
<1>4. task[path].taken[f] >= 1
  BY DEF BeginsBelow
<1>5. \A q \in children : q \in Seq(PathSteps) /\ Len(q) \in 1..Levels /\ CallOf(q) = c1
  BY DEF BeginsBelow
<1>6. c1 # FirstCall /\ c1[1] = path /\ c1[2] = f
  BY DEF BeginsBelow
<1>7. c1 \notin DOMAIN budget
  BY DEF BeginsBelow
<1>10. t \in TaskShapes /\ t.pc = "nested" /\ t.field = f /\ t.taken = task[path].taken
  BY DEF BeginsBelow
<1>11. /\ DOMAIN task' = DOMAIN task \cup children /\ task'[path] = t
       /\ \A p \in DOMAIN task \ {path} : task'[p] = task[p]
       /\ \A q \in children : task'[q] = NewTask
  BY DEF BeginsBelow
<1>12. /\ DOMAIN budget' = DOMAIN budget \cup {c1} /\ budget'[c1] = 0
       /\ \A c \in DOMAIN budget : budget'[c] = budget[c]
  BY DEF BeginsBelow
<1>13. /\ NewTask \in TaskShapes /\ NewTask.pc = "begin"
       /\ \A g \in Relations : NewTask.taken[g] = 0
  BY <1>2 DEF NewTask, TaskShapes
<1>14. \A p \in DOMAIN task : task'[p].taken = task[p].taken
  BY <1>0, <1>10, <1>11
<1>15. \A p \in DOMAIN task, g \in Relations : IsSettled(p, g) => IsSettled(p, g)'
  BY <1>0, <1>12, <1>14 DEF IsSettled, PopulateInv, RecordIsSound
<1>16. ASSUME NEW p \in DOMAIN task PROVE RecordIsSound(p)'
  <2>1. CASE p = path
    BY <1>0, <1>1, <1>2, <1>10, <1>11, <1>12, <1>15, <2>1 DEF RecordIsSound
  <2>2. CASE p # path
    <3>1. RecordIsSound(p)
      BY DEF PopulateInv
    <3>2. task'[p] = task[p] /\ \A g \in Relations : IsSettled(p, g) => IsSettled(p, g)'
      BY <1>0, <1>11, <1>15, <2>2
    <3>3. CallOf(p) \in DOMAIN budget'
      BY <1>0, <1>12, <3>1 DEF RecordIsSound
    <3>4. QED
      BY <1>0, <1>2, <3>1, <3>2, <3>3 DEF RecordIsSound
  <2>3. QED
    BY <2>1, <2>2
<1>17. ASSUME NEW q \in children PROVE RecordIsSound(q)'
  <2>1. \A g \in Relations : Len(link[RecordAt(q)][g]) \in Nat
    BY <1>0, <1>5, IdsAreSequences
  <2>2. task'[q] = NewTask
    BY <1>11
  <2>3. \A g \in Relations : task'[q].taken[g] = 0 /\ 0 <= Len(link[RecordAt(q)][g])
    BY <1>13, <2>1, <2>2
  <2>4. QED
    BY <1>0, <1>2, <1>5, <1>12, <1>13, <2>2, <2>3 DEF RecordIsSound
<1>18. ASSUME NEW c \in DOMAIN budget, c # FirstCall PROVE CallIsBelow(c)'
  <2>1. CallIsBelow(c)
    BY <1>18 DEF PopulateInv
  <2>2. CASE c[1] = path
    BY <1>0, <1>10, <1>11, <2>1, <2>2 DEF CallIsBelow
  <2>3. CASE c[1] # path
    BY <1>0, <1>11, <2>1, <2>3 DEF CallIsBelow
  <2>4. QED
    BY <2>2, <2>3
<1>19. CallIsBelow(c1)'
  BY <1>0, <1>1, <1>4, <1>6, <1>10, <1>11 DEF CallIsBelow
<1>20. ASSUME NEW c \in DOMAIN budget PROVE BudgetIsCounted(c)'
  <2>1. RecordsOf(c)' = RecordsOf(c) /\ RecordsOf(c) \subseteq DOMAIN task
    BY <1>0, <1>5, <1>7, <1>11 DEF RecordsOf
  <2>2. PICK R : R = RecordsOf(c)
    OBVIOUS
  <2>3. LookedUp(R)' = LookedUp(R)
    BY <1>14, <2>1, <2>2, LookedUpStays
  <2>4. LookedUp(RecordsOf(c))' = LookedUp(R)'
    BY <2>1, <2>2 DEF LookedUp
  <2>5. QED
    BY <1>0, <1>12, <2>2, <2>3, <2>4 DEF PopulateInv, BudgetIsCounted
<1>21. ASSUME NEW P \in SUBSET (DOMAIN task \cup children)
       PROVE  LookedUp(P)' \subseteq LookedUp(P \cap DOMAIN task)
  <2>1. ASSUME NEW p \in P, NEW g \in Relations
        PROVE  \/ p \in P \cap DOMAIN task /\ task'[p].taken[g] = task[p].taken[g]
               \/ task'[p].taken[g] = 0
    BY <1>0, <1>11, <1>13, <1>14
  <2>2. QED
    BY <2>1, LookedUpIsOf
<1>22. BudgetIsCounted(c1)'
  <2>1. RecordsOf(c1)' = {p \in DOMAIN task \cup children : CallOf(p) = c1}
    BY <1>11 DEF RecordsOf
  <2>2. PICK R : R = {p \in DOMAIN task \cup children : CallOf(p) = c1}
    OBVIOUS
  <2>3. R \cap DOMAIN task = {}
    BY <1>7, <2>2 DEF PopulateInv, RecordIsSound
  <2>4. LookedUp(R)' = {}
    <3>1. \A x : x \notin LookedUp({})
      BY LookedUpOneByOne
    <3>2. R \subseteq DOMAIN task \cup children
      BY <2>2
    <3>3. QED
      BY <1>21, <2>3, <3>1, <3>2
  <2>5. LookedUp(RecordsOf(c1))' = LookedUp(R)'
    BY <2>1, <2>2 DEF LookedUp
  <2>6. IsFiniteSet({}) /\ Cardinality({}) = 0
    BY FS_EmptySet
  <2>7. (LookedUp(RecordsOf(c1)))' = {}
    BY <2>4, <2>5
  <2>8. budget'[c1] = 0 /\ 0 \in Nat /\ 0 <= MaxNodes
    BY <1>0, <1>2, <1>12
  <2>9. QED
    BY <2>6, <2>7, <2>8 DEF BudgetIsCounted
<1>23. IsFiniteSet(LookedUp(DOMAIN task))'
  <2>1. PICK R : R = DOMAIN task'
    OBVIOUS
  <2>2. R = DOMAIN task \cup children /\ R \cap DOMAIN task = DOMAIN task
    BY <1>0, <1>11, <2>1
  <2>3. LookedUp(R)' \subseteq LookedUp(DOMAIN task)
    BY <1>21, <2>2
  <2>4. LookedUp(DOMAIN task)' = LookedUp(R)'
    BY <2>1 DEF LookedUp
  <2>5. QED
    BY <2>3, <2>4, FS_Subset DEF PopulateInv
<1>24. QED
  BY <1>0, <1>11, <1>12, <1>16, <1>17, <1>18, <1>19, <1>20, <1>22, <1>23 DEF PopulateInv

\* The query for field f found records, above the last level.
QueryFinds(path, f, found, children) ==
    /\ task[path].pc = "query" /\ Len(path) # Levels /\ f = task[path].field
    /\ found \subseteq {link[RecordAt(path)][f][i] : i \in 1..task[path].taken[f]} /\ found # {}
    /\ children = {Append(path, <<f, d>>) : d \in found}
    /\ task' = Grown([task EXCEPT ![path].pc = "nested"], children, NewTask)
    /\ budget' = Grown(budget, {<<path, f>>}, 0)
    /\ UNCHANGED <<link, asked>>

\* The records a query found are populated below, in a call with a budget of its own.
LEMMA ChildrenKeep ==
    ASSUME PopulateInv, NEW path \in DOMAIN task, NEW f, NEW found, NEW children,
           QueryFinds(path, f, found, children)
    PROVE  PopulateInv'
<1> /\ task[path].pc = "query" /\ Len(path) # Levels /\ f = task[path].field
    /\ found \subseteq {link[RecordAt(path)][f][i] : i \in 1..task[path].taken[f]} /\ found # {}
    /\ children = {Append(path, <<f, d>>) : d \in found}
    /\ task' = Grown([task EXCEPT ![path].pc = "nested"], children, NewTask)
    /\ budget' = Grown(budget, {<<path, f>>}, 0)
    /\ UNCHANGED <<link, asked>>
  BY DEF QueryFinds
<1>1. /\ RecordIsSound(path) /\ task[path] \in TaskShapes /\ path \in Seq(PathSteps)
      /\ Len(path) \in 1..Levels /\ f \in Relations /\ task[path].taken[f] \in Nat
  BY DEF PopulateInv, RecordIsSound, TaskShapes
<1>2. /\ Levels \in Nat /\ Levels' = Levels /\ Relations \subseteq Nat \ {0}
      /\ NRelations \in Nat /\ MaxNodes \in Nat
  BY PopulateNumbers DEF Levels
<1>3. found \subseteq Documents
  <2> SUFFICES ASSUME NEW i \in 1..task[path].taken[f] PROVE link[RecordAt(path)][f][i] \in Documents
    OBVIOUS
  <2>1. PICK ids : ids = link[RecordAt(path)][f]
    OBVIOUS
  <2>2. ids \in Seq(Documents) /\ Len(ids) \in Nat
    BY <1>1, <2>1, IdsAreSequences
  <2>3. task[path].taken[f] <= Len(ids)
    BY <1>1, <2>1 DEF RecordIsSound
  <2>4. i \in 1..Len(ids)
    BY <1>1, <2>2, <2>3
  <2>5. QED
    BY <2>1, <2>2, <2>4
<1>4. task[path].taken[f] >= 1
  BY <1>1
<1>0. PICK c1 : c1 = <<path, f>>
  OBVIOUS
<1>5. \A q \in children : q \in Seq(PathSteps) /\ Len(q) \in 1..Levels /\ CallOf(q) = c1
  <2> TAKE q \in children
  <2>1. PICK d \in Documents : q = Append(path, <<f, d>>)
    BY <1>3
  <2>2. <<f, d>> \in PathSteps
    BY <1>1 DEF PathSteps
  <2>3. q \in Seq(PathSteps) /\ Len(q) = Len(path) + 1 /\ CallOf(q) = <<path, f>>
    BY <1>1, <2>1, <2>2, OneStepBelow
  <2>4. QED
    BY <1>1, <1>2, <1>0, <2>3
<1>6. c1 # FirstCall /\ c1[1] = path /\ c1[2] = f
  <2>1. path # << >>
    BY <1>1
  <2>2. QED
    BY <1>0, <2>1 DEF FirstCall
<1>7. c1 \notin DOMAIN budget
  <2> SUFFICES ASSUME c1 \in DOMAIN budget PROVE FALSE
    OBVIOUS
  <2>1. f < f
    BY <1>6, NoCallYet
  <2>2. QED
    BY <1>1, <1>2, <2>1
<1>8. \A p \in DOMAIN task : p \notin children
  BY <1>5, <1>7 DEF PopulateInv, RecordIsSound
<1>9. PICK t : t = [task[path] EXCEPT !.pc = "nested"]
  OBVIOUS
<1>10. t \in TaskShapes /\ t.pc = "nested" /\ t.field = f /\ t.taken = task[path].taken
  BY <1>1, <1>9 DEF TaskShapes
<1>11. /\ DOMAIN task' = DOMAIN task \cup children /\ task'[path] = t
       /\ \A p \in DOMAIN task \ {path} : task'[p] = task[p]
       /\ \A q \in children : task'[q] = NewTask
  BY <1>8, <1>9 DEF Grown
<1>12. /\ DOMAIN budget' = DOMAIN budget \cup {c1} /\ budget'[c1] = 0
       /\ \A c \in DOMAIN budget : budget'[c] = budget[c]
  BY <1>7, <1>0 DEF Grown
<1>13. BeginsBelow(path, f, c1, children, t)
  BY <1>4, <1>5, <1>6, <1>7, <1>10, <1>11, <1>12 DEF BeginsBelow
<1>14. QED
  BY <1>13, BelowKeeps, Zenon

\* Every step of populateRecords keeps its invariant.
LEMMA PopulateStep ==
    ASSUME PopulateInv, [PopulateNext]_populateVars
    PROVE  PopulateInv'
<1>1. ASSUME NEW path \in DOMAIN task, Begins(path) PROVE PopulateInv'
  <2>1. task[path].pc = "begin" /\ RunsFrom(path, 1) /\ UNCHANGED <<link, asked>>
    BY <1>1 DEF Begins
  <2>2. RecordIsSound(path)
    BY DEF PopulateInv
  <2>3. \A g \in Relations : task[path].taken[g] = 0 /\ ~(g < 1)
    BY <2>1, <2>2, PopulateNumbers DEF RecordIsSound
  <2>4. \A c \in DOMAIN budget : c # FirstCall => c[1] # path
    BY <2>1 DEF PopulateInv, CallIsBelow
  <2>5. QED
    BY <2>1, <2>3, <2>4, RunKeeps
<1>2. ASSUME NEW path \in DOMAIN task, task[path].pc \in {"query", "nested"},
             RunsFrom(path, task[path].field + 1), UNCHANGED <<link, asked>>
      PROVE  PopulateInv'
  <2>1. RecordIsSound(path)
    BY DEF PopulateInv
  <2>2. PICK from : from = task[path].field + 1
    OBVIOUS
  <2>3. task[path].field \in Relations /\ task[path].field \in Nat /\ from \in Nat \ {0}
    BY <1>2, <2>1, <2>2, PopulateNumbers DEF RecordIsSound
  <2>4. \A g \in Relations : /\ g >= from => task[path].taken[g] = 0
                             /\ g < from => IsSettled(path, g)
    <3> TAKE g \in Relations
    <3>1. /\ g > task[path].field => task[path].taken[g] = 0
          /\ g <= task[path].field => IsSettled(path, g)
      BY <1>2, <2>1 DEF RecordIsSound
    <3>2. g \in Nat
      BY PopulateNumbers
    <3>3. (g >= from => g > task[path].field) /\ (g < from => g <= task[path].field)
      BY <2>2, <2>3, <3>2
    <3>4. QED
      BY <3>1, <3>3
  <2>5. \A c \in DOMAIN budget : c # FirstCall /\ c[1] = path => c[2] < from
    <3> SUFFICES ASSUME NEW c \in DOMAIN budget, c # FirstCall, c[1] = path PROVE c[2] < from
      OBVIOUS
    <3>1. c[2] \in Relations /\ c[2] <= task[path].field
      BY <1>2, NoCallYet
    <3>2. c[2] \in Nat
      BY <3>1, PopulateNumbers
    <3>3. QED
      BY <2>2, <2>3, <3>1, <3>2
  <2>6. RunsFrom(path, from)
    BY <1>2, <2>2
  <2>7. QED
    BY <1>2, <2>3, <2>4, <2>5, <2>6, RunKeeps
<1>3. ASSUME NEW path \in DOMAIN task, QueryReturns(path) PROVE PopulateInv'
  <2>1. PICK f : f = task[path].field
    OBVIOUS
  <2>2. PICK found : found = {link[RecordAt(path)][f][i] : i \in 1..task[path].taken[f]} \ hidden
    OBVIOUS
  <2>3. PICK children : children = {Append(path, <<f, d>>) : d \in found}
    OBVIOUS
  <2>4. task[path].pc = "query" /\ UNCHANGED <<link, asked>>
    BY <1>3 DEF QueryReturns
  <2>5. CASE found = {} \/ Len(path) = Levels
    <3>1. RunsFrom(path, f + 1)
      BY <1>3, <2>1, <2>2, <2>5 DEF QueryReturns
    <3>2. QED
      BY <1>2, <2>1, <2>4, <3>1
  <2>6. CASE ~(found = {} \/ Len(path) = Levels)
    <3>1. /\ task' = Grown([task EXCEPT ![path].pc = "nested"], children, NewTask)
          /\ budget' = Grown(budget, {<<path, f>>}, 0)
      BY <1>3, <2>1, <2>2, <2>3, <2>6 DEF QueryReturns
    <3>2. found \subseteq {link[RecordAt(path)][f][i] : i \in 1..task[path].taken[f]}
      BY <2>2
    <3>3. QueryFinds(path, f, found, children)
      BY <2>1, <2>3, <2>4, <2>6, <3>1, <3>2 DEF QueryFinds
    <3>4. QED
      BY <3>3, ChildrenKeep
  <2>7. QED
    BY <2>5, <2>6
<1>4. ASSUME NEW path \in DOMAIN task, NestedReturns(path) PROVE PopulateInv'
  <2>1. /\ task[path].pc = "nested" /\ RunsFrom(path, task[path].field + 1)
        /\ UNCHANGED <<link, asked>>
    BY <1>4 DEF NestedReturns
  <2>2. QED
    BY <1>2, <2>1
<1>5. CASE UNCHANGED populateVars
  <2>1. /\ task' = task /\ budget' = budget /\ link' = link /\ asked' = asked
    BY <1>5 DEF populateVars
  <2>2. \A p \in DOMAIN task : RecordIsSound(p)' <=> RecordIsSound(p)
    BY <2>1 DEF RecordIsSound, IsSettled, Levels
  <2>3. \A c \in DOMAIN budget : CallIsBelow(c)' <=> CallIsBelow(c)
    BY <2>1 DEF CallIsBelow
  <2>4. \A c \in DOMAIN budget : BudgetIsCounted(c)' <=> BudgetIsCounted(c)
    BY <2>1 DEF BudgetIsCounted, LookedUp, RecordsOf
  <2>5. LookedUp(DOMAIN task)' = LookedUp(DOMAIN task)
    BY <2>1 DEF LookedUp
  <2>6. QED
    BY <2>1, <2>2, <2>3, <2>4, <2>5 DEF PopulateInv
<1>6. QED
  BY <1>1, <1>3, <1>4, <1>5 DEF PopulateNext

\* A response whose records have not begun has looked up nothing.
LEMMA PopulateStart ==
    ASSUME PopulateInit
    PROVE  PopulateInv
<1> DEFINE Path(d) == << <<0, d>> >>
<1>1. /\ link \in [Documents -> [Relations -> Lists]]
      /\ task = [p \in {Path(d) : d \in Listed} |-> NewTask]
      /\ budget = [c \in {FirstCall} |-> 0]
  BY DEF PopulateInit
<1>2. asked \in Nat \ {0}
  BY PopulateAssumption DEF PopulateInit
<1>3. Levels \in Nat \ {0} /\ NRelations \in Nat /\ MaxNodes \in Nat
  BY <1>2, PopulateAssumption DEF Levels
<1>4. ASSUME NEW p \in DOMAIN task
      PROVE  /\ p \in Seq(PathSteps) /\ Len(p) = 1 /\ CallOf(p) = FirstCall /\ task[p] = NewTask
             /\ RecordAt(p) \in Documents
  <2>1. PICK d \in Listed : p = Path(d)
    BY <1>1
  <2>2. d \in Documents /\ <<0, d>> \in PathSteps
    BY PopulateAssumption DEF PathSteps
  <2>3. PICK x \in PathSteps : x = <<0, d>> /\ x[1] = 0 /\ x[2] = d
    BY <2>2
  <2>4. p = <<x>>
    BY <2>1, <2>3
  <2>5. p \in Seq(PathSteps) /\ Len(p) = 1 /\ p[1] = x
    BY <2>4
  <2>6. SubSeq(p, 1, 0) = << >>
    BY <2>5
  <2>7. CallOf(p) = FirstCall
    BY <2>3, <2>5, <2>6 DEF CallOf, FirstCall
  <2>8. RecordAt(p) = d
    BY <2>3, <2>5 DEF RecordAt
  <2>9. QED
    BY <1>1, <2>2, <2>5, <2>7, <2>8
<1>5. NewTask \in TaskShapes /\ NewTask.pc = "begin" /\ \A g \in Relations : NewTask.taken[g] = 0
  BY <1>3 DEF NewTask, TaskShapes
<1>6. ASSUME NEW p \in DOMAIN task PROVE RecordIsSound(p)
  <2>1. \A g \in Relations : Len(link[RecordAt(p)][g]) \in Nat
    <3> TAKE g \in Relations
    <3>1. link[RecordAt(p)][g] \in Lists
      BY <1>1, <1>4
    <3>2. QED
      BY <3>1, PopulateAssumption
  <2>2. \A g \in Relations : task[p].taken[g] = 0 /\ 0 <= Len(link[RecordAt(p)][g])
    BY <1>4, <1>5, <2>1
  <2>3. CallOf(p) \in DOMAIN budget
    BY <1>1, <1>4
  <2>4. Len(p) \in 1..Levels
    <3>1. Len(p) = 1
      BY <1>4
    <3>2. 1 \in 1..Levels
      BY <1>3
    <3>3. QED
      BY <3>1, <3>2
  <2>5. task[p] \in TaskShapes /\ task[p].pc = "begin"
    <3>1. task[p] = NewTask
      BY <1>4
    <3>2. QED
      BY <1>5, <3>1
  <2>6. p \in Seq(PathSteps)
    BY <1>4
  <2>7. QED
    BY <2>2, <2>3, <2>4, <2>5, <2>6 DEF RecordIsSound
<1>7. \A P \in SUBSET DOMAIN task : LookedUp(P) = {}
  <2> SUFFICES ASSUME NEW P \in SUBSET DOMAIN task, NEW x \in LookedUp(P) PROVE FALSE
    OBVIOUS
  <2>1. PICK p \in P, g \in Relations : \E i \in 1..task[p].taken[g] : x = <<p, g, i>>
    BY LookedUpOneByOne
  <2>2. task[p].taken[g] = 0
    BY <1>4, <1>5
  <2>3. QED
    BY <2>1, <2>2
<1>8. IsFiniteSet({}) /\ Cardinality({}) = 0
  BY FS_EmptySet
<1>9. BudgetIsCounted(FirstCall)
  <2>1. RecordsOf(FirstCall) \in SUBSET DOMAIN task
    BY DEF RecordsOf
  <2>2. budget[FirstCall] = 0
    BY <1>1
  <2>3. QED
    BY <1>3, <1>7, <1>8, <2>1, <2>2 DEF BudgetIsCounted
<1>10. IsFiniteSet(LookedUp(DOMAIN task))
  BY <1>7, <1>8
<1>11. QED
  BY <1>1, <1>2, <1>6, <1>9, <1>10 DEF PopulateInv

\* Each record of a level below is in a call for ids the level above took, and each call
\* looks up at most MaxNodes ids.
LEMMA LevelsGrowByCalls ==
    ASSUME PopulateInv, NEW l \in 1..MaxDepth
    PROVE  Cardinality(LookedUp(AtLevel(l + 1))) <= MaxNodes * Cardinality(LookedUp(AtLevel(l)))
<1> DEFINE A == LookedUp(AtLevel(l))
           B == LookedUp(AtLevel(l + 1))
           M == 1..MaxNodes
           Of(c) == LookedUp(RecordsOf(c))
           H(c) == CHOOSE h : h \in Injection(Of(c), M)
           Above(x) == <<CallOf(x[1])[1], CallOf(x[1])[2], 1>>
           F == [x \in B |-> <<Above(x), H(CallOf(x[1]))[x]>>]
<1>1. IsFiniteSet(A) /\ IsFiniteSet(B)
  <2>1. AtLevel(l) \in SUBSET DOMAIN task /\ AtLevel(l + 1) \in SUBSET DOMAIN task
    BY DEF AtLevel
  <2>2. A \subseteq LookedUp(DOMAIN task) /\ B \subseteq LookedUp(DOMAIN task)
    BY <2>1, LookedUpGrows
  <2> HIDE DEF A, B
  <2>3. QED
    BY <2>2, FS_Subset DEF PopulateInv
<1>2. ASSUME NEW c \in DOMAIN budget PROVE H(c) \in Injection(Of(c), M)
  <2>1. IsFiniteSet(Of(c)) /\ Cardinality(Of(c)) \in Nat /\ Cardinality(Of(c)) <= MaxNodes
    BY DEF PopulateInv, BudgetIsCounted
  <2>2. PICK S : S = Of(c)
    OBVIOUS
  <2>3. PICK n \in Nat : ExistsBijection(1..n, S)
    BY <2>1, <2>2, FS_NatBijection
  <2>4. n = Cardinality(S)
    BY <2>3, FS_CountingElements
  <2>5. PICK k : k \in Bijection(1..n, S)
    BY <2>3 DEF ExistsBijection
  <2> DEFINE h == [x \in S |-> CHOOSE i \in 1..n : k[i] = x]
  <2>6. \A x \in S : h[x] \in 1..n /\ k[h[x]] = x
    BY <2>5 DEF Bijection, Surjection
  <2>7. n <= MaxNodes
    BY <2>1, <2>2, <2>4
  <2>8. \A x \in S : h[x] \in M
    BY <2>6, <2>7, PopulateNumbers
  <2>9. h \in [S -> M]
    BY <2>8
  <2>10. \A x, y \in S : h[x] = h[y] => x = y
    BY <2>6
  <2> HIDE DEF h, M
  <2>11. h \in Injection(S, M)
    BY <2>9, <2>10 DEF Injection, IsInjective
  <2>12. QED
    BY <2>2, <2>11
<1>3. ASSUME NEW x \in B
      PROVE  /\ CallOf(x[1]) \in DOMAIN budget /\ x \in Of(CallOf(x[1]))
             /\ Above(x) \in A
             /\ CallOf(x[1]) = <<CallOf(x[1])[1], CallOf(x[1])[2]>>
  <2>1. PICK p \in AtLevel(l + 1), g \in Relations : \E i \in 1..task[p].taken[g] : x = <<p, g, i>>
    BY LookedUpOneByOne
  <2>2. PICK i \in 1..task[p].taken[g] : x = <<p, g, i>>
    BY <2>1
  <2>3. x[1] = p /\ p \in DOMAIN task /\ Len(p) = l + 1
    BY <2>2 DEF AtLevel
  <2>4. p \in Seq(PathSteps) /\ CallOf(p) \in DOMAIN budget
    BY <2>3 DEF PopulateInv, RecordIsSound
  <2>5. PICK q : q = SubSeq(p, 1, Len(p) - 1)
    OBVIOUS
  <2>6. l \in Nat \ {0}
    BY PopulateNumbers
  <2>7. Len(q) = l
    BY <2>3, <2>4, <2>5, <2>6
  <2>8. PICK c \in DOMAIN budget : c = CallOf(p)
    BY <2>4
  <2>9. c = <<q, p[Len(p)][1]>> /\ c = <<c[1], c[2]>> /\ c[1] = q
    BY <2>5, <2>8 DEF CallOf
  <2>10. c # FirstCall
    BY <2>6, <2>7, <2>9 DEF FirstCall
  <2>11. CallIsBelow(c)
    BY <2>10 DEF PopulateInv
  <2>12. c[1] \in AtLevel(l) /\ c[2] \in Relations /\ task[c[1]].taken[c[2]] >= 1
    BY <2>7, <2>9, <2>11 DEF CallIsBelow, AtLevel
  <2>13. task[c[1]].taken[c[2]] \in Nat
    BY <2>12 DEF AtLevel, PopulateInv, RecordIsSound, TaskShapes
  <2>14. 1 \in 1..task[c[1]].taken[c[2]]
    BY <2>12, <2>13
  <2>15. <<c[1], c[2], 1>> \in A
    BY <2>12, <2>14, LookedUpOneByOne
  <2>16. p \in RecordsOf(c)
    BY <2>3, <2>8 DEF RecordsOf
  <2>17. x \in Of(c)
    BY <2>2, <2>16, LookedUpOneByOne
  <2>18. CallOf(x[1]) = c
    BY <2>3, <2>8
  <2> HIDE DEF A, Of
  <2>19. QED
    BY <2>9, <2>15, <2>17, <2>18
<1> HIDE DEF A, B, M, Of, H
<1>4. \A x \in B : H(CallOf(x[1]))[x] \in M
  BY <1>2, <1>3 DEF Injection
<1>5. F \in [B -> A \X M]
  BY <1>3, <1>4
<1>6. ASSUME NEW x \in B, NEW y \in B, F[x] = F[y] PROVE x = y
  <2>1. Above(x) = Above(y) /\ H(CallOf(x[1]))[x] = H(CallOf(y[1]))[y]
    BY <1>6
  <2>2. CallOf(x[1]) = CallOf(y[1])
    <3>1. CallOf(x[1])[1] = CallOf(y[1])[1] /\ CallOf(x[1])[2] = CallOf(y[1])[2]
      BY <2>1
    <3>2. QED
      BY <1>3, <3>1
  <2>3. PICK c \in DOMAIN budget : c = CallOf(x[1])
    BY <1>3
  <2>4. x \in Of(c) /\ y \in Of(c) /\ H(c)[x] = H(c)[y]
    BY <1>3, <2>1, <2>2, <2>3
  <2>5. PICK h : h = H(c) /\ h \in Injection(Of(c), M)
    BY <1>2
  <2>6. QED
    BY <2>4, <2>5 DEF Injection, IsInjective
<1> HIDE DEF F
<1>7. F \in Injection(B, A \X M)
  BY <1>5, <1>6 DEF Injection, IsInjective
<1>8. IsFiniteSet(M) /\ Cardinality(M) = MaxNodes
  <2>1. PICK n \in Nat : n = MaxNodes
    BY PopulateNumbers
  <2>2. M = 1..n
    BY <2>1 DEF M
  <2>3. IsFiniteSet(1..n) /\ Cardinality(1..n) = IF 1 > n THEN 0 ELSE n - 1 + 1
    BY FS_Interval
  <2>4. Cardinality(1..n) = n
    BY <2>3
  <2>5. QED
    BY <2>1, <2>2, <2>3, <2>4
<1>9. IsFiniteSet(A \X M) /\ Cardinality(A \X M) = Cardinality(A) * MaxNodes
  BY <1>1, <1>8, FS_Product
<1>10. Cardinality(B) <= Cardinality(A) * MaxNodes
  BY <1>7, <1>9, FS_Injection
<1>11. Cardinality(A) \in Nat /\ MaxNodes \in Nat
  BY <1>1, FS_CardinalityType, PopulateNumbers
<1>12. Cardinality(A) * MaxNodes = MaxNodes * Cardinality(A)
  BY <1>11
<1>13. QED
  BY <1>10, <1>12 DEF A, B

\* The budgets that count what is looked up keep a response within its limits.
LEMMA PopulateInvHoldsTheLimits ==
    ASSUME PopulateInv
    PROVE  PopulateHoldsItsLimits
<1>1. BudgetHolds
  BY DEF BudgetHolds, PopulateInv, BudgetIsCounted
<1>2. \A p \in DOMAIN task : Len(p) \in 1..MaxDepth
  BY PopulateNumbers DEF PopulateInv, RecordIsSound
<1>3. Cardinality(LookedUp(AtLevel(1))) <= MaxNodes
  <2>1. AtLevel(1) \subseteq RecordsOf(FirstCall)
    <3> SUFFICES ASSUME NEW p \in DOMAIN task, Len(p) = 1 PROVE CallOf(p) = FirstCall
      BY DEF AtLevel, RecordsOf
    <3>1. p \in Seq(PathSteps) /\ CallOf(p) \in DOMAIN budget
      BY DEF PopulateInv, RecordIsSound
    <3>2. PICK c \in DOMAIN budget : c = CallOf(p)
      BY <3>1
    <3>3. SubSeq(p, 1, 0) = << >>
      BY <3>1
    <3>4. c[1] = << >>
      BY <3>2, <3>3 DEF CallOf
    <3>5. ASSUME CallIsBelow(c) PROVE FALSE
      <4>1. Len(c[1]) \in 1..MaxDepth
        BY <1>2, <3>5 DEF CallIsBelow
      <4>2. QED
        BY <3>4, <4>1
    <3>6. QED
      BY <3>2, <3>5 DEF PopulateInv
  <2>2. PICK P, Q : P = AtLevel(1) /\ Q = RecordsOf(FirstCall) /\ P \in SUBSET Q
    BY <2>1
  <2>3. LookedUp(P) \subseteq LookedUp(Q)
    BY <2>2, LookedUpGrows
  <2>4. IsFiniteSet(LookedUp(Q)) /\ Cardinality(LookedUp(Q)) \in Nat /\ Cardinality(LookedUp(Q)) <= MaxNodes
    BY <2>2 DEF PopulateInv, BudgetIsCounted
  <2>5. Cardinality(LookedUp(P)) <= Cardinality(LookedUp(Q)) /\ Cardinality(LookedUp(P)) \in Nat
    BY <2>3, <2>4, FS_Subset, FS_CardinalityType
  <2>6. Cardinality(LookedUp(P)) <= MaxNodes
    BY <2>4, <2>5, PopulateNumbers
  <2>7. QED
    BY <2>2, <2>6
<1>4. LevelsAreBounded
  BY <1>2, <1>3, LevelsGrowByCalls DEF LevelsAreBounded
<1>5. CutOnlyByBudget
  BY DEF CutOnlyByBudget, PopulateInv, RecordIsSound, IsSettled
<1>6. QED
  BY <1>1, <1>4, <1>5 DEF PopulateHoldsItsLimits

\* Populating holds its limits, whatever the graph of relations, the limits and the order
\* in which queries return (packages/core, populateRecords).
THEOREM PopulatingStaysBounded == PopulateSpec => []PopulateHoldsItsLimits
<1>1. PopulateInit => PopulateInv
  BY PopulateStart
<1>2. PopulateInv /\ [PopulateNext]_populateVars => PopulateInv'
  BY PopulateStep
<1>3. PopulateInv => PopulateHoldsItsLimits
  BY PopulateInvHoldsTheLimits
<1>4. QED
  BY <1>1, <1>2, <1>3, PTL DEF PopulateSpec
=============================================================================
