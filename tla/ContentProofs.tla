---------------------------- MODULE ContentProofs ----------------------------
(***************************************************************************)
(* Proofs about the content API: that the audit log tells the writes, each *)
(* as its author made it, and that the admin's workspace shows and saves   *)
(* what it says.                                                           *)
(***************************************************************************)
EXTENDS ContentWrites, AdminContent, FiniteSetTheorems, FunctionTheorems, TLAPS

-----------------------------------------------------------------------------
(* ContentWrites: the requests and the audit log. *)

\* What can be left to do of a request.
Todos == {<<>>, <<"db">>, <<"get", "db", "emit">>, <<"db", "emit">>, <<"emit">>,
          <<"get", "hook", "db", "after", "emit">>, <<"hook", "db", "after", "emit">>,
          <<"db", "after", "emit">>, <<"after", "emit">>}

Ops == {"create", "update", "delete", "publish", "unpublish"}

Requests == [surface : {"rest", "graphql", "builder", "none"}, op : Ops \cup {"none"},
             todo : Todos, before : Nat, wrote : Nat, hooked : BOOLEAN, alone : BOOLEAN]

TrailRecords == [op : Ops \cup {"none"}, surface : {"rest", "graphql", "builder", "none"},
                 wrote : Nat, alone : BOOLEAN, before : Nat, after : Nat]

\* The write is done and not announced yet.
Told(r) == r.todo \in {<<"emit">>, <<"after", "emit">>}

\* The document is read, if it ever is, and not written.
HasRead(r) == r.todo \in {<<"db", "emit">>, <<"hook", "db", "after", "emit">>, <<"db", "after", "emit">>}

\* A request knows what it wrote until it has told of it, and one that nobody
\* overlapped wrote next after what it read.
SoundAt(r, d) ==
    /\ r.todo = <<"db">> => r.surface = "builder"
    /\ ~Told(r) => r.wrote = 0
    /\ r.todo \notin {<<>>, <<"db">>} => r.surface \in {"rest", "graphql"}
    /\ Told(r) /\ r.wrote = 0 => r.op = "delete"
    /\ r.alone /\ r.op \in {"update", "delete"} =>
           /\ HasRead(r) => r.before = d
           /\ Told(r) => r.before = IF r.wrote = 0 THEN 0 ELSE r.wrote - 1

RequestIsSound(r) == SoundAt(r, document)

WritesTypeOK == /\ document \in Nat
                /\ written \in Nat
                /\ author \in [Authors -> Requests]
                /\ trail \in Seq(TrailRecords)

AloneIsAlone ==
    \A a, b \in Authors : a # b /\ author[a].todo # <<>> /\ author[a].alone => author[b].todo = <<>>

TrailInv == /\ WritesTypeOK
            /\ document \in {0, written}
            /\ \A a \in Authors : RequestIsSound(author[a])
            /\ AloneIsAlone
            /\ EveryWriteIsTold
            /\ DiffIsTheAuthorsOwn
            /\ GhostsAreRestDeletes

\* The steps that may be next, and what they leave.
LEMMA WhatIsLeft ==
    ASSUME NEW t \in Todos, t # <<>>
    PROVE  /\ Head(t) = "get" => /\ t \in {<<"get", "db", "emit">>, <<"get", "hook", "db", "after", "emit">>}
                                 /\ Tail(t) \in {<<"db", "emit">>, <<"hook", "db", "after", "emit">>}
           /\ Head(t) = "hook" => /\ t = <<"hook", "db", "after", "emit">>
                                  /\ Tail(t) = <<"db", "after", "emit">>
           /\ Head(t) = "db" => \/ t = <<"db">> /\ Len(t) = 1
                                \/ t = <<"db", "emit">> /\ Tail(t) = <<"emit">> /\ Len(t) # 1
                                \/ t = <<"db", "after", "emit">> /\ Tail(t) = <<"after", "emit">> /\ Len(t) # 1
           /\ Head(t) = "after" => t = <<"after", "emit">> /\ Tail(t) = <<"emit">>
           /\ Head(t) = "emit" => t = <<"emit">>
<1>1. CASE t = <<"db">>
  <2>1. Head(<<"db">>) = "db"
    OBVIOUS
  <2>2. Tail(<<"db">>) = <<>> /\ Len(<<"db">>) = 1
    OBVIOUS
  <2> QED BY <1>1, <2>1, <2>2
<1>2. CASE t = <<"get", "db", "emit">>
  <2>1. Head(<<"get", "db", "emit">>) = "get"
    OBVIOUS
  <2>2. Tail(<<"get", "db", "emit">>) = <<"db", "emit">> /\ Len(<<"get", "db", "emit">>) = 3
    OBVIOUS
  <2> QED BY <1>2, <2>1, <2>2
<1>3. CASE t = <<"db", "emit">>
  <2>1. Head(<<"db", "emit">>) = "db"
    OBVIOUS
  <2>2. Tail(<<"db", "emit">>) = <<"emit">> /\ Len(<<"db", "emit">>) = 2
    OBVIOUS
  <2> QED BY <1>3, <2>1, <2>2
<1>4. CASE t = <<"emit">>
  <2>1. Head(<<"emit">>) = "emit"
    OBVIOUS
  <2>2. Tail(<<"emit">>) = <<>> /\ Len(<<"emit">>) = 1
    OBVIOUS
  <2> QED BY <1>4, <2>1, <2>2
<1>5. CASE t = <<"get", "hook", "db", "after", "emit">>
  <2>1. Head(<<"get", "hook", "db", "after", "emit">>) = "get"
    OBVIOUS
  <2>2. Tail(<<"get", "hook", "db", "after", "emit">>) = <<"hook", "db", "after", "emit">> /\ Len(<<"get", "hook", "db", "after", "emit">>) = 5
    OBVIOUS
  <2> QED BY <1>5, <2>1, <2>2
<1>6. CASE t = <<"hook", "db", "after", "emit">>
  <2>1. Head(<<"hook", "db", "after", "emit">>) = "hook"
    OBVIOUS
  <2>2. Tail(<<"hook", "db", "after", "emit">>) = <<"db", "after", "emit">> /\ Len(<<"hook", "db", "after", "emit">>) = 4
    OBVIOUS
  <2> QED BY <1>6, <2>1, <2>2
<1>7. CASE t = <<"db", "after", "emit">>
  <2>1. Head(<<"db", "after", "emit">>) = "db"
    OBVIOUS
  <2>2. Tail(<<"db", "after", "emit">>) = <<"after", "emit">> /\ Len(<<"db", "after", "emit">>) = 3
    OBVIOUS
  <2> QED BY <1>7, <2>1, <2>2
<1>8. CASE t = <<"after", "emit">>
  <2>1. Head(<<"after", "emit">>) = "after"
    OBVIOUS
  <2>2. Tail(<<"after", "emit">>) = <<"emit">> /\ Len(<<"after", "emit">>) = 2
    OBVIOUS
  <2> QED BY <1>8, <2>1, <2>2
<1> QED BY <1>1, <1>2, <1>3, <1>4, <1>5, <1>6, <1>7, <1>8 DEF Todos

\* The lists of steps differ where it matters.
LEMMA TodosDiffer ==
    /\ \A t \in {<<"db">>, <<"get", "db", "emit">>, <<"db", "emit">>, <<>>,
                 <<"get", "hook", "db", "after", "emit">>, <<"hook", "db", "after", "emit">>,
                 <<"db", "after", "emit">>} : t \notin {<<"emit">>, <<"after", "emit">>}
    /\ \A t \in {<<"db">>, <<"get", "db", "emit">>, <<>>, <<"get", "hook", "db", "after", "emit">>} :
           t \notin {<<"db", "emit">>, <<"hook", "db", "after", "emit">>, <<"db", "after", "emit">>}
    /\ \A t \in {<<"get", "db", "emit">>, <<"db", "emit">>, <<>>,
                 <<"get", "hook", "db", "after", "emit">>, <<"hook", "db", "after", "emit">>,
                 <<"db", "after", "emit">>, <<"emit">>, <<"after", "emit">>} : t # <<"db">>
    /\ \A t \in {<<"db">>, <<"get", "db", "emit">>, <<"db", "emit">>,
                 <<"get", "hook", "db", "after", "emit">>, <<"hook", "db", "after", "emit">>,
                 <<"db", "after", "emit">>, <<"emit">>, <<"after", "emit">>} : t # <<>>
  OBVIOUS

\* What the request of one author becomes, and that of no other.
LEMMA AuthorGoes ==
    ASSUME WritesTypeOK, NEW a \in Authors, NEW x \in Requests,
           author' = [author EXCEPT ![a] = x]
    PROVE  /\ author' \in [Authors -> Requests]
           /\ author'[a] = x
           /\ \A b \in Authors : b # a => author'[b] = author[b]
  BY DEF WritesTypeOK

\* A request that goes on or ends without a write, and keeps what it has to tell or
\* leaves it untold, leaves the trail as it should be.
LEMMA RequestsMoveOn ==
    ASSUME TrailInv, NEW a \in Authors, NEW x \in Requests,
           author[a].todo # <<>>,
           author' = [author EXCEPT ![a] = x],
           x.todo = <<>> \/ x.alone = author[a].alone,
           RequestIsSound(x),
           author[a].wrote \in {0, x.wrote} \cup untold',
           untold \subseteq untold',
           UNCHANGED <<document, written, trail>>
    PROVE  TrailInv'
<1> USE DEF TrailInv
<1>1. /\ author' \in [Authors -> Requests] /\ author'[a] = x
      /\ \A b \in Authors : b # a => author'[b] = author[b]
  BY AuthorGoes
<1>2. WritesTypeOK' /\ document' \in {0, written'}
  BY <1>1 DEF WritesTypeOK
<1>3. \A b \in Authors : RequestIsSound(author[b])'
  <2>1. \A b \in Authors : RequestIsSound(author'[b])
    BY <1>1
  <2> QED BY <2>1 DEF RequestIsSound, SoundAt
<1>4. AloneIsAlone'
  BY <1>1 DEF AloneIsAlone
<1>5. TrailEntries' = TrailEntries
  BY DEF TrailEntries
<1>6. EveryWriteIsTold'
  <2> SUFFICES ASSUME NEW n \in 1..written,
                      n \notin {e.wrote : e \in TrailEntries}, n \notin untold'
               PROVE  \E b \in Authors : n = author'[b].wrote
    BY <1>5 DEF EveryWriteIsTold
  <2>1. PICK b \in Authors : n = author[b].wrote
    BY DEF EveryWriteIsTold
  <2>2. n # 0
    BY DEF WritesTypeOK
  <2> QED BY <1>1, <2>1, <2>2
<1>7. DiffIsTheAuthorsOwn' /\ GhostsAreRestDeletes'
  BY <1>5 DEF DiffIsTheAuthorsOwn, GhostsAreRestDeletes
<1> QED BY <1>2, <1>3, <1>4, <1>6, <1>7

\* An idle author asks for nothing and has nothing to tell.
LEMMA IdleIsSound == NotAsking \in Requests /\ RequestIsSound(NotAsking) /\ NotAsking.todo = <<>>
<1>1. NotAsking.todo = <<>> /\ NotAsking.wrote = 0 /\ NotAsking.op = "none"
  BY DEF NotAsking, Asking
<1>2. NotAsking \in Requests
  BY DEF NotAsking, Asking, Requests, Todos
<1>3. RequestIsSound(NotAsking)
  BY <1>1, TodosDiffer DEF RequestIsSound, SoundAt, Told, HasRead
<1> QED BY <1>1, <1>2, <1>3

\* Whoever ends leaves untold what it wrote.
LEMMA RequestsEnd ==
    ASSUME TrailInv, NEW a \in Authors, author[a].todo # <<>>, Ends(a), UNCHANGED <<document, written, trail>>
    PROVE  TrailInv'
<1>1. author' = [author EXCEPT ![a] = NotAsking] /\ untold' = untold \cup ({author[a].wrote} \ {0})
  BY DEF Ends
<1> QED BY <1>1, RequestsMoveOn, IdleIsSound

\* A request that takes one step: its list is shorter by that step.
LEMMA StepsAreTaken ==
    ASSUME NEW c \in Requests, Tail(c.todo) \in Todos,
           NEW x, x = [c EXCEPT !.todo = Tail(@)]
    PROVE  /\ x \in Requests /\ x.todo = Tail(c.todo)
           /\ x.before = c.before /\ x.wrote = c.wrote /\ x.hooked = c.hooked
           /\ x.alone = c.alone /\ x.op = c.op /\ x.surface = c.surface
  BY DEF Requests

\* The read before the write.
LEMMA GetStep == ASSUME TrailInv, NEW a \in Authors, Get(a) PROVE TrailInv'
<1> USE DEF TrailInv
<1> DEFINE r == author[a]
<1>1. /\ r \in Requests /\ r.todo \in Todos /\ RequestIsSound(r)
      /\ document \in Nat
  BY DEF WritesTypeOK, Requests
<1>2. /\ r.todo # <<>> /\ Head(r.todo) = "get"
      /\ UNCHANGED <<document, written, trail>>
  BY DEF Get, Doing
<1>3. /\ r.todo \in {<<"get", "db", "emit">>, <<"get", "hook", "db", "after", "emit">>}
      /\ Tail(r.todo) \in {<<"db", "emit">>, <<"hook", "db", "after", "emit">>}
  BY <1>1, <1>2, WhatIsLeft
<1>4. r.wrote = 0
  BY <1>1, <1>3, TodosDiffer DEF RequestIsSound, SoundAt, Told
<1>5. CASE Ends(a)
  BY <1>2, <1>5, RequestsEnd
<1>6. CASE GoesOn(a, [r EXCEPT !.before = document]) /\ UNCHANGED untold
  <2> DEFINE c == [r EXCEPT !.before = document]
             x == [c EXCEPT !.todo = Tail(@)]
  <2>1. /\ c \in Requests /\ c.todo = r.todo /\ c.before = document /\ c.wrote = r.wrote
        /\ c.alone = r.alone /\ c.op = r.op /\ c.surface = r.surface
    BY <1>1 DEF Requests
  <2>2. author' = [author EXCEPT ![a] = x]
    BY <1>6 DEF GoesOn
  <2> HIDE DEF c
  <2>3. Tail(c.todo) \in Todos
    BY <1>3, <2>1 DEF Todos
  <2>4. /\ x \in Requests /\ x.todo = Tail(r.todo) /\ x.before = document /\ x.wrote = 0
        /\ x.alone = r.alone /\ x.surface = r.surface
    BY <1>4, <2>1, <2>3, StepsAreTaken
  <2> HIDE DEF x
  <2>5. RequestIsSound(x)
    BY <1>1, <1>3, <2>4, TodosDiffer DEF RequestIsSound, SoundAt, Told
  <2> QED BY <1>2, <1>4, <1>6, <2>2, <2>4, <2>5, RequestsMoveOn
<1> QED BY <1>5, <1>6 DEF Get

\* A hook before the write goes on or throws.
LEMMA BeforeHookStep == ASSUME TrailInv, NEW a \in Authors, BeforeHook(a) PROVE TrailInv'
<1> USE DEF TrailInv
<1> DEFINE r == author[a]
<1>1. /\ r \in Requests /\ r.todo \in Todos /\ RequestIsSound(r)
  BY DEF WritesTypeOK, Requests
<1>2. /\ r.todo # <<>> /\ Head(r.todo) = "hook"
      /\ UNCHANGED <<document, written, trail>>
  BY DEF BeforeHook, Doing
<1>3. /\ r.todo = <<"hook", "db", "after", "emit">>
      /\ Tail(r.todo) = <<"db", "after", "emit">>
  BY <1>1, <1>2, WhatIsLeft
<1>4. r.wrote = 0 /\ (r.alone /\ r.op \in {"update", "delete"} => r.before = document)
  BY <1>1, <1>3, TodosDiffer DEF RequestIsSound, SoundAt, Told, HasRead
<1>5. CASE Ends(a)
  BY <1>2, <1>5, RequestsEnd
<1>6. CASE GoesOn(a, [r EXCEPT !.hooked = TRUE]) /\ UNCHANGED untold
  <2> DEFINE c == [r EXCEPT !.hooked = TRUE]
             x == [c EXCEPT !.todo = Tail(@)]
  <2>1. /\ c \in Requests /\ c.todo = r.todo /\ c.before = r.before /\ c.wrote = r.wrote
        /\ c.alone = r.alone /\ c.op = r.op /\ c.surface = r.surface
    BY <1>1 DEF Requests
  <2>2. author' = [author EXCEPT ![a] = x]
    BY <1>6 DEF GoesOn
  <2> HIDE DEF c
  <2>3. Tail(c.todo) \in Todos
    BY <1>3, <2>1 DEF Todos
  <2>4. /\ x \in Requests /\ x.todo = Tail(r.todo) /\ x.before = r.before /\ x.wrote = 0
        /\ x.alone = r.alone /\ x.op = r.op /\ x.surface = r.surface
    BY <1>4, <2>1, <2>3, StepsAreTaken
  <2> HIDE DEF x
  <2>5. RequestIsSound(x)
    BY <1>1, <1>3, <1>4, <2>4, TodosDiffer DEF RequestIsSound, SoundAt, Told
  <2> QED BY <1>2, <1>4, <1>6, <2>2, <2>4, <2>5, RequestsMoveOn
<1> QED BY <1>5, <1>6 DEF BeforeHook

\* A hook behind the write goes on or throws; the write stands.
LEMMA AfterHookStep == ASSUME TrailInv, NEW a \in Authors, AfterHook(a) PROVE TrailInv'
<1> USE DEF TrailInv
<1> DEFINE r == author[a]
<1>1. /\ r \in Requests /\ r.todo \in Todos /\ RequestIsSound(r)
  BY DEF WritesTypeOK, Requests
<1>2. /\ r.todo # <<>> /\ Head(r.todo) = "after"
      /\ UNCHANGED <<document, written, trail>>
  BY DEF AfterHook, Doing
<1>3. r.todo = <<"after", "emit">> /\ Tail(r.todo) = <<"emit">>
  BY <1>1, <1>2, WhatIsLeft
<1>4. Told(r)
  BY <1>3 DEF Told
<1>5. CASE Ends(a)
  BY <1>2, <1>5, RequestsEnd
<1>6. CASE GoesOn(a, r) /\ UNCHANGED untold
  <2> DEFINE x == [r EXCEPT !.todo = Tail(@)]
  <2>2. author' = [author EXCEPT ![a] = x]
    BY <1>6 DEF GoesOn
  <2>3. Tail(r.todo) \in Todos
    BY <1>3 DEF Todos
  <2>4. /\ x \in Requests /\ x.todo = <<"emit">> /\ x.before = r.before /\ x.wrote = r.wrote
        /\ x.alone = r.alone /\ x.op = r.op /\ x.surface = r.surface
    BY <1>1, <1>3, <2>3, StepsAreTaken
  <2> HIDE DEF x
  <2>5. RequestIsSound(x)
    BY <1>1, <1>4, <2>4, TodosDiffer DEF RequestIsSound, SoundAt, Told, HasRead
  <2> QED BY <1>2, <1>6, <2>2, <2>4, <2>5, RequestsMoveOn
<1> QED BY <1>5, <1>6 DEF AfterHook

\* A write is the next, and its author is about to tell of it or never will.
LEMMA WriteStep == ASSUME TrailInv, NEW a \in Authors, WriteDocument(a) PROVE TrailInv'
<1> USE DEF TrailInv
<1> DEFINE r == author[a]
<1>1. /\ r \in Requests /\ r.todo \in Todos /\ RequestIsSound(r)
      /\ document \in Nat /\ written \in Nat /\ document \in {0, written}
  BY DEF WritesTypeOK, Requests
<1>2. r.todo # <<>> /\ Head(r.todo) = "db" /\ trail' = trail
  BY DEF WriteDocument, Doing
<1>3. \/ r.todo = <<"db">> /\ Len(r.todo) = 1
      \/ r.todo = <<"db", "emit">> /\ Tail(r.todo) = <<"emit">> /\ Len(r.todo) # 1
      \/ r.todo = <<"db", "after", "emit">> /\ Tail(r.todo) = <<"after", "emit">> /\ Len(r.todo) # 1
  BY <1>1, <1>2, WhatIsLeft
<1>4. r.wrote = 0
  BY <1>1, <1>3, TodosDiffer DEF RequestIsSound, SoundAt, Told
<1>5. Len(r.todo) = 1 => r.surface = "builder"
  BY <1>1, <1>3 DEF RequestIsSound, SoundAt
<1>6. Len(r.todo) # 1 =>
          /\ r.surface \in {"rest", "graphql"}
          /\ r.alone /\ r.op \in {"update", "delete"} => r.before = document
          /\ Tail(r.todo) \in Todos
          /\ Tail(r.todo) \in {<<"emit">>, <<"after", "emit">>}
  BY <1>1, <1>3, TodosDiffer DEF RequestIsSound, SoundAt, HasRead, Todos
<1>7. TrailEntries' = TrailEntries
  BY <1>2 DEF TrailEntries
<1>8. ASSUME NEW x \in Requests, author' = [author EXCEPT ![a] = x],
             written' = written + 1, document' \in {0, written'},
             untold' = untold \cup {written'} \/ (untold' = untold /\ x.wrote = written'),
             x.todo = <<>> \/ x.alone = r.alone, SoundAt(x, document')
      PROVE  TrailInv'
  <2>1. /\ author' \in [Authors -> Requests] /\ author'[a] = x
        /\ \A b \in Authors : b # a => author'[b] = author[b]
    BY <1>8, AuthorGoes
  <2>2. WritesTypeOK'
    BY <1>1, <1>2, <1>8, <2>1 DEF WritesTypeOK
  <2>3. ASSUME NEW b \in Authors PROVE RequestIsSound(author[b])'
    <3>1. CASE b = a
      BY <1>8, <2>1, <3>1 DEF RequestIsSound, SoundAt, Told, HasRead
    <3>2. CASE b # a
      <4>1. author'[b] = author[b] /\ RequestIsSound(author[b])
        BY <2>1, <3>2
      <4>2. author[b].alone => author[b].todo = <<>>
        BY <1>2, <3>2 DEF AloneIsAlone
      <4> QED BY <4>1, <4>2, TodosDiffer DEF RequestIsSound, SoundAt, Told, HasRead
    <3> QED BY <3>1, <3>2
  <2>4. AloneIsAlone'
    BY <1>2, <1>8, <2>1 DEF AloneIsAlone
  <2>5. EveryWriteIsTold'
    <3> SUFFICES ASSUME NEW n \in 1..written',
                        n \notin {e.wrote : e \in TrailEntries}, n \notin untold'
                 PROVE  \E b \in Authors : n = author'[b].wrote
      BY <1>7 DEF EveryWriteIsTold
    <3>1. CASE n = written'
      BY <1>8, <2>1, <3>1
    <3>2. CASE n # written'
      <4>1. n \in 1..written
        BY <1>1, <1>8, <3>2
      <4>2. PICK b \in Authors : n = author[b].wrote
        BY <1>8, <4>1 DEF EveryWriteIsTold
      <4>3. b # a
        BY <1>1, <1>4, <4>1, <4>2
      <4> QED BY <2>1, <4>2, <4>3
    <3> QED BY <3>1, <3>2
  <2>6. DiffIsTheAuthorsOwn' /\ GhostsAreRestDeletes'
    BY <1>7 DEF DiffIsTheAuthorsOwn, GhostsAreRestDeletes
  <2> QED BY <1>8, <2>2, <2>3, <2>4, <2>5, <2>6
<1>9. CASE document # 0 \/ r.op = "create"
  <2>1. written' = written + 1 /\ document' = IF r.op = "delete" THEN 0 ELSE written'
    BY <1>9 DEF WriteDocument
  <2>2. CASE Len(r.todo) = 1
    <3>1. author' = [author EXCEPT ![a] = NotAsking] /\ untold' = untold \cup {n \in {written'} : r.surface = "builder"}
      BY <1>9, <2>2 DEF WriteDocument
    <3>2. untold' = untold \cup {written'}
      BY <1>5, <2>2, <3>1
    <3>3. SoundAt(NotAsking, document')
      BY TodosDiffer DEF NotAsking, Asking, RequestIsSound, SoundAt, Told, HasRead
    <3> QED BY <1>8, <2>1, <3>1, <3>2, <3>3, IdleIsSound
  <2>3. CASE Len(r.todo) # 1
    <3> DEFINE c == [r EXCEPT !.wrote = written']
               x == [c EXCEPT !.todo = Tail(@)]
    <3>1. /\ c \in Requests /\ c.todo = r.todo /\ c.before = r.before /\ c.wrote = written'
          /\ c.alone = r.alone /\ c.op = r.op /\ c.surface = r.surface
      BY <1>1, <2>1 DEF Requests
    <3>2. author' = [author EXCEPT ![a] = x] /\ untold' = untold
      BY <1>9, <2>3 DEF WriteDocument, GoesOn
    <3> HIDE DEF c
    <3>3. /\ x \in Requests /\ x.todo = Tail(r.todo) /\ x.before = r.before /\ x.wrote = written'
          /\ x.alone = r.alone /\ x.op = r.op /\ x.surface = r.surface
      BY <1>6, <2>3, <3>1, StepsAreTaken
    <3> HIDE DEF x
    <3>4. x.todo \in {<<"emit">>, <<"after", "emit">>}
      BY <1>6, <2>3, <3>3
    <3>5. x.alone /\ x.op \in {"update", "delete"} => x.before = written' - 1
      BY <1>1, <1>6, <1>9, <2>1, <2>3, <3>3
    <3>6. x.wrote # 0 /\ x.todo # <<"db">>
      BY <1>1, <2>1, <3>3, <3>4, TodosDiffer
    <3>7. ~HasRead(x)
      BY <3>4 DEF HasRead
    <3>8. SoundAt(x, document')
      BY <1>6, <2>3, <3>3, <3>4, <3>5, <3>6, <3>7 DEF RequestIsSound, SoundAt, Told, HasRead
    <3> QED BY <1>8, <2>1, <3>2, <3>3, <3>8
  <2> QED BY <2>2, <2>3
<1>10. CASE ~(document # 0 \/ r.op = "create")
  <2>1. UNCHANGED <<document, written>>
    BY <1>10 DEF WriteDocument
  <2>2. CASE Ends(a)
    BY <1>2, <2>1, <2>2, RequestsEnd
  <2>3. CASE r.op = "delete" /\ Len(r.todo) # 1 /\ GoesOn(a, r) /\ UNCHANGED untold
    <3> DEFINE x == [r EXCEPT !.todo = Tail(@)]
    <3>1. author' = [author EXCEPT ![a] = x]
      BY <2>3 DEF GoesOn
    <3>2. /\ x \in Requests /\ x.todo = Tail(r.todo) /\ x.before = r.before /\ x.wrote = r.wrote
          /\ x.alone = r.alone /\ x.op = r.op /\ x.surface = r.surface
      BY <1>1, <1>6, <2>3, StepsAreTaken
    <3> HIDE DEF x
    <3>3. x.todo \in {<<"emit">>, <<"after", "emit">>} /\ x.todo # <<"db">>
      BY <1>6, <2>3, <3>2, TodosDiffer
    <3>4. x.alone => x.before = 0
      BY <1>6, <1>10, <2>3, <3>2
    <3>5. RequestIsSound(x)
      BY <1>4, <1>6, <2>3, <3>2, <3>3, <3>4 DEF RequestIsSound, SoundAt, Told, HasRead
    <3> QED BY <1>2, <1>4, <2>1, <2>3, <3>1, <3>2, <3>5, RequestsMoveOn
  <2> QED BY <1>10, <2>2, <2>3 DEF WriteDocument
<1> QED BY <1>9, <1>10

\* What is told is what its author did; a deletion that found nothing is told by REST
\* alone, or where another request was in flight.
LEMMA EmitStep == ASSUME TrailInv, NEW a \in Authors, EmitEvent(a) PROVE TrailInv'
<1> USE DEF TrailInv
<1> DEFINE r == author[a]
           e == Entry(r)
<1>1. r \in Requests /\ r.todo \in Todos /\ RequestIsSound(r) /\ trail \in Seq(TrailRecords)
  BY DEF WritesTypeOK, Requests
<1>2. /\ r.todo # <<>> /\ Head(r.todo) = "emit"
      /\ author' = [author EXCEPT ![a] = NotAsking]
      /\ UNCHANGED <<document, written, asked>>
  BY DEF EmitEvent, Doing
<1>3. r.todo = <<"emit">>
  BY <1>1, <1>2, WhatIsLeft
<1>4. /\ Told(r) /\ r.surface \in {"rest", "graphql"}
      /\ r.wrote = 0 => r.op = "delete"
      /\ r.alone /\ r.op \in {"update", "delete"} => r.before = IF r.wrote = 0 THEN 0 ELSE r.wrote - 1
  BY <1>1, <1>3, TodosDiffer DEF RequestIsSound, SoundAt, Told
<1>5. CASE untold' = untold \cup ({r.wrote} \ {0}) /\ UNCHANGED trail
  BY <1>2, <1>5, RequestsEnd DEF Ends
<1>6. CASE Announces(r) /\ trail' = Append(trail, e) /\ UNCHANGED untold
  <2>1. /\ e \in TrailRecords /\ e.op = r.op /\ e.surface = r.surface /\ e.wrote = r.wrote
        /\ e.alone = r.alone /\ (r.op \in {"update", "delete"} => e.before = r.before)
    <3>1. r.before \in Nat /\ r.wrote \in Nat /\ r.alone \in BOOLEAN
      BY <1>1 DEF Requests
    <3>2. r.op \in Ops \cup {"none"} /\ r.surface \in {"rest", "graphql", "builder", "none"}
      BY <1>1 DEF Requests
    <3> HIDE DEF r
    <3> DEFINE bf == CASE r.op \in {"update", "delete"} -> r.before
                       [] r.op = "unpublish" -> r.wrote
                       [] OTHER -> 0
               af == IF r.op \in {"create", "update", "publish"} THEN r.wrote ELSE 0
    <3>3. bf \in Nat /\ af \in Nat /\ (r.op \in {"update", "delete"} => bf = r.before)
      BY <3>1
    <3> HIDE DEF bf, af
    <3>4. e = [op |-> r.op, surface |-> r.surface, wrote |-> r.wrote, alone |-> r.alone,
               before |-> bf, after |-> af]
      BY DEF Entry, bf, af
    <3> HIDE DEF e
    <3> QED BY <3>1, <3>2, <3>3, <3>4 DEF TrailRecords
  <2> HIDE DEF e
  <2>2. trail' \in Seq(TrailRecords) /\ TrailEntries' = TrailEntries \cup {e}
    <3>1. /\ trail' \in Seq(TrailRecords) /\ DOMAIN trail' = 1..(Len(trail) + 1)
          /\ trail'[Len(trail) + 1] = e /\ \A i \in 1..Len(trail) : trail'[i] = trail[i]
      BY <1>1, <1>6, <2>1
    <3>2. DOMAIN trail = 1..Len(trail) /\ Len(trail) \in Nat
      BY <1>1
    <3>3. DOMAIN trail' = DOMAIN trail \cup {Len(trail) + 1}
      BY <3>1, <3>2
    <3> QED BY <3>1, <3>2, <3>3 DEF TrailEntries
  <2>3. /\ author' \in [Authors -> Requests] /\ author'[a] = NotAsking
        /\ \A b \in Authors : b # a => author'[b] = author[b]
    BY <1>2, AuthorGoes, IdleIsSound
  <2>4. WritesTypeOK' /\ document' \in {0, written'}
    BY <1>2, <2>2, <2>3 DEF WritesTypeOK
  <2>5. \A b \in Authors : RequestIsSound(author[b])'
    <3>1. \A b \in Authors : RequestIsSound(author'[b])
      BY <2>3, IdleIsSound
    <3> QED BY <1>2, <3>1 DEF RequestIsSound
  <2>6. AloneIsAlone'
    BY <2>3, IdleIsSound DEF AloneIsAlone
  <2>7. EveryWriteIsTold'
    <3> SUFFICES ASSUME NEW n \in 1..written,
                        n \notin {g.wrote : g \in TrailEntries'}, n \notin untold
                 PROVE  \E b \in Authors : n = author'[b].wrote
      BY <1>2, <1>6 DEF EveryWriteIsTold
    <3>1. n \notin {g.wrote : g \in TrailEntries} /\ n # r.wrote
      BY <2>1, <2>2
    <3>2. PICK b \in Authors : n = author[b].wrote
      BY <3>1 DEF EveryWriteIsTold
    <3> QED BY <2>3, <3>1, <3>2
  <2>8. DiffIsTheAuthorsOwn'
    <3>1. e.op \in {"update", "delete"} /\ e.wrote # 0 /\ e.alone => e.before = e.wrote - 1
      BY <1>4, <2>1
    <3> QED BY <2>2, <3>1 DEF DiffIsTheAuthorsOwn
  <2>9. GhostsAreRestDeletes'
    <3>1. r.surface = "graphql" /\ r.op = "delete" => r.before # 0
      BY <1>6 DEF Announces
    <3>2. e.wrote = 0 => e.op = "delete" /\ (e.surface = "rest" \/ ~e.alone)
      BY <1>4, <2>1, <3>1
    <3> QED BY <2>2, <3>2 DEF GhostsAreRestDeletes
  <2> QED BY <2>4, <2>5, <2>6, <2>7, <2>8, <2>9
<1> QED BY <1>5, <1>6 DEF EmitEvent

\* What a request begins with.
LEMMA StepsOffered ==
    ASSUME NEW s \in {"rest", "graphql", "builder"}, NEW op \in Ops, op \in Offers(s)
    PROVE  /\ Steps(s, op) \in Todos
           /\ Steps(s, op) \notin {<<"emit">>, <<"after", "emit">>}
           /\ op \in {"update", "delete"} =>
                  Steps(s, op) \notin {<<"db", "emit">>, <<"hook", "db", "after", "emit">>,
                                       <<"db", "after", "emit">>}
           /\ Steps(s, op) = <<"db">> => s = "builder"
           /\ s = "builder" => Steps(s, op) = <<"db">>
<1>1. CASE s = "builder"
  <2>1. Steps(s, op) = <<"db">>
    BY <1>1 DEF Steps, BuilderSteps
  <2> QED BY <1>1, <2>1, TodosDiffer DEF Todos
<1>2. CASE s = "rest"
  <2>1. Steps(s, op) = IF op = "create" THEN <<"db", "emit">> ELSE <<"get", "db", "emit">>
    BY <1>2 DEF Steps, RestSteps
  <2> QED BY <1>2, <2>1, TodosDiffer DEF Todos
<1>3. CASE s = "graphql"
  <2>1. Steps(s, op) = GraphqlSteps(op)
    BY <1>3 DEF Steps
  <2>2. /\ op = "create" => GraphqlSteps(op) = <<"hook", "db", "after", "emit">>
        /\ op \in {"update", "delete"} => GraphqlSteps(op) = <<"get", "hook", "db", "after", "emit">>
        /\ op \in {"publish", "unpublish"} => GraphqlSteps(op) = <<"db", "emit">>
    BY DEF GraphqlSteps
  <2> QED BY <1>3, <2>1, <2>2, TodosDiffer DEF Todos, Ops
<1> QED BY <1>1, <1>2, <1>3

\* A request begins, and those under way are no longer alone.
LEMMA BeginStep == ASSUME TrailInv, NEW a \in Authors, Begin(a) PROVE TrailInv'
<1> USE DEF TrailInv
<1>1. PICK s \in Surfaces, op \in Ops :
          /\ op \in Offers(s)
          /\ author' = [b \in Authors |->
                IF b = a THEN [Asking(s, op, Steps(s, op)) EXCEPT !.alone = Busy = {}]
                ELSE [author[b] EXCEPT !.alone = FALSE]]
  BY DEF Begin, Ops
<1>2. s \in {"rest", "graphql", "builder"}
  BY ContentWritesAssumption
<1> DEFINE x == [Asking(s, op, Steps(s, op)) EXCEPT !.alone = Busy = {}]
<1>3. /\ x.todo = Steps(s, op) /\ x.surface = s /\ x.op = op /\ x.wrote = 0 /\ x.before = 0
      /\ x \in Requests
      /\ x.alone => Busy = {}
  <2>1. Steps(s, op) \in Todos
    BY <1>1, <1>2, StepsOffered
  <2>2. PICK q \in BOOLEAN : (Busy = {}) = q
    OBVIOUS
  <2>3. x = [Asking(s, op, Steps(s, op)) EXCEPT !.alone = q]
    BY <2>2
  <2> HIDE DEF x
  <2> DEFINE k == Asking(s, op, Steps(s, op))
  <2>4. /\ k.todo = Steps(s, op) /\ k.surface = s /\ k.op = op /\ k.wrote = 0 /\ k.before = 0
        /\ k \in Requests
    BY <1>2, <2>1 DEF Asking, Requests
  <2> HIDE DEF k
  <2>5. /\ x.todo = Steps(s, op) /\ x.surface = s /\ x.op = op /\ x.wrote = 0 /\ x.before = 0
        /\ x \in Requests /\ x.alone = q
    BY <2>3, <2>4 DEF Requests, k
  <2> QED BY <2>2, <2>5
<1> HIDE DEF x
<1>4. author'[a] = x /\ author[a].todo = <<>>
  BY <1>1 DEF x, Begin
<1>5. ASSUME NEW b \in Authors, b # a
      PROVE  /\ author'[b] \in Requests
             /\ author'[b].todo = author[b].todo /\ author'[b].wrote = author[b].wrote
             /\ author'[b].surface = author[b].surface /\ author'[b].op = author[b].op
             /\ author'[b].alone = FALSE
  <2>1. author'[b] = [author[b] EXCEPT !.alone = FALSE] /\ author[b] \in Requests
    BY <1>1, <1>5 DEF WritesTypeOK
  <2> QED BY <2>1 DEF Requests
<1>6. UNCHANGED <<document, written, trail, untold>>
  BY DEF Begin
<1>7. WritesTypeOK' /\ document' \in {0, written'}
  <2>1. author' = [b \in Authors |-> author'[b]]
    BY <1>1
  <2>2. \A b \in Authors : author'[b] \in Requests
    BY <1>3, <1>4, <1>5
  <2>3. author' \in [Authors -> Requests]
    BY <2>1, <2>2
  <2> QED BY <1>6, <2>3 DEF WritesTypeOK
<1>8. ASSUME NEW b \in Authors PROVE RequestIsSound(author[b])'
  <2>1. CASE b = a
    <3>1. ~Told(x) /\ (x.op \in {"update", "delete"} => ~HasRead(x))
      BY <1>1, <1>2, <1>3, StepsOffered DEF Told, HasRead
    <3>2. x.todo \notin {<<>>, <<"db">>} => x.surface \in {"rest", "graphql"}
      BY <1>1, <1>2, <1>3, StepsOffered
    <3>3. x.todo = <<"db">> => x.surface = "builder"
      BY <1>1, <1>2, <1>3, StepsOffered
    <3>4. SoundAt(x, document)
      BY <1>3, <3>1, <3>2, <3>3 DEF SoundAt
    <3> QED BY <1>4, <1>6, <2>1, <3>4 DEF RequestIsSound
  <2>2. CASE b # a
    BY <1>5, <1>6, <2>2 DEF RequestIsSound, SoundAt, Told
  <2> QED BY <2>1, <2>2
<1>9. AloneIsAlone'
  <2> SUFFICES ASSUME NEW b \in Authors, NEW c \in Authors, b # c, author'[b].alone
               PROVE  author'[c].todo = <<>>
    BY DEF AloneIsAlone
  <2>1. b = a
    BY <1>5
  <2>2. Busy = {}
    BY <1>3, <1>4, <2>1
  <2>3. author[c].todo = <<>>
    BY <2>2 DEF Busy
  <2> QED BY <1>5, <2>1, <2>3
<1>10. TrailEntries' = TrailEntries
  BY <1>6 DEF TrailEntries
<1>11. EveryWriteIsTold'
  <2> SUFFICES ASSUME NEW n \in 1..written,
                      n \notin {g.wrote : g \in TrailEntries}, n \notin untold
               PROVE  \E b \in Authors : n = author'[b].wrote
    BY <1>6, <1>10 DEF EveryWriteIsTold
  <2>1. PICK b \in Authors : n = author[b].wrote
    BY DEF EveryWriteIsTold
  <2>2. n # 0
    BY DEF WritesTypeOK
  <2>3. author[a].wrote = 0
    BY <1>4, TodosDiffer DEF RequestIsSound, SoundAt, Told
  <2> QED BY <1>5, <2>1, <2>2, <2>3
<1>12. DiffIsTheAuthorsOwn' /\ GhostsAreRestDeletes'
  BY <1>10 DEF DiffIsTheAuthorsOwn, GhostsAreRestDeletes
<1> QED BY <1>7, <1>8, <1>9, <1>11, <1>12

\* Nothing is written at first, and nothing to tell.
LEMMA WritesStart == ContentWritesInit => TrailInv
<1> SUFFICES ASSUME ContentWritesInit PROVE TrailInv
  OBVIOUS
<1>1. /\ document = 0 /\ written = 0 /\ trail = <<>> /\ untold = {}
      /\ author = [a \in Authors |-> NotAsking]
  BY DEF ContentWritesInit
<1>2. WritesTypeOK
  BY <1>1, IdleIsSound DEF WritesTypeOK
<1>3. \A a \in Authors : author[a] = NotAsking
  BY <1>1
<1>4. TrailEntries = {}
  BY <1>1 DEF TrailEntries
<1> QED BY <1>1, <1>2, <1>3, <1>4, IdleIsSound
        DEF TrailInv, AloneIsAlone, EveryWriteIsTold, DiffIsTheAuthorsOwn, GhostsAreRestDeletes

\* No step of a request spoils the trail.
LEMMA WritesStep == TrailInv /\ [ContentWritesNext]_writesVars => TrailInv'
<1> SUFFICES ASSUME TrailInv, [ContentWritesNext]_writesVars PROVE TrailInv'
  OBVIOUS
<1>1. CASE UNCHANGED writesVars
  BY <1>1 DEF writesVars, TrailInv, WritesTypeOK, RequestIsSound, AloneIsAlone,
              EveryWriteIsTold, DiffIsTheAuthorsOwn, GhostsAreRestDeletes, TrailEntries
<1>2. ASSUME NEW a \in Authors, Dies(a) PROVE TrailInv'
  BY <1>2, RequestsEnd DEF Dies
<1> QED BY <1>1, <1>2, BeginStep, GetStep, BeforeHookStep, WriteStep, AfterHookStep, EmitStep
        DEF ContentWritesNext

\* For any number of requests in flight: the audit log tells all of the writes, but for
\* those of the builder and of requests that broke off, each as its author made it.
THEOREM TrailStaysTrue == ContentWritesSpec => []TrailIsTrue
<1>1. TrailInv => TrailIsTrue
  BY DEF TrailInv, TrailIsTrue
<1> QED BY <1>1, WritesStart, WritesStep, PTL DEF ContentWritesSpec

-----------------------------------------------------------------------------
(* AdminContent: the list and the editor. *)

Lists == [Records -> [text : Int, status : {"draft", "published", "gone"}]]

Mutations == [n : Nat, kind : {"save", "publish", "delete"}, id : Records, text : Int,
              at : {"out", "done"}, alone : BOOLEAN]

Editors == [id : Records \cup {NoRecord}, touched : BOOLEAN, typed : Int, timer : Int,
            save : Nat, publish : Nat]

Bulks == [action : {"delete", "publish"}, ids : SUBSET Records, left : SUBSET Nat, before : Lists]

AdminTypeOK ==
    /\ server \in Lists /\ shown \in Lists
    /\ reading \in {NotReading, Asked} \cup [at : {"answered"}, rows : Lists]
    /\ editor \in Editors
    /\ editor.timer # 0 => editor.id # NoRecord
    /\ dirty \in [Records -> BOOLEAN]
    /\ tangled \in [Records -> BOOLEAN]
    /\ latest \in [Records -> Int]
    /\ mutations \in SUBSET Mutations
    /\ bulk = NoBulk \/ bulk \in Bulks
    /\ sent \in Nat /\ edits \in Nat /\ unseen \in BOOLEAN

\* A save that nothing overlaps is the only one of its record, and the server keeps
\* what it took of it.
AloneSavesLast ==
    \A r \in mutations : r.kind = "save" /\ r.alone =>
        /\ Saves(r.id) = {r}
        /\ r.at = "done" /\ Exists(server, r.id) => server[r.id].text = r.text

\* What a bulk action waits for is under way, and is none of the editor's.
BulkIsOut ==
    /\ \A n \in bulk.left : n <= sent /\ \E r \in mutations : r.n = n
    /\ \A r \in mutations : r.n <= sent /\ (r.n \in bulk.left => r.text = -1)

AnswerComes == \E r \in mutations : r.at = "done"

\* A list that is not the server's is about to be fetched.
FetchComes ==
    \/ unseen
    \/ reading = Asked
    \/ bulk.left # {}
    \/ AnswerComes
    \/ reading = NotReading /\ shown = server
    \/ reading.at = "answered" /\ reading.rows = server

AdminInv == /\ AdminTypeOK
            /\ DirtyUntilSaved
            /\ AloneSavesLast
            /\ BulkIsOut
            /\ FetchComes

\* Records of the page, and the two ways in which no list is on its way.
LEMMA Constants ==
    /\ NoBulk.left = {} /\ NotReading.at = "idle" /\ Asked.at = "asked"
    /\ Closed \in Editors /\ Closed.timer = 0 /\ Gone.status = "gone"
    /\ Gone \in [text : Int, status : {"draft", "published", "gone"}]
    /\ \A x \in Bulks : x # NoBulk
    /\ \A x \in [at : {"answered"}, rows : Lists] : x # Asked /\ x # NotReading
<1>1. NoBulk.left = {} /\ NoBulk.action = "none" /\ NotReading.at = "idle" /\ Asked.at = "asked"
  BY DEF NoBulk, NotReading, Asked
<1>2. Closed \in Editors /\ Closed.timer = 0
  BY DEF Closed, Editors
<1>3. Gone.status = "gone" /\ Gone \in [text : Int, status : {"draft", "published", "gone"}]
  BY DEF Gone
<1>4. \A x \in Bulks : x # NoBulk
  BY <1>1 DEF Bulks
<1>5. \A x \in [at : {"answered"}, rows : Lists] : x # Asked /\ x # NotReading
  BY <1>1
<1> QED BY <1>1, <1>2, <1>3, <1>4, <1>5

\* A request of the editor is sent: the new one has a number of its own, and the saves
\* it overlaps are no longer alone.
LEMMA SendStep ==
    ASSUME AdminInv, NEW kind \in {"save", "publish"}, NEW i \in Records, NEW text \in Int,
           Send(kind, i, text), UNCHANGED <<server, bulk>>
    PROVE  /\ mutations' \in SUBSET Mutations /\ sent' \in Nat
           /\ AloneSavesLast' /\ BulkIsOut'
           /\ AnswerComes => AnswerComes'
<1> USE DEF AdminInv
<1> DEFINE m == Mutation(sent + 1, kind, i, text)
           g(r) == IF r \in Saves(i) THEN [r EXCEPT !.alone = FALSE] ELSE r
<1>1. /\ mutations \in SUBSET Mutations /\ sent \in Nat
      /\ sent' = sent + 1
      /\ mutations' = {m} \cup {g(r) : r \in mutations}
  BY DEF Send, AdminTypeOK
<1>2. /\ m \in Mutations /\ m.n = sent + 1 /\ m.kind = kind /\ m.id = i /\ m.at = "out"
      /\ m.alone => Saves(i) = {}
  <2>1. PICK q \in BOOLEAN : (Saves(i) = {}) = q
    OBVIOUS
  <2>2. m = [n |-> sent + 1, kind |-> kind, id |-> i, text |-> text, at |-> "out", alone |-> q]
    BY <2>1 DEF Mutation
  <2> HIDE DEF m
  <2> QED BY <1>1, <2>1, <2>2 DEF Mutations
<1>3. ASSUME NEW r \in mutations
      PROVE  /\ g(r) \in Mutations /\ g(r).n = r.n /\ g(r).kind = r.kind /\ g(r).id = r.id
             /\ g(r).text = r.text /\ g(r).at = r.at
             /\ g(r).alone => r \notin Saves(i) /\ g(r) = r
  <2>1. r \in Mutations
    BY <1>1
  <2>2. CASE r \in Saves(i)
    <3>1. g(r) = [r EXCEPT !.alone = FALSE]
      BY <2>2
    <3> HIDE DEF g
    <3> QED BY <2>1, <3>1 DEF Mutations
  <2>3. CASE r \notin Saves(i)
    BY <2>1, <2>3
  <2> QED BY <2>2, <2>3
<1> HIDE DEF m, g
<1>4. mutations' \in SUBSET Mutations /\ sent' \in Nat
  BY <1>1, <1>2, <1>3
<1>5. AnswerComes => AnswerComes'
  BY <1>1, <1>3 DEF AnswerComes
<1>6. BulkIsOut'
  <2>1. \A n \in bulk.left : n <= sent' /\ \E r \in mutations' : r.n = n
    <3> SUFFICES ASSUME NEW n \in bulk.left PROVE n <= sent' /\ \E r \in mutations' : r.n = n
      OBVIOUS
    <3>1. PICK r \in mutations : r.n = n /\ n <= sent
      BY DEF BulkIsOut
    <3>2. g(r) \in mutations' /\ g(r).n = n /\ n \in Nat
      BY <1>1, <1>3, <3>1 DEF Mutations
    <3> QED BY <1>1, <3>1, <3>2
  <2>2. \A r \in mutations' : r.n <= sent' /\ (r.n \in bulk.left => r.text = -1)
    <3> SUFFICES ASSUME NEW s \in mutations' PROVE s.n <= sent' /\ (s.n \in bulk.left => s.text = -1)
      OBVIOUS
    <3>1. CASE s = m
      <4>1. s.n = sent + 1
        BY <1>2, <3>1
      <4>2. s.n \notin bulk.left
        BY <1>1, <4>1 DEF BulkIsOut
      <4> QED BY <1>1, <4>1, <4>2
    <3>2. ASSUME NEW r \in mutations, s = g(r) PROVE s.n <= sent' /\ (s.n \in bulk.left => s.text = -1)
      <4>1. r.n <= sent /\ (r.n \in bulk.left => r.text = -1) /\ r.n \in Nat
        BY <1>1 DEF BulkIsOut, Mutations
      <4> QED BY <1>1, <1>3, <3>2, <4>1
    <3> QED BY <1>1, <3>1, <3>2
  <2> QED BY <2>1, <2>2 DEF BulkIsOut
<1>7. AloneSavesLast'
  <2> SUFFICES ASSUME NEW s \in mutations', s.kind = "save", s.alone
               PROVE  /\ {q \in mutations' : q.kind = "save" /\ q.id = s.id} = {s}
                      /\ s.at = "done" /\ Exists(server, s.id) => server[s.id].text = s.text
    BY DEF AloneSavesLast, Saves, Exists
  <2>1. CASE s = m
    <3>1. Saves(i) = {} /\ s.id = i
      BY <1>2, <2>1
    <3>2. \A r \in mutations : g(r).kind = "save" => g(r).id # i
      BY <1>3, <3>1 DEF Saves
    <3> QED BY <1>1, <1>2, <2>1, <3>1, <3>2
  <2>2. ASSUME NEW r \in mutations, s = g(r)
        PROVE  /\ {q \in mutations' : q.kind = "save" /\ q.id = s.id} = {s}
               /\ s.at = "done" /\ Exists(server, s.id) => server[s.id].text = s.text
    <3>1. s = r /\ r \notin Saves(i) /\ r.kind = "save" /\ r.id # i
      BY <1>3, <2>2 DEF Saves
    <3>2. /\ Saves(r.id) = {r}
          /\ r.at = "done" /\ Exists(server, r.id) => server[r.id].text = r.text
      BY <3>1 DEF AloneSavesLast
    <3>3. ASSUME NEW q \in mutations', q.kind = "save", q.id = s.id PROVE q = s
      <4>1. q # m
        BY <1>2, <3>1, <3>3
      <4>2. PICK p \in mutations : q = g(p)
        BY <1>1, <4>1
      <4>3. p \in Saves(r.id)
        BY <1>3, <3>1, <3>3, <4>2 DEF Saves
      <4> QED BY <2>2, <3>2, <4>2, <4>3
    <3> QED BY <3>1, <3>2, <3>3
  <2> QED BY <1>1, <2>1, <2>2
<1> QED BY <1>1, <1>4, <1>5, <1>6, <1>7

\* The records of the editor's request: a form keeps its type.
LEMMA FormsKeepTypes ==
    ASSUME AdminTypeOK, NEW list \in Lists
    PROVE  FormOf(list) \in Editors /\ (FormOf(list).timer # 0 => FormOf(list).id # NoRecord)
<1>1. editor \in Editors /\ (editor.timer # 0 => editor.id # NoRecord)
  BY DEF AdminTypeOK
<1>2. CASE editor.id # NoRecord /\ Exists(list, editor.id) /\ ~editor.touched
  <2>1. FormOf(list) = [editor EXCEPT !.typed = list[editor.id].text]
    BY <1>2 DEF FormOf
  <2>2. editor.id \in Records /\ list[editor.id].text \in Int
    BY <1>1, <1>2 DEF Editors, Lists
  <2> QED BY <1>1, <2>1, <2>2 DEF Editors
<1>3. CASE ~(editor.id # NoRecord /\ Exists(list, editor.id) /\ ~editor.touched)
  <2>1. FormOf(list) \in {editor, Closed}
    BY <1>3 DEF FormOf
  <2> QED BY <1>1, <2>1, Constants
<1> QED BY <1>2, <1>3

\* An action that leaves the server, the list and its fetch alone, and the requests,
\* or sends one.
LEMMA EditorStep ==
    ASSUME AdminInv,
           UNCHANGED <<server, shown, reading, bulk, unseen>>,
           \/ UNCHANGED <<mutations, sent>>
           \/ \E kind \in {"save", "publish"}, i \in Records, text \in Int : Send(kind, i, text),
           editor' \in Editors, editor'.timer # 0 => editor'.id # NoRecord,
           dirty' \in [Records -> BOOLEAN], tangled' \in [Records -> BOOLEAN],
           latest' \in [Records -> Int], edits' \in Nat,
           \A i \in Records : ~dirty'[i] /\ ~tangled'[i] =>
               ~dirty[i] /\ ~tangled[i] /\ latest'[i] = latest[i]
    PROVE  AdminInv'
<1> USE DEF AdminInv
<1>1. /\ mutations' \in SUBSET Mutations /\ sent' \in Nat
      /\ AloneSavesLast' /\ BulkIsOut'
      /\ AnswerComes => AnswerComes'
  <2>1. CASE UNCHANGED <<mutations, sent>>
    <3>1. mutations' \in SUBSET Mutations /\ sent' \in Nat
      BY <2>1 DEF AdminTypeOK
    <3>2. AloneSavesLast'
      BY <2>1 DEF AloneSavesLast, Saves, Exists
    <3>3. BulkIsOut' /\ (AnswerComes => AnswerComes')
      BY <2>1 DEF BulkIsOut, AnswerComes
    <3> QED BY <3>1, <3>2, <3>3
  <2>2. CASE \E kind \in {"save", "publish"}, i \in Records, text \in Int : Send(kind, i, text)
    BY <2>2, SendStep
  <2> QED BY <2>1, <2>2
<1>2. AdminTypeOK'
  BY <1>1 DEF AdminTypeOK
<1>3. DirtyUntilSaved'
  BY DEF DirtyUntilSaved, Exists
<1>4. FetchComes'
  BY <1>1 DEF FetchComes
<1> QED BY <1>1, <1>2, <1>3, <1>4

\* The form's own actions.
LEMMA EditorKeeps ==
    ASSUME AdminInv,
           \/ \E i \in Records : OpenRecord(i)
           \/ Type \/ Autosave \/ Save \/ Publish \/ Back
    PROVE  AdminInv'
<1> USE DEF AdminInv
<1>1. /\ editor \in Editors /\ (editor.timer # 0 => editor.id # NoRecord)
      /\ dirty \in [Records -> BOOLEAN] /\ tangled \in [Records -> BOOLEAN]
      /\ latest \in [Records -> Int] /\ edits \in Nat /\ sent \in Nat /\ shown \in Lists
  BY DEF AdminTypeOK
<1>2. ASSUME NEW i \in Records, OpenRecord(i) PROVE AdminInv'
  <2>1. /\ editor' = [Closed EXCEPT !.id = i, !.typed = shown[i].text]
        /\ UNCHANGED <<server, shown, reading, dirty, mutations, sent, bulk,
                       edits, latest, tangled, unseen>>
    BY <1>2 DEF OpenRecord
  <2>2. shown[i].text \in Int /\ i # NoRecord
    BY <1>1, AdminContentAssumption DEF Lists
  <2>3. editor' \in Editors /\ editor'.id = i
    BY <2>1, <2>2, Constants DEF Editors
  <2> QED BY <1>1, <2>1, <2>2, <2>3, EditorStep
<1>3. CASE Type
  <2>1. /\ editor.id # NoRecord /\ edits' = edits + 1
        /\ editor' = [editor EXCEPT !.touched = TRUE, !.typed = edits + 1, !.timer = edits + 1]
        /\ dirty' = [dirty EXCEPT ![editor.id] = TRUE]
        /\ latest' = [latest EXCEPT ![editor.id] = edits + 1]
        /\ UNCHANGED <<server, shown, reading, mutations, sent, bulk, tangled, unseen>>
    BY <1>3 DEF Type
  <2>2. editor' \in Editors /\ editor'.id = editor.id
    <3>1. editor' = [id |-> editor.id, touched |-> TRUE, typed |-> edits + 1, timer |-> edits + 1,
                     save |-> editor.save, publish |-> editor.publish]
      BY <1>1, <2>1 DEF Editors
    <3>2. editor.id \in Records \cup {NoRecord} /\ editor.save \in Nat /\ editor.publish \in Nat
      BY <1>1 DEF Editors
    <3> QED BY <1>1, <3>1, <3>2 DEF Editors
  <2>3. editor.id \in Records
    BY <1>1, <2>1 DEF Editors
  <2>4. dirty' \in [Records -> BOOLEAN] /\ latest' \in [Records -> Int] /\ edits' \in Nat
    BY <1>1, <2>1, <2>3
  <2>5. \A i \in Records : ~dirty'[i] => ~dirty[i] /\ latest'[i] = latest[i]
    BY <1>1, <2>1, <2>3
  <2> QED BY <1>1, <2>1, <2>2, <2>4, <2>5, EditorStep
<1>4. ASSUME editor.id # NoRecord, NEW text \in Int, Send("save", editor.id, text),
             editor' \in Editors, editor'.id = editor.id,
             Overlaps(editor.id),
             UNCHANGED <<server, shown, reading, dirty, bulk, edits, latest, unseen>>
      PROVE  AdminInv'
  <2>1. editor.id \in Records
    BY <1>1, <1>4 DEF Editors
  <2>2. PICK q \in BOOLEAN : q = (tangled[editor.id] \/ Saves(editor.id) # {})
    OBVIOUS
  <2>3. tangled' = [tangled EXCEPT ![editor.id] = q]
    BY <1>4, <2>2 DEF Overlaps
  <2>4. tangled' \in [Records -> BOOLEAN]
    BY <1>1, <2>3
  <2>5. \A i \in Records : ~tangled'[i] => ~tangled[i]
    BY <1>1, <2>1, <2>2, <2>3
  <2>6. \E kind \in {"save", "publish"}, i \in Records, t \in Int : Send(kind, i, t)
    BY <1>4, <2>1
  <2> QED BY <1>1, <1>4, <2>4, <2>5, <2>6, EditorStep
<1>5. CASE Autosave
  <2>1. /\ editor.timer # 0 /\ Send("save", editor.id, editor.timer)
        /\ editor' = [editor EXCEPT !.timer = 0, !.save = sent + 1]
        /\ Overlaps(editor.id)
        /\ UNCHANGED <<server, shown, reading, dirty, bulk, edits, latest, unseen>>
    BY <1>5 DEF Autosave
  <2>2. editor' \in Editors /\ editor'.id = editor.id /\ editor.timer \in Int
    <3>1. editor' = [id |-> editor.id, touched |-> editor.touched, typed |-> editor.typed, timer |-> 0,
                     save |-> sent + 1, publish |-> editor.publish]
      BY <1>1, <2>1 DEF Editors
    <3>2. /\ editor.id \in Records \cup {NoRecord} /\ editor.publish \in Nat
          /\ editor.typed \in Int /\ editor.timer \in Int /\ editor.touched \in BOOLEAN
      BY <1>1 DEF Editors
    <3> QED BY <1>1, <3>1, <3>2 DEF Editors
  <2> QED BY <1>1, <1>4, <2>1, <2>2
<1>6. CASE Save
  <2>1. /\ editor.id # NoRecord /\ Send("save", editor.id, editor.typed)
        /\ editor' = [editor EXCEPT !.save = sent + 1]
        /\ Overlaps(editor.id)
        /\ UNCHANGED <<server, shown, reading, dirty, bulk, edits, latest, unseen>>
    BY <1>6 DEF Save
  <2>2. editor' \in Editors /\ editor'.id = editor.id /\ editor.typed \in Int
    BY <1>1, <2>1 DEF Editors
  <2> QED BY <1>4, <2>1, <2>2
<1>7. CASE Publish
  <2>1. /\ editor.id # NoRecord /\ Send("publish", editor.id, 0)
        /\ editor' = [editor EXCEPT !.publish = sent + 1]
        /\ UNCHANGED <<server, shown, reading, dirty, bulk, edits, latest, tangled, unseen>>
    BY <1>7 DEF Publish
  <2>2. editor' \in Editors /\ editor'.id = editor.id /\ editor.id \in Records
    BY <1>1, <2>1 DEF Editors
  <2>3. \E kind \in {"save", "publish"}, i \in Records, t \in Int : Send(kind, i, t)
    BY <2>1, <2>2
  <2> QED BY <1>1, <2>1, <2>2, <2>3, EditorStep
<1>8. CASE Back
  <2>1. /\ editor' = Closed
        /\ UNCHANGED <<server, shown, reading, dirty, mutations, sent, bulk, edits, latest, tangled, unseen>>
    BY <1>8 DEF Back
  <2> QED BY <1>1, <2>1, Constants, EditorStep
<1> QED BY <1>2, <1>3, <1>5, <1>6, <1>7, <1>8

\* What the server makes of a request.
LEMMA EffectsAreRecords ==
    ASSUME AdminTypeOK, NEW r \in mutations, Exists(server, r.id) \/ r.kind = "delete"
    PROVE  /\ Effect(r) \in [text : Int, status : {"draft", "published", "gone"}]
           /\ r.kind = "save" => Effect(r).text = r.text
           /\ r.kind = "publish" => Effect(r).text = server[r.id].text
           /\ r.kind = "delete" => Effect(r).status = "gone"
<1>1. r \in Mutations /\ server[r.id] \in [text : Int, status : {"draft", "published", "gone"}]
  <2>1. r \in Mutations /\ server \in Lists
    BY DEF AdminTypeOK
  <2>2. r.id \in Records
    BY <2>1 DEF Mutations
  <2> QED BY <2>1, <2>2 DEF Lists
<1>2. r.kind \in {"save", "publish", "delete"} /\ r.text \in Int
  BY <1>1 DEF Mutations
<1>3. CASE r.kind = "save"
  <2>1. Effect(r) = [server[r.id] EXCEPT !.text = r.text]
    BY <1>3 DEF Effect
  <2> QED BY <1>1, <1>2, <1>3, <2>1
<1>4. CASE r.kind = "publish"
  <2>1. Effect(r) = [server[r.id] EXCEPT !.status = "published"]
    BY <1>4 DEF Effect
  <2> QED BY <1>1, <1>4, <2>1
<1>5. CASE r.kind = "delete"
  <2>1. Effect(r) = Gone
    BY <1>5 DEF Effect
  <2> QED BY <1>5, <2>1, Constants
<1> QED BY <1>2, <1>3, <1>4, <1>5

\* The server takes a request.
LEMMA LandsStep == ASSUME AdminInv, NEW r \in mutations, Lands(r) PROVE AdminInv'
<1> USE DEF AdminInv
<1> DEFINE d == [r EXCEPT !.at = "done"]
           i == r.id
<1>1. /\ r.at = "out"
      /\ Exists(server, i) \/ r.kind = "delete"
      /\ server' = [server EXCEPT ![i] = Effect(r)]
      /\ latest' = IF r.kind = "save" /\ ~dirty[i] /\ ~tangled[i]
                   THEN [latest EXCEPT ![i] = r.text] ELSE latest
      /\ UNCHANGED <<shown, reading, editor, dirty, sent, bulk, edits, tangled>>
  BY DEF Lands
<1>2. \/ /\ Abandoned(r) /\ mutations' = mutations \ {r} /\ unseen' = (unseen \/ reading.at # "asked")
      \/ /\ ~Abandoned(r) /\ mutations' = (mutations \ {r}) \cup {d} /\ unseen' = unseen
  BY DEF Lands
<1>3. /\ server \in Lists /\ shown \in Lists /\ latest \in [Records -> Int] /\ mutations \in SUBSET Mutations
      /\ r \in Mutations /\ i \in Records /\ r.text \in Int /\ r.kind \in {"save", "publish", "delete"}
      /\ unseen \in BOOLEAN
  <2>1. /\ server \in Lists /\ shown \in Lists /\ latest \in [Records -> Int] /\ mutations \in SUBSET Mutations
        /\ unseen \in BOOLEAN
    BY DEF AdminTypeOK
  <2> QED BY <2>1 DEF Mutations
<1>4. /\ d \in Mutations /\ d.n = r.n /\ d.kind = r.kind /\ d.id = i /\ d.text = r.text
      /\ d.at = "done" /\ d.alone = r.alone
  BY <1>3 DEF Mutations
<1>5. /\ Effect(r) \in [text : Int, status : {"draft", "published", "gone"}]
      /\ r.kind = "save" => Effect(r).text = r.text
      /\ r.kind = "publish" => Effect(r).text = server[i].text /\ Exists(server, i)
      /\ r.kind = "delete" => Effect(r).status = "gone"
  BY <1>1, EffectsAreRecords
<1> HIDE DEF d
<1>6. /\ server' \in Lists /\ server'[i] = Effect(r)
      /\ \A j \in Records : j # i => server'[j] = server[j]
  BY <1>1, <1>3, <1>5 DEF Lists
<1>7. mutations' \subseteq (mutations \ {r}) \cup {d} /\ mutations' \in SUBSET Mutations
  BY <1>2, <1>3, <1>4
<1>8. latest' \in [Records -> Int] /\ unseen' \in BOOLEAN
  <2>1. latest' \in [Records -> Int]
    BY <1>1, <1>3
  <2>2. unseen' \in BOOLEAN
    BY <1>2, <1>3
  <2> QED BY <2>1, <2>2
<1>9. AdminTypeOK'
  BY <1>1, <1>6, <1>7, <1>8 DEF AdminTypeOK
<1>10. DirtyUntilSaved'
  <2> SUFFICES ASSUME NEW j \in Records, ~dirty[j], ~tangled[j], server'[j].status # "gone"
               PROVE  server'[j].text = latest'[j]
    BY <1>1 DEF DirtyUntilSaved, Exists
  <2>1. CASE j # i
    <3>1. latest'[j] = latest[j] /\ server'[j] = server[j]
      BY <1>1, <1>3, <1>6, <2>1
    <3> QED BY <3>1 DEF DirtyUntilSaved, Exists
  <2>2. CASE j = i /\ r.kind = "save"
    BY <1>1, <1>3, <1>5, <1>6, <2>2
  <2>3. CASE j = i /\ r.kind = "publish"
    <3>1. latest' = latest /\ server'[i].text = server[i].text /\ Exists(server, i)
      BY <1>1, <1>5, <1>6, <2>3
    <3> QED BY <2>3, <3>1 DEF DirtyUntilSaved
  <2>4. CASE j = i /\ r.kind = "delete"
    BY <1>5, <1>6, <2>4
  <2> QED BY <1>3, <2>1, <2>2, <2>3, <2>4
<1>11. AloneSavesLast'
  <2> SUFFICES ASSUME NEW s \in mutations', s.kind = "save", s.alone
               PROVE  /\ {q \in mutations' : q.kind = "save" /\ q.id = s.id} = {s}
                      /\ s.at = "done" /\ server'[s.id].status # "gone" => server'[s.id].text = s.text
    BY DEF AloneSavesLast, Saves, Exists
  <2>1. CASE s = d
    <3>1. r.kind = "save" /\ r.alone /\ s.id = i /\ s.text = r.text
      BY <1>4, <2>1
    <3>2. Saves(i) = {r}
      BY <3>1 DEF AloneSavesLast
    <3>3. \A q \in mutations' : q.kind = "save" /\ q.id = i => q = d
      BY <1>7, <3>2 DEF Saves
    <3> QED BY <1>5, <1>6, <2>1, <3>1, <3>3
  <2>2. CASE s # d
    <3>1. s \in mutations /\ s # r /\ s.id \in Records
      BY <1>3, <1>7, <2>2 DEF Mutations
    <3>2. /\ Saves(s.id) = {s}
          /\ s.at = "done" /\ Exists(server, s.id) => server[s.id].text = s.text
      BY <3>1 DEF AloneSavesLast
    <3>3. ~(r.kind = "save" /\ i = s.id)
      BY <3>1, <3>2 DEF Saves
    <3>4. \A q \in mutations' : q.kind = "save" /\ q.id = s.id => q = s
      BY <1>4, <1>7, <3>2, <3>3 DEF Saves
    <3>5. s.at = "done" /\ server'[s.id].status # "gone" => server'[s.id].text = s.text
      <4>1. CASE s.id # i
        BY <1>6, <3>1, <3>2, <4>1 DEF Exists
      <4>2. CASE s.id = i
        BY <1>3, <1>5, <1>6, <3>2, <3>3, <4>2
      <4> QED BY <4>1, <4>2
    <3> QED BY <3>4, <3>5
  <2> QED BY <2>1, <2>2
<1>12. BulkIsOut'
  <2>1. ASSUME NEW n \in bulk.left PROVE n <= sent /\ \E q \in mutations' : q.n = n
    <3>1. n <= sent /\ \E q \in mutations : q.n = n
      BY DEF BulkIsOut
    <3>2. PICK q \in mutations : q.n = n
      BY <3>1
    <3>3. q = r => ~Abandoned(r)
      BY <3>2 DEF Abandoned
    <3> QED BY <1>2, <1>4, <3>1, <3>2, <3>3
  <2>2. \A q \in mutations' : q.n <= sent /\ (q.n \in bulk.left => q.text = -1)
    <3>1. \A q \in mutations : q.n <= sent /\ (q.n \in bulk.left => q.text = -1)
      BY DEF BulkIsOut
    <3> QED BY <1>4, <1>7, <3>1
  <2> QED BY <1>1, <2>1, <2>2 DEF BulkIsOut
<1>13. FetchComes'
  <2>1. CASE ~Abandoned(r)
    BY <1>2, <1>4, <2>1 DEF FetchComes, AnswerComes
  <2>2. CASE Abandoned(r)
    <3>1. unseen' \/ reading.at = "asked"
      BY <1>2, <2>2
    <3>2. reading.at = "asked" => reading = Asked
      BY Constants DEF AdminTypeOK
    <3> QED BY <1>1, <3>1, <3>2 DEF FetchComes
  <2> QED BY <2>1, <2>2
<1> QED BY <1>9, <1>10, <1>11, <1>12, <1>13

\* Requests that end without an effect on the records or the editor's marks.
LEMMA FewerAreAlone ==
    ASSUME AdminInv, mutations' \subseteq mutations, UNCHANGED server
    PROVE  AloneSavesLast' /\ mutations' \in SUBSET Mutations
<1>1. ASSUME NEW s \in mutations', s.kind = "save", s.alone
      PROVE  /\ {q \in mutations' : q.kind = "save" /\ q.id = s.id} = {s}
             /\ s.at = "done" /\ Exists(server, s.id) => server[s.id].text = s.text
  <2>1. /\ Saves(s.id) = {s}
        /\ s.at = "done" /\ Exists(server, s.id) => server[s.id].text = s.text
    BY <1>1 DEF AdminInv, AloneSavesLast
  <2> QED BY <1>1, <2>1 DEF Saves
<1>2. mutations' \in SUBSET Mutations
  BY DEF AdminInv, AdminTypeOK
<1> QED BY <1>1, <1>2 DEF AloneSavesLast, Saves, Exists

\* A request that nobody waits for is lost; one of the editor fails.
LEMMA LossStep == ASSUME AdminInv, NEW r \in mutations, Vanishes(r) \/ FailsInEditor(r) PROVE AdminInv'
<1> USE DEF AdminInv
<1>1. /\ mutations' = mutations \ {r}
      /\ UNCHANGED <<server, shown, reading, editor, dirty, sent, bulk, edits, latest, tangled>>
      /\ \/ r.at = "out" /\ Abandoned(r) /\ unseen' = unseen
         \/ OfEditor(r) /\ unseen' = (unseen \/ (r.at = "done" /\ reading.at # "asked"))
  BY DEF Vanishes, FailsInEditor, OnError
<1>2. unseen' \in BOOLEAN
  <2>1. unseen \in BOOLEAN
    BY DEF AdminTypeOK
  <2> QED BY <1>1, <2>1
<1>3. AdminTypeOK' /\ AloneSavesLast'
  BY <1>1, <1>2, FewerAreAlone DEF AdminTypeOK
<1>4. DirtyUntilSaved'
  BY <1>1 DEF DirtyUntilSaved, Exists
<1>5. BulkIsOut'
  <2>1. r.n \notin bulk.left
    BY <1>1 DEF BulkIsOut, Abandoned, OfEditor
  <2> QED BY <1>1, <2>1 DEF BulkIsOut
<1>6. FetchComes'
  <2>1. CASE r.at = "out"
    <3>1. AnswerComes => AnswerComes'
      BY <1>1, <2>1 DEF AnswerComes
    <3>2. unseen => unseen'
      BY <1>1
    <3> QED BY <1>1, <3>1, <3>2 DEF FetchComes
  <2>2. CASE r.at = "done"
    <3>1. unseen' \/ reading.at = "asked"
      BY <1>1, <2>2
    <3>2. reading.at = "asked" => reading = Asked
      BY Constants DEF AdminTypeOK
    <3> QED BY <1>1, <3>1, <3>2 DEF FetchComes
  <2>3. r.at \in {"out", "done"}
    BY DEF AdminTypeOK, Mutations
  <2> QED BY <2>1, <2>2, <2>3
<1> QED BY <1>3, <1>4, <1>5, <1>6

\* The answer to a request of the editor clears the mark, and vouches for the text or
\* the record is tangled.
LEMMA SucceedsStep == ASSUME AdminInv, NEW r \in mutations, Succeeds(r) PROVE AdminInv'
<1> USE DEF AdminInv
<1>1. /\ OfEditor(r) /\ r.at = "done"
      /\ mutations' = mutations \ {r}
      /\ dirty' = [dirty EXCEPT ![r.id] = FALSE]
      /\ tangled' = [tangled EXCEPT ![r.id] = ~Covers(r)]
      /\ reading' = Asked
      /\ UNCHANGED <<server, shown, editor, sent, bulk, edits, latest, unseen>>
  BY DEF Succeeds
<1>2. /\ dirty \in [Records -> BOOLEAN] /\ tangled \in [Records -> BOOLEAN] /\ r.id \in Records
  BY DEF AdminTypeOK, Mutations
<1>3. PICK q \in BOOLEAN : q = ~Covers(r)
  OBVIOUS
<1>4. tangled' = [tangled EXCEPT ![r.id] = q]
  BY <1>1, <1>3
<1>5. dirty' \in [Records -> BOOLEAN] /\ tangled' \in [Records -> BOOLEAN]
  BY <1>1, <1>2, <1>4
<1>6. AdminTypeOK' /\ AloneSavesLast'
  BY <1>1, <1>5, FewerAreAlone DEF AdminTypeOK
<1>7. DirtyUntilSaved'
  <2> SUFFICES ASSUME NEW j \in Records, ~dirty'[j], ~tangled'[j], Exists(server, j)
               PROVE  server[j].text = latest[j]
    BY <1>1 DEF DirtyUntilSaved, Exists
  <2>1. CASE j # r.id
    BY <1>1, <1>2, <1>4, <2>1 DEF DirtyUntilSaved
  <2>2. CASE j = r.id
    <3>1. Covers(r)
      BY <1>2, <1>3, <1>4, <2>2
    <3>2. CASE r.kind = "save"
      BY <1>1, <2>2, <3>1, <3>2 DEF Covers, AloneSavesLast
    <3>3. CASE r.kind # "save"
      BY <2>2, <3>1, <3>3 DEF Covers
    <3> QED BY <3>2, <3>3
  <2> QED BY <2>1, <2>2
<1>8. BulkIsOut'
  <2>1. r.n \notin bulk.left
    BY <1>1 DEF BulkIsOut, OfEditor
  <2> QED BY <1>1, <2>1 DEF BulkIsOut
<1>9. FetchComes'
  BY <1>1 DEF FetchComes
<1> QED BY <1>6, <1>7, <1>8, <1>9

\* The list is read by the server, and shown.
LEMMA ListStep == ASSUME AdminInv, ServerLists \/ ListArrives PROVE AdminInv'
<1> USE DEF AdminInv
<1>1. UNCHANGED <<server, dirty, mutations, sent, bulk, edits, latest, tangled, unseen>>
  BY DEF ServerLists, ListArrives
<1>2. AloneSavesLast' /\ BulkIsOut' /\ DirtyUntilSaved' /\ (AnswerComes => AnswerComes')
  BY <1>1 DEF AloneSavesLast, BulkIsOut, DirtyUntilSaved, AnswerComes, Saves, Exists
<1>3. CASE ServerLists
  <2>1. reading' = [at |-> "answered", rows |-> server] /\ UNCHANGED <<shown, editor>>
    BY <1>3 DEF ServerLists
  <2>2. server \in Lists
    BY DEF AdminTypeOK
  <2>3. reading' \in [at : {"answered"}, rows : Lists] /\ reading'.at = "answered" /\ reading'.rows = server
    BY <2>1, <2>2
  <2>4. AdminTypeOK'
    BY <1>1, <2>1, <2>3 DEF AdminTypeOK
  <2>5. FetchComes'
    BY <1>1, <2>3 DEF FetchComes
  <2> QED BY <1>2, <2>4, <2>5
<1>4. CASE ListArrives
  <2>1. /\ reading.at = "answered" /\ shown' = reading.rows /\ reading' = NotReading
        /\ editor' = FormOf(reading.rows)
    BY <1>4 DEF ListArrives
  <2>2. reading # Asked /\ reading # NotReading
    BY <2>1, Constants
  <2>3. reading.rows \in Lists
    BY <2>2 DEF AdminTypeOK
  <2>4. AdminTypeOK'
    BY <1>1, <2>1, <2>3, FormsKeepTypes DEF AdminTypeOK
  <2>5. FetchComes'
    BY <1>1, <1>2, <2>1, <2>2 DEF FetchComes
  <2> QED BY <1>2, <2>4, <2>5
<1> QED BY <1>3, <1>4

\* Some records have numbers of their own behind those given.
LEMMA BulkNumbers ==
    ASSUME NEW ids \in SUBSET Records, NEW b \in Nat
    PROVE  \E g \in [ids -> b + 1 .. b + Cardinality(ids)] : \A i, j \in ids : g[i] = g[j] => i = j
<1> DEFINE k == Cardinality(ids)
<1>1. IsFiniteSet(ids)
  BY AdminContentAssumption, FS_Subset
<1>2. PICK n \in Nat : ExistsBijection(1..n, ids)
  BY <1>1, FS_NatBijection
<1>3. k = n
  BY <1>2, FS_CountingElements
<1>4. ExistsBijection(ids, 1..n)
  BY <1>2, Fun_ExistsBijSymmetric
<1>5. PICK h : h \in Bijection(ids, 1..n)
  BY <1>4, Fun_ExistsBij
<1>6. h \in [ids -> 1..n] /\ \A i, j \in ids : h[i] = h[j] => i = j
  BY <1>5, Fun_BijectionProperties
<1> DEFINE g == [i \in ids |-> b + h[i]]
<1> HIDE DEF k
<1>7. g \in [ids -> b + 1 .. b + k]
  BY <1>3, <1>6
<1>8. \A i, j \in ids : g[i] = g[j] => i = j
  <2> SUFFICES ASSUME NEW i \in ids, NEW j \in ids, b + h[i] = b + h[j] PROVE i = j
    OBVIOUS
  <2>1. h[i] \in 1..n /\ h[j] \in 1..n
    BY <1>6
  <2>2. h[i] = h[j]
    BY <2>1
  <2> QED BY <1>6, <2>2
<1> QED BY <1>7, <1>8 DEF k

\* The list shows what a bulk action will do.
LEMMA OptimisticIsAList ==
    ASSUME NEW list \in Lists, NEW ids \in SUBSET Records, NEW action \in {"delete", "publish"}
    PROVE  Optimistic(list, ids, action) \in Lists
<1> DEFINE o(i) == IF i \notin ids THEN list[i]
                   ELSE IF action = "delete" THEN Gone
                   ELSE IF Exists(list, i) THEN [list[i] EXCEPT !.status = "published"]
                   ELSE list[i]
<1>1. ASSUME NEW i \in Records PROVE o(i) \in [text : Int, status : {"draft", "published", "gone"}]
  <2>1. list[i] \in [text : Int, status : {"draft", "published", "gone"}]
    BY DEF Lists
  <2>2. [list[i] EXCEPT !.status = "published"] \in [text : Int, status : {"draft", "published", "gone"}]
    BY <2>1
  <2> QED BY <2>1, <2>2, Constants
<1>2. Optimistic(list, ids, action) = [i \in Records |-> o(i)]
  BY DEF Optimistic
<1> HIDE DEF o
<1> QED BY <1>1, <1>2 DEF Lists

\* A bulk action begins.
LEMMA BulkStartStep ==
    ASSUME AdminInv, NEW ids \in SUBSET Records, NEW action \in {"delete", "publish"}, BulkStart(action, ids)
    PROVE  AdminInv'
<1> USE DEF AdminInv
<1> DEFINE k == Cardinality(ids)
           f == CHOOSE g \in [ids -> sent + 1 .. sent + k] : \A i, j \in ids : g[i] = g[j] => i = j
           m(i) == Mutation(f[i], action, i, -1)
<1>0. sent \in Nat /\ mutations \in SUBSET Mutations /\ shown \in Lists
  BY DEF AdminTypeOK
<1>1. f \in [ids -> sent + 1 .. sent + k]
  BY <1>0, BulkNumbers
<1>2. k \in Nat
  BY AdminContentAssumption, FS_Subset, FS_CardinalityType
<1>3. /\ ids # {} /\ sent' = sent + k
      /\ mutations' = mutations \cup {m(i) : i \in ids}
      /\ bulk' = [action |-> action, ids |-> ids, left |-> {f[i] : i \in ids}, before |-> shown]
      /\ shown' = Optimistic(shown, ids, action)
      /\ reading' = NotReading
      /\ UNCHANGED <<server, editor, dirty, edits, latest, tangled, unseen>>
  BY DEF BulkStart
<1> HIDE DEF k, f
<1>4. ASSUME NEW i \in ids
      PROVE  /\ f[i] \in Nat /\ f[i] > sent /\ f[i] <= sent + k
             /\ m(i) \in Mutations /\ m(i).n = f[i] /\ m(i).text = -1 /\ m(i).kind # "save"
  <2>1. f[i] \in Nat /\ f[i] > sent /\ f[i] <= sent + k
    BY <1>0, <1>1, <1>2
  <2>2. PICK q \in BOOLEAN : (Saves(i) = {}) = q
    OBVIOUS
  <2>3. m(i) = [n |-> f[i], kind |-> action, id |-> i, text |-> -1, at |-> "out", alone |-> q]
    BY <2>2 DEF Mutation
  <2> HIDE DEF m
  <2>4. m(i) \in Mutations /\ m(i).n = f[i] /\ m(i).text = -1 /\ m(i).kind # "save"
    BY <2>1, <2>3 DEF Mutations
  <2> QED BY <2>1, <2>4
<1> HIDE DEF m
<1>5. /\ bulk' \in Bulks /\ bulk'.left = {f[i] : i \in ids}
      /\ mutations' \in SUBSET Mutations /\ sent' \in Nat /\ shown' \in Lists
  <2>1. {f[i] : i \in ids} \in SUBSET Nat
    BY <1>4
  <2>2. bulk' \in Bulks /\ bulk'.left = {f[i] : i \in ids}
    BY <1>0, <1>3, <2>1 DEF Bulks
  <2>3. shown' \in Lists
    BY <1>0, <1>3, OptimisticIsAList
  <2>4. mutations' \in SUBSET Mutations
    BY <1>0, <1>3, <1>4
  <2> QED BY <1>0, <1>2, <1>3, <2>2, <2>3, <2>4
<1>6. AdminTypeOK'
  BY <1>3, <1>5 DEF AdminTypeOK
<1>7. DirtyUntilSaved'
  BY <1>3 DEF DirtyUntilSaved, Exists
<1>8. AloneSavesLast'
  <2> SUFFICES ASSUME NEW s \in mutations', s.kind = "save", s.alone
               PROVE  /\ {q \in mutations' : q.kind = "save" /\ q.id = s.id} = {s}
                      /\ s.at = "done" /\ Exists(server, s.id) => server[s.id].text = s.text
    BY <1>3 DEF AloneSavesLast, Saves, Exists
  <2>1. s \in mutations
    BY <1>3, <1>4
  <2>2. /\ Saves(s.id) = {s}
        /\ s.at = "done" /\ Exists(server, s.id) => server[s.id].text = s.text
    BY <2>1 DEF AloneSavesLast
  <2> QED BY <1>3, <1>4, <2>2 DEF Saves
<1>9. BulkIsOut'
  <2>1. \A n \in bulk'.left : n <= sent' /\ \E r \in mutations' : r.n = n
    BY <1>3, <1>4, <1>5
  <2>2. ASSUME NEW r \in mutations' PROVE r.n <= sent' /\ (r.n \in bulk'.left => r.text = -1)
    <3>1. CASE r \in mutations
      <4>1. r.n <= sent /\ r.n \in Nat
        BY <1>0, <3>1 DEF BulkIsOut, Mutations
      <4>2. r.n \notin bulk'.left
        BY <1>0, <1>4, <1>5, <4>1
      <4> QED BY <1>0, <1>2, <1>3, <4>1, <4>2
    <3>2. CASE r \notin mutations
      BY <1>3, <1>4, <3>2
    <3> QED BY <3>1, <3>2
  <2> QED BY <2>1, <2>2 DEF BulkIsOut
<1>10. FetchComes'
  <2>1. bulk'.left # {}
    BY <1>3, <1>5
  <2> QED BY <2>1 DEF FetchComes
<1> QED BY <1>6, <1>7, <1>8, <1>9, <1>10

\* An answer to the bulk action.
LEMMA BulkAnsweredStep == ASSUME AdminInv, NEW r \in mutations, BulkAnswered(r) PROVE AdminInv'
<1> USE DEF AdminInv
<1>1. /\ r.n \in bulk.left /\ mutations' = mutations \ {r}
      /\ UNCHANGED <<server, shown, editor, dirty, sent, edits, latest, tangled, unseen>>
  BY DEF BulkAnswered
<1>2. bulk \in Bulks
  BY <1>1, Constants DEF AdminTypeOK
<1>3. DirtyUntilSaved' /\ AloneSavesLast' /\ mutations' \in SUBSET Mutations
  BY <1>1, FewerAreAlone DEF DirtyUntilSaved, Exists
<1>4. CASE bulk.left = {r.n}
  <2>1. bulk' = NoBulk /\ reading' = Asked
    BY <1>4 DEF BulkAnswered
  <2>2. AdminTypeOK'
    BY <1>1, <1>3, <2>1 DEF AdminTypeOK
  <2>3. BulkIsOut'
    BY <1>1, <2>1, Constants DEF BulkIsOut
  <2>4. FetchComes'
    BY <2>1 DEF FetchComes
  <2> QED BY <1>3, <2>2, <2>3, <2>4
<1>5. CASE bulk.left # {r.n}
  <2>1. bulk' = [bulk EXCEPT !.left = @ \ {r.n}] /\ reading' = reading
    BY <1>5 DEF BulkAnswered
  <2>2. bulk' \in Bulks /\ bulk'.left = bulk.left \ {r.n}
    BY <1>2, <2>1 DEF Bulks
  <2>3. AdminTypeOK'
    BY <1>1, <1>3, <2>1, <2>2 DEF AdminTypeOK
  <2>4. BulkIsOut'
    BY <1>1, <2>2 DEF BulkIsOut
  <2>5. FetchComes'
    BY <1>1, <1>5, <2>2 DEF FetchComes
  <2> QED BY <1>3, <2>3, <2>4, <2>5
<1> QED BY <1>4, <1>5

\* A bulk action fails, and the list before it is shown until the next is fetched.
LEMMA BulkFailsStep == ASSUME AdminInv, NEW r \in mutations, BulkFails(r) PROVE AdminInv'
<1> USE DEF AdminInv
<1>1. /\ r.n \in bulk.left
      /\ mutations' \subseteq mutations
      /\ shown' = bulk.before /\ editor' = FormOf(bulk.before)
      /\ bulk' = NoBulk /\ reading' = Asked
      /\ UNCHANGED <<server, dirty, sent, edits, latest, tangled, unseen>>
  BY DEF BulkFails, SettlesWithFetch
<1>2. bulk \in Bulks
  BY <1>1, Constants DEF AdminTypeOK
<1>3. bulk.before \in Lists
  BY <1>2 DEF Bulks
<1>4. DirtyUntilSaved' /\ AloneSavesLast' /\ mutations' \in SUBSET Mutations
  BY <1>1, FewerAreAlone DEF DirtyUntilSaved, Exists
<1>5. AdminTypeOK'
  BY <1>1, <1>3, <1>4, FormsKeepTypes DEF AdminTypeOK
<1>6. BulkIsOut'
  BY <1>1, Constants DEF BulkIsOut
<1>7. FetchComes'
  BY <1>1 DEF FetchComes
<1> QED BY <1>4, <1>5, <1>6, <1>7

\* At first the list is the server's and nothing is typed.
LEMMA AdminStart == AdminContentInit => AdminInv
<1> SUFFICES ASSUME AdminContentInit PROVE AdminInv
  OBVIOUS
<1>1. /\ server = [i \in Records |-> [text |-> 0, status |-> "draft"]] /\ shown = server
      /\ reading = NotReading /\ editor = Closed /\ mutations = {} /\ sent = 0 /\ bulk = NoBulk
      /\ dirty = [i \in Records |-> FALSE] /\ tangled = [i \in Records |-> FALSE]
      /\ latest = [i \in Records |-> 0] /\ edits = 0 /\ unseen = FALSE
  BY DEF AdminContentInit
<1>2. server \in Lists
  BY <1>1 DEF Lists
<1>3. AdminTypeOK
  <2>1. /\ dirty \in [Records -> BOOLEAN] /\ tangled \in [Records -> BOOLEAN]
        /\ latest \in [Records -> Int]
    BY <1>1
  <2>2. mutations \in SUBSET Mutations /\ sent \in Nat /\ edits \in Nat /\ unseen \in BOOLEAN
    BY <1>1
  <2>3. editor \in Editors /\ editor.timer = 0
    BY <1>1, Constants
  <2> QED BY <1>1, <1>2, <2>1, <2>2, <2>3 DEF AdminTypeOK
<1>4. DirtyUntilSaved
  BY <1>1 DEF DirtyUntilSaved
<1>5. AloneSavesLast /\ BulkIsOut /\ FetchComes
  BY <1>1, Constants DEF AloneSavesLast, BulkIsOut, FetchComes
<1> QED BY <1>3, <1>4, <1>5 DEF AdminInv

\* No step of the editor, the server or a bulk action spoils the workspace.
LEMMA AdminStep == AdminInv /\ [AdminContentNext]_adminVars => AdminInv'
<1> SUFFICES ASSUME AdminInv, [AdminContentNext]_adminVars PROVE AdminInv'
  OBVIOUS
<1>1. CASE UNCHANGED adminVars
  BY <1>1 DEF adminVars, AdminInv, AdminTypeOK, DirtyUntilSaved, AloneSavesLast, BulkIsOut,
              FetchComes, AnswerComes, Saves, Exists
<1>2. CASE AdminContentNext
  BY <1>2, EditorKeeps, LandsStep, LossStep, SucceedsStep, ListStep, BulkStartStep,
     BulkAnsweredStep, BulkFailsStep DEF AdminContentNext
<1> QED BY <1>1, <1>2

\* For any records, texts and requests: what is not marked is saved, but where saves were
\* tangled; and when nothing is under way the list is the server's, but for a change whose
\* answer was lost or awaited by nobody.
THEOREM WorkspaceStaysHonest == AdminContentSpec => []WorkspaceIsHonest
<1>1. AdminInv => WorkspaceIsHonest
  <2> SUFFICES ASSUME AdminInv PROVE DirtyUntilSaved /\ ListCatchesUp
    BY DEF WorkspaceIsHonest
  <2>1. DirtyUntilSaved
    BY DEF AdminInv
  <2>2. ASSUME mutations = {}, reading = NotReading, ~unseen PROVE shown = server
    <3>1. bulk.left = {} /\ ~AnswerComes
      BY <2>2 DEF AdminInv, BulkIsOut, AnswerComes
    <3>2. reading # Asked /\ reading.at # "answered"
      BY <2>2, Constants
    <3> QED BY <2>2, <3>1, <3>2 DEF AdminInv, FetchComes
  <2> QED BY <2>1, <2>2 DEF ListCatchesUp
<1> QED BY <1>1, AdminStart, AdminStep, PTL DEF AdminContentSpec
=============================================================================
