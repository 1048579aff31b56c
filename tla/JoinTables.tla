----------------------------- MODULE JoinTables -----------------------------
(***************************************************************************)
(* Many-relations in the SQL adapters (SqlDocumentExecutor): all relations *)
(* between two collections, from either side, are rows of one join table.  *)
(* A create or an update is a series of statements without a transaction:  *)
(* the record itself, then, for every relation in the body, one DELETE and *)
(* one INSERT per id, and a SELECT of the record, which joins nothing.     *)
(***************************************************************************)
EXTENDS Integers, Sequences, FiniteSets

CONSTANTS
    Lefts, Rights, \* the ids of the two collections
    Clerks,        \* requests that write
    Bodies,        \* the relation lists of a body, as sequences of ids
    MaxCalls       \* bound on the writes

\* A body without a list leaves the join table alone.
ASSUME JoinTablesAssumption == /\ Lefts \cap Rights = {} /\ MaxCalls \in Nat
                               /\ \A b \in Bodies : b # <<>> /\ b \in Seq(Seq(Lefts \cup Rights))

VARIABLES
    stored,   \* the records
    given,    \* ids given so far
    joined,   \* the rows of the join table
    clerk,    \* what each request is doing
    called,   \* writes so far
    meant,    \* the join table the finished writes describe (history)
    mixed     \* the pairs that overlapping or unfinished writes left open (history)

joinVars == <<stored, given, joined, clerk, called, meant, mixed>>

Other(r) == IF r \in Lefts THEN Rights ELSE Lefts
PairOf(r, s) == IF r \in Lefts THEN <<r, s>> ELSE <<s, r>>
PairsOf(r) == {PairOf(r, s) : s \in Other(r)}

NotWriting == [pc |-> "idle", rec |-> 0, body |-> <<>>, list |-> <<>>, todo |-> <<>>, alone |-> TRUE]
Writing == {c \in Clerks : clerk[c].pc # "idle"}

\* Two writes meet if the pairs they may change do.
Meets(r, c) == clerk[c].rec = r \/ clerk[c].rec \in Other(r)

JoinTablesInit ==
    /\ stored \in {{}, Lefts \cup Rights}
    /\ given = stored
    /\ joined = {}
    /\ clerk = [c \in Clerks |-> NotWriting]
    /\ called = 0
    /\ meant = {} /\ mixed = {}

\* The record's own row.
Starts(c, r, body) ==
    LET met == {d \in Writing : Meets(r, d)}
    IN  /\ clerk[c].pc = "idle" /\ called < MaxCalls
        /\ called' = called + 1
        /\ clerk' = [d \in Clerks |->
              IF d = c THEN [NotWriting EXCEPT !.pc = "next", !.rec = r, !.body = body, !.alone = met = {}]
              ELSE IF d \in met THEN [clerk[d] EXCEPT !.alone = FALSE] ELSE clerk[d]]
        /\ UNCHANGED <<joined, meant, mixed>>

CreateDocument(c, r, body) == /\ r \notin given
                              /\ stored' = stored \cup {r} /\ given' = given \cup {r}
                              /\ Starts(c, r, body)

\* UPDATE finds the row, or none.
UpdateDocument(c, r, body) == r \in given /\ Starts(c, r, body) /\ UNCHANGED <<stored, given>>

\* Mutant: the old rows stay.
ClearsNothing(r) == {}

\* DELETE FROM the join table WHERE the owner's column is its id.
Clears(r) == joined \cap PairsOf(r)

\* The next list of the body: its old rows go.
ClearLinks(c) ==
    LET w == clerk[c]
    IN  /\ w.pc = "next" /\ w.body # <<>>
        /\ joined' = joined \ Clears(w.rec)
        /\ clerk' = [clerk EXCEPT ![c] =
              [w EXCEPT !.pc = "link", !.list = Head(w.body), !.todo = Head(w.body), !.body = Tail(w.body)]]
        /\ UNCHANGED <<stored, given, called, meant, mixed>>

\* A statement throws, or the process ends: the rows stay as they are.
Stops(c) == /\ clerk' = [clerk EXCEPT ![c] = NotWriting]
            /\ mixed' = mixed \cup PairsOf(clerk[c].rec)
            /\ UNCHANGED <<stored, given, called, meant>>

\* INSERT: both foreign keys have to be there, and the pair must not.
InsertLink(c) ==
    LET w == clerk[c]
        s == Head(w.todo)
        p == PairOf(w.rec, s)
    IN  /\ w.pc = "link" /\ w.todo # <<>>
        /\ IF {w.rec, s} \subseteq stored /\ p \notin joined
           THEN /\ joined' = joined \cup {p}
                /\ clerk' = [clerk EXCEPT ![c].todo = Tail(@)]
                /\ UNCHANGED <<stored, given, called, meant, mixed>>
           ELSE Stops(c) /\ UNCHANGED joined

ListDone(c) == /\ clerk[c].pc = "link" /\ clerk[c].todo = <<>>
               /\ clerk' = [clerk EXCEPT ![c].pc = "next"]
               /\ UNCHANGED <<stored, given, joined, called, meant, mixed>>
\* SELECT: the record is answered, or was deleted meanwhile.
ReadBack(c) ==
    LET w     == clerk[c]
        pairs == {PairOf(w.rec, w.list[i]) : i \in DOMAIN w.list}
    IN  /\ w.pc = "next" /\ w.body = <<>>
        /\ IF w.rec \in stored
           THEN /\ clerk' = [clerk EXCEPT ![c] = NotWriting]
                /\ meant' = (meant \ PairsOf(w.rec)) \cup (pairs \cap (stored \X stored))
                /\ mixed' = IF w.alone THEN mixed \ PairsOf(w.rec) ELSE mixed \cup PairsOf(w.rec)
                /\ UNCHANGED <<stored, given, called>>
           ELSE Stops(c)
        /\ UNCHANGED joined

WriterDies(c) == clerk[c].pc # "idle" /\ Stops(c) /\ UNCHANGED joined

\* DELETE FROM the collection; ON DELETE CASCADE takes the rows of the join table.
DeleteDocument(r) == /\ r \in stored
                     /\ stored' = stored \ {r}
                     /\ joined' = joined \ PairsOf(r)
                     /\ meant' = meant \ PairsOf(r)
                     /\ UNCHANGED <<given, clerk, called, mixed>>

JoinTablesNext ==
    \/ \E c \in Clerks :
          \/ \E r \in Lefts \cup Rights, body \in Bodies :
                /\ \A i \in DOMAIN body : \A j \in DOMAIN body[i] : body[i][j] \in Other(r)
                /\ CreateDocument(c, r, body) \/ UpdateDocument(c, r, body)
          \/ ClearLinks(c) \/ InsertLink(c) \/ ListDone(c) \/ ReadBack(c) \/ WriterDies(c)
    \/ \E r \in Lefts \cup Rights : DeleteDocument(r)

JoinTablesSpec == JoinTablesInit /\ [][JoinTablesNext]_joinVars

-----------------------------------------------------------------------------

\* The join table is what the finished writes said, from whichever side, the last list
\* of the last body for each record, but for pairs that are being written, or were
\* left by writes that overlapped or ended half way; the next write that is alone
\* puts them right (adapter-kit replaceManyRelations).
LinksAreTheLastList ==
    \A p \in (Lefts \X Rights) \ mixed :
        (\A c \in Writing : p \notin PairsOf(clerk[c].rec)) => (p \in joined <=> p \in meant)
=============================================================================
