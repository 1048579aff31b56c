------------------------------ MODULE Populate ------------------------------
(***************************************************************************)
(* populateRecords: the relations of a list of records are replaced by the *)
(* records they lead to, level by level.  The records of one call are      *)
(* worked on together, each up to its next query, and share a budget of    *)
(* nodes that is checked before a query and charged at once; the call for  *)
(* the next level has a budget of its own.                                 *)
(*                                                                         *)
(* A path is how a record was reached, as <<field, record>> pairs; the     *)
(* records of a query come in the order of the database, and once each.    *)
(***************************************************************************)
EXTENDS Integers, Sequences, FiniteSets

CONSTANTS
    Documents,  \* the records
    NRelations, \* relation fields of a record
    Lists,      \* the ids a relation field may hold, as sequences
    Listed,     \* the records of the response
    MaxNodes,   \* MAX_POPULATE_NODES
    MaxDepth,   \* MAX_POPULATE_DEPTH
    MaxAsked    \* bound on the length of a path in the query

ASSUME PopulateAssumption ==
    /\ NRelations \in Nat /\ Lists \subseteq Seq(Documents) /\ Listed \subseteq Documents
    /\ MaxNodes \in Nat /\ MaxDepth \in Nat \ {0} /\ MaxAsked \in Nat

VARIABLES
    link,     \* the relation fields of each record
    hidden,   \* the records that are gone or not published
    asked,    \* the length of the path in the query
    task,     \* by path, what populateRecord is doing with a record
    budget    \* by call, the nodes counted

populateVars == <<link, hidden, asked, task, budget>>

Relations == 1..NRelations

\* The call a record belongs to: the path of the record above, and the field.
CallOf(path) == <<SubSeq(path, 1, Len(path) - 1), path[Len(path)][1]>>
RecordAt(path) == path[Len(path)][2]
FirstCall == << << >>, 0 >>
Siblings(path) == {q \in DOMAIN task : CallOf(q) = CallOf(path)}

\* addPopulatePath, mergePopulateObject: what lies deeper is dropped.
Levels == IF asked > MaxDepth THEN MaxDepth ELSE asked

NewTask == [pc |-> "begin", field |-> 0, taken |-> [f \in Relations |-> 0]]

\* g, and v at what is new.
Grown(g, new, v) == [x \in DOMAIN g \cup new |-> IF x \in DOMAIN g THEN g[x] ELSE v]

PopulateInit ==
    /\ link \in [Documents -> [Relations -> Lists]]
    /\ hidden \in {{}, Documents \ Listed}
    /\ asked \in 1..MaxAsked
    /\ task = [p \in {<<<<0, d>>>> : d \in Listed} |-> NewTask]
    /\ budget = [c \in {FirstCall} |-> 0]

\* Mutant: the ids are not cut to what is left.
SliceUncut(path, f) == Len(link[RecordAt(path)][f])

\* readRelationIds(record, fieldName).slice(0, MAX_POPULATE_NODES - budget.nodes): the
\* ids cut off are missing from the list in the response, but for a field of which
\* nothing is left, which keeps its ids.
Slice(path, f) ==
    LET ids  == Len(link[RecordAt(path)][f])
        left == MaxNodes - budget[CallOf(path)]
    IN  IF ids <= left THEN ids ELSE left

\* What a record is at once the ids of a field are taken.
Querying(path, f) ==
    [pc |-> "query", field |-> f, taken |-> [task[path].taken EXCEPT ![f] = Slice(path, f)]]

\* populateRecord from one await to the next: on to the first field that has ids and
\* room for them, or to the end.
RunsFrom(path, from) ==
    LET fields == {f \in from..NRelations : Slice(path, f) > 0}
    IN  IF fields = {} \/ Len(path) > Levels \/ budget[CallOf(path)] >= MaxNodes
        THEN /\ task' = [task EXCEPT ![path].pc = "done"]
             /\ UNCHANGED budget
        ELSE LET f == CHOOSE g \in fields : \A h \in fields : g <= h
             IN  /\ task' = [task EXCEPT ![path] = Querying(path, f)]
                 /\ budget' = [budget EXCEPT ![CallOf(path)] = @ + Slice(path, f)]

\* records.map(...): every record of the call begins before any query has returned.
Begins(path) == /\ task[path].pc = "begin"
                /\ RunsFrom(path, 1)
                /\ UNCHANGED <<link, hidden, asked>>

\* The query returns, and populateRecords is called for what is visible of it; at the
\* last level, or with nothing visible, it returns at once.
QueryReturns(path) ==
    LET f        == task[path].field
        found    == {link[RecordAt(path)][f][i] : i \in 1..task[path].taken[f]} \ hidden
        children == {Append(path, <<f, d>>) : d \in found}
    IN  /\ task[path].pc = "query"
        /\ \A q \in Siblings(path) : task[q].pc # "begin"
        /\ IF found = {} \/ Len(path) = Levels
           THEN RunsFrom(path, f + 1)
           ELSE /\ task' = Grown([task EXCEPT ![path].pc = "nested"], children, NewTask)
                /\ budget' = Grown(budget, {<<path, f>>}, 0)
        /\ UNCHANGED <<link, hidden, asked>>

\* All records below a field are populated: on with the next field.
NestedReturns(path) ==
    LET f == task[path].field
    IN  /\ task[path].pc = "nested"
        /\ \A q \in DOMAIN task : CallOf(q) = <<path, f>> => task[q].pc = "done"
        /\ RunsFrom(path, f + 1)
        /\ UNCHANGED <<link, hidden, asked>>

PopulateNext == \E path \in DOMAIN task : Begins(path) \/ QueryReturns(path) \/ NestedReturns(path)

PopulateSpec == PopulateInit /\ [][PopulateNext]_populateVars

-----------------------------------------------------------------------------

\* The ids that were looked up for the records at paths, by field and place.
LookedUp(paths) ==
    UNION {{<<p, f, i>> : i \in 1..task[p].taken[f]} : p \in paths, f \in Relations}

RecordsOf(c) == {p \in DOMAIN task : CallOf(p) = c}
AtLevel(l) == {p \in DOMAIN task : Len(p) = l}

\* No call looks up more than MaxNodes ids, however the queries of its records
\* interleave.
BudgetHolds == \A c \in DOMAIN budget : Cardinality(LookedUp(RecordsOf(c))) <= MaxNodes

\* Since every call below has a budget of its own, the limit is one of each call: MaxNodes
\* for the records of the response, and on every level below, MaxNodes times the nodes of
\* the level above; there are at most MaxDepth levels.
LevelsAreBounded ==
    /\ \A p \in DOMAIN task : Len(p) \in 1..MaxDepth
    /\ Cardinality(LookedUp(AtLevel(1))) <= MaxNodes
    /\ \A l \in 1..MaxDepth :
           Cardinality(LookedUp(AtLevel(l + 1))) <= MaxNodes * Cardinality(LookedUp(AtLevel(l)))

\* An id is passed over (dropped from its list, or left in it with all the others) only
\* if the budget of its call is spent, or below the last level.
CutOnlyByBudget ==
    \A p \in DOMAIN task : task[p].pc = "done" /\ Len(p) <= Levels =>
        \A f \in Relations :
            \/ task[p].taken[f] = Len(link[RecordAt(p)][f])
            \/ budget[CallOf(p)] = MaxNodes

\* populateRecords does all it is asked for up to its limits, and no more.
PopulateHoldsItsLimits == BudgetHolds /\ LevelsAreBounded /\ CutOnlyByBudget
=============================================================================
