------------------------------ MODULE Filters ------------------------------
(***************************************************************************)
(* Which records the filters of a query select, by the three evaluators of *)
(* the repository: matchesFilter of the memory adapter, the WHERE clause   *)
(* of the SQL adapters, and matches of a portable adapter that has no      *)
(* executor and keeps its own tables.  The records are written through     *)
(* each of them alike.                                                     *)
(*                                                                         *)
(* A value is a number, a text, null, or undefined, which is a field the   *)
(* record does not have.  The texts are dates: they have an order and are  *)
(* no numbers.  A text contains itself only.                               *)
(***************************************************************************)
EXTENDS Integers, FiniteSets

CONSTANTS
    FilteredRows,   \* the records there may be
    Numbers,        \* numbers of the field "price"
    Dates,          \* texts of the field "due"
    Queries         \* the queries asked: sets of conditions

VARIABLES
    held,     \* the records, NoRow for one that does not exist
    answer    \* the query under way, what each adapter lists, and whether the driver of the
              \* SQL adapter rejects the statement; NoAnswer if there is none

filterVars == <<held, answer>>

Evaluators == {"memory", "sql", "tables"}

Value(type, n) == [type |-> type, n |-> n]
Null == Value("null", 0)
Undefined == Value("undefined", 0)
Price == {Value("number", n) : n \in Numbers} \cup {Null}
Due == {Value("text", n) : n \in Dates} \cup {Null}

NoRow == [exists |-> FALSE, price |-> Undefined, due |-> Undefined]
NoAnswer == [query |-> {}, lists |-> [a \in Evaluators |-> {}], rejected |-> FALSE]

\* A field of the schema, and one the schema does not have (or a many-relation).
Declared == {"price", "due"}

\* One operator of a filter with its operands; "is" for a filter that is a plain value.
\* $in, $nin and $between have an array of two.
Condition(field, op, x, y) == [field |-> field, op |-> op, x |-> x, y |-> y]

\* VALID_OPERATORS, without the two that look at the beginning and the end of a text.
Operators == {"is", "$eq", "$ne", "$contains", "$notContains", "$gt", "$gte", "$lt", "$lte",
              "$in", "$nin", "$null", "$notNull", "$between"}

\* An operand comes with the request: it is never undefined.
Operands == [type : {"number", "text"}, n : Nat] \cup {Null}

\* A field is compared with values of its own type.
ASSUME FiltersAssumption ==
    /\ Numbers \subseteq Nat /\ Dates \subseteq Nat
    /\ \A query \in Queries : \A c \in query :
          /\ c.op \in Operators
          /\ {c.x, c.y} \subseteq Operands
          /\ c.field = "price" => "text" \notin {c.x.type, c.y.type}
          /\ c.field = "due" => "number" \notin {c.x.type, c.y.type}

Empty(v) == v \in {Null, Undefined}

-----------------------------------------------------------------------------
(* The memory adapter. *)

\* Number.isFinite(Number(v)): null counts as 0.
Finite(v) == v.type \in {"number", "null"}

\* The place of String(v ?? "") among the texts: what is empty comes first.  A number is
\* compared as a text with the undefined value only.
TextRank(v) == IF Empty(v) THEN 0 ELSE v.n + 1

CompareValues(v, x) ==
    IF Finite(v) /\ Finite(x) THEN v.n - x.n ELSE TextRank(v) - TextRank(x)

Includes(v, x) == ~Empty(v) /\ v = x

MatchesFilter(v, c) ==
    \/ c.op \in {"is", "$eq"} /\ v = c.x
    \/ c.op = "$ne" /\ v # c.x
    \/ c.op = "$contains" /\ Includes(v, c.x)
    \/ c.op = "$notContains" /\ ~Includes(v, c.x)
    \/ c.op = "$gt" /\ CompareValues(v, c.x) > 0
    \/ c.op = "$gte" /\ CompareValues(v, c.x) >= 0
    \/ c.op = "$lt" /\ CompareValues(v, c.x) < 0
    \/ c.op = "$lte" /\ CompareValues(v, c.x) <= 0
    \/ c.op = "$in" /\ v \in {c.x, c.y}
    \/ c.op = "$nin" /\ v \notin {c.x, c.y}
    \/ c.op = "$null" /\ Empty(v)
    \/ c.op = "$notNull" /\ ~Empty(v)
    \/ c.op = "$between" /\ CompareValues(v, c.x) >= 0 /\ CompareValues(v, c.y) <= 0

\* record[key]
Field(row, field) == IF field \in Declared THEN row[field] ELSE Undefined

Existing == {r \in FilteredRows : held[r].exists}

\* applyListQuery
ListsInMemory(query) ==
    {r \in Existing : \A c \in query : MatchesFilter(Field(held[r], c.field), c)}

-----------------------------------------------------------------------------
(* The SQL adapters. *)

\* writeColumns leaves an undefined value out, and its column stays NULL.
Column(row, field) == IF Empty(row[field]) THEN Null ELSE row[field]

\* filterClause, which is not true if it compares with NULL.  An operator that is not among
\* SqlOperators becomes "1 = 0".
ClauseHolds(v, c) ==
    /\ v # Null
    /\ \/ c.op = "$in" /\ v \in {c.x, c.y}
       \/ /\ c.x # Null
          /\ \/ c.op \in {"is", "$eq"} /\ v = c.x
             \/ c.op = "$ne" /\ v # c.x
             \/ c.op = "$contains" /\ Includes(v, c.x)
             \/ c.op = "$gt" /\ v.n > c.x.n
             \/ c.op = "$gte" /\ v.n >= c.x.n
             \/ c.op = "$lt" /\ v.n < c.x.n
             \/ c.op = "$lte" /\ v.n <= c.x.n

\* whereClause: a condition on a field without a column is skipped.
HasColumn(c) == c.field \in Declared

ListsBySql(query) ==
    {r \in Existing :
        \A c \in {d \in query : HasColumn(d)} : ClauseHolds(Column(held[r], c.field), c)}

\* The values that filterClause binds for a condition, before it looks at the operator,
\* and the placeholders it then writes for them.
SqlOperators == {"is", "$eq", "$ne", "$contains", "$gt", "$gte", "$lt", "$lte"}
Binds(c) == IF c.op = "$in" THEN 2 ELSE 1
Placeholders(c) == CASE c.op = "$in" -> 2
                     [] c.op \in SqlOperators -> 1
                     [] OTHER -> 0

\* The statement has more values than placeholders.
Unbalanced(query) == \E c \in query : HasColumn(c) /\ Binds(c) # Placeholders(c)

-----------------------------------------------------------------------------
(* A portable adapter with tables of its own. *)

\* Mutant: dates are compared as texts, as the memory adapter does.
OrderedAsTexts(v, c) ==
    \/ c.op = "$gt" /\ CompareValues(v, c.x) > 0
    \/ c.op = "$gte" /\ CompareValues(v, c.x) >= 0
    \/ c.op = "$lt" /\ CompareValues(v, c.x) < 0
    \/ c.op = "$lte" /\ CompareValues(v, c.x) <= 0

\* Number(v) > Number(x): false as soon as one of them is NaN.
OrderedAsNumbers(v, c) ==
    /\ Finite(v) /\ Finite(c.x)
    /\ \/ c.op = "$gt" /\ v.n > c.x.n
       \/ c.op = "$gte" /\ v.n >= c.x.n
       \/ c.op = "$lt" /\ v.n < c.x.n
       \/ c.op = "$lte" /\ v.n <= c.x.n

TableMatches(v, c) ==
    \/ c.op \in {"is", "$eq"} /\ v = c.x
    \/ c.op = "$ne" /\ v # c.x
    \/ c.op = "$contains" /\ Includes(v, c.x)
    \/ c.op = "$in" /\ v \in {c.x, c.y}
    \/ OrderedAsNumbers(v, c)

ListsFromTables(query) ==
    {r \in Existing : \A c \in query : TableMatches(Field(held[r], c.field), c)}

-----------------------------------------------------------------------------

FiltersInit == /\ held = [r \in FilteredRows |-> NoRow]
               /\ answer = NoAnswer

CreateRow(r) == /\ answer = NoAnswer
                /\ ~held[r].exists
                /\ \E price \in Price \cup {Undefined}, due \in Due \cup {Undefined} :
                       held' = [held EXCEPT ![r] =
                                   [exists |-> TRUE, price |-> price, due |-> due]]
                /\ UNCHANGED answer

\* A patch is JSON: it may set null, but not undefined.
PatchRow(r) == /\ answer = NoAnswer
               /\ held[r].exists
               /\ \/ \E price \in Price : held' = [held EXCEPT ![r].price = price]
                  \/ \E due \in Due : held' = [held EXCEPT ![r].due = due]
               /\ UNCHANGED answer

DropRow(r) == /\ answer = NoAnswer
              /\ held[r].exists
              /\ held' = [held EXCEPT ![r] = NoRow]
              /\ UNCHANGED answer

\* Most drivers reject an unbalanced statement, and the request is answered by an error;
\* with the others it lists nothing.
List(query) == /\ answer = NoAnswer
               /\ \E rejected \in BOOLEAN :
                      /\ rejected => Unbalanced(query)
                      /\ answer' = [query |-> query, rejected |-> rejected,
                             lists |-> [a \in Evaluators |->
                                 CASE a = "memory" -> ListsInMemory(query)
                                   [] a = "sql"    -> IF rejected THEN {} ELSE ListsBySql(query)
                                   [] a = "tables" -> ListsFromTables(query)]]
               /\ UNCHANGED held

Return == answer # NoAnswer /\ answer' = NoAnswer /\ UNCHANGED held

FiltersNext == \/ \E r \in FilteredRows : CreateRow(r) \/ PatchRow(r) \/ DropRow(r)
               \/ \E query \in Queries : List(query)
               \/ Return

FiltersSpec == FiltersInit /\ [][FiltersNext]_filterVars

-----------------------------------------------------------------------------

\* The operators only the memory adapter knows.
OnlyInMemory == {"$notContains", "$nin", "$null", "$notNull", "$between"}
Orders == {"$gt", "$gte", "$lt", "$lte"}

KnownQuery == {c \in answer.query : HasColumn(c)}

\* What an SQL adapter lists is what the memory adapter does, but that nothing is equal
\* to, unlike, below or above NULL, that it drops the conditions on fields it has no
\* column for, and that with an operator it does not know it lists nothing or fails.
SqlLeavesOut(r) ==
    \E c \in KnownQuery : \/ c.op \in OnlyInMemory
                          \/ Empty(held[r][c.field])
                          \/ c.x = Null /\ c.op # "$in"

\* A portable adapter without an executor knows the same operators as the SQL ones, and
\* orders numbers only: a date is neither before nor after another.
TablesLeaveOut(r) ==
    \E c \in answer.query : \/ c.op \in OnlyInMemory
                            \/ /\ c.op \in Orders
                               /\ ~Finite(Field(held[r], c.field)) \/ ~Finite(c.x)

\* The adapters list the same records for the same query, but for the records named
\* above, and a query fails only where it has an operator that the memory adapter alone
\* knows (matchesFilter, filterClause and matches).
AdaptersDifferAsNamed ==
    answer # NoAnswer =>
        /\ answer.lists["sql"] = {r \in ListsInMemory(KnownQuery) : ~SqlLeavesOut(r)}
        /\ answer.rejected => \E c \in KnownQuery : c.op \in OnlyInMemory
        /\ answer.lists["tables"] = {r \in answer.lists["memory"] : ~TablesLeaveOut(r)}
=============================================================================
