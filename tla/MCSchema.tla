------------------------------ MODULE MCSchema ------------------------------
(* The schema's way: applied as migrations, merged and installed at boot,   *)
(* edited in the running program by the content-type builder, or its files  *)
(* below the development server; the relations it declares, written as rows *)
(* and read into responses; and the filters over its fields.                *)
(* They are looked at one at a time: `part' says which one moves.           *)
EXTENDS MCPluginKernel, ContentTypes, SchemaApply, JoinTables, Populate, Filters, DevServer

VARIABLE part

MCLists == {<< >>, <<3, 2>>}

MCBodies == {<<l>> : l \in {<< >>, <<2>>, <<3>>, <<2, 3>>, <<3, 3>>, <<1>>}}
            \cup {<<<<2>>, <<3>>>>}

\* Every operator over every field, and conditions beside a lower bound.
OneOperand == {"is", "$eq", "$ne", "$gt", "$gte", "$lt", "$lte"}
TwoOperands == {"$in", "$nin", "$between"}

Over(field, values) ==
    {Condition(field, op, x, x) : op \in OneOperand, x \in values}
    \cup {Condition(field, op, x, y) : op \in TwoOperands, x \in values, y \in values}
    \cup {Condition(field, op, Null, Null) : op \in {"$null", "$notNull"}}

MCConditions == Over("price", Price) \cup Over("due", Due)
    \cup {Condition("due", op, x, x) : op \in {"$contains", "$notContains"}, x \in Due \ {Null}}
    \cup {Condition("ghost", op, Null, Null) : op \in {"is", "$ne", "$notNull"}}

Alone == {{c} : c \in MCConditions}
Beside == {{c, d} : c \in {e \in MCConditions : e.op = "$gte"},
                   d \in {e \in MCConditions : e.op \in {"is", "$lt"}}}

MCQueries == {query : query \in Alone \cup Beside \cup {{}}}

\* A boot that is over before it begins.
Rest == /\ plugins = << >> /\ stage = "booted" /\ error = "none"
        /\ inDegree = << >> /\ sorted = << >> /\ at = 1 /\ progress = FALSE
        /\ installed = << >> /\ mounted = {}
        /\ tables = {} /\ services = {} /\ jobs = {}

\* A part that is not looked at has one beginning.
MCInit == /\ part \in {"kernel", "types", "apply", "joins", "populate", "filters", "dev"}
          /\ IF part = "kernel" THEN Init ELSE Rest
          /\ ContentTypesInit /\ (part # "types" => live["x"] # Absent)
          /\ SchemaApplyInit
          /\ JoinTablesInit /\ (part # "joins" => stored = {})
          /\ IF part = "populate" THEN PopulateInit
             ELSE link = << >> /\ hidden = {} /\ asked = 1 /\ task = << >> /\ budget = << >>
          /\ FiltersInit
          /\ DevServerInit /\ (part # "dev" => opts = [layout |-> "one", migrates |-> FALSE, kit |-> FALSE])

MCNext ==
    \/ part = "kernel" /\ Next
       /\ UNCHANGED <<typesVars, schemaVars, joinVars, populateVars, filterVars, devVars, part>>
    \/ part = "types" /\ ContentTypesNext
       /\ UNCHANGED <<vars, schemaVars, joinVars, populateVars, filterVars, devVars, part>>
    \/ part = "apply" /\ SchemaApplyNext
       /\ UNCHANGED <<vars, typesVars, joinVars, populateVars, filterVars, devVars, part>>
    \/ part = "joins" /\ JoinTablesNext
       /\ UNCHANGED <<vars, typesVars, schemaVars, populateVars, filterVars, devVars, part>>
    \/ part = "populate" /\ PopulateNext
       /\ UNCHANGED <<vars, typesVars, schemaVars, joinVars, filterVars, devVars, part>>
    \/ part = "filters" /\ FiltersNext
       /\ UNCHANGED <<vars, typesVars, schemaVars, joinVars, populateVars, devVars, part>>
    \/ part = "dev" /\ DevServerNext
       /\ UNCHANGED <<vars, typesVars, schemaVars, joinVars, populateVars, filterVars, part>>

MCSpec == MCInit /\ [][MCNext]_<<vars, typesVars, schemaVars, joinVars, populateVars, filterVars, devVars, part>>
=============================================================================
