--------------------------- MODULE MCPluginKernel ---------------------------
(* Instances of PluginKernel: families of arrays, each varying one concern. *)
EXTENDS PluginKernel

P(id, requires) ==
    [id |-> id, requires |-> requires, phase |-> "normal", role |-> "plain",
     tables |-> {}, fault |-> "none", uses |-> {}, provides |-> {id} \ {NoId},
     jobs |-> {}, optional |-> {}]

\* Three plugins, every `requires` (their own id included) and every phase.
Phased ==
    {[k \in 1..3 |-> [P(n[k], r[k]) EXCEPT !.phase = ph[k]]] :
        n \in {<<"a", "b", "c">>}, r \in [1..3 -> SUBSET {"a", "b", "c"}],
        ph \in [1..3 -> Phases]}

\* Four plugins with at most one requirement each: relocation over two scans.
Chained ==
    {[k \in 1..4 |-> P(n[k], r[k])] :
        n \in {<<"a", "b", "c", "jobs">>},
        r \in [1..4 -> {{}, {"a"}, {"b"}, {"c"}, {"jobs"}}]}

\* The jobs plugin among two that use it, claim tables and may fail, some ill-formed.
Busy ==
    {[k \in 1..3 |->
        IF k = j
        THEN [P("jobs", {}) EXCEPT !.jobs = {"publish"}, !.optional = {<<"a", "sweep">>}]
        ELSE LET o == IF k < j THEN k ELSE k - 1
             IN  [P(n[o], r[o]) EXCEPT !.uses = u, !.jobs = w, !.role = ill[1],
                     !.fault = IF o = ill[2] THEN ill[3] ELSE "none",
                     !.tables = t[o], !.optional = {<<"jobs", "cleanup">>}]] :
        j \in 1..3, n \in {<<"a", "b">>, <<"a", "a">>, <<NoId, "b">>},
        r \in [1..2 -> {{}, {"jobs"}}], u \in {{}, {"jobs"}}, w \in {{}, {"notify"}, {"publish"}},
        ill \in {<<"plain", 0, "none">>, <<"auth", 0, "none">>, <<"plain", 1, "capability">>,
                 <<"plain", 2, "capability">>, <<"plain", 1, "app">>, <<"auth", 2, "app">>},
        t \in {<<{}, {}>>, <<{"log"}, {"tokens"}>>, <<{"log"}, {"log"}>>}}

\* [1..0 -> {}] is the empty array alone.
MCArrays == UNION {Phased, Chained, Busy, [1..0 -> {}]}
=============================================================================
