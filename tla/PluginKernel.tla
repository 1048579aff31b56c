---------------------------- MODULE PluginKernel ----------------------------
(***************************************************************************)
(* The boot of a hono-cms instance: createCMS hands the plugin array to    *)
(* installPlugins, which validates it, sorts it along `requires` with      *)
(* repeated scans, groups it by mount phase, merges the declared tables    *)
(* and installs the plugins one after the other.  Any step may throw; the  *)
(* throw rejects createCMS and nothing is undone.                          *)
(*                                                                         *)
(* A plugin is known by its position in the array.  Of a plugin the model  *)
(* keeps what the kernel reads, and what its app() does to the shared      *)
(* context: the services it gets and registers and the jobs it registers.  *)
(***************************************************************************)
EXTENDS Integers, Sequences, FiniteSets

CONSTANTS
    Ids,        \* the plugin ids, which also name the services
    NoId,       \* a missing or empty `id`
    Tables,     \* the table names and modelNames a schema may claim
    Jobs,       \* the job names
    Arrays      \* the plugin arrays a program may pass to createCMS

Phases == {"early", "normal", "catchAll"}

\* `jobs` are registered unconditionally; <<s, n>> in `optional` is a job n
\* registered only when service s is found with ctx.plugins.has(s).
Plugin == [id : Ids \cup {NoId},
           requires : SUBSET Ids,
           phase : Phases,
           role : {"auth", "plain"},
           tables : SUBSET Tables,
           fault : {"none", "capability", "app"},
           uses : SUBSET Ids,
           provides : SUBSET Ids,
           jobs : SUBSET Jobs,
           optional : SUBSET (Ids \X Jobs)]

ASSUME KernelAssumption == /\ IsFiniteSet(Ids)
                           /\ NoId \notin Ids
                           /\ Arrays \subseteq Seq(Plugin)

VARIABLES
    plugins,    \* the array, never changed
    stage,      \* where installPlugins is
    error,      \* why it threw
    inDegree,   \* per plugin, the requirements not yet sorted
    sorted,     \* the plugins sorted so far, in order
    at,         \* the scan's place in the array
    progress,   \* whether this scan has sorted a plugin
    installed,  \* installedIds, in order
    mounted,    \* the plugins whose middlewares or routes are on the app
    tables,     \* ctx.systemTables
    services,   \* the service registry
    jobs        \* the registered jobs, each with the plugin that owns it

order == <<inDegree, sorted, at, progress>>
world == <<installed, mounted, tables, services, jobs>>
vars == <<plugins, stage, error, order, world>>

Elements(s) == {s[k] : k \in DOMAIN s}

Positions == DOMAIN plugins

\* The plugins that i requires.
Requires(i) == {j \in Positions : plugins[j].id \in plugins[i].requires}

PhaseRank(i) == IF plugins[i].phase = "early" THEN 0
                ELSE IF plugins[i].phase = "normal" THEN 1 ELSE 2

-----------------------------------------------------------------------------
(* Validation of the array. *)

UniqueIds == \A i, j \in Positions : plugins[i].id = plugins[j].id => i = j

AtMostOne(S) == \A i, j \in S : i = j

\* Mutant of PhasesAllow: requirements across phases are not looked at.
PhasesUnchecked == TRUE

\* A requirement in a later phase could never be met.
PhasesAllow == \A i \in Positions : \A j \in Requires(i) : PhaseRank(j) <= PhaseRank(i)

WellFormed ==
    /\ \A i \in Positions : plugins[i].id # NoId
    /\ UniqueIds
    /\ \A i \in Positions : plugins[i].requires \subseteq {plugins[j].id : j \in Positions}
    /\ AtMostOne({i \in Positions : plugins[i].role = "auth"})
    /\ AtMostOne({i \in Positions : plugins[i].phase = "catchAll"})
    /\ PhasesAllow

Refuse(why) == stage' = "refused" /\ error' = why

Reject == /\ stage = "validate"
          /\ ~WellFormed
          /\ Refuse("invalid")
          /\ UNCHANGED <<plugins, order, world>>

\* Mutant of Accept: the requirements are never counted.
AcceptUncounted == /\ stage = "validate"
                   /\ WellFormed
                   /\ stage' = "sort"
                   /\ UNCHANGED <<plugins, error, order, world>>

Accept == /\ stage = "validate"
          /\ WellFormed
          /\ stage' = "sort"
          /\ inDegree' = [i \in Positions |-> Cardinality(Requires(i))]
          /\ UNCHANGED <<plugins, error, sorted, at, progress, world>>

-----------------------------------------------------------------------------
(* The sort: scan the array until every plugin is sorted. *)

Ready(i) == i \notin Elements(sorted) /\ inDegree[i] = 0

\* The scan passes over a plugin that is sorted, or still waits.
Skip == /\ stage = "sort" /\ at \in Positions
        /\ ~Ready(at)
        /\ at' = at + 1
        /\ UNCHANGED <<plugins, stage, error, inDegree, sorted, progress, world>>

\* The scan takes a plugin; those requiring it wait for one less from now on,
\* in this very scan when they come later in the array.
Consume == /\ stage = "sort" /\ at \in Positions
           /\ Ready(at)
           /\ sorted' = Append(sorted, at)
           /\ inDegree' = [i \in Positions |->
                             IF at \in Requires(i) THEN inDegree[i] - 1 ELSE inDegree[i]]
           /\ progress' = TRUE
           /\ at' = at + 1
           /\ UNCHANGED <<plugins, stage, error, world>>

EndOfScan == stage = "sort" /\ at \notin Positions

AllSorted == Len(sorted) = Len(plugins)

\* Mutant of ScanAgain: the flag of the scan before is kept.
ScanAgainForever == /\ EndOfScan /\ ~AllSorted /\ progress
                    /\ at' = 1
                    /\ UNCHANGED <<plugins, stage, error, inDegree, sorted, progress, world>>

ScanAgain == /\ EndOfScan /\ ~AllSorted /\ progress
             /\ at' = 1
             /\ progress' = FALSE
             /\ UNCHANGED <<plugins, stage, error, inDegree, sorted, world>>

\* Mutant of Stuck: one scan has to do.
StuckAfterOneScan == /\ EndOfScan /\ ~AllSorted
                     /\ Refuse("cycle")
                     /\ UNCHANGED <<plugins, order, world>>

\* A scan without progress: the rest of the array is stuck behind a cycle.
Stuck == /\ EndOfScan /\ ~AllSorted /\ ~progress
         /\ Refuse("cycle")
         /\ UNCHANGED <<plugins, order, world>>

EndSort == /\ EndOfScan /\ AllSorted
           /\ stage' = "merge"
           /\ UNCHANGED <<plugins, error, order, world>>

-----------------------------------------------------------------------------
(* The tables: merged for all plugins before the first one is installed. *)

TablesClash == \E i, j \in Positions :
                 i # j /\ plugins[i].tables \cap plugins[j].tables # {}

MergeSchemas == /\ stage = "merge" /\ ~TablesClash
                /\ tables' = UNION {plugins[i].tables : i \in Positions}
                /\ stage' = "install"
                /\ UNCHANGED <<plugins, error, order, installed, mounted, services, jobs>>

RejectSchemas == /\ stage = "merge" /\ TablesClash
                 /\ Refuse("tables")
                 /\ UNCHANGED <<plugins, order, world>>

-----------------------------------------------------------------------------
(* The install loop. *)

Precedes(s, i, j) == \E k, l \in DOMAIN s : k < l /\ s[k] = i /\ s[l] = j

\* The order of `grouped`: by phase, and within a phase as sorted.
GroupedBefore(i, j) == \/ PhaseRank(i) < PhaseRank(j)
                       \/ PhaseRank(i) = PhaseRank(j) /\ Precedes(sorted, i, j)

Remaining == Positions \ Elements(installed)

IsNext(i) == /\ stage = "install"
             /\ i \in Remaining
             /\ \A j \in Remaining \ {i} : GroupedBefore(i, j)

JobNames == {job[1] : job \in jobs}

OptionalJobs(i) == {o[2] : o \in {p \in plugins[i].optional : p[1] \in services}}

MissingServices(i) == plugins[i].uses \ services

\* Mutant of JobsClash: a second registration is accepted.
JobsNeverClash(i) == FALSE

JobsClash(i) == plugins[i].jobs \cap JobNames # {}

\* The whole of one turn of the loop.  An optional job whose name is taken is
\* given up without an error.
Install(i) ==
    /\ IsNext(i)
    /\ plugins[i].fault = "none"
    /\ MissingServices(i) = {}
    /\ ~JobsClash(i)
    /\ mounted' = mounted \cup {i}
    /\ services' = services \cup plugins[i].provides
    /\ jobs' = jobs \cup ((plugins[i].jobs \cup (OptionalJobs(i) \ JobNames)) \X {i})
    /\ installed' = Append(installed, i)
    /\ UNCHANGED <<plugins, stage, error, order, tables>>

\* validatePluginCapabilities throws before anything of i is mounted.
LackCapability(i) ==
    /\ IsNext(i)
    /\ plugins[i].fault = "capability"
    /\ Refuse("capability")
    /\ UNCHANGED <<plugins, order, world>>

\* app() throws: a service it gets is not there, a job name is taken, or it
\* fails by itself.  Its middlewares stay, and so does what it had registered.
ThrowInApp(i) ==
    /\ IsNext(i)
    /\ plugins[i].fault # "capability"
    /\ \/ MissingServices(i) # {} /\ Refuse("service")
       \/ JobsClash(i) /\ Refuse("job")
       \/ plugins[i].fault = "app" /\ Refuse("app")
    /\ mounted' = mounted \cup {i}
    /\ \E S \in SUBSET plugins[i].provides : services' = services \cup S
    /\ \E J \in SUBSET (plugins[i].jobs \ JobNames) : jobs' = jobs \cup (J \X {i})
    /\ UNCHANGED <<plugins, order, installed, tables>>

Boot == /\ stage = "install" /\ Remaining = {}
        /\ stage' = "booted"
        /\ UNCHANGED <<plugins, error, order, world>>

-----------------------------------------------------------------------------
Init == /\ plugins \in Arrays
        /\ stage = "validate" /\ error = "none"
        /\ inDegree = [i \in Positions |-> 0]
        /\ sorted = << >> /\ at = 1 /\ progress = FALSE
        /\ installed = << >> /\ mounted = {}
        /\ tables = {} /\ services = {} /\ jobs = {}

Next == \/ Reject \/ Accept
        \/ Skip \/ Consume \/ ScanAgain \/ Stuck \/ EndSort
        \/ MergeSchemas \/ RejectSchemas
        \/ \E i \in Positions : Install(i) \/ LackCapability(i) \/ ThrowInApp(i)
        \/ Boot

Spec == Init /\ [][Next]_vars

\* installPlugins runs to its end unless the process dies: no step waits for
\* anything but the plugin's own app().
FairSpec == Spec /\ WF_vars(Next)

-----------------------------------------------------------------------------
(* Properties. *)

\* The variables keep their types.
TypeOK ==
    /\ plugins \in Seq(Plugin)
    /\ stage \in {"validate", "sort", "merge", "install", "booted", "refused"}
    /\ error \in {"none", "invalid", "cycle", "tables", "capability", "service", "job", "app"}
    /\ inDegree \in [Positions -> Nat]
    /\ sorted \in Seq(Positions)
    /\ at \in 1..(Len(plugins) + 1)
    /\ progress \in BOOLEAN
    /\ installed \in Seq(Positions)
    /\ mounted \subseteq Positions
    /\ tables \subseteq Tables
    /\ services \subseteq Ids
    /\ jobs \subseteq Jobs \X Positions

\* A plugin runs only after every plugin it requires, also where the grouping
\* by phase has moved plugins of the sorted list past each other.
RequirementsFirst ==
    \A k \in DOMAIN installed : \A r \in Requires(installed[k]) :
      \E l \in DOMAIN installed : l < k /\ installed[l] = r

\* Every plugin is installed once, early ones before normal ones, and the
\* catch-all last.
PhasesInOrder ==
    \A k, l \in DOMAIN installed :
      k < l => /\ installed[k] # installed[l]
               /\ PhaseRank(installed[k]) <= PhaseRank(installed[l])

\* The whole of createCMS keeps both orders: the grouping by phase undoes nothing
\* of the sort, nor the sort of the phases (runtime.ts, create-cms.ts).
InstallIsOrdered == RequirementsFirst /\ PhasesInOrder

\* A boot fails for a missing service only by a plugin that gets a service no
\* plugin in its `requires` registers: what is declared is there.
Undeclared(i) == plugins[i].uses \ UNION {plugins[r].provides : r \in Requires(i)}

DeclaredUseIsServed ==
    /\ error = "service" => \E i \in mounted : Undeclared(i) # {}
    /\ \A i \in Elements(installed) : plugins[i].uses \subseteq services

\* The sort gives up on exactly the arrays whose `requires` have a cycle: a
\* set of plugins each of which requires another one of the set.
Cycle(S) == S # {} /\ \A i \in S : Requires(i) \cap S # {}

RefusedExactlyOnCycle ==
    /\ error = "cycle" => \E S \in SUBSET Positions : Cycle(S)
    /\ stage \in {"merge", "install", "booted"} => ~\E S \in SUBSET Positions : Cycle(S)

\* A set of plugins that contains its requirements, each listed before the
\* plugins that require it.
WellListed(S) == \A i \in S : \A j \in Requires(i) : j \in S /\ j < i

\* No plugin overtakes a well-listed one that stands before it in the array.
WellListedKeepTheirPlace ==
    \A S \in SUBSET Positions : WellListed(S) =>
      \A i \in S : \A k \in DOMAIN sorted :
        i < sorted[k] => \E l \in DOMAIN sorted : l < k /\ sorted[l] = i

\* The sort refuses what has a cycle and nothing else, and moves a plugin only
\* where a requirement makes it (runtime.ts, validateAndOrder).
SortIsRight == RefusedExactlyOnCycle /\ WellListedKeepTheirPlace

\* No job has two owners, and none is owned by a plugin that never ran.
OneOwnerEach ==
    /\ \A j1, j2 \in jobs : j1[1] = j2[1] => j1 = j2
    /\ \A j \in jobs : j[2] \in mounted

\* A boot that succeeds has installed the whole array and has every service
\* and every unconditional job in place, under the tables of all plugins.
BootedIsComplete ==
    stage = "booted" =>
      /\ Elements(installed) = Positions
      /\ \A i \in Positions : /\ plugins[i].tables \subseteq tables
                              /\ plugins[i].provides \subseteq services
                              /\ plugins[i].jobs \X {i} \subseteq jobs

\* What a plugin finds while it is installed, and what it has left behind when the
\* boot is over or has failed half way, is what the manifests say.
BootIsWhole == DeclaredUseIsServed /\ OneOwnerEach /\ BootedIsComplete

\* createCMS comes to an end: the scans do not go on for ever.
BootEnds == <>(stage \in {"booted", "refused"})
=============================================================================
