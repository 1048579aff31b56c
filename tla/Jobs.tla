-------------------------------- MODULE Jobs --------------------------------
(***************************************************************************)
(* Background jobs: the runtime that registers them, mounts their routes   *)
(* and enqueues, over the adapter object it is given, and the schedules    *)
(* QStash keeps of them.                                                   *)
(*                                                                         *)
(* A build is one createCMS in the process; the adapter object outlives it *)
(* when a module keeps it.  An enqueue either runs the handler at once     *)
(* (memory), posts a message to a queue that calls the route of the        *)
(* running build and tries again on an error (qstash, or cloudflare and    *)
(* vercel with a fallback), drops it (none) or refuses (cron only).        *)
(***************************************************************************)
EXTENDS Integers, FiniteSets

CONSTANTS
    JobNames,    \* the jobs the plugins register
    Adapters,    \* of {"memory", "queue", "none", "cronOnly"}
    MaxBuilds,   \* bound on the CMS built around one adapter object
    MaxMessages, \* bound on the jobs enqueued
    MaxTries,    \* deliveries the queue attempts (external)
    ColdStarts   \* cold starts that call bootstrapSchedules

ASSUME JobsAssumption == /\ MaxBuilds \in Nat \ {0}
                         /\ MaxMessages \in Nat
                         /\ MaxTries \in Nat \ {0}
                         /\ Adapters \subseteq {"memory", "queue", "none", "cronOnly"}

VARIABLES
    adapter,   \* which adapter is configured
    build,     \* the build that serves
    handlers,  \* the adapter's handlers: the build each belongs to, 0 if none
    routes,    \* the jobs the serving build has registered and mounted
    messages,  \* what the queue holds: the job, its name, the tries so far
    accepted,  \* enqueues that answered without an error
    ranBy,     \* the builds whose handler completed a job
    given,     \* jobs the queue gave up (external, history)
    schedules, \* what QStash holds: how many schedules of one entry
    start,     \* what each cold start is doing
    crossed    \* two cold starts overlapped (history)

jobsVars == <<adapter, build, handlers, routes, messages, accepted, ranBy,
              given, schedules, start, crossed>>

Jobs == 1..MaxMessages
NoStart == [pc |-> "new", todo |-> {}, existing |-> {}]

JobsInit == /\ adapter \in Adapters
            /\ build = 1
            /\ handlers = [n \in JobNames |-> 0]
            /\ routes = {}
            /\ messages = {}
            /\ accepted = {}
            /\ ranBy = [j \in Jobs |-> {}]
            /\ given = {}
            /\ schedules = [n \in JobNames |-> 0]
            /\ start = [s \in ColdStarts |-> NoStart]
            /\ crossed = FALSE

-----------------------------------------------------------------------------
(* The runtime of one build. *)

\* adapter.register throws "already registered" and the runtime swallows it: the
\* adapter keeps the handler of the build that came first.
Registers(n) == handlers' = [handlers EXCEPT ![n] = IF @ = 0 THEN build ELSE @]

RegisterJob(n) == /\ n \notin routes
                  /\ IF adapter = "none" THEN UNCHANGED handlers ELSE Registers(n)
                  /\ routes' = routes \cup {n}
                  /\ UNCHANGED <<adapter, build, messages, accepted, ranBy, given,
                                 schedules, start, crossed>>

\* createCMS is called again around the same adapter object.
RebuildCMS == /\ build < MaxBuilds
              /\ build' = build + 1
              /\ routes' = {}
              /\ UNCHANGED <<adapter, handlers, messages, accepted, ranBy, given,
                             schedules, start, crossed>>

\* A new process: the adapter object is new as well, the queue is not.
RestartProcess == /\ build < MaxBuilds
                  /\ build' = build + 1
                  /\ routes' = {}
                  /\ handlers' = [n \in JobNames |-> 0]
                  /\ UNCHANGED <<adapter, messages, accepted, ranBy, given,
                                 schedules, start, crossed>>

Fresh(j) == j \notin accepted /\ ranBy[j] = {}

\* enqueue of the memory adapter: the handler runs before the answer, and its
\* error, or the want of one, is the caller's.
EnqueueInProcess(j, n) ==
    /\ adapter = "memory" /\ Fresh(j)
    /\ handlers[n] # 0
    /\ ranBy' = [ranBy EXCEPT ![j] = {handlers[n]}]
    /\ accepted' = accepted \cup {j}
    /\ UNCHANGED <<adapter, build, handlers, routes, messages, given, schedules, start, crossed>>

Message(j, n, tries) == [job |-> j, name |-> n, tries |-> tries]

EnqueueToQueue(j, n) ==
    /\ adapter = "queue" /\ Fresh(j)
    /\ messages' = messages \cup {Message(j, n, 0)}
    /\ accepted' = accepted \cup {j}
    /\ UNCHANGED <<adapter, build, handlers, routes, ranBy, given, schedules, start, crossed>>

EnqueueToNone(j) ==
    /\ adapter = "none" /\ Fresh(j)
    /\ accepted' = accepted \cup {j}
    /\ UNCHANGED <<adapter, build, handlers, routes, messages, ranBy, given,
                   schedules, start, crossed>>

\* JobsConfigError, "so silent drops cannot occur".
Refuses(j) == UNCHANGED accepted

EnqueueToCronOnly(j) ==
    /\ adapter = "cronOnly" /\ Fresh(j)
    /\ Refuses(j)
    /\ UNCHANGED <<adapter, build, handlers, routes, messages, ranBy, given,
                   schedules, start, crossed>>

-----------------------------------------------------------------------------
(* The queue calls the route of the build that serves (runVerifiedJob). *)

\* The queue tries again, or gives up.
Again(m) == IF m.tries + 1 < MaxTries
            THEN /\ messages' = (messages \ {m}) \cup {Message(m.job, m.name, m.tries + 1)}
                 /\ UNCHANGED given
            ELSE /\ messages' = messages \ {m}
                 /\ given' = given \cup {m.job}

\* 200; when the answer is lost, the queue delivers the job again.
Answers(m) == \/ messages' = messages \ {m} /\ UNCHANGED given
              \/ Again(m)

\* The route runs the handler it was mounted with.
Delivered(m) == /\ m.name \in routes
                /\ ranBy' = [ranBy EXCEPT ![m.job] = @ \cup {build}]
                /\ Answers(m)
                /\ UNCHANGED <<adapter, build, handlers, routes, accepted, schedules, start, crossed>>

\* A handler that throws is answered with 500, a job not registered with 404.
Fails(m) == Again(m)

DeliveryFails(m) ==
    /\ Fails(m)
    /\ UNCHANGED <<adapter, build, handlers, routes, accepted, ranBy, schedules, start, crossed>>

-----------------------------------------------------------------------------
(* bootstrapSchedules of each cold start: list, then create what is missing. *)

Lists(s) == /\ start[s].pc = "new"
            /\ start' = [start EXCEPT ![s] =
                  [pc |-> "create", todo |-> JobNames,
                   existing |-> {n \in JobNames : schedules[n] > 0}]]
            /\ crossed' = (crossed \/ \E t \in ColdStarts : start[t].pc = "create")
            /\ UNCHANGED <<adapter, build, handlers, routes, messages, accepted, ranBy,
                           given, schedules>>

\* Mutant: nothing is looked up.
CreatesAnyway(s, n) == TRUE

Creates(s, n) == n \notin start[s].existing

CreateOrSkip(s, n) ==
    /\ start[s].pc = "create"
    /\ n \in start[s].todo
    /\ schedules' = [schedules EXCEPT ![n] = IF Creates(s, n) THEN @ + 1 ELSE @]
    /\ start' = [start EXCEPT ![s].todo = @ \ {n},
                              ![s].pc = IF start[s].todo = {n} THEN "done" ELSE @]
    /\ UNCHANGED <<adapter, build, handlers, routes, messages, accepted, ranBy, given, crossed>>

\* QStash fails or the instance dies; a later cold start begins anew.
StartDies(s) == /\ start[s].pc = "create"
                /\ start' = [start EXCEPT ![s].pc = "done"]
                /\ UNCHANGED <<adapter, build, handlers, routes, messages, accepted, ranBy,
                               given, schedules, crossed>>

JobsNext ==
    \/ RebuildCMS \/ RestartProcess
    \/ \E n \in JobNames : RegisterJob(n)
    \/ \E j \in Jobs : EnqueueToNone(j) \/ EnqueueToCronOnly(j)
    \/ \E j \in Jobs, n \in JobNames : EnqueueInProcess(j, n) \/ EnqueueToQueue(j, n)
    \/ \E m \in messages : Delivered(m) \/ DeliveryFails(m)
    \/ \E s \in ColdStarts : Lists(s) \/ StartDies(s) \/ \E n \in JobNames : CreateOrSkip(s, n)

JobsSpec == JobsInit /\ [][JobsNext]_jobsVars

-----------------------------------------------------------------------------

\* What enqueue takes is run at least once, or still with the queue, or given up by
\* it after all its tries; only the adapter "none" drops it.
AcceptedIsNotDropped ==
    \A j \in accepted : \/ ranBy[j] # {} \/ j \in given
                        \/ \E m \in messages : m.job = j
                        \/ adapter = "none"

\* Cold starts, however many and however interrupted, leave one schedule of each
\* entry, unless two of them overlap.
OneScheduleEach == ~crossed => \A n \in JobNames : schedules[n] <= 1

\* Nothing that was taken is dropped, and no start doubles what is there.
JobsAreKept == AcceptedIsNotDropped /\ OneScheduleEach
=============================================================================
