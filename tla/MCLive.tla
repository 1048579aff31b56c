------------------------------- MODULE MCLive -------------------------------
(* What must come about at last, in small instances: a cache that is fresh  *)
(* again, due drafts that are published, deliveries that settle, a boot     *)
(* that ends.                                                               *)
(* They are looked at one at a time: `part' says which one moves, and only  *)
(* that one is fair.  Webhooks has one worker and one sweep: none posts a   *)
(* row beside another.                                                      *)
EXTENDS Webhooks

VARIABLES
    part,
    rev, live, cacheRequests, stamp, entries, rd, wr, silent,
    promoter, draft, at, now, requests, req, tick, deaths, untold, lost, withdrawn,
    plugins, stage, error, inDegree, sorted, scanned, progress, installed,
    mounted, tables, services, jobs

Cache == INSTANCE ContentCache WITH
    Ids <- {"i1"}, Readers <- {"r1"}, Writers <- {"w1", "w2"}, MaxRequests <- 2,
    SilentWrites <- TRUE, CoreJob <- TRUE, DefaultPrefix <- FALSE, CacheCanFail <- TRUE,
    requests <- cacheRequests

\* The memory adapter lists drafts without a date, too.
Drafts == INSTANCE Drafts WITH
    NDocs <- 2, Requests <- {"r1"}, Ticks <- {"t1", "t2"}, MaxRequests <- 2,
    MaxTime <- 1, MaxDeaths <- 0, Limit <- 1, Adapter <- "memory", status <- draft

\* Four plugins with any one requirement each, three with any requirements.
Row(id, requires) ==
    [id |-> id, requires |-> requires, phase |-> "normal", role |-> "plain", tables |-> {},
     fault |-> "none", uses |-> {}, provides |-> {}, jobs |-> {}, optional |-> {}]

Ids == {"a", "b", "c", "d"}
Named == <<"a", "b", "c", "d">>
Arrays == {[k \in 1..4 |-> Row(Named[k], r[k])] : r \in [1..4 -> {{i} : i \in Ids} \cup {{}}]}
     \cup {[k \in 1..3 |-> Row(Named[k], r[k])] : r \in [1..3 -> SUBSET {"a", "b", "c"}]}

Kernel == INSTANCE PluginKernel WITH
    NoId <- "none", Tables <- {}, Jobs <- {}, at <- scanned

cacheVars == <<rev, live, cacheRequests, stamp, entries, rd, wr, silent>>
draftVars == <<promoter, draft, at, now, requests, req, tick, deaths, untold, lost, withdrawn>>
hookVars == vars
kernelVars == <<plugins, stage, error, inDegree, sorted, scanned, progress, installed,
                mounted, tables, services, jobs>>
mcVars == <<part, cacheVars, draftVars, hookVars, kernelVars>>

MCInit == /\ part \in {"cache", "drafts", "webhooks", "kernel"}
          /\ Cache!Init /\ (part # "cache" => live = {})
          /\ Drafts!Init /\ (part # "drafts" => draft = [d \in 1..2 |-> "gone"] /\ promoter = "drafts")
          /\ Init
          /\ Kernel!Init /\ (part # "kernel" => plugins = CHOOSE a \in Arrays : TRUE)

MCNext ==
    \/ part = "cache" /\ Cache!Next /\ UNCHANGED <<part, draftVars, hookVars, kernelVars>>
    \/ part = "drafts" /\ Drafts!Next /\ UNCHANGED <<part, cacheVars, hookVars, kernelVars>>
    \/ part = "webhooks" /\ Next /\ UNCHANGED <<part, cacheVars, draftVars, kernelVars>>
    \/ part = "kernel" /\ Kernel!Next /\ UNCHANGED <<part, cacheVars, draftVars, hookVars>>

In(p, A) == part = p /\ A

\* The fairness of each part, as its module states it.
MCFairness ==
    /\ \A r \in {"r1"} : WF_cacheVars(In("cache", Cache!ReadProgress(r)))
    /\ \A w \in {"w1", "w2"} : WF_cacheVars(In("cache", Cache!WriteProgress(w)))
    /\ \A src \in Cache!Sources : \A s \in 0..2 : WF_cacheVars(In("cache", Cache!Expire(src, s)))
    /\ WF_draftVars(In("drafts", Drafts!Clock))
    /\ \A t \in {"t1", "t2"} : WF_draftVars(In("drafts", Drafts!TickProgress(t)))
    /\ \A w \in Workers : WF_hookVars(In("webhooks", WorkerStep(w)))
    /\ \A s \in Sweeps : WF_hookVars(In("webhooks", SweepStep(s)))
    /\ \A r \in Rows : WF_hookVars(In("webhooks", Elapse(r)))
    /\ WF_kernelVars(In("kernel", Kernel!Next))

MCSpec == MCInit /\ [][MCNext]_mcVars /\ MCFairness

-----------------------------------------------------------------------------
(* The properties are those of the parts; SoloSweepsAddUp, SettlesOnce and *)
(* QueuedIsRecorded are Webhooks' own.                                     *)

\* After the last write the cache comes to serve what the database holds.
EventuallyFresh == Cache!EventuallyFresh

\* A draft whose date has come is published, withdrawn or deleted.
DueIsPublished == Drafts!DueIsPublished

\* createCMS comes to an end.
BootEnds == part = "kernel" => Kernel!BootEnds
=============================================================================
