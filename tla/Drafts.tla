------------------------------- MODULE Drafts -------------------------------
(***************************************************************************)
(* Draft and publish: the publish, unpublish, schedule and unschedule      *)
(* routes of the drafts plugin, the content API, which writes status and   *)
(* date as the client sends them, and the scheduled-publish job.           *)
(*                                                                         *)
(* A record is a draft or published and may carry a date (publishedAt).    *)
(* publish, unpublish and PATCH read the record, write it and emit an      *)
(* event, with an await before each of these steps; schedule and           *)
(* unschedule write without reading and emit nothing.  A tick of the job   *)
(* lists the drafts whose date has come and then publishes them one after  *)
(* the other in the order of the list.  The cron provider delivers at      *)
(* least once, so ticks overlap.  A request or a run may end between any   *)
(* two of its steps: its process dies, or the database fails.              *)
(*                                                                         *)
(* The job is the one of the drafts plugin, or, without that plugin, the   *)
(* one the job runtime registers by default, which emits nothing.          *)
(***************************************************************************)
EXTENDS Integers, FiniteSets

CONSTANTS
  NDocs,         (* records of the collection, numbered by creation date    *)
  Requests,      (* publish, unpublish, POST and PATCH in flight at one time *)
  Ticks,         (* runs of scheduled-publish in flight at one time         *)
  MaxRequests,   (* bound on the number of mutating requests                *)
  MaxTime,       (* bound on the clock                                      *)
  MaxDeaths,     (* bound on the requests and runs that end half way        *)
  Limit,         (* scheduledPublishLimit; the runtime's job has its own    *)
  Adapter        (* "memory", or "portable": the portable one over SQL     *)

ASSUME DraftsAssumption ==
  /\ NDocs \in Nat
  /\ MaxRequests \in Nat
  /\ MaxTime \in Nat
  /\ MaxDeaths \in Nat
  /\ Limit \in Nat \ {0}
  /\ Adapter \in {"memory", "portable"}

VARIABLES
  promoter,   (* whose scheduled-publish it is: "drafts" or "runtime"       *)
  status,     (* status[d]: "gone", "draft" or "published"                  *)
  at,         (* at[d]: publishedAt, NoDate when null                       *)
  now,        (* the clock                                                  *)
  requests,   (* mutating requests accepted so far                          *)
  req,        (* req[r]: progress of a request                              *)
  tick,       (* tick[t]: progress of a run of the job                      *)
  deaths,     (* requests and runs that ended half way                      *)
  untold,     (* untold[d]: the event that is to tell of d's publication    *)
              (*   and has not been emitted since, or "none" (history       *)
              (*   variable)                                                *)
  lost,       (* records published by someone who ended before the event    *)
              (*   (history variable)                                       *)
  withdrawn   (* drafts made undated, or whose schedule was withdrawn,      *)
              (*   while no tick had them on its list, and not scheduled,   *)
              (*   published or deleted since (history variable)            *)

vars == <<promoter, status, at, now, requests, req, tick, deaths, untold, lost, withdrawn>>

Docs   == 1 .. NDocs
NoDate == -1

Request(pc, op, doc) == [pc |-> pc, op |-> op, doc |-> doc]

(* A run of the job: the record it is at and those still to come.          *)
Run(pc, doc, due) == [pc |-> pc, doc |-> doc, due |-> due]

IdleRequest == Request("idle", "publish", 0)
IdleRun     == Run("idle", 0, {})

Init ==
  /\ promoter \in {"drafts", "runtime"}
  /\ status \in [Docs -> {"gone", "draft"}]
  /\ at = [d \in Docs |-> NoDate]
  /\ now = 0
  /\ requests = 0
  /\ req = [r \in Requests |-> IdleRequest]
  /\ tick = [t \in Ticks |-> IdleRun]
  /\ deaths = 0
  /\ untold = [d \in Docs |-> "none"]
  /\ lost = {}
  /\ withdrawn = {}

Listed(t) == IF tick[t].pc = "idle" THEN {} ELSE tick[t].due \cup {tick[t].doc}

OnAList(d) == \E t \in Ticks : d \in Listed(t)

-----------------------------------------------------------------------------
(* The writes of the adapters.                                             *)

(* The event by which a request tells what it wrote.                       *)
Event(op) ==
  CASE op = "publish"   -> "after-publish"
    [] op = "unpublish" -> "after-unpublish"
    [] OTHER            -> "after-write"       (* after-create, after-update *)

(* Record d is published, and `event' is to tell of it.                    *)
Turned(d, event) ==
  IF status[d] = "published" THEN UNCHANGED <<untold, lost>>
  ELSE /\ untold' = [untold EXCEPT ![d] = event]
       /\ lost' = lost \ {d}

(* adapter.publish: the memory adapter stamps the date, the others leave   *)
(* it as it is.                                                            *)
WritePublished(d, event) ==
  /\ status' = [status EXCEPT ![d] = "published"]
  /\ at' = IF Adapter = "memory" THEN [at EXCEPT ![d] = now] ELSE at
  /\ Turned(d, event)
  /\ withdrawn' = withdrawn \ {d}

(* adapter.unpublish: the memory adapter clears the date, the others leave *)
(* it as it is.                                                            *)
WriteUnpublished(d) ==
  /\ status' = [status EXCEPT ![d] = "draft"]
  /\ at' = IF Adapter = "memory" THEN [at EXCEPT ![d] = NoDate] ELSE at
  /\ UNCHANGED <<untold, lost, withdrawn>>

(* update with a status and a date: a draft without a date is withdrawn.   *)
WriteBoth(d, s, date) ==
  /\ status' = [status EXCEPT ![d] = s]
  /\ at' = [at EXCEPT ![d] = date]
  /\ withdrawn' = IF s = "draft" /\ date = NoDate
                     THEN withdrawn \cup ({d} \ {e \in Docs : OnAList(e)})
                     ELSE withdrawn \ {d}

Dates == {NoDate} \cup 0 .. MaxTime

(* The content API: any status and any date, both being the client's.      *)
WriteGiven(d) ==
  \E s \in {"draft", "published"}, date \in Dates :
    /\ WriteBoth(d, s, date)
    /\ IF s = "published" THEN Turned(d, "after-write") ELSE UNCHANGED <<untold, lost>>

(* The event bus calls every subscriber, whether or not one rejects.       *)
Announce(d, event) ==
  untold' = IF untold[d] = event THEN [untold EXCEPT ![d] = "none"] ELSE untold

-----------------------------------------------------------------------------
(* Requests that write and then emit.                                      *)

Accepted ==
  /\ requests < MaxRequests
  /\ requests' = requests + 1

(* The record is read: 404 when it is gone (nothing changes), no write     *)
(* when it is in the state asked for already.                              *)
NothingToWrite(op, d) ==
  \/ op = "publish" /\ status[d] = "published"
  \/ op = "unpublish" /\ status[d] = "draft" /\ at[d] = NoDate

(* The routes publish and unpublish are the plugin's, PATCH and PUT the    *)
(* core's.                                                                 *)
Read(r) ==
  /\ req[r].pc = "idle"
  /\ Accepted
  /\ \E d \in Docs, op \in {"publish", "unpublish", "update"} :
       /\ status[d] # "gone"
       /\ op # "update" => promoter = "drafts"
       /\ req' = [req EXCEPT ![r] =
            Request(IF NothingToWrite(op, d) THEN "emit" ELSE "write", op, d)]
  /\ UNCHANGED <<promoter, status, at, now, tick, deaths, untold, lost, withdrawn>>

(* POST: a new record is the latest one.                                   *)
Create(r) ==
  /\ req[r].pc = "idle"
  /\ Accepted
  /\ \E d \in Docs :
       /\ \A e \in d .. NDocs : status[e] = "gone"
       /\ WriteGiven(d)
       /\ req' = [req EXCEPT ![r] = Request("emit", "create", d)]
  /\ UNCHANGED <<promoter, now, tick, deaths>>

Write(r) ==
  /\ req[r].pc = "write"
  /\ status[req[r].doc] # "gone"
  /\ \/ req[r].op = "publish" /\ WritePublished(req[r].doc, "after-publish")
     \/ req[r].op = "unpublish" /\ WriteUnpublished(req[r].doc)
     \/ req[r].op = "update" /\ WriteGiven(req[r].doc)
  /\ req' = [req EXCEPT ![r] = Request("emit", req[r].op, req[r].doc)]
  /\ UNCHANGED <<promoter, now, requests, tick, deaths>>

(* The record was deleted since it was read: update throws, 404 (500 for a *)
(* PATCH), no event.                                                       *)
WriteGone(r) ==
  /\ req[r].pc = "write"
  /\ status[req[r].doc] = "gone"
  /\ req' = [req EXCEPT ![r] = IdleRequest]
  /\ UNCHANGED <<promoter, status, at, now, requests, tick, deaths, untold, lost, withdrawn>>

(* The event reaches every subscriber; if one of them rejects, the answer  *)
(* is a 500 instead of a 200.                                              *)
Emit(r) ==
  /\ req[r].pc = "emit"
  /\ Announce(req[r].doc, Event(req[r].op))
  /\ req' = [req EXCEPT ![r] = IdleRequest]
  /\ UNCHANGED <<promoter, status, at, now, requests, tick, deaths, lost, withdrawn>>

(* The process dies, or the record cannot be read back after the write.    *)
(* The memory adapter never fails, and its records die with the process.   *)
Loses(d, event) == lost' = IF untold[d] = event THEN lost \cup {d} ELSE lost

Dies ==
  /\ Adapter = "portable"
  /\ deaths < MaxDeaths
  /\ deaths' = deaths + 1

RequestDies(r) ==
  /\ req[r].pc # "idle"
  /\ Dies
  /\ IF req[r].pc = "emit" THEN Loses(req[r].doc, Event(req[r].op)) ELSE UNCHANGED lost
  /\ req' = [req EXCEPT ![r] = IdleRequest]
  /\ UNCHANGED <<promoter, status, at, now, requests, tick, untold, withdrawn>>

-----------------------------------------------------------------------------
(* Requests of one step.                                                   *)

Delete ==
  /\ Accepted
  /\ \E d \in Docs :
       /\ status[d] # "gone"
       /\ status' = [status EXCEPT ![d] = "gone"]
       /\ withdrawn' = withdrawn \ {d}
  /\ UNCHANGED <<promoter, at, now, req, tick, deaths, untold, lost>>

(* schedulePublish: whatever the record's state, it becomes a draft with a *)
(* date, past ones included.                                               *)
Schedule ==
  /\ promoter = "drafts"
  /\ Accepted
  /\ \E d \in Docs, date \in 0 .. MaxTime :
       /\ status[d] # "gone"
       /\ WriteBoth(d, "draft", date)
  /\ UNCHANGED <<promoter, now, req, tick, deaths, untold, lost>>

(* unschedulePublish: the date is cleared, whatever the record's state.    *)
Unschedule ==
  /\ promoter = "drafts"
  /\ Accepted
  /\ \E d \in Docs :
       /\ status[d] # "gone"
       /\ WriteBoth(d, status[d], NoDate)
  /\ UNCHANGED <<promoter, now, req, tick, deaths, untold, lost>>

-----------------------------------------------------------------------------
(* The scheduled-publish job.                                              *)

(* Mutant of Due: the query loses its status condition.                    *)
DueWhateverStatus(d) ==
  /\ status[d] # "gone"
  /\ at[d] # NoDate
  /\ at[d] <= now

(* Mutant of Due: a missing date compares as the lowest one.               *)
DueWithoutDate(d) == status[d] = "draft" /\ at[d] <= now

(* db.list({status: "draft", filters: {publishedAt: {$lte: now}}}).  SQL   *)
(* never matches a null; compareValues of the memory adapter turns it into *)
(* "", which precedes every date.                                          *)
Due(d) ==
  /\ status[d] = "draft"
  /\ Adapter = "portable" => at[d] # NoDate
  /\ at[d] <= now

(* The order of the list: the memory adapter sorts by creation date, the   *)
(* SQL adapters by creation date, latest first.                            *)
UpTo(d, e) == IF Adapter = "memory" THEN e <= d ELSE d <= e

(* The first page of the list.                                             *)
Page(S) == {d \in S : Cardinality({e \in S : UpTo(d, e)}) <= Limit}

(* Mutant of Goon: the end of the list is not noticed.                     *)
GoonPastEnd(t, due) ==
  \/ due = {} /\ tick' = [tick EXCEPT ![t] = Run("get", 0, {})]
  \/ \E d \in due :
       /\ \A e \in due : UpTo(e, d)
       /\ tick' = [tick EXCEPT ![t] = Run("get", d, due \ {d})]

(* The run goes on with the next record of its list, or ends.              *)
Goon(t, due) ==
  \/ due = {} /\ tick' = [tick EXCEPT ![t] = IdleRun]
  \/ \E d \in due :
       /\ \A e \in due : UpTo(e, d)
       /\ tick' = [tick EXCEPT ![t] = Run("get", d, due \ {d})]

End(t) == tick' = [tick EXCEPT ![t] = IdleRun]

List(t) ==
  /\ tick[t].pc = "idle"
  /\ LET due == Page({d \in Docs : Due(d)})
     IN  due # {} /\ Goon(t, due)
  /\ UNCHANGED <<promoter, status, at, now, requests, req, deaths, untold, lost, withdrawn>>

(* publishDocument reads the record.  It throws when the record is gone,   *)
(* which ends the run; a published one is not written, but the plugin      *)
(* announces it again.                                                     *)
TickRead(t) ==
  /\ tick[t].pc = "get"
  /\ \/ status[tick[t].doc] = "gone" /\ End(t)
     \/ /\ status[tick[t].doc] = "published" /\ promoter = "drafts"
        /\ tick' = [tick EXCEPT ![t] = Run("emit", tick[t].doc, tick[t].due)]
     \/ /\ status[tick[t].doc] = "published" /\ promoter = "runtime"
        /\ Goon(t, tick[t].due)
     \/ /\ status[tick[t].doc] = "draft"
        /\ tick' = [tick EXCEPT ![t] = Run("write", tick[t].doc, tick[t].due)]
  /\ UNCHANGED <<promoter, status, at, now, requests, req, deaths, untold, lost, withdrawn>>

(* Mutant of TickWrite: the plugin's job goes through the core helper, as  *)
(* the runtime's does, and emits nothing.                                  *)
TickWriteSilently(t) ==
  /\ tick[t].pc = "write"
  /\ status[tick[t].doc] # "gone"
  /\ WritePublished(tick[t].doc, IF promoter = "drafts" THEN "after-publish" ELSE "none")
  /\ Goon(t, tick[t].due)
  /\ UNCHANGED <<promoter, now, requests, req, deaths>>

(* The runtime's job tells nobody: it calls the core helper, which emits   *)
(* nothing.                                                                *)
TickWrite(t) ==
  /\ tick[t].pc = "write"
  /\ status[tick[t].doc] # "gone"
  /\ \/ /\ promoter = "drafts"
        /\ WritePublished(tick[t].doc, "after-publish")
        /\ tick' = [tick EXCEPT ![t] = Run("emit", tick[t].doc, tick[t].due)]
     \/ /\ promoter = "runtime"
        /\ WritePublished(tick[t].doc, "none")
        /\ Goon(t, tick[t].due)
  /\ UNCHANGED <<promoter, now, requests, req, deaths>>

TickWriteGone(t) ==
  /\ tick[t].pc = "write"
  /\ status[tick[t].doc] = "gone"
  /\ End(t)
  /\ UNCHANGED <<promoter, status, at, now, requests, req, deaths, untold, lost, withdrawn>>

(* A subscriber that rejects ends the run, after all of them have run.     *)
TickEmit(t) ==
  /\ tick[t].pc = "emit"
  /\ Announce(tick[t].doc, "after-publish")
  /\ End(t) \/ Goon(t, tick[t].due)
  /\ UNCHANGED <<promoter, status, at, now, requests, req, deaths, lost, withdrawn>>

(* The process of a run dies, or the database fails.                       *)
RunDies(t) ==
  /\ tick[t].pc # "idle"
  /\ Dies
  /\ IF tick[t].pc = "emit" THEN Loses(tick[t].doc, "after-publish") ELSE UNCHANGED lost
  /\ End(t)
  /\ UNCHANGED <<promoter, status, at, now, requests, req, untold, withdrawn>>

Clock ==
  /\ now < MaxTime
  /\ now' = now + 1
  /\ UNCHANGED <<promoter, status, at, requests, req, tick, deaths, untold, lost, withdrawn>>

-----------------------------------------------------------------------------
Progress(r) == Write(r) \/ WriteGone(r) \/ Emit(r)

TickProgress(t) ==
  List(t) \/ TickRead(t) \/ TickWrite(t) \/ TickWriteGone(t) \/ TickEmit(t)

Next ==
  \/ \E r \in Requests : Read(r) \/ Create(r) \/ Progress(r) \/ RequestDies(r)
  \/ \E t \in Ticks : TickProgress(t) \/ RunDies(t)
  \/ Delete \/ Schedule \/ Unschedule
  \/ Clock

Spec == Init /\ [][Next]_vars

(* The cron provider keeps calling the job and a run that was started goes *)
(* on; time passes.  Requests need not arrive, and an emit may reject      *)
(* every time.  Runs die MaxDeaths times at most.                          *)
Fairness == WF_vars(Clock) /\ \A t \in Ticks : WF_vars(TickProgress(t))

FairSpec == Spec /\ Fairness

-----------------------------------------------------------------------------
(* Properties.                                                             *)

Statuses == {"gone", "draft", "published"}
Ops      == {"publish", "unpublish", "create", "update"}

RequestStates == [pc : {"idle", "write", "emit"}, op : Ops, doc : Docs \cup {0}]

RunStates ==
  [pc : {"idle", "get", "write", "emit"}, doc : Docs \cup {0}, due : SUBSET Docs]

TypeOK ==
  /\ promoter \in {"drafts", "runtime"}
  /\ status \in [Docs -> Statuses]
  /\ at \in [Docs -> Dates]
  /\ now \in 0 .. MaxTime
  /\ requests \in 0 .. MaxRequests
  /\ req \in [Requests -> RequestStates]
  /\ tick \in [Ticks -> RunStates]
  /\ \A r \in Requests : req[r].pc # "idle" => req[r].doc \in Docs
  /\ \A t \in Ticks : tick[t].pc # "idle" => tick[t].doc \in Docs
  /\ deaths \in 0 .. MaxDeaths
  /\ untold \in [Docs -> {"none", "after-publish", "after-write"}]
  /\ lost \in SUBSET Docs
  /\ withdrawn \in SUBSET Docs

(* A publication is told to the caches, the audit log and the webhooks: by *)
(* after-publish if a route or the job of the drafts plugin made it, by    *)
(* after-create or after-update if the content API did, even when they     *)
(* overtake one another and subscribers reject.  Only one whose author     *)
(* ended between the write and the emit is not; and the runtime's own job  *)
(* tells of none.                                                          *)
PublicationIsAnnounced ==
  \A d \in Docs :
    status[d] = "published" /\ untold[d] # "none" =>
      \/ d \in lost
      \/ \E r \in Requests :
           req[r].pc = "emit" /\ req[r].doc = d /\ Event(req[r].op) = untold[d]
      \/ \E t \in Ticks :
           tick[t].pc = "emit" /\ tick[t].doc = d /\ untold[d] = "after-publish"

(* An unschedule that found the record on no run's list is final: no later *)
(* run takes the record up, until it is scheduled or published by hand.    *)
WithdrawnStaysDraft ==
  \A d \in withdrawn : status[d] = "draft" /\ ~OnAList(d)

(* A draft whose date has come does not stay due for ever, in spite of     *)
(* runs that a deleted record or a rejecting subscriber cuts short and of  *)
(* other due records that fill the page.                                   *)
DueIsPublished == \A d \in Docs : Due(d) ~> ~Due(d)

(* A NULL published_at is never <= now: "documents with published_at =     *)
(* NULL are correctly excluded from scheduled publishing".                 *)
OnlyScheduledIsListed ==
  [][\A t \in Ticks : List(t) => \A d \in Listed(t)' : at[d] # NoDate]_vars

(* unpublish "reverts a published record to draft and clears publishedAt". *)
UnpublishClearsDate ==
  [][\A r \in Requests :
       Write(r) /\ req[r].op = "unpublish" /\ status[req[r].doc] = "published"
         => at'[req[r].doc] = NoDate]_vars
=============================================================================
