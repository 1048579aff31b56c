---------------------------- MODULE ContentCache ----------------------------
(***************************************************************************)
(* The content REST routes of one collection behind the read-through       *)
(* content cache.                                                          *)
(*                                                                         *)
(* A GET reads the collection's version stamp, probes the entry kept under *)
(* (request, stamp) and, on a miss, lets the route read the database,      *)
(* reads the stamp a SECOND time and stores the body under it.  A write    *)
(* changes the database and then emits a content event, whose              *)
(* content-cache handler replaces the stamp by a fresh UUID, so that every *)
(* entry under the old stamp becomes unreachable.  Every `await' between   *)
(* these steps lets the other requests run.                                *)
(*                                                                         *)
(* What a request asks for is the set of records its response depends on:  *)
(* one record for GET /api/<collection>/:id, all of them for the list.     *)
(* What a record contains is the number of writes made to it so far, its   *)
(* deletion included.                                                      *)
(***************************************************************************)
EXTENDS Integers, FiniteSets

CONSTANTS
  Ids,            (* record ids of the collection                           *)
  Readers,        (* GET requests that may be in flight at one time         *)
  Writers,        (* mutating requests and job ticks in flight at one time  *)
  MaxRequests,    (* bound on the number of mutating requests and job ticks *)
  SilentWrites,   (* TRUE: the drafts plugin's schedule/unschedule routes,  *)
                  (*   which emit no event, are mounted                     *)
  CoreJob,        (* TRUE: jobs-runtime's own scheduled-publish job runs    *)
  DefaultPrefix,  (* TRUE: content-cache keeps the default key prefix       *)
  CacheCanFail    (* TRUE: the cache adapter is remote, a set may be lost   *)

ASSUME ContentCacheAssumption ==
  /\ MaxRequests \in Nat
  /\ SilentWrites \in BOOLEAN
  /\ CoreJob \in BOOLEAN
  /\ DefaultPrefix \in BOOLEAN
  /\ CacheCanFail \in BOOLEAN

VARIABLES
  rev,      (* rev[i]: number of writes to record i so far                  *)
  live,     (* the records that exist                                       *)
  requests, (* mutating requests and job ticks accepted so far              *)
  stamp,    (* the collection's version stamp; a fresh UUID is stamp + 1    *)
  entries,  (* unexpired cache entries                                      *)
  rd,       (* rd[r]: progress of a GET                                     *)
  wr,       (* wr[w]: progress of a write or of a job tick                  *)
  silent    (* records written since the last stamp by a request that       *)
            (* ended without replacing it (history variable)                *)

vars == <<rev, live, requests, stamp, entries, rd, wr, silent>>

Sources == {{i} : i \in Ids} \cup {Ids}

(* The response body for a source, from the database as it is now.         *)
Body(src) == [i \in Ids |-> IF i \in src THEN rev[i] ELSE 0]

NoBody == [i \in Ids |-> 0]

(* A GET in progress: the source it asks for, the stamp it last read, the  *)
(* body it got and (history) the stamp that was current then.              *)
Reading(pc, src, s, body, asOf) ==
  [pc |-> pc, src |-> src, stamp |-> s, body |-> body, asOf |-> asOf]

(* A write in progress: the records it wrote and has not invalidated, and  *)
(* those it is about to write.                                             *)
Writing(pc, dirty, due) == [pc |-> pc, dirty |-> dirty, due |-> due]

IdleRead  == Reading("idle", {}, 0, NoBody, 0)
IdleWrite == Writing("idle", {}, {})

Init ==
  /\ rev = [i \in Ids |-> 0]
  /\ live \in SUBSET Ids
  /\ requests = 0
  /\ stamp = 0
  /\ entries = {}
  /\ rd = [r \in Readers |-> IdleRead]
  /\ wr = [w \in Writers |-> IdleWrite]
  /\ silent = {}

-----------------------------------------------------------------------------
(* GET through the cache middleware.                                       *)

Keyed(e, src, s) == e.src = src /\ e.stamp = s

(* readContentCache: await the stamp, build the key.                       *)
ReadStamp(r) ==
  /\ rd[r].pc = "idle"
  /\ \E src \in Sources :
       rd' = [rd EXCEPT ![r] = Reading("probe", src, stamp, NoBody, 0)]
  /\ UNCHANGED <<rev, live, requests, stamp, entries, wr, silent>>

(* The probe finds an entry: it is the response (200, or 304 when the      *)
(* client's etag is the entry's; the etag is a digest of the body, so      *)
(* either way the client ends up with the entry's body).                   *)
Hit(r) ==
  /\ rd[r].pc = "probe"
  /\ \E e \in entries : Keyed(e, rd[r].src, rd[r].stamp)
  /\ rd' = [rd EXCEPT ![r] = IdleRead]
  /\ UNCHANGED <<rev, live, requests, stamp, entries, wr, silent>>

Miss(r) ==
  /\ rd[r].pc = "probe"
  /\ ~ \E e \in entries : Keyed(e, rd[r].src, rd[r].stamp)
  /\ rd' = [rd EXCEPT ![r] = Reading("fetch", rd[r].src, 0, NoBody, 0)]
  /\ UNCHANGED <<rev, live, requests, stamp, entries, wr, silent>>

(* The route reads the database.  A list is always a 200; a single record  *)
(* that is gone is a 404, which the middleware does not cache.             *)
Fetch(r) ==
  /\ rd[r].pc = "fetch"
  /\ rd' = [rd EXCEPT ![r] =
       IF rd[r].src = Ids \/ rd[r].src \subseteq live
         THEN Reading("rekey", rd[r].src, 0, Body(rd[r].src), stamp)
         ELSE IdleRead]
  /\ UNCHANGED <<rev, live, requests, stamp, entries, wr, silent>>

(* Mutant of Rekey: the key that is stored loses the source of the request *)
RekeyWithoutSource(r) ==
  /\ rd[r].pc = "rekey"
  /\ rd' = [rd EXCEPT ![r] =
       Reading("store", {}, stamp, rd[r].body, rd[r].asOf)]
  /\ UNCHANGED <<rev, live, requests, stamp, entries, wr, silent>>

(* writeContentCache computes its key anew, with the stamp of this moment. *)
Rekey(r) ==
  /\ rd[r].pc = "rekey"
  /\ rd' = [rd EXCEPT ![r] =
       Reading("store", rd[r].src, stamp, rd[r].body, rd[r].asOf)]
  /\ UNCHANGED <<rev, live, requests, stamp, entries, wr, silent>>

Store(r) ==
  /\ rd[r].pc = "store"
  /\ entries' = {e \in entries : ~ Keyed(e, rd[r].src, rd[r].stamp)}
                  \cup {[src |-> rd[r].src, stamp |-> rd[r].stamp,
                         body |-> rd[r].body, asOf |-> rd[r].asOf]}
  /\ rd' = [rd EXCEPT ![r] = IdleRead]
  /\ UNCHANGED <<rev, live, requests, stamp, wr, silent>>

(* Mutant of Expire: only entries under earlier stamps are ever dropped.   *)
ExpireUnreachable(src, s) ==
  /\ s # stamp
  /\ \E e \in entries : Keyed(e, src, s)
  /\ entries' = {e \in entries : ~ Keyed(e, src, s)}
  /\ UNCHANGED <<rev, live, requests, stamp, rd, wr, silent>>

(* A ttl passes: `get' answers null from then on and deletes the entry, or *)
(* the sweep does.                                                         *)
Expire(src, s) ==
  /\ \E e \in entries : Keyed(e, src, s)
  /\ entries' = {e \in entries : ~ Keyed(e, src, s)}
  /\ UNCHANGED <<rev, live, requests, stamp, rd, wr, silent>>

-----------------------------------------------------------------------------
(* Writes.                                                                 *)

Accepted ==
  /\ requests < MaxRequests
  /\ requests' = requests + 1

Written(i) == rev' = [rev EXCEPT ![i] = @ + 1]

(* Mutant of Invalidate: the stamp's key is deleted instead of replaced,   *)
(* and a missing stamp reads as 0.                                         *)
InvalidateByDelete ==
  /\ stamp' = 0
  /\ silent' = {}

(* invalidateContentCache: the stamp becomes a fresh one.                  *)
Invalidate ==
  /\ stamp' = stamp + 1
  /\ silent' = {}

(* POST: db.create, then the emit of content:after-create is pending.      *)
Create(w) ==
  /\ wr[w].pc = "idle"
  /\ Accepted
  /\ \E i \in Ids \ live :
       /\ Written(i)
       /\ live' = live \cup {i}
       /\ wr' = [wr EXCEPT ![w] = Writing("emit", {i}, {})]
  /\ UNCHANGED <<stamp, entries, rd, silent>>

(* PATCH, PUT, publish and unpublish first await the record: 404 when it   *)
(* is gone (nothing changes).                                              *)
GetBefore(w) ==
  /\ wr[w].pc = "idle"
  /\ Accepted
  /\ \E i \in live :
       wr' = [wr EXCEPT ![w] = Writing("update", {}, {i})]
  /\ UNCHANGED <<rev, live, stamp, entries, rd, silent>>

(* db.update throws when a concurrent DELETE took the record: 500, no      *)
(* event.                                                                  *)
UpdateGone(w) ==
  /\ wr[w].pc = "update"
  /\ ~ (wr[w].due \subseteq live)
  /\ wr' = [wr EXCEPT ![w] = IdleWrite]
  /\ UNCHANGED <<rev, live, requests, stamp, entries, rd, silent>>

Update(w) ==
  /\ wr[w].pc = "update"
  /\ \E i \in wr[w].due \cap live :
       /\ Written(i)
       /\ wr' = [wr EXCEPT ![w] = Writing("emit", {i}, {})]
  /\ UNCHANGED <<live, requests, stamp, entries, rd, silent>>

(* publish of a published record and unpublish of a plain draft write      *)
(* nothing, but the drafts plugin emits its event all the same.            *)
UpdateNothing(w) ==
  /\ wr[w].pc = "update"
  /\ wr[w].due \subseteq live
  /\ wr' = [wr EXCEPT ![w] = Writing("emit", {}, {})]
  /\ UNCHANGED <<rev, live, requests, stamp, entries, rd, silent>>

(* DELETE: the event is emitted whether or not the record was there.       *)
Delete(w) ==
  /\ wr[w].pc = "idle"
  /\ Accepted
  /\ \E i \in Ids :
       /\ \/ i \in live /\ Written(i)
          \/ i \notin live /\ UNCHANGED rev
       /\ live' = live \ {i}
       /\ wr' = [wr EXCEPT ![w] = Writing("emit", {i} \cap live, {})]
  /\ UNCHANGED <<stamp, entries, rd, silent>>

(* The schedule and unschedule routes write the record and emit nothing.   *)
Schedule(w) ==
  /\ SilentWrites
  /\ wr[w].pc = "idle"
  /\ Accepted
  /\ \E i \in live :
       /\ Written(i)
       /\ silent' = silent \cup {i}
  /\ UNCHANGED <<live, stamp, entries, rd, wr>>

(* The emit reaches the content-cache handler, whatever its siblings do:   *)
(* the bus runs every handler and only then rethrows.                      *)
EmitInvalidates(w) ==
  /\ wr[w].pc = "emit"
  /\ Invalidate
  /\ wr' = [wr EXCEPT ![w] = IdleWrite]
  /\ UNCHANGED <<rev, live, requests, entries, rd>>

(* The cache cannot be reached: the handler rejects, the route answers 500 *)
(* and the database keeps the write.                                       *)
EmitFails(w) ==
  /\ CacheCanFail
  /\ wr[w].pc = "emit"
  /\ silent' = silent \cup wr[w].dirty
  /\ wr' = [wr EXCEPT ![w] = IdleWrite]
  /\ UNCHANGED <<rev, live, requests, stamp, entries, rd>>

-----------------------------------------------------------------------------
(* The scheduled-publish job that jobs-runtime registers itself: it writes *)
(* record after record without events and replaces the stamp at the end.   *)

JobList(w) ==
  /\ CoreJob
  /\ wr[w].pc = "idle"
  /\ Accepted
  /\ \E due \in SUBSET live \ {{}} :
       wr' = [wr EXCEPT ![w] = Writing("job", {}, due)]
  /\ UNCHANGED <<rev, live, stamp, entries, rd, silent>>

JobPublish(w) ==
  /\ wr[w].pc = "job"
  /\ \E i \in wr[w].due \cap live :
       /\ Written(i)
       /\ wr' = [wr EXCEPT ![w] = Writing("job", wr[w].dirty \cup {i}, wr[w].due \ {i})]
  /\ UNCHANGED <<live, requests, stamp, entries, rd, silent>>

(* The record was published in the meantime: it counts, nothing is written *)
JobSkip(w) ==
  /\ wr[w].pc = "job"
  /\ \E i \in wr[w].due \cap live :
       wr' = [wr EXCEPT ![w] = Writing("job", wr[w].dirty, wr[w].due \ {i})]
  /\ UNCHANGED <<rev, live, requests, stamp, entries, rd, silent>>

(* The record was deleted in the meantime: publishDocument throws and the  *)
(* tick ends there, before the stamp is replaced.                          *)
JobAbort(w) ==
  /\ wr[w].pc = "job"
  /\ \E i \in wr[w].due : i \notin live
  /\ silent' = silent \cup wr[w].dirty
  /\ wr' = [wr EXCEPT ![w] = IdleWrite]
  /\ UNCHANGED <<rev, live, requests, stamp, entries, rd>>

(* The job's key is the one of the default prefix.                         *)
JobFinish(w) ==
  /\ wr[w].pc = "job"
  /\ wr[w].due = {}
  /\ \/ DefaultPrefix /\ Invalidate
     \/ /\ ~ DefaultPrefix
        /\ silent' = silent \cup wr[w].dirty
        /\ UNCHANGED stamp
  /\ wr' = [wr EXCEPT ![w] = IdleWrite]
  /\ UNCHANGED <<rev, live, requests, entries, rd>>

-----------------------------------------------------------------------------
(* What carries on by itself once a request has been accepted.             *)
ReadProgress(r) == Hit(r) \/ Miss(r) \/ Fetch(r) \/ Rekey(r) \/ Store(r)

WriteProgress(w) ==
  \/ UpdateGone(w) \/ Update(w) \/ UpdateNothing(w)
  \/ EmitInvalidates(w) \/ EmitFails(w)
  \/ JobPublish(w) \/ JobSkip(w) \/ JobAbort(w) \/ JobFinish(w)

WriteStart(w) ==
  Create(w) \/ GetBefore(w) \/ Delete(w) \/ Schedule(w) \/ JobList(w)

Next ==
  \/ \E r \in Readers : ReadStamp(r) \/ ReadProgress(r)
  \/ \E w \in Writers : WriteStart(w) \/ WriteProgress(w)
  \/ \E e \in entries : Expire(e.src, e.stamp)

Spec == Init /\ [][Next]_vars

(* Requests that were accepted finish, and every entry's ttl passes; no    *)
(* request need ever arrive.                                               *)
Fairness ==
  /\ \A r \in Readers : WF_vars(ReadProgress(r))
  /\ \A w \in Writers : WF_vars(WriteProgress(w))
  /\ \A src \in Sources : \A s \in 0 .. MaxRequests : WF_vars(Expire(src, s))

FairSpec == Spec /\ Fairness

-----------------------------------------------------------------------------
(* Properties.                                                             *)

Bodies == [Ids -> Nat]

Entries == [src : Sources, stamp : Nat, body : Bodies, asOf : Nat]

ReadStates ==
  [pc : {"idle", "probe", "fetch", "rekey", "store"}, src : Sources \cup {{}},
   stamp : Nat, body : Bodies, asOf : Nat]

WriteStates ==
  [pc : {"idle", "update", "emit", "job"}, dirty : SUBSET Ids, due : SUBSET Ids]

TypeOK ==
  /\ rev \in Bodies
  /\ live \in SUBSET Ids
  /\ requests \in Nat
  /\ stamp \in Nat
  /\ entries \in SUBSET Entries
  /\ rd \in [Readers -> ReadStates]
  /\ wr \in [Writers -> WriteStates]
  /\ \A r \in Readers : rd[r].pc # "idle" => rd[r].src \in Sources
  /\ silent \in SUBSET Ids

(* The records whose last write no stamp covers yet: the writer has not    *)
(* come to its emit, or ended without one.                                 *)
Uncovered ==
  {i \in Ids : i \in silent \/ \E w \in Writers : i \in wr[w].dirty}

(* A body agrees with the database, but for uncovered records.             *)
Current(src, body) == \A i \in src \ Uncovered : body[i] = rev[i]

Reachable(e) == e.stamp = stamp

(* The stamp was replaced while the fill was under way, between the read   *)
(* of the body and the second read of the stamp.                           *)
Raced(e) == e.asOf # e.stamp

(* A GET that hits the cache answers what the database holds, unless the   *)
(* fill of the entry was raced by an invalidation or a write to one of its *)
(* records has not been followed by its invalidation: these are the only   *)
(* ways for the middleware and the event handler, whose steps interleave   *)
(* freely, to leave a stale entry under the current stamp.                 *)
FreshUnlessRaced ==
  \A e \in entries : Reachable(e) /\ ~Raced(e) => Current(e.src, e.body)

(* "The explicit invalidateCollectionCache call on every mutation ...      *)
(* eliminating the correctness window entirely": no entry under the        *)
(* current stamp is older than a covered write.                            *)
NoStaleWindow ==
  \A e \in entries : Reachable(e) => Current(e.src, e.body)

(* The strengthening of FreshUnlessRaced that every step preserves: a body *)
(* on its way into the cache is current too, until the stamp is replaced;  *)
(* no stamp in use is newer than the current one; and a writer answers for *)
(* what it wrote until its emit.                                           *)
FillsCurrent ==
  \A r \in Readers :
    rd[r].pc \in {"rekey", "store"} =>
      /\ rd[r].asOf <= stamp
      /\ rd[r].asOf = stamp => Current(rd[r].src, rd[r].body)

StampsIssued ==
  /\ \A e \in entries : e.stamp <= stamp
  /\ \A r \in Readers : rd[r].stamp <= stamp

WritersAnswer ==
  \A w \in Writers : wr[w].pc \in {"idle", "update"} => wr[w].dirty = {}

FreshInv == FreshUnlessRaced /\ FillsCurrent /\ StampsIssued /\ WritersAnswer

(* When the writes stop, the cache eventually serves what the database     *)
(* holds: a stale entry, however it came to be, lives for one ttl and is   *)
(* not written again.                                                      *)
Fresh == \A e \in entries : Reachable(e) => \A i \in e.src : e.body[i] = rev[i]
EventuallyFresh == <>[]Fresh
=============================================================================
