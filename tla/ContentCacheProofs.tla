-------------------------- MODULE ContentCacheProofs --------------------------
(* Type correctness and freshness of the content cache, for any number of  *)
(* records, of concurrent requests and of writes.                          *)
EXTENDS ContentCache, TLAPS

ReadPcs == {"idle", "probe", "fetch", "rekey", "store"}
WritePcs == {"idle", "update", "emit", "job"}

(* What the state of a request is made of.                                 *)
LEMMA ReadingType ==
  \A pc, src, s, body, asOf :
    /\ pc \in ReadPcs /\ src \in Sources \cup {{}} /\ s \in Nat
    /\ body \in Bodies /\ asOf \in Nat
    => /\ Reading(pc, src, s, body, asOf) \in ReadStates
       /\ Reading(pc, src, s, body, asOf).pc = pc
       /\ Reading(pc, src, s, body, asOf).src = src
       /\ Reading(pc, src, s, body, asOf).stamp = s
       /\ Reading(pc, src, s, body, asOf).body = body
       /\ Reading(pc, src, s, body, asOf).asOf = asOf
BY DEF Reading, ReadStates, ReadPcs

(* What the fields of a reader's progress range over.                      *)
LEMMA ReadFields ==
  ASSUME NEW x \in ReadStates
  PROVE  /\ x.pc \in ReadPcs
         /\ x.src \in Sources \cup {{}}
         /\ x.stamp \in Nat
         /\ x.body \in Bodies
         /\ x.asOf \in Nat
BY DEF ReadStates, ReadPcs

(* A writer's progress, field by field.                                    *)
LEMMA WritingType ==
  ASSUME NEW pc \in WritePcs, NEW dirty \in SUBSET Ids, NEW due \in SUBSET Ids
  PROVE  /\ Writing(pc, dirty, due) \in WriteStates
         /\ Writing(pc, dirty, due).pc = pc
         /\ Writing(pc, dirty, due).dirty = dirty
         /\ Writing(pc, dirty, due).due = due
BY DEF Writing, WriteStates, WritePcs

(* What the fields of a writer's progress range over.                      *)
LEMMA WriteFields ==
  ASSUME NEW x \in WriteStates
  PROVE  /\ x.pc \in WritePcs
         /\ x.dirty \in SUBSET Ids
         /\ x.due \in SUBSET Ids
BY DEF WriteStates, WritePcs

(* The empty body is a body.                                               *)
LEMMA NoBodyType == NoBody \in Bodies
BY DEF NoBody, Bodies

(* Readers and writers at rest.                                            *)
LEMMA IdleTypes ==
  /\ IdleRead \in ReadStates /\ IdleRead.pc = "idle" /\ IdleRead.stamp = 0
  /\ IdleWrite \in WriteStates /\ IdleWrite.pc = "idle" /\ IdleWrite.dirty = {}
<1>1. NoBody \in Bodies /\ {} \in Sources \cup {{}} /\ {} \in SUBSET Ids
  BY NoBodyType
<1>2. "idle" \in ReadPcs /\ "idle" \in WritePcs
  BY DEF ReadPcs, WritePcs
<1>3. IdleRead \in ReadStates /\ IdleRead.pc = "idle" /\ IdleRead.stamp = 0
  <2>1. /\ Reading("idle", {}, 0, NoBody, 0) \in ReadStates
        /\ Reading("idle", {}, 0, NoBody, 0).pc = "idle"
        /\ Reading("idle", {}, 0, NoBody, 0).stamp = 0
    BY <1>1, <1>2, ReadingType
  <2> QED
    BY <2>1 DEF IdleRead
<1>4. IdleWrite \in WriteStates /\ IdleWrite.pc = "idle" /\ IdleWrite.dirty = {}
  BY <1>1, <1>2, WritingType DEF IdleWrite
<1> QED
  BY <1>3, <1>4

(* What a query of the database returns is a body.                         *)
LEMMA BodyType == ASSUME TypeOK, NEW src PROVE Body(src) \in Bodies
BY DEF TypeOK, Body, Bodies

(* Each action keeps every variable in its type.                           *)
LEMMA TypeStep == TypeOK /\ [Next]_vars => TypeOK'
<1> SUFFICES ASSUME TypeOK, [Next]_vars PROVE TypeOK'
  OBVIOUS
<1>r. ASSUME NEW r \in Readers, ReadStamp(r) \/ ReadProgress(r) PROVE TypeOK'
  <2> DEFINE New == rd'[r]
  <2>1. /\ rd[r].pc \in ReadPcs
        /\ rd[r].src \in Sources \cup {{}}
        /\ rd[r].stamp \in Nat
        /\ rd[r].body \in Bodies
        /\ rd[r].asOf \in Nat
        /\ rd[r].pc # "idle" => rd[r].src \in Sources
    BY ReadFields DEF TypeOK
  <2>2. SUFFICES /\ New \in ReadStates
                 /\ New.pc # "idle" => New.src \in Sources
                 /\ rd' = [rd EXCEPT ![r] = New]
                 /\ entries' \in SUBSET Entries
                 /\ UNCHANGED <<rev, live, requests, stamp, wr, silent>>
    BY DEF TypeOK
  <2>3. {"idle", "probe", "fetch", "rekey", "store"} = ReadPcs
    BY DEF ReadPcs
  <2>4. CASE ReadStamp(r)
    BY <2>3, <2>4, ReadingType, NoBodyType DEF ReadStamp, TypeOK
  <2>5. CASE Hit(r)
    BY <2>5, IdleTypes DEF Hit, TypeOK
  <2>6. CASE Miss(r)
    <3>1. rd' = [rd EXCEPT ![r] = Reading("fetch", rd[r].src, 0, NoBody, 0)]
      BY <2>6 DEF Miss
    <3>2. rd[r].src \in Sources
      BY <2>1, <2>6 DEF Miss
    <3>3. New = Reading("fetch", rd[r].src, 0, NoBody, 0)
      BY <3>1 DEF TypeOK
    <3>4. New \in ReadStates /\ New.src = rd[r].src
      BY <2>3, <3>2, <3>3, ReadingType, NoBodyType
    <3> QED
      BY <2>6, <3>1, <3>2, <3>3, <3>4 DEF Miss, TypeOK
  <2>7. CASE Fetch(r)
    <3> DEFINE Got == Reading("rekey", rd[r].src, 0, Body(rd[r].src), stamp)
    <3>1. /\ New = Got \/ New = IdleRead
          /\ rd' = [rd EXCEPT ![r] = New]
          /\ UNCHANGED <<rev, live, requests, stamp, entries, wr, silent>>
      BY <2>7 DEF Fetch, TypeOK
    <3>2. rd[r].src \in Sources
      BY <2>1, <2>7 DEF Fetch
    <3>3. stamp \in Nat /\ Body(rd[r].src) \in Bodies
      BY BodyType DEF TypeOK
    <3>4. Got \in ReadStates /\ Got.src = rd[r].src
      BY <2>3, <3>2, <3>3, ReadingType
    <3> QED
      BY <3>1, <3>2, <3>4, IdleTypes DEF TypeOK
  <2>8. CASE Rekey(r)
    <3>1. rd' = [rd EXCEPT ![r] =
                   Reading("store", rd[r].src, stamp, rd[r].body, rd[r].asOf)]
      BY <2>8 DEF Rekey
    <3>2. rd[r].src \in Sources
      BY <2>1, <2>8 DEF Rekey
    <3>3. New = Reading("store", rd[r].src, stamp, rd[r].body, rd[r].asOf)
      BY <3>1 DEF TypeOK
    <3>4. stamp \in Nat
      BY DEF TypeOK
    <3>5. New \in ReadStates /\ New.src = rd[r].src
      <4>1. /\ "store" \in ReadPcs
            /\ rd[r].src \in Sources \cup {{}}
            /\ rd[r].body \in Bodies
            /\ rd[r].asOf \in Nat
        BY <2>1, <2>3
      <4> HIDE DEF New
      <4> QED
        BY <3>3, <3>4, <4>1, ReadingType
    <3> QED
      BY <2>8, <3>1, <3>2, <3>3, <3>5 DEF Rekey, TypeOK
  <2>9. CASE Store(r)
    BY <2>1, <2>9, IdleTypes DEF Store, TypeOK, Entries
  <2> QED
    BY <1>r, <2>4, <2>5, <2>6, <2>7, <2>8, <2>9 DEF ReadProgress
<1>w. ASSUME NEW w \in Writers, WriteStart(w) \/ WriteProgress(w) PROVE TypeOK'
  <2> USE DEF Accepted, Written
  <2>0. /\ wr[w].dirty \in SUBSET Ids
        /\ wr[w].due \in SUBSET Ids
    BY WriteFields DEF TypeOK
  <2>p. {"idle", "update", "emit", "job"} = WritePcs
    BY DEF WritePcs
  <2> DEFINE Kept == UNCHANGED <<entries, rd>> /\ stamp' \in Nat /\ silent' \in SUBSET Ids
  <2>q. ASSUME wr' \in [Writers -> WriteStates], live' \in SUBSET Ids,
               rev' \in Bodies, requests' \in Nat, Kept
        PROVE  TypeOK'
    BY <2>q DEF TypeOK
  <2>1. CASE Create(w)
    BY <2>1, <2>p, <2>q, WritingType DEF Create, TypeOK, Bodies
  <2>2. CASE GetBefore(w)
    BY <2>2, <2>p, <2>q, WritingType DEF GetBefore, TypeOK
  <2>3. CASE Delete(w)
    BY <2>3, <2>p, <2>q, WritingType DEF Delete, TypeOK, Bodies
  <2>4. CASE Schedule(w)
    BY <2>4, <2>q DEF Schedule, TypeOK, Bodies
  <2>5. CASE JobList(w)
    BY <2>5, <2>p, <2>q, WritingType DEF JobList, TypeOK
  <2>6. CASE UpdateGone(w)
    BY <2>6, <2>q, IdleTypes DEF UpdateGone, TypeOK
  <2>7. CASE Update(w)
    BY <2>7, <2>p, <2>q, WritingType DEF Update, TypeOK, Bodies
  <2>8. CASE UpdateNothing(w)
    BY <2>8, <2>p, <2>q, WritingType DEF UpdateNothing, TypeOK
  <2>9. CASE EmitInvalidates(w)
    BY <2>9, <2>q, IdleTypes DEF EmitInvalidates, Invalidate, TypeOK
  <2>10. CASE EmitFails(w)
    BY <2>0, <2>10, <2>q, IdleTypes DEF EmitFails, TypeOK
  <2>11. CASE JobPublish(w)
    BY <2>0, <2>11, <2>p, <2>q, WritingType DEF JobPublish, TypeOK, Bodies
  <2>12. CASE JobSkip(w)
    BY <2>0, <2>12, <2>p, <2>q, WritingType DEF JobSkip, TypeOK
  <2>13. CASE JobAbort(w)
    BY <2>0, <2>13, <2>q, IdleTypes DEF JobAbort, TypeOK
  <2>14. CASE JobFinish(w)
    BY <2>0, <2>14, <2>q, IdleTypes DEF JobFinish, Invalidate, TypeOK
  <2> QED
    BY <1>w, <2>1, <2>2, <2>3, <2>4, <2>5, <2>6, <2>7, <2>8, <2>9, <2>10,
       <2>11, <2>12, <2>13, <2>14 DEF WriteStart, WriteProgress
<1>e. ASSUME NEW e \in entries, Expire(e.src, e.stamp) PROVE TypeOK'
  BY <1>e DEF Expire, TypeOK
<1>u. CASE UNCHANGED vars
  BY <1>u DEF vars, TypeOK
<1> QED
  BY <1>r, <1>w, <1>e, <1>u DEF Next

(* The state variables keep their types in every behaviour.                *)
THEOREM TypeCorrect == Spec => []TypeOK
<1>1. Init => TypeOK
  BY IdleTypes DEF Init, TypeOK, Bodies
<1> QED
  BY <1>1, TypeStep, PTL DEF Spec

-----------------------------------------------------------------------------
(* Freshness.                                                              *)

(* A step that leaves the cache alone and answers for what it writes keeps *)
(* every current body current.                                             *)
LEMMA WriteKeeps ==
  ASSUME TypeOK, FreshInv, UNCHANGED <<entries, rd, stamp>>, WritersAnswer',
         Uncovered \subseteq Uncovered',
         \A i \in Ids : rev'[i] = rev[i] \/ i \in Uncovered'
  PROVE  FreshInv'
<1>1. ASSUME NEW src \in Sources \cup {{}}, NEW body, Current(src, body)
      PROVE  Current(src, body)'
  BY <1>1 DEF Current, Sources
<1>2. FreshUnlessRaced'
  BY <1>1 DEF FreshUnlessRaced, FreshInv, Reachable, Raced, TypeOK, Entries
<1>3. FillsCurrent'
  <2> SUFFICES ASSUME NEW r \in Readers, rd[r].pc \in {"rekey", "store"}
               PROVE  /\ rd[r].asOf <= stamp
                      /\ rd[r].asOf = stamp => Current(rd[r].src, rd[r].body)'
    BY DEF FillsCurrent
  <2>1. rd[r].src \in Sources \cup {{}}
    BY ReadFields DEF TypeOK
  <2> QED
    BY <1>1, <2>1 DEF FillsCurrent, FreshInv
<1>4. StampsIssued'
  BY DEF StampsIssued, FreshInv
<1> QED
  BY <1>2, <1>3, <1>4 DEF FreshInv

(* A fresh stamp puts every entry and every fill out of reach.             *)
LEMMA InvalidateKeeps ==
  ASSUME TypeOK, FreshInv, Invalidate, UNCHANGED <<entries, rd>>, WritersAnswer'
  PROVE  FreshInv'
<1> USE DEF Invalidate
<1>1. /\ \A e \in entries : e.stamp \in Nat
      /\ \A r \in Readers : rd[r].stamp \in Nat /\ rd[r].asOf \in Nat
      /\ stamp \in Nat
  BY ReadFields DEF TypeOK, Entries
<1>2. FreshUnlessRaced'
  BY <1>1 DEF FreshUnlessRaced, FreshInv, Reachable, StampsIssued
<1>3. FillsCurrent'
  BY <1>1 DEF FillsCurrent, FreshInv
<1>4. StampsIssued'
  BY <1>1 DEF StampsIssued, FreshInv
<1> QED
  BY <1>2, <1>3, <1>4 DEF FreshInv

(* A reader's steps keep the strengthened invariant.                       *)
LEMMA FreshReadStep ==
  ASSUME TypeOK, FreshInv, NEW r \in Readers, ReadStamp(r) \/ ReadProgress(r)
  PROVE  FreshInv'
<1>1. UNCHANGED <<rev, stamp, wr, silent>>
  BY DEF ReadProgress, ReadStamp, Hit, Miss, Fetch, Rekey, Store
<1>2. \A src, body : Current(src, body)' <=> Current(src, body)
  BY <1>1 DEF Current, Uncovered
<1>3. WritersAnswer'
  BY <1>1 DEF FreshInv, WritersAnswer
<1>4. /\ rd[r].pc \in ReadPcs /\ rd[r].src \in Sources \cup {{}}
      /\ rd[r].stamp \in Nat /\ rd[r].body \in Bodies /\ rd[r].asOf \in Nat
      /\ stamp \in Nat /\ 0 \in Nat /\ 0 <= stamp
      /\ rd[r].pc # "idle" => rd[r].src \in Sources
  BY ReadFields DEF TypeOK
<1>5. {"idle", "probe", "fetch", "rekey", "store"} = ReadPcs
  BY DEF ReadPcs
<1>6. ASSUME entries' = entries, rd'[r].stamp <= stamp,
             \A q \in Readers : q # r => rd'[q] = rd[q],
             rd'[r].pc \in {"rekey", "store"} =>
               /\ rd'[r].asOf <= stamp
               /\ rd'[r].asOf = stamp => Current(rd'[r].src, rd'[r].body)
      PROVE  FreshInv'
  <2>1. FreshUnlessRaced'
    BY <1>1, <1>2, <1>6 DEF FreshInv, FreshUnlessRaced, Reachable, Raced
  <2>2. FillsCurrent'
    <3> SUFFICES ASSUME NEW q \in Readers, rd'[q].pc \in {"rekey", "store"}
                 PROVE  /\ rd'[q].asOf <= stamp
                        /\ rd'[q].asOf = stamp => Current(rd'[q].src, rd'[q].body)
      BY <1>1, <1>2 DEF FillsCurrent, Current, Uncovered
    <3> QED
      BY <1>6 DEF FreshInv, FillsCurrent
  <2>3. StampsIssued'
    BY <1>1, <1>6 DEF FreshInv, StampsIssued
  <2> QED
    BY <1>3, <2>1, <2>2, <2>3 DEF FreshInv
<1>7. CASE ReadStamp(r)
  <2>1. /\ entries' = entries /\ \A q \in Readers : q # r => rd'[q] = rd[q]
        /\ \E src \in Sources : rd'[r] = Reading("probe", src, stamp, NoBody, 0)
    BY <1>7 DEF ReadStamp, TypeOK
  <2>2. rd'[r].pc = "probe" /\ rd'[r].stamp = stamp
    BY <1>4, <1>5, <2>1, ReadingType, NoBodyType
  <2> QED
    BY <1>4, <1>6, <2>1, <2>2
<1>8. CASE Hit(r)
  BY <1>4, <1>6, <1>8, IdleTypes DEF Hit, TypeOK
<1>9. CASE Miss(r)
  <2>1. /\ entries' = entries /\ \A q \in Readers : q # r => rd'[q] = rd[q]
        /\ rd'[r] = Reading("fetch", rd[r].src, 0, NoBody, 0)
    BY <1>9 DEF Miss, TypeOK
  <2>2. rd'[r].pc = "fetch" /\ rd'[r].stamp = 0
    BY <1>4, <1>5, <2>1, ReadingType, NoBodyType
  <2> QED
    BY <1>4, <1>6, <2>1, <2>2
<1>10. CASE Fetch(r)
  <2> DEFINE Got == Reading("rekey", rd[r].src, 0, Body(rd[r].src), stamp)
  <2>1. /\ entries' = entries /\ \A q \in Readers : q # r => rd'[q] = rd[q]
        /\ rd'[r] = Got \/ rd'[r] = IdleRead
    BY <1>10 DEF Fetch, TypeOK
  <2>2. /\ Got.stamp = 0 /\ Got.asOf = stamp
        /\ Got.src = rd[r].src /\ Got.body = Body(rd[r].src)
    BY <1>4, <1>5, BodyType, ReadingType
  <2>3. Current(rd[r].src, Body(rd[r].src))
    BY <1>4 DEF Current, Body, Sources
  <2> QED
    BY <1>4, <1>6, <2>1, <2>2, <2>3, IdleTypes
<1>11. CASE Rekey(r)
  <2>1. /\ entries' = entries /\ \A q \in Readers : q # r => rd'[q] = rd[q]
        /\ rd'[r] = Reading("store", rd[r].src, stamp, rd[r].body, rd[r].asOf)
        /\ rd[r].pc = "rekey"
    BY <1>11 DEF Rekey, TypeOK
  <2>2. /\ rd'[r].stamp = stamp /\ rd'[r].asOf = rd[r].asOf
        /\ rd'[r].src = rd[r].src /\ rd'[r].body = rd[r].body
    BY <1>4, <1>5, <2>1, ReadingType
  <2> QED
    BY <1>4, <1>6, <2>1, <2>2 DEF FreshInv, FillsCurrent
<1>12. CASE Store(r)
  <2> DEFINE New == [src |-> rd[r].src, stamp |-> rd[r].stamp,
                     body |-> rd[r].body, asOf |-> rd[r].asOf]
  <2>1. /\ entries' \subseteq entries \cup {New}
        /\ \A q \in Readers : q # r => rd'[q] = rd[q]
        /\ rd'[r] = IdleRead
        /\ rd[r].pc = "store"
    BY <1>12 DEF Store, TypeOK
  <2>2. New.stamp <= stamp
    BY DEF FreshInv, StampsIssued
  <2>3. FreshUnlessRaced'
    <3> SUFFICES ASSUME NEW e \in entries', e.stamp = stamp, e.asOf = e.stamp
                 PROVE  Current(e.src, e.body)
      BY <1>1, <1>2 DEF FreshUnlessRaced, Reachable, Raced
    <3> QED
      BY <2>1 DEF FreshInv, FreshUnlessRaced, FillsCurrent, Reachable, Raced
  <2>4. FillsCurrent'
    <3> SUFFICES ASSUME NEW q \in Readers, rd'[q].pc \in {"rekey", "store"}
                 PROVE  /\ rd'[q].asOf <= stamp
                        /\ rd'[q].asOf = stamp => Current(rd'[q].src, rd'[q].body)
      BY <1>1, <1>2 DEF FillsCurrent, Current, Uncovered
    <3> QED
      BY <2>1, IdleTypes DEF FreshInv, FillsCurrent
  <2>5. StampsIssued'
    BY <1>1, <1>4, <2>1, <2>2, IdleTypes DEF FreshInv, StampsIssued
  <2> QED
    BY <1>3, <2>3, <2>4, <2>5 DEF FreshInv
<1> QED
  BY <1>7, <1>8, <1>9, <1>10, <1>11, <1>12 DEF ReadProgress

(* A writer's steps keep the strengthened invariant.                       *)
LEMMA FreshWriteStep ==
  ASSUME TypeOK, FreshInv, NEW w \in Writers, WriteStart(w) \/ WriteProgress(w)
  PROVE  FreshInv'
<1> USE DEF Accepted, Written
<1>0. /\ wr[w].pc \in WritePcs
      /\ wr[w].dirty \in SUBSET Ids
      /\ wr[w].due \in SUBSET Ids
      /\ wr[w].pc \in {"idle", "update"} => wr[w].dirty = {}
  BY WriteFields DEF TypeOK, FreshInv, WritersAnswer
<1>1. {"idle", "update", "emit", "job"} = WritePcs
  BY DEF WritePcs
(* A step that puts St in place of the writer's state, changes at most one *)
(* record and remembers it in St or in silent.                             *)
<1>2. ASSUME NEW St, wr' = [wr EXCEPT ![w] = St],
             UNCHANGED <<entries, rd, stamp>>,
             St.pc \in {"idle", "update"} => St.dirty = {},
             silent \subseteq silent',
             wr[w].dirty \subseteq St.dirty \cup silent',
             \A i \in Ids : rev'[i] = rev[i] \/ i \in St.dirty \cup silent'
      PROVE  FreshInv'
  <2>1. WritersAnswer'
    BY <1>2 DEF TypeOK, FreshInv, WritersAnswer
  <2>2. wr'[w] = St /\ \A v \in Writers : v # w => wr'[v] = wr[v]
    BY <1>2 DEF TypeOK
  <2>3. Uncovered \subseteq Uncovered'
    BY <1>2, <2>2 DEF Uncovered
  <2>4. \A i \in Ids : rev'[i] = rev[i] \/ i \in Uncovered'
    BY <1>2, <2>2 DEF Uncovered
  <2> QED
    BY <1>2, <2>1, <2>3, <2>4, WriteKeeps
<1>3. ASSUME wr' = [wr EXCEPT ![w] = IdleWrite], Invalidate,
             UNCHANGED <<entries, rd>>
      PROVE  FreshInv'
  <2>1. WritersAnswer'
    BY <1>3, IdleTypes DEF TypeOK, FreshInv, WritersAnswer
  <2> QED
    BY <1>3, <2>1, InvalidateKeeps
<1>4. CASE Create(w)
  <2>1. PICK i \in Ids : /\ wr' = [wr EXCEPT ![w] = Writing("emit", {i}, {})]
                         /\ rev' = [rev EXCEPT ![i] = @ + 1]
    BY <1>4 DEF Create
  <2>2. Writing("emit", {i}, {}).dirty = {i} /\ Writing("emit", {i}, {}).pc = "emit"
    BY <1>1, WritingType
  <2> QED
    BY <1>0, <1>2, <1>4, <2>1, <2>2 DEF Create, TypeOK, Bodies
<1>5. CASE GetBefore(w)
  <2>1. PICK i \in Ids : wr' = [wr EXCEPT ![w] = Writing("update", {}, {i})]
    BY <1>5 DEF GetBefore, TypeOK
  <2>2. Writing("update", {}, {i}).dirty = {}
    BY <1>1, WritingType
  <2> QED
    BY <1>0, <1>2, <1>5, <2>1, <2>2 DEF GetBefore
<1>6. CASE Delete(w)
  <2>1. PICK i \in Ids :
          /\ wr' = [wr EXCEPT ![w] = Writing("emit", {i} \cap live, {})]
          /\ \/ i \in live /\ rev' = [rev EXCEPT ![i] = @ + 1]
             \/ rev' = rev
    BY <1>6 DEF Delete
  <2>2. /\ Writing("emit", {i} \cap live, {}).dirty = {i} \cap live
        /\ Writing("emit", {i} \cap live, {}).pc = "emit"
    BY <1>1, WritingType
  <2> DEFINE St == Writing("emit", {i} \cap live, {})
  <2>3. \A j \in Ids : rev'[j] = rev[j] \/ j \in St.dirty
    BY <2>1, <2>2 DEF TypeOK, Bodies
  <2>4. /\ UNCHANGED <<entries, rd, stamp, silent>>
        /\ wr[w].dirty = {}
    BY <1>0, <1>6 DEF Delete
  <2> QED
    BY <1>2, <2>1, <2>2, <2>3, <2>4
<1>7. CASE Schedule(w)
  <2>1. PICK i \in Ids : /\ rev' = [rev EXCEPT ![i] = @ + 1]
                         /\ silent' = silent \cup {i}
    BY <1>7 DEF Schedule, TypeOK
  <2>2. Uncovered \subseteq Uncovered' /\ i \in Uncovered'
    BY <1>7, <2>1 DEF Schedule, Uncovered
  <2>3. WritersAnswer'
    BY <1>7 DEF Schedule, FreshInv, WritersAnswer
  <2> QED
    BY <1>7, <2>1, <2>2, <2>3, WriteKeeps DEF Schedule, TypeOK, Bodies
<1>8. CASE JobList(w)
  <2>1. PICK due \in SUBSET Ids : wr' = [wr EXCEPT ![w] = Writing("job", {}, due)]
    BY <1>8 DEF JobList, TypeOK
  <2>2. Writing("job", {}, due).dirty = {} /\ Writing("job", {}, due).pc = "job"
    BY <1>1, WritingType
  <2> QED
    BY <1>0, <1>2, <1>8, <2>1, <2>2 DEF JobList
<1>9. CASE UpdateGone(w)
  BY <1>0, <1>2, <1>9, IdleTypes DEF UpdateGone
<1>10. CASE Update(w)
  <2>1. PICK i \in Ids : /\ wr' = [wr EXCEPT ![w] = Writing("emit", {i}, {})]
                         /\ rev' = [rev EXCEPT ![i] = @ + 1]
    BY <1>0, <1>10 DEF Update
  <2>2. Writing("emit", {i}, {}).dirty = {i} /\ Writing("emit", {i}, {}).pc = "emit"
    BY <1>1, WritingType
  <2> QED
    BY <1>0, <1>2, <1>10, <2>1, <2>2 DEF Update, TypeOK, Bodies
<1>11. CASE UpdateNothing(w)
  <2>1. Writing("emit", {}, {}).dirty = {} /\ Writing("emit", {}, {}).pc = "emit"
    BY <1>1, WritingType
  <2> QED
    BY <1>0, <1>2, <1>11, <2>1 DEF UpdateNothing
<1>12. CASE EmitInvalidates(w)
  BY <1>3, <1>12 DEF EmitInvalidates
<1>13. CASE EmitFails(w)
  BY <1>0, <1>2, <1>13, IdleTypes DEF EmitFails
<1>14. CASE JobPublish(w)
  <2>1. PICK i \in Ids :
          /\ wr' = [wr EXCEPT ![w] =
                      Writing("job", wr[w].dirty \cup {i}, wr[w].due \ {i})]
          /\ rev' = [rev EXCEPT ![i] = @ + 1]
    BY <1>0, <1>14 DEF JobPublish
  <2> DEFINE St == Writing("job", wr[w].dirty \cup {i}, wr[w].due \ {i})
  <2>2. St.dirty = wr[w].dirty \cup {i} /\ St.pc = "job"
    BY <1>0, <1>1, WritingType
  <2> QED
    BY <1>0, <1>2, <1>14, <2>1, <2>2 DEF JobPublish, TypeOK, Bodies
<1>15. CASE JobSkip(w)
  <2>1. PICK i \in Ids :
          wr' = [wr EXCEPT ![w] = Writing("job", wr[w].dirty, wr[w].due \ {i})]
    BY <1>0, <1>15 DEF JobSkip
  <2> DEFINE St == Writing("job", wr[w].dirty, wr[w].due \ {i})
  <2>2. St.dirty = wr[w].dirty /\ St.pc = "job"
    BY <1>0, <1>1, WritingType
  <2> QED
    BY <1>0, <1>2, <1>15, <2>1, <2>2 DEF JobSkip
<1>16. CASE JobAbort(w)
  BY <1>0, <1>2, <1>16, IdleTypes DEF JobAbort
<1>17. CASE JobFinish(w)
  BY <1>0, <1>2, <1>3, <1>17, IdleTypes DEF JobFinish
<1> QED
  BY <1>4, <1>5, <1>6, <1>7, <1>8, <1>9, <1>10, <1>11, <1>12, <1>13, <1>14,
     <1>15, <1>16, <1>17 DEF WriteStart, WriteProgress

(* So does every step of the cache.                                        *)
LEMMA FreshStep == TypeOK /\ FreshInv /\ [Next]_vars => FreshInv'
<1> SUFFICES ASSUME TypeOK, FreshInv, [Next]_vars PROVE FreshInv'
  OBVIOUS
<1>e. ASSUME NEW e \in entries, Expire(e.src, e.stamp) PROVE FreshInv'
  BY <1>e DEF Expire, FreshInv, FreshUnlessRaced, FillsCurrent, StampsIssued,
              WritersAnswer, Reachable, Raced, Current, Uncovered
<1>u. CASE UNCHANGED vars
  BY <1>u DEF vars, FreshInv, FreshUnlessRaced, FillsCurrent, StampsIssued,
              WritersAnswer, Reachable, Raced, Current, Uncovered
<1> QED
  BY <1>e, <1>u, FreshReadStep, FreshWriteStep DEF Next

(* However the requests interleave, and whatever number of them there is,  *)
(* an entry under the current stamp agrees with the database on every      *)
(* record whose last write has been followed by an invalidation, unless    *)
(* its own fill was raced by an invalidation.                              *)
THEOREM CacheIsFresh == Spec => []FreshUnlessRaced
<1>1. Init => FreshInv
  BY IdleTypes DEF Init, FreshInv, FreshUnlessRaced, FillsCurrent, StampsIssued,
                   WritersAnswer
<1>2. FreshInv => FreshUnlessRaced
  BY DEF FreshInv
<1> QED
  BY <1>1, <1>2, FreshStep, TypeCorrect, PTL DEF Spec
=============================================================================
