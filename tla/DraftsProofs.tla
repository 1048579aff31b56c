---------------------------- MODULE DraftsProofs ----------------------------
(* Type correctness of the draft and publish machine, for any number of    *)
(* records, of requests and of runs of the job, and two facts its readers  *)
(* rely on: publications are announced but for those that are named, and a *)
(* withdrawn schedule stays so.                                            *)
EXTENDS Drafts, TLAPS

(* A request's progress, field by field.                                   *)
LEMMA RequestType ==
  \A pc, op, doc :
    /\ pc \in {"idle", "write", "emit"} /\ op \in Ops
    /\ doc \in Docs \cup {0}
    => /\ Request(pc, op, doc) \in RequestStates
       /\ Request(pc, op, doc).pc = pc
       /\ Request(pc, op, doc).op = op
       /\ Request(pc, op, doc).doc = doc
BY DEF Request, RequestStates

(* What the fields of a request's progress range over.                     *)
LEMMA RequestFields ==
  ASSUME NEW x \in RequestStates
  PROVE  /\ x.pc \in {"idle", "write", "emit"}
         /\ x.op \in Ops
         /\ x.doc \in Docs \cup {0}
BY DEF RequestStates

(* A run's progress, field by field.                                       *)
LEMMA RunType ==
  \A pc, doc, due :
    /\ pc \in {"idle", "get", "write", "emit"} /\ doc \in Docs \cup {0}
    /\ due \in SUBSET Docs
    => /\ Run(pc, doc, due) \in RunStates
       /\ Run(pc, doc, due).pc = pc
       /\ Run(pc, doc, due).doc = doc
       /\ Run(pc, doc, due).due = due
BY DEF Run, RunStates

(* What the fields of a run's progress range over.                         *)
LEMMA RunFields ==
  ASSUME NEW x \in RunStates
  PROVE  /\ x.pc \in {"idle", "get", "write", "emit"}
         /\ x.doc \in Docs \cup {0}
         /\ x.due \in SUBSET Docs
BY DEF RunStates

(* Requests and runs at rest.                                              *)
LEMMA IdleTypes ==
  /\ IdleRequest \in RequestStates /\ IdleRequest.pc = "idle"
  /\ IdleRun \in RunStates /\ IdleRun.pc = "idle"
BY RequestType, RunType DEF IdleRequest, IdleRun, Ops

(* The current record of a request or a run that is not idle.              *)
LEMMA CurrentDoc ==
  ASSUME TypeOK
  PROVE  /\ \A r \in Requests :
              /\ req[r] \in RequestStates
              /\ req[r].op \in Ops
              /\ req[r].pc # "idle" => req[r].doc \in Docs
         /\ \A t \in Ticks :
              /\ tick[t] \in RunStates
              /\ tick[t].due \in SUBSET Docs
              /\ tick[t].pc # "idle" => tick[t].doc \in Docs
BY RequestFields, RunFields DEF TypeOK

(* Whoever publishes a record leaves its event to be told.                 *)
LEMMA TurnedType ==
  ASSUME TypeOK, NEW d \in Docs,
         NEW event \in {"none", "after-publish", "after-write"}, Turned(d, event)
  PROVE  /\ untold' \in [Docs -> {"none", "after-publish", "after-write"}]
         /\ lost' \in SUBSET Docs
BY DEF TypeOK, Turned

(* The writes of a draft's status by the plugin and the job keep the types. *)
LEMMA WritesType ==
  ASSUME TypeOK, NEW d \in Docs,
         \/ WriteUnpublished(d)
         \/ \E event \in {"none", "after-publish"} : WritePublished(d, event)
  PROVE  /\ status' \in [Docs -> Statuses]
         /\ at' \in [Docs -> Dates]
         /\ untold' \in [Docs -> {"none", "after-publish", "after-write"}]
         /\ lost' \in SUBSET Docs
         /\ withdrawn' \in SUBSET Docs
<1>1. CASE WriteUnpublished(d)
  BY <1>1, DraftsAssumption DEF TypeOK, WriteUnpublished, Statuses, Dates, NoDate
<1>2. ASSUME NEW event \in {"none", "after-publish"}, WritePublished(d, event)
      PROVE  /\ status' \in [Docs -> Statuses]
             /\ at' \in [Docs -> Dates]
             /\ untold' \in [Docs -> {"none", "after-publish", "after-write"}]
             /\ lost' \in SUBSET Docs
             /\ withdrawn' \in SUBSET Docs
  BY <1>2, TurnedType, DraftsAssumption
     DEF TypeOK, WritePublished, Statuses, Dates, NoDate
<1> QED
  BY <1>1, <1>2

(* A write of a status and a date keeps the types.                         *)
LEMMA BothType ==
  ASSUME TypeOK, NEW d \in Docs, NEW s \in Statuses, NEW date \in Dates,
         WriteBoth(d, s, date)
  PROVE  /\ status' \in [Docs -> Statuses]
         /\ at' \in [Docs -> Dates]
         /\ withdrawn' \in SUBSET Docs
BY DEF TypeOK, WriteBoth

(* What a client of the content API writes keeps the types.                *)
LEMMA GivenType ==
  ASSUME TypeOK, NEW d \in Docs, WriteGiven(d)
  PROVE  /\ status' \in [Docs -> Statuses]
         /\ at' \in [Docs -> Dates]
         /\ untold' \in [Docs -> {"none", "after-publish", "after-write"}]
         /\ lost' \in SUBSET Docs
         /\ withdrawn' \in SUBSET Docs
<1>1. PICK s \in {"draft", "published"}, date \in Dates :
        /\ WriteBoth(d, s, date)
        /\ IF s = "published" THEN Turned(d, "after-write") ELSE UNCHANGED <<untold, lost>>
  BY DEF WriteGiven
<1>2. s \in Statuses
  BY DEF Statuses
<1>3. /\ untold' \in [Docs -> {"none", "after-publish", "after-write"}]
      /\ lost' \in SUBSET Docs
  BY <1>1, TurnedType DEF TypeOK
<1> QED
  BY <1>1, <1>2, <1>3, BothType

(* An event told, and an event lost.                                       *)
LEMMA AnnounceType ==
  ASSUME TypeOK, NEW d \in Docs, NEW event
  PROVE  /\ Announce(d, event) =>
              untold' \in [Docs -> {"none", "after-publish", "after-write"}]
         /\ Loses(d, event) => lost' \in SUBSET Docs
BY DEF TypeOK, Announce, Loses

(* Where a run goes from here: to a record of its list or to its end.      *)
LEMMA GoonType ==
  ASSUME TypeOK, NEW t \in Ticks, NEW due \in SUBSET Docs, Goon(t, due)
  PROVE  /\ tick' \in [Ticks -> RunStates]
         /\ \A u \in Ticks : u # t => tick'[u] = tick[u]
         /\ tick'[t].pc \in {"idle", "get"}
         /\ tick'[t].pc # "idle" =>
              /\ tick'[t].doc \in due
              /\ tick'[t].due \in SUBSET due
<1>1. CASE due = {} /\ tick' = [tick EXCEPT ![t] = IdleRun]
  BY <1>1, IdleTypes DEF TypeOK
<1>2. ASSUME NEW d \in due, tick' = [tick EXCEPT ![t] = Run("get", d, due \ {d})]
      PROVE  /\ tick' \in [Ticks -> RunStates]
             /\ \A u \in Ticks : u # t => tick'[u] = tick[u]
             /\ tick'[t].pc \in {"idle", "get"}
             /\ tick'[t].doc \in due
             /\ tick'[t].due \in SUBSET due
  <2>1. /\ Run("get", d, due \ {d}) \in RunStates
        /\ Run("get", d, due \ {d}).pc = "get"
        /\ Run("get", d, due \ {d}).doc = d
        /\ Run("get", d, due \ {d}).due = due \ {d}
    BY RunType
  <2> QED
    BY <1>2, <2>1 DEF TypeOK
<1> QED
  BY <1>1, <1>2 DEF Goon

(* The end of a run.                                                       *)
LEMMA EndType ==
  ASSUME TypeOK, NEW t \in Ticks, End(t)
  PROVE  /\ tick' \in [Ticks -> RunStates]
         /\ \A u \in Ticks : u # t => tick'[u] = tick[u]
         /\ tick'[t].pc = "idle"
BY IdleTypes DEF TypeOK, End

(* Every step of a request keeps the types.                                *)
LEMMA RequestStep ==
  ASSUME TypeOK, NEW r \in Requests,
         Read(r) \/ Create(r) \/ Progress(r) \/ RequestDies(r)
  PROVE  TypeOK'
<1> USE DraftsAssumption
<1>1. CASE Read(r)
  <2>1. PICK d \in Docs, op \in Ops, pc \in {"write", "emit"} :
          req' = [req EXCEPT ![r] = Request(pc, op, d)]
    BY <1>1 DEF Read, Ops
  <2>2. Request(pc, op, d) \in RequestStates /\ Request(pc, op, d).doc = d
    BY RequestType
  <2> QED
    BY <1>1, <2>1, <2>2 DEF Read, Accepted, TypeOK
<1>2. CASE Create(r)
  <2>1. PICK d \in Docs :
          WriteGiven(d) /\ req' = [req EXCEPT ![r] = Request("emit", "create", d)]
    BY <1>2 DEF Create
  <2>2. /\ Request("emit", "create", d) \in RequestStates
        /\ Request("emit", "create", d).doc = d
    BY RequestType DEF Ops
  <2> QED
    BY <1>2, <2>1, <2>2, GivenType DEF Create, Accepted, TypeOK
<1>3. CASE Write(r)
  <2>1. req[r].doc \in Docs /\ req[r].op \in Ops
    BY <1>3, CurrentDoc DEF Write
  <2>2. /\ Request("emit", req[r].op, req[r].doc) \in RequestStates
        /\ Request("emit", req[r].op, req[r].doc).doc = req[r].doc
    BY <2>1, RequestType
  <2>3. /\ status' \in [Docs -> Statuses]
        /\ at' \in [Docs -> Dates]
        /\ untold' \in [Docs -> {"none", "after-publish", "after-write"}]
        /\ lost' \in SUBSET Docs
        /\ withdrawn' \in SUBSET Docs
    BY <1>3, <2>1, WritesType, GivenType DEF Write
  <2> QED
    BY <1>3, <2>1, <2>2, <2>3 DEF Write, TypeOK
<1>4. CASE WriteGone(r)
  BY <1>4, IdleTypes DEF WriteGone, TypeOK
<1>5. CASE Emit(r)
  <2>1. req[r].doc \in Docs
    BY <1>5, CurrentDoc DEF Emit
  <2>2. untold' \in [Docs -> {"none", "after-publish", "after-write"}]
    BY <1>5, <2>1, AnnounceType DEF Emit
  <2> QED
    BY <1>5, <2>2, IdleTypes DEF Emit, TypeOK
<1>6. CASE RequestDies(r)
  <2>1. req[r].doc \in Docs
    BY <1>6, CurrentDoc DEF RequestDies
  <2>2. lost' \in SUBSET Docs
    BY <1>6, <2>1, AnnounceType DEF RequestDies, TypeOK
  <2>3. deaths' \in 0 .. MaxDeaths
    BY <1>6 DEF RequestDies, Dies, TypeOK
  <2> QED
    BY <1>6, <2>2, <2>3, IdleTypes DEF RequestDies, TypeOK
<1> QED
  BY <1>1, <1>2, <1>3, <1>4, <1>5, <1>6 DEF Progress

(* Every step of a run keeps the types.                                    *)
LEMMA RunStep ==
  ASSUME TypeOK, NEW t \in Ticks, TickProgress(t) \/ RunDies(t)
  PROVE  TypeOK'
<1> USE DraftsAssumption
<1>0. tick[t].due \in SUBSET Docs /\ (tick[t].pc # "idle" => tick[t].doc \in Docs)
  BY CurrentDoc
<1>1. CASE List(t)
  <2>1. PICK due \in SUBSET Docs : Goon(t, due)
    BY <1>1 DEF List, Page
  <2> QED
    BY <1>1, <2>1, GoonType DEF List, TypeOK
<1>2. CASE TickRead(t)
  <2>1. CASE End(t)
    BY <1>2, <2>1, EndType DEF TickRead, TypeOK
  <2>2. CASE Goon(t, tick[t].due)
    BY <1>0, <1>2, <2>2, GoonType DEF TickRead, TypeOK
  <2>3. ASSUME NEW pc \in {"write", "emit"},
               tick' = [tick EXCEPT ![t] = Run(pc, tick[t].doc, tick[t].due)]
        PROVE  TypeOK'
    <3>1. tick[t].doc \in Docs
      BY <1>0, <1>2 DEF TickRead
    <3>2. /\ Run(pc, tick[t].doc, tick[t].due) \in RunStates
          /\ Run(pc, tick[t].doc, tick[t].due).doc = tick[t].doc
      BY <1>0, <3>1, RunType
    <3> QED
      BY <1>2, <2>3, <3>1, <3>2 DEF TickRead, TypeOK
  <2> QED
    BY <1>2, <2>1, <2>2, <2>3 DEF TickRead
<1>3. CASE TickWrite(t)
  <2>0. tick[t].doc \in Docs
    BY <1>0, <1>3 DEF TickWrite
  <2>1. /\ status' \in [Docs -> Statuses]
        /\ at' \in [Docs -> Dates]
        /\ untold' \in [Docs -> {"none", "after-publish", "after-write"}]
        /\ lost' \in SUBSET Docs
        /\ withdrawn' \in SUBSET Docs
    BY <1>3, <2>0, WritesType DEF TickWrite
  <2>2. CASE Goon(t, tick[t].due)
    BY <1>0, <1>3, <2>1, <2>2, GoonType DEF TickWrite, TypeOK
  <2>3. CASE tick' = [tick EXCEPT ![t] = Run("emit", tick[t].doc, tick[t].due)]
    <3>1. /\ Run("emit", tick[t].doc, tick[t].due) \in RunStates
          /\ Run("emit", tick[t].doc, tick[t].due).doc = tick[t].doc
      BY <1>0, <2>0, RunType
    <3> QED
      BY <1>3, <2>0, <2>1, <2>3, <3>1 DEF TickWrite, TypeOK
  <2> QED
    BY <1>3, <2>2, <2>3 DEF TickWrite
<1>4. CASE TickWriteGone(t)
  BY <1>4, EndType DEF TickWriteGone, TypeOK
<1>5. CASE TickEmit(t)
  <2>1. tick[t].doc \in Docs
    BY <1>0, <1>5 DEF TickEmit
  <2>2. untold' \in [Docs -> {"none", "after-publish", "after-write"}]
    BY <1>5, <2>1, AnnounceType DEF TickEmit
  <2>3. /\ tick' \in [Ticks -> RunStates]
        /\ \A u \in Ticks : tick'[u].pc # "idle" => tick'[u].doc \in Docs
    BY <1>0, <1>5, EndType, GoonType DEF TickEmit, TypeOK
  <2> QED
    BY <1>5, <2>2, <2>3 DEF TickEmit, TypeOK
<1>6. CASE RunDies(t)
  <2>1. tick[t].doc \in Docs
    BY <1>0, <1>6 DEF RunDies
  <2>2. lost' \in SUBSET Docs
    BY <1>6, <2>1, AnnounceType DEF RunDies, TypeOK
  <2>3. deaths' \in 0 .. MaxDeaths
    BY <1>6 DEF RunDies, Dies, TypeOK
  <2>4. /\ tick' \in [Ticks -> RunStates]
        /\ \A u \in Ticks : tick'[u].pc # "idle" => tick'[u].doc \in Docs
    BY <1>6, EndType DEF RunDies, TypeOK
  <2> QED
    BY <1>6, <2>2, <2>3, <2>4 DEF RunDies, TypeOK
<1> QED
  BY <1>1, <1>2, <1>3, <1>4, <1>5, <1>6 DEF TickProgress

(* Every step keeps the types.                                             *)
LEMMA TypeStep == TypeOK /\ [Next]_vars => TypeOK'
<1> SUFFICES ASSUME TypeOK, [Next]_vars PROVE TypeOK'
  OBVIOUS
<1> USE DraftsAssumption
<1>1. CASE Delete
  BY <1>1 DEF Delete, Accepted, TypeOK, Statuses
<1>2. CASE Schedule
  <2>1. PICK d \in Docs, date \in Dates : WriteBoth(d, "draft", date)
    BY <1>2 DEF Schedule, Dates
  <2> QED
    BY <1>2, <2>1, BothType DEF Schedule, Accepted, TypeOK, Statuses
<1>3. CASE Unschedule
  <2>1. PICK d \in Docs : WriteBoth(d, status[d], NoDate)
    BY <1>3 DEF Unschedule
  <2>2. status[d] \in Statuses /\ NoDate \in Dates
    BY DEF TypeOK, Dates
  <2> QED
    BY <1>3, <2>1, <2>2, BothType DEF Unschedule, Accepted, TypeOK
<1>4. CASE Clock
  BY <1>4 DEF Clock, TypeOK
<1>5. CASE UNCHANGED vars
  BY <1>5 DEF vars, TypeOK
<1> QED
  BY <1>1, <1>2, <1>3, <1>4, <1>5, RequestStep, RunStep DEF Next

(* The state variables keep their types in every behaviour.                *)
THEOREM TypeCorrect == Spec => []TypeOK
<1>1. Init => TypeOK
  BY DraftsAssumption, IdleTypes DEF Init, TypeOK, Statuses, Dates
<1> QED
  BY <1>1, TypeStep, PTL DEF Spec

-----------------------------------------------------------------------------
(* A withdrawn draft has no date, which is what keeps it off the lists.    *)
WithdrawnInv ==
  \A d \in withdrawn : status[d] = "draft" /\ at[d] = NoDate /\ ~OnAList(d)

(* Any step of a run but List leaves it with a part of its list.           *)
LEMMA ListsShrink ==
  ASSUME TypeOK, NEW t \in Ticks, TickProgress(t) \/ RunDies(t), ~List(t)
  PROVE  \A d : OnAList(d)' => OnAList(d)
<1> SUFFICES ASSUME NEW u \in Ticks, NEW d \in Listed(u)' PROVE d \in Listed(u)
  BY DEF OnAList
<1>0. tick[t].due \in SUBSET Docs /\ (tick[t].pc # "idle" => tick[t].doc \in Docs)
  BY CurrentDoc
<1>1. ASSUME End(t), tick[t].pc # "idle" PROVE d \in Listed(u)
  BY <1>1, EndType DEF Listed
<1>2. ASSUME Goon(t, tick[t].due), tick[t].pc # "idle" PROVE d \in Listed(u)
  BY <1>0, <1>2, GoonType DEF Listed
<1>3. ASSUME NEW pc \in {"write", "emit"}, tick[t].pc # "idle",
             tick' = [tick EXCEPT ![t] = Run(pc, tick[t].doc, tick[t].due)]
      PROVE  d \in Listed(u)
  <2>1. /\ Run(pc, tick[t].doc, tick[t].due).doc = tick[t].doc
        /\ Run(pc, tick[t].doc, tick[t].due).due = tick[t].due
    BY <1>0, <1>3, RunType
  <2> QED
    BY <1>3, <2>1 DEF Listed, TypeOK
<1> QED
  BY <1>1, <1>2, <1>3
     DEF TickProgress, TickRead, TickWrite, TickWriteGone, TickEmit, RunDies

(* A new list holds only records that are due.                             *)
LEMMA ListIsDue ==
  ASSUME TypeOK, NEW t \in Ticks, List(t)
  PROVE  \A d : OnAList(d)' => OnAList(d) \/ Due(d)
<1> DEFINE Dues == Page({d \in Docs : Due(d)})
<1>0. Dues \in SUBSET Docs /\ (\A d \in Dues : Due(d)) /\ Goon(t, Dues)
  BY DEF List, Page
<1>1. PICK due \in SUBSET Docs : Goon(t, due) /\ \A d \in due : Due(d)
  <2> HIDE DEF Dues
  <2> QED
    BY <1>0
<1> SUFFICES ASSUME NEW u \in Ticks, NEW d \in Listed(u)'
             PROVE  d \in Listed(u) \/ Due(d)
  BY DEF OnAList
<1> QED
  BY <1>1, GoonType DEF Listed

(* A write of a record's status leaves only undated drafts withdrawn.      *)
LEMMA WritesWithdraw ==
  ASSUME TypeOK, WithdrawnInv, Adapter = "portable", tick' = tick, NEW e \in Docs,
         \/ WriteUnpublished(e)
         \/ \E event : WritePublished(e, event)
         \/ \E s, date : WriteBoth(e, s, date)
  PROVE  WithdrawnInv'
<1>1. \A d : OnAList(d)' = OnAList(d)
  BY DEF OnAList, Listed
<1>2. CASE WriteUnpublished(e) \/ \E event : WritePublished(e, event)
  BY <1>1, <1>2 DEF WithdrawnInv, WritePublished, WriteUnpublished, TypeOK
<1>3. ASSUME NEW s, NEW date, WriteBoth(e, s, date) PROVE WithdrawnInv'
  <2> SUFFICES ASSUME NEW d \in withdrawn'
               PROVE  status'[d] = "draft" /\ at'[d] = NoDate /\ ~OnAList(d)'
    BY DEF WithdrawnInv
  <2>1. CASE d # e
    BY <1>1, <1>3, <2>1 DEF WithdrawnInv, WriteBoth, TypeOK
  <2>2. CASE d = e
    BY <1>1, <1>3, <2>2 DEF WithdrawnInv, WriteBoth, TypeOK
  <2> QED
    BY <2>1, <2>2
<1> QED
  BY <1>2, <1>3

(* What leaves status, date and the lists alone, or shortens the lists,    *)
(* leaves a withdrawn draft one.                                           *)
LEMMA OthersWithdraw ==
  ASSUME WithdrawnInv, UNCHANGED <<status, at, withdrawn>>,
         \A d \in withdrawn : OnAList(d)' => OnAList(d)
  PROVE  WithdrawnInv'
BY DEF WithdrawnInv

(* Every step keeps a withdrawn draft off the lists of the runs.           *)
LEMMA WithdrawnStep ==
  ASSUME Adapter = "portable", TypeOK, WithdrawnInv, [Next]_vars
  PROVE  WithdrawnInv'
<1>l. ASSUME tick' = tick PROVE \A d : OnAList(d)' = OnAList(d)
  BY <1>l DEF OnAList, Listed
<1>r. ASSUME NEW r \in Requests, Read(r) \/ Create(r) \/ Progress(r) \/ RequestDies(r)
      PROVE  WithdrawnInv'
  <2>1. CASE Write(r)
    <3>1. req[r].doc \in Docs /\ tick' = tick
      BY <2>1, CurrentDoc DEF Write
    <3> QED
      BY <2>1, <3>1, WritesWithdraw DEF Write, WriteGiven
  <2>2. CASE Create(r)
    BY <2>2, WritesWithdraw DEF Create, WriteGiven
  <2>3. CASE Read(r) \/ WriteGone(r) \/ Emit(r) \/ RequestDies(r)
    BY <1>l, <2>3, OthersWithdraw DEF Read, WriteGone, Emit, RequestDies
  <2> QED
    BY <1>r, <2>1, <2>2, <2>3 DEF Progress
<1>t. ASSUME NEW t \in Ticks, TickProgress(t) \/ RunDies(t)
      PROVE  WithdrawnInv'
  <2>1. CASE List(t)
    <3>1. \A d \in withdrawn : ~Due(d)
      BY DEF WithdrawnInv, Due
    <3> QED
      BY <2>1, <3>1, ListIsDue, OthersWithdraw DEF List
  <2>2. CASE TickWrite(t)
    <3>1. tick[t].doc \in Docs /\ ~List(t)
      BY <2>2, CurrentDoc DEF TickWrite, List
    <3>2. \A d : OnAList(d)' => OnAList(d)
      BY <1>t, <3>1, ListsShrink
    <3> QED
      BY <2>2, <3>1, <3>2 DEF TickWrite, WritePublished, WithdrawnInv, TypeOK
  <2>3. CASE TickRead(t) \/ TickWriteGone(t) \/ TickEmit(t) \/ RunDies(t)
    <3>1. ~List(t)
      BY <2>3 DEF TickRead, TickWriteGone, TickEmit, RunDies, List
    <3>2. \A d : OnAList(d)' => OnAList(d)
      BY <1>t, <3>1, ListsShrink
    <3> QED
      BY <2>3, <3>2, OthersWithdraw DEF TickRead, TickWriteGone, TickEmit, RunDies
  <2> QED
    BY <1>t, <2>1, <2>2, <2>3 DEF TickProgress
<1>d. CASE Delete
  BY <1>d, <1>l DEF Delete, WithdrawnInv, TypeOK
<1>s. CASE Schedule \/ Unschedule
  BY <1>s, WritesWithdraw DEF Schedule, Unschedule
<1>k. CASE Clock \/ UNCHANGED vars
  BY <1>k, <1>l, OthersWithdraw DEF Clock, vars
<1> QED
  BY <1>r, <1>t, <1>d, <1>s, <1>k DEF Next

(* With the adapters that leave nulls out of the list, an unschedule that  *)
(* no run overtakes is final.                                              *)
THEOREM WithdrawnIsFinal ==
  ASSUME Adapter = "portable" PROVE Spec => []WithdrawnStaysDraft
<1>1. Init => WithdrawnInv
  BY DEF Init, WithdrawnInv
<1>2. TypeOK /\ WithdrawnInv /\ [Next]_vars => WithdrawnInv'
  BY WithdrawnStep
<1>3. WithdrawnInv => WithdrawnStaysDraft
  BY DEF WithdrawnInv, WithdrawnStaysDraft
<1> QED
  BY <1>1, <1>2, <1>3, TypeCorrect, PTL DEF Spec

-----------------------------------------------------------------------------
(* Who still has to tell of record d.                                      *)
Owing(d) ==
  \/ \E r \in Requests :
       req[r].pc = "emit" /\ req[r].doc = d /\ Event(req[r].op) = untold[d]
  \/ \E t \in Ticks :
       tick[t].pc = "emit" /\ tick[t].doc = d /\ untold[d] = "after-publish"

(* The publication of record d, if it is one that is to be told, is told,  *)
(* lost or still owing.                                                    *)
Explained(d) ==
  status[d] = "published" /\ untold[d] # "none" => d \in lost \/ Owing(d)

(* The property, record by record.                                         *)
LEMMA AllExplained == PublicationIsAnnounced <=> \A d \in Docs : Explained(d)
BY DEF PublicationIsAnnounced, Explained, Owing

(* The events of the operations that publish.                              *)
LEMMA Events ==
  /\ Event("publish") = "after-publish"
  /\ Event("create") = "after-write" /\ Event("update") = "after-write"
BY DEF Event

(* What does not touch record d, its publication and who tells of it.      *)
LEMMA Untouched ==
  ASSUME NEW d \in Docs, Explained(d),
         status'[d] = "published" => status[d] = "published",
         untold'[d] = untold[d], d \in lost => d \in lost', Owing(d) => Owing(d)'
  PROVE  Explained(d)'
BY DEF Explained

(* A request that goes on leaves the other requests and the runs.          *)
LEMMA OthersOwe ==
  ASSUME TypeOK, NEW r \in Requests, NEW d \in Docs, NEW x,
         req' = [req EXCEPT ![r] = x], tick' = tick, untold'[d] = untold[d],
         ~(req[r].pc = "emit" /\ req[r].doc = d /\ Event(req[r].op) = untold[d])
  PROVE  Owing(d) => Owing(d)'
BY DEF Owing, TypeOK

(* A run that goes on leaves the other runs and the requests.              *)
LEMMA OthersRun ==
  ASSUME TypeOK, NEW t \in Ticks, NEW d \in Docs,
         \A u \in Ticks : u # t => tick'[u] = tick[u],
         req' = req, untold'[d] = untold[d],
         ~(tick[t].pc = "emit" /\ tick[t].doc = d /\ untold[d] = "after-publish")
  PROVE  Owing(d) => Owing(d)'
BY DEF Owing

(* The writes of record e leave the others' publications as they are, and  *)
(* a publication of its own with its event to be told.                     *)
LEMMA WritesTurn ==
  ASSUME TypeOK, NEW e \in Docs, NEW d \in Docs, NEW event,
         \/ WritePublished(e, event)
         \/ WriteUnpublished(e)
         \/ WriteGiven(e) /\ event = "after-write"
  PROVE  \/ /\ status'[d] = "published" => status[d] = "published"
            /\ untold'[d] = untold[d]
            /\ d \in lost => d \in lost'
         \/ d = e /\ untold'[d] = event
<1>1. CASE WritePublished(e, event)
  BY <1>1 DEF WritePublished, Turned, TypeOK
<1>2. CASE WriteUnpublished(e)
  BY <1>2 DEF WriteUnpublished, TypeOK
<1>3. CASE WriteGiven(e) /\ event = "after-write"
  <2>1. PICK s \in {"draft", "published"} :
          /\ status' = [status EXCEPT ![e] = s]
          /\ IF s = "published" THEN Turned(e, "after-write") ELSE UNCHANGED <<untold, lost>>
    BY <1>3 DEF WriteGiven, WriteBoth
  <2> QED
    BY <1>3, <2>1 DEF Turned, TypeOK
<1> QED
  BY <1>1, <1>2, <1>3

(* A request that stands before its emit tells of its record.              *)
LEMMA WriterOwes ==
  ASSUME TypeOK, NEW r \in Requests, NEW op \in Ops, NEW d \in Docs,
         req' = [req EXCEPT ![r] = Request("emit", op, d)],
         untold'[d] = Event(op)
  PROVE  Owing(d)'
<1>1. req'[r] = Request("emit", op, d)
  BY DEF TypeOK
<1>2. req'[r].pc = "emit" /\ req'[r].doc = d /\ req'[r].op = op
  BY <1>1, RequestType
<1>3. Event(req'[r].op) = untold'[d]
  BY <1>2
<1> QED
  BY <1>2, <1>3 DEF Owing, Event

(* Every step of a request leaves a publication explained.                 *)
LEMMA RequestTells ==
  ASSUME TypeOK, NEW d \in Docs, Explained(d), NEW r \in Requests,
         Read(r) \/ Create(r) \/ Progress(r) \/ RequestDies(r)
  PROVE  Explained(d)'
<1>1. CASE Read(r)
  <2>1. PICK x : req' = [req EXCEPT ![r] = x]
    BY <1>1 DEF Read
  <2> QED
    BY <1>1, <2>1, OthersOwe, Untouched DEF Read
<1>2. CASE Create(r)
  <2>1. PICK e \in Docs :
          WriteGiven(e) /\ req' = [req EXCEPT ![r] = Request("emit", "create", e)]
    BY <1>2 DEF Create
  <2>2. CASE d = e /\ untold'[d] = "after-write"
    BY <2>1, <2>2, WriterOwes, Events DEF Explained, Ops
  <2>3. CASE ~(d = e /\ untold'[d] = "after-write")
    <3>1. /\ status'[d] = "published" => status[d] = "published"
          /\ untold'[d] = untold[d]
          /\ d \in lost => d \in lost'
      BY <2>1, <2>3, WritesTurn
    <3> QED
      BY <1>2, <2>1, <3>1, OthersOwe, Untouched DEF Create
  <2> QED
    BY <2>2, <2>3
<1>3. CASE Write(r)
  <2>1. /\ req[r].doc \in Docs /\ req[r].op \in Ops /\ req[r].pc = "write" /\ tick' = tick
        /\ req' = [req EXCEPT ![r] = Request("emit", req[r].op, req[r].doc)]
    BY <1>3, CurrentDoc DEF Write
  <2>2. CASE d = req[r].doc /\ untold'[d] = Event(req[r].op)
    BY <2>1, <2>2, WriterOwes DEF Explained
  <2>3. CASE ~(d = req[r].doc /\ untold'[d] = Event(req[r].op))
    <3>1. /\ status'[d] = "published" => status[d] = "published"
          /\ untold'[d] = untold[d]
          /\ d \in lost => d \in lost'
      BY <1>3, <2>1, <2>3, WritesTurn, Events DEF Write
    <3> QED
      BY <2>1, <3>1, OthersOwe, Untouched
  <2> QED
    BY <2>2, <2>3
<1>4. CASE WriteGone(r)
  BY <1>4, OthersOwe, Untouched DEF WriteGone
<1>5. CASE Emit(r)
  <2>1. req[r].doc \in Docs
    BY <1>5, CurrentDoc DEF Emit
  <2>2. CASE req[r].doc = d /\ Event(req[r].op) = untold[d]
    <3>1. untold'[d] = "none"
      BY <1>5, <2>1, <2>2 DEF Emit, Announce, TypeOK
    <3> QED
      BY <3>1 DEF Explained
  <2>3. CASE ~(req[r].doc = d /\ Event(req[r].op) = untold[d])
    <3>1. untold'[d] = untold[d]
      BY <1>5, <2>1, <2>3 DEF Emit, Announce, TypeOK
    <3> QED
      BY <1>5, <2>3, <3>1, OthersOwe, Untouched DEF Emit
  <2> QED
    BY <2>2, <2>3
<1>6. CASE RequestDies(r)
  <2>1. CASE req[r].pc = "emit" /\ req[r].doc = d /\ Event(req[r].op) = untold[d]
    BY <1>6, <2>1 DEF RequestDies, Loses, Explained
  <2>2. CASE ~(req[r].pc = "emit" /\ req[r].doc = d /\ Event(req[r].op) = untold[d])
    <3>1. lost \subseteq lost'
      BY <1>6 DEF RequestDies, Loses
    <3> QED
      BY <1>6, <2>2, <3>1, OthersOwe, Untouched DEF RequestDies
  <2> QED
    BY <2>1, <2>2
<1> QED
  BY <1>1, <1>2, <1>3, <1>4, <1>5, <1>6 DEF Progress

(* Every step of a run leaves a publication explained.                     *)
LEMMA RunTells ==
  ASSUME TypeOK, NEW d \in Docs, Explained(d), NEW t \in Ticks,
         TickProgress(t) \/ RunDies(t)
  PROVE  Explained(d)'
<1>0. /\ \A u \in Ticks : u # t => tick'[u] = tick[u]
      /\ req' = req
  BY DEF TickProgress, List, TickRead, TickWrite, TickWriteGone, TickEmit, RunDies,
         Goon, End, TypeOK
<1>1. CASE List(t) \/ TickRead(t) \/ TickWriteGone(t)
  BY <1>0, <1>1, OthersRun, Untouched DEF List, TickRead, TickWriteGone
<1>2. CASE TickWrite(t)
  <2>0. tick[t].pc = "write" /\ tick[t].doc \in Docs /\ tick[t].due \in SUBSET Docs
    BY <1>2, CurrentDoc DEF TickWrite
  <2>1. PICK event \in {"none", "after-publish"} :
          /\ WritePublished(tick[t].doc, event)
          /\ event = "after-publish" =>
               tick' = [tick EXCEPT ![t] = Run("emit", tick[t].doc, tick[t].due)]
    BY <1>2 DEF TickWrite
  <2>2. CASE d = tick[t].doc /\ untold'[d] = event
    <3>1. CASE event = "none"
      BY <2>2, <3>1 DEF Explained
    <3>2. CASE event = "after-publish"
      <4>1. tick'[t] = Run("emit", tick[t].doc, tick[t].due)
        BY <2>1, <3>2 DEF TypeOK
      <4>2. tick'[t].pc = "emit" /\ tick'[t].doc = d
        BY <2>0, <2>2, <4>1, RunType
      <4> QED
        BY <2>2, <3>2, <4>2 DEF Explained, Owing
    <3> QED
      BY <2>1, <3>1, <3>2
  <2>3. CASE ~(d = tick[t].doc /\ untold'[d] = event)
    <3>1. /\ status'[d] = "published" => status[d] = "published"
          /\ untold'[d] = untold[d]
          /\ d \in lost => d \in lost'
      BY <2>0, <2>1, <2>3, WritesTurn
    <3> QED
      BY <1>0, <2>0, <3>1, OthersRun, Untouched
  <2> QED
    BY <2>2, <2>3
<1>3. CASE TickEmit(t)
  <2>1. tick[t].doc \in Docs
    BY <1>3, CurrentDoc DEF TickEmit
  <2>2. CASE tick[t].doc = d /\ untold[d] = "after-publish"
    <3>1. untold'[d] = "none"
      BY <1>3, <2>1, <2>2 DEF TickEmit, Announce, TypeOK
    <3> QED
      BY <3>1 DEF Explained
  <2>3. CASE ~(tick[t].doc = d /\ untold[d] = "after-publish")
    <3>1. untold'[d] = untold[d]
      BY <1>3, <2>1, <2>3 DEF TickEmit, Announce, TypeOK
    <3> QED
      BY <1>0, <1>3, <2>3, <3>1, OthersRun, Untouched DEF TickEmit
  <2> QED
    BY <2>2, <2>3
<1>4. CASE RunDies(t)
  <2>1. CASE tick[t].pc = "emit" /\ tick[t].doc = d /\ untold[d] = "after-publish"
    BY <1>4, <2>1 DEF RunDies, Loses, Explained
  <2>2. CASE ~(tick[t].pc = "emit" /\ tick[t].doc = d /\ untold[d] = "after-publish")
    <3>1. lost \subseteq lost'
      BY <1>4 DEF RunDies, Loses
    <3> QED
      BY <1>0, <1>4, <2>2, <3>1, OthersRun, Untouched DEF RunDies
  <2> QED
    BY <2>1, <2>2
<1> QED
  BY <1>1, <1>2, <1>3, <1>4 DEF TickProgress

(* Every step leaves every publication told, lost or owing.                *)
LEMMA AnnouncedStep ==
  ASSUME TypeOK, PublicationIsAnnounced, [Next]_vars
  PROVE  PublicationIsAnnounced'
<1> SUFFICES ASSUME NEW d \in Docs PROVE Explained(d)'
  BY DEF PublicationIsAnnounced, Explained, Owing
<1>0. Explained(d)
  BY AllExplained
<1>s. ASSUME req' = req, tick' = tick, untold' = untold PROVE Owing(d) => Owing(d)'
  BY <1>s DEF Owing
<1>1. CASE Delete
  BY <1>0, <1>1, <1>s, Untouched DEF Delete, TypeOK
<1>2. CASE Schedule \/ Unschedule
  <2>1. PICK e \in Docs, s \in Statuses, date \in Dates :
          WriteBoth(e, s, date) /\ (s = "published" => status[e] = "published")
    BY <1>2 DEF Schedule, Unschedule, TypeOK, Statuses, Dates
  <2>2. status'[d] = "published" => status[d] = "published"
    BY <2>1 DEF WriteBoth, TypeOK
  <2> QED
    BY <1>0, <1>2, <1>s, <2>2, Untouched DEF Schedule, Unschedule
<1>3. CASE Clock \/ UNCHANGED vars
  BY <1>0, <1>3, <1>s, Untouched DEF Clock, vars
<1> QED
  BY <1>0, <1>1, <1>2, <1>3, RequestTells, RunTells DEF Next

(* Whatever requests and runs overtake one another, reject or end half     *)
(* way: a record published by the drafts plugin or the content API has     *)
(* been told of since, is about to be, or is one whose author ended before *)
(* it could tell.                                                          *)
THEOREM PublicationsAreAnnounced == Spec => []PublicationIsAnnounced
<1>1. Init => PublicationIsAnnounced
  BY DEF Init, PublicationIsAnnounced
<1>2. TypeOK /\ PublicationIsAnnounced /\ [Next]_vars => PublicationIsAnnounced'
  BY AnnouncedStep
<1> QED
  BY <1>1, <1>2, TypeCorrect, PTL DEF Spec
=============================================================================
