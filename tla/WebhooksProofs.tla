--------------------------- MODULE WebhooksProofs ---------------------------
(* What the delivery log says is true, for any number of jobs, workers,    *)
(* overlapping sweeps and faults: type correctness, and that a success was *)
(* answered, that a delivery is given up after three posts or a 4xx only,  *)
(* and that an acknowledged job is in the log.  And what the posts of a    *)
(* row add up to, and that it stays settled, where one sweep runs at a     *)
(* time.                                                                   *)
EXTENDS Webhooks, TLAPS

USE WebhooksAssumption

(* A worker's progress, field by field.                                    *)
LEMMA WorkerType ==
  \A pc, j, row, answer :
    /\ pc \in {"idle", "append", "ack"} /\ j \in Jobs \cup {NoJob}
    /\ row \in 0 .. MaxRows /\ answer \in Answers
    => /\ Worker(pc, j, row, answer) \in WorkerStates
       /\ Worker(pc, j, row, answer).pc = pc
       /\ Worker(pc, j, row, answer).job = j
       /\ Worker(pc, j, row, answer).row = row
       /\ Worker(pc, j, row, answer).answer = answer
BY DEF Worker, WorkerStates

(* What the fields of a worker's progress range over.                      *)
LEMMA WorkerFields ==
  ASSUME NEW x \in WorkerStates
  PROVE  /\ x.pc \in {"idle", "append", "ack"}
         /\ x.job \in Jobs \cup {NoJob}
         /\ x.row \in 0 .. MaxRows
         /\ x.answer \in Answers
         /\ [x EXCEPT !.pc = "ack"] = Worker("ack", x.job, x.row, x.answer)
BY DEF WorkerStates, Worker

(* A sweep's progress, field by field.                                     *)
LEMMA SweepType ==
  \A pc, row, n, answer, left :
    /\ pc \in {"idle", "post", "update", "record"} /\ row \in 0 .. MaxRows
    /\ n \in Counts /\ answer \in Answers \cup {"thrown"}
    /\ left \in [Rows -> Counts]
    => /\ Sweep(pc, row, n, answer, left) \in SweepStates
       /\ Sweep(pc, row, n, answer, left).pc = pc
       /\ Sweep(pc, row, n, answer, left).row = row
       /\ Sweep(pc, row, n, answer, left).attempt = n
       /\ Sweep(pc, row, n, answer, left).answer = answer
       /\ Sweep(pc, row, n, answer, left).left = left
BY DEF Sweep, SweepStates

(* What the fields of a sweep's progress range over.                       *)
LEMMA SweepFields ==
  ASSUME NEW x \in SweepStates
  PROVE  /\ x.pc \in {"idle", "post", "update", "record"}
         /\ x.row \in 0 .. MaxRows
         /\ x.attempt \in Counts
         /\ x.answer \in Answers \cup {"thrown"}
         /\ x.left \in [Rows -> Counts]
         /\ [x EXCEPT !.pc = "record"]
              = Sweep("record", x.row, x.attempt, x.answer, x.left)
BY DEF SweepStates, Sweep

(* Workers and sweeps at rest.                                             *)
LEMMA IdleTypes ==
  /\ IdleWorker \in WorkerStates /\ IdleWorker.pc = "idle"
  /\ IdleSweep \in SweepStates /\ IdleSweep.pc = "idle" /\ IdleSweep.left = Nothing
  /\ Nothing \in [Rows -> Counts]
<1>1. Nothing \in [Rows -> Counts]
  BY DEF Nothing, Counts
<1>2. 0 \in 0 .. MaxRows /\ 0 \in Counts /\ "ok" \in Answers
  BY WebhooksAssumption DEF Counts, Answers
<1> QED
  BY <1>1, <1>2, WorkerType, SweepType DEF IdleWorker, IdleSweep

(* The row and the job of a worker or a sweep in the middle of its work.   *)
LEMMA Current ==
  ASSUME TypeOK
  PROVE  /\ \A w \in Workers :
              /\ worker[w] \in WorkerStates
              /\ worker[w].pc # "idle" => worker[w].job \in Jobs /\ worker[w].row \in Rows
              /\ worker[w].answer \in Answers
         /\ \A s \in Sweeps :
              /\ sweep[s] \in SweepStates
              /\ sweep[s].pc \in {"update", "record"} => sweep[s].row \in Rows
              /\ sweep[s].attempt \in Counts
              /\ sweep[s].answer \in Answers \cup {"thrown"}
              /\ sweep[s].left \in [Rows -> Counts]
BY WorkerFields, SweepFields DEF TypeOK

(* The capped counter stays within its cap and never goes back.            *)
LEMMA IncrementType == \A n \in Counts : Increment(n) \in Counts /\ Increment(n) >= n
BY DEF Increment, Counts

(* The capped counter keeps the order.                                     *)
LEMMA IncrementMonotone ==
  \A m, n \in Counts : m <= n => Increment(m) <= Increment(n)
BY DEF Increment, Counts

(* The outcomes an attempt can have.                                       *)
LEMMA OutcomeType ==
  \A answer, n : Outcome(answer, n) \in {"success", "failed", "retrying"}
BY DEF Outcome

(* Where a sweep goes after a row: to the next one of its list or to its   *)
(* end.                                                                    *)
LEMMA FollowingType ==
  ASSUME NEW left \in [Rows -> Counts]
  PROVE  /\ Following(left) \in SweepStates
         /\ Following(left).pc \in {"idle", "post"}
         /\ Following(left).left = left
<1>1. CASE \E r \in Rows : left[r] > 0
  <2>1. 0 \in 0 .. MaxRows /\ 0 \in Counts /\ "ok" \in Answers
    BY WebhooksAssumption DEF Counts, Answers
  <2> QED
    BY <1>1, <2>1, SweepType DEF Following
<1>2. CASE ~ \E r \in Rows : left[r] > 0
  <2>1. \A r \in Rows : left[r] = 0
    BY <1>2 DEF Counts
  <2>2. left = Nothing
    BY <2>1 DEF Nothing
  <2> QED
    BY <1>2, <2>2, IdleTypes DEF Following
<1> QED
  BY <1>1, <1>2

(* A post only adds to what is known of the rows.                          *)
LEMMA PostRowType ==
  ASSUME TypeOK, NEW r \in Rows, NEW answer, PostRow(r, answer)
  PROVE  /\ posts' \in [Rows -> Counts]
         /\ \A q \in Rows : posts'[q] >= posts[q]
         /\ posts'[r] = Increment(posts[r])
         /\ accepted' \in SUBSET Rows /\ accepted \subseteq accepted'
         /\ stopped' \in SUBSET Rows /\ stopped \subseteq stopped'
         /\ answer = "ok" => r \in accepted'
         /\ answer = "stop" => r \in stopped'
<1>1. \A q \in Rows : posts[q] \in Counts /\ posts[q] >= posts[q]
  BY DEF TypeOK, Counts
<1> QED
  BY <1>1, IncrementType DEF TypeOK, PostRow

(* A new row takes the next id.                                            *)
LEMMA NewRowType ==
  ASSUME TypeOK, NEW j \in Jobs \cup {NoJob}, NewRow(j)
  PROVE  /\ issued + 1 \in Rows
         /\ issued' = issued + 1
         /\ issued' \in 0 .. MaxRows
         /\ origin' \in [Rows -> Jobs \cup {NoJob}]
         /\ origin'[issued + 1] = j
         /\ \A r \in Rows : r <= issued => origin'[r] = origin[r]
BY WebhooksAssumption DEF TypeOK, NewRow, Rows

-----------------------------------------------------------------------------
(* Every step keeps the types.                                             *)
LEMMA TypeStep == TypeOK /\ [Next]_vars => TypeOK'
<1> SUFFICES ASSUME TypeOK, [Next]_vars PROVE TypeOK'
  OBVIOUS
<1> USE WebhooksAssumption
<1>e. ASSUME NEW j \in Jobs, Enqueue(j) \/ Duplicate(j) PROVE TypeOK'
  BY <1>e DEF Enqueue, Duplicate, Fault, TypeOK, JobStates, rowVars, history
<1>w. ASSUME NEW w \in Workers, WorkerStep(w) \/ WorkerFails(w) PROVE TypeOK'
  <2>1. CASE Deliver(w)
    <3>1. PICK j \in Jobs, answer \in Answers :
            /\ NewRow(j)
            /\ PostRow(issued + 1, answer)
            /\ job' = [job EXCEPT ![j] = "running"]
            /\ worker' = [worker EXCEPT ![w] = Worker("append", j, issued + 1, answer)]
      BY <2>1 DEF Deliver
    <3>2. issued + 1 \in Rows /\ issued + 1 \in 0 .. MaxRows
      BY <3>1, NewRowType DEF Rows
    <3>3. /\ Worker("append", j, issued + 1, answer) \in WorkerStates
          /\ Worker("append", j, issued + 1, answer).job = j
          /\ Worker("append", j, issued + 1, answer).row = issued + 1
      BY <3>2, WorkerType
    <3> QED
      BY <2>1, <3>1, <3>2, <3>3, NewRowType, PostRowType
         DEF Deliver, TypeOK, JobStates, rowVars
  <2>2. CASE Append(w)
    <3>1. worker[w].row \in Rows /\ worker[w].job \in Jobs /\ worker[w] \in WorkerStates
      BY <2>2, Current DEF Append
    <3>2. worker' = [worker EXCEPT ![w] = [worker[w] EXCEPT !.pc = "ack"]]
      BY <2>2 DEF Append
    <3>3. /\ [worker[w] EXCEPT !.pc = "ack"] \in WorkerStates
          /\ [worker[w] EXCEPT !.pc = "ack"].job = worker[w].job
          /\ [worker[w] EXCEPT !.pc = "ack"].row = worker[w].row
      BY <3>1, WorkerFields, WorkerType
    <3>4. 1 \in Counts
      BY DEF Counts
    <3> QED
      BY <2>2, <3>1, <3>2, <3>3, <3>4 DEF Append, TypeOK, Statuses, history
  <2>3. CASE Ack(w)
    BY <2>3, IdleTypes, Current DEF Ack, TypeOK, JobStates, rowVars, history
  <2>4. CASE WorkerFails(w)
    BY <2>4, IdleTypes, Current DEF WorkerFails, Fault, TypeOK, JobStates, rowVars, history
  <2> QED
    BY <1>w, <2>1, <2>2, <2>3, <2>4 DEF WorkerStep
<1>t. CASE Test
  <2>1. PICK answer \in Answers :
          /\ PostRow(issued + 1, answer)
          /\ status' = [status EXCEPT ![issued + 1] =
                          IF answer = "ok" THEN "success" ELSE "failed"]
    BY <1>t DEF Test
  <2>2. NewRow(NoJob) /\ 1 \in Counts
    BY <1>t DEF Test, Counts
  <2>3. issued + 1 \in Rows
    BY <2>2, NewRowType
  <2> QED
    BY <1>t, <2>1, <2>2, <2>3, NewRowType, PostRowType DEF Test, TypeOK, Statuses
<1>r. ASSUME NEW r \in Rows, Elapse(r) \/ Cleanup(r) PROVE TypeOK'
  BY <1>r DEF Elapse, Cleanup, TypeOK, Statuses, history
<1>s. ASSUME NEW s \in Sweeps, SweepStep(s) \/ StoreThrows(s) \/ Crash(s) PROVE TypeOK'
  <2>0. /\ sweep[s] \in SweepStates
        /\ sweep[s].pc \in {"update", "record"} => sweep[s].row \in Rows
        /\ sweep[s].left \in [Rows -> Counts]
        /\ sweep[s].attempt \in Counts
        /\ sweep[s].answer \in Answers \cup {"thrown"}
    BY Current
  <2>1. CASE List(s)
    <3>1. PICK B \in SUBSET DueRows :
            sweep' = [sweep EXCEPT ![s] =
              Following([r \in Rows |-> IF r \in B THEN attempt[r] ELSE 0])]
      BY <2>1 DEF List
    <3>2. [r \in Rows |-> IF r \in B THEN attempt[r] ELSE 0] \in [Rows -> Counts]
      BY DEF TypeOK, Counts
    <3> QED
      BY <2>1, <3>1, <3>2, FollowingType DEF List, TypeOK, rowVars, history
  <2>2. CASE Post(s)
    <3>1. PICK r \in Rows, answer \in Answers \cup {"thrown"} :
            /\ PostRow(r, answer)
            /\ sweep' = [sweep EXCEPT ![s] =
                 Sweep("update", r, Increment(sweep[s].left[r]), answer,
                       [sweep[s].left EXCEPT ![r] = 0])]
      BY <2>2 DEF Post
    <3>2. /\ Increment(sweep[s].left[r]) \in Counts
          /\ [sweep[s].left EXCEPT ![r] = 0] \in [Rows -> Counts]
      BY <2>0, IncrementType DEF Counts
    <3>3. r \in 0 .. MaxRows
      BY DEF Rows
    <3>4. /\ Sweep("update", r, Increment(sweep[s].left[r]), answer,
                   [sweep[s].left EXCEPT ![r] = 0]) \in SweepStates
          /\ Sweep("update", r, Increment(sweep[s].left[r]), answer,
                   [sweep[s].left EXCEPT ![r] = 0]).row = r
      BY <3>2, <3>3, SweepType
    <3> QED
      BY <2>2, <3>1, <3>4, PostRowType DEF Post, TypeOK, rowVars
  <2>3. CASE Update(s)
    <3>1. sweep' = [sweep EXCEPT ![s] = [sweep[s] EXCEPT !.pc = "record"]]
      BY <2>3 DEF Update
    <3>2. /\ [sweep[s] EXCEPT !.pc = "record"] \in SweepStates
          /\ [sweep[s] EXCEPT !.pc = "record"].row = sweep[s].row
      BY <2>0, SweepFields, SweepType
    <3> QED
      BY <2>0, <2>3, <3>1, <3>2 DEF Update, TypeOK, history
  <2>4. CASE Record(s)
    BY <2>0, <2>4, FollowingType, OutcomeType DEF Record, TypeOK, Statuses, history
  <2>5. CASE StoreThrows(s)
    <3>1. sweep[s].row \in Rows /\ sweep[s].row \in 0 .. MaxRows
      BY <2>0, <2>5 DEF StoreThrows, Rows
    <3>2. /\ Sweep("update", sweep[s].row, sweep[s].attempt, "thrown", sweep[s].left)
               \in SweepStates
          /\ Sweep("update", sweep[s].row, sweep[s].attempt, "thrown", sweep[s].left).row
               = sweep[s].row
      BY <2>0, <3>1, SweepType
    <3> QED
      BY <2>5, <3>1, <3>2, IdleTypes DEF StoreThrows, Fault, TypeOK, rowVars, history
  <2>6. CASE Crash(s)
    BY <2>6, IdleTypes DEF Crash, Fault, TypeOK, rowVars, history
  <2> QED
    BY <1>s, <2>1, <2>2, <2>3, <2>4, <2>5, <2>6 DEF SweepStep
<1>u. CASE UNCHANGED vars
  BY <1>u DEF vars, rowVars, history, TypeOK
<1> QED
  BY <1>e, <1>w, <1>t, <1>r, <1>s, <1>u DEF Next

(* The state variables keep their types in every behaviour.                *)
THEOREM TypeCorrect == Spec => []TypeOK
<1>1. Init => TypeOK
  BY WebhooksAssumption, IdleTypes
     DEF Init, TypeOK, JobStates, Statuses, Counts
<1> QED
  BY <1>1, TypeStep, PTL DEF Spec

-----------------------------------------------------------------------------
(* The strengthening.  A row beyond the issued ids is not in the log.      *)
RowsAreIssued == \A r \in Rows : status[r] # "none" => r <= issued

(* What a worker carries belongs to its job; before it acknowledges, its   *)
(* row is in the log.                                                      *)
WorkersOwnRows ==
  \A w \in Workers :
    worker[w].pc # "idle" =>
      /\ worker[w].row <= issued
      /\ origin[worker[w].row] = worker[w].job
      /\ posts[worker[w].row] >= 1
      /\ worker[w].answer = "ok" => worker[w].row \in accepted
      /\ worker[w].pc = "ack" => status[worker[w].row] # "none"

(* No attempt number, in the log, on a list or about to be written, runs   *)
(* ahead of the posts; an answer that is about to be recorded was given.   *)
AttemptsWerePosted ==
  /\ \A r \in Rows : attempt[r] <= posts[r]
  /\ \A s \in Sweeps, r \in Rows : sweep[s].left[r] <= posts[r]
  /\ \A s \in Sweeps :
       sweep[s].pc \in {"update", "record"} =>
         /\ sweep[s].attempt <= posts[sweep[s].row]
         /\ sweep[s].answer = "ok" => sweep[s].row \in accepted
         /\ sweep[s].answer = "stop" => sweep[s].row \in stopped

LogInv ==
  /\ RowsAreIssued
  /\ WorkersOwnRows
  /\ AttemptsWerePosted
  /\ SuccessWasAnswered
  /\ GivenUpAfterThree
  /\ DoneIsRecorded

(* What a step never takes back.                                           *)
LEMMA HistoryGrows ==
  ASSUME TypeOK, [Next]_vars
  PROVE  /\ \A r \in Rows : posts'[r] >= posts[r]
         /\ accepted \subseteq accepted' /\ stopped \subseteq stopped'
         /\ issued' >= issued
         /\ \A r \in Rows : r <= issued => origin'[r] = origin[r]
<1>0. /\ \A r \in Rows : posts[r] \in Counts /\ posts[r] >= posts[r]
      /\ issued \in Nat /\ issued >= issued
  BY WebhooksAssumption DEF TypeOK, Counts
<1>1. ASSUME NEW j \in Jobs \cup {NoJob}, NEW answer, NewRow(j), PostRow(issued + 1, answer)
      PROVE  /\ \A r \in Rows : posts'[r] >= posts[r]
             /\ accepted \subseteq accepted' /\ stopped \subseteq stopped'
             /\ issued' >= issued
             /\ \A r \in Rows : r <= issued => origin'[r] = origin[r]
  BY <1>0, <1>1, NewRowType, PostRowType
<1>2. ASSUME NEW w \in Workers, Deliver(w)
      PROVE  \E j \in Jobs, answer \in Answers : NewRow(j) /\ PostRow(issued + 1, answer)
  BY <1>2 DEF Deliver
<1>3. ASSUME Test
      PROVE  \E answer \in Answers : NewRow(NoJob) /\ PostRow(issued + 1, answer)
  BY <1>3 DEF Test
<1>4. ASSUME NEW s \in Sweeps, Post(s)
      PROVE  /\ UNCHANGED <<issued, origin>>
             /\ \E r \in Rows, answer \in Answers \cup {"thrown"} : PostRow(r, answer)
  BY <1>4 DEF Post
<1>5. \/ UNCHANGED <<issued, origin, posts, accepted, stopped>>
      \/ \E w \in Workers : Deliver(w)
      \/ Test
      \/ \E s \in Sweeps : Post(s)
  BY DEF Next, vars, WorkerStep, SweepStep, Enqueue, Duplicate, Append, Ack, WorkerFails,
         Elapse, Cleanup, List, Update, Record, StoreThrows, Crash, history
<1> QED
  BY <1>0, <1>1, <1>2, <1>3, <1>4, <1>5, PostRowType

(* Every step enters issued rows only.                                     *)
LEMMA IssuedStep == TypeOK /\ LogInv /\ [Next]_vars => RowsAreIssued'
<1> SUFFICES ASSUME TypeOK, LogInv, [Next]_vars, NEW r \in Rows, status'[r] # "none"
             PROVE  r <= issued'
  BY DEF RowsAreIssued
<1>0. issued' >= issued /\ issued \in Nat /\ issued' \in Nat
  BY HistoryGrows, TypeStep, WebhooksAssumption DEF TypeOK
<1>1. CASE status[r] # "none"
  BY <1>0, <1>1 DEF LogInv, RowsAreIssued, Rows
<1>2. CASE status[r] = "none"
  <2>1. ASSUME NEW w \in Workers, Append(w) PROVE r <= issued'
    <3>1. r = worker[w].row
      BY <1>2, <2>1 DEF Append, TypeOK
    <3> QED
      BY <1>0, <2>1, <3>1 DEF Append, LogInv, WorkersOwnRows, Rows
  <2>2. ASSUME Test PROVE r <= issued'
    BY <1>2, <2>2 DEF Test, NewRow, TypeOK
  <2>3. ASSUME NEW s \in Sweeps, Record(s) PROVE FALSE
    BY <1>2, <2>3 DEF Record, InStore, TypeOK
  <2>4. ASSUME NEW k \in Rows, Cleanup(k) PROVE FALSE
    BY <1>2, <2>4 DEF Cleanup, InStore
  <2>5. \/ UNCHANGED status
        \/ \E w \in Workers : Append(w)
        \/ Test
        \/ \E s \in Sweeps : Record(s)
        \/ \E k \in Rows : Cleanup(k)
    BY DEF Next, vars, WorkerStep, SweepStep, Enqueue, Duplicate, Deliver, Ack, WorkerFails,
           Elapse, List, Post, Update, StoreThrows, Crash, rowVars
  <2> QED
    BY <1>2, <2>1, <2>2, <2>3, <2>4, <2>5
<1> QED
  BY <1>1, <1>2

(* A row that entered the log never looks as if it had not.                *)
LEMMA LoggedStays ==
  ASSUME TypeOK, [Next]_vars, NEW r \in Rows, status[r] # "none"
  PROVE  status'[r] # "none"
<1>1. ASSUME NEW w \in Workers, Append(w) PROVE status'[r] # "none"
  BY <1>1 DEF Append, TypeOK
<1>2. ASSUME Test PROVE status'[r] # "none"
  BY <1>2 DEF Test, TypeOK
<1>3. ASSUME NEW s \in Sweeps, Record(s) PROVE status'[r] # "none"
  BY <1>3, OutcomeType DEF Record, TypeOK
<1>4. ASSUME NEW k \in Rows, Cleanup(k) PROVE status'[r] # "none"
  BY <1>4 DEF Cleanup
<1>5. \/ UNCHANGED status
      \/ \E w \in Workers : Append(w)
      \/ Test
      \/ \E s \in Sweeps : Record(s)
      \/ \E k \in Rows : Cleanup(k)
  BY DEF Next, vars, WorkerStep, SweepStep, Enqueue, Duplicate, Deliver, Ack, WorkerFails,
         Elapse, List, Post, Update, StoreThrows, Crash, rowVars
<1> QED
  BY <1>1, <1>2, <1>3, <1>4, <1>5

(* Every step leaves the workers their own rows.                           *)
LEMMA WorkersStep == TypeOK /\ LogInv /\ [Next]_vars => WorkersOwnRows'
<1> SUFFICES ASSUME TypeOK, LogInv, [Next]_vars, NEW w \in Workers, worker'[w].pc # "idle"
             PROVE  /\ worker'[w].row <= issued'
                    /\ origin'[worker'[w].row] = worker'[w].job
                    /\ posts'[worker'[w].row] >= 1
                    /\ worker'[w].answer = "ok" => worker'[w].row \in accepted'
                    /\ worker'[w].pc = "ack" => status'[worker'[w].row] # "none"
  BY DEF WorkersOwnRows
<1>0. issued' >= issued /\ issued \in Nat /\ issued' \in Nat
  BY HistoryGrows, TypeStep, WebhooksAssumption DEF TypeOK
<1>1. /\ worker[w] \in WorkerStates
      /\ worker[w].pc # "idle" =>
           /\ worker[w].row \in Rows
           /\ worker[w].row <= issued
           /\ origin[worker[w].row] = worker[w].job
           /\ posts[worker[w].row] >= 1
           /\ worker[w].answer = "ok" => worker[w].row \in accepted
           /\ worker[w].pc = "ack" => status[worker[w].row] # "none"
  BY Current DEF LogInv, WorkersOwnRows
<1>2. ASSUME worker[w].pc # "idle"
      PROVE  /\ worker[w].row <= issued'
             /\ origin'[worker[w].row] = worker[w].job
             /\ posts'[worker[w].row] >= 1
             /\ worker[w].answer = "ok" => worker[w].row \in accepted'
             /\ worker[w].pc = "ack" => status'[worker[w].row] # "none"
  <2>1. /\ posts'[worker[w].row] >= posts[worker[w].row]
        /\ posts[worker[w].row] \in Counts /\ posts'[worker[w].row] \in Counts
    BY <1>1, <1>2, HistoryGrows, TypeStep DEF TypeOK
  <2>2. posts'[worker[w].row] >= 1
    BY <1>1, <1>2, <2>1 DEF Counts
  <2> QED
    BY <1>0, <1>1, <1>2, <2>2, HistoryGrows, LoggedStays DEF Rows
<1>3. CASE worker'[w] = worker[w]
  BY <1>2, <1>3
<1>4. CASE Deliver(w)
  <2>1. PICK j \in Jobs, answer \in Answers :
          /\ NewRow(j)
          /\ PostRow(issued + 1, answer)
          /\ worker' = [worker EXCEPT ![w] = Worker("append", j, issued + 1, answer)]
    BY <1>4 DEF Deliver
  <2>2. issued + 1 \in Rows /\ issued + 1 \in 0 .. MaxRows /\ issued' = issued + 1
        /\ origin'[issued + 1] = j
    BY <2>1, NewRowType DEF Rows
  <2>3. worker'[w] = Worker("append", j, issued + 1, answer)
    BY <2>1 DEF TypeOK
  <2>4. /\ worker'[w].pc = "append" /\ worker'[w].job = j
        /\ worker'[w].row = issued + 1 /\ worker'[w].answer = answer
    BY <2>2, <2>3, WorkerType
  <2>5. posts[issued + 1] \in Counts /\ posts'[issued + 1] = Increment(posts[issued + 1])
    BY <2>1, <2>2, PostRowType DEF TypeOK
  <2>6. posts'[issued + 1] >= 1
    BY <2>5 DEF Increment, Counts
  <2>7. answer = "ok" => issued + 1 \in accepted'
    BY <2>1, <2>2, PostRowType
  <2> QED
    BY <1>0, <2>2, <2>4, <2>6, <2>7
<1>5. CASE Append(w)
  <2>1. worker[w].pc # "idle" /\ worker'[w] = [worker[w] EXCEPT !.pc = "ack"]
    BY <1>5 DEF Append, TypeOK
  <2>2. /\ worker'[w].row = worker[w].row /\ worker'[w].job = worker[w].job
        /\ worker'[w].answer = worker[w].answer
    BY <1>1, <2>1, WorkerFields, WorkerType
  <2>3. status'[worker[w].row] # "none"
    BY <1>1, <1>5, <2>1 DEF Append, TypeOK
  <2> QED
    BY <1>2, <2>1, <2>2, <2>3
<1>6. CASE Ack(w) \/ WorkerFails(w)
  BY <1>6, IdleTypes DEF Ack, WorkerFails, TypeOK
<1>7. \/ worker'[w] = worker[w]
      \/ Deliver(w) \/ Append(w) \/ Ack(w) \/ WorkerFails(w)
  <2>1. ASSUME NEW v \in Workers, v # w, WorkerStep(v) \/ WorkerFails(v)
        PROVE  worker'[w] = worker[w]
    BY <2>1 DEF WorkerStep, Deliver, Append, Ack, WorkerFails, TypeOK
  <2>2. \/ worker' = worker
        \/ \E v \in Workers : WorkerStep(v) \/ WorkerFails(v)
    BY DEF Next, vars, SweepStep, Enqueue, Duplicate, Test, Elapse, Cleanup, List, Post,
           Update, Record, StoreThrows, Crash
  <2> QED
    BY <2>1, <2>2 DEF WorkerStep
<1> QED
  BY <1>3, <1>4, <1>5, <1>6, <1>7

(* The attempt column: it is written from an attempt that was posted.      *)
LEMMA AttemptStep ==
  ASSUME TypeOK, LogInv, [Next]_vars, NEW r \in Rows
  PROVE  attempt'[r] <= posts'[r]
<1>0. /\ attempt[r] \in Counts /\ posts[r] \in Counts /\ posts'[r] \in Counts
      /\ posts'[r] >= posts[r] /\ attempt[r] <= posts[r]
  BY HistoryGrows, TypeStep DEF TypeOK, LogInv, AttemptsWerePosted
<1>1. CASE attempt'[r] = attempt[r]
  BY <1>0, <1>1 DEF Counts
<1>2. ASSUME NEW w \in Workers, Append(w), r = worker[w].row PROVE attempt'[r] <= posts'[r]
  <2>1. posts[r] >= 1 /\ attempt'[r] = 1
    BY <1>2 DEF Append, LogInv, WorkersOwnRows, TypeOK
  <2> QED
    BY <1>0, <2>1 DEF Counts
<1>3. ASSUME Test, r = issued + 1 PROVE attempt'[r] <= posts'[r]
  <2>1. attempt'[r] = 1 /\ posts'[r] = Increment(posts[r])
    BY <1>3, PostRowType DEF Test, TypeOK
  <2> QED
    BY <1>0, <2>1 DEF Increment, Counts
<1>4. ASSUME NEW s \in Sweeps, Update(s), r = sweep[s].row, InStore(r)
      PROVE  attempt'[r] <= posts'[r]
  <2>1. attempt'[r] = sweep[s].attempt /\ sweep[s].attempt \in Counts
    BY <1>4, Current DEF Update, TypeOK
  <2>2. sweep[s].attempt <= posts[r]
    BY <1>4 DEF Update, LogInv, AttemptsWerePosted
  <2> QED
    BY <1>0, <2>1, <2>2 DEF Counts
<1>5. \/ attempt'[r] = attempt[r]
      \/ \E w \in Workers : Append(w) /\ r = worker[w].row
      \/ Test /\ r = issued + 1
      \/ \E s \in Sweeps : Update(s) /\ r = sweep[s].row /\ InStore(r)
  <2>1. ASSUME NEW w \in Workers, Append(w), r # worker[w].row PROVE attempt'[r] = attempt[r]
    BY <2>1 DEF Append, TypeOK
  <2>2. ASSUME Test, r # issued + 1 PROVE attempt'[r] = attempt[r]
    BY <2>2 DEF Test, TypeOK
  <2>3. ASSUME NEW s \in Sweeps, Update(s), ~(r = sweep[s].row /\ InStore(r))
        PROVE  attempt'[r] = attempt[r]
    BY <2>3 DEF Update, TypeOK
  <2>4. \/ attempt' = attempt
        \/ \E w \in Workers : Append(w)
        \/ Test
        \/ \E s \in Sweeps : Update(s)
    BY DEF Next, vars, WorkerStep, SweepStep, Enqueue, Duplicate, Deliver, Ack, WorkerFails,
           Elapse, Cleanup, List, Post, Record, StoreThrows, Crash, rowVars
  <2> QED
    BY <2>1, <2>2, <2>3, <2>4
<1> QED
  BY <1>1, <1>2, <1>3, <1>4, <1>5

(* The lists of the sweeps and the outcomes they are about to record.      *)
LEMMA SweepsStep ==
  ASSUME TypeOK, LogInv, [Next]_vars, NEW s \in Sweeps
  PROVE  /\ \A r \in Rows : sweep'[s].left[r] <= posts'[r]
         /\ sweep'[s].pc \in {"update", "record"} =>
              /\ sweep'[s].attempt <= posts'[sweep'[s].row]
              /\ sweep'[s].answer = "ok" => sweep'[s].row \in accepted'
              /\ sweep'[s].answer = "stop" => sweep'[s].row \in stopped'
<1>0. /\ \A r \in Rows : /\ posts[r] \in Counts /\ posts'[r] \in Counts
                          /\ posts'[r] >= posts[r]
                          /\ sweep[s].left[r] \in Counts
                          /\ sweep[s].left[r] <= posts[r]
      /\ sweep[s] \in SweepStates
      /\ sweep[s].left \in [Rows -> Counts]
      /\ sweep[s].attempt \in Counts
      /\ accepted \subseteq accepted' /\ stopped \subseteq stopped'
  BY HistoryGrows, TypeStep, Current DEF TypeOK, LogInv, AttemptsWerePosted
<1>1. \A r \in Rows : sweep[s].left[r] <= posts'[r]
  BY <1>0 DEF Counts
<1>2. ASSUME sweep[s].pc \in {"update", "record"}
      PROVE  /\ sweep[s].row \in Rows
             /\ sweep[s].attempt <= posts'[sweep[s].row]
             /\ sweep[s].answer = "ok" => sweep[s].row \in accepted'
             /\ sweep[s].answer = "stop" => sweep[s].row \in stopped'
  <2>1. /\ sweep[s].row \in Rows
        /\ sweep[s].attempt <= posts[sweep[s].row]
        /\ sweep[s].answer = "ok" => sweep[s].row \in accepted
        /\ sweep[s].answer = "stop" => sweep[s].row \in stopped
    BY <1>2, Current DEF LogInv, AttemptsWerePosted
  <2>2. sweep[s].attempt <= posts'[sweep[s].row]
    BY <1>0, <2>1 DEF Counts
  <2> QED
    BY <1>0, <2>1, <2>2
<1>3. CASE sweep'[s] = sweep[s]
  BY <1>1, <1>2, <1>3
<1>4. CASE List(s)
  <2>1. PICK B \in SUBSET DueRows :
          sweep' = [sweep EXCEPT ![s] =
            Following([r \in Rows |-> IF r \in B THEN attempt[r] ELSE 0])]
    BY <1>4 DEF List
  <2> DEFINE left == [r \in Rows |-> IF r \in B THEN attempt[r] ELSE 0]
  <2>2. left \in [Rows -> Counts]
    BY DEF TypeOK, Counts
  <2>3. \A r \in Rows : left[r] <= posts'[r]
    <3>1. ASSUME NEW r \in Rows PROVE left[r] <= posts'[r]
      <4>1. attempt[r] <= posts[r] /\ attempt[r] \in Counts
        BY DEF LogInv, AttemptsWerePosted, TypeOK
      <4>2. left[r] = attempt[r] \/ left[r] = 0
        OBVIOUS
      <4> QED
        BY <1>0, <4>1, <4>2 DEF Counts
    <3> QED
      BY <3>1
  <2>4. sweep'[s] = Following(left)
    BY <2>1 DEF TypeOK
  <2> HIDE DEF left
  <2> QED
    BY <2>2, <2>3, <2>4, FollowingType
<1>5. CASE Post(s)
  <2>1. PICK r \in Rows, answer \in Answers \cup {"thrown"} :
          /\ PostRow(r, answer)
          /\ sweep' = [sweep EXCEPT ![s] =
               Sweep("update", r, Increment(sweep[s].left[r]), answer,
                     [sweep[s].left EXCEPT ![r] = 0])]
    BY <1>5 DEF Post
  <2>2. /\ Increment(sweep[s].left[r]) \in Counts
        /\ [sweep[s].left EXCEPT ![r] = 0] \in [Rows -> Counts]
        /\ r \in 0 .. MaxRows
    BY <1>0, IncrementType DEF Counts, Rows
  <2>3. sweep'[s] = Sweep("update", r, Increment(sweep[s].left[r]), answer,
                          [sweep[s].left EXCEPT ![r] = 0])
    BY <2>1 DEF TypeOK
  <2>4. /\ sweep'[s].row = r /\ sweep'[s].answer = answer
        /\ sweep'[s].attempt = Increment(sweep[s].left[r])
        /\ sweep'[s].left = [sweep[s].left EXCEPT ![r] = 0]
    BY <2>2, <2>3, SweepType
  <2>5. posts'[r] = Increment(posts[r])
        /\ (answer = "ok" => r \in accepted') /\ (answer = "stop" => r \in stopped')
    BY <2>1, PostRowType
  <2>6. Increment(sweep[s].left[r]) <= posts'[r]
    BY <1>0, <2>5, IncrementMonotone
  <2>7. \A q \in Rows : [sweep[s].left EXCEPT ![r] = 0][q] <= posts'[q]
    <3>1. ASSUME NEW q \in Rows PROVE [sweep[s].left EXCEPT ![r] = 0][q] <= posts'[q]
      <4>1. \/ [sweep[s].left EXCEPT ![r] = 0][q] = 0
            \/ [sweep[s].left EXCEPT ![r] = 0][q] = sweep[s].left[q]
        BY <1>0
      <4> QED
        BY <1>0, <1>1, <4>1 DEF Counts
    <3> QED
      BY <3>1
  <2> QED
    BY <2>4, <2>5, <2>6, <2>7
<1>6. CASE Update(s)
  <2>1. sweep'[s] = [sweep[s] EXCEPT !.pc = "record"] /\ sweep[s].pc = "update"
    BY <1>6 DEF Update, TypeOK
  <2>2. /\ sweep'[s].row = sweep[s].row /\ sweep'[s].attempt = sweep[s].attempt
        /\ sweep'[s].answer = sweep[s].answer /\ sweep'[s].left = sweep[s].left
    BY <1>0, <2>1, SweepFields, SweepType
  <2> QED
    BY <1>1, <1>2, <2>1, <2>2
<1>7. CASE Record(s)
  <2>1. sweep'[s] = Following(sweep[s].left)
    BY <1>7 DEF Record, TypeOK
  <2> QED
    BY <1>0, <1>1, <2>1, FollowingType
<1>8. CASE StoreThrows(s) /\ sweep[s].answer # "thrown"
  <2>1. /\ sweep'[s] = Sweep("update", sweep[s].row, sweep[s].attempt, "thrown", sweep[s].left)
        /\ sweep[s].pc \in {"update", "record"}
    BY <1>8 DEF StoreThrows, TypeOK
  <2>2. sweep[s].row \in 0 .. MaxRows
    BY <1>0, SweepFields
  <2>3. /\ sweep'[s].row = sweep[s].row /\ sweep'[s].attempt = sweep[s].attempt
        /\ sweep'[s].answer = "thrown" /\ sweep'[s].left = sweep[s].left
    BY <1>0, <2>1, <2>2, SweepType
  <2> QED
    BY <1>1, <1>2, <2>1, <2>3
<1>9. CASE sweep'[s] = IdleSweep
  <2>1. ASSUME NEW r \in Rows PROVE Nothing[r] <= posts'[r]
    BY <1>0 DEF Nothing, Counts
  <2> QED
    BY <1>9, <2>1, IdleTypes
<1>10. \/ sweep'[s] = sweep[s] \/ sweep'[s] = IdleSweep
       \/ SweepStep(s)
       \/ StoreThrows(s) /\ sweep[s].answer # "thrown"
  <2>1. ASSUME NEW u \in Sweeps, u # s, SweepStep(u) \/ StoreThrows(u) \/ Crash(u)
        PROVE  sweep'[s] = sweep[s]
    BY <2>1 DEF SweepStep, List, Post, Update, Record, StoreThrows, Crash, TypeOK
  <2>2. ASSUME Crash(s) \/ (StoreThrows(s) /\ sweep[s].answer = "thrown")
        PROVE  sweep'[s] = IdleSweep
    BY <2>2 DEF StoreThrows, Crash, TypeOK
  <2>3. \/ sweep' = sweep
        \/ \E u \in Sweeps : SweepStep(u) \/ StoreThrows(u) \/ Crash(u)
    BY DEF Next, vars, WorkerStep, Enqueue, Duplicate, Test, Elapse, Cleanup, Deliver,
           Append, Ack, WorkerFails
  <2> QED
    BY <2>1, <2>2, <2>3
<1> QED
  BY <1>3, <1>4, <1>5, <1>6, <1>7, <1>8, <1>9, <1>10 DEF SweepStep

(* Every step leaves only answered rows a success.                         *)
LEMMA SuccessStep == TypeOK /\ LogInv /\ [Next]_vars => SuccessWasAnswered'
<1> SUFFICES ASSUME TypeOK, LogInv, [Next]_vars, NEW r \in Rows, status'[r] = "success"
             PROVE  r \in accepted'
  BY DEF SuccessWasAnswered
<1>0. accepted \subseteq accepted'
  BY HistoryGrows
<1>1. CASE status'[r] = status[r]
  BY <1>0, <1>1 DEF LogInv, SuccessWasAnswered
<1>2. ASSUME NEW w \in Workers, Append(w) PROVE status'[r] = status[r] \/ r \in accepted'
  BY <1>0, <1>2 DEF Append, LogInv, WorkersOwnRows, TypeOK
<1>3. ASSUME Test PROVE status'[r] = status[r] \/ r \in accepted'
  <2>1. PICK answer \in Answers :
          /\ PostRow(issued + 1, answer)
          /\ status' = [status EXCEPT ![issued + 1] =
                          IF answer = "ok" THEN "success" ELSE "failed"]
    BY <1>3 DEF Test
  <2>2. issued + 1 \in Rows
    BY <1>3, NewRowType DEF Test
  <2>3. answer = "ok" => issued + 1 \in accepted'
    BY <2>1, <2>2, PostRowType
  <2> QED
    BY <2>1, <2>3 DEF TypeOK
<1>4. ASSUME NEW s \in Sweeps, Record(s) PROVE status'[r] = status[r] \/ r \in accepted'
  <2>1. Outcome(sweep[s].answer, sweep[s].attempt) = "success" => sweep[s].row \in accepted
    BY <1>4 DEF Outcome, Record, LogInv, AttemptsWerePosted
  <2> QED
    BY <1>0, <1>4, <2>1 DEF Record, TypeOK
<1>5. ASSUME NEW k \in Rows, Cleanup(k) PROVE status'[r] = status[r]
  BY <1>5 DEF Cleanup
<1>6. \/ UNCHANGED status
      \/ \E w \in Workers : Append(w)
      \/ Test
      \/ \E s \in Sweeps : Record(s)
      \/ \E k \in Rows : Cleanup(k)
  BY DEF Next, vars, WorkerStep, SweepStep, Enqueue, Duplicate, Deliver, Ack, WorkerFails,
         Elapse, List, Post, Update, StoreThrows, Crash, rowVars
<1> QED
  BY <1>1, <1>2, <1>3, <1>4, <1>5, <1>6

(* Every step gives rows up after three posts or a 4xx only.               *)
LEMMA GivenUpStep == TypeOK /\ LogInv /\ [Next]_vars => GivenUpAfterThree'
<1> SUFFICES ASSUME TypeOK, LogInv, [Next]_vars, NEW r \in Rows,
                    status'[r] = "failed", origin'[r] # NoJob
             PROVE  posts'[r] >= 3 \/ r \in stopped'
  BY DEF GivenUpAfterThree
<1>0. /\ stopped \subseteq stopped'
      /\ posts'[r] >= posts[r] /\ posts[r] \in Counts /\ posts'[r] \in Counts
  BY HistoryGrows, TypeStep DEF TypeOK
<1>1. CASE status'[r] = status[r]
  <2>1. origin[r] # NoJob
    <3>1. r <= issued
      BY <1>1 DEF LogInv, RowsAreIssued
    <3> QED
      BY <3>1, HistoryGrows
  <2> QED
    BY <1>0, <1>1, <2>1 DEF LogInv, GivenUpAfterThree, Counts
<1>2. ASSUME NEW w \in Workers, Append(w) PROVE status'[r] = status[r]
  BY <1>2 DEF Append, TypeOK
<1>3. ASSUME Test PROVE status'[r] = status[r]
  <2>1. origin'[issued + 1] = NoJob
    BY <1>3, NewRowType DEF Test
  <2> QED
    BY <1>3, <2>1 DEF Test, TypeOK
<1>4. ASSUME NEW s \in Sweeps, Record(s), r = sweep[s].row, InStore(r)
      PROVE  posts'[r] >= 3 \/ r \in stopped'
  <2>1. Outcome(sweep[s].answer, sweep[s].attempt) = "failed"
    BY <1>4 DEF Record, TypeOK
  <2>2. sweep[s].answer = "stop" \/ sweep[s].attempt >= 3
    BY <2>1 DEF Outcome
  <2>3. /\ sweep[s].answer = "stop" => r \in stopped
        /\ sweep[s].attempt <= posts[r] /\ sweep[s].attempt \in Counts
    BY <1>4, Current DEF Record, LogInv, AttemptsWerePosted
  <2> QED
    BY <1>0, <2>2, <2>3 DEF Counts
<1>5. ASSUME NEW s \in Sweeps, Record(s), ~(r = sweep[s].row /\ InStore(r))
      PROVE  status'[r] = status[r]
  BY <1>5 DEF Record, TypeOK
<1>6. ASSUME NEW k \in Rows, Cleanup(k) PROVE status'[r] = status[r]
  BY <1>6 DEF Cleanup
<1>7. \/ UNCHANGED status
      \/ \E w \in Workers : Append(w)
      \/ Test
      \/ \E s \in Sweeps : Record(s)
      \/ \E k \in Rows : Cleanup(k)
  BY DEF Next, vars, WorkerStep, SweepStep, Enqueue, Duplicate, Deliver, Ack, WorkerFails,
         Elapse, List, Post, Update, StoreThrows, Crash, rowVars
<1> QED
  BY <1>1, <1>2, <1>3, <1>4, <1>5, <1>6, <1>7

(* Every step leaves the finished jobs in the log.                         *)
LEMMA DoneStep == TypeOK /\ LogInv /\ [Next]_vars => DoneIsRecorded'
<1> SUFFICES ASSUME TypeOK, LogInv, [Next]_vars, NEW j \in Jobs, job'[j] = "done"
             PROVE  \E r \in Rows : origin'[r] = j /\ status'[r] # "none"
  BY DEF DoneIsRecorded
<1>1. ASSUME NEW r \in Rows, origin[r] = j, status[r] # "none"
      PROVE  origin'[r] = j /\ status'[r] # "none"
  <2>1. r <= issued
    BY <1>1 DEF LogInv, RowsAreIssued
  <2> QED
    BY <1>1, <2>1, HistoryGrows, LoggedStays
<1>2. CASE job[j] = "done"
  BY <1>1, <1>2 DEF LogInv, DoneIsRecorded
<1>3. ASSUME NEW w \in Workers, Ack(w), j = worker[w].job
      PROVE  \E r \in Rows : origin'[r] = j /\ status'[r] # "none"
  <2>1. /\ worker[w].row \in Rows /\ origin[worker[w].row] = j
        /\ status[worker[w].row] # "none"
    BY <1>3, Current DEF Ack, LogInv, WorkersOwnRows
  <2> QED
    BY <1>1, <2>1
<1>4. job[j] = "done" \/ \E w \in Workers : Ack(w) /\ j = worker[w].job
  <2>1. ASSUME NEW i \in Jobs, Enqueue(i) \/ Duplicate(i) PROVE job[j] = "done"
    BY <2>1 DEF Enqueue, Duplicate, TypeOK
  <2>2. ASSUME NEW w \in Workers, Deliver(w) \/ WorkerFails(w) PROVE job[j] = "done"
    BY <2>2 DEF Deliver, WorkerFails, TypeOK
  <2>3. ASSUME NEW w \in Workers, Ack(w), j # worker[w].job PROVE job[j] = "done"
    BY <2>3 DEF Ack, TypeOK
  <2>4. \/ job' = job
        \/ \E i \in Jobs : Enqueue(i) \/ Duplicate(i)
        \/ \E w \in Workers : Deliver(w) \/ WorkerFails(w) \/ Ack(w)
    BY DEF Next, vars, WorkerStep, SweepStep, Append, Test, Elapse, Cleanup, List, Post,
           Update, Record, StoreThrows, Crash
  <2> QED
    BY <2>1, <2>2, <2>3, <2>4
<1> QED
  BY <1>2, <1>3, <1>4

(* The strengthening holds in every behaviour.                             *)
LEMMA LogInvariant == Spec => []LogInv
<1>1. Init => LogInv
  BY WebhooksAssumption
     DEF Init, LogInv, RowsAreIssued, WorkersOwnRows, AttemptsWerePosted, SuccessWasAnswered,
         GivenUpAfterThree, DoneIsRecorded, IdleWorker, Worker, IdleSweep, Sweep, Nothing
<1>2. TypeOK /\ LogInv /\ [Next]_vars => LogInv'
  <2> SUFFICES ASSUME TypeOK, LogInv, [Next]_vars PROVE LogInv'
    OBVIOUS
  <2>1. AttemptsWerePosted'
    BY AttemptStep, SweepsStep DEF AttemptsWerePosted
  <2> QED
    BY <2>1, IssuedStep, WorkersStep, SuccessStep, GivenUpStep, DoneStep DEF LogInv
<1> QED
  BY <1>1, <1>2, TypeCorrect, PTL DEF Spec

(* Every "success" of the log was answered with a 2xx, however many sweeps *)
(* overlap and whatever crashes.                                           *)
THEOREM SuccessesWereAnswered == Spec => []SuccessWasAnswered
<1>1. LogInv => SuccessWasAnswered
  BY DEF LogInv
<1> QED
  BY <1>1, LogInvariant, PTL

(* A delivery is given up only after three posts, or a 4xx.                *)
THEOREM DeliveriesAreTriedThrice == Spec => []GivenUpAfterThree
<1>1. LogInv => GivenUpAfterThree
  BY DEF LogInv
<1> QED
  BY <1>1, LogInvariant, PTL

(* An acknowledged job has a row in the log.                               *)
THEOREM AcknowledgedIsLogged == Spec => []DoneIsRecorded
<1>1. LogInv => DoneIsRecorded
  BY DEF LogInv
<1> QED
  BY <1>1, LogInvariant, PTL

\* What the delivery log says of successes, failures and finished jobs is true.
THEOREM TheLogIsTrue == Spec => []LogIsTrue
BY SuccessesWereAnswered, DeliveriesAreTriedThrice, AcknowledgedIsLogged, PTL DEF LogIsTrue

-----------------------------------------------------------------------------
(* One sweep at a time.  What the posts of a row add up to then: a row     *)
(* that waits for its next attempt has been posted twice at most, and as   *)
(* often as its attempt column says, but for the faults.                   *)
OneSweep == \A s, t \in Sweeps : s = t

(* The sweep has posted row r and has yet to record the outcome.           *)
InHand(s, r) == sweep[s].pc \in {"update", "record"} /\ sweep[s].row = r

Spare(r) == posts[r] <= 2 + faults /\ posts[r] <= attempt[r] + faults

(* A row that is still to be issued was never posted.                      *)
FreshRows == \A r \in Rows : r > issued => posts[r] = 0 /\ r \notin accepted

(* A row that is about to be appended was posted once, by its worker.      *)
FirstPosts ==
  \A w \in Workers :
    worker[w].pc = "append" =>
      /\ status[worker[w].row] = "none"
      /\ posts[worker[w].row] <= 1
      /\ worker[w].answer # "ok" => worker[w].row \notin accepted
      /\ \A v \in Workers :
           v # w /\ worker[v].pc = "append" => worker[v].row # worker[w].row

(* A row that is retried and not in hand can spare a post.                 *)
RetriesAreSpare ==
  \A r \in Rows :
    status[r] = "retrying" /\ (\A s \in Sweeps : ~InHand(s, r)) => Spare(r)

(* Nobody touches a row on the list but the cleanup.                       *)
ListIsCurrent ==
  \A s \in Sweeps, r \in Rows :
    sweep[s].left[r] > 0 =>
      /\ status[r] \in {"retrying", "gone"}
      /\ attempt[r] = sweep[s].left[r]
      /\ Spare(r)
      /\ ~InHand(s, r)

(* Nobody touches the row in hand either; its attempt is the next one.     *)
HandIsCurrent ==
  \A s \in Sweeps, r \in Rows :
    InHand(s, r) =>
      /\ status[r] \in {"retrying", "gone"}
      /\ posts[r] <= sweep[s].attempt + faults
      /\ sweep[s].attempt <= attempt[r] + 1
      /\ sweep[s].pc = "record" /\ InStore(r) => attempt[r] = sweep[s].attempt

(* Before the first fault, a row that was accepted is a success, or is     *)
(* about to become one.                                                    *)
AcceptedIsTold ==
  faults = 0 =>
    \A r \in accepted :
      /\ status[r] # "failed"
      /\ status[r] = "retrying" => \E s \in Sweeps : InHand(s, r)
      /\ \A s \in Sweeps :
           /\ InHand(s, r) => sweep[s].answer = "ok"
           /\ sweep[s].left[r] = 0

SoloInv ==
  /\ ThreePlusFaults
  /\ FreshRows
  /\ FirstPosts
  /\ RetriesAreSpare
  /\ ListIsCurrent
  /\ HandIsCurrent
  /\ AcceptedIsTold

(* The numbers of the state, as numbers.                                   *)
LEMMA SoloNumbers ==
  ASSUME TypeOK
  PROVE  /\ faults \in Nat /\ issued \in Nat
         /\ \A r \in Rows :
              posts[r] \in Nat /\ posts[r] <= MaxPosts /\ attempt[r] \in Nat /\ r \in Nat
         /\ \A s \in Sweeps :
              /\ sweep[s].attempt \in Nat
              /\ \A r \in Rows : sweep[s].left[r] \in Nat
<1>1. \A s \in Sweeps : sweep[s].attempt \in Counts /\ sweep[s].left \in [Rows -> Counts]
  BY Current
<1>2. \A s \in Sweeps : /\ sweep[s].attempt \in Nat
                        /\ \A r \in Rows : sweep[s].left[r] \in Nat
  BY <1>1 DEF Counts
<1> QED
  BY <1>2 DEF TypeOK, Counts, Rows

(* A row with a post, on the list or in hand was issued; no fresh row is.  *)
LEMMA FreshRowIsFree ==
  ASSUME TypeOK, LogInv, SoloInv, NEW r \in Rows, r > issued
  PROVE  /\ posts[r] = 0 /\ r \notin accepted /\ status[r] = "none"
         /\ \A s \in Sweeps : sweep[s].left[r] = 0 /\ ~InHand(s, r)
         /\ \A w \in Workers : worker[w].pc = "append" => worker[w].row # r
<1>1. posts[r] = 0 /\ r \notin accepted
  BY DEF SoloInv, FreshRows
<1>2. issued \in Nat /\ r \in Nat
  BY SoloNumbers
<1>3. status[r] = "none"
  BY <1>2 DEF LogInv, RowsAreIssued
<1>4. ASSUME NEW s \in Sweeps PROVE sweep[s].left[r] = 0 /\ ~InHand(s, r)
  <2>1. ~(sweep[s].left[r] > 0) /\ ~InHand(s, r)
    BY <1>3 DEF SoloInv, ListIsCurrent, HandIsCurrent
  <2>2. sweep[s].left[r] \in Nat
    BY SoloNumbers
  <2> QED
    BY <2>1, <2>2
<1>5. ASSUME NEW w \in Workers, worker[w].pc = "append" PROVE worker[w].row # r
  <2>1. worker[w].row <= issued
    BY <1>5 DEF LogInv, WorkersOwnRows
  <2> QED
    BY <1>2, <2>1
<1> QED
  BY <1>1, <1>3, <1>4, <1>5

(* A step that leaves the rows and the sweeps alone and starts no append.  *)
LEMMA SoloQuiet ==
  ASSUME TypeOK, SoloInv,
         UNCHANGED <<issued, status, attempt, sweep, posts, accepted>>,
         faults' = faults \/ faults' = faults + 1,
         \A w \in Workers : worker'[w].pc = "append" => worker'[w] = worker[w]
  PROVE  SoloInv'
<1>1. faults \in Nat /\ \A r \in Rows : posts[r] \in Nat /\ attempt[r] \in Nat
  BY SoloNumbers
<1>2. \A s \in Sweeps : sweep[s].attempt \in Nat
  BY SoloNumbers
<1>3. faults' \in Nat /\ faults' >= faults /\ (faults' = 0 => faults = 0)
  BY <1>1
<1>4. ASSUME NEW r \in Rows, Spare(r) PROVE Spare(r)'
  BY <1>1, <1>3, <1>4 DEF Spare
<1>5. \A s, r : InHand(s, r)' <=> InHand(s, r)
  BY DEF InHand
<1>6. \A r : InStore(r)' <=> InStore(r)
  BY DEF InStore
<1>7. ThreePlusFaults'
  BY <1>1, <1>3 DEF SoloInv, ThreePlusFaults
<1>8. FreshRows'
  BY DEF SoloInv, FreshRows
<1>9. FirstPosts'
  BY DEF SoloInv, FirstPosts
<1>10. RetriesAreSpare'
  BY <1>4, <1>5 DEF SoloInv, RetriesAreSpare
<1>11. ListIsCurrent'
  BY <1>4, <1>5 DEF SoloInv, ListIsCurrent
<1>12. HandIsCurrent'
  <2> SUFFICES ASSUME NEW s \in Sweeps, NEW r \in Rows, InHand(s, r)'
               PROVE  /\ status'[r] \in {"retrying", "gone"}
                      /\ posts'[r] <= sweep'[s].attempt + faults'
                      /\ sweep'[s].attempt <= attempt'[r] + 1
                      /\ sweep'[s].pc = "record" /\ InStore(r)'
                           => attempt'[r] = sweep'[s].attempt
    BY DEF HandIsCurrent
  <2>1. /\ status[r] \in {"retrying", "gone"}
        /\ posts[r] <= sweep[s].attempt + faults
        /\ sweep[s].attempt <= attempt[r] + 1
        /\ sweep[s].pc = "record" /\ InStore(r) => attempt[r] = sweep[s].attempt
    BY <1>5 DEF SoloInv, HandIsCurrent
  <2>2. posts[r] <= sweep[s].attempt + faults'
    BY <1>1, <1>2, <1>3, <2>1
  <2> QED
    BY <1>6, <2>1, <2>2
<1>13. AcceptedIsTold'
  BY <1>3, <1>5 DEF SoloInv, AcceptedIsTold
<1> QED
  BY <1>7, <1>8, <1>9, <1>10, <1>11, <1>12, <1>13 DEF SoloInv

(* A fresh row is posted once: by a worker, which goes on to append it, or *)
(* for a test, whose row is final at once.                                 *)
LEMMA SoloFirst ==
  ASSUME TypeOK, LogInv, SoloInv, NEW answer,
         issued + 1 \in Rows, issued' = issued + 1,
         PostRow(issued + 1, answer),
         UNCHANGED <<sweep, faults>>,
         \A r \in Rows : r # issued + 1 => status'[r] = status[r] /\ attempt'[r] = attempt[r],
         status'[issued + 1] \in {"none", "success", "failed"},
         status'[issued + 1] = "failed" => answer # "ok",
         \A w \in Workers :
           worker'[w].pc = "append" =>
             \/ worker'[w] = worker[w]
             \/ /\ worker'[w].row = issued + 1 /\ worker'[w].answer = answer
                /\ status'[issued + 1] = "none"
                /\ \A v \in Workers : v # w => worker'[v] = worker[v]
  PROVE  SoloInv'
<1>0. /\ faults \in Nat /\ issued \in Nat
      /\ \A r \in Rows : posts[r] \in Nat /\ attempt[r] \in Nat /\ r \in Nat
  BY SoloNumbers
<1>1. PICK n : n = issued + 1
  OBVIOUS
<1>2. /\ n \in Rows /\ n > issued /\ issued' = n
  BY <1>0, <1>1
<1>3. /\ posts[n] = 0 /\ n \notin accepted /\ status[n] = "none"
      /\ \A s \in Sweeps : sweep[s].left[n] = 0 /\ ~InHand(s, n)
      /\ \A w \in Workers : worker[w].pc = "append" => worker[w].row # n
  BY <1>2, FreshRowIsFree
<1>4. /\ posts'[n] = 1
      /\ \A r \in Rows : r # n => posts'[r] = posts[r]
  <2>1. posts' = [posts EXCEPT ![n] = Increment(posts[n])]
    BY <1>1 DEF PostRow
  <2>2. Increment(posts[n]) = 1
    BY <1>3, WebhooksAssumption DEF Increment
  <2> QED
    BY <1>2, <2>1, <2>2 DEF TypeOK
<1>5. /\ \A r : r # n => (r \in accepted' <=> r \in accepted)
      /\ n \in accepted' => answer = "ok"
  BY <1>1, <1>3 DEF PostRow
<1>6. /\ \A s, r : InHand(s, r)' <=> InHand(s, r)
      /\ \A r \in Rows : r # n => (InStore(r)' <=> InStore(r))
  BY <1>1 DEF InHand, InStore
<1>7. ASSUME NEW r \in Rows, r # n, Spare(r) PROVE Spare(r)'
  BY <1>1, <1>4, <1>7 DEF Spare
<1>8. ThreePlusFaults'
  <2> SUFFICES ASSUME NEW r \in Rows PROVE posts'[r] <= 3 + faults'
    BY DEF ThreePlusFaults
  <2>1. CASE r = n
    BY <1>0, <1>4, <2>1
  <2>2. CASE r # n
    BY <1>4, <2>2 DEF SoloInv, ThreePlusFaults
  <2> QED
    BY <2>1, <2>2
<1>9. FreshRows'
  <2> SUFFICES ASSUME NEW r \in Rows, r > issued' PROVE posts'[r] = 0 /\ r \notin accepted'
    BY DEF FreshRows
  <2>1. r > n
    BY <1>2
  <2>2. r \in Nat /\ n \in Nat /\ n > issued
    BY <1>0, <1>2
  <2>3. r > issued /\ r # n
    BY <1>0, <2>1, <2>2
  <2>4. posts[r] = 0 /\ r \notin accepted
    BY <2>3 DEF SoloInv, FreshRows
  <2> QED
    BY <1>4, <1>5, <2>3, <2>4
<1>10. FirstPosts'
  <2> SUFFICES ASSUME NEW w \in Workers, worker'[w].pc = "append"
               PROVE  /\ status'[worker'[w].row] = "none"
                      /\ posts'[worker'[w].row] <= 1
                      /\ worker'[w].answer # "ok" => worker'[w].row \notin accepted'
                      /\ \A v \in Workers :
                           v # w /\ worker'[v].pc = "append"
                             => worker'[v].row # worker'[w].row
    BY DEF FirstPosts
  <2>1. \A v \in Workers :
          worker[v].pc = "append" =>
            /\ worker[v].row \in Rows /\ worker[v].row # n
            /\ status[worker[v].row] = "none"
            /\ posts[worker[v].row] <= 1
            /\ worker[v].answer # "ok" => worker[v].row \notin accepted
            /\ \A x \in Workers :
                 x # v /\ worker[x].pc = "append" => worker[x].row # worker[v].row
    BY <1>3, Current DEF SoloInv, FirstPosts
  <2>2. CASE worker'[w] = worker[w]
    <3>1. worker[w].pc = "append"
      BY <2>2
    <3>2. /\ status'[worker[w].row] = "none" /\ posts'[worker[w].row] <= 1
          /\ worker[w].answer # "ok" => worker[w].row \notin accepted'
      BY <1>1, <1>4, <1>5, <2>1, <3>1
    <3>3. ASSUME NEW v \in Workers, v # w, worker'[v].pc = "append"
          PROVE  worker'[v].row # worker[w].row
      <4>1. worker'[v] = worker[v] \/ worker'[v].row = n
        BY <1>1, <3>3
      <4> QED
        BY <2>1, <3>1, <3>3, <4>1
    <3> QED
      BY <2>2, <3>2, <3>3
  <2>3. CASE /\ worker'[w].row = n /\ worker'[w].answer = answer
             /\ status'[n] = "none"
             /\ \A v \in Workers : v # w => worker'[v] = worker[v]
    <3>1. posts'[n] <= 1 /\ (answer # "ok" => n \notin accepted')
      BY <1>4, <1>5
    <3>2. \A v \in Workers : v # w /\ worker'[v].pc = "append" => worker'[v].row # n
      BY <2>1, <2>3
    <3> QED
      BY <2>3, <3>1, <3>2
  <2> QED
    BY <1>1, <2>2, <2>3
<1>11. RetriesAreSpare'
  <2> SUFFICES ASSUME NEW r \in Rows, status'[r] = "retrying", \A s \in Sweeps : ~InHand(s, r)'
               PROVE  Spare(r)'
    BY DEF RetriesAreSpare
  <2>1. r # n /\ status[r] = "retrying" /\ \A s \in Sweeps : ~InHand(s, r)
    BY <1>1, <1>6
  <2> QED
    BY <1>7, <2>1 DEF SoloInv, RetriesAreSpare
<1>12. ListIsCurrent'
  <2> SUFFICES ASSUME NEW s \in Sweeps, NEW r \in Rows, sweep'[s].left[r] > 0
               PROVE  /\ status'[r] \in {"retrying", "gone"}
                      /\ attempt'[r] = sweep'[s].left[r]
                      /\ Spare(r)'
                      /\ ~InHand(s, r)'
    BY DEF ListIsCurrent
  <2>1. sweep[s].left[r] > 0 /\ r # n
    BY <1>3
  <2>2. /\ status[r] \in {"retrying", "gone"} /\ attempt[r] = sweep[s].left[r]
        /\ Spare(r) /\ ~InHand(s, r)
    BY <2>1 DEF SoloInv, ListIsCurrent
  <2> QED
    BY <1>1, <1>6, <1>7, <2>1, <2>2
<1>13. HandIsCurrent'
  <2> SUFFICES ASSUME NEW s \in Sweeps, NEW r \in Rows, InHand(s, r)'
               PROVE  /\ status'[r] \in {"retrying", "gone"}
                      /\ posts'[r] <= sweep'[s].attempt + faults'
                      /\ sweep'[s].attempt <= attempt'[r] + 1
                      /\ sweep'[s].pc = "record" /\ InStore(r)'
                           => attempt'[r] = sweep'[s].attempt
    BY DEF HandIsCurrent
  <2>1. InHand(s, r) /\ r # n
    BY <1>3, <1>6
  <2>2. /\ status[r] \in {"retrying", "gone"}
        /\ posts[r] <= sweep[s].attempt + faults
        /\ sweep[s].attempt <= attempt[r] + 1
        /\ sweep[s].pc = "record" /\ InStore(r) => attempt[r] = sweep[s].attempt
    BY <2>1 DEF SoloInv, HandIsCurrent
  <2>3. /\ status'[r] = status[r] /\ attempt'[r] = attempt[r] /\ posts'[r] = posts[r]
        /\ InStore(r)' <=> InStore(r)
    BY <1>1, <1>4, <1>6, <2>1
  <2> QED
    BY <2>2, <2>3
<1>14. AcceptedIsTold'
  <2> SUFFICES ASSUME faults' = 0, NEW r \in accepted'
               PROVE  /\ status'[r] # "failed"
                      /\ status'[r] = "retrying" => \E s \in Sweeps : InHand(s, r)'
                      /\ \A s \in Sweeps :
                           /\ InHand(s, r)' => sweep'[s].answer = "ok"
                           /\ sweep'[s].left[r] = 0
    BY DEF AcceptedIsTold
  <2>1. CASE r = n
    <3>1. answer = "ok"
      BY <1>5, <2>1
    <3>2. status'[n] # "failed" /\ status'[n] # "retrying"
      BY <1>1, <3>1
    <3> QED
      BY <1>3, <1>6, <2>1, <3>2
  <2>2. CASE r # n
    <3>1. r \in accepted /\ r \in Rows /\ faults = 0
      BY <1>5, <2>2 DEF TypeOK
    <3>2. status'[r] = status[r]
      BY <1>1, <2>2, <3>1
    <3> QED
      BY <1>6, <3>1, <3>2 DEF SoloInv, AcceptedIsTold
  <2> QED
    BY <2>1, <2>2
<1> QED
  BY <1>8, <1>9, <1>10, <1>11, <1>12, <1>13, <1>14 DEF SoloInv

(* An append enters a row that was posted once, by the worker that posted  *)
(* it, so that the row may be retried.                                     *)
LEMMA SoloAppend == ASSUME TypeOK, LogInv, SoloInv, NEW w \in Workers, Append(w) PROVE SoloInv'
<1>1. PICK r : r = worker[w].row
  OBVIOUS
<1>2. /\ worker[w].pc = "append" /\ worker[w] \in WorkerStates /\ r \in Rows
  BY <1>1, Current DEF Append
<1>3. /\ status[r] = "none" /\ posts[r] <= 1
      /\ worker[w].answer # "ok" => r \notin accepted
      /\ \A v \in Workers : v # w /\ worker[v].pc = "append" => worker[v].row # r
  BY <1>1, <1>2 DEF SoloInv, FirstPosts
<1>4. /\ attempt'[r] = 1
      /\ \/ worker[w].answer = "ok" /\ status'[r] = "success"
         \/ worker[w].answer # "ok" /\ status'[r] = "retrying"
      /\ \A q \in Rows : q # r => status'[q] = status[q] /\ attempt'[q] = attempt[q]
  BY <1>1, <1>2 DEF Append, TypeOK
<1>5. /\ UNCHANGED <<issued, sweep, posts, accepted, faults>>
      /\ \A v \in Workers : v # w => worker'[v] = worker[v]
  BY DEF Append, history, TypeOK
<1>6. worker'[w].pc = "ack"
  <2>1. worker'[w] = [worker[w] EXCEPT !.pc = "ack"]
    BY DEF Append, TypeOK
  <2> QED
    BY <1>2, <2>1, WorkerFields, WorkerType
<1>7. \A s \in Sweeps : sweep[s].left[r] = 0 /\ ~InHand(s, r)
  <2>1. \A s \in Sweeps : ~(sweep[s].left[r] > 0) /\ ~InHand(s, r)
    BY <1>2, <1>3 DEF SoloInv, ListIsCurrent, HandIsCurrent
  <2> QED
    BY <1>2, <2>1, SoloNumbers
<1>8. /\ \A s, q : InHand(s, q)' <=> InHand(s, q)
      /\ \A q \in Rows : q # r => (InStore(q)' <=> InStore(q))
      /\ \A q \in Rows : q # r => (Spare(q)' <=> Spare(q))
  BY <1>4, <1>5 DEF InHand, InStore, Spare
<1>9. ThreePlusFaults' /\ FreshRows'
  BY <1>5 DEF SoloInv, ThreePlusFaults, FreshRows
<1>10. FirstPosts'
  <2> SUFFICES ASSUME NEW v \in Workers, worker'[v].pc = "append"
               PROVE  /\ status'[worker'[v].row] = "none"
                      /\ posts'[worker'[v].row] <= 1
                      /\ worker'[v].answer # "ok" => worker'[v].row \notin accepted'
                      /\ \A x \in Workers :
                           x # v /\ worker'[x].pc = "append"
                             => worker'[x].row # worker'[v].row
    BY DEF FirstPosts
  <2>1. v # w /\ worker'[v] = worker[v]
    BY <1>5, <1>6
  <2>2. worker[v].row \in Rows /\ worker[v].row # r
    BY <1>3, <2>1, Current
  <2>3. /\ status[worker[v].row] = "none" /\ posts[worker[v].row] <= 1
        /\ worker[v].answer # "ok" => worker[v].row \notin accepted
        /\ \A x \in Workers : x # v /\ worker[x].pc = "append" => worker[x].row # worker[v].row
    BY <2>1 DEF SoloInv, FirstPosts
  <2> QED
    BY <1>4, <1>5, <1>6, <2>1, <2>2, <2>3
<1>11. RetriesAreSpare'
  <2> SUFFICES ASSUME NEW q \in Rows, status'[q] = "retrying", \A s \in Sweeps : ~InHand(s, q)'
               PROVE  Spare(q)'
    BY DEF RetriesAreSpare
  <2>1. CASE q = r
    <3>1. posts'[r] <= 2 + faults' /\ posts'[r] <= 1 + faults'
      BY <1>2, <1>3, <1>5, SoloNumbers
    <3> QED
      BY <1>4, <2>1, <3>1 DEF Spare
  <2>2. CASE q # r
    BY <1>4, <1>8, <2>2 DEF SoloInv, RetriesAreSpare
  <2> QED
    BY <2>1, <2>2
<1>12. ListIsCurrent'
  BY <1>4, <1>5, <1>7, <1>8 DEF SoloInv, ListIsCurrent
<1>13. HandIsCurrent'
  BY <1>4, <1>5, <1>7, <1>8 DEF SoloInv, HandIsCurrent
<1>14. AcceptedIsTold'
  <2> SUFFICES ASSUME faults' = 0, NEW q \in accepted'
               PROVE  /\ status'[q] # "failed"
                      /\ status'[q] = "retrying" => \E s \in Sweeps : InHand(s, q)'
                      /\ \A s \in Sweeps :
                           /\ InHand(s, q)' => sweep'[s].answer = "ok"
                           /\ sweep'[s].left[q] = 0
    BY DEF AcceptedIsTold
  <2>1. faults = 0 /\ q \in accepted /\ q \in Rows
    BY <1>5 DEF TypeOK
  <2>2. /\ status[q] # "failed"
        /\ status[q] = "retrying" => \E s \in Sweeps : InHand(s, q)
        /\ \A s \in Sweeps : /\ InHand(s, q) => sweep[s].answer = "ok"
                             /\ sweep[s].left[q] = 0
    BY <2>1 DEF SoloInv, AcceptedIsTold
  <2>3. CASE q = r
    BY <1>3, <1>4, <1>5, <1>8, <2>1, <2>2, <2>3
  <2>4. CASE q # r
    BY <1>4, <1>5, <1>8, <2>1, <2>2, <2>4
  <2> QED
    BY <2>3, <2>4
<1> QED
  BY <1>9, <1>10, <1>11, <1>12, <1>13, <1>14 DEF SoloInv

(* The cleanup takes rows out of the log and leaves the lists as they are. *)
LEMMA SoloCleanup == ASSUME TypeOK, SoloInv, NEW k \in Rows, Cleanup(k) PROVE SoloInv'
<1>1. /\ UNCHANGED <<worker, issued, attempt, sweep, posts, accepted, faults>>
      /\ \A r \in Rows : \/ status'[r] = status[r]
                         \/ status'[r] = "gone" /\ InStore(r)
  BY DEF Cleanup, history, TypeOK
<1>2. /\ \A s, r : InHand(s, r)' <=> InHand(s, r)
      /\ \A r : Spare(r)' <=> Spare(r)
      /\ \A r \in Rows : InStore(r)' => InStore(r)
  BY <1>1 DEF InHand, InStore, Spare
<1>3. \A r \in Rows : status[r] = "none" => status'[r] = "none"
  BY <1>1 DEF InStore
<1>4. ThreePlusFaults' /\ FreshRows'
  BY <1>1 DEF SoloInv, ThreePlusFaults, FreshRows
<1>5. FirstPosts'
  BY <1>1, <1>3, Current DEF SoloInv, FirstPosts
<1>6. RetriesAreSpare'
  BY <1>1, <1>2 DEF SoloInv, RetriesAreSpare
<1>7. ListIsCurrent'
  BY <1>1, <1>2 DEF SoloInv, ListIsCurrent
<1>8. HandIsCurrent'
  BY <1>1, <1>2 DEF SoloInv, HandIsCurrent
<1>9. AcceptedIsTold'
  BY <1>1, <1>2 DEF SoloInv, AcceptedIsTold, TypeOK
<1> QED
  BY <1>4, <1>5, <1>6, <1>7, <1>8, <1>9 DEF SoloInv

(* A list is read: the rows on it are retried, nobody has one in hand, and *)
(* each can spare a post.                                                  *)
LEMMA SoloList ==
  ASSUME TypeOK, SoloInv, OneSweep, NEW s \in Sweeps, List(s)
  PROVE  SoloInv'
<1>1. PICK B \in SUBSET DueRows :
        sweep' = [sweep EXCEPT ![s] =
          Following([r \in Rows |-> IF r \in B THEN attempt[r] ELSE 0])]
  BY DEF List
<1>2. PICK left : left = [r \in Rows |-> IF r \in B THEN attempt[r] ELSE 0]
  OBVIOUS
<1>3. left \in [Rows -> Counts]
  BY <1>2 DEF TypeOK, Counts
<1>4. /\ sweep'[s].pc \in {"idle", "post"} /\ sweep'[s].left = left
  BY <1>1, <1>2, <1>3, FollowingType DEF TypeOK
<1>5. /\ sweep[s].pc = "idle"
      /\ UNCHANGED <<worker, issued, status, attempt, posts, accepted, faults>>
  BY DEF List, rowVars, history
<1>6. \A t \in Sweeps : t = s
  BY DEF OneSweep
<1>7. \A t \in Sweeps : \A r : ~InHand(t, r) /\ ~InHand(t, r)'
  BY <1>4, <1>5, <1>6 DEF InHand
<1>8. \A r \in Rows : /\ left[r] > 0 => left[r] = attempt[r] /\ status[r] = "retrying"
                      /\ status[r] # "retrying" => left[r] = 0
  BY <1>2 DEF DueRows, Due
<1>9. \A r : Spare(r)' <=> Spare(r)
  BY <1>5 DEF Spare
<1>10. ThreePlusFaults' /\ FreshRows' /\ FirstPosts'
  BY <1>5 DEF SoloInv, ThreePlusFaults, FreshRows, FirstPosts
<1>11. RetriesAreSpare'
  BY <1>5, <1>7, <1>9 DEF SoloInv, RetriesAreSpare
<1>12. ListIsCurrent'
  BY <1>4, <1>5, <1>6, <1>7, <1>8, <1>9 DEF SoloInv, RetriesAreSpare, ListIsCurrent
<1>13. HandIsCurrent'
  BY <1>7 DEF HandIsCurrent
<1>14. AcceptedIsTold'
  <2> SUFFICES ASSUME faults' = 0, NEW r \in accepted'
               PROVE  /\ status'[r] # "failed"
                      /\ status'[r] # "retrying"
                      /\ sweep'[s].left[r] = 0
    BY <1>6, <1>7 DEF AcceptedIsTold
  <2>1. faults = 0 /\ r \in accepted /\ r \in Rows
    BY <1>5 DEF TypeOK
  <2>2. status[r] # "failed" /\ status[r] # "retrying"
    BY <1>7, <2>1 DEF SoloInv, AcceptedIsTold
  <2> QED
    BY <1>4, <1>5, <1>8, <2>1, <2>2
<1> QED
  BY <1>10, <1>11, <1>12, <1>13, <1>14 DEF SoloInv

(* The next attempt: the row leaves the list for the hand, with the post   *)
(* it could spare.                                                         *)
LEMMA SoloPost ==
  ASSUME TypeOK, LogInv, SoloInv, OneSweep, NEW s \in Sweeps, Post(s)
  PROVE  SoloInv'
<1>1. PICK r \in Rows, answer \in Answers \cup {"thrown"} :
        /\ sweep[s].left[r] > 0
        /\ PostRow(r, answer)
        /\ sweep' = [sweep EXCEPT ![s] =
             Sweep("update", r, Increment(sweep[s].left[r]), answer,
                   [sweep[s].left EXCEPT ![r] = 0])]
  BY DEF Post
<1>2. PICK n, left : n = Increment(sweep[s].left[r]) /\ left = [sweep[s].left EXCEPT ![r] = 0]
  OBVIOUS
<1>3. /\ sweep[s].left \in [Rows -> Counts] /\ r \in 0 .. MaxRows
      /\ n \in Counts /\ left \in [Rows -> Counts]
  <2>1. sweep[s].left \in [Rows -> Counts] /\ 0 \in Counts
    BY Current, WebhooksAssumption DEF Counts
  <2>2. r \in 0 .. MaxRows
    BY WebhooksAssumption DEF Rows
  <2>3. n \in Counts
    BY <1>2, <2>1, IncrementType
  <2>4. left \in [Rows -> Counts]
    BY <1>2, <2>1
  <2> QED
    BY <2>1, <2>2, <2>3, <2>4
<1>4. sweep'[s] = Sweep("update", r, n, answer, left)
  BY <1>1, <1>2 DEF TypeOK
<1>5. /\ sweep'[s].pc = "update" /\ sweep'[s].row = r /\ sweep'[s].attempt = n
      /\ sweep'[s].answer = answer /\ sweep'[s].left = left
  BY <1>3, <1>4, SweepType
<1>6. /\ sweep[s].pc = "post"
      /\ UNCHANGED <<worker, issued, status, attempt, faults>>
  BY DEF Post, rowVars
<1>7. \A t \in Sweeps : t = s
  BY DEF OneSweep
<1>8. /\ \A t \in Sweeps : \A q : ~InHand(t, q)
      /\ \A t \in Sweeps : \A q : InHand(t, q)' <=> q = r
  BY <1>5, <1>6, <1>7 DEF InHand
<1>9. /\ \A q \in Rows : posts[q] \in Nat /\ posts[q] <= MaxPosts /\ attempt[q] \in Nat
      /\ \A q \in Rows : sweep[s].left[q] \in Nat
      /\ faults \in Nat /\ issued \in Nat
  BY SoloNumbers
<1>10. /\ posts'[r] = Increment(posts[r])
       /\ \A q \in Rows : q # r => posts'[q] = posts[q]
  BY <1>1 DEF PostRow, TypeOK
<1>11. /\ \A q : q # r => (q \in accepted' <=> q \in accepted)
       /\ r \in accepted' => r \in accepted \/ answer = "ok"
  BY <1>1 DEF PostRow
<1>12. /\ status[r] \in {"retrying", "gone"} /\ attempt[r] = sweep[s].left[r] /\ Spare(r)
  BY <1>1 DEF SoloInv, ListIsCurrent
<1>13. posts'[r] <= posts[r] + 1 /\ posts'[r] <= MaxPosts /\ posts'[r] \in Nat
  BY <1>9, <1>10, WebhooksAssumption DEF Increment
<1>14. n <= attempt[r] + 1 /\ (n = attempt[r] + 1 \/ n = MaxPosts) /\ n \in Nat
  BY <1>2, <1>9, <1>12, <1>3, WebhooksAssumption DEF Increment, Counts
<1>15. posts'[r] <= 3 + faults /\ posts'[r] <= n + faults
  BY <1>9, <1>12, <1>13, <1>14 DEF Spare
<1>16. \A q \in Rows : q # r => (Spare(q)' <=> Spare(q))
  BY <1>6, <1>10 DEF Spare
<1>17. /\ left[r] = 0
       /\ \A q \in Rows : q # r => left[q] = sweep[s].left[q]
  BY <1>2, <1>3
<1>18. ThreePlusFaults'
  BY <1>6, <1>10, <1>15 DEF SoloInv, ThreePlusFaults
<1>19. FreshRows'
  <2> SUFFICES ASSUME NEW q \in Rows, q > issued PROVE posts'[q] = 0 /\ q \notin accepted'
    BY <1>6 DEF FreshRows
  <2>1. status[q] = "none" /\ posts[q] = 0 /\ q \notin accepted
    BY FreshRowIsFree
  <2>2. q # r
    BY <1>12, <2>1
  <2> QED
    BY <1>10, <1>11, <2>1, <2>2
<1>20. FirstPosts'
  <2>1. \A w \in Workers :
          worker[w].pc = "append" => worker[w].row \in Rows /\ worker[w].row # r
    BY <1>12, Current DEF SoloInv, FirstPosts
  <2> QED
    BY <1>6, <1>10, <1>11, <2>1 DEF SoloInv, FirstPosts
<1>21. RetriesAreSpare'
  <2> SUFFICES ASSUME NEW q \in Rows, status'[q] = "retrying", q # r PROVE Spare(q)'
    BY <1>8 DEF RetriesAreSpare
  <2> QED
    BY <1>6, <1>8, <1>16 DEF SoloInv, RetriesAreSpare
<1>22. ListIsCurrent'
  <2> SUFFICES ASSUME NEW q \in Rows, left[q] > 0
               PROVE  /\ status'[q] \in {"retrying", "gone"}
                      /\ attempt'[q] = left[q]
                      /\ Spare(q)'
                      /\ q # r
    BY <1>5, <1>7, <1>8 DEF ListIsCurrent
  <2>1. q # r /\ sweep[s].left[q] > 0
    BY <1>17
  <2> QED
    BY <1>6, <1>16, <1>17, <2>1 DEF SoloInv, ListIsCurrent
<1>23. HandIsCurrent'
  <2> SUFFICES /\ status'[r] \in {"retrying", "gone"}
               /\ posts'[r] <= n + faults
               /\ n <= attempt'[r] + 1
    BY <1>5, <1>6, <1>7, <1>8 DEF HandIsCurrent
  <2> QED
    BY <1>6, <1>12, <1>14, <1>15
<1>24. AcceptedIsTold'
  <2> SUFFICES ASSUME faults = 0, NEW q \in accepted'
               PROVE  /\ status[q] # "failed"
                      /\ status[q] = "retrying" => q = r
                      /\ q = r => answer = "ok"
                      /\ left[q] = 0
    BY <1>5, <1>6, <1>7, <1>8 DEF AcceptedIsTold
  <2>1. \A p \in accepted : /\ status[p] # "failed" /\ status[p] # "retrying"
                            /\ sweep[s].left[p] = 0
    BY <1>8 DEF SoloInv, AcceptedIsTold
  <2>2. r \notin accepted
    BY <1>1, <2>1
  <2>3. CASE q = r
    BY <1>11, <1>12, <1>17, <2>2, <2>3
  <2>4. CASE q # r
    <3>1. q \in accepted /\ q \in Rows
      BY <1>11, <2>4 DEF TypeOK
    <3> QED
      BY <1>17, <2>1, <2>4, <3>1
  <2> QED
    BY <2>3, <2>4
<1> QED
  BY <1>18, <1>19, <1>20, <1>21, <1>22, <1>23, <1>24 DEF SoloInv

(* The first write of an outcome: the attempt column of the row in hand.   *)
LEMMA SoloUpdate ==
  ASSUME TypeOK, SoloInv, OneSweep, NEW s \in Sweeps, Update(s)
  PROVE  SoloInv'
<1>1. PICK r : r = sweep[s].row
  OBVIOUS
<1>2. /\ sweep[s].pc = "update" /\ sweep[s] \in SweepStates /\ r \in Rows
      /\ UNCHANGED <<worker, issued, status, posts, accepted, faults>>
  BY <1>1, Current DEF Update, history
<1>3. /\ InStore(r) => attempt'[r] = sweep[s].attempt
      /\ ~InStore(r) => attempt'[r] = attempt[r]
      /\ \A q \in Rows : q # r => attempt'[q] = attempt[q]
  BY <1>1, <1>2 DEF Update, TypeOK
<1>4. /\ sweep'[s].pc = "record" /\ sweep'[s].row = r
      /\ sweep'[s].attempt = sweep[s].attempt /\ sweep'[s].answer = sweep[s].answer
      /\ sweep'[s].left = sweep[s].left
  <2>1. sweep'[s] = [sweep[s] EXCEPT !.pc = "record"]
    BY DEF Update, TypeOK
  <2>2. /\ sweep[s].row \in 0 .. MaxRows /\ sweep[s].attempt \in Counts
        /\ sweep[s].answer \in Answers \cup {"thrown"} /\ sweep[s].left \in [Rows -> Counts]
        /\ sweep'[s] = Sweep("record", r, sweep[s].attempt, sweep[s].answer, sweep[s].left)
    BY <1>1, <1>2, <2>1, SweepFields
  <2> QED
    BY <1>1, <2>2, SweepType
<1>5. \A t \in Sweeps : t = s
  BY DEF OneSweep
<1>6. /\ \A t \in Sweeps : \A q : InHand(t, q) <=> q = r
      /\ \A t \in Sweeps : \A q : InHand(t, q)' <=> q = r
  BY <1>1, <1>2, <1>4, <1>5 DEF InHand
<1>7. \A q \in Rows : q # r => (Spare(q)' <=> Spare(q))
  BY <1>2, <1>3 DEF Spare
<1>8. \A q : InStore(q)' <=> InStore(q)
  BY <1>2 DEF InStore
<1>9. ThreePlusFaults' /\ FreshRows' /\ FirstPosts'
  BY <1>2 DEF SoloInv, ThreePlusFaults, FreshRows, FirstPosts
<1>10. RetriesAreSpare'
  BY <1>2, <1>6, <1>7 DEF SoloInv, RetriesAreSpare
<1>11. ListIsCurrent'
  BY <1>2, <1>3, <1>4, <1>5, <1>6, <1>7 DEF SoloInv, ListIsCurrent
<1>12. HandIsCurrent'
  <2> SUFFICES /\ status'[r] \in {"retrying", "gone"}
               /\ posts'[r] <= sweep[s].attempt + faults'
               /\ sweep[s].attempt <= attempt'[r] + 1
               /\ InStore(r) => attempt'[r] = sweep[s].attempt
    BY <1>4, <1>5, <1>6, <1>8 DEF HandIsCurrent
  <2>1. /\ status[r] \in {"retrying", "gone"}
        /\ posts[r] <= sweep[s].attempt + faults
        /\ sweep[s].attempt <= attempt[r] + 1
    BY <1>2, <1>6 DEF SoloInv, HandIsCurrent
  <2>2. sweep[s].attempt \in Nat /\ attempt[r] \in Nat
    BY <1>2, SoloNumbers
  <2>3. sweep[s].attempt <= attempt'[r] + 1
    BY <1>3, <2>1, <2>2
  <2> QED
    BY <1>2, <1>3, <2>1, <2>3
<1>13. AcceptedIsTold'
  BY <1>2, <1>4, <1>5, <1>6 DEF SoloInv, AcceptedIsTold
<1> QED
  BY <1>9, <1>10, <1>11, <1>12, <1>13 DEF SoloInv

(* The second write: the status, which is that of the answer in hand; a    *)
(* row that is to be retried has been posted twice at most.                *)
LEMMA SoloRecord ==
  ASSUME TypeOK, SoloInv, OneSweep, NEW s \in Sweeps, Record(s)
  PROVE  SoloInv'
<1>1. PICK r, n, answer : r = sweep[s].row /\ n = sweep[s].attempt /\ answer = sweep[s].answer
  OBVIOUS
<1>2. /\ sweep[s].pc = "record" /\ r \in Rows /\ sweep[s].left \in [Rows -> Counts]
      /\ UNCHANGED <<worker, issued, attempt, posts, accepted, faults>>
  BY <1>1, Current DEF Record, history
<1>3. /\ ~InStore(r) => status'[r] = status[r]
      /\ InStore(r) => status'[r] = Outcome(answer, n)
      /\ \A q \in Rows : q # r => status'[q] = status[q]
  BY <1>1, <1>2 DEF Record, TypeOK
<1>4. sweep'[s].pc \in {"idle", "post"} /\ sweep'[s].left = sweep[s].left
  BY <1>2, FollowingType DEF Record, TypeOK
<1>5. \A t \in Sweeps : t = s
  BY DEF OneSweep
<1>6. /\ \A t \in Sweeps : \A q : InHand(t, q) <=> q = r
      /\ \A t \in Sweeps : \A q : ~InHand(t, q)'
  BY <1>1, <1>2, <1>4, <1>5 DEF InHand
<1>7. \A q : Spare(q)' <=> Spare(q)
  BY <1>2 DEF Spare
<1>8. /\ status[r] \in {"retrying", "gone"}
      /\ posts[r] <= n + faults
      /\ InStore(r) => attempt[r] = n
  BY <1>1, <1>2, <1>6 DEF SoloInv, HandIsCurrent
<1>9. n \in Nat /\ posts[r] \in Nat /\ faults \in Nat
  BY <1>1, <1>2, SoloNumbers
<1>10. ThreePlusFaults' /\ FreshRows'
  BY <1>2 DEF SoloInv, ThreePlusFaults, FreshRows
<1>11. FirstPosts'
  <2>1. \A w \in Workers :
          worker[w].pc = "append" => worker[w].row \in Rows /\ worker[w].row # r
    BY <1>8, Current DEF SoloInv, FirstPosts
  <2> QED
    BY <1>2, <1>3, <2>1 DEF SoloInv, FirstPosts
<1>12. RetriesAreSpare'
  <2> SUFFICES ASSUME NEW q \in Rows, status'[q] = "retrying" PROVE Spare(q)
    BY <1>7 DEF RetriesAreSpare
  <2>1. CASE q = r
    <3>1. InStore(r) /\ n < 3
      BY <1>3, <1>8, <1>9, <2>1 DEF InStore, Outcome
    <3>2. posts[r] <= 2 + faults
      BY <1>8, <1>9, <3>1
    <3> QED
      BY <1>8, <2>1, <3>1, <3>2 DEF Spare
  <2>2. CASE q # r
    BY <1>3, <1>6, <2>2 DEF SoloInv, RetriesAreSpare
  <2> QED
    BY <2>1, <2>2
<1>13. ListIsCurrent'
  BY <1>2, <1>3, <1>4, <1>5, <1>6, <1>7 DEF SoloInv, ListIsCurrent
<1>14. HandIsCurrent'
  BY <1>6 DEF HandIsCurrent
<1>15. AcceptedIsTold'
  <2> SUFFICES ASSUME faults = 0, NEW q \in accepted
               PROVE  /\ status'[q] # "failed" /\ status'[q] # "retrying"
                      /\ sweep[s].left[q] = 0
    BY <1>2, <1>4, <1>5, <1>6 DEF AcceptedIsTold
  <2>1. q \in Rows
    BY DEF TypeOK
  <2>2. /\ status[q] # "failed" /\ (status[q] = "retrying" => q = r)
        /\ q = r => answer = "ok"
        /\ sweep[s].left[q] = 0
    BY <1>1, <1>6 DEF SoloInv, AcceptedIsTold
  <2>3. CASE q = r
    <3>1. Outcome(answer, n) = "success"
      BY <2>2, <2>3 DEF Outcome
    <3> QED
      BY <1>3, <1>8, <2>2, <2>3, <3>1 DEF InStore
  <2>4. CASE q # r
    BY <1>3, <2>1, <2>2, <2>4
  <2> QED
    BY <2>3, <2>4
<1> QED
  BY <1>10, <1>11, <1>12, <1>13, <1>14, <1>15 DEF SoloInv

(* A sweep that ends before it recorded an outcome: the fault is the post  *)
(* the row in hand has had too many.                                       *)
LEMMA SoloEnds ==
  ASSUME TypeOK, SoloInv, OneSweep, NEW s \in Sweeps,
         sweep' = [sweep EXCEPT ![s] = IdleSweep],
         faults' = faults + 1,
         UNCHANGED <<worker, issued, status, attempt, posts, accepted>>
  PROVE  SoloInv'
<1>1. /\ sweep'[s].pc = "idle"
      /\ \A r \in Rows : sweep'[s].left[r] = 0
  BY IdleTypes DEF TypeOK, Nothing
<1>2. \A t \in Sweeps : t = s
  BY DEF OneSweep
<1>3. \A t \in Sweeps : \A r : ~InHand(t, r)'
  BY <1>1, <1>2 DEF InHand
<1>4. /\ faults \in Nat /\ faults' # 0
      /\ \A r \in Rows : posts[r] \in Nat /\ attempt[r] \in Nat
      /\ sweep[s].attempt \in Nat
  BY SoloNumbers
<1>5. ThreePlusFaults'
  BY <1>4 DEF SoloInv, ThreePlusFaults
<1>6. FreshRows' /\ FirstPosts'
  BY DEF SoloInv, FreshRows, FirstPosts
<1>7. RetriesAreSpare'
  <2> SUFFICES ASSUME NEW r \in Rows, status[r] = "retrying" PROVE Spare(r)'
    BY DEF RetriesAreSpare
  <2>1. CASE InHand(s, r)
    <3>1. posts[r] <= 3 + faults /\ posts[r] <= attempt[r] + 1 + faults
      <4>1. /\ posts[r] <= sweep[s].attempt + faults
            /\ sweep[s].attempt <= attempt[r] + 1
        BY <2>1 DEF SoloInv, HandIsCurrent
      <4>2. posts[r] <= 3 + faults
        BY DEF SoloInv, ThreePlusFaults
      <4> QED
        BY <1>4, <4>1, <4>2
    <3> QED
      BY <1>4, <3>1 DEF Spare
  <2>2. CASE ~InHand(s, r)
    <3>1. Spare(r)
      BY <1>2, <2>2 DEF SoloInv, RetriesAreSpare
    <3> QED
      BY <1>4, <3>1 DEF Spare
  <2> QED
    BY <2>1, <2>2
<1>8. ListIsCurrent'
  BY <1>1, <1>2 DEF ListIsCurrent
<1>9. HandIsCurrent'
  BY <1>3 DEF HandIsCurrent
<1>10. AcceptedIsTold'
  BY <1>4 DEF AcceptedIsTold
<1> QED
  BY <1>5, <1>6, <1>7, <1>8, <1>9, <1>10 DEF SoloInv

(* A write that throws in the try block: the catch block has the same row  *)
(* in hand, under the same attempt.                                        *)
LEMMA SoloCatches ==
  ASSUME TypeOK, SoloInv, OneSweep, NEW s \in Sweeps,
         sweep[s].pc \in {"update", "record"},
         sweep' = [sweep EXCEPT ![s] =
           Sweep("update", sweep[s].row, sweep[s].attempt, "thrown", sweep[s].left)],
         faults' = faults + 1,
         UNCHANGED <<worker, issued, status, attempt, posts, accepted>>
  PROVE  SoloInv'
<1>1. PICK r, n, left : r = sweep[s].row /\ n = sweep[s].attempt /\ left = sweep[s].left
  OBVIOUS
<1>2. /\ r \in Rows /\ r \in 0 .. MaxRows /\ n \in Counts /\ left \in [Rows -> Counts]
  BY <1>1, Current DEF Rows
<1>3. sweep'[s] = Sweep("update", r, n, "thrown", left)
  BY <1>1 DEF TypeOK
<1>4. /\ sweep'[s].pc = "update" /\ sweep'[s].row = r /\ sweep'[s].attempt = n
      /\ sweep'[s].left = left
  BY <1>2, <1>3, SweepType
<1>5. \A t \in Sweeps : t = s
  BY DEF OneSweep
<1>6. /\ \A t \in Sweeps : \A q : InHand(t, q) <=> q = r
      /\ \A t \in Sweeps : \A q : InHand(t, q)' <=> q = r
  BY <1>1, <1>4, <1>5 DEF InHand
<1>7. /\ faults \in Nat /\ faults' # 0
      /\ \A q \in Rows : posts[q] \in Nat /\ attempt[q] \in Nat
      /\ n \in Nat
  BY <1>1, SoloNumbers
<1>8. \A q \in Rows : Spare(q) => Spare(q)'
  BY <1>7 DEF Spare
<1>9. ThreePlusFaults'
  BY <1>7 DEF SoloInv, ThreePlusFaults
<1>10. FreshRows' /\ FirstPosts'
  BY DEF SoloInv, FreshRows, FirstPosts
<1>11. RetriesAreSpare'
  BY <1>6, <1>8 DEF SoloInv, RetriesAreSpare
<1>12. ListIsCurrent'
  BY <1>1, <1>4, <1>5, <1>6, <1>8 DEF SoloInv, ListIsCurrent
<1>13. HandIsCurrent'
  <2> SUFFICES /\ status[r] \in {"retrying", "gone"}
               /\ posts[r] <= n + faults'
               /\ n <= attempt[r] + 1
    BY <1>4, <1>5, <1>6 DEF HandIsCurrent
  <2>1. /\ status[r] \in {"retrying", "gone"}
        /\ posts[r] <= n + faults
        /\ n <= attempt[r] + 1
    BY <1>1, <1>2, <1>6 DEF SoloInv, HandIsCurrent
  <2> QED
    BY <1>2, <1>7, <2>1
<1>14. AcceptedIsTold'
  BY <1>7 DEF AcceptedIsTold
<1> QED
  BY <1>9, <1>10, <1>11, <1>12, <1>13, <1>14 DEF SoloInv

(* With one sweep, every step keeps the posts and the outcomes adding up.  *)
LEMMA SoloStep ==
  ASSUME OneSweep PROVE TypeOK /\ LogInv /\ SoloInv /\ [Next]_vars => SoloInv'
<1> SUFFICES ASSUME TypeOK, LogInv, SoloInv, [Next]_vars PROVE SoloInv'
  OBVIOUS
<1>e. ASSUME NEW j \in Jobs, Enqueue(j) \/ Duplicate(j) PROVE SoloInv'
  BY <1>e, SoloQuiet DEF Enqueue, Duplicate, Fault, rowVars, history
<1>w. ASSUME NEW w \in Workers, WorkerStep(w) \/ WorkerFails(w) PROVE SoloInv'
  <2>1. CASE Deliver(w)
    <3>1. PICK j \in Jobs, answer \in Answers :
            /\ NewRow(j)
            /\ PostRow(issued + 1, answer)
            /\ worker' = [worker EXCEPT ![w] = Worker("append", j, issued + 1, answer)]
      BY <2>1 DEF Deliver
    <3>2. /\ issued + 1 \in Rows /\ issued + 1 \in 0 .. MaxRows /\ issued' = issued + 1
          /\ UNCHANGED <<status, attempt, sweep, faults>>
      BY <2>1, <3>1, NewRowType DEF Deliver, rowVars, Rows
    <3>3. /\ worker'[w].row = issued + 1 /\ worker'[w].answer = answer
          /\ \A v \in Workers : v # w => worker'[v] = worker[v]
      BY <3>1, <3>2, WorkerType DEF TypeOK
    <3>4. status[issued + 1] = "none"
      <4>1. issued + 1 > issued
        BY SoloNumbers
      <4> QED
        BY <3>2, <4>1, FreshRowIsFree
    <3> QED
      BY <3>1, <3>2, <3>3, <3>4, SoloFirst
  <2>2. CASE Append(w)
    BY <2>2, SoloAppend
  <2>3. CASE Ack(w) \/ WorkerFails(w)
    <3>1. /\ worker' = [worker EXCEPT ![w] = IdleWorker]
          /\ UNCHANGED <<issued, status, attempt, sweep, posts, accepted>>
          /\ faults' = faults \/ faults' = faults + 1
      BY <2>3 DEF Ack, WorkerFails, Fault, rowVars, history
    <3>2. \A v \in Workers : worker'[v].pc = "append" => worker'[v] = worker[v]
      BY <3>1, IdleTypes DEF TypeOK
    <3> QED
      BY <3>1, <3>2, SoloQuiet
  <2> QED
    BY <1>w, <2>1, <2>2, <2>3 DEF WorkerStep
<1>t. CASE Test
  <2>1. PICK answer \in Answers :
          /\ PostRow(issued + 1, answer)
          /\ status' = [status EXCEPT ![issued + 1] =
                          IF answer = "ok" THEN "success" ELSE "failed"]
    BY <1>t DEF Test
  <2>2. /\ issued + 1 \in Rows /\ issued' = issued + 1
        /\ attempt' = [attempt EXCEPT ![issued + 1] = 1]
        /\ UNCHANGED <<worker, sweep, faults>>
    BY <1>t, NewRowType DEF Test
  <2>3. /\ \A r \in Rows : r # issued + 1 => status'[r] = status[r] /\ attempt'[r] = attempt[r]
        /\ status'[issued + 1] = IF answer = "ok" THEN "success" ELSE "failed"
    BY <2>1, <2>2 DEF TypeOK
  <2> QED
    BY <2>1, <2>2, <2>3, SoloFirst
<1>r. ASSUME NEW r \in Rows, Elapse(r) \/ Cleanup(r) PROVE SoloInv'
  <2>1. CASE Elapse(r)
    BY <2>1, SoloQuiet DEF Elapse, history
  <2> QED
    BY <1>r, <2>1, SoloCleanup
<1>s. ASSUME NEW s \in Sweeps, SweepStep(s) \/ StoreThrows(s) \/ Crash(s) PROVE SoloInv'
  <2>1. CASE SweepStep(s)
    BY <2>1, SoloList, SoloPost, SoloUpdate, SoloRecord DEF SweepStep
  <2>2. CASE StoreThrows(s)
    <3>1. /\ UNCHANGED <<worker, issued, status, attempt, posts, accepted>>
          /\ faults' = faults + 1
          /\ sweep[s].pc \in {"update", "record"}
          /\ \/ sweep' = [sweep EXCEPT ![s] =
                  Sweep("update", sweep[s].row, sweep[s].attempt, "thrown", sweep[s].left)]
             \/ sweep' = [sweep EXCEPT ![s] = IdleSweep]
      BY <2>2 DEF StoreThrows, Fault, rowVars, history
    <3> QED
      BY <3>1, SoloCatches, SoloEnds
  <2>3. CASE Crash(s)
    BY <2>3, SoloEnds DEF Crash, Fault, rowVars, history
  <2> QED
    BY <1>s, <2>1, <2>2, <2>3
<1>u. CASE UNCHANGED vars
  BY <1>u, SoloQuiet DEF vars, rowVars, history
<1> QED
  BY <1>e, <1>w, <1>t, <1>r, <1>s, <1>u DEF Next

(* SoloInv holds in every behaviour with one sweep at a time.              *)
LEMMA SoloInvariant == ASSUME OneSweep PROVE Spec => []SoloInv
<1>1. Init => SoloInv
  <2> SUFFICES ASSUME Init PROVE SoloInv
    OBVIOUS
  <2>1. /\ \A s \in Sweeps, r \in Rows : sweep[s].left[r] = 0 /\ ~InHand(s, r)
        /\ \A w \in Workers : worker[w].pc = "idle"
    BY IdleTypes DEF Init, InHand, Nothing
  <2> QED
    BY <2>1, WebhooksAssumption
       DEF Init, SoloInv, ThreePlusFaults, FreshRows, FirstPosts, RetriesAreSpare,
           ListIsCurrent, HandIsCurrent, AcceptedIsTold
<1>2. TypeOK /\ LogInv /\ SoloInv /\ [Next]_vars => SoloInv'
  BY SoloStep
<1> QED
  BY <1>1, <1>2, TypeCorrect, LogInvariant, PTL DEF Spec

(* With one sweep at a time, whatever crashes and throws, the posts of a   *)
(* row are three and at most one more per fault; and while nothing failed, *)
(* no delivery the endpoint accepted is recorded as failed.                *)
THEOREM SoloSweepsAreExplained == ASSUME OneSweep PROVE Spec => []SoloSweepsAddUp
<1>1. SoloInv /\ TypeOK => SoloSweepsAddUp
  BY DEF SoloInv, AcceptedIsTold, SoloSweepsAddUp, AcceptedNotFailed
<1> QED
  BY <1>1, SoloInvariant, TypeCorrect, PTL

-----------------------------------------------------------------------------
(* A settled row.                                                          *)

SettledStay == \A r \in Rows : status[r] \in Settled => status'[r] \in {status[r], "gone"}

(* Nothing writes to a settled row but the cleanup: a worker's row is not  *)
(* in the log yet, and the row in the sweep's hand is still retried.       *)
LEMMA SettledStep ==
  ASSUME TypeOK, LogInv, SoloInv, [Next]_vars PROVE SettledStay
<1>0. Settled = {"success", "failed"}
  BY DEF Settled
<1>e. ASSUME NEW j \in Jobs, Enqueue(j) \/ Duplicate(j) PROVE SettledStay
  BY <1>e DEF Enqueue, Duplicate, SettledStay, rowVars
<1>w. ASSUME NEW w \in Workers, WorkerStep(w) \/ WorkerFails(w) PROVE SettledStay
  <2>1. CASE Append(w)
    <3>1. worker[w].row \in Rows /\ status[worker[w].row] = "none"
      BY <2>1, Current DEF Append, SoloInv, FirstPosts
    <3>2. \A r \in Rows : r # worker[w].row => status'[r] = status[r]
      BY <2>1, <3>1 DEF Append, TypeOK
    <3> QED
      BY <1>0, <3>1, <3>2 DEF SettledStay
  <2>2. CASE ~Append(w)
    BY <1>w, <2>2 DEF WorkerStep, Deliver, Ack, WorkerFails, SettledStay, rowVars
  <2> QED
    BY <2>1, <2>2
<1>t. CASE Test
  <2>1. issued + 1 \in Rows
    BY <1>t, NewRowType DEF Test
  <2>2. issued + 1 > issued
    BY SoloNumbers
  <2>3. status[issued + 1] = "none"
    BY <2>1, <2>2, FreshRowIsFree
  <2>4. \A r \in Rows : r # issued + 1 => status'[r] = status[r]
    BY <1>t DEF Test, TypeOK
  <2> QED
    BY <1>0, <2>3, <2>4 DEF SettledStay
<1>r. ASSUME NEW k \in Rows, Elapse(k) \/ Cleanup(k) PROVE SettledStay
  BY <1>r DEF Elapse, Cleanup, SettledStay
<1>s. ASSUME NEW s \in Sweeps, SweepStep(s) \/ StoreThrows(s) \/ Crash(s) PROVE SettledStay
  <2>1. CASE Record(s)
    <3>1. sweep[s].row \in Rows
      BY <2>1, Current DEF Record
    <3>2. InHand(s, sweep[s].row)
      BY <2>1, <3>1 DEF Record, InHand
    <3>3. status[sweep[s].row] \in {"retrying", "gone"}
      BY <3>1, <3>2 DEF SoloInv, HandIsCurrent
    <3>4. \A r \in Rows : r # sweep[s].row => status'[r] = status[r]
      BY <2>1, <3>1 DEF Record, TypeOK
    <3> QED
      BY <1>0, <3>3, <3>4 DEF SettledStay
  <2>2. CASE ~Record(s)
    BY <1>s, <2>2
       DEF SweepStep, List, Post, Update, StoreThrows, Crash, SettledStay, rowVars
  <2> QED
    BY <2>1, <2>2
<1>u. CASE UNCHANGED vars
  BY <1>u DEF vars, rowVars, SettledStay
<1> QED
  BY <1>e, <1>w, <1>t, <1>r, <1>s, <1>u DEF Next

(* With one sweep at a time a delivery that was recorded as a success or   *)
(* as failed keeps that status until it is cleaned up: the half of         *)
(* SettlesOnce that says what a step may never do.                         *)
THEOREM SettledRowsStay == ASSUME OneSweep PROVE Spec => SettledStaysSettled
<1>1. TypeOK /\ LogInv /\ SoloInv /\ [Next]_vars => SettledStay
  BY SettledStep
<1> QED
  BY <1>1, TypeCorrect, LogInvariant, SoloInvariant, PTL
     DEF Spec, SettledStaysSettled, SettledStay
=============================================================================
