------------------------------ MODULE Webhooks ------------------------------
(***************************************************************************)
(* Webhook delivery: the fan-out of an event to delivery jobs, the         *)
(* webhook-deliver job with the first attempt, the webhook-retry-sweep job *)
(* with the others, and the cleanup of the delivery log.                   *)
(*                                                                         *)
(* A delivery job posts the event and then appends one row to the log.     *)
(* The sweep takes the rows that are due, posts them again one by one and  *)
(* writes the outcome in two steps, the attempt number and then the        *)
(* status.  Nothing keeps two sweeps apart: every failed first attempt     *)
(* enqueues one and the cron starts more.  Workers and sweeps may crash    *)
(* and the store may throw; the queue delivers at least once or, with an   *)
(* in-process adapter, never again.                                        *)
(***************************************************************************)
EXTENDS Integers, FiniteSets

CONSTANTS
  Jobs,        (* webhook-deliver jobs: one per event and matching target   *)
  Workers,     (* delivery jobs that may run at one time                    *)
  Sweeps,      (* retry sweeps that may run at one time                     *)
  MaxRows,     (* bound on the rows of the delivery log                     *)
  MaxTests,    (* bound on the test deliveries among them                   *)
  MaxPosts,    (* attempt numbers and post counts stop here                 *)
  MaxFaults,   (* bound on crashes, errors of store and queue, duplicates   *)
  BatchLimit,  (* batchLimit: the rows one sweep takes at most              *)
  Redelivers   (* the queue delivers a job that failed again                *)

ASSUME WebhooksAssumption ==
  /\ "none" \notin Jobs
  /\ MaxRows \in Nat
  /\ MaxTests \in Nat
  /\ MaxPosts \in Nat /\ MaxPosts >= 3
  /\ MaxFaults \in Nat
  /\ BatchLimit \in Nat \ {0}
  /\ Redelivers \in BOOLEAN

VARIABLES
  job,       (* job[j]: "idle", "queued", "running", "done" or "lost"       *)
  worker,    (* worker[w]: progress of a delivery job                       *)
  issued,    (* rows whose id has been issued so far                        *)
  origin,    (* origin[r]: the job of row r, NoJob for a test delivery      *)
  status,    (* status[r]: "none" before the append, "gone" after cleanup   *)
  attempt,   (* attempt[r]: the attempt column                              *)
  waiting,   (* retrying rows whose nextAttemptAt is still to come          *)
  sweep,     (* sweep[s]: progress of a retry sweep                         *)
  posts,     (* posts[r]: times row r was posted (history variable)         *)
  accepted,  (* rows that were answered with a 2xx (history variable)       *)
  stopped,   (* rows that were answered with a 4xx (history variable)       *)
  faults     (* faults so far                                               *)

rowVars  == <<status, attempt, waiting>>
history  == <<posts, accepted, stopped>>
vars == <<job, worker, issued, origin, rowVars, sweep, history, faults>>

Rows  == 1 .. MaxRows
NoJob == "none"

Answers == {"ok", "stop", "error"}

Worker(pc, j, row, answer) == [pc |-> pc, job |-> j, row |-> row, answer |-> answer]

(* A sweep: the row it is at with the number of the attempt it makes and   *)
(* the answer it got ("thrown" in the catch block), and the attempt column *)
(* of the rows on its list as it was when the list was read, 0 for others. *)
Sweep(pc, row, n, answer, left) ==
  [pc |-> pc, row |-> row, attempt |-> n, answer |-> answer, left |-> left]

Nothing == [r \in Rows |-> 0]

IdleWorker == Worker("idle", NoJob, 0, "ok")
IdleSweep  == Sweep("idle", 0, 0, "ok", Nothing)

Init ==
  /\ job = [j \in Jobs |-> "idle"]
  /\ worker = [w \in Workers |-> IdleWorker]
  /\ issued = 0
  /\ origin = [r \in Rows |-> NoJob]
  /\ status = [r \in Rows |-> "none"]
  /\ attempt = [r \in Rows |-> 0]
  /\ waiting = {}
  /\ sweep = [s \in Sweeps |-> IdleSweep]
  /\ posts = [r \in Rows |-> 0]
  /\ accepted = {}
  /\ stopped = {}
  /\ faults = 0

Increment(n) == IF n < MaxPosts THEN n + 1 ELSE MaxPosts

Fault == faults < MaxFaults /\ faults' = faults + 1

(* A POST of row r reaches the endpoint and is answered; "error" stands    *)
(* for a 5xx, a timeout and a refused connection.                          *)
PostRow(r, answer) ==
  /\ posts' = [posts EXCEPT ![r] = Increment(@)]
  /\ accepted' = IF answer = "ok" THEN accepted \cup {r} ELSE accepted
  /\ stopped' = IF answer = "stop" THEN stopped \cup {r} ELSE stopped

NewRow(j) ==
  /\ issued < MaxRows
  /\ issued' = issued + 1
  /\ origin' = [origin EXCEPT ![issued + 1] = j]

-----------------------------------------------------------------------------
(* Fan-out and delivery jobs.                                              *)

(* An event was emitted and the job of a matching target is enqueued; an   *)
(* enqueue that fails is logged and forgotten.                             *)
Enqueue(j) ==
  /\ job[j] = "idle"
  /\ \/ job' = [job EXCEPT ![j] = "queued"] /\ UNCHANGED faults
     \/ job' = [job EXCEPT ![j] = "lost"] /\ Fault
  /\ UNCHANGED <<worker, issued, origin, rowVars, sweep, history>>

(* Mutant of Deliver: the job is acknowledged before its row is appended.  *)
DeliverDoneFirst(w) ==
  /\ worker[w].pc = "idle"
  /\ \E j \in Jobs, answer \in Answers :
       /\ job[j] = "queued"
       /\ NewRow(j)
       /\ PostRow(issued + 1, answer)
       /\ job' = [job EXCEPT ![j] = "done"]
       /\ worker' = [worker EXCEPT ![w] = Worker("append", j, issued + 1, answer)]
  /\ UNCHANGED <<rowVars, sweep, faults>>

(* deliverWebhook: a fresh row id and one POST.                            *)
Deliver(w) ==
  /\ worker[w].pc = "idle"
  /\ \E j \in Jobs, answer \in Answers :
       /\ job[j] = "queued"
       /\ NewRow(j)
       /\ PostRow(issued + 1, answer)
       /\ job' = [job EXCEPT ![j] = "running"]
       /\ worker' = [worker EXCEPT ![w] = Worker("append", j, issued + 1, answer)]
  /\ UNCHANGED <<rowVars, sweep, faults>>

(* appendDelivery: whatever went wrong, a 4xx too, the row is retried.     *)
Append(w) ==
  /\ worker[w].pc = "append"
  /\ LET r == worker[w].row
     IN  /\ attempt' = [attempt EXCEPT ![r] = 1]
         /\ \/ /\ worker[w].answer = "ok"
               /\ status' = [status EXCEPT ![r] = "success"]
               /\ UNCHANGED waiting
            \/ /\ worker[w].answer # "ok"
               /\ status' = [status EXCEPT ![r] = "retrying"]
               /\ waiting' = waiting \cup {r}
  /\ worker' = [worker EXCEPT ![w].pc = "ack"]
  /\ UNCHANGED <<job, issued, origin, sweep, history, faults>>

(* The job ends, after it enqueued a sweep (or failed to, which is only    *)
(* logged); sweeps start at any time here.                                 *)
Ack(w) ==
  /\ worker[w].pc = "ack"
  /\ job' = [job EXCEPT ![worker[w].job] = "done"]
  /\ worker' = [worker EXCEPT ![w] = IdleWorker]
  /\ UNCHANGED <<issued, origin, rowVars, sweep, history, faults>>

(* Mutant of WorkerFails: the handler swallows the error and answers 200.  *)
WorkerFailsQuietly(w) ==
  /\ worker[w].pc # "idle"
  /\ Fault
  /\ job' = [job EXCEPT ![worker[w].job] = "done"]
  /\ worker' = [worker EXCEPT ![w] = IdleWorker]
  /\ UNCHANGED <<issued, origin, rowVars, sweep, history>>

(* The worker crashes, or the append throws and the job answers 500.       *)
WorkerFails(w) ==
  /\ worker[w].pc # "idle"
  /\ Fault
  /\ job' = [job EXCEPT ![worker[w].job] = IF Redelivers THEN "queued" ELSE "lost"]
  /\ worker' = [worker EXCEPT ![w] = IdleWorker]
  /\ UNCHANGED <<issued, origin, rowVars, sweep, history>>

(* The queue delivers a finished job once more.                            *)
Duplicate(j) ==
  /\ Redelivers
  /\ job[j] = "done"
  /\ Fault
  /\ job' = [job EXCEPT ![j] = "queued"]
  /\ UNCHANGED <<worker, issued, origin, rowVars, sweep, history>>

(* deliverWebhookTest: one POST and a row that is final at once.           *)
Test ==
  /\ Cardinality({r \in 1 .. issued : origin[r] = NoJob}) < MaxTests
  /\ NewRow(NoJob)
  /\ \E answer \in Answers :
       /\ PostRow(issued + 1, answer)
       /\ status' = [status EXCEPT ![issued + 1] =
                       IF answer = "ok" THEN "success" ELSE "failed"]
  /\ attempt' = [attempt EXCEPT ![issued + 1] = 1]
  /\ UNCHANGED <<job, worker, waiting, sweep, faults>>

-----------------------------------------------------------------------------
(* The retry sweep.                                                        *)

(* A nextAttemptAt passes.                                                 *)
Elapse(r) ==
  /\ r \in waiting
  /\ waiting' = waiting \ {r}
  /\ UNCHANGED <<job, worker, issued, origin, status, attempt, sweep, history, faults>>

Due(r) == status[r] = "retrying" /\ r \notin waiting

DueRows == {r \in Rows : Due(r)}

(* A batch of the due rows, of the size of BatchLimit if there are so many.*)
IsBatch(B) ==
  /\ B # {}
  /\ B = DueRows \/ Cardinality(B) = BatchLimit

(* The sweep goes on with the next row of its list, or ends.               *)
Following(left) ==
  IF \E r \in Rows : left[r] > 0 THEN Sweep("post", 0, 0, "ok", left) ELSE IdleSweep

(* listPendingRetries.                                                     *)
List(s) ==
  /\ sweep[s].pc = "idle"
  /\ \E B \in SUBSET DueRows :
       /\ IsBatch(B)
       /\ sweep' = [sweep EXCEPT ![s] =
            Following([r \in Rows |-> IF r \in B THEN attempt[r] ELSE 0])]
  /\ UNCHANGED <<job, worker, issued, origin, rowVars, history, faults>>

(* The next attempt, numbered from the list.  An error may be a 5xx or an  *)
(* exception, which is handled in the catch block.                         *)
Post(s) ==
  /\ sweep[s].pc = "post"
  /\ \E r \in Rows, answer \in Answers \cup {"thrown"} :
       /\ sweep[s].left[r] > 0
       /\ PostRow(r, answer)
       /\ sweep' = [sweep EXCEPT ![s] =
            Sweep("update", r, Increment(sweep[s].left[r]), answer,
                  [sweep[s].left EXCEPT ![r] = 0])]
  /\ UNCHANGED <<job, worker, issued, origin, rowVars, faults>>

InStore(r) == status[r] \notin {"none", "gone"}

(* updateDelivery: the attempt column; nothing when the row is gone.       *)
Update(s) ==
  /\ sweep[s].pc = "update"
  /\ attempt' = IF InStore(sweep[s].row)
                  THEN [attempt EXCEPT ![sweep[s].row] = sweep[s].attempt]
                  ELSE attempt
  /\ sweep' = [sweep EXCEPT ![s].pc = "record"]
  /\ UNCHANGED <<job, worker, issued, origin, status, waiting, history, faults>>

(* Mutant of Outcome: the attempts are counted from zero.                  *)
OutcomeFourth(answer, n) ==
  IF answer = "ok" THEN "success"
  ELSE IF answer = "stop" \/ n > 3 THEN "failed" ELSE "retrying"

(* Mutant of Outcome: there is no last attempt.                            *)
OutcomeForever(answer, n) ==
  IF answer = "ok" THEN "success"
  ELSE IF answer = "stop" THEN "failed" ELSE "retrying"

(* Mutant of Outcome: a status of the older job design.                    *)
OutcomeExhausted(answer, n) ==
  IF answer = "ok" THEN "success"
  ELSE IF answer = "stop" \/ n >= 3 THEN "exhausted" ELSE "retrying"

(* What sweepAttempt records after attempt n.                              *)
Outcome(answer, n) ==
  IF answer = "ok" THEN "success"
  ELSE IF answer = "stop" \/ n >= 3 THEN "failed" ELSE "retrying"

(* recordAttempt: the status; nothing when the row is gone.  The status    *)
(* the row has in the meantime is not looked at.                           *)
Record(s) ==
  /\ sweep[s].pc = "record"
  /\ LET r == sweep[s].row
         outcome == Outcome(sweep[s].answer, sweep[s].attempt)
     IN  \/ /\ ~InStore(r)
            /\ UNCHANGED <<status, waiting>>
         \/ /\ InStore(r)
            /\ status' = [status EXCEPT ![r] = outcome]
            /\ waiting' = IF outcome = "retrying" THEN waiting \cup {r}
                                                  ELSE waiting \ {r}
  /\ sweep' = [sweep EXCEPT ![s] = Following(sweep[s].left)]
  /\ UNCHANGED <<job, worker, issued, origin, attempt, history, faults>>

(* One of the two writes throws.  In the try block the catch block takes   *)
(* over and repeats both as after a failed attempt; in the catch block the *)
(* sweep ends with a 500.                                                  *)
StoreThrows(s) ==
  /\ sweep[s].pc \in {"update", "record"}
  /\ Fault
  /\ \/ /\ sweep[s].answer # "thrown"
        /\ sweep' = [sweep EXCEPT ![s] =
             Sweep("update", sweep[s].row, sweep[s].attempt, "thrown", sweep[s].left)]
     \/ /\ sweep[s].answer = "thrown"
        /\ sweep' = [sweep EXCEPT ![s] = IdleSweep]
  /\ UNCHANGED <<job, worker, issued, origin, rowVars, history>>

Crash(s) ==
  /\ sweep[s].pc # "idle"
  /\ Fault
  /\ sweep' = [sweep EXCEPT ![s] = IdleSweep]
  /\ UNCHANGED <<job, worker, issued, origin, rowVars, history>>

-----------------------------------------------------------------------------
(* webhook-delivery-cleanup: the rows created up to a cutoff, whatever     *)
(* their status.  Ids are issued in the order of creation.                 *)
Cleanup(k) ==
  /\ \E r \in 1 .. k : InStore(r)
  /\ status' = [r \in Rows |-> IF r <= k /\ InStore(r) THEN "gone" ELSE status[r]]
  /\ waiting' = {r \in waiting : r > k}
  /\ UNCHANGED <<job, worker, issued, origin, attempt, sweep, history, faults>>

-----------------------------------------------------------------------------
WorkerStep(w) == Deliver(w) \/ Append(w) \/ Ack(w)

SweepStep(s) == List(s) \/ Post(s) \/ Update(s) \/ Record(s)

Next ==
  \/ \E j \in Jobs : Enqueue(j) \/ Duplicate(j)
  \/ \E w \in Workers : WorkerStep(w) \/ WorkerFails(w)
  \/ Test
  \/ \E r \in Rows : Elapse(r) \/ Cleanup(r)
  \/ \E s \in Sweeps : SweepStep(s) \/ StoreThrows(s) \/ Crash(s)

Spec == Init /\ [][Next]_vars

(* Jobs that were started go on, the queue hands out what it holds, the    *)
(* cron keeps starting sweeps and time passes.  Events, tests, faults and  *)
(* cleanups need not happen.                                               *)
Fairness ==
  /\ \A w \in Workers : WF_vars(WorkerStep(w))
  /\ \A s \in Sweeps : WF_vars(SweepStep(s))
  /\ \A r \in Rows : WF_vars(Elapse(r))

FairSpec == Spec /\ Fairness

-----------------------------------------------------------------------------
(* Properties.                                                             *)

JobStates == {"idle", "queued", "running", "done", "lost"}
Statuses  == {"none", "success", "retrying", "failed", "gone"}
Counts    == 0 .. MaxPosts

WorkerStates ==
  [pc : {"idle", "append", "ack"}, job : Jobs \cup {NoJob}, row : 0 .. MaxRows,
   answer : Answers]

SweepStates ==
  [pc : {"idle", "post", "update", "record"}, row : 0 .. MaxRows, attempt : Counts,
   answer : Answers \cup {"thrown"}, left : [Rows -> Counts]]

TypeOK ==
  /\ job \in [Jobs -> JobStates]
  /\ worker \in [Workers -> WorkerStates]
  /\ \A w \in Workers :
       worker[w].pc # "idle" => worker[w].job \in Jobs /\ worker[w].row \in Rows
  /\ issued \in 0 .. MaxRows
  /\ origin \in [Rows -> Jobs \cup {NoJob}]
  /\ status \in [Rows -> Statuses]
  /\ attempt \in [Rows -> Counts]
  /\ waiting \in SUBSET Rows
  /\ sweep \in [Sweeps -> SweepStates]
  /\ \A s \in Sweeps : sweep[s].pc \in {"update", "record"} => sweep[s].row \in Rows
  /\ posts \in [Rows -> Counts]
  /\ accepted \in SUBSET Rows
  /\ stopped \in SUBSET Rows
  /\ faults \in 0 .. MaxFaults

(* A row says "success" only if the endpoint answered one of its posts     *)
(* with a 2xx, in spite of sweeps that overtake one another, repeated      *)
(* writes and crashes between the two writes of an outcome.                *)
SuccessWasAnswered == \A r \in Rows : status[r] = "success" => r \in accepted

(* A delivery is given up only after three posts or a 4xx: no interleaving *)
(* of sweeps uses up an attempt that was not made.                         *)
GivenUpAfterThree ==
  \A r \in Rows :
    status[r] = "failed" /\ origin[r] # NoJob => posts[r] >= 3 \/ r \in stopped

(* A job is acknowledged only when the log holds (or held) a row for it:   *)
(* a crash can double a delivery but not make it disappear unseen.         *)
DoneIsRecorded ==
  \A j \in Jobs :
    job[j] = "done" => \E r \in Rows : origin[r] = j /\ status[r] # "none"

(* What the delivery log says of successes, of failures and of finished    *)
(* jobs is true, however sweeps, crashes and store errors fall.            *)
LogIsTrue == SuccessWasAnswered /\ GivenUpAfterThree /\ DoneIsRecorded

(* "Three attempts then permanent failure": a row is posted at most three  *)
(* times (dispatch.ts, nextWebhookRetryDelay; plan 015).                   *)
AtMostThree == \A r \in Rows : posts[r] <= 3

(* Of sweeps that do not overlap, each fault costs at most one more post.  *)
ThreePlusFaults == \A r \in Rows : posts[r] <= 3 + faults

(* A delivery the endpoint accepted is not recorded as failed, unless the  *)
(* store failed.                                                           *)
AcceptedNotFailed ==
  faults = 0 => \A r \in Rows : status[r] = "failed" => r \notin accepted

(* With one sweep at a time, then, the posts of a row and its outcome add  *)
(* up: the faults explain every post too many and every wrong failure.     *)
SoloSweepsAddUp == ThreePlusFaults /\ AcceptedNotFailed

(* "If status is already 'success' or 'failed', return 200 and stop": a    *)
(* row that was settled keeps its status until it is cleaned up.           *)
Settled == {"success", "failed"}

SettledStaysSettled ==
  [][\A r \in Rows : status[r] \in Settled => status'[r] \in {status[r], "gone"}]_vars

(* Every delivery settles: no row is retried for ever or left behind, even *)
(* when batches are short and sweeps and workers fail.                     *)
EventuallySettled == \A r \in Rows : <>[](status[r] # "retrying")

(* Every delivery settles, and only once.                                  *)
SettlesOnce == SettledStaysSettled /\ EventuallySettled

(* A job the queue took leads to a row of the log, when the queue delivers *)
(* at least once (and MaxRows leaves room for every delivery).             *)
QueuedIsRecorded ==
  \A j \in Jobs :
    job[j] = "queued" ~> \E r \in Rows : origin[r] = j /\ status[r] # "none"
=============================================================================
