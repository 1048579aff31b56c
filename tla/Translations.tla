---------------------------- MODULE Translations ----------------------------
(***************************************************************************)
(* The translation of one document into one locale: the variant kept for   *)
(* it, the jobs that produce it, the backfill route and the publish event  *)
(* that queue them, and editors who change or delete the source meanwhile. *)
(*                                                                         *)
(* A source is its version (updatedAt), a translated text the version it   *)
(* was made from.  The memory store upserts in one step.  The drizzle      *)
(* store reads the row, then inserts (where a unique index may object) or  *)
(* writes the whole row back, filled up from what it read.                 *)
(*                                                                         *)
(* The table is the one the drizzle store defines, with its unique index.  *)
(* The plugin's own schema (tables.ts) has another name for it and no such *)
(* index: in a table made from that, two rows might be stored.             *)
(***************************************************************************)
EXTENDS Integers, FiniteSets

CONSTANTS
    Workers,    \* translation jobs in flight at one time
    MaxJobs,    \* bound on the jobs queued
    MaxVersion, \* bound on the versions of the source
    Stores      \* the stores looked at, of {"memory", "drizzle"}

ASSUME TranslationsAssumption == /\ MaxJobs \in Nat
                                 /\ MaxVersion \in Nat \ {0}
                                 /\ Stores \subseteq {"memory", "drizzle"}

NoText == 0

VARIABLES
    store,      \* which store is configured
    source,     \* the version of the document, 0 once it is deleted
    variant,    \* the row of the variant
    queue,      \* jobs waiting
    queued,     \* jobs queued so far
    job,        \* what each worker is doing
    backfill,   \* what the backfill route is doing
    owed,       \* the version of the source when a job was last queued (history)
    best,       \* the latest version with a translation so far (history)
    overlapped, \* a job met another, or the write of a backfill (history)
    cut         \* a job, its delivery or a backfill ended half way (history)

translationVars ==
    <<store, source, variant, queue, queued, job, backfill, owed, best, overlapped, cut>>

Row(status, text, of) == [status |-> status, text |-> text, of |-> of]
NoRow == Row("none", NoText, 0)

\* pc "mark", "call", "save" or "fail"; read is the row found by an upsert whose
\* write is still to come.
Job(pc, of) == [pc |-> pc, of |-> of, reads |-> FALSE, row |-> NoRow]
NoJob == Job("idle", 0)

TranslationsInit == /\ store \in Stores
                    /\ source = 1
                    /\ variant = NoRow
                    /\ queue = 0
                    /\ queued = 0
                    /\ job = [w \in Workers |-> NoJob]
                    /\ backfill = NoJob
                    /\ owed = 0
                    /\ best = 0
                    /\ overlapped = FALSE
                    /\ cut = FALSE

-----------------------------------------------------------------------------
(* upsertVariant. *)

MergedOld(found, status, text, of) ==
    Row(status, IF found.text = NoText THEN text ELSE found.text, of)

\* What is not given is taken over from the row found.
Merged(found, status, text, of) ==
    Row(status, IF text = NoText THEN found.text ELSE text, of)

AtWork == {w \in Workers : job[w].pc # "idle"}

Reads(p) == store = "drizzle" /\ ~p.reads

\* The unique index of (collection, document, locale) refuses a second row.
Objects(p) == store = "drizzle" /\ p.row = NoRow /\ variant # NoRow

Found(p) == IF store = "drizzle" THEN p.row ELSE variant

\* The write of an upsert by p, which the unique index did not refuse.
Writes(p, status, text) == /\ ~Reads(p) /\ ~Objects(p)
                           /\ variant' = Merged(Found(p), status, text, p.of)

-----------------------------------------------------------------------------
(* Who asks for a translation. *)

Edit == /\ source \in 1..MaxVersion - 1
        /\ source' = source + 1
        /\ UNCHANGED <<store, variant, queue, queued, job, backfill, owed, best, overlapped, cut>>

DeleteSource == /\ source # 0
                /\ source' = 0
                /\ cut' = TRUE
                /\ UNCHANGED <<store, variant, queue, queued, job, backfill, owed, best, overlapped>>

Enqueued == queue' = queue + 1 /\ queued' = queued + 1 /\ owed' = source

\* content:after-publish; the memory adapter of the jobs runs the handler at once.
PublishEnqueues == /\ queued < MaxJobs
                   /\ source # 0
                   /\ Enqueued
                   /\ UNCHANGED <<store, source, variant, job, backfill, best, overlapped, cut>>

BackfillLists == /\ backfill.pc = "idle"
                 /\ queued < MaxJobs
                 /\ source # 0
                 /\ backfill' = Job("mark", source)
                 /\ UNCHANGED <<store, source, variant, queue, queued, job, owed, best, overlapped, cut>>

BackfillReads == /\ backfill.pc = "mark"
                 /\ Reads(backfill)
                 /\ backfill' = [backfill EXCEPT !.reads = TRUE, !.row = variant]
                 /\ overlapped' = (overlapped \/ AtWork # {})
                 /\ UNCHANGED <<store, source, variant, queue, queued, job, owed, best, cut>>

BackfillMarks == /\ backfill.pc = "mark"
                 /\ Writes(backfill, "pending", NoText)
                 /\ backfill' = Job("queue", backfill.of)
                 /\ UNCHANGED <<store, source, queue, queued, job, owed, best, overlapped, cut>>

BackfillEnqueues == /\ backfill.pc = "queue"
                    /\ queued < MaxJobs
                    /\ Enqueued
                    /\ backfill' = NoJob
                    /\ UNCHANGED <<store, source, variant, job, best, overlapped, cut>>

\* The store or the queue fails, or the process dies: a 500, the rest undone.
BackfillDies == /\ backfill.pc # "idle"
                /\ backfill' = NoJob
                /\ cut' = TRUE
                /\ UNCHANGED <<store, source, variant, queue, queued, job, owed, best, overlapped>>

-----------------------------------------------------------------------------
(* translateDocument. *)

Goes(w, j) == job' = [job EXCEPT ![w] = j]

\* A source that is gone answers 404, which the handler drops: the job is done.
Takes(w) == /\ job[w].pc = "idle"
            /\ queue > 0
            /\ queue' = queue - 1
            /\ Goes(w, IF source = 0 THEN NoJob ELSE Job("mark", source))
            /\ overlapped' = (overlapped \/ AtWork # {} \/ backfill.reads)
            /\ UNCHANGED <<store, source, variant, queued, backfill, owed, best, cut>>

JobReads(w) == /\ job[w].pc \in {"mark", "save", "fail"}
               /\ Reads(job[w])
               /\ Goes(w, [job[w] EXCEPT !.reads = TRUE, !.row = variant])
               /\ UNCHANGED <<store, source, variant, queue, queued, backfill, owed, best, overlapped, cut>>

Marks(w) == /\ job[w].pc = "mark"
            /\ Writes(job[w], "in_progress", NoText)
            /\ Goes(w, Job("call", job[w].of))
            /\ UNCHANGED <<store, source, queue, queued, backfill, owed, best, overlapped, cut>>

ProviderAnswers(w) == /\ job[w].pc = "call"
                      /\ \E pc \in {"save", "fail"} : Goes(w, Job(pc, job[w].of))
                      /\ UNCHANGED <<store, source, variant, queue, queued, backfill, owed, best, overlapped, cut>>

Saves(w) == /\ job[w].pc = "save"
            /\ Writes(job[w], "complete", job[w].of)
            /\ best' = IF job[w].of > best THEN job[w].of ELSE best
            /\ Goes(w, NoJob)
            /\ UNCHANGED <<store, source, queue, queued, backfill, owed, overlapped, cut>>

\* The upsert of the result is inside the try: its error is recorded as one.
SaveFails(w) == /\ job[w].pc = "save"
                /\ Goes(w, Job("fail", job[w].of))
                /\ UNCHANGED <<store, source, variant, queue, queued, backfill, owed, best, overlapped, cut>>

RecordsError(w) == /\ job[w].pc = "fail"
                   /\ Writes(job[w], "error", NoText)
                   /\ Goes(w, NoJob)
                   /\ UNCHANGED <<store, source, queue, queued, backfill, owed, best, overlapped, cut>>

\* The handler throws or the process dies; the provider of the queue delivers
\* the job again, or does not.
JobDies(w) == /\ job[w].pc # "idle"
              /\ Goes(w, NoJob)
              /\ \/ queue' = queue + 1 /\ UNCHANGED cut
                 \/ cut' = TRUE /\ UNCHANGED queue
              /\ UNCHANGED <<store, source, variant, queued, backfill, owed, best, overlapped>>

Works(w) == \/ Takes(w)
            \/ JobReads(w)
            \/ Marks(w)
            \/ ProviderAnswers(w)
            \/ Saves(w) \/ SaveFails(w)
            \/ RecordsError(w)

TranslationsNext ==
    \/ Edit \/ DeleteSource
    \/ PublishEnqueues
    \/ BackfillLists \/ BackfillReads \/ BackfillMarks \/ BackfillEnqueues \/ BackfillDies
    \/ \E w \in Workers : Works(w) \/ JobDies(w)

TranslationsSpec == TranslationsInit /\ [][TranslationsNext]_translationVars

-----------------------------------------------------------------------------

Waiting == variant.status \in {"pending", "in_progress"}

\* Once everything queued is done, the translation is at least of the version
\* that was queued last, or an error is recorded, although a job carries no
\* version and every other upsert changes the row: unless jobs overlapped, or a
\* part ended half way.
TranslatedUpToTheLastRequest ==
    queue = 0 /\ AtWork = {} /\ backfill.pc = "idle" /\ ~overlapped /\ ~cut =>
        variant.text >= owed \/ variant.status = "error"

\* A translation once made is replaced by a later one only, whatever fails,
\* unless jobs for the document overlap: translate.ts reads the source before
\* the call of the provider, drizzle.ts the row before the write.
TextIsLostOnlyByOverlap == variant.text < best => overlapped

\* A variant that waits is waited for: a job is queued or at work, or the backfill
\* is about to queue one, unless a part ended half way or the source is gone.
WaitingHasAJob ==
    Waiting => queue > 0 \/ AtWork # {} \/ backfill.pc # "idle" \/ cut

\* No request is forgotten and no translation lost, but by jobs that overlap or
\* parts that end half way.
TranslationsAreKept ==
    TranslatedUpToTheLastRequest /\ TextIsLostOnlyByOverlap /\ WaitingHasAJob
=============================================================================
