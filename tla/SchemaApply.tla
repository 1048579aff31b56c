---------------------------- MODULE SchemaApply ----------------------------
(***************************************************************************)
(* `cms schema apply`, which `cms dev` and the content-type writer call as *)
(* well: it plans the difference between the schema and the snapshot file, *)
(* takes a lock file, writes a migration and then the new snapshot.        *)
(*                                                                         *)
(* A schema is the set of its features (collections, fields, system        *)
(* tables); a plan creates some and drops others.  The plan is made before *)
(* the lock is taken, the lock file names its owner's process, the lock    *)
(* of a process that is gone is removed by whoever comes next, and SIGINT  *)
(* releases the lock of a process that goes on.                            *)
(***************************************************************************)
EXTENDS Integers, FiniteSets

CONSTANTS
    Procs,      \* processes that apply
    Consenting, \* those run with --allow-destructive
    Features,   \* what a schema may hold
    Faults,     \* of {"crash", "interrupt"}
    MaxEdits,   \* bound on the edits of the schema
    MaxApplies, \* bound on the applies
    MaxSeconds  \* bound on the clock that names the migrations

\* The two owners a lock has beside processes are none of them.
ASSUME SchemaApplyAssumption == /\ Consenting \subseteq Procs
                                /\ Procs \cap {"none", "gone"} = {}
                                /\ Faults \subseteq {"crash", "interrupt"}
                                /\ MaxEdits \in Nat /\ MaxApplies \in Nat /\ MaxSeconds \in Nat

VARIABLES
    wanted,    \* the schema in the collection files
    snapshot,  \* the snapshot file; one that is missing or torn reads as empty
    journal,   \* the migration files
    lock,      \* the lock file
    proc,      \* what each process is doing
    second,    \* the clock
    edits, applies,
    forked,    \* a plan was carried out against another snapshot than its own (history)
    overwritten, \* two migrations had one name (history)
    orphaned,  \* a process stopped between its migration and its snapshot (history)
    disturbed, \* a process crashed or was interrupted (history)
    taken      \* features that left the snapshot without consent (history)

schemaVars == <<wanted, snapshot, journal, lock, proc, second, edits, applies,
                forked, overwritten, orphaned, disturbed, taken>>

NoLock == [owner |-> "none", stamped |-> FALSE]
Gone == "gone"  \* the owner of a lock whose process has ended

Idle == [pc |-> "idle", want |-> {}, base |-> {}, over |-> {}, released |-> FALSE]
Inside == {"stamp", "migrate", "tear", "write", "release"}

SchemaApplyInit ==
    /\ wanted = {} /\ snapshot = {} /\ journal = {} /\ lock = NoLock
    /\ proc = [p \in Procs |-> Idle]
    /\ second = 0 /\ edits = 0 /\ applies = 0
    /\ forked = FALSE /\ overwritten = FALSE /\ orphaned = FALSE /\ disturbed = FALSE /\ taken = {}

\* planSchemaMigration
PlanCreates(base, want) == want \ base
PlanDrops(base, want) == base \ want
PlanIsEmpty(base, want) == base = want

PlanDestroys(base, want) == PlanDrops(base, want) # {}

\* migrationSlug: the first change names the file, and creations come first.
First(S) == CHOOSE f \in S : \A g \in S : f <= g
Slug(base, want) == IF PlanCreates(base, want) # {}
                    THEN <<"create", First(PlanCreates(base, want))>>
                    ELSE <<"drop", First(PlanDrops(base, want))>>

Migration(base, want) ==
    [at |-> second, slug |-> Slug(base, want),
     creates |-> PlanCreates(base, want), drops |-> PlanDrops(base, want)]
SameFile(m, n) == m.at = n.at /\ m.slug = n.slug

-----------------------------------------------------------------------------

EditSchema(f) == /\ edits < MaxEdits
                 /\ edits' = edits + 1
                 /\ wanted' = IF f \in wanted THEN wanted \ {f} ELSE wanted \cup {f}
                 /\ UNCHANGED <<snapshot, journal, lock, proc, second, applies, forked,
                                orphaned, overwritten, disturbed, taken>>

Tick == /\ second < MaxSeconds
        /\ second' = second + 1
        /\ UNCHANGED <<wanted, snapshot, journal, lock, proc, edits, applies, forked,
                       orphaned, overwritten, disturbed, taken>>

\* loadSchemaState
LoadSchema(p) == /\ proc[p].pc = "idle" /\ applies < MaxApplies
                 /\ applies' = applies + 1
                 /\ proc' = [proc EXCEPT ![p].pc = "plan", ![p].want = wanted]
                 /\ UNCHANGED <<wanted, snapshot, journal, lock, second, edits, forked,
                                orphaned, overwritten, disturbed, taken>>

\* Nothing to do, a destructive plan without --allow-destructive, or on to the lock.
Plan(p) ==
    LET base == snapshot  \* readSnapshot
        want == proc[p].want
        ends == PlanIsEmpty(base, want) \/ (PlanDestroys(base, want) /\ p \notin Consenting)
    IN /\ proc[p].pc = "plan"
       /\ proc' = [proc EXCEPT ![p] = IF ends THEN Idle
                                      ELSE [@ EXCEPT !.pc = "look", !.base = base]]
       /\ UNCHANGED <<wanted, snapshot, journal, lock, second, edits, applies, forked,
                      orphaned, overwritten, disturbed, taken>>

\* clearStaleLock reads the lock: one whose process still runs stays, and so does one
\* that names no process yet; the lock of a process that is gone is removed.
LookAtLock(p) ==
    /\ proc[p].pc = "look"
    /\ proc' = [proc EXCEPT ![p].pc =
          IF lock.stamped /\ lock.owner = Gone THEN "clear" ELSE "open"]
    /\ UNCHANGED <<wanted, snapshot, journal, lock, second, edits, applies, forked,
                   orphaned, overwritten, disturbed, taken>>

\* Whatever lock is there by now is removed.
ClearStaleLock(p) == /\ proc[p].pc = "clear"
                     /\ lock' = NoLock
                     /\ proc' = [proc EXCEPT ![p].pc = "open"]
                     /\ UNCHANGED <<wanted, snapshot, journal, second, edits, applies,
                                    forked, orphaned, overwritten, disturbed, taken>>

\* open(lockPath, "wx")
LockIsFree == lock = NoLock

OpenLock(p) == /\ proc[p].pc = "open"
               /\ IF LockIsFree
                  THEN /\ lock' = [owner |-> p, stamped |-> FALSE]
                       /\ proc' = [proc EXCEPT ![p].pc = "stamp"]
                  ELSE /\ proc' = [proc EXCEPT ![p] = Idle]
                       /\ UNCHANGED lock
               /\ UNCHANGED <<wanted, snapshot, journal, second, edits, applies, forked,
                              orphaned, overwritten, disturbed, taken>>

\* The handle writes the process id, into a file that may be unlinked by now.
StampLock(p) == /\ proc[p].pc = "stamp"
                /\ lock' = IF lock.owner = p
                           THEN [lock EXCEPT !.stamped = TRUE] ELSE lock
                /\ proc' = [proc EXCEPT ![p].pc = "migrate"]
                /\ UNCHANGED <<wanted, snapshot, journal, second, edits, applies, forked,
                               orphaned, overwritten, disturbed, taken>>

\* writeMigrationFile; a file of this second with this slug is overwritten.
WriteMigration(p) ==
    LET m == Migration(proc[p].base, proc[p].want)
    IN /\ proc[p].pc = "migrate"
       /\ journal' = {n \in journal : ~SameFile(m, n)} \cup {m}
       /\ overwritten' = (overwritten \/ \E n \in journal : SameFile(m, n))
       /\ forked' = (forked \/ snapshot # proc[p].base
                            \/ \E q \in Procs : proc[q].pc \in {"tear", "write"})
       /\ proc' = [proc EXCEPT ![p].pc = "tear"]
       /\ UNCHANGED <<wanted, snapshot, lock, second, edits, applies, orphaned, disturbed, taken>>

\* writeFile empties the file, then fills it.
TearSnapshot(p) == /\ proc[p].pc = "tear"
                   /\ snapshot' = {}
                   /\ forked' = (forked \/ snapshot # proc[p].base)
                   /\ proc' = [proc EXCEPT ![p].pc = "write", ![p].over = snapshot]
                   /\ UNCHANGED <<wanted, journal, lock, second, edits, applies, orphaned,
                                  overwritten, disturbed, taken>>

\* Mutant: the snapshot is taken of the schema as it is by now.
SnapshotOfNow(p) == wanted

SnapshotOf(p) == proc[p].want

WriteSnapshot(p) ==
    /\ proc[p].pc = "write"
    /\ snapshot' = SnapshotOf(p)
    /\ forked' = (forked \/ snapshot # {})
    /\ taken' = IF p \in Consenting THEN taken
                ELSE taken \cup (proc[p].over \ SnapshotOf(p))
    /\ proc' = [proc EXCEPT ![p].pc = "release"]
    /\ UNCHANGED <<wanted, journal, lock, second, edits, applies, orphaned, overwritten, disturbed>>

\* release: close the handle and remove the lock file, whosever it is, once.
ReleaseLock(p) == /\ proc[p].pc = "release"
                  /\ lock' = IF proc[p].released THEN lock ELSE NoLock
                  /\ proc' = [proc EXCEPT ![p] = Idle]
                  /\ UNCHANGED <<wanted, snapshot, journal, second, edits, applies, forked,
                                 orphaned, overwritten, disturbed, taken>>

\* SIGINT or SIGTERM: the handler releases the lock, and as there is a handler the
\* process does not end: the action goes on.
Interrupt(p) == /\ "interrupt" \in Faults
                /\ proc[p].pc \in Inside \ {"stamp"} /\ ~proc[p].released
                /\ lock' = NoLock
                /\ proc' = [proc EXCEPT ![p].released = TRUE]
                /\ disturbed' = TRUE
                /\ UNCHANGED <<wanted, snapshot, journal, second, edits, applies, forked,
                               orphaned, taken, overwritten>>

\* The process ends where it is; its lock stays, in the name of nobody.
CrashApply(p) ==
    /\ "crash" \in Faults
    /\ proc[p].pc # "idle"
    /\ proc' = [proc EXCEPT ![p] = Idle]
    /\ lock' = IF lock.owner = p THEN [lock EXCEPT !.owner = Gone] ELSE lock
    /\ orphaned' = (orphaned \/ proc[p].pc \in {"tear", "write"})
    /\ disturbed' = TRUE
    /\ UNCHANGED <<wanted, snapshot, journal, second, edits, applies, forked, taken, overwritten>>

SchemaApplyNext ==
    \/ \E f \in Features : EditSchema(f)
    \/ Tick
    \/ \E p \in Procs :
          \/ LoadSchema(p) \/ Plan(p)
          \/ LookAtLock(p) \/ ClearStaleLock(p) \/ OpenLock(p) \/ StampLock(p)
          \/ WriteMigration(p) \/ TearSnapshot(p) \/ WriteSnapshot(p) \/ ReleaseLock(p)
          \/ Interrupt(p) \/ CrashApply(p)

SchemaApplySpec == SchemaApplyInit /\ [][SchemaApplyNext]_schemaVars

-----------------------------------------------------------------------------

\* Two processes are never between taking and releasing the lock together, as long as
\* none crashed (its stale lock can be removed twice) or was interrupted.
OneApplyAtATime ==
    ~disturbed => \A p, q \in Procs : proc[p].pc \in Inside /\ proc[q].pc \in Inside => p = q

Times(f) == Cardinality({m \in journal : f \in m.creates})
            - Cardinality({m \in journal : f \in m.drops})
BetweenApplies == \A p \in Procs : proc[p].pc \notin {"tear", "write"}

\* The migrations, run in order, build what the snapshot says was built: each feature
\* is created once more than it is dropped if the snapshot has it, else equally often.
\* Three things break it: an apply that carries out a plan made against another
\* snapshot, a migration named like an earlier one (of this second, with the same first
\* change), and a crash between the migration and the snapshot.
JournalBuildsSnapshot ==
    BetweenApplies /\ ~forked /\ ~overwritten /\ ~orphaned =>
        \A f \in Features : Times(f) = IF f \in snapshot THEN 1 ELSE 0

\* A feature leaves the snapshot by an apply with --allow-destructive, or by one whose
\* plan was made against an older snapshot (the consent is asked of the plan).
DropsAreConsented == ~forked => taken = {}

\* The migrations and the snapshot tell one story, and one that was consented to.
HistoryIsSound == JournalBuildsSnapshot /\ DropsAreConsented

\* Applies take turns, and leave behind a history that is sound (schema apply).
AppliesAreSound == OneApplyAtATime /\ HistoryIsSound

\* plan 011, decision 5: the lock is there so that two applies do not write "two
\* interleaved migration sequences, corrupting the migration journal".
JournalIsNeverCorrupted ==
    BetweenApplies => \A f \in Features : Times(f) = IF f \in snapshot THEN 1 ELSE 0
=============================================================================
