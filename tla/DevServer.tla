----------------------------- MODULE DevServer -----------------------------
(***************************************************************************)
(* `cms dev': a server that watches the collection files and the CMS file. *)
(* A tenth of a second after the last change it applies the schema, writes *)
(* the SDK and the Drizzle schema, runs drizzle-kit and imports the CMS    *)
(* anew; nothing waits for a refresh that is still under way, and nobody   *)
(* catches what it throws.  The content-type builder, running inside the   *)
(* server, writes a collection file and refreshes the artifacts itself.    *)
(*                                                                         *)
(* The apply is given in short: SchemaApply has its files and its faults.  *)
(* What the builder changes in the running CMS is ContentTypes.            *)
(***************************************************************************)
EXTENDS Integers, Sequences, FiniteSets

CONSTANTS
    Duties,     \* refreshes and builder requests in flight at one time
    Declarable, \* what the collections may declare
    MaxSaves,   \* bound on the changes of files
    MaxStarts   \* bound on the starts of the server

ASSUME DevServerAssumption == MaxSaves \in Nat /\ MaxStarts \in Nat

VARIABLES
    opts,       \* how the server was started
    declared,   \* what the collection files declare
    config,     \* the version of the CMS file
    unreadable, \* files with a mistake, of {"collections", "config"}
    server,     \* "off", "starting", "up" or "down"
    timer,      \* the watcher's timer runs
    duty,       \* what is in flight
    applied,    \* the schema's snapshot
    applyLock,  \* the lock file: "free", "blank", "held", or "stale" of an ended process
    sdk, drizzle, \* what the generated files declare
    database,   \* what drizzle-kit has migrated the database to
    evaluated,  \* the collections the runtime evaluated for the CMS file, which imports
                \* them: a set of one, empty before the first time
    served,     \* the CMS that answers requests
    saves, starts,
    why,        \* what the server ended of
    tangled,    \* duties overlapped since the last refresh that began alone (history)
    missed,     \* a file changed before it was watched, since then (history)
    removed     \* a change took something out of the collections (history)

devVars == <<opts, declared, config, unreadable, server, timer, duty, applied, applyLock,
             sdk, drizzle, database, evaluated, served, saves, starts, why, tangled,
             missed, removed>>

filesOnDisk == <<applied, applyLock, sdk, drizzle, database>>
editorVars == <<declared, config, unreadable, saves, removed>>

Cms(version, collections) == [config |-> version, collections |-> collections]
Doing(kind, stages) == [kind |-> kind, todo |-> stages, at |-> "read", want |-> {}]
Resting == Doing("none", << >>)
Underway == {d \in Duties : duty[d] # Resting}

\* refreshDevSchemaArtifacts and reloadCMS; afterWrite of the content-type writer.
RefreshStages == (IF opts.migrates THEN <<"migrate", "sdk", "drizzle">> ELSE << >>)
                 \o (IF opts.migrates /\ opts.kit THEN <<"kit">> ELSE << >>)
                 \o <<"import">>
WriterStages == <<"sdk", "migrate", "drizzle">> \o (IF opts.kit THEN <<"kit">> ELSE << >>)

\* In one file the CMS and its collections are read, and fail to be read, together.
Fails(file) == IF opts.layout = "one" THEN unreadable # {} ELSE file \in unreadable

DevServerInit ==
    /\ opts \in [layout : {"one", "apart"}, migrates : BOOLEAN, kit : BOOLEAN]
    /\ declared = {} /\ config = 0 /\ unreadable = {}
    /\ server = "off" /\ timer = FALSE /\ duty = [d \in Duties |-> Resting]
    /\ applied = {} /\ applyLock = "free"
    /\ sdk = {} /\ drizzle = {} /\ database = {}
    /\ evaluated = {} /\ served = Cms(-1, {})
    /\ saves = 0 /\ starts = 0 /\ why = "-"
    /\ tangled = FALSE /\ missed = FALSE /\ removed = FALSE

-----------------------------------------------------------------------------
(* Changes of the files, by an editor. *)

\* Mutant: changes are not noticed while a refresh is under way.
NoticesAtRest == timer' = (server = "up" /\ Underway = {})

\* The watcher starts its timer, or starts it again; it is there once the server is.
Notices == timer' = (server = "up")

Toggle(f) == /\ declared' = IF f \in declared THEN declared \ {f} ELSE declared \cup {f}
             /\ removed' = (removed \/ f \in declared)

SaveFile(x) ==
    /\ saves < MaxSaves
    /\ saves' = saves + 1
    /\ \/ x = "collections" /\ (\E f \in Declarable : Toggle(f)) /\ UNCHANGED config
       \/ x = "config" /\ config' = config + 1 /\ UNCHANGED <<declared, removed>>
    /\ unreadable' \in {unreadable \ {x}, unreadable \cup {x}}
    /\ Notices
    /\ missed' = (missed \/ server = "starting")
    /\ UNCHANGED <<opts, server, duty, filesOnDisk, evaluated, served, starts, why, tangled>>

-----------------------------------------------------------------------------
(* The beginning of what is done. *)

BeginDuty(d, kind, stages) ==
    /\ duty[d] = Resting
    /\ duty' = [duty EXCEPT ![d] = Doing(kind, stages)]
    /\ tangled' = IF Underway # {} THEN TRUE ELSE tangled /\ kind = "writer"

\* startDevServer, which listens at last.  The lock of an ended process is stale.
StartServer(d) ==
    /\ server \in {"off", "down"}
    /\ starts < MaxStarts
    /\ starts' = starts + 1
    /\ server' = "starting"
    /\ BeginDuty(d, "startup", RefreshStages \o <<"listen">>)
    /\ missed' = FALSE
    /\ evaluated' = {}
    /\ why' = "-"
    /\ UNCHANGED <<opts, editorVars, timer, filesOnDisk, served>>

\* The timer of watchSchemaPaths.
TimerFires(d) ==
    /\ server = "up" /\ timer
    /\ timer' = FALSE
    /\ BeginDuty(d, "refresh", RefreshStages)
    /\ missed' = (missed /\ Underway # {})
    /\ UNCHANGED <<opts, editorVars, server, filesOnDisk, evaluated, served, starts, why>>

\* writeCollection, which the watcher notices; the route goes on to afterWrite.
BuilderWrites(d) ==
    /\ server = "up" /\ opts.layout = "apart"
    /\ saves < MaxSaves
    /\ saves' = saves + 1
    /\ \E f \in Declarable : Toggle(f)
    /\ Notices
    /\ BeginDuty(d, "writer", WriterStages)
    /\ UNCHANGED <<opts, config, unreadable, server, filesOnDisk, evaluated, served,
                   starts, why, missed>>

-----------------------------------------------------------------------------
(* The stages, from await to await. *)

Stage(d) == Head(duty[d].todo)
IsAt(d, stages, at) == duty[d] # Resting /\ Stage(d) \in stages /\ duty[d].at = at
Goes(d, at) == duty' = [duty EXCEPT ![d].at = at]
NextStage(d) ==
    duty' = [duty EXCEPT ![d] = IF Len(duty[d].todo) = 1 THEN Resting
                                ELSE Doing(duty[d].kind, Tail(duty[d].todo))]

\* A request of the builder answers with an error.  A refresh is awaited by nobody, and an
\* unhandled rejection ends the process, with all it was doing.
Throws(d, reason) ==
    IF duty[d].kind = "writer"
    THEN /\ duty' = [duty EXCEPT ![d] = Resting]
         /\ UNCHANGED <<server, timer, applyLock, why>>
    ELSE /\ duty' = [c \in Duties |-> Resting]
         /\ server' = "down" /\ timer' = FALSE /\ why' = reason
         /\ applyLock' = IF applyLock = "held" THEN "stale" ELSE applyLock

Unmoved == UNCHANGED <<opts, editorVars, sdk, drizzle, database, starts, missed, tangled>>

\* loadSchemaState, by each stage anew.
ReadSchema(d) ==
    /\ IsAt(d, {"migrate", "sdk", "drizzle", "kit"}, "read")
    /\ IF Fails("collections")
       THEN Throws(d, "unreadable")
       ELSE /\ duty' = [duty EXCEPT ![d].want = declared,
                                    ![d].at = IF Stage(d) = "migrate" THEN "plan" ELSE "write"]
            /\ UNCHANGED <<server, timer, applyLock, why>>
    /\ UNCHANGED <<applied, evaluated, served>> /\ Unmoved

\* schemaApply: nothing to do, a plan that drops something, or on to the lock.
PlanMigration(d) ==
    /\ IsAt(d, {"migrate"}, "plan")
    /\ IF applied \subseteq duty[d].want
       THEN /\ IF applied = duty[d].want THEN NextStage(d) ELSE Goes(d, "lock")
            /\ UNCHANGED <<server, timer, applyLock, why>>
       ELSE Throws(d, "destructive")
    /\ UNCHANGED <<applied, evaluated, served>> /\ Unmoved

\* acquireSchemaLock; a lock that names no process is never stale.
TakeLock(d) ==
    /\ IsAt(d, {"migrate"}, "lock")
    /\ IF applyLock \in {"blank", "held"}
       THEN Throws(d, "locked")
       ELSE /\ applyLock' = "blank"
            /\ Goes(d, "stamp")
            /\ UNCHANGED <<server, timer, why>>
    /\ UNCHANGED <<applied, evaluated, served>> /\ Unmoved

NameInLock(d) ==
    /\ IsAt(d, {"migrate"}, "stamp")
    /\ applyLock' = "held"
    /\ Goes(d, "write")
    /\ UNCHANGED <<server, timer, why, applied, evaluated, served>> /\ Unmoved

\* The migration, the snapshot, and the release of the lock.
WriteMigrated(d) ==
    /\ IsAt(d, {"migrate"}, "write")
    /\ applied' = duty[d].want
    /\ applyLock' = "free"
    /\ NextStage(d)
    /\ UNCHANGED <<server, timer, why, evaluated, served>> /\ Unmoved

\* generateSDKArtifact, generateDrizzleArtifact; runDrizzleKit begins with the latter.
WriteArtifact(d) ==
    /\ IsAt(d, {"sdk", "drizzle", "kit"}, "write")
    /\ IF Stage(d) = "sdk" THEN sdk' = duty[d].want /\ UNCHANGED drizzle
                           ELSE drizzle' = duty[d].want /\ UNCHANGED sdk
    /\ IF Stage(d) = "kit" THEN Goes(d, "run") ELSE NextStage(d)
    /\ UNCHANGED <<opts, editorVars, server, timer, applied, applyLock, database, evaluated,
                   served, starts, why, tangled, missed>>

\* drizzle-kit (external), which migrates the database to the file as it is; generate and
\* migrate are taken together.
RunKit(d) ==
    /\ IsAt(d, {"kit"}, "run")
    /\ \/ /\ database' = drizzle
          /\ NextStage(d)
          /\ UNCHANGED <<server, timer, applyLock, why>>
       \/ Throws(d, "kit") /\ UNCHANGED database
    /\ UNCHANGED <<opts, editorVars, applied, sdk, drizzle, evaluated, served, starts,
                   tangled, missed>>

\* importFresh names a file by its time and size: a file that changed is evaluated anew.
\* What it imports is named without them, and evaluated once in the life of a process.
Collections == IF opts.layout = "one" \/ evaluated = {} THEN declared ELSE CHOOSE c \in evaluated : TRUE

ImportCms(d) ==
    /\ IsAt(d, {"import"}, "read")
    /\ IF Fails("config") \/ (evaluated = {} /\ Fails("collections"))
       THEN Throws(d, "unreadable") /\ UNCHANGED <<served, evaluated>>
       ELSE /\ served' = Cms(config, Collections)
            /\ evaluated' = IF opts.layout = "one" THEN evaluated ELSE {Collections}
            /\ NextStage(d)
            /\ UNCHANGED <<server, timer, applyLock, why>>
    /\ UNCHANGED applied /\ Unmoved

\* listen, and the watchers with it.
Listens(d) ==
    /\ IsAt(d, {"listen"}, "read")
    /\ server' = "up"
    /\ NextStage(d)
    /\ UNCHANGED <<timer, applied, applyLock, evaluated, served, why>> /\ Unmoved

DevServerNext ==
    \/ \E x \in {"collections", "config"} : SaveFile(x)
    \/ \E d \in Duties :
          \/ StartServer(d) \/ TimerFires(d) \/ BuilderWrites(d)
          \/ ReadSchema(d) \/ PlanMigration(d) \/ TakeLock(d) \/ NameInLock(d) \/ WriteMigrated(d)
          \/ WriteArtifact(d) \/ RunKit(d) \/ ImportCms(d) \/ Listens(d)

DevServerSpec == DevServerInit /\ [][DevServerNext]_devVars

-----------------------------------------------------------------------------

AtRest == server = "up" /\ ~timer /\ Underway = {}

\* A server at rest has taken in every change: what was applied, generated and migrated
\* is what the files declare, and it serves the CMS file as it is, though over the
\* collections as they were when it started, if they are files of their own.  Except after
\* refreshes that overlapped, until one runs alone again, and after a change made while
\* the server started.
RestMeansCurrent ==
    AtRest /\ ~tangled /\ ~missed =>
        /\ opts.migrates => declared = applied /\ declared = sdk /\ declared = drizzle
        /\ opts.migrates /\ opts.kit => declared = database
        /\ served = Cms(config, Collections)

\* The server ends of the lock only if duties overlapped, or since an earlier one ended
\* between the creation of the lock and the naming of its process; and of a plan that
\* drops something only if something was removed, or a plan was overtaken.
EndsAreExplained ==
    /\ why = "locked" => tangled \/ applyLock = "blank"
    /\ why = "destructive" => removed \/ tangled

\* cms dev keeps what it serves and generates up to date, and ends for cause only.
DevServerKeepsUp == RestMeansCurrent /\ EndsAreExplained
=============================================================================
