# Formal models of hono-cms

TLA+ models of the packages that carry the program's own logic
(`src/packages/*/src`, and the content workspace of `src/apps/admin`), the TLC
runs that check them on small instances and the TLAPS proofs of what matters most
for instances of every size.  Paths below are relative to `src/packages/`.

## 1. The system

A hono-cms instance is one Hono application made of plugins.  `createCMS` builds
the collections, validates and orders the plugins, installs them one after the
other and mounts the content routes.  Plugins never call each other: they share
the database adapter, the cache adapter, the jobs registry and an event bus.  A
mutation route writes the database and then awaits `events.emit(...)`, which
runs every subscriber concurrently and rethrows their errors after all of them
have ended.  There are no transactions: what a handler does between two `await`s
is atomic (one JavaScript thread, or one statement at a remote database), and
everything else interleaves, within a process and, with a remote database,
between processes.

| Component | State | Operations | Hard behaviour |
|---|---|---|---|
| Plugin kernel `core/src/plugins` | plugin list, event subscriptions, hooks, services | validate and order, install, emit, on/off | ordering with cross-phase requirements, partial install, errors of one subscriber |
| Content writes `core/src/create-cms.ts`, `graphql`, `content-type-builder/src/hot-routes.ts` | the records | create, update, delete, publish, by three surfaces | `before` read one await early; write kept when the emit or an after hook fails |
| Database adapters `adapter-*` | tables, join tables | get, list, create, update, delete, publish, unpublish | multi-statement operations, three evaluators of one filter language, cursors that do not fit the order |
| Populate `core/src/content/populate.ts` | the records of a response | populate a list level by level | a budget of nodes shared by records that interleave |
| Content cache `content-cache` | version stamp per collection, entries | probe, fill, invalidate, expire | fill raced by an invalidation, lost invalidation |
| Drafts `drafts`, `core/src/content/publish.ts` | status and publishedAt of a record | publish, unpublish, schedule, unschedule, create and update with a status, scheduled-publish job | check-then-act against the job, duplicate events, aborted ticks, a death between write and event |
| Jobs `jobs`, `jobs-runtime` | handlers, queue, schedules | register, enqueue, deliver, bootstrap of schedules | redelivery, handlers kept from an earlier build, overlapping cold starts |
| Webhooks `webhooks` | endpoints, deliveries | fan-out, deliver, sweep, cleanup, CRUD | no lease on a due delivery, crash between POST and record, late results |
| Cache adapters `cache`, rate limit `rate-limit` | entries, rate windows | get, set, sweep, checkRateLimit; enforce per scope | sliding log read by two, scopes with one prefix, a cache that throws |
| Audit `audit` | log rows | record, list, cleanup | entries made from events, a cursor cut short |
| API keys `auth-tokens` | keys, roles, the first key | create, refresh, invalidate, invalidateAll, cleanup, bootstrap | concurrent refresh, insert-before-revoke crash, sweeps over one page |
| Media `media`, blobs `storage-*` | asset rows, blobs, folder tree | presign, confirm, upload, delete, folder create, move, delete | two stores without a transaction, tree invariants under check-then-act |
| i18n `i18n` | one translation per (document, locale) with a status | translate, backfill, edit, delete | older result over a newer one, a crash leaves `in_progress` |
| Schema and CLI `schema`, `cli` | the snapshot, the migrations, the lock file | plan, lock, write migration and snapshot | a plan older than the lock, stale locks, signals |
| Development server `cli` | the watched files, the generated files, the served CMS | watch, refresh, reload, the builder's writer | refreshes that overlap, rejections nobody catches, modules kept by the runtime |
| Content-type builder `content-type-builder` | the live collections object, schema files, routes | create, change, delete a type | check-then-act across awaits, half-applied edit |
| Admin workspace `src/apps/admin` | the cached list, the editor | open, type, autosave, save, publish, bulk actions | overlapping saves, optimistic updates taken back |
| Preview, OpenAPI, CORS, platform | - | - | see section 6 |

### What makes each component correct

Stated and checked (names of the properties in brackets):

* **Content cache.** A cached answer is what the database holds, but for two
  explained exceptions [`FreshUnlessRaced`]; whatever went wrong heals by itself
  [`EventuallyFresh`].
* **Content writes.** The audit log tells every write, as its author made it and
  with the difference he made, and tells nothing that was not done
  [`TrailIsTrue`], with the exceptions the code has: a write whose after hook or
  subscriber failed, a `before` read too early, a deletion of nothing by REST.
* **Drafts.** A publication is told by the event of its kind (`after-publish` by a
  publish route and by the plugin's job, `after-create` or `after-update` by the
  content API), unless its author ended between the write and the emit; the
  runtime's own job tells of none [`PublicationIsAnnounced`].  A withdrawn schedule
  is final [`WithdrawnStaysDraft`]; a due draft does not stay due
  [`DueIsPublished`].
* **Jobs.** What an adapter accepted is run, given up after its tries or still
  queued, and a start leaves no schedule twice [`JobsAreKept`].
* **Webhooks.** The log does not lie about successes and failures [`LogIsTrue`];
  a job is not lost unseen [`QueuedIsRecorded`], deliveries settle and stay
  settled [`SettlesOnce`] within a bounded number of posts [`SoloSweepsAddUp`].
* **API keys.** Refreshes that do not overlap leave a linear chain, and a sweep
  covers what it reports on while it fits on a page [`CallsAreWhole`]; what is
  revoked stays revoked [`KeysEndForGood`]; a boot locks nobody out unless an
  earlier one lost the key it had stored [`LockoutFollowsALostKey`].
* **Translations.** A waiting variant has a job behind it, and no result replaces
  a newer one, unless jobs overlapped or a part ended half way
  [`TranslationsAreKept`].
* **Pagination.** A walk over all pages by (createdAt, id) or by the memory
  adapter's cursor implements the abstract `Listing`
  [`WalkImplementsListing`]; the other walks lose and repeat rows in the ways
  stated and in no others [`OddWalksAreExplained`].
* **Filters.** The three evaluators list the same records for the same query but
  for the conditions named, among them the operators an SQL adapter does not know,
  with which its statement may be rejected [`AdaptersDifferAsNamed`].
* **Rate limit.** No window of a scope holds more than its limit, and a client
  that returns when it was told is let in [`LimitsAreKept`].
* **Plugin kernel.** Requirements come first in spite of the phases, phases in
  order, declared services there [`InstallIsOrdered`]; exactly the cyclic arrays
  are refused and the array's order is kept where it can be [`SortIsRight`]; a
  boot that succeeds is complete and its registrations have one owner
  [`BootIsWhole`]; boots end [`BootEnds`].
* **Schema apply.** Two applies do not hold the lock together, the migrations
  build the snapshot, and nothing is dropped without consent
  [`AppliesAreSound`], unless a process crashed, was interrupted or planned from
  a snapshot that was then replaced.
* **Content types.** File, live object, GraphQL schema and routes agree whenever
  no change is under way, and only a removal or changes that overlapped leave a
  relation without its target [`TypesAreSound`].
* **Development server.** At rest it has taken in every change, but for the
  collections the runtime keeps, and it ends for cause only
  [`DevServerKeepsUp`], unless refreshes overlapped.
* **Relations.** The join table is what the last finished writes said
  [`LinksAreTheLastList`]; population stays within its limits and stops short
  only because of them [`PopulateHoldsItsLimits`]; the ids beyond the budget are
  missing from the response.
* **Media.** The folders are a forest with siblings of different names
  [`TreeIsSound`] and true paths [`PathsAreTrue`]; rows, blobs and references
  come apart only in the ways stated [`BlobsAreExplained`, `InUseIsKept`,
  `NothingLeftInDeletedFolder`].
* **Admin workspace.** What is not marked as changed has been saved, and the list
  catches up with the server whatever failed [`WorkspaceIsHonest`].

## 2. Modules

### 2.1 The modules

The modelled components meet in the events: a publication of `Drafts` is an
emit, which `ContentCache` receives as an invalidation and `Webhooks` as a
fan-out; `ContentWrites` is what all of them hear of.  Each module keeps the part of the others that its own behaviour
depends on (an emit may reject; a subscriber's failure does not keep the others
from running), and none of the rest.

**ContentCache** - one collection's content routes behind the read-through
cache (`content-cache/src`, `core/src/create-cms.ts` 66-200,
`jobs-runtime/src/scheduled-publish.ts`).  `rev[i]` counts the writes to record
`i` (the data of a record is abstracted to which write produced it), `live` the
records that exist, `stamp` the collection's version stamp (a fresh UUID is
`stamp + 1`), `entries` the unexpired cache entries, `rd[r]` and `wr[w]` the
progress of a GET and of a mutating request or job tick between its awaits.
`ReadStamp`, `Hit`/`Miss`, `Fetch`, `Rekey`, `Store` are the GET from await to
await; the stamp is read twice, as in the code.  `Create`, `GetBefore`,
`Update...`, `Delete`, `Schedule` are the mutating routes, `EmitInvalidates` and
`EmitFails` the end of their emit, `Job...` the core job.

**Drafts** - publish, unpublish, schedule, unschedule, the content API as far as it
writes status and date, and the scheduled-publish job (`drafts/src`,
`core/src/content/publish.ts`, `core/src/create-cms.ts` 141-209, and the four adapter
operations they use, for the memory adapter and for the portable one over SQL:
constant `Adapter`).  `promoter` says whose job it is: the drafts plugin's, which
emits, or the one `jobs-runtime` registers by default (`plugin.ts` 153-163), which
does not; the plugin asks for the other to be switched off, and without the plugin
there are none of its routes.  `status`, `at` (`publishedAt`), `now`; `req[r]` and
`tick[t]` are the requests and the runs of the job between awaits; `RequestDies` and
`RunDies` end them between any two, after the write and before the emit too.
`untold[d]` is the event that is to tell of the publication of `d`, until it is
emitted, and `lost` the records whose author ended before it.  A POST or PATCH writes
any status and any date, as the client's (`WriteGiven`).  A record is a number, its
creation order, since the job's page depends on that order.

**Webhooks** - fan-out, delivery job, retry sweep, test delivery and cleanup
(`webhooks/src`, with the queue of `jobs`).  `job[j]` is the queue's view of a
delivery job, `worker[w]` a job being run, `status`/`attempt`/`waiting` the
columns of the delivery log, `sweep[s]` a sweep with its snapshot of the list.
`posts`, `accepted`, `stopped` are history variables: what the endpoint saw.

**PluginKernel** - `createCMS` from the call to the last line of
`installPlugins` (`core/src/plugins/runtime.ts`, `schema-merge.ts`,
`service-registry.ts`).  `stage` is the place in `installPlugins`; the scan of
the sort is one step per plugin visited (`Skip`, `Consume`), because the counts
change while a scan is under way; one turn of the install loop is one step
(`Install`, `LackCapability`, `ThrowInApp`).  A plugin is a record of what the
kernel reads of it and of what its `app()` does to the shared context.

**MediaFolders** and **Media** - the folder tree of `MemoryMediaFolderStore`
and the media routes over rows, blobs and presign sessions (`media/src`).
`Media` EXTENDS `MediaFolders`: a folder operation runs without an await and is
one step; a request is a sequence of steps, and `Fail` ends it anywhere.  Only
the memory store has folders (`SqlMediaStore` has none and answers 501), and the
presign sessions are in the process's memory.  `IsDescendant` states the code's
walk to the root without recursion: every set that contains a folder and, with
each folder, its parent.

**Listing** and **Paging** - `Listing` promises that a walk returns every row
stored from its beginning to its end; it says nothing of pages or order.
`Paging` reads a list page by page while rows come and go (`core/src/content/
query.ts`, the `list` of `adapter-kit`, the stores of `audit`, the walkers of
`media` and `i18n`).  `walk` is the way the reader continues: the memory
adapter's cursor, the SQL adapters' with and without the `createdAt` that belongs
to it, page numbers, and the audit log's two.  Ids are given in any order, since
random UUIDs say nothing of the order of creation.  `L == INSTANCE Listing WITH
...` shows the walks `Listing` is promised for and hides the others.

**ContentWrites** - the mutations of REST, GraphQL and the builder's routes, with
hooks, event and audit entry (`core/src/create-cms.ts` 141-209,
`graphql/src/resolvers.ts` 155-300, `content-type-builder/src/hot-routes.ts`,
`audit/src/plugin.ts`).  Each surface is a sequence of steps; the document's
content is the number of its last write, so an entry's `before` and `after` can
be compared with the history.

**AdminContent** - the editor with its debounced autosave and the optimistic bulk
actions (`ContentWorkspace.tsx`, `query-helpers.ts`, `api-client.ts` of the
admin).  `mutations` are the requests in flight, which the server takes in any
order; `tangled` marks records whose saves overlapped.

**ApiKeys** - the token service and the bootstrap of the first key
(`auth-tokens/src/service/tokens.ts`, `bootstrap.ts`).  `keyState`, `replacedBy` and `age`
are the rows; `call[c]` and `boot[b]` the progress of a call and of a boot between
database calls; `heirOf`, `raced` and `held` history variables.

**Translations** - the variants of one document in one locale
(`i18n/src/translate.ts`, `jobs.ts`, `routes.ts`, both stores).  A text is the
version of the source it was made from; `Merged` is the row the Drizzle store
writes back, filled up from what it read.

**Jobs** - the runtime and the adapters (`jobs/src/index.ts`,
`jobs-runtime/src`): registration in an adapter object that outlives a build,
enqueue in process, to a queue, to nothing or refused, redelivery, and
`bootstrapSchedules`.

**RateWindow** - the middlewares of two scopes over the sliding log of
`checkRateLimit` (`cache/src/adapters/memory.ts` 95-122, `rate-limit/src`).
`ends[p]` is the log of a prefix, a set of charges, each with its end and the
number of the request it let through; `ahead[c]` the scopes a request has still to
pass; the history variable `passed` holds when requests were let through, against
which the windows are checked, and `resetAt` what a refusal promised.

**Filters** - `matchesFilter` of the memory adapter, `filterClause` and
`whereClause` of the SQL adapters, `matches` of an adapter with tables of its own,
over records written through each of them alike.  Values are numbers, texts
(dates), null and undefined; operands are values that can be written in a query, of
the type of the field they are compared with.  `filterClause` binds the operand
(`adapter-kit/src/index.ts` 631) before it writes `1 = 0`, without a placeholder, for
an operator it does not know (643): `Unbalanced` says which statements have more
values than placeholders, and `List` lets the driver, which is not part of the
repository, reject such a statement or list nothing.

**Populate** - `populateRecords` (`core/src/content/populate.ts`): a task per
record reached, identified by its path; the tasks of one call share a budget.
What a call has looked up is the set of its (record, field, place)s, so that the
budget is compared with the size of a set.  The ids that a spent budget cuts off are
dropped from their list; a field of which nothing is left keeps its ids.

**JoinTables** - `create`, `update`, `delete` and `replaceManyRelations` of
`SqlDocumentExecutor`, statement by statement.

**SchemaApply** - `cms schema apply` (`cli/src/index.ts` 440-480, 1850-2000, the
planner of `schema/src/migrations.ts`): plan, stale lock, lock, migration file,
snapshot, release; crash and SIGINT.  A schema is the set of its features, a
migration what it creates and drops.

**ContentTypes** - POST, PUT and DELETE of a content type with the writer, the
hot routes, the rebuild of the GraphQL schema and the restart that reads the files
(`content-type-builder/src`, `graphql/src/plugin.ts` 75-93, `schema/src/index.ts`
398-403).

**DevServer** - `cms dev` (`cli/src/index.ts` 585-660, 869-970, 1115-1131,
2446-2450): the watcher and its timer, the refresh stage by stage, the import of
the CMS, the builder's writer inside the server, starts and ends.  `duty[d]` is a
start, refresh or builder's request with the stages it has still to go;
`applied`, `sdk`, `drizzle`, `database` and `served` are what these leave behind,
`evaluated` the collections the runtime holds for the CMS file.

The modules `MC...` give the constants their values; `...Proofs` hold the
theorems.  `MCContent`, `MCPlugins`, `MCSchema` and `MCLive` check several
components in one run: the variable `part`, chosen at the beginning, says which
one moves, and the others rest in one initial state.  No state of one part is
combined with one of another, so such a run is the union of the parts' runs.

### 2.2 Planned

1. Compositions: `Drafts` with `ContentCache` on one event bus (a publication is
   eventually visible); `ContentCache` as an implementation of a register with
   bounded staleness.
2. Abstract specifications beside `Listing`: the journal and the snapshot of
   `SchemaApply` as one log of changes, the deliveries of `Webhooks` as an
   at-least-once channel; each shown to be implemented where its exceptions do not
   occur.
3. Larger instances: three sweeps, two overlapping cleanups.

Disagreements between text and code that no run states, as they are visible at
one place: the REST list route reads only `limit` (`core/src/create-cms.ts`
120-130), although `core/src/openapi.ts` 601 documents filters and cursors and
the answer carries a `nextCursor`; `parseQueryParams`, `validateQueryParams` and
`filterRecordsByRelations` of `core/src/content/query.ts` have no caller; the SQL
adapters never read a many-relation back from its join table (`fromRow`); the REST
routes run no lifecycle hooks, the GraphQL ones do; a plugin registers an optional
job only when it is listed after the jobs plugin (`audit/src/plugin.ts` 246-251);
an adapter with tables of its own never lists a due draft, since it compares dates
as numbers (`adapter-kit/src/index.ts` 579-582); a request that a second scope
refuses was already charged to the first (`rate-limit/src/plugin.ts` 78-100);
root folders with the parent `""` (`media/src/store/memory.ts` 127).  In the
scaffolded layout, whose CMS file imports its collections, `cms dev` reloads the
CMS over the collections of its start (`cli/src/index.ts` 2446-2450), although
`docs/plans/2026-05-16-011-feat-cli-tooling-plan.md` 577 promises "when collection
files change, re-plan + re-apply + hot reload"; and a save that cannot be read, or
drops a field, ends the server by an unhandled rejection (1123).

## 3. Runs

| Run | What it shows |
|---|---|
| `content_safety` | cache: the only stale entries under the current stamp come from a fill raced by an invalidation or a write that no invalidation covers; writes: four writes by two authors through three surfaces are in the audit log as they were made; admin: the marks and the list of the workspace are honest |
| `plugins_safety` | drafts on the SQL adapters with either job, API keys with boots, translations, jobs, walks over pages, rate limits, each with two of its actors interleaved and ending between any two steps |
| `schema_boot` | every array of three plugins with any requirements and phases, of four with one requirement each, and a family with services, jobs, tables and faults; content types; schema apply; join tables; population; filters; the development server |
| `webhooks_safety` | overlapping sweeps, a fault, a test delivery, cleanups: what the log says is true |
| `media_safety` | folders under every rename, move and deletion, and interleaved uploads, confirmations, edits and deletions that may stop anywhere |
| `live` | what must come about: the cache is fresh again, the memory adapter's due drafts are published, deliveries settle, queued jobs are recorded, a boot ends |
| `cache_window` | *violated*: one reader and one writer are enough to store an old body under the new stamp, although the plan of the cache says the window is eliminated |
| `drafts_null` | *violated*: the memory adapter lists drafts that were never scheduled |
| `drafts_unpublish` | *violated*: with an SQL adapter an unpublished record keeps its past date |
| `webhooks_three` | *violated*: two overlapping sweeps post a row a fourth time |
| `paging_id` | *violated*: a walk that passes an SQL adapter's `nextCursor` on misses rows that were there all along |
| `schema_two` | *violated*: two applies under the lock write one change into the journal twice |

The six violated runs are reported as findings in `PROJECT.json`, each with the
sentence of the repository it contradicts.

### Bounds, and why they are enough

* *ContentCache*: two records (one whose entry is untouched by a write, and the
  list that depends on both), one reader and two writers, two mutating requests.
  A stale entry needs one fill and one write; the second writer and record let
  invalidations of others fall in between.
* *ContentWrites*: one document, two authors, four writes: create, change and
  delete with another author's write in any gap.
* *AdminContent*: two records (a bulk action with a failing and a succeeding
  request), one edit, three requests: a save with another overlapping it and a
  publication.
* *Drafts*: two records (a page of one, so that one waits behind the other), two
  overlapping runs of either job, two requests in flight, three mutating requests in
  all, one request or run that ends half way, clock 0..1 (due and not yet due).  On the
  memory adapter, which is the one of `live`, nothing ends half way: it never fails,
  and its records end with its process.
* *ApiKeys*: three keys and pages of one row, four calls or one call and three
  boots: two refreshes of one key, a sweep or a cleanup that does not fit.
* *Translations*: two jobs, two workers, two versions of the source, both stores:
  the smallest overlap of an older with a newer job.
* *Jobs*: two builds, one message with two tries, two overlapping cold starts.
* *Paging*: three rows, pages of one, clock 0..2 with two ticks to the hour: rows
  of one moment, of one hour and of two.
* *RateWindow*: three requests, two in flight, limits and windows of 1 and 2 in
  three configurations (apart, shared, and shared with different windows), the
  clock up to 4, twice the longest window.
* *Filters*: two rows; every operator modelled over every field and value of its
  type, and pairs of conditions beside a lower bound.  A number compared with a text
  is left out (`FiltersAssumption`): the memory adapter compares their `String`s, whose
  order depends on the digits.
* *PluginKernel*: three plugins give every shape of `requires` (chains, cycles,
  self-requirements, forks) with every phase; four give relocations that need
  more than two scans.  `Busy` varies what `app()` does.
* *ContentTypes*: two names, two administrators, three changes: a relation between
  them, in either direction, under a removal.
* *SchemaApply*: two features, two processes (one with consent), three edits and
  three applies, one of which may crash: a stale lock that two find.
* *DevServer*: two features, two duties, two changes and two starts.  Every
  exception that the property names is needed within these bounds: two refreshes
  that overlap, a change during the start, a plan overtaken by one that only added,
  a lock left by a server that ended.
* *JoinTables*: one record on one side and two on the other, bodies with repeated
  and unknown ids and two relations, three writes by two requests.
* *Populate*: three records, two relation fields, up to three nodes and two
  levels: cycles, a shared target, a budget that runs out.
* *Webhooks*: one job, which a redelivery or a test turns into two rows; two
  sweeps, one fault.  Posts are counted up to `MaxPosts`: three where two rows
  move, four in `webhooks_three`, five in `live`, one past what may happen there.
* *Media*: the constant `Quotas` shares out the work: three folders with one
  request, two folders with two requests, two requests with two referring records
  in two collections, three requests alone.  Three folders are the smallest tree
  with a grandchild, two names the fewest for a clash and for none.  One presigned
  upload suffices for a double confirmation.

Symmetry sets contain ids that are compared for equality only: requests, ticks,
readers, writers, sweeps, workers and, for Media, folders.  The run with liveness
properties declares none.  Deadlock is not checked: every system comes to rest
when its bounded requests are used up or its boot has ended.

### Fairness

All of it is weak, and in `MCLive`:

* cache: accepted requests proceed (JavaScript promises settle; the cache and the
  database answer or reject) and the ttl of every entry passes.  New requests need
  not come.
* drafts: the clock advances, and the cron provider goes on calling the job, whose
  steps proceed.  A subscriber may reject every time.  A run on the memory adapter
  does not end half way but with the records.
* webhooks: workers and sweeps proceed, the cron starts sweeps, a `nextAttemptAt`
  passes.  Events and faults need not happen.
* kernel: the loop of `installPlugins` goes on.

## 4. Proofs

All theorems hold for every value of the constants that satisfies the named
assumption of the module (natural bounds, model values apart from each other,
sequences over the sets they are meant for).  Each safety property that a passing
run checks is stated by a theorem.  The bounds that keep TLC's instances small
(`MaxKeys`, `MaxSaves` and the like) are constants too, so a theorem covers them at
any size.

A theorem `Spec => []P` is proved from an invariant that contains or implies P, holds
initially and is kept by every action; below is what that invariant adds to P and why.

* **ContentCacheProofs.** `TypeCorrect`.  `CacheIsFresh`: `FreshUnlessRaced` is
  not inductive, since a body on its way into the cache is not yet an entry.
  `FreshInv` adds that such a body is current as long as the stamp it was read
  under is (`FillsCurrent`), that no stamp in use is newer than the current one
  (`StampsIssued`), and that a writer answers for what it wrote until its emit
  (`WritersAnswer`).
* **DraftsProofs.** `TypeCorrect`.  `PublicationsAreAnnounced`: inductive together with
  the typing.  Each publication in question is explained by a request or a run about
  to emit or by a loss (`Explained`); the step that writes one owes its event
  (`WriterOwes`), what it does not write keeps its explanation (`Untouched`), and an
  author that stops owing has told or is recorded as lost (`RequestTells`,
  `RunTells`).  `WithdrawnIsFinal`, assuming the portable adapter:
  `WithdrawnInv` adds that a withdrawn draft has no date; lists only shrink once
  read (`ListsShrink`), and what a run lists is due (`ListIsDue`), hence dated.
  The assumption is needed: `drafts_null` shows the memory adapter breaking it.
* **WebhooksProofs.** `TypeCorrect`.  `LogInv` carries the three theorems
  together: issued rows have origins, a worker's row is its own, the attempt
  column never exceeds the posts made, and a sweep's snapshot was true when it
  was taken; the history variables only grow (`HistoryGrows`).
  `SoloSweepsAreExplained` assumes that one sweep runs at a time, which
  `webhooks_three` shows to be needed.  The bound on the posts is not inductive: a
  row may be posted while a sweep still has an old copy of it.  `SoloInv` adds that
  a row that waits can spare a post, both of the three and of those its attempt
  column counts (`RetriesAreSpare`), that the sweep's list and the row in its hand
  are what the table says (`ListIsCurrent`, `HandIsCurrent`), and that before the
  first fault an accepted row is a success or in the hand of the sweep that will
  record it (`AcceptedIsTold`).  Under the same assumption a settled row stays as it
  is until the cleanup (`SettledRowsStay`), since the sweep's hand never holds one.
* **PluginKernelProofs.** `TypeCorrect` needs `SortInv`, which says that each
  count is the number of unsorted requirements (`CountInv`); without it a count
  might go below zero.  `CycleInv` (a member of a cycle is never sorted, a scan
  without progress has found nothing ready) gives `CyclesAreReported`;
  `ListInv` gives `PlacesAreKept`; `InstallInv` gives `RequirementsRunFirst`,
  `PhasesAreKept` and `DeclaredServicesAreThere`: a requirement is sorted earlier
  and lies in no later phase, so the grouping keeps it in front.  `BootsAreWhole`
  adds `PlacedInv`: the jobs of what was installed and the tables of all are in
  place, and the groups are used up when the boot has succeeded.
* **MediaProofs.** `TreeInv` (ids are not given twice, forest, siblings differ)
  is inductive: a move's target is not below the folder moved, so a set of
  folders that hangs on itself after the move did before it.  `PathsStayTrue`: the
  new paths of a subtree are computed by recursion along the parents.  Instead of an
  induction the proof shows that such equations have one solution in a forest (the
  set of folders where two solutions differ would hang on itself) and that the paths
  the code writes solve them.  `RequestsInv` follows the references a DELETE has
  passed: a record that has referred to the asset since the request began is
  either ahead of the scan or was found (`ReferencesAreSeen`).
  `DeletedFoldersAreEmpty` is a property of each step.  `BlobsStayExplained`:
  `BlobsInv` gives each row the request that made it (`RowIsItsRequests`), follows
  the key of each request from its upload to its row (`RequestOK`), and says what a
  presigned upload can have led to before the client sends (`NotSentYet`).
* **ContentProofs.** `TrailStaysTrue`: `TrailInv` says of each place in a request
  what it has read, written and told (`RequestIsSound`), and that an author without
  company is the only one (`AloneIsAlone`); the document is absent or the last
  version written.  `WorkspaceStaysHonest`: `AdminInv` says that a lone save is of
  the latest text (`AloneSavesLast`), that the requests of a bulk action are out
  (`BulkIsOut`), and that a list which is not the server's is about to be fetched
  (`FetchComes`).  It assumes that the page has finitely many records.
* **PluginsProofs.**
  `CallsStayWhole` and `LockoutsAreExplained`: `KeysInv` says what each call knows
  of the rows it read (`CallsAreSound`), that a boot carries the key it made
  (`BootsCarryKeys`), and what a rotation leaves (`RotationsAreKnown`);
  `KeysNeverReturn` is an action property proved from it.
  `TranslationsStayKept`: what a worker holds is not newer than the request
  (`NothingIsNewer`), as long as jobs do not overlap one works at a time
  (`OneAtATime`), and a request is in the queue or at work (`RequestIsOnItsWay`).
  `JobsStayKept`: what a lone cold start has not found is not there
  (`StartsAreAlone`).
  `WalksAreListings`, the refinement of `Listing`: with `WalkInv`, by which what is due
  and not read lies behind the cursor (`RestIsAhead`), the initial states map to
  initial ones and each step to a step or a stutter.
  `OddWalksStayExplained`: for the walks that are no listing, `OddInv` bounds what
  came again and what was passed by the rows that were added and removed; the argument is
  about ranks, that is, sizes of sets of rows.
  `LimitsStayKept`: each charge is of a request that was let through
  (`ChargesAreOfPassings`), those without a charge are no more than the failures of
  the cache (`UnchargedByFailures`), so that a window is as full as the log.
* **SchemaProofs.**
  `TypesStaySound`: a file that differs from its collection waits for a request
  (`FileWaitsForApply`), and what a lone request found valid stays so
  (`AloneStaysValid`).
  `AppliesStaySound`: between its migration and its snapshot a process works on the
  plan it made (`PlanStillHolds`), and the journal leads the snapshot by that plan
  (`JournalLeads`).
  `LinksStayTheLastList`: what is left of a list is its end (`TodoIsTheRest`), and
  the rows of a lone writer's record are those it wrote (`AloneLinks`).
  `PopulatingStaysBounded`: the budget of a call is the number of ids its records
  looked up (`BudgetIsCounted`), a call below was made by a record that looked up an id
  (`CallIsBelow`), hence a level looks up at most the budget times the ids of the
  level above (an injection into a product).
  `AdaptersStayAlike`: an answer is what each evaluator lists; the evaluators are
  compared condition by condition, and a statement that can be rejected has an
  operator that lists nothing (`UnbalancedListsNothing`).
  `ServersKeepUp`: what is not current is still in the list of a duty, and that
  duty read what the files declare now (`ToDoOrDone`); the lock is of one duty
  (`LockIsOfOne`).

Properties that the runs list as one are proved part by part and joined:
`TheLogIsTrue`, `TheSortIsRight`, `InstallationIsOrdered`, `TheTreeIsSound`.

Where an argument needs an induction over numbers or sets, it is put as a least
counterexample of a well-founded order.

The comment at `core/src/plugins/runtime.ts` 138-144 promises that the array's
order is kept unless a requirement forces otherwise; with counts that change
during a scan that is not so for every array.  `WellListedKeepTheirPlace` is what
holds: no plugin overtakes one whose requirements, transitively, are listed
before the plugins that need them.

## 5. What is only model-checked

* Liveness: `EventuallyFresh`, `DueIsPublished`, `EventuallySettled` (the half of
  `SettlesOnce` that no theorem states), `QueuedIsRecorded`, `BootEnds`.  Liveness under fairness is out of the prover's
  reach, and so is ENABLED.
* The six violated runs: counterexamples, found on the smallest instance that has
  them.

## 6. What is not modelled

The models cover a small part of the repository's lines, and the parts below
would not add behaviour to check.  Most lines are views (the admin's React
components), generated or generating text (OpenAPI, SDL, schema code, scaffolds),
validation and parsing of options, type declarations, drivers, and copies of one
statement per dialect or per provider; an action stands for what they do to the
state.

* Authentication, permissions and request validation: a request that is refused
  before it changes anything is not a step.
* The drivers below the adapters, the storage providers, the hosting platforms:
  I/O.  A statement at the database or a call of a provider is one step that
  succeeds or throws.
* OpenAPI, CORS, platform and health: functions of the configuration.
* Preview (`preview/src`): one cache entry per token, kept by the cache's get, set
  and delete.
* The audit log's cleanup and export, the CLI's scaffolding and
  prompts, the admin's other views and its upload queue: sequential
  code around the parts that are modelled.
* Both `scheduled-publish` jobs in one application: `registerJob` refuses the second.
* What the memory adapter's jobs run in: it keeps the handlers of the first build, so a
  job put in it runs there, and one posted to its route in the build that serves
  (`jobs-runtime/src/plugin.ts` 107).  `Jobs` has both, and no property is about it,
  since nothing in the repository says which it should be.
* The i18n plugin's own table (`i18n/src/tables.ts`), which has another name and no
  unique index; `Translations` is about the table that the Drizzle store defines
  (`store/drizzle.ts`), whose index refuses a second row.
* The pages of a collection in `Media`: each has one record.  With an SQL adapter the
  scan of DELETE leaves out records beyond the first page (`media/src/routes.ts` 402,
  run `paging_id`), so that an asset in use there can be deleted.
* A writer of content types whose `afterWrite` throws, databases that do not enforce
  the foreign keys of a join table with their cascades, `$startsWith` and `$endsWith`.
* Sorting by several fields, the parsing of query strings, filters on relations
  (which have no caller), the sort orders of a list other than the default one.
* The KV cache, which never limits, and the window Upstash counts on its servers.
* `core/src/{webhooks,media,audit}.ts` and the like: earlier versions of what the
  plugin packages do now.
