# A verification of IOT Open API

IOT Open API is a FastAPI/SQLite service that serves the schedules and real-time
delays of 25 Polish transit providers to small clients. This directory holds TLA+
modules that model it, TLC configurations that check them on small instances, and
TLAPS proofs that what they check of its safety holds for every value of the
constants. Paths below are relative to `src/`.

## 1. The system

| Component | Source | State | Operations |
| --- | --- | --- | --- |
| Refresh cycle | `app/core/refresh.py` | the coroutine's position, the due providers, the failures of the cycle, the builds, the worker pool and its temporary directory | `refresh_all`: ensure providers, refresh static feeds, refresh auxiliary data |
| Main loop, lifespan | `app/main.py` | one asyncio task | start, repeat every N seconds, cancel at shutdown |
| Status tracker | `app/core/provider_status.py` | one state per slug | `set`, `snapshots`, under a lock |
| Database | `app/core/database.py` | the SQLite file (WAL), `_write_lock` | `connection`, `write_connection`, `initialize` |
| Static import | `app/repositories/gtfs_static.py` | a staged database, a temporary table, batches | replace, append |
| Real-time import | `app/repositories/gtfs_realtime.py` | three tables | `replace_realtime_delays` |
| Ticket machines | `app/repositories/ticket_machines.py` | one table | `replace_ticket_machines` |
| Queries | `app/repositories/transit_queries.py`, `app/core/stop_name.py` | none | `stops`, `schedule`, `ticket_machines` |
| Routes | `app/api/routes.py` | none | one request, one connection, one query |
| Providers | `app/providers/` | none | selection by slug; feed URLs; two providers look theirs up in a catalog |
| Settings | `app/core/config.py` | none | parsing of the command line |
| Models | `app/models/` | none | shapes of answers |

How they interact. The event loop runs the requests' dispatch, the refresh coroutine
and one *install task* for each due provider. The coroutine submits *builds* to a pool
of two worker processes. Each build downloads the archives and imports them into a
staged database of its own, named after the slug, in a temporary directory. When a build
ends, its install task starts a thread that attaches the staged database and copies it
into the shared one under `_write_lock`. After a `gather` over all install tasks the
directory is removed, and one thread at a time refreshes delays and ticket machines, provider
by provider, under the same lock. A shutdown cancels the coroutine where it waits; builds
and threads that it started may outlive it. Requests read the shared database at any time from
threads of their own. Statuses are written by the event loop and by the auxiliary
thread.

What is hard: two processes and several threads around one database and one
directory; a lock for threads that is also taken on the event loop; failures of every
step, of which some may be recorded by the wrong step, or later overwritten; delays computed
from a schedule that may be replaced; a service killed at any statement; service days
that run past midnight; identifiers and names that are normalised in several places.
`PROJECT.json` lists these hazards with their lines and the properties aimed at them.

What makes each component correct:

- *Refresh cycle*: what is served is one publication with its own delays and is never
  replaced by an older one; `/status` never hides a failure nor calls valid what cannot
  be served; the event loop is never blocked; every cycle ends and what is due is
  refreshed or reported failed; no failure stops the refresh of others.
- *Lifespan*: a shutdown ends, and leaves no lock, transaction or process behind.
- *Database*: a transaction is all or nothing; a request sees one state.
- *Static import*: the tables are what the archives say, whatever the batch size and
  however many archives a provider has.
- *Real-time import*: each observation lands on the occurrence it is about, what one
  feed tells is not lost to another, and a failure replaces nothing.
- *Ticket machines*: every machine of a document has a row, or nothing is replaced.
- *Queries*: every departure still to come, and no other, sooner ones first.
- *Stop names*: a listed name is found by searching for it, and finds the stops listed
  under it.
- *Providers*: the archive chosen is a trusted one valid today.

## 2. Modules

| Module | Models | Checked by | Proved in |
| --- | --- | --- | --- |
| `ProviderStore` | abstract specification of the shared database | as a property of three modules | |
| `RefreshService` | refresh cycle, main loop, statuses, pool, kills and restarts | `MCRefreshService` (3 runs), `MCRefreshServiceProofs` (1 run) | `RefreshServiceProofs` |
| `Lifecycle`, which extends `RefreshService` | start, graceful shutdown and what outlives the refresh task | `MCLifecycle` | `LifecycleProofs` |
| `StoreTransactions` | the transactions, statement by statement, and reading requests | `MCStoreTransactions` | `StoreTransactionsProofs` |
| `FeedSelection` | settings, selection of providers, choice of archives | through `StaticImport` | `FeedSelectionProofs`, `StaticImportProofs` |
| `StaticImport`, which extends `FeedSelection` | the streamed import of the chosen archives | `MCStaticImport` | `StaticImportProofs` |
| `AuxiliaryImport` | the observations of the feeds, predicted times, ticket machines | `MCAuxiliaryImport` | `AuxiliaryImportProofs` |
| `ScheduleQuery` | stop list, stop search and schedule | `MCScheduleQuery` (4 runs) | `ScheduleQueryProofs` |
| `FiniteFacts` | facts about numbers, finite sets and sorting, and no part of the program | | in the module itself |

`ProviderStore` is the hinge. It says that the served schedule of a provider is replaced
as a whole, by a publication no older, together with its time stamp, and that the
replacement drops the real-time rows. `RefreshService` implements it for the whole
cycle, where a transaction is one step; `Lifecycle` does too, whenever the service is
shut down. `StoreTransactions` implements it at the level of statements, where only the
commit is visible; this is what justifies the one step. `StaticImport` is what a build
does between its download and its commit, `AuxiliaryImport` what the auxiliary thread does
with the documents it has downloaded; `ScheduleQuery` is what a request computes from the
tables.

Some definitions come in pairs: the one that models the code, and before it a plausible
bug of it (`EmptiedTablesButSkips` and `EmptiedTables`, `SeesLatest` and `Sees`). The bug is
used nowhere; `PROJECT.json` names it as the mutant that violates a property.

### RefreshService

| Variable | In the code |
| --- | --- |
| `pc`, `at` | where `refresh_all` and `_refresh_static_feeds` are, and the position in the list of the loop they are in |
| `due`, `failures` | `due_providers` (as positions), `failures`/`static_failures` |
| `job` | for each due position: the build (`queued` to `built`), its install task and thread (`locking`, `attached`, `installed`), or its exception (`raised`, `failed`) |
| `pool`, `staged`, `fetched` | the executor with the temporary directory, the committed contents of each staged file in it, what a running build has downloaded |
| `source` | for each install inside its transaction, the staged database it has attached |
| `lock` | `Database._write_lock` |
| `aux`, `basis` | what `_refresh_auxiliary_data` is doing, and the schedule that the delays in its hands were computed from |
| `status` | `ProviderStatusTracker._statuses` |
| `schedule`, `stamp`, `overlay`, `machines` | the committed rows: the schedule tables, the `providers` row, the three real-time tables, the ticket machines |
| `published` | what the agency offers |

A schedule is the number of its publication. One action is one stretch of code between
two points where another actor may act: an `await`, the acquisition of the lock, a
commit, the hand-over between a process, a thread and the event loop. `EnsureProvider`
is one turn of the first loop, including the whole transaction. `FindDueProviders`,
`SubmitBuild` and `ResolveFails` run up to the next catalog lookup or to the gather, so
they set the status of the next provider too (`ContinueResolving`). `BuildOpens` waits
while another build of the same slug is writing the staged file (SQLite's file lock), and
`BuildRaises` covers the case where that file has its row already. `InstallCommits` is the
commit of `_install_static_database`; `AttachRaises` is the case where the directory is
gone before the thread has attached. `SubmitToBrokenPool` is the call that raises `BrokenProcessPool` outside the `try`.
`DelaysComputed` takes the lock and reads the schedule, `DelaysCommit` writes.
`FinishProvider` is the body of the second loop after its `await`, either branch.
`Restart` is a kill at any point followed by a start.

Wherever the `with` statement ends (after the gather, with the exception of a broken pool, or with
a cancellation) the directory goes with all staged files (`CloseDirectory`). After the gather no
install is left, but in the other two cases one may be attached to a file whose name is gone. It
goes on reading what it has opened: that is POSIX, where a file lives as long as a descriptor of it, and
SQLite, which opens the file and its log when ATTACH reads the schema. The modules assume both, so
`InstallCommits` copies `source` and not `staged`; an attached database that cannot be read any
more is among the causes of `InstallRaises`. That the removal itself succeeds while a file is open is assumed
as well. The service is not modelled for systems where an open file cannot be removed.

### StoreTransactions

`disk` is the committed content, `work[t]` what thread `t` sees inside its transaction.
A writer runs the ten statements of an install or the six of a real-time refresh one by
one; it commits, rolls back after any of them, or is killed. A request takes its
snapshot with its first read and then reads table after table. `InstallRequested` allows
what the refresh cycle produces: no two builds of a provider at once and no build older
than what is served. `RefreshService` establishes this (`NoRegression`; for a repeated
provider `BuildOpens` lets only one build of a slug succeed in a cycle, and the second
install copies the same staged file).

### Lifecycle

`life` is where `lifespan` and `asyncio.run` are. A `CancelledError` is no `Exception`, so no
handler of the refresh cycle sees it and no status is set: the task is over
(`CancelOutsideCycle`), unless it is inside the `with` statement of
`_refresh_static_feeds`. There it first closes the pool, which waits for the builds on the event
loop (`draining`): no task runs, threads do. Cancelled during the gather, the install tasks
are cancelled with it, and so are the builds that no worker has been handed yet
(`CancelGathering` chooses up to which one they have been); cancelled during a lookup,
they are not, and the thread of the lookup goes on (`CancelResolving`, `lookup`, `LookupEnds`). `LeavePool`, `CancelRemainingTasks` and `Exit` are the rest of the
shutdown: the directory is removed as soon as the builds have ended, a thread inside a transaction
and the thread of a lookup are joined. `Start` follows an exit or a kill at any
point.

### FeedSelection and StaticImport

`FeedSelection` goes from an order (arguments, catalog, date) to the archives of one of the
selected providers: `ParseSettings` and `SelectProviders` refuse or accept, `ResolveUrls` is
`static_feed_urls` of the four kinds of provider. A date is a triple; `EndDate` adds the
year that the name of an archive does not tell, and a date that does not exist raises.
`CatalogLink` says what a link of a catalog is, and `SelectionAssumption` that whatever a
provider names leads to an archive.

`StaticImport` goes on with these archives, which are downloaded and imported one by one in one
transaction. It has one action for the download of an archive, one for each row of
`trips.txt` and `stop_times.txt` and one for each of the ends of these files, and one for
an archive that cannot be had, lacks a file or has a row that ends before one of its identifiers
(`None.strip()` raises there): `lacks` says where. `archives` is what the sites hold at the links;
an archive takes part in the import from its own download on. A table is a function from its primary key, and
`Upsert` is what a batch of `INSERT OR REPLACE` leaves of it: of the rows with one key the last
one. `ArchiveOK` says what the parser makes of a file: fields are numbers or refused
(`Missing`); nothing is assumed about order, repetition or consistency between files.
`ParsedTrips` and `ParsedDepartures` are `parse_static_feed`, which keeps a whole archive in
memory; the properties compare the streamed import with the contents of the archives, row
by row place (`TripRows`, `StopTimeRows`), and for one archive with these two as well.

### AuxiliaryImport

One input is the payloads of the feeds, the departures and service dates of the committed
schedule, and a ticket-machine document. `CollectTrip`, `CollectUpdate` and `FinishEntity` are
the turns of the two nested loops of `_collect_observations`; `FinishFeed` goes on to the next
payload, `RefuseFeed` is a payload that does not parse. `ReplaceDelays` is the
transaction of `replace_realtime_delays`: for each predicted time the candidates are the
occurrences within the window of dates (`Window`), and the nearest wins (`Nearest`).
`ReplaceMachines` and `RefuseMachines` are the second transaction, where a record
without an identifier is numbered by its position, and a repeated identifier violates
the primary key.

### ScheduleQuery

The SQL of the queries as set operators and sequences (`Selected`, `Before`,
`LimitedStops`), the requests as actions, and `initialize`, which normalises stored names
again at every start. A name is a text and the number of its position suffixes;
`PartOf` and `EndOf` say which texts contain which, and which end with which, for LIKE. An ORDER BY that leaves ties leaves the order
of the tied rows to SQLite, so `stops` and `schedule` are the *sets* of lists that a query may
return, and a request is answered with any of them (`Sortings`). `DatabaseOK` is what
the importers leave in the tables: finitely many rows, names that are not empty, times before
the end of the day after the service date (of the departures, that is `TypeOK` of `StaticImport`).

## 3. Runs

| Run | Instance | Shows | Distinct states |
| --- | --- | --- | --- |
| `RefreshCycle` | 2 providers (a: delays and machines; b: catalog), 1 worker for 2 builds, 2 publications | the safety of statuses, lock and served data while any download, import or statement fails; every cycle ends, due schedules are refreshed or reported, real-time gaps close | 36 384 |
| `RefreshFaults` | provider a twice and b once, 2 workers, with dying workers, failing storage, kills and restarts | the store still implements `ProviderStore`, also when two builds share a staged file; the inductive invariant of the proofs holds | 323 102 |
| `Lifecycle` | 2 providers, 2 workers, all faults, a shutdown anywhere | builds never lack their directory, installs never lack their source, a shutdown ends wherever it meets the task and leaves nothing held, the store is `ProviderStore` throughout | 242 348 |
| `StoreTransactions` | 2 writing threads (symmetric), 1 request, 2 publications | committed and answered data is whole; refinement | 20 634 |
| `StaticImport` | catalogs of two links with six periods, of which one begins on an impossible date, at four dates; good and bad command lines; batches of 2, up to 3 rows a file, 1 or 2 archives, some incomplete, any of which may fail to download | the archive chosen is the one of today; the tables are what the archives say, each trip with the dates of its own archive; an import ends, hence `CHECK_DEADLOCK FALSE` | 23 592 |
| `AuxiliaryImport` | all pairs of 8 entities in one feed with a second feed; 1 or 2 predicted times over 5 days of 4 units; documents of up to 3 machines | every report is kept, every prediction finds its occurrence, no machine is lost, a failure replaces nothing; an import ends, hence `CHECK_DEADLOCK FALSE` | 35 621 |
| `ScheduleQuery` | 800 databases with 2 stops and 2 trips, a day of 3 units, 3 service dates | the schedule is complete, current and sorted; the list groups names; listed names are found by the search | 100 000 |
| `RefreshWorkerDeath`, `RefreshStartup`, `QueryOrder`, `QueryMidnight`, `QueryListedName` | as above | violated: see section 6 | |

Why the bounds suffice. Interaction between providers goes through the lock, the pool,
the gather and the failure set, each of which two jobs exercise: two installs that contend, one
that fails while another runs, a queue behind one worker, an auxiliary refresh after
each. Two publications tell the old schedule from the new, a third is needed only where
two builds of one provider download at different times. A queue longer than one adds no
new order, since builds start in the order of submission. Two batches and a rest are what
three rows give with batches of two. A day of three units has a first, a middle and a last
time, and service seconds go up to twice a day, as the importer admits. A predicted time is
matched within a day of the predicted dates, so five service dates have one outside
the window on either side. Two feeds with two entities in the first give each order in which two
reports of one stop can come.

`MaxVersion` bounds the publications and is the only bound in a guard (`Publish`);
cycles repeat without bound.

## 4. Fairness

`FairSpec` assumes weak fairness of the refresh coroutine, of each schedule job and of
the auxiliary thread (`Fairness`), and that the catalog lookups end (`CatalogsAnswer`). Nothing is
asked of the rest of the environment: nothing has to be published or to
expire, and a download is free to fail each time. The event loop runs ready
tasks in turn and the threads of the pool are preemptive, so an enabled step is taken.
That a download ends at all is from `_download`: every socket read has a timeout of 30
seconds and at most 250 MiB are read. A trickling server may take long, but not forever.

`CatalogsAnswer` has no such argument. `static_feed_urls` of Olsztyn and Wroclaw
(`app/providers/olsztyn.py:26`, `wroclaw.py:25`) reads an answer of any length: the timeout is one for
each read, and nothing ends an answer that never stops. That the two sites do not send one is an
assumption about them, and `EveryCycleEnds`, `DueIsRefreshed`, `RealtimeGapCloses` and
`ShutdownCompletes`, whose exit joins the thread of a lookup, hold under it only. It is therefore
a conjunct of its own, on the steps that follow a lookup (`CatalogStep`, `LookupEnds`).

Worker deaths, storage faults and kills are excluded from the liveness properties of the
cycle: after `SubmitToBrokenPool` or `LoopStorageFault` nothing happens any more, which is
finding 1.

`FairLifeSpec` is the same with the steps of the shutdown (`ClosingStep`): once a
shutdown has begun, the server carries it through. `ShutdownCompletes` starts from every stage
of it, so it covers a task that is cancelled inside the pool's `with` statement, asleep, over, or awaiting
the auxiliary thread. Nobody has to shut the service down
or to start it. Here all faults are allowed, since a shutdown must end whatever has
failed before. An install task takes no step while the event loop is blocked
or after it has been cancelled (`LifeJobStep`), so nothing fair is asked of it then.

## 5. Proofs

Every safety property that a passing run checks, on its small instance, is a theorem for every
value of the constants: each invariant, the action properties `NoRegression`,
`ScheduleAndStampTogether` and `AnswersNeverGoBack`, and the refinements of `ProviderStore`. The
assumptions are those the modules name next to their constants. They say what a parser
or an importer leaves (types, finitely many rows, a feed at least), and nothing about
order, repetition or consistency of the data; TLC evaluates them on every run.

### RefreshServiceProofs

For every list of providers (with repetitions), all
sets of feeds, any number of workers, and every choice of the fault constants,
`Spec` implies: `[]TypeOK`, `[]OverlayMatchesSchedule`, `[]ValidHasSchedule`,
`[]RestingStatusIsFinal`, `[]AuxiliaryStatusIsLive`, `[]EventLoopNeverBlocks`,
`[]InstallHasSource`, `[]WritersExcludeEachOther`, the action properties `NoRegression`
and `ScheduleAndStampTogether`, and `ImplementsStore`, the refinement of
`ProviderStore`.

The assumptions are those named in `RefreshService`: the list is a non-empty sequence of
the slugs, each slug occurs in it, feeds belong to slugs, the number of workers is positive,
and `NoOverlay` is not a number.

None of these properties is inductive. Take `NoRegression`: that an install never puts an
older schedule in place holds because a staged database is not older than what is served
(`StoreInv`); this holds because a running build has downloaded a publication not older
(`BuildInv`), which stays true while it runs only because no other build of the slug can
commit a second staged file, and because the files are emptied only after all jobs have settled
(`PhaseInv`). `IInv` is the conjunction of

- `PhaseInv`: which jobs and auxiliary steps each phase of the coroutine allows,
- `LockInv`: the lock is held exactly by the thread inside a transaction,
- `BuildInv`: what builds and staged files hold, and that a closed directory holds none,
- `StoreInv`: how schedule, stamp, overlay, publications and the database of an install relate,
- `CycleInv`: past the gather, whoever has no schedule is recorded as failed,
- `StatusInv`: what the statuses say.

Each part has a lemma with one step for each action; `Invariance` combines them. The
action properties follow from `IInv` and `ScheduleStep` (only `InstallCommits` changes a
schedule), the refinement from `InitImplements` and `StepImplements`.

### LifecycleProofs

`LifeSpec`, with a shutdown and a start anywhere, implies `[]LifeTypeOK`, `[]BuildsHaveDirectory`,
`[]NothingHeldAtExit`, `[]InstallHasSource`, `[]WritersExcludeEachOther` and
`ImplementsStore`. A step of the life is a step of the refresh cycle, a cancellation, a
later stage of the shutdown, or a start (`LifeSteps`); a start is a `Restart` (`StartIsRestart`).
`LifeSourceTheorem` is about the install whose directory a shutdown removes: its `source` was
a finished build when it was attached, nothing attaches once the directory is closed, and a
staged file changes under nobody while it is there. A cancellation ends the coroutine and leaves jobs and threads where they are, so the parts
of `IInv` that say what these owe to each other survive (`CycleIInv`), the parts of `PhaseInv` that
speak of a phase of the coroutine being void then. `StatusInv` does not survive: nobody sets the
status of a cancelled task. `ShutdownInv` adds what each stage has waited for: an
exited service has seen all threads end, which is why it holds nothing.

### StoreTransactionsProofs

For all sets of providers, threads and requests and any number of publications, `Spec`
implies `[]TypeOK`, `[]CommittedIsWhole`, `[]AnswersAreWhole`, the action property
`AnswersNeverGoBack`, and `ImplementsStore`. Assumed is `TransactionsAssumption`: there is a
publication, and the values for "no rows" and "nobody" are not numbers or threads.

`CommittedIsWhole` is not inductive, since a commit copies what the thread has made of the
rows. `IInv` therefore says what that is after each statement: `View(c, old, w)` is the
content of column `c` when the next statement of operation `w` is number `w.next`, in terms of
the committed rows `old`. It may refer to what is committed *now*, and not to what was when
the transaction began, because the thread holds the lock and nobody else commits
(`WriterInv`). `InstallStatementsAre` and `ObserveStatementsAre` list the statements,
`StatementStep` shows that each turns a view into the next, and `InstallEnds` and `ObserveEnds` that
the last view is one whole publication. That an observation writes delays of the
schedule that is served, and an install none that is older, are the other parts of
`WriterInv`. `RequestInv` says that what a request has read is the beginning of a whole
snapshot. The refinement follows from `CommitPublishes`.

### FeedSelectionProofs and StaticImportProofs

For every catalog, date, command line, size of a batch, number of archives and length of their
files, `Spec` of `StaticImport` implies `[]TypeOK`, `[]SelectionIsNewestValid`, `[]ImportIsFaithful`,
`[]DatesAreFaithful` and `[]ArchivesKeepTheirTrips`. Assumed are `SelectionAssumption` and
`ImportAssumption` (section 2).

The selection needs the smaller invariant `SelectionInv`: what has been resolved is what a
selected and registered provider resolves to. The rest is about dates. `OrdinalsInOrder` shows
that the comparison of triples is that of the numbers of `Ordinal` for dates that exist,
`EndIsLastDay` that the year the code guesses is the one of `LastDay`, and `NewestExists` that a
catalog, being finite, has a newest valid link, so that the maximum is one.

The import is where the batches have to disappear. What a table holds depends on
where the last flush was; the table *together with the batch not written yet* does not.
`TripsWith` and `RowsWith` say that of the temporary table and of the departures: once the batch is
written too, the table holds, for every key of a row read so far, what the last of these
rows says (`LastOfEach`, which orders rows by archive and place). A step that reads a row puts
that row in, flush or not, and a flush changes nothing. `TripsPhase`, `StopTimesPhase` and
`DonePhase` are these facts at every position of every archive, with the dates read so far and the
fact that the archives before were complete. `FirstPhase`, `TripPhase`, `DatesPhase`,
`StopTimePhase` and `LastPhase` lead from each to the next, and `IInv` is `SelectionInv` with them.
Exceptions to the calendar are the one recursive definition here. That the fold over
them in the order of the file is decided by the last one for a date is
an induction over their number.

`ArchivesKeepTheirTrips` then is a fact about `DonePhase`: rows that come from different archives
have different trips, so the last row of a key is the last one of its own archive.

### AuxiliaryImportProofs

For any number of payloads, entities and updates, every schedule and every document, `Spec` implies
`[]TypeOK`, `[]ReportsAreKept`, `[]PredictionsFindTheirOccurrence`, `[]FailureKeepsTheRest` and
`[]NoMachineIsLost`. What `ReportsAreKept` says at the end of the reading, `CollectInv` says at
every position: what has been told before it is held, and of the delays of a stop the last one.
Predictions are matched in one step, so nothing about them has to be carried along, except
that they are finitely many (`ObservedOK`): their dates then have a first and a last
one, and the window of the SELECT covers the days around each of them, which is what makes the
nearest candidate the nearest of all. `FailureInv` says that nothing is written before its
transaction. `NoMachineIsLost` comes down to a bijection between records and rows.

### ScheduleQueryProofs

For tables of any size and every limit, after any requests and restarts, `Spec` implies `[]TypeOK`,
`[]UpcomingByClock`, `[]SoonestAreKept`, `[]ListingGroupsStops` and `[]ListedNamesAreSearched`. The
answers do not depend on each other, so `QueryInv` says of the last list and of the last answer what
the properties say; a restart changes the names and drops both. The work is in the reading:
`CutSorting` (what a LIMIT leaves of a sorted list), an induction over the rows for the loop with
`seen_names`, and the arithmetic of two service dates, which reach every departure to come because a
service ends on the day after its date. `EveryRequestIsAnswered` shows that the sets of possible
answers are never empty, so that the theorems are not about nothing: an order on a finite set can be
followed, whatever it leaves open.

### Induction over data

The induction theorems of the library take an operator, which the provers cannot instantiate.
`FiniteFacts` states them with a *set* in its place, the set of all arguments for which a claim
holds: `NaturalInduction` and `FiniteInduction` follow from the least element of a set of
numbers, `RecursiveFunction` from them: that a function with the recursive equation exists, so that
`result[n]` of the model is what its definition says. `SortingExists` and the bounds of finite sets are
proved with them too. No module with a theorem, and none it uses, declares a RECURSIVE
operator.

### Only model-checked

- Liveness: `EveryCycleEnds`, `DueIsRefreshed`, `RealtimeGapCloses` and `ShutdownCompletes` need fairness
  and ENABLED, which this prover does not reason about.
- The five violated properties of section 6, which are refuted and not proved.

`ProviderStore` has no theorems of its own: it is what the others are proved to implement.

## 6. Where the code and its documents differ

1. `app/core/refresh.py:84`: `run_in_executor` is outside the `try`. When a worker
   process dies (for want of memory, say) while a later provider is still being
   resolved, `BrokenProcessPool` ends the refresh task for good, although "Refresh all
   configured providers without one failure stopping the others"
   (`RefreshWorkerDeath`).
2. `app/core/refresh.py:177`: a restart within the interval fetches no static feed;
   the README says "Static GTFS is fetched at startup" (`RefreshStartup`).
3. `app/repositories/transit_queries.py:108`: the order is by estimated time; the README
   says "ordered by lowest delay first and then scheduled time" (`QueryOrder`).
4. `app/repositories/transit_queries.py:106`: the "Next departures" stop at midnight
   (`QueryMidnight`).
5. `app/repositories/transit_queries.py:96`: a name is normalised once more for the list
   than for storage, so a stop stored as `X 01` is listed as `X`, and a lookup of
   `X` finds only the stop stored as `X` when there is one (`QueryListedName`).

## 7. Not modelled

- The progress numbers of statuses and `realtime_updated_at`: nothing reads them but
  `/status`, and no decision depends on them.
- Routes, destinations, coordinates, types and codes: they ride along with their rows.
- The digits of a position: only the number of suffixes counts, so `X 01` and `X 02` are one name.
- Wildcards of LIKE inside a name, and ties of floating-point times in the ORDER BY.
- Several archives of a provider count as one publication in `RefreshService`; how they
  combine is in `StaticImport`. A feed or a document counts as one download there; what is
  made of it is in `AuxiliaryImport`.
- Batches of 500 trip identifiers in the SELECT for predicted times: the union of the batches
  is the whole.
- The shift of a clock change in `_scheduled_timestamp` and in the queries; the zone of the
  server, which the choice of an Olsztyn archive depends on; a wall clock that is set
  back. Times here are distances on one clock.
- Rows of delays without a date: the tables hold none, and the queries are modelled as
  they are, so a delay counts for each date on which the trip runs.
- A second service process on the same file: `_write_lock` is a lock of threads only, and
  nothing in the repository starts two. SQLite itself (the WAL, its busy timeout) is taken at its
  word: a commit is atomic and a reader has one snapshot.
- A file system on which an open file cannot be removed, or is lost with its name (section 2).
- How links are found in the HTML of a catalog: a link is trusted or not.
- Response models, the health, provider and status routes, the 404 and 422 answers: no
  state of their own.
- `replace_static_feed`, which only tests call.

## 8. Plan

Done: the inventory; `ProviderStore`, `RefreshService`, `StoreTransactions`, `Lifecycle`,
`FeedSelection` with `StaticImport`, `AuxiliaryImport` and `ScheduleQuery`; a theorem for every
safety property that a passing run checks.

What could follow:

1. An abstract import, that writes what the archives say in one step, refined by `StaticImport`, and
   an abstract query, refined by `ScheduleQuery`: the properties of these two modules in the form
   of a specification.
2. Action properties of the shutdown (`Lifecycle`): that its stages are gone through in order, and
   that nothing is committed after the exit.
3. What one component promises another as a theorem: that the tables `StaticImport` leaves satisfy
   the part of `DatabaseOK` that concerns them.
4. Service dates with a clock change, if the code comes to promise something about them.
