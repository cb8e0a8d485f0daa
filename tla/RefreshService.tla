--------------------------- MODULE RefreshService ---------------------------
(***************************************************************************)
(* The refresh cycle of app/core/refresh.py and the loop of app/main.py    *)
(* that repeats it.  Four kinds of actor share the state:                  *)
(*                                                                         *)
(*   - the refresh coroutine on the event loop (pc, at, due, failures);    *)
(*   - one schedule job per due provider: a build in a worker process of   *)
(*     the pool, then an install task whose thread copies the built        *)
(*     database into the shared one (job, pool, staged, source);           *)
(*   - the worker thread that refreshes delays and ticket machines of one  *)
(*     provider at a time (aux, basis);                                    *)
(*   - the environment: publishers, the clock, dying worker processes,     *)
(*     storage faults, and the end and restart of the service.             *)
(*                                                                         *)
(* The shared database is represented by its committed contents only       *)
(* (schedule, overlay, machines, stamp): a transaction is the step that    *)
(* commits it.  A schedule is represented by the number of the publication *)
(* it was imported from.                                                   *)
(***************************************************************************)
EXTENDS Naturals, Sequences, FiniteSets

CONSTANTS
  Slugs,              \* the provider slugs: keys of rows and of statuses
  Providers,          \* RefreshService._providers, a list of slugs
  RealtimeSlugs,      \* providers with at least one TripUpdates feed
  MachineSlugs,       \* providers with a ticket-machine feed
  CatalogSlugs,       \* providers that resolve their archive from a catalog
  StaticWorkerCount,  \* _STATIC_WORKER_COUNT
  MaxVersion,         \* bound on the publications of one provider
  WorkersMayDie,      \* may a worker process of the pool die abruptly?
  StorageMayFail,     \* may the database or the temporary directory fail?
  MayRestart,         \* may the service be killed and started again?
  NoOverlay           \* no real-time rows at all

ASSUME ProvidersAssumption ==
  /\ Providers \in Seq(Slugs)
  /\ Len(Providers) >= 1
  /\ \A s \in Slugs : \E j \in 1 .. Len(Providers) : Providers[j] = s
ASSUME FeedsAssumption ==
  /\ RealtimeSlugs \subseteq Slugs
  /\ MachineSlugs \subseteq Slugs
  /\ CatalogSlugs \subseteq Slugs
ASSUME BoundsAssumption ==
  /\ StaticWorkerCount \in Nat \ {0}
  /\ MaxVersion \in Nat \ {0}
  /\ NoOverlay \notin Nat
ASSUME FaultsAssumption ==
  /\ WorkersMayDie \in BOOLEAN
  /\ StorageMayFail \in BOOLEAN
  /\ MayRestart \in BOOLEAN

VARIABLES
  pc,        \* where the refresh coroutine is
  at,        \* the list position of its current loop iteration
  due,       \* due_providers, as list positions
  failures,  \* the slugs whose static refresh failed in this cycle
  job,       \* the schedule job of each list position
  pool,      \* the worker pool and its temporary directory
  fetched,   \* the publication each running build has downloaded
  staged,    \* committed contents of each staged database file
  source,    \* what each running install has open of its staged database
  lock,      \* the thread that holds Database._write_lock
  aux,       \* what the auxiliary thread is doing
  basis,     \* the schedule that thread's delays were computed from
  status,    \* ProviderStatusTracker._statuses
  schedule,  \* stops, service_dates and departures of each provider
  stamp,     \* the providers row and its static_updated_at
  overlay,   \* the three real-time tables of each provider
  machines,  \* has ticket_machines been filled for the provider?
  published  \* the newest publication of each provider's archives

loopVars == <<pc, at, due, failures>>
poolVars == <<pool, fetched, staged, source>>
jobVars  == <<job, poolVars>>
auxVars  == <<aux, basis>>
dbVars   == <<schedule, stamp, overlay, machines>>
vars == <<loopVars, jobVars, lock, auxVars, status, dbVars, published>>

-----------------------------------------------------------------------------
Entries == 1 .. Len(Providers)
NoThread == 0                       \* the write lock is free
AuxThread == Len(Providers) + 1     \* install threads are 1 .. Len(Providers)
NoVersion == 0                      \* nothing imported yet
Versions == 0 .. MaxVersion

States == {"pending", "valid", "failed",
           "downloading_delays", "updating_delays",
           "downloading_schedule", "updating_schedule",
           "downloading_ticket_machines", "updating_ticket_machines"}

(***************************************************************************)
(* The life of a schedule job: submitted and waiting for a worker          *)
(* (queued); a worker process opening its staged database (opening), then  *)
(* inside the transaction that downloads the archives (building) and       *)
(* imports them (importing); built; its install task resumed and its       *)
(* thread waiting for the write lock (locking); inside the install         *)
(* transaction (attached); done (installed).  An exception of the build or *)
(* of the install is raised until the install task resumes and records it  *)
(* (failed).                                                               *)
(***************************************************************************)
JobStates == {"idle", "queued", "opening", "building", "importing", "built",
              "locking", "attached", "installed", "raised", "failed"}
Settled == {"idle", "installed", "failed"}
InTransaction == {"building", "importing"}
InWorker == {"opening"} \cup InTransaction

AuxStates == {"off", "fetchDelays", "lockDelays", "writeDelays",
              "fetchMachines", "lockMachines", "writeMachines",
              "returned", "raised"}

SlugAt(j) == Providers[j]

(* Database.write_connection takes the lock and gives it back on every way *)
(* out.  Plausible bugs: connection() is used in its place; acquire() and  *)
(* release() are called with no try between them.                          *)
AcquireAtOnce(thread) == lock' = thread
Acquire(thread) == lock = NoThread /\ lock' = thread
KeepHolding == lock' = lock
Release == lock' = NoThread

(* Each loop stays within its list, each table and status within its type. *)
TypeOK ==
  /\ pc \in {"ensure", "due", "resolve", "gather", "aux", "sleep", "dead"}
  /\ at \in 0 .. Len(Providers)
  /\ due \subseteq Entries
  /\ failures \subseteq Slugs
  /\ job \in [Entries -> JobStates]
  /\ pool \in {"closed", "open", "broken"}
  /\ fetched \in [Entries -> Versions]
  /\ staged \in [Slugs -> Versions]
  /\ source \in [Entries -> Versions]
  /\ lock \in 0 .. AuxThread
  /\ aux \in AuxStates
  /\ basis \in Versions
  /\ status \in [Slugs -> States]
  /\ schedule \in [Slugs -> Versions]
  /\ stamp \in [Slugs -> {"noRow", "never", "fresh", "stale"}]
  /\ overlay \in [Slugs -> Versions \cup {NoOverlay}]
  /\ machines \in [Slugs -> BOOLEAN]
  /\ published \in [Slugs -> Versions]

-----------------------------------------------------------------------------
(* A process has just started on an empty database: Database.initialize,   *)
(* RefreshService.__init__ and the task of lifespan before its first step. *)
Init ==
  /\ pc = "ensure" /\ at = 1 /\ due = {} /\ failures = {}
  /\ job = [j \in Entries |-> "idle"]
  /\ pool = "closed"
  /\ fetched = [j \in Entries |-> NoVersion]
  /\ staged = [s \in Slugs |-> NoVersion]
  /\ source = [j \in Entries |-> NoVersion]
  /\ lock = NoThread
  /\ aux = "off" /\ basis = NoVersion
  /\ status = [s \in Slugs |-> "pending"]
  /\ schedule = [s \in Slugs |-> NoVersion]
  /\ stamp = [s \in Slugs |-> "noRow"]
  /\ overlay = [s \in Slugs |-> NoOverlay]
  /\ machines = [s \in Slugs |-> FALSE]
  /\ published = [s \in Slugs |-> 1]

-----------------------------------------------------------------------------
(* The refresh coroutine: providers are ensured and the due ones found.    *)

(* _ensure_provider for one list position, on the event loop's own thread: *)
(* it blocks while another thread holds the write lock.                    *)
EnsureProvider ==
  /\ pc = "ensure"
  /\ lock = NoThread
  /\ stamp' = [stamp EXCEPT ![SlugAt(at)] = IF @ = "noRow" THEN "never" ELSE @]
  /\ IF at = Len(Providers)
     THEN pc' = "due" /\ at' = 0
     ELSE pc' = pc /\ at' = at + 1
  /\ UNCHANGED <<due, failures, jobVars, lock, auxVars, status, schedule,
                 overlay, machines, published>>

StaticRefreshDue(s) == stamp[s] # "fresh"

NextOf(D, k, j) == j \in D /\ k < j /\ \A m \in D : m <= k \/ j <= m

(* The for loop of _refresh_static_feeds moves past position k: either to  *)
(* the next due provider, whose catalog lookup it starts, or to gather.    *)
ContinueResolving(D, k, st) ==
  \/ \E j \in D :
       /\ NextOf(D, k, j)
       /\ pc' = "resolve" /\ at' = j
       /\ status' = [st EXCEPT ![SlugAt(j)] = "downloading_schedule"]
  \/ /\ \A j \in D : j <= k
     /\ pc' = "gather" /\ at' = 0
     /\ status' = st

FindDueProviders ==
  /\ pc = "due"
  /\ due' = {j \in Entries : StaticRefreshDue(SlugAt(j))}
  /\ failures' = {}
  /\ \/ /\ due' = {}
        /\ pc' = "aux" /\ at' = 1
        /\ UNCHANGED <<pool, status>>
     \/ /\ due' # {}
        /\ pool' = "open"
        /\ ContinueResolving(due', 0, status)
  /\ UNCHANGED <<job, fetched, staged, source, lock, auxVars, dbVars, published>>

(* The database or the temporary directory fails under the coroutine:      *)
(* nothing catches the exception, and the task of _refresh_forever ends.   *)
LoopStorageFault ==
  /\ StorageMayFail
  /\ pc \in {"ensure", "due"}
  /\ pc' = "dead"
  /\ UNCHANGED <<at, due, failures, jobVars, lock, auxVars, status, dbVars,
                 published>>

-----------------------------------------------------------------------------
(* The refresh coroutine: static feeds are resolved, submitted, gathered.  *)

(* static_feed_urls returned: the build is submitted to the pool and its   *)
(* install task created.                                                   *)
SubmitBuild ==
  /\ pc = "resolve"
  /\ pool = "open"
  /\ job' = [job EXCEPT ![at] = "queued"]
  /\ ContinueResolving(due, at,
        [status EXCEPT ![SlugAt(at)] = "downloading_schedule"])
  /\ UNCHANGED <<due, failures, poolVars, lock, auxVars, dbVars, published>>

(* static_feed_urls raised: caught and recorded at once.                   *)
ResolveFails ==
  /\ pc = "resolve"
  /\ SlugAt(at) \in CatalogSlugs
  /\ failures' = failures \cup {SlugAt(at)}
  /\ ContinueResolving(due, at, [status EXCEPT ![SlugAt(at)] = "failed"])
  /\ UNCHANGED <<due, jobVars, lock, auxVars, dbVars, published>>

(* The with statement ends: the processes of the pool have been joined and *)
(* the temporary directory is removed with the staged databases in it.  An *)
(* install that has attached its database keeps reading it: ATTACH opens   *)
(* the file and its log to read the schema, and a POSIX file stays         *)
(* readable through an open descriptor after its name is gone.             *)
CloseDirectory ==
  /\ pool' = "closed"
  /\ staged' = [s \in Slugs |-> NoVersion]
  /\ UNCHANGED <<fetched, source>>

(* run_in_executor raises BrokenProcessPool when a worker process has died *)
(* before the submission.  The call is outside the try statement: the with *)
(* statement closes the pool and removes the directory, and the exception  *)
(* ends the refresh task.  Install tasks created so far go on.             *)
SubmitToBrokenPool ==
  /\ pc = "resolve"
  /\ pool = "broken"
  /\ pc' = "dead"
  /\ CloseDirectory
  /\ status' = [status EXCEPT ![SlugAt(at)] = "downloading_schedule"]
  /\ UNCHANGED <<at, due, failures, job, lock, auxVars, dbVars, published>>

(* A plausible bug: the install tasks are created but not gathered.        *)
NothingToAwait == TRUE
AllEnded == \A j \in Entries : job[j] \in Settled

(* asyncio.gather returns when every install task has ended.               *)
GatherOutcomes ==
  /\ pc = "gather"
  /\ AllEnded
  /\ failures' = failures \cup {SlugAt(j) : j \in {k \in Entries : job[k] = "failed"}}
  /\ job' = [j \in Entries |-> IF job[j] \in Settled THEN "idle" ELSE job[j]]
  /\ CloseDirectory
  /\ pc' = "aux" /\ at' = 1
  /\ UNCHANGED <<due, lock, auxVars, status, dbVars, published>>

-----------------------------------------------------------------------------
(* A schedule job in a worker process: _build_static_database.             *)

(* A worker of the pool takes the oldest submitted build.                  *)
BuildStarts(j) ==
  /\ job[j] = "queued"
  /\ pool = "open"
  /\ \A k \in Entries : job[k] = "queued" => j <= k
  /\ Cardinality({k \in Entries : job[k] \in InWorker}) < StaticWorkerCount
  /\ job' = [job EXCEPT ![j] = "opening"]
  /\ UNCHANGED <<loopVars, poolVars, lock, auxVars, status, dbVars, published>>

(* The INSERT of the providers row begins the transaction of the staged    *)
(* file, named after the slug: it needs the file free and without the row. *)
BuildOpens(j) ==
  /\ job[j] = "opening"
  /\ staged[SlugAt(j)] = NoVersion
  /\ \A k \in Entries : job[k] \in InTransaction => SlugAt(k) # SlugAt(j)
  /\ job' = [job EXCEPT ![j] = "building"]
  /\ UNCHANGED <<loopVars, poolVars, lock, auxVars, status, dbVars, published>>

BuildDownloads(j) ==
  /\ job[j] = "building"
  /\ job' = [job EXCEPT ![j] = "importing"]
  /\ fetched' = [fetched EXCEPT ![j] = published[SlugAt(j)]]
  /\ UNCHANGED <<loopVars, pool, staged, source, lock, auxVars, status, dbVars,
                 published>>

BuildCommits(j) ==
  /\ job[j] = "importing"
  /\ job' = [job EXCEPT ![j] = "built"]
  /\ staged' = [staged EXCEPT ![SlugAt(j)] = fetched[j]]
  /\ fetched' = [fetched EXCEPT ![j] = NoVersion]
  /\ UNCHANGED <<loopVars, pool, source, lock, auxVars, status, dbVars,
                 published>>

(* How the install task finds a build that has failed.  A plausible bug:   *)
(* it waits for the build and does not ask for its exception.              *)
FailureUnseen == "built"
FailureSeen == "raised"

(* A download or an import fails, the row is there already, or the staged  *)
(* file stays locked by another build for longer than the busy timeout.    *)
BuildRaises(j) ==
  /\ job[j] \in InWorker
  /\ job' = [job EXCEPT ![j] = FailureSeen]
  /\ fetched' = [fetched EXCEPT ![j] = NoVersion]
  /\ UNCHANGED <<loopVars, pool, staged, source, lock, auxVars, status, dbVars,
                 published>>

(* A worker process dies, at work or idle: the pool is broken, and every   *)
(* build that is not finished ends with BrokenProcessPool.  The pool has   *)
(* processes from the first submission on.                                 *)
WorkerDies ==
  /\ WorkersMayDie
  /\ pool = "open"
  /\ \E j \in Entries : job[j] # "idle"
  /\ pool' = "broken"
  /\ job' = [j \in Entries |->
              IF job[j] \in InWorker \cup {"queued"} THEN FailureSeen ELSE job[j]]
  /\ fetched' = [j \in Entries |-> NoVersion]
  /\ UNCHANGED <<loopVars, staged, source, lock, auxVars, status, dbVars,
                 published>>

-----------------------------------------------------------------------------
(* A schedule job back in the service: _install_built_static_feed on the   *)
(* event loop and _install_static_database in a thread.                    *)

InstallRequested(j) ==
  /\ job[j] = "built"
  /\ status' = [status EXCEPT ![SlugAt(j)] = "updating_schedule"]
  /\ job' = [job EXCEPT ![j] = "locking"]
  /\ UNCHANGED <<loopVars, poolVars, lock, auxVars, dbVars, published>>

(* The thread enters write_connection and attaches the staged database.    *)
InstallAttaches(j) ==
  /\ job[j] = "locking"
  /\ pool # "closed"
  /\ Acquire(j)
  /\ job' = [job EXCEPT ![j] = "attached"]
  /\ source' = [source EXCEPT ![j] = staged[SlugAt(j)]]
  /\ UNCHANGED <<loopVars, pool, fetched, staged, auxVars, status, dbVars,
                 published>>

(* ATTACH fails when the temporary directory is gone; the lock is released *)
(* as the exception leaves write_connection.                               *)
AttachRaises(j) ==
  /\ job[j] = "locking"
  /\ lock = NoThread
  /\ pool = "closed"
  /\ job' = [job EXCEPT ![j] = "raised"]
  /\ UNCHANGED <<loopVars, poolVars, lock, auxVars, status, dbVars, published>>

(* Two parts of the install transaction.  Plausible bugs: the real-time     *)
(* tables are missing from the list of tables to empty; the UPDATE of      *)
(* static_updated_at is missing.                                           *)
KeepRealtime(s) == overlay' = overlay
EmptyRealtime(s) == overlay' = [overlay EXCEPT ![s] = NoOverlay]
KeepStamp(s) == stamp' = stamp
Restamp(s) == stamp' = [stamp EXCEPT ![s] = "fresh"]

(* The connection is closed, and the staged database with it.              *)
Detach(j) ==
  /\ source' = [source EXCEPT ![j] = NoVersion]
  /\ UNCHANGED <<pool, fetched, staged>>

(* The transaction commits: the schedule tables are replaced by the staged *)
(* rows, the real-time tables emptied, static_updated_at written.          *)
InstallCommits(j) ==
  /\ job[j] = "attached"
  /\ stamp[SlugAt(j)] # "noRow"
  /\ schedule' = [schedule EXCEPT ![SlugAt(j)] = source[j]]
  /\ EmptyRealtime(SlugAt(j))
  /\ Restamp(SlugAt(j))
  /\ job' = [job EXCEPT ![j] = "installed"]
  /\ Detach(j)
  /\ Release
  /\ UNCHANGED <<loopVars, auxVars, status, machines, published>>

(* A statement or the commit fails, or the staged database can no longer   *)
(* be read: everything is rolled back.                                     *)
InstallRaises(j) ==
  /\ job[j] = "attached"
  /\ job' = [job EXCEPT ![j] = "raised"]
  /\ Detach(j)
  /\ Release
  /\ UNCHANGED <<loopVars, auxVars, status, dbVars, published>>

(* The install task resumes with the exception of its build or thread.     *)
InstallTaskFails(j) ==
  /\ job[j] = "raised"
  /\ status' = [status EXCEPT ![SlugAt(j)] = "failed"]
  /\ job' = [job EXCEPT ![j] = "failed"]
  /\ UNCHANGED <<loopVars, poolVars, lock, auxVars, dbVars, published>>

-----------------------------------------------------------------------------
(* The auxiliary thread: _refresh_auxiliary_data of one provider.          *)

Current == SlugAt(at)
Report(state) == status' = [status EXCEPT ![Current] = state]

(* The thread goes on to the ticket machines, or returns when there is no  *)
(* ticket-machine feed.                                                    *)
ContinueToMachines ==
  \/ /\ Current \in MachineSlugs
     /\ aux' = "fetchMachines"
     /\ Report("downloading_ticket_machines")
  \/ /\ Current \notin MachineSlugs
     /\ aux' = "returned"
     /\ UNCHANGED status

(* A plausible bug: delays are skipped for a provider that was due.        *)
FetchesDelaysUnlessDue == Current \in RealtimeSlugs /\ at \notin due
FetchesDelays == Current \in RealtimeSlugs

BeginAuxiliary ==
  /\ pc = "aux" /\ aux = "off"
  /\ \/ /\ FetchesDelays
        /\ aux' = "fetchDelays"
        /\ Report("downloading_delays")
     \/ /\ ~FetchesDelays
        /\ ContinueToMachines
  /\ UNCHANGED <<loopVars, jobVars, lock, basis, dbVars, published>>

DelaysDownloaded ==
  /\ aux = "fetchDelays"
  /\ aux' = "lockDelays"
  /\ Report("updating_delays")
  /\ UNCHANGED <<loopVars, jobVars, lock, basis, dbVars, published>>

(* replace_realtime_delays first reads the schedule, to turn predicted     *)
(* times into delays; the read is outside the transaction that follows.    *)
DelaysComputed ==
  /\ aux = "lockDelays"
  /\ Acquire(AuxThread)
  /\ basis' = schedule[Current]
  /\ aux' = "writeDelays"
  /\ UNCHANGED <<loopVars, jobVars, status, dbVars, published>>

DelaysCommit ==
  /\ aux = "writeDelays"
  /\ overlay' = [overlay EXCEPT ![Current] = basis]
  /\ Release
  /\ basis' = NoVersion
  /\ ContinueToMachines
  /\ UNCHANGED <<loopVars, jobVars, schedule, stamp, machines, published>>

MachinesDownloaded ==
  /\ aux = "fetchMachines"
  /\ aux' = "lockMachines"
  /\ Report("updating_ticket_machines")
  /\ UNCHANGED <<loopVars, jobVars, lock, basis, dbVars, published>>

MachinesBegin ==
  /\ aux = "lockMachines"
  /\ Acquire(AuxThread)
  /\ aux' = "writeMachines"
  /\ UNCHANGED <<loopVars, jobVars, basis, status, dbVars, published>>

MachinesCommit ==
  /\ aux = "writeMachines"
  /\ machines' = [machines EXCEPT ![Current] = TRUE]
  /\ Release
  /\ aux' = "returned"
  /\ UNCHANGED <<loopVars, jobVars, basis, status, schedule, stamp, overlay,
                 published>>

(* A download, the parsing or a statement fails; an open transaction is    *)
(* rolled back and the lock released.  Delays already committed stay.      *)
AuxiliaryRaises ==
  /\ aux \in {"fetchDelays", "writeDelays", "fetchMachines", "writeMachines"}
  /\ aux' = "raised"
  /\ basis' = NoVersion
  /\ IF aux \in {"writeDelays", "writeMachines"} THEN Release ELSE UNCHANGED lock
  /\ UNCHANGED <<loopVars, jobVars, status, dbVars, published>>

(* The status a provider ends a cycle with.  Plausible bugs:               *)
(* static_failures is ignored; the except clause sets no status.           *)
FinalStateForgetful == IF aux = "raised" THEN "failed" ELSE "valid"
FinalStateSilent ==
  IF aux = "raised" THEN status[Current]
  ELSE IF Current \in failures THEN "failed" ELSE "valid"
FinalState == IF aux = "raised" \/ Current \in failures THEN "failed" ELSE "valid"

(* The loop of refresh_all moves on.  Plausible bugs: past the last one;   *)
(* not before the refresh has succeeded.                                   *)
AfterProviderPastTheEnd ==
  pc' = (IF at = Len(Providers) THEN "sleep" ELSE pc) /\ at' = at + 1
AfterProviderRetrying ==
  IF aux # "raised" /\ at = Len(Providers)
  THEN pc' = "sleep" /\ at' = 0
  ELSE pc' = pc /\ at' = IF aux = "raised" THEN at ELSE at + 1
AfterProvider ==
  IF at = Len(Providers) THEN pc' = "sleep" /\ at' = 0
                         ELSE pc' = pc /\ at' = at + 1

(* refresh_all resumes: the provider's final status, then the next one.    *)
FinishProvider ==
  /\ pc = "aux"
  /\ aux \in {"returned", "raised"}
  /\ aux' = "off"
  /\ Report(FinalState)
  /\ AfterProvider
  /\ UNCHANGED <<due, failures, jobVars, lock, basis, dbVars, published>>

(* asyncio.sleep is over: refresh_all is called again.                     *)
Wake ==
  /\ pc = "sleep"
  /\ pc' = "ensure" /\ at' = 1
  /\ UNCHANGED <<due, failures, jobVars, lock, auxVars, status, dbVars,
                 published>>

-----------------------------------------------------------------------------
(* The environment.                                                        *)

(* static_refresh_seconds have passed since the last install.              *)
ScheduleExpires(s) ==
  /\ stamp[s] = "fresh"
  /\ stamp' = [stamp EXCEPT ![s] = "stale"]
  /\ UNCHANGED <<loopVars, jobVars, lock, auxVars, status, schedule, overlay,
                 machines, published>>

(* The agency publishes new archives.                                      *)
Publish(s) ==
  /\ published[s] < MaxVersion
  /\ published' = [published EXCEPT ![s] = @ + 1]
  /\ UNCHANGED <<loopVars, jobVars, lock, auxVars, status, dbVars>>

(* The service is killed at any point and started again: only committed    *)
(* rows survive.                                                           *)
Restart ==
  /\ MayRestart
  /\ pc' = "ensure" /\ at' = 1 /\ due' = {} /\ failures' = {}
  /\ job' = [j \in Entries |-> "idle"]
  /\ pool' = "closed"
  /\ fetched' = [j \in Entries |-> NoVersion]
  /\ staged' = [s \in Slugs |-> NoVersion]
  /\ source' = [j \in Entries |-> NoVersion]
  /\ lock' = NoThread
  /\ aux' = "off" /\ basis' = NoVersion
  /\ status' = [s \in Slugs |-> "pending"]
  /\ UNCHANGED <<dbVars, published>>

-----------------------------------------------------------------------------
(* The coroutine moves on when a catalog lookup has ended.                 *)
CatalogStep == SubmitBuild \/ ResolveFails \/ SubmitToBrokenPool

LoopStep ==
  \/ EnsureProvider \/ FindDueProviders \/ GatherOutcomes
  \/ BeginAuxiliary \/ FinishProvider \/ Wake

CoroutineStep == LoopStep \/ CatalogStep

JobStep(j) ==
  \/ BuildStarts(j) \/ BuildOpens(j) \/ BuildDownloads(j)
  \/ BuildCommits(j) \/ BuildRaises(j)
  \/ InstallRequested(j) \/ InstallAttaches(j) \/ AttachRaises(j)
  \/ InstallCommits(j) \/ InstallRaises(j) \/ InstallTaskFails(j)

AuxiliaryStep ==
  \/ DelaysDownloaded \/ DelaysComputed \/ DelaysCommit
  \/ MachinesDownloaded \/ MachinesBegin \/ MachinesCommit
  \/ AuxiliaryRaises

EnvironmentStep ==
  \/ LoopStorageFault \/ WorkerDies \/ Restart
  \/ \E s \in Slugs : ScheduleExpires(s) \/ Publish(s)

Next ==
  \/ CoroutineStep
  \/ \E j \in Entries : JobStep(j)
  \/ AuxiliaryStep
  \/ EnvironmentStep

Spec == Init /\ [][Next]_vars

(* The event loop and the threads keep running.  A download ends: each     *)
(* read of it has a timeout and _download bounds the bytes it may deliver, *)
(* so a build and an auxiliary refresh end as well, one way or the other.  *)
Fairness ==
  /\ WF_vars(LoopStep)
  /\ \A j \in Entries : WF_vars(JobStep(j))
  /\ WF_vars(AuxiliaryStep)

(* A catalog lookup ends.  The code does not see to that: static_feed_urls *)
(* of Olsztyn and Wroclaw read an answer of any length, and the timeout of *)
(* each read does not end an answer that never stops.  It is assumed of    *)
(* the two sites.                                                          *)
CatalogsAnswer == WF_vars(CatalogStep)

FairSpec == Spec /\ Fairness /\ CatalogsAnswer

-----------------------------------------------------------------------------
(* Safety.                                                                 *)

(* Served delays were computed from the schedule they are served with: the *)
(* real-time tables are emptied in the transaction that replaces the       *)
(* schedule, and no install comes between reading the schedule and writing *)
(* the delays (_install_static_database, replace_realtime_delays).         *)
OverlayMatchesSchedule ==
  \A s \in Slugs : overlay[s] # NoOverlay => overlay[s] = schedule[s]

(* A provider that /status calls valid has a schedule to serve: a failed   *)
(* first import is never overwritten by a successful auxiliary refresh.    *)
ValidHasSchedule ==
  \A s \in Slugs : status[s] = "valid" => schedule[s] # NoVersion

(* Between two cycles every provider rests in a final state, and one whose *)
(* static refresh failed in the cycle rests failed, whatever its auxiliary *)
(* data did (refresh_all).                                                 *)
RestingStatusIsFinal ==
  pc = "sleep" => \A s \in Slugs :
    /\ status[s] \in {"valid", "failed"}
    /\ s \in failures => status[s] = "failed"

(* _ensure_provider takes the write lock on the event loop, so a cycle     *)
(* that starts while a thread is still writing stops every request: the    *)
(* gather of the schedules and the awaits of the auxiliary refreshes       *)
(* exclude it.                                                             *)
EventLoopNeverBlocks == pc = "ensure" => lock = NoThread

(* An install reads a completely built database, and while its directory   *)
(* is there no build writes to it: no failed or unfinished build reaches   *)
(* an install, one of a provider selected twice does not start over on the *)
(* file another has built, and no file of a removed directory is opened.   *)
InstallHasSource ==
  \A j \in Entries : job[j] = "attached" =>
    /\ source[j] # NoVersion
    /\ pool # "closed" => staged[SlugAt(j)] = source[j]

(* write_connection: "an exclusive in-process writer connection".          *)
Writers == {j \in Entries : job[j] = "attached"}
             \cup {t \in {AuxThread} : aux \in {"writeDelays", "writeMachines"}}
WritersExcludeEachOther == \A t, u \in Writers : t = u

(* What /status says a provider's auxiliary data is doing is what the      *)
(* thread is doing, for the provider it is doing it for.                   *)
AuxiliaryIs(s, A) == pc = "aux" /\ s = Current /\ aux \in A
AuxiliaryStatusIsLive ==
  \A s \in Slugs :
    /\ status[s] = "downloading_delays" =>
         AuxiliaryIs(s, {"fetchDelays", "raised"})
    /\ status[s] = "updating_delays" =>
         AuxiliaryIs(s, {"lockDelays", "writeDelays", "returned", "raised"})
    /\ status[s] = "downloading_ticket_machines" =>
         AuxiliaryIs(s, {"fetchMachines", "raised"})
    /\ status[s] = "updating_ticket_machines" =>
         AuxiliaryIs(s, {"lockMachines", "writeMachines", "returned", "raised"})

(* No step, not even a crash and a restart, replaces a served schedule by  *)
(* an older publication or by nothing at all.                              *)
NoRegression == [][\A s \in Slugs : schedule'[s] >= schedule[s]]_vars

(* A failed refresh leaves the schedule that was being served, and a new   *)
(* one is served only together with its time stamp: otherwise the next     *)
(* cycle would not refresh it or would refresh it too early.               *)
ScheduleAndStampTogether ==
  [][\A s \in Slugs : schedule'[s] # schedule[s] => stamp'[s] = "fresh"]_vars

(* "Refresh all configured providers without one failure stopping the      *)
(* others" (docstring of refresh_all): the refresh task never ends.        *)
RefreshKeepsRunning == pc # "dead"

(* README: "Static GTFS is fetched at startup".                            *)
FetchedAtStartup ==
  [][\A s \in Slugs : status[s] = "pending" /\ status'[s] # "pending" =>
        status'[s] = "downloading_schedule"]_vars

(* The refresh cycle keeps what ProviderStore promises: every step is one  *)
(* of its steps or leaves the committed tables alone.                      *)
Store == INSTANCE ProviderStore
ImplementsStore == Store!Spec

-----------------------------------------------------------------------------
(* Liveness, while worker processes and storage hold out and the catalogs  *)
(* answer (CatalogsAnswer).                                                *)

(* Every cycle ends: no build, install or lock is waited for forever.      *)
EveryCycleEnds == (pc = "ensure") ~> (pc = "sleep")

(* A schedule that is due is refreshed, or its provider reported failed;   *)
(* a failure of one cycle is retried by the next.                          *)
DueIsRefreshed ==
  \A s \in Slugs :
    StaticRefreshDue(s) ~> (stamp[s] = "fresh" \/ status[s] = "failed")

(* The real-time rows that an install drops come back with the auxiliary   *)
(* refresh that follows, or the provider is reported failed.               *)
RealtimeGapCloses ==
  \A s \in RealtimeSlugs :
    (overlay[s] = NoOverlay) ~> (overlay[s] # NoOverlay \/ status[s] = "failed")

=============================================================================
