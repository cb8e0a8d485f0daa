----------------------------- MODULE Lifecycle -----------------------------
(***************************************************************************)
(* The refresh cycle within the life of the service: the lifespan of       *)
(* app/main.py cancels the refresh task when the server shuts down.  What  *)
(* the task has started may outlive it: builds in the worker pool, install *)
(* tasks and their threads, the auxiliary thread.                          *)
(*                                                                         *)
(* Cancellation reaches the task where it waits.  It is no Exception, so   *)
(* no except clause records it and no status is set.  Inside the with      *)
(* statement of _refresh_static_feeds it closes the pool, which waits for  *)
(* the builds on the event loop: until then no task runs at all.           *)
(***************************************************************************)
EXTENDS RefreshService

VARIABLES
  life,     \* running; draining: the with statement waits for the pool;
            \* closing: lifespan has ended; joining: all tasks are
            \* cancelled and threads waited for; exited
  orphans,  \* jobs whose install task has been cancelled
  lookup    \* does the thread of a cancelled catalog lookup still run?

lifeVars == <<life, orphans, lookup>>

-----------------------------------------------------------------------------
Unsettled == {j \in Entries : job[j] \notin Settled}
BuildsRunning == \E j \in Entries : job[j] \in {"queued"} \cup InWorker

(* What a shutdown waits for.  Plausible bugs: the pool is shut down with  *)
(* wait=False; the threads are daemons.                                    *)
NotWaited == TRUE
BuildsEnded == ~BuildsRunning
ThreadsEnded ==
  /\ \A j \in Entries : job[j] \notin {"locking", "attached"}
  /\ aux \in {"off", "returned", "raised"}
  /\ ~lookup

LifeInit == Init /\ life = "running" /\ orphans = {} /\ lookup = FALSE

(* A build has ended or a thread has raised, but the install task it is    *)
(* told to is cancelled.                                                   *)
Dropped(j) == IF job[j] \in {"built", "raised"} THEN "idle" ELSE job[j]

(* task.cancel() while the task sleeps or awaits the auxiliary thread, or  *)
(* is over already: awaiting it returns or raises at once.  A thread that  *)
(* has started goes on.                                                    *)
CancelOutsideCycle ==
  /\ life = "running"
  /\ pc \in {"sleep", "aux", "dead"}
  /\ pc' = "dead" /\ life' = "closing"
  /\ UNCHANGED <<at, due, failures, jobVars, lock, auxVars, status, dbVars,
                 published, orphans, lookup>>

(* task.cancel() during a catalog lookup: the install tasks created so far *)
(* are not cancelled with it, and the thread of the lookup goes on.        *)
CancelResolving ==
  /\ life = "running"
  /\ pc = "resolve"
  /\ pc' = "dead" /\ life' = "draining" /\ lookup' = TRUE
  /\ UNCHANGED <<at, due, failures, jobVars, lock, auxVars, status, dbVars,
                 published, orphans>>

(* task.cancel() during gather cancels every install task, and with it the *)
(* builds that have not been handed to the worker processes yet.           *)
CancelGathering ==
  /\ life = "running"
  /\ pc = "gather"
  /\ pc' = "dead" /\ life' = "draining"
  /\ orphans' = Unsettled
  /\ \E last \in 0 .. Len(Providers) :
       job' = [j \in Entries |-> IF job[j] = "queued" /\ j > last THEN "idle"
                                 ELSE Dropped(j)]
  /\ UNCHANGED <<at, due, failures, poolVars, lock, auxVars,
                 status, dbVars, published, lookup>>

(* The pool has ended its builds: its processes are joined, the directory  *)
(* is removed and the task is over.  An install may still be running.      *)
LeavePool ==
  /\ life = "draining"
  /\ BuildsEnded
  /\ CloseDirectory
  /\ life' = "closing"
  /\ UNCHANGED <<loopVars, job, lock, auxVars, status, dbVars, published,
                 orphans, lookup>>

(* asyncio.run cancels the tasks that are left.                            *)
CancelRemainingTasks ==
  /\ life = "closing"
  /\ life' = "joining"
  /\ orphans' = Unsettled
  /\ job' = [j \in Entries |-> Dropped(j)]
  /\ UNCHANGED <<loopVars, poolVars, lock, auxVars, status,
                 dbVars, published, lookup>>

(* The threads of the default executor are joined and the process ends.    *)
Exit ==
  /\ life = "joining"
  /\ ThreadsEnded
  /\ life' = "exited"
  /\ UNCHANGED <<vars, orphans, lookup>>

(* The catalog lookup that nobody awaits any more returns or raises.       *)
LookupEnds ==
  /\ lookup
  /\ lookup' = FALSE
  /\ UNCHANGED <<vars, life, orphans>>

(* The service is started, after its exit or after having been killed.     *)
Start == Restart /\ life' = "running" /\ orphans' = {} /\ lookup' = FALSE

ShutdownStep == CancelOutsideCycle \/ CancelResolving \/ CancelGathering
ClosingStep == LeavePool \/ CancelRemainingTasks \/ Exit

(* Install tasks run on the event loop, builds and threads do not.         *)
LifeJobStep(j) ==
  /\ job[j] \in {"built", "raised"} =>
       life \in {"running", "closing"} /\ j \notin orphans
  /\ JobStep(j)

LifeNext ==
  \/ /\ \/ CoroutineStep
        \/ \E j \in Entries : LifeJobStep(j)
        \/ AuxiliaryStep
        \/ LoopStorageFault \/ WorkerDies
        \/ \E s \in Slugs : ScheduleExpires(s) \/ Publish(s)
     /\ UNCHANGED lifeVars
  \/ ShutdownStep \/ ClosingStep \/ LookupEnds \/ Start

allVars == <<vars, lifeVars>>

LifeSpec == LifeInit /\ [][LifeNext]_allVars

(* Nobody has to shut the service down or to start it.  The last two parts *)
(* are CatalogsAnswer, for a lookup that is awaited and for one that is    *)
(* not.                                                                    *)
FairLifeSpec ==
  /\ LifeSpec
  /\ WF_allVars(LoopStep /\ UNCHANGED lifeVars)
  /\ \A j \in Entries : WF_allVars(LifeJobStep(j) /\ UNCHANGED lifeVars)
  /\ WF_allVars(AuxiliaryStep /\ UNCHANGED lifeVars)
  /\ WF_allVars(ClosingStep)
  /\ WF_allVars(CatalogStep /\ UNCHANGED lifeVars)
  /\ WF_allVars(LookupEnds)

-----------------------------------------------------------------------------
(* The variables of the life stay within their types, as do those of the   *)
(* refresh cycle when it is cancelled.                                     *)
LifeTypeOK ==
  /\ TypeOK
  /\ life \in {"running", "draining", "closing", "joining", "exited"}
  /\ orphans \subseteq Entries
  /\ lookup \in BOOLEAN

(* No build runs, or waits to run, once the directory of staged databases  *)
(* is gone: not after a cycle, a broken pool or a cancelled task.          *)
BuildsHaveDirectory == pool = "closed" => ~BuildsRunning

(* When the service has shut down, no transaction is open, nobody holds    *)
(* the write lock and no worker process is left behind.                    *)
NothingHeldAtExit ==
  life = "exited" => lock = NoThread /\ Writers = {} /\ ~BuildsRunning

(* A shutdown that has begun comes to its end, wherever it has met the     *)
(* refresh task: in gather or a lookup, where the blocked event loop waits *)
(* for nothing that needs the event loop; asleep or over; or awaiting the  *)
(* auxiliary thread, whose end and whose lock the exit waits for.          *)
ShutdownCompletes ==
  life \notin {"running", "exited"} ~> life \in {"exited", "running"}

=============================================================================
