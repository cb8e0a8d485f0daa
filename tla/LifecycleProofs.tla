-------------------------- MODULE LifecycleProofs --------------------------
(***************************************************************************)
(* What holds when the service is shut down and started again, wherever    *)
(* the cancellation has met the refresh task.                              *)
(*                                                                         *)
(* A shutdown ends the coroutine only: the jobs and the auxiliary thread   *)
(* go on.  The parts of the invariant of RefreshServiceProofs that say     *)
(* what those owe to each other (PhaseInv, LockInv, BuildInv, StoreInv,    *)
(* CycleInv) survive it; StatusInv does not, since nobody sets the status  *)
(* of a cancelled task.  ShutdownInv adds what each stage of a shutdown    *)
(* has waited for.                                                         *)
(***************************************************************************)
EXTENDS Lifecycle, RefreshServiceProofs

ShutdownInv ==
  /\ life # "running" => pc = "dead"
  /\ pc = "dead" /\ life # "draining" => pool = "closed"
  /\ life = "exited" => ThreadsEnded

(* The invariant of the refresh cycle that a cancellation preserves.       *)
CycleIInv == TypeOK /\ PhaseInv /\ LockInv /\ BuildInv /\ StoreInv /\ CycleInv

LifeIInv == LifeTypeOK /\ CycleIInv /\ ShutdownInv

-----------------------------------------------------------------------------
(* The steps.                                                              *)

(* What goes on between a start and a shutdown.                            *)
GoesOn ==
  \/ CoroutineStep
  \/ \E j \in Entries : JobStep(j)
  \/ AuxiliaryStep
  \/ LoopStorageFault \/ WorkerDies
  \/ \E s \in Slugs : ScheduleExpires(s) \/ Publish(s)

(* A step of the life is a step of the refresh cycle, a cancellation or    *)
(* its consequence, the end of a lookup that nobody awaits, or a start.    *)
LEMMA LifeSteps ==
  ASSUME [LifeNext]_allVars
  PROVE  \/ GoesOn /\ UNCHANGED lifeVars
         \/ ShutdownStep
         \/ ClosingStep
         \/ LookupEnds
         \/ Start
         \/ UNCHANGED allVars
<1>1. ASSUME NEW j \in Entries, LifeJobStep(j)
      PROVE  JobStep(j)
  BY <1>1 DEF LifeJobStep
<1> QED
  BY <1>1, Zenon DEF LifeNext, GoesOn

(* All of it but the shutdown are steps of the refresh cycle or of none.   *)
LEMMA GoesOnIsNext ==
  ASSUME GoesOn \/ LookupEnds \/ UNCHANGED allVars
  PROVE  [Next]_vars
BY Zenon DEF GoesOn, Next, EnvironmentStep, LookupEnds, allVars

(* A start is a restart of the refresh cycle.                              *)
LEMMA StartIsRestart == Start => [Next]_vars
BY Zenon DEF Start, Next, EnvironmentStep

(* The refresh cycle preserves its part of the invariant.                  *)
LEMMA CycleIInvStep ==
  ASSUME CycleIInv, [Next]_vars
  PROVE  CycleIInv'
BY TypeStep, PhaseStep, LockStep, BuildStep, StoreStep, CycleStep DEF CycleIInv

(* Cancelling the refresh task where it sleeps, awaits the auxiliary       *)
(* thread or has ended leaves jobs, threads and tables alone.              *)
LEMMA CancelOutsideStep ==
  ASSUME CycleIInv, CancelOutsideCycle
  PROVE  CycleIInv'
<1> USE DEF CycleIInv, CancelOutsideCycle, jobVars, poolVars, auxVars, dbVars
<1>1. TypeOK'
  BY DEF TypeOK
<1>2. PhaseInv'
  BY DEF PhaseInv
<1>3. LockInv'
  BY DEF LockInv
<1>4. BuildInv'
  BY DEF BuildInv, InstallHasSource
<1>5. StoreInv'
  BY DEF StoreInv, OverlayMatchesSchedule, Current
<1>6. CycleInv'
  BY DEF CycleInv
<1> QED
  BY <1>1, <1>2, <1>3, <1>4, <1>5, <1>6

(* So does cancelling it during a catalog lookup.                          *)
LEMMA CancelResolvingStep ==
  ASSUME CycleIInv, CancelResolving
  PROVE  CycleIInv'
<1> USE DEF CycleIInv, CancelResolving, jobVars, poolVars, auxVars, dbVars
<1>1. TypeOK'
  BY DEF TypeOK
<1>2. PhaseInv'
  BY DEF PhaseInv
<1>3. LockInv'
  BY DEF LockInv
<1>4. BuildInv'
  BY DEF BuildInv, InstallHasSource
<1>5. StoreInv'
  BY DEF StoreInv, OverlayMatchesSchedule, Current
<1>6. CycleInv'
  BY DEF CycleInv
<1> QED
  BY <1>1, <1>2, <1>3, <1>4, <1>5, <1>6

(* Jobs that are dropped, because their install task is cancelled or their *)
(* build has not been handed to a worker, disturb nothing: no transaction  *)
(* is among them.                                                          *)
LEMMA DroppingStep ==
  ASSUME CycleIInv, pc' = "dead",
         UNCHANGED <<at, due, failures, poolVars, lock, auxVars, status,
                     dbVars, published>>,
         job' \in [Entries -> JobStates],
         \A j \in Entries :
           job'[j] = job[j] \/ (job'[j] = "idle" /\ job[j] # "attached")
  PROVE  CycleIInv'
<1> USE DEF CycleIInv, poolVars, auxVars, dbVars
<1>1. TypeOK'
  BY DEF TypeOK
<1>2. PhaseInv'
  BY DEF PhaseInv, InWorker, InTransaction
<1>3. LockInv'
  BY DEF LockInv
<1>4. BuildInv'
  BY DEF BuildInv, InstallHasSource, InTransaction
<1>5. StoreInv'
  BY DEF StoreInv, OverlayMatchesSchedule, Current
<1>6. CycleInv'
  BY DEF CycleInv
<1> QED
  BY <1>1, <1>2, <1>3, <1>4, <1>5, <1>6

(* Cancelling the refresh task during the gather.                          *)
LEMMA CancelGatheringStep ==
  ASSUME CycleIInv, CancelGathering
  PROVE  CycleIInv'
<1>1. PICK last \in 0 .. Len(Providers) :
        job' = [j \in Entries |-> IF job[j] = "queued" /\ j > last THEN "idle"
                                  ELSE Dropped(j)]
  BY DEF CancelGathering
<1>2. job' \in [Entries -> JobStates]
  <2>1. job \in [Entries -> JobStates] /\ "idle" \in JobStates
    BY DEF CycleIInv, TypeOK, JobStates
  <2> QED
    BY <1>1, <2>1 DEF Dropped
<1>3. \A j \in Entries :
        job'[j] = job[j] \/ (job'[j] = "idle" /\ job[j] # "attached")
  BY <1>1 DEF Dropped
<1> QED
  BY <1>2, <1>3, DroppingStep DEF CancelGathering

(* The closing of a cancelled pool, of the tasks that are left and of the  *)
(* process.                                                                *)
LEMMA ClosingCycleStep ==
  ASSUME CycleIInv, ShutdownInv, ClosingStep
  PROVE  CycleIInv'
<1>1. CASE LeavePool
  <2>1. \A j \in Entries : job[j] \notin InWorker \cup {"queued"}
    BY <1>1 DEF LeavePool, BuildsEnded, BuildsRunning
  <2>2. pc = "dead"
    BY <1>1 DEF LeavePool, ShutdownInv
  <2> USE <1>1, <2>1, <2>2 DEF CycleIInv, LeavePool, CloseDirectory, loopVars, auxVars, dbVars
  <2>3. TypeOK'
    <3>1. staged' \in [Slugs -> Versions]
      BY Constants DEF NoVersion
    <3> QED
      BY <3>1 DEF TypeOK
  <2>4. PhaseInv'
    BY DEF PhaseInv
  <2>5. LockInv'
    BY DEF LockInv
  <2>6. BuildInv'
    BY Constants DEF BuildInv, InstallHasSource, InTransaction, InWorker
  <2>7. StoreInv'
    BY DEF StoreInv, OverlayMatchesSchedule, Current
  <2>8. CycleInv'
    BY DEF CycleInv
  <2> QED
    BY <2>3, <2>4, <2>5, <2>6, <2>7, <2>8
<1>2. CASE CancelRemainingTasks
  <2>1. job' = [j \in Entries |-> Dropped(j)] /\ pc' = "dead"
    BY <1>2 DEF CancelRemainingTasks, ShutdownInv, loopVars
  <2>2. job' \in [Entries -> JobStates]
    <3>1. job \in [Entries -> JobStates] /\ "idle" \in JobStates
      BY DEF CycleIInv, TypeOK, JobStates
    <3> QED
      BY <2>1, <3>1 DEF Dropped
  <2>3. \A j \in Entries :
          job'[j] = job[j] \/ (job'[j] = "idle" /\ job[j] # "attached")
    BY <2>1 DEF Dropped
  <2> QED
    BY <1>2, <2>1, <2>2, <2>3, DroppingStep DEF CancelRemainingTasks, loopVars
<1>3. CASE Exit
  <2>1. UNCHANGED vars
    BY <1>3 DEF Exit
  <2> QED
    BY <2>1, CycleIInvStep
<1> QED
  BY <1>1, <1>2, <1>3 DEF ClosingStep

(* The life preserves the invariant of the refresh cycle.                  *)
LEMMA LifeCycleStep ==
  ASSUME CycleIInv, ShutdownInv, [LifeNext]_allVars
  PROVE  CycleIInv'
<1>1. CASE [Next]_vars
  BY <1>1, CycleIInvStep
<1>2. CASE ShutdownStep
  BY <1>2, CancelOutsideStep, CancelResolvingStep, CancelGatheringStep
     DEF ShutdownStep
<1>3. CASE ClosingStep
  BY <1>3, ClosingCycleStep
<1> QED
  BY <1>1, <1>2, <1>3, LifeSteps, GoesOnIsNext, StartIsRestart

(* Once the refresh task is gone the jobs and threads that are left can    *)
(* open no pool and wake no coroutine.                                     *)
LEMMA AfterTheTask ==
  ASSUME CycleIInv, GoesOn
  PROVE  /\ pc = "dead" => pc' = "dead" /\ (pool = "closed" => pool' = "closed")
         /\ pc # "dead" /\ pc' = "dead" => pool' = "closed"
<1>1. CASE CoroutineStep
  BY <1>1 DEF CoroutineStep, LoopStep, CatalogStep, EnsureProvider, FindDueProviders, SubmitBuild,
     ResolveFails, ContinueResolving, SubmitToBrokenPool, GatherOutcomes,
     CloseDirectory, BeginAuxiliary, FinishProvider, AfterProvider, Wake, CycleIInv, PhaseInv,
     loopVars
<1>2. ASSUME NEW j \in Entries, JobStep(j)
      PROVE  pc' = pc /\ pool' = pool
  BY <1>2 DEF JobStep, BuildStarts, BuildOpens, BuildDownloads, BuildCommits,
     BuildRaises, FailureSeen, InstallRequested, InstallAttaches, AttachRaises,
     InstallCommits, InstallRaises, Detach, InstallTaskFails, loopVars, poolVars
<1>3. CASE AuxiliaryStep
  BY <1>3 DEF AuxiliaryStep, DelaysDownloaded, DelaysComputed, DelaysCommit,
     MachinesDownloaded, MachinesBegin, MachinesCommit, AuxiliaryRaises,
     loopVars, jobVars, poolVars
<1>4. CASE LoopStorageFault
  BY <1>4 DEF LoopStorageFault, CycleIInv, PhaseInv, jobVars, poolVars
<1>5. CASE WorkerDies
  BY <1>5 DEF WorkerDies, FailureSeen, loopVars
<1>6. ASSUME NEW s \in Slugs, ScheduleExpires(s) \/ Publish(s)
      PROVE  pc' = pc /\ pool' = pool
  BY <1>6 DEF ScheduleExpires, Publish, loopVars, jobVars, poolVars
<1> QED
  BY <1>1, <1>2, <1>3, <1>4, <1>5, <1>6 DEF GoesOn

(* When the threads have been waited for and no install task can resume,   *)
(* no thread starts any more.                                              *)
LEMMA NoThreadStarts ==
  ASSUME CycleIInv, ShutdownInv, life = "exited",
         [LifeNext]_allVars, ~Start
  PROVE  ThreadsEnded'
<1> USE DEF ShutdownInv, ThreadsEnded, lifeVars
<1>1. CASE CoroutineStep /\ UNCHANGED lifeVars
  BY <1>1 DEF CoroutineStep, LoopStep, CatalogStep, EnsureProvider, FindDueProviders, SubmitBuild,
     ResolveFails, SubmitToBrokenPool, GatherOutcomes, BeginAuxiliary,
     FinishProvider, Wake, CycleIInv, PhaseInv
<1>2. ASSUME NEW j \in Entries, LifeJobStep(j), UNCHANGED lifeVars
      PROVE  ThreadsEnded'
  BY <1>2 DEF LifeJobStep, JobStep, BuildStarts, BuildOpens, BuildDownloads,
     BuildCommits, BuildRaises, FailureSeen, InstallRequested, InstallAttaches,
     AttachRaises, InstallCommits, InstallRaises, Detach, InstallTaskFails,
     CycleIInv, TypeOK, auxVars
<1>3. CASE AuxiliaryStep /\ UNCHANGED lifeVars
  BY <1>3 DEF AuxiliaryStep, DelaysDownloaded, DelaysComputed, DelaysCommit,
     MachinesDownloaded, MachinesBegin, MachinesCommit, AuxiliaryRaises
<1>4. CASE (LoopStorageFault \/ WorkerDies) /\ UNCHANGED lifeVars
  BY <1>4 DEF LoopStorageFault, WorkerDies, FailureSeen
<1>5. ASSUME NEW s \in Slugs, ScheduleExpires(s) \/ Publish(s),
             UNCHANGED lifeVars
      PROVE  ThreadsEnded'
  BY <1>5 DEF ScheduleExpires, Publish, jobVars, auxVars
<1>6. CASE ShutdownStep \/ ClosingStep \/ LookupEnds
  BY <1>6 DEF ShutdownStep, ClosingStep, CancelOutsideCycle, CancelResolving,
     CancelGathering, LeavePool, CloseDirectory, CancelRemainingTasks, Exit,
     LookupEnds
<1>7. CASE UNCHANGED allVars
  BY <1>7 DEF allVars, vars, jobVars, auxVars
<1> QED
  BY <1>1, <1>2, <1>3, <1>4, <1>5, <1>6, <1>7 DEF LifeNext

(* Each stage of a shutdown keeps what the stages before it waited for.    *)
LEMMA ShutdownInvStep ==
  ASSUME CycleIInv, ShutdownInv, [LifeNext]_allVars
  PROVE  ShutdownInv'
<1>1. CASE Start
  BY <1>1 DEF Start, Restart, ShutdownInv
<1>2. CASE ShutdownStep
  BY <1>2 DEF ShutdownStep, CancelOutsideCycle, CancelResolving,
     CancelGathering, ShutdownInv, CycleIInv, PhaseInv, jobVars, poolVars
<1>3. CASE ClosingStep
  BY <1>3 DEF ClosingStep, LeavePool, CloseDirectory, CancelRemainingTasks, Exit, ShutdownInv,
     ThreadsEnded, loopVars, poolVars, vars, jobVars, auxVars
<1>4. CASE GoesOn /\ UNCHANGED lifeVars /\ ~Start
  BY <1>4, AfterTheTask, NoThreadStarts DEF ShutdownInv, lifeVars
<1>5. CASE UNCHANGED allVars
  BY <1>5 DEF allVars, lifeVars, vars, loopVars, jobVars, poolVars, auxVars,
     ShutdownInv, ThreadsEnded
<1>6. CASE LookupEnds
  BY <1>6 DEF LookupEnds, ShutdownInv, ThreadsEnded, vars, loopVars, jobVars,
     poolVars, auxVars
<1> QED
  BY <1>1, <1>2, <1>3, <1>4, <1>5, <1>6, LifeSteps

-----------------------------------------------------------------------------
(* The theorems.                                                           *)

(* The service starts with the invariant.                                  *)
LEMMA LifeInitInv == LifeInit => LifeIInv
<1> SUFFICES ASSUME LifeInit PROVE LifeIInv
  OBVIOUS
<1>1. IInv
  BY InitIInv DEF LifeInit
<1>2. CycleIInv /\ TypeOK
  BY <1>1 DEF IInv, CycleIInv
<1>3. ShutdownInv
  BY DEF LifeInit, Init, ShutdownInv
<1> QED
  BY <1>2, <1>3 DEF LifeIInv, LifeTypeOK, LifeInit

(* The strengthened invariant holds in every reachable state of the life.  *)
THEOREM LifeInvariance == LifeSpec => []LifeIInv
<1>1. LifeInit => LifeIInv
  BY LifeInitInv
<1>2. LifeIInv /\ [LifeNext]_allVars => LifeIInv'
  <2> SUFFICES ASSUME LifeIInv, [LifeNext]_allVars PROVE LifeIInv'
    OBVIOUS
  <2>1. CycleIInv'
    BY LifeCycleStep DEF LifeIInv
  <2>2. ShutdownInv'
    BY ShutdownInvStep DEF LifeIInv
  <2>3. /\ life' \in {"running", "draining", "closing", "joining", "exited"}
        /\ orphans' \subseteq Entries
        /\ lookup' \in BOOLEAN
    BY LifeSteps DEF LifeIInv, LifeTypeOK, ShutdownStep, ClosingStep, Start,
       CancelOutsideCycle, CancelResolving, CancelGathering, LeavePool,
       CancelRemainingTasks, Exit, LookupEnds, Unsettled, lifeVars, allVars
  <2> QED
    BY <2>1, <2>2, <2>3 DEF LifeIInv, LifeTypeOK, CycleIInv
<1> QED
  BY <1>1, <1>2, PTL DEF LifeSpec

(* Every variable keeps its type through cancellations and restarts.       *)
THEOREM LifeTypeCorrect == LifeSpec => []LifeTypeOK
<1>1. LifeIInv => LifeTypeOK
  BY DEF LifeIInv
<1> QED
  BY <1>1, LifeInvariance, PTL

(* The directory of staged databases outlives every build that writes in   *)
(* it.                                                                     *)
THEOREM DirectoryTheorem == LifeSpec => []BuildsHaveDirectory
<1>1. LifeIInv => BuildsHaveDirectory
  BY DEF LifeIInv, CycleIInv, PhaseInv, BuildsHaveDirectory, BuildsRunning
<1> QED
  BY <1>1, LifeInvariance, PTL

(* A service that has exited holds no lock, no transaction and no worker.  *)
THEOREM ExitTheorem == LifeSpec => []NothingHeldAtExit
<1>1. LifeIInv => NothingHeldAtExit
  <2> SUFFICES ASSUME LifeIInv, life = "exited"
               PROVE  lock = NoThread /\ Writers = {} /\ ~BuildsRunning
    BY DEF NothingHeldAtExit
  <2>1. ThreadsEnded /\ pool = "closed"
    BY DEF LifeIInv, ShutdownInv
  <2>2. \A j \in Entries : job[j] # "attached" /\ lock # j
    BY <2>1 DEF ThreadsEnded, LifeIInv, CycleIInv, LockInv
  <2>3. aux \notin {"writeDelays", "writeMachines"} /\ lock # AuxThread
    BY <2>1 DEF ThreadsEnded, LifeIInv, CycleIInv, LockInv
  <2>4. lock = NoThread
    <3>1. lock \in 0 .. AuxThread
      BY DEF LifeIInv, CycleIInv, TypeOK
    <3> QED
      BY <2>2, <2>3, <3>1, Constants DEF AuxThread, NoThread
  <2>5. Writers = {}
    BY <2>2, <2>3 DEF Writers
  <2>6. ~BuildsRunning
    BY <2>1 DEF LifeIInv, CycleIInv, PhaseInv, BuildsRunning
  <2> QED
    BY <2>4, <2>5, <2>6
<1> QED
  BY <1>1, LifeInvariance, PTL

(* An install that a shutdown has met half way, its directory removed      *)
(* under it, copies the completely built database that it has opened, and  *)
(* none opens a database of a directory that is gone.                      *)
THEOREM LifeSourceTheorem == LifeSpec => []InstallHasSource
<1>1. LifeIInv => InstallHasSource
  BY DEF LifeIInv, CycleIInv, BuildInv, InstallHasSource
<1> QED
  BY <1>1, LifeInvariance, PTL

(* Writers exclude each other also while the threads of a cancelled task   *)
(* are waited for.                                                         *)
THEOREM LifeWritersTheorem == LifeSpec => []WritersExcludeEachOther
<1>1. LifeIInv => WritersExcludeEachOther
  BY DEF LifeIInv, CycleIInv, LockInv, Writers, WritersExcludeEachOther
<1> QED
  BY <1>1, LifeInvariance, PTL

(* A shutdown and what it leaves running commit nothing but what the store *)
(* promises: cancellations leave the tables alone, and the threads that    *)
(* outlive the task take the steps of the refresh cycle.                   *)
THEOREM LifeStoreTheorem == LifeSpec => ImplementsStore
<1>1. LifeInit => Store!Init
  BY InitImplements DEF LifeInit
<1>2. LifeIInv /\ [LifeNext]_allVars => [Store!Next]_(Store!vars)
  <2> SUFFICES ASSUME LifeIInv, [LifeNext]_allVars
               PROVE  [Store!Next]_(Store!vars)
    OBVIOUS
  <2>1. CASE [Next]_vars
    BY <2>1, StepImplements DEF LifeIInv, CycleIInv
  <2>2. CASE ShutdownStep \/ ClosingStep
    BY <2>2 DEF ShutdownStep, ClosingStep, CancelOutsideCycle, CancelResolving,
       CancelGathering, LeavePool, CloseDirectory, CancelRemainingTasks, Exit, vars, dbVars,
       Store!vars
  <2> QED
    BY <2>1, <2>2, LifeSteps, GoesOnIsNext, StartIsRestart
<1> QED
  BY <1>1, <1>2, LifeInvariance, PTL DEF LifeSpec, ImplementsStore, Store!Spec

=============================================================================
