------------------------ MODULE RefreshServiceProofs ------------------------
(***************************************************************************)
(* The safety properties of RefreshService hold for every list of          *)
(* providers, every number of workers and every choice of faults.          *)
(*                                                                         *)
(* The inductive invariant follows a cycle: which phase allows which job   *)
(* states (PhaseInv), who holds the write lock (LockInv), what a build has *)
(* in hand (BuildInv), what the committed tables owe to each other         *)
(* (StoreInv), what the loop has established about the providers it has    *)
(* dealt with (CycleInv), and what the statuses say (StatusInv).           *)
(***************************************************************************)
EXTENDS RefreshService, TLAPS

PhaseInv ==
  /\ pc \in {"ensure", "resolve", "aux"} => at \in Entries
  /\ pc \notin {"resolve", "gather", "dead"} =>
       pool = "closed" /\ \A j \in Entries : job[j] = "idle"
  /\ pc \in {"resolve", "gather"} => pool # "closed"
  /\ pc = "resolve" => at \in due /\ \A j \in Entries : at <= j => job[j] = "idle"
  /\ \A j \in Entries : job[j] \in InWorker \cup {"queued"} => pool = "open"
  /\ aux # "off" => pc \in {"aux", "dead"} /\ at \in Entries

LockInv ==
  /\ \A j \in Entries : job[j] = "attached" <=> lock = j
  /\ aux \in {"writeDelays", "writeMachines"} <=> lock = AuxThread

BuildInv ==
  /\ pool = "closed" => \A s \in Slugs : staged[s] = NoVersion
  /\ \A j \in Entries : job[j] \in {"built", "locking"} /\ pool # "closed" =>
       staged[SlugAt(j)] # NoVersion
  /\ InstallHasSource
  /\ \A j \in Entries : job[j] \in InTransaction =>
       staged[SlugAt(j)] = NoVersion
  /\ \A j, k \in Entries :
       job[j] \in InTransaction /\ job[k] \in InTransaction
         /\ SlugAt(j) = SlugAt(k) => j = k
  /\ \A j \in Entries : job[j] = "importing" =>
       /\ fetched[j] # NoVersion
       /\ schedule[SlugAt(j)] <= fetched[j]
       /\ fetched[j] <= published[SlugAt(j)]

StoreInv ==
  /\ \A s \in Slugs : published[s] # NoVersion /\ schedule[s] <= published[s]
  /\ \A s \in Slugs : staged[s] # NoVersion =>
       schedule[s] <= staged[s] /\ staged[s] <= published[s]
  /\ \A j \in Entries : job[j] = "attached" =>
       schedule[SlugAt(j)] <= source[j] /\ source[j] <= published[SlugAt(j)]
  /\ \A s \in Slugs : stamp[s] \in {"fresh", "stale"} => schedule[s] # NoVersion
  /\ OverlayMatchesSchedule
  /\ aux = "writeDelays" => basis = schedule[Current]

CycleInv ==
  /\ \A j \in Entries : job[j] = "installed" => schedule[SlugAt(j)] # NoVersion
  /\ pc \in {"resolve", "gather"} => \A j \in Entries :
       /\ j \notin due => schedule[SlugAt(j)] # NoVersion
       /\ j \in due /\ (pc = "gather" \/ j < at) =>
            job[j] # "idle" \/ SlugAt(j) \in failures
  /\ pc = "aux" => \A s \in Slugs : s \notin failures => schedule[s] # NoVersion

Resting(s) ==
  /\ status[s] \in {"valid", "failed"}
  /\ s \in failures => status[s] = "failed"

StatusInv ==
  /\ aux # "off" => pc = "aux"
  /\ ValidHasSchedule
  /\ RestingStatusIsFinal
  /\ AuxiliaryStatusIsLive
  /\ pc = "aux" => \A k \in Entries :
       k < at => Resting(SlugAt(k)) \/ (SlugAt(k) = Current /\ aux # "off")

(* What every reachable state satisfies and every step preserves.          *)
IInv == TypeOK /\ PhaseInv /\ LockInv /\ BuildInv /\ StoreInv /\ CycleInv /\ StatusInv

-----------------------------------------------------------------------------
(* Facts about the constants and the phases, used throughout.              *)

(* The list is not empty, its positions are numbers and its members slugs. *)
LEMMA Constants ==
  /\ Len(Providers) \in Nat \ {0}
  /\ \A j \in Entries : j \in Nat \ {0} /\ SlugAt(j) \in Slugs
  /\ \A s \in Slugs : \E j \in Entries : SlugAt(j) = s
  /\ Entries = 1 .. Len(Providers)
  /\ 0 \in Versions /\ 1 \in Versions /\ Versions \subseteq Nat
  /\ AuxThread \in Nat /\ AuxThread \notin Entries /\ AuxThread # NoThread
  /\ NoThread \notin Entries
<1>1. Len(Providers) \in Nat \ {0}
  BY ProvidersAssumption
<1>2. \A j \in Entries : j \in Nat \ {0} /\ SlugAt(j) \in Slugs
  <2>1. Providers \in [1 .. Len(Providers) -> Slugs]
    BY ProvidersAssumption
  <2> QED
    BY <1>1, <2>1 DEF Entries, SlugAt
<1>3. \A s \in Slugs : \E j \in Entries : SlugAt(j) = s
  BY ProvidersAssumption DEF Entries, SlugAt
<1>4. 0 \in Versions /\ 1 \in Versions /\ Versions \subseteq Nat
  BY BoundsAssumption DEF Versions
<1>5. /\ AuxThread \in Nat /\ AuxThread \notin Entries /\ AuxThread # NoThread
      /\ NoThread \notin Entries
  BY <1>1 DEF AuxThread, Entries, NoThread
<1> QED
  BY <1>1, <1>2, <1>3, <1>4, <1>5 DEF Entries

(* Moving on in the list of due providers leads to a position of the list  *)
(* or to the gather, and changes the status of one provider at most.       *)
LEMMA Continue ==
  ASSUME NEW D \in SUBSET Entries, NEW k, NEW st \in [Slugs -> States],
         ContinueResolving(D, k, st)
  PROVE  /\ pc' \in {"resolve", "gather"}
         /\ at' \in 0 .. Len(Providers)
         /\ status' \in [Slugs -> States]
<1>1. CASE \E j \in D : /\ pc' = "resolve" /\ at' = j
                        /\ status' = [st EXCEPT ![SlugAt(j)] = "downloading_schedule"]
  <2> PICK j \in D : /\ pc' = "resolve" /\ at' = j
                     /\ status' = [st EXCEPT ![SlugAt(j)] = "downloading_schedule"]
    BY <1>1
  <2>1. j \in Entries /\ "downloading_schedule" \in States
    BY DEF States
  <2>2. status' \in [Slugs -> States]
    BY <2>1
  <2> QED
    BY <2>1, <2>2, Constants
<1>2. CASE pc' = "gather" /\ at' = 0 /\ status' = st
  BY <1>2, Constants
<1> QED
  BY <1>1, <1>2 DEF ContinueResolving

-----------------------------------------------------------------------------
(* The initial states.                                                     *)

(* An idle service on an empty database satisfies every part of IInv.      *)
LEMMA InitIInv == Init => IInv
<1> SUFFICES ASSUME Init PROVE IInv
  OBVIOUS
<1> USE Constants
<1>1. TypeOK
  BY DEF Init, TypeOK, JobStates, States, AuxStates, NoVersion, NoThread
<1>2. PhaseInv
  BY DEF Init, PhaseInv, InWorker, InTransaction
<1>3. LockInv
  BY DEF Init, LockInv
<1>4. BuildInv
  BY DEF Init, BuildInv, InstallHasSource, InTransaction
<1>5. StoreInv
  BY DEF Init, StoreInv, OverlayMatchesSchedule, NoVersion
<1>6. CycleInv
  BY DEF Init, CycleInv
<1>7. StatusInv
  BY DEF Init, StatusInv, ValidHasSchedule, RestingStatusIsFinal,
         AuxiliaryStatusIsLive, AuxiliaryIs
<1> QED
  BY <1>1, <1>2, <1>3, <1>4, <1>5, <1>6, <1>7 DEF IInv

-----------------------------------------------------------------------------
(* The steps: what each part of the invariant is after every action.       *)

(* Every step keeps every variable in its type.                            *)
LEMMA TypeStep ==
  ASSUME TypeOK, PhaseInv, [Next]_vars
  PROVE  TypeOK'
<1> USE Constants DEF TypeOK, JobStates, States, AuxStates, NoVersion, NoThread,
           loopVars, jobVars, poolVars, auxVars, dbVars, Acquire, Release
<1>1. CASE EnsureProvider
  BY <1>1 DEF EnsureProvider, PhaseInv
<1>2. CASE FindDueProviders
  <2>1. due' \in SUBSET Entries /\ status \in [Slugs -> States]
    BY <1>2 DEF FindDueProviders
  <2>2. /\ pc' \in {"aux", "resolve", "gather"}
        /\ at' \in 0 .. Len(Providers)
        /\ status' \in [Slugs -> States]
    <3>1. CASE ContinueResolving(due', 0, status)
      BY <2>1, <3>1, Continue
    <3>2. CASE pc' = "aux" /\ at' = 1 /\ UNCHANGED status
      BY <2>1, <3>2
    <3> QED
      BY <1>2, <3>1, <3>2 DEF FindDueProviders
  <2> QED
    BY <1>2, <2>1, <2>2 DEF FindDueProviders
<1>3. CASE SubmitBuild
  <2> DEFINE told == [status EXCEPT ![SlugAt(at)] = "downloading_schedule"]
  <2>1. told \in [Slugs -> States] /\ due \in SUBSET Entries
    OBVIOUS
  <2> HIDE DEF told
  <2>2. /\ pc' \in {"resolve", "gather"}
        /\ at' \in 0 .. Len(Providers)
        /\ status' \in [Slugs -> States]
    BY <1>3, <2>1, Continue DEF SubmitBuild, told
  <2> QED
    BY <1>3, <2>1, <2>2 DEF SubmitBuild, PhaseInv
<1>4. CASE ResolveFails
  <2> DEFINE told == [status EXCEPT ![SlugAt(at)] = "failed"]
  <2>1. told \in [Slugs -> States] /\ due \in SUBSET Entries
    OBVIOUS
  <2> HIDE DEF told
  <2>2. /\ pc' \in {"resolve", "gather"}
        /\ at' \in 0 .. Len(Providers)
        /\ status' \in [Slugs -> States]
    BY <1>4, <2>1, Continue DEF ResolveFails, told
  <2> QED
    BY <1>4, <2>1, <2>2 DEF ResolveFails, PhaseInv
<1>5. CASE SubmitToBrokenPool
  BY <1>5 DEF SubmitToBrokenPool, CloseDirectory, PhaseInv
<1>6. CASE GatherOutcomes
  BY <1>6 DEF GatherOutcomes, CloseDirectory, AllEnded, Settled
<1>7. CASE BeginAuxiliary
  <2>1. aux' \in AuxStates
    BY <1>7 DEF BeginAuxiliary, ContinueToMachines
  <2>2. status' \in [Slugs -> States]
    BY <1>7 DEF BeginAuxiliary, ContinueToMachines, Report
  <2> QED
    BY <1>7, <2>1, <2>2 DEF BeginAuxiliary
<1>8. CASE FinishProvider
  BY <1>8 DEF FinishProvider, FinalState, AfterProvider, PhaseInv, Report,
   Current
<1>9. CASE Wake
  BY <1>9 DEF Wake
<1>10. ASSUME NEW j \in Entries, BuildStarts(j) PROVE TypeOK'
  BY <1>10 DEF BuildStarts
<1>11. ASSUME NEW j \in Entries, BuildOpens(j) PROVE TypeOK'
  BY <1>11 DEF BuildOpens
<1>12. ASSUME NEW j \in Entries, BuildDownloads(j) PROVE TypeOK'
  BY <1>12 DEF BuildDownloads
<1>13. ASSUME NEW j \in Entries, BuildCommits(j) PROVE TypeOK'
  BY <1>13 DEF BuildCommits
<1>14. ASSUME NEW j \in Entries, BuildRaises(j) PROVE TypeOK'
  BY <1>14 DEF BuildRaises, FailureSeen
<1>15. ASSUME NEW j \in Entries, InstallRequested(j) PROVE TypeOK'
  BY <1>15 DEF InstallRequested
<1>16. ASSUME NEW j \in Entries, InstallAttaches(j) PROVE TypeOK'
  BY <1>16 DEF InstallAttaches
<1>17. ASSUME NEW j \in Entries, AttachRaises(j) PROVE TypeOK'
  BY <1>17 DEF AttachRaises
<1>18. ASSUME NEW j \in Entries, InstallCommits(j) PROVE TypeOK'
  <2>1. /\ schedule' \in [Slugs -> Versions]
        /\ overlay' \in [Slugs -> Versions \cup {NoOverlay}]
    BY <1>18 DEF InstallCommits, EmptyRealtime
  <2>2. stamp' \in [Slugs -> {"noRow", "never", "fresh", "stale"}]
    BY <1>18 DEF InstallCommits, Restamp
  <2>3. job' \in [Entries -> JobStates] /\ source' \in [Entries -> Versions]
    BY <1>18 DEF InstallCommits, Detach
  <2> QED
    BY <1>18, <2>1, <2>2, <2>3 DEF InstallCommits, Detach
<1>19. ASSUME NEW j \in Entries, InstallRaises(j) PROVE TypeOK'
  BY <1>19 DEF InstallRaises, Detach
<1>20. ASSUME NEW j \in Entries, InstallTaskFails(j) PROVE TypeOK'
  BY <1>20 DEF InstallTaskFails
<1>21. CASE DelaysDownloaded
  BY <1>21 DEF DelaysDownloaded, PhaseInv, Report, Current
<1>22. CASE DelaysComputed
  BY <1>22 DEF DelaysComputed, PhaseInv, Current
<1>23. CASE DelaysCommit
  <2>1. aux' \in AuxStates
    BY <1>23 DEF DelaysCommit, ContinueToMachines
  <2>3. status' \in [Slugs -> States]
    BY <1>23 DEF DelaysCommit, ContinueToMachines, Report
  <2>2. overlay' \in [Slugs -> Versions \cup {NoOverlay}]
    BY <1>23 DEF DelaysCommit, PhaseInv, Current
  <2> QED
    BY <1>23, <2>1, <2>2, <2>3 DEF DelaysCommit
<1>24. CASE MachinesDownloaded
  BY <1>24 DEF MachinesDownloaded, PhaseInv, Report, Current
<1>25. CASE MachinesBegin
  BY <1>25 DEF MachinesBegin
<1>26. CASE MachinesCommit
  BY <1>26 DEF MachinesCommit, PhaseInv, Current
<1>27. CASE AuxiliaryRaises
  BY <1>27 DEF AuxiliaryRaises
<1>28. CASE LoopStorageFault
  BY <1>28 DEF LoopStorageFault
<1>29. CASE WorkerDies
  BY <1>29 DEF WorkerDies, FailureSeen
<1>30. CASE Restart
  BY <1>30 DEF Restart
<1>31. ASSUME NEW s \in Slugs, ScheduleExpires(s) PROVE TypeOK'
  BY <1>31 DEF ScheduleExpires
<1>32. ASSUME NEW s \in Slugs, Publish(s) PROVE TypeOK'
  <2>1. published[s] + 1 \in Versions
    BY <1>32, BoundsAssumption DEF Publish, Versions
  <2>2. published' \in [Slugs -> Versions]
    BY <1>32, <2>1 DEF Publish
  <2> QED
    BY <1>32, <2>2 DEF Publish
<1>33. CASE UNCHANGED vars
  BY <1>33 DEF vars, loopVars, jobVars, poolVars, auxVars, dbVars
<1> QED
  BY <1>1, <1>2, <1>3, <1>4, <1>5, <1>6, <1>7, <1>8, <1>9, <1>10, <1>11,
         <1>12, <1>13, <1>14, <1>15, <1>16, <1>17, <1>18, <1>19, <1>20,
         <1>21, <1>22, <1>23, <1>24, <1>25, <1>26, <1>27, <1>28, <1>29,
         <1>30, <1>31, <1>32, <1>33 DEF Next, CoroutineStep, LoopStep, CatalogStep, JobStep,
         AuxiliaryStep, EnvironmentStep

(* The phases of a cycle follow each other as PhaseInv says: no schedule   *)
(* job is left when the coroutine goes on to the auxiliary data.           *)
LEMMA PhaseStep ==
  ASSUME TypeOK, PhaseInv, [Next]_vars
  PROVE  PhaseInv'
<1> USE Constants DEF TypeOK, PhaseInv, InWorker, InTransaction,
           loopVars, jobVars, poolVars, auxVars, dbVars, Acquire, Release
<1>1. CASE EnsureProvider
  BY <1>1 DEF EnsureProvider
<1>2. CASE FindDueProviders
  BY <1>2 DEF FindDueProviders, ContinueResolving, NextOf
<1>3. CASE SubmitBuild
  BY <1>3 DEF SubmitBuild, ContinueResolving, NextOf
<1>4. CASE ResolveFails
  BY <1>4 DEF ResolveFails, ContinueResolving, NextOf
<1>5. CASE SubmitToBrokenPool
  BY <1>5 DEF SubmitToBrokenPool, CloseDirectory
<1>6. CASE GatherOutcomes
  BY <1>6 DEF GatherOutcomes, CloseDirectory, AllEnded, Settled
<1>7. CASE BeginAuxiliary
  BY <1>7 DEF BeginAuxiliary, FetchesDelays, ContinueToMachines
<1>8. CASE FinishProvider
  BY <1>8 DEF FinishProvider, AfterProvider
<1>9. CASE Wake
  BY <1>9 DEF Wake
<1>10. ASSUME NEW j \in Entries, BuildStarts(j) PROVE PhaseInv'
  BY <1>10 DEF BuildStarts
<1>11. ASSUME NEW j \in Entries, BuildOpens(j) PROVE PhaseInv'
  BY <1>11 DEF BuildOpens
<1>12. ASSUME NEW j \in Entries, BuildDownloads(j) PROVE PhaseInv'
  BY <1>12 DEF BuildDownloads
<1>13. ASSUME NEW j \in Entries, BuildCommits(j) PROVE PhaseInv'
  BY <1>13 DEF BuildCommits
<1>14. ASSUME NEW j \in Entries, BuildRaises(j) PROVE PhaseInv'
  BY <1>14 DEF BuildRaises, FailureSeen
<1>15. ASSUME NEW j \in Entries, InstallRequested(j) PROVE PhaseInv'
  BY <1>15 DEF InstallRequested
<1>16. ASSUME NEW j \in Entries, InstallAttaches(j) PROVE PhaseInv'
  BY <1>16 DEF InstallAttaches
<1>17. ASSUME NEW j \in Entries, AttachRaises(j) PROVE PhaseInv'
  BY <1>17 DEF AttachRaises
<1>18. ASSUME NEW j \in Entries, InstallCommits(j) PROVE PhaseInv'
  BY <1>18 DEF InstallCommits, Detach
<1>19. ASSUME NEW j \in Entries, InstallRaises(j) PROVE PhaseInv'
  BY <1>19 DEF InstallRaises, Detach
<1>20. ASSUME NEW j \in Entries, InstallTaskFails(j) PROVE PhaseInv'
  BY <1>20 DEF InstallTaskFails
<1>21. CASE DelaysDownloaded
  BY <1>21 DEF DelaysDownloaded
<1>22. CASE DelaysComputed
  BY <1>22 DEF DelaysComputed
<1>23. CASE DelaysCommit
  BY <1>23 DEF DelaysCommit, ContinueToMachines
<1>24. CASE MachinesDownloaded
  BY <1>24 DEF MachinesDownloaded
<1>25. CASE MachinesBegin
  BY <1>25 DEF MachinesBegin
<1>26. CASE MachinesCommit
  BY <1>26 DEF MachinesCommit
<1>27. CASE AuxiliaryRaises
  BY <1>27 DEF AuxiliaryRaises
<1>28. CASE LoopStorageFault
  BY <1>28 DEF LoopStorageFault
<1>29. CASE WorkerDies
  BY <1>29 DEF WorkerDies, FailureSeen
<1>30. CASE Restart
  BY <1>30 DEF Restart
<1>31. ASSUME NEW s \in Slugs, ScheduleExpires(s) PROVE PhaseInv'
  BY <1>31 DEF ScheduleExpires
<1>32. ASSUME NEW s \in Slugs, Publish(s) PROVE PhaseInv'
  BY <1>32 DEF Publish
<1>33. CASE UNCHANGED vars
  BY <1>33 DEF vars, loopVars, jobVars, poolVars, auxVars, dbVars
<1> QED
  BY <1>1, <1>2, <1>3, <1>4, <1>5, <1>6, <1>7, <1>8, <1>9, <1>10, <1>11,
         <1>12, <1>13, <1>14, <1>15, <1>16, <1>17, <1>18, <1>19, <1>20,
         <1>21, <1>22, <1>23, <1>24, <1>25, <1>26, <1>27, <1>28, <1>29,
         <1>30, <1>31, <1>32, <1>33 DEF Next, CoroutineStep, LoopStep, CatalogStep, JobStep,
         AuxiliaryStep, EnvironmentStep

(* The write lock is held exactly by the thread that is in a transaction.  *)
LEMMA LockStep ==
  ASSUME TypeOK, PhaseInv, LockInv, [Next]_vars
  PROVE  LockInv'
<1> USE Constants DEF TypeOK, LockInv, NoThread,
           loopVars, jobVars, poolVars, auxVars, dbVars, Acquire, Release
<1>1. CASE EnsureProvider
  BY <1>1 DEF EnsureProvider
<1>2. CASE FindDueProviders
  BY <1>2 DEF FindDueProviders
<1>3. CASE SubmitBuild
  BY <1>3 DEF SubmitBuild, PhaseInv
<1>4. CASE ResolveFails
  BY <1>4 DEF ResolveFails
<1>5. CASE SubmitToBrokenPool
  BY <1>5 DEF SubmitToBrokenPool, CloseDirectory
<1>6. CASE GatherOutcomes
  BY <1>6 DEF GatherOutcomes, CloseDirectory, AllEnded, Settled
<1>7. CASE BeginAuxiliary
  BY <1>7 DEF BeginAuxiliary, ContinueToMachines
<1>8. CASE FinishProvider
  BY <1>8 DEF FinishProvider
<1>9. CASE Wake
  BY <1>9 DEF Wake
<1>10. ASSUME NEW j \in Entries, BuildStarts(j) PROVE LockInv'
  BY <1>10 DEF BuildStarts
<1>11. ASSUME NEW j \in Entries, BuildOpens(j) PROVE LockInv'
  BY <1>11 DEF BuildOpens
<1>12. ASSUME NEW j \in Entries, BuildDownloads(j) PROVE LockInv'
  BY <1>12 DEF BuildDownloads
<1>13. ASSUME NEW j \in Entries, BuildCommits(j) PROVE LockInv'
  BY <1>13 DEF BuildCommits
<1>14. ASSUME NEW j \in Entries, BuildRaises(j) PROVE LockInv'
  BY <1>14 DEF BuildRaises, FailureSeen, InWorker, InTransaction
<1>15. ASSUME NEW j \in Entries, InstallRequested(j) PROVE LockInv'
  BY <1>15 DEF InstallRequested
<1>16. ASSUME NEW j \in Entries, InstallAttaches(j) PROVE LockInv'
  BY <1>16 DEF InstallAttaches
<1>17. ASSUME NEW j \in Entries, AttachRaises(j) PROVE LockInv'
  BY <1>17 DEF AttachRaises
<1>18. ASSUME NEW j \in Entries, InstallCommits(j) PROVE LockInv'
  BY <1>18 DEF InstallCommits, Detach
<1>19. ASSUME NEW j \in Entries, InstallRaises(j) PROVE LockInv'
  BY <1>19 DEF InstallRaises, Detach
<1>20. ASSUME NEW j \in Entries, InstallTaskFails(j) PROVE LockInv'
  BY <1>20 DEF InstallTaskFails
<1>21. CASE DelaysDownloaded
  BY <1>21 DEF DelaysDownloaded
<1>22. CASE DelaysComputed
  BY <1>22 DEF DelaysComputed
<1>23. CASE DelaysCommit
  BY <1>23 DEF DelaysCommit, ContinueToMachines, PhaseInv
<1>24. CASE MachinesDownloaded
  BY <1>24 DEF MachinesDownloaded
<1>25. CASE MachinesBegin
  BY <1>25 DEF MachinesBegin
<1>26. CASE MachinesCommit
  BY <1>26 DEF MachinesCommit, PhaseInv
<1>27. CASE AuxiliaryRaises
  BY <1>27 DEF AuxiliaryRaises, PhaseInv
<1>28. CASE LoopStorageFault
  BY <1>28 DEF LoopStorageFault
<1>29. CASE WorkerDies
  BY <1>29 DEF WorkerDies, FailureSeen, InWorker, InTransaction
<1>30. CASE Restart
  BY <1>30 DEF Restart
<1>31. ASSUME NEW s \in Slugs, ScheduleExpires(s) PROVE LockInv'
  BY <1>31 DEF ScheduleExpires
<1>32. ASSUME NEW s \in Slugs, Publish(s) PROVE LockInv'
  BY <1>32 DEF Publish
<1>33. CASE UNCHANGED vars
  BY <1>33 DEF vars, loopVars, jobVars, poolVars, auxVars, dbVars
<1> QED
  BY <1>1, <1>2, <1>3, <1>4, <1>5, <1>6, <1>7, <1>8, <1>9, <1>10, <1>11,
         <1>12, <1>13, <1>14, <1>15, <1>16, <1>17, <1>18, <1>19, <1>20,
         <1>21, <1>22, <1>23, <1>24, <1>25, <1>26, <1>27, <1>28, <1>29,
         <1>30, <1>31, <1>32, <1>33 DEF Next, CoroutineStep, LoopStep, CatalogStep, JobStep,
         AuxiliaryStep, EnvironmentStep

(* A staged database is written by one build at a time, once, and then kept *)
(* until the jobs that need it are done.                                   *)
LEMMA BuildStep ==
  ASSUME TypeOK, PhaseInv, LockInv, BuildInv, StoreInv, [Next]_vars
  PROVE  BuildInv'
<1> USE Constants DEF TypeOK, BuildInv, InstallHasSource, InWorker, InTransaction, NoVersion,
           loopVars, jobVars, poolVars, auxVars, dbVars, Acquire, Release
<1>1. CASE EnsureProvider
  BY <1>1 DEF EnsureProvider
<1>2. CASE FindDueProviders
  BY <1>2 DEF FindDueProviders, PhaseInv
<1>3. CASE SubmitBuild
  BY <1>3 DEF SubmitBuild, PhaseInv
<1>4. CASE ResolveFails
  BY <1>4 DEF ResolveFails
<1>5. CASE SubmitToBrokenPool
  BY <1>5 DEF SubmitToBrokenPool, CloseDirectory
<1>6. CASE GatherOutcomes
  BY <1>6 DEF GatherOutcomes, CloseDirectory, AllEnded, Settled
<1>7. CASE BeginAuxiliary
  BY <1>7 DEF BeginAuxiliary, ContinueToMachines
<1>8. CASE FinishProvider
  BY <1>8 DEF FinishProvider
<1>9. CASE Wake
  BY <1>9 DEF Wake
<1>10. ASSUME NEW j \in Entries, BuildStarts(j) PROVE BuildInv'
  BY <1>10 DEF BuildStarts
<1>11. ASSUME NEW j \in Entries, BuildOpens(j) PROVE BuildInv'
  BY <1>11 DEF BuildOpens
<1>12. ASSUME NEW j \in Entries, BuildDownloads(j) PROVE BuildInv'
  BY <1>12, SMTT(30) DEF BuildDownloads, StoreInv, Versions
<1>13. ASSUME NEW j \in Entries, BuildCommits(j) PROVE BuildInv'
  <2>1. \A k \in Entries : job[k] = "attached" =>
          SlugAt(k) # SlugAt(j) /\ pool = "open"
    BY <1>13 DEF BuildCommits, PhaseInv
  <2>2. fetched[j] # NoVersion /\ pool' = "open" /\ source' = source
    BY <1>13 DEF BuildCommits, PhaseInv
  <2> QED
    BY <1>13, <2>1, <2>2 DEF BuildCommits
<1>14. ASSUME NEW j \in Entries, BuildRaises(j) PROVE BuildInv'
  BY <1>14 DEF BuildRaises, FailureSeen
<1>15. ASSUME NEW j \in Entries, InstallRequested(j) PROVE BuildInv'
  BY <1>15 DEF InstallRequested
<1>16. ASSUME NEW j \in Entries, InstallAttaches(j) PROVE BuildInv'
  BY <1>16 DEF InstallAttaches
<1>17. ASSUME NEW j \in Entries, AttachRaises(j) PROVE BuildInv'
  BY <1>17 DEF AttachRaises
<1>18. ASSUME NEW j \in Entries, InstallCommits(j) PROVE BuildInv'
  <2>1. \A k \in Entries : job[k] = "importing" => SlugAt(k) # SlugAt(j)
    BY <1>18 DEF InstallCommits, PhaseInv
  <2>2. \A k \in Entries : job[k] = "importing" =>
          schedule'[SlugAt(k)] = schedule[SlugAt(k)]
    BY <1>18, <2>1 DEF InstallCommits
  <2>3. \A k \in Entries : job'[k] = job[k] \/ job'[k] = "installed"
    BY <1>18 DEF InstallCommits
  <2>4. \A k \in Entries : job[k] = "attached" => k = j
    BY <1>18 DEF InstallCommits, LockInv
  <2>5. UNCHANGED <<pool, fetched, staged, published>>
    BY <1>18 DEF InstallCommits, Detach
  <2>6. \A k \in Entries : job'[k] # "attached"
    BY <1>18, <2>4 DEF InstallCommits
  <2>7. \A k \in Entries : job'[k] = "importing" =>
          /\ fetched'[k] # NoVersion
          /\ schedule'[SlugAt(k)] <= fetched'[k]
          /\ fetched'[k] <= published'[SlugAt(k)]
    BY <2>2, <2>3, <2>5
  <2>8. /\ pool' = "closed" => \A s \in Slugs : staged'[s] = NoVersion
        /\ \A k \in Entries : job'[k] \in {"built", "locking"} /\ pool' # "closed" =>
             staged'[SlugAt(k)] # NoVersion
        /\ \A k \in Entries : job'[k] \in InTransaction =>
             staged'[SlugAt(k)] = NoVersion
    BY <2>3, <2>5
  <2>9. \A k, m \in Entries :
          job'[k] \in InTransaction /\ job'[m] \in InTransaction
            /\ SlugAt(k) = SlugAt(m) => k = m
    BY <2>3
  <2> QED
    BY <2>6, <2>7, <2>8, <2>9
<1>19. ASSUME NEW j \in Entries, InstallRaises(j) PROVE BuildInv'
  BY <1>19 DEF InstallRaises, Detach
<1>20. ASSUME NEW j \in Entries, InstallTaskFails(j) PROVE BuildInv'
  BY <1>20 DEF InstallTaskFails
<1>21. CASE DelaysDownloaded
  BY <1>21 DEF DelaysDownloaded
<1>22. CASE DelaysComputed
  BY <1>22 DEF DelaysComputed
<1>23. CASE DelaysCommit
  BY <1>23 DEF DelaysCommit, ContinueToMachines
<1>24. CASE MachinesDownloaded
  BY <1>24 DEF MachinesDownloaded
<1>25. CASE MachinesBegin
  BY <1>25 DEF MachinesBegin
<1>26. CASE MachinesCommit
  BY <1>26 DEF MachinesCommit
<1>27. CASE AuxiliaryRaises
  BY <1>27 DEF AuxiliaryRaises
<1>28. CASE LoopStorageFault
  BY <1>28 DEF LoopStorageFault
<1>29. CASE WorkerDies
  BY <1>29 DEF WorkerDies, FailureSeen
<1>30. CASE Restart
  BY <1>30 DEF Restart
<1>31. ASSUME NEW s \in Slugs, ScheduleExpires(s) PROVE BuildInv'
  BY <1>31 DEF ScheduleExpires
<1>32. ASSUME NEW s \in Slugs, Publish(s) PROVE BuildInv'
  <2>1. \A r \in Slugs : published[r] <= published'[r]
    BY <1>32 DEF Publish, Versions
  <2>2. \A j \in Entries : fetched[j] \in Nat
    BY DEF Versions
  <2>3. \A r \in Slugs : published[r] \in Nat /\ published'[r] \in Nat
    BY <1>32 DEF Publish, Versions
  <2> QED
    BY <1>32, <2>1, <2>2, <2>3 DEF Publish
<1>33. CASE UNCHANGED vars
  BY <1>33 DEF vars, loopVars, jobVars, poolVars, auxVars, dbVars
<1> QED
  BY <1>1, <1>2, <1>3, <1>4, <1>5, <1>6, <1>7, <1>8, <1>9, <1>10, <1>11,
         <1>12, <1>13, <1>14, <1>15, <1>16, <1>17, <1>18, <1>19, <1>20,
         <1>21, <1>22, <1>23, <1>24, <1>25, <1>26, <1>27, <1>28, <1>29,
         <1>30, <1>31, <1>32, <1>33 DEF Next, CoroutineStep, LoopStep, CatalogStep, JobStep,
         AuxiliaryStep, EnvironmentStep

(* The committed tables of a provider stay consistent with one another, and *)
(* no older schedule replaces a newer one.                                 *)
LEMMA StoreStep ==
  ASSUME TypeOK, PhaseInv, LockInv, BuildInv, StoreInv, [Next]_vars
  PROVE  StoreInv'
<1> USE Constants DEF TypeOK, StoreInv, OverlayMatchesSchedule, NoVersion, Current,
           loopVars, jobVars, poolVars, auxVars, dbVars, Acquire, Release
<1>1. CASE EnsureProvider
  BY <1>1 DEF EnsureProvider, PhaseInv
<1>2. CASE FindDueProviders
  BY <1>2 DEF FindDueProviders, PhaseInv
<1>3. CASE SubmitBuild
  BY <1>3 DEF SubmitBuild, PhaseInv
<1>4. CASE ResolveFails
  BY <1>4 DEF ResolveFails, PhaseInv
<1>5. CASE SubmitToBrokenPool
  BY <1>5 DEF SubmitToBrokenPool, CloseDirectory
<1>6. CASE GatherOutcomes
  BY <1>6 DEF GatherOutcomes, CloseDirectory, AllEnded, Settled, PhaseInv
<1>7. CASE BeginAuxiliary
  BY <1>7 DEF BeginAuxiliary, ContinueToMachines
<1>8. CASE FinishProvider
  BY <1>8 DEF FinishProvider, AfterProvider
<1>9. CASE Wake
  BY <1>9 DEF Wake, PhaseInv
<1>10. ASSUME NEW j \in Entries, BuildStarts(j) PROVE StoreInv'
  BY <1>10 DEF BuildStarts
<1>11. ASSUME NEW j \in Entries, BuildOpens(j) PROVE StoreInv'
  BY <1>11 DEF BuildOpens
<1>12. ASSUME NEW j \in Entries, BuildDownloads(j) PROVE StoreInv'
  BY <1>12 DEF BuildDownloads
<1>13. ASSUME NEW j \in Entries, BuildCommits(j) PROVE StoreInv'
  BY <1>13 DEF BuildCommits, BuildInv, InTransaction, Versions
<1>14. ASSUME NEW j \in Entries, BuildRaises(j) PROVE StoreInv'
  BY <1>14 DEF BuildRaises, FailureSeen
<1>15. ASSUME NEW j \in Entries, InstallRequested(j) PROVE StoreInv'
  BY <1>15 DEF InstallRequested
<1>16. ASSUME NEW j \in Entries, InstallAttaches(j) PROVE StoreInv'
  <2>1. /\ schedule[SlugAt(j)] <= staged[SlugAt(j)]
        /\ staged[SlugAt(j)] <= published[SlugAt(j)]
    BY <1>16 DEF InstallAttaches, BuildInv
  <2>2. source' = [source EXCEPT ![j] = staged[SlugAt(j)]]
    BY <1>16 DEF InstallAttaches
  <2> QED
    BY <1>16, <2>1, <2>2 DEF InstallAttaches
<1>17. ASSUME NEW j \in Entries, AttachRaises(j) PROVE StoreInv'
  BY <1>17 DEF AttachRaises
<1>18. ASSUME NEW j \in Entries, InstallCommits(j) PROVE StoreInv'
  <2>1. aux' # "writeDelays"
    BY <1>18 DEF InstallCommits, Detach, LockInv
  <2>2. /\ source[j] # NoVersion
        /\ schedule[SlugAt(j)] <= source[j] /\ source[j] <= published[SlugAt(j)]
        /\ staged[SlugAt(j)] # NoVersion => staged[SlugAt(j)] = source[j]
    BY <1>18 DEF InstallCommits, BuildInv, InstallHasSource
  <2>3. \A s \in Slugs : /\ schedule'[s] \in Nat /\ schedule[s] \in Nat
                         /\ s # SlugAt(j) => schedule'[s] = schedule[s]
                         /\ s = SlugAt(j) => schedule'[s] = source[j]
    BY <1>18 DEF InstallCommits
  <2>4. \A k \in Entries : job'[k] # "attached"
    BY <1>18 DEF InstallCommits, LockInv
  <2>5. \A s \in Slugs : stamp'[s] \in {"fresh", "stale"} => schedule'[s] # NoVersion
    BY <1>18, <2>2, <2>3 DEF InstallCommits, Restamp
  <2>6. OverlayMatchesSchedule'
    BY <1>18, <2>3 DEF InstallCommits, EmptyRealtime
  <2>7. UNCHANGED <<staged, published>>
    BY <1>18 DEF InstallCommits, Detach
  <2>8. \A s \in Slugs : /\ schedule[s] <= published[s] /\ published[s] # NoVersion
                         /\ staged[s] # NoVersion =>
                             schedule[s] <= staged[s] /\ staged[s] <= published[s]
    OBVIOUS
  <2>9. source[j] \in Nat
    OBVIOUS
  <2> HIDE DEF TypeOK, StoreInv, NoVersion
  <2>10. \A s \in Slugs : /\ published'[s] # NoVersion
                          /\ schedule'[s] <= published'[s]
    BY <2>2, <2>3, <2>7, <2>8, Zenon
  <2>11. \A s \in Slugs : staged'[s] # NoVersion =>
           schedule'[s] <= staged'[s] /\ staged'[s] <= published'[s]
    <3>1. SUFFICES ASSUME NEW s \in Slugs, staged[s] # NoVersion
                   PROVE  schedule'[s] <= staged[s] /\ staged[s] <= published[s]
      BY <2>7, Zenon
    <3>2. schedule[s] <= staged[s] /\ staged[s] <= published[s]
      BY <2>8, <3>1
    <3>3. source[j] <= source[j]
      BY <2>9
    <3>4. CASE s = SlugAt(j)
      <4>1. staged[s] = source[j] /\ schedule'[s] = source[j]
        BY <2>2, <2>3, <3>1, <3>4
      <4> QED
        BY <3>2, <3>3, <4>1, Zenon
    <3>5. CASE s # SlugAt(j)
      <4>1. schedule'[s] = schedule[s]
        BY <2>3, <3>5
      <4> QED
        BY <3>2, <4>1, Zenon
    <3> QED
      BY <3>4, <3>5
  <2> QED
    BY <2>1, <2>4, <2>5, <2>6, <2>10, <2>11 DEF StoreInv
<1>19. ASSUME NEW j \in Entries, InstallRaises(j) PROVE StoreInv'
  BY <1>19 DEF InstallRaises, Detach
<1>20. ASSUME NEW j \in Entries, InstallTaskFails(j) PROVE StoreInv'
  BY <1>20 DEF InstallTaskFails
<1>21. CASE DelaysDownloaded
  BY <1>21 DEF DelaysDownloaded
<1>22. CASE DelaysComputed
  BY <1>22 DEF DelaysComputed, PhaseInv
<1>23. CASE DelaysCommit
  BY <1>23 DEF DelaysCommit, ContinueToMachines, PhaseInv
<1>24. CASE MachinesDownloaded
  BY <1>24 DEF MachinesDownloaded
<1>25. CASE MachinesBegin
  BY <1>25 DEF MachinesBegin
<1>26. CASE MachinesCommit
  BY <1>26 DEF MachinesCommit
<1>27. CASE AuxiliaryRaises
  BY <1>27 DEF AuxiliaryRaises
<1>28. CASE LoopStorageFault
  BY <1>28 DEF LoopStorageFault
<1>29. CASE WorkerDies
  BY <1>29 DEF WorkerDies, FailureSeen
<1>30. CASE Restart
  BY <1>30 DEF Restart
<1>31. ASSUME NEW s \in Slugs, ScheduleExpires(s) PROVE StoreInv'
  BY <1>31 DEF ScheduleExpires
<1>32. ASSUME NEW s \in Slugs, Publish(s) PROVE StoreInv'
  <2>1. \A r \in Slugs : /\ published[r] \in Nat /\ published'[r] \in Nat
                         /\ published[r] <= published'[r]
                         /\ published'[r] # NoVersion
    BY <1>32 DEF Publish, Versions
  <2>2. /\ \A r \in Slugs : schedule[r] \in Nat /\ staged[r] \in Nat
        /\ \A j \in Entries : source[j] \in Nat
    BY DEF Versions
  <2>3. UNCHANGED <<schedule, staged, source, job, stamp, overlay, aux, basis, at>>
    BY <1>32 DEF Publish
  <2>4. \A r \in Slugs :
          /\ schedule[r] <= published'[r]
          /\ staged[r] # NoVersion =>
               schedule[r] <= staged[r] /\ staged[r] <= published'[r]
    BY <2>1, <2>2
  <2>5. \A j \in Entries : job[j] = "attached" =>
          schedule[SlugAt(j)] <= source[j] /\ source[j] <= published'[SlugAt(j)]
    BY <2>1, <2>2
  <2>6. \A r \in Slugs : stamp[r] \in {"fresh", "stale"} => schedule[r] # NoVersion
    OBVIOUS
  <2>7. \A r \in Slugs : overlay[r] # NoOverlay => overlay[r] = schedule[r]
    OBVIOUS
  <2>8. aux = "writeDelays" => basis = schedule[Current]
    OBVIOUS
  <2> QED
    BY <2>1, <2>3, <2>4, <2>5, <2>6, <2>7, <2>8
<1>33. CASE UNCHANGED vars
  BY <1>33 DEF vars, loopVars, jobVars, poolVars, auxVars, dbVars
<1> QED
  BY <1>1, <1>2, <1>3, <1>4, <1>5, <1>6, <1>7, <1>8, <1>9, <1>10, <1>11,
         <1>12, <1>13, <1>14, <1>15, <1>16, <1>17, <1>18, <1>19, <1>20,
         <1>21, <1>22, <1>23, <1>24, <1>25, <1>26, <1>27, <1>28, <1>29,
         <1>30, <1>31, <1>32, <1>33 DEF Next, CoroutineStep, LoopStep, CatalogStep, JobStep,
         AuxiliaryStep, EnvironmentStep

(* When a cycle reaches the auxiliary data, every provider has a schedule  *)
(* or has been recorded as failed.                                         *)
LEMMA CycleStep ==
  ASSUME TypeOK, PhaseInv, LockInv, BuildInv, StoreInv, CycleInv, [Next]_vars
  PROVE  CycleInv'
<1> USE Constants DEF TypeOK, CycleInv, NoVersion,
           loopVars, jobVars, poolVars, auxVars, dbVars, Acquire, Release
<1> USE DEF IInv
<1>1. CASE EnsureProvider
  BY <1>1 DEF EnsureProvider
<1>2. CASE FindDueProviders
  <2>1. \A j \in Entries : j \notin due' => schedule[SlugAt(j)] # NoVersion
    BY <1>2, SMTT(30) DEF FindDueProviders, StaticRefreshDue, StoreInv
  <2>2. \A j \in Entries : job'[j] = "idle" /\ schedule' = schedule
    BY <1>2 DEF FindDueProviders, PhaseInv
  <2>3. CASE due' = {}
    BY <1>2, <2>1, <2>2, <2>3, ZenonT(60) DEF FindDueProviders
  <2>4. CASE due' # {}
    <3>1. \/ pc' = "gather" /\ \A j \in due' : j <= 0
          \/ pc' = "resolve" /\ NextOf(due', 0, at')
      BY <1>2, <2>4 DEF FindDueProviders, ContinueResolving
    <3>2. \A j \in due' : j \in Nat /\ 0 < j /\ pc' # "gather" /\ ~(j < at')
      BY <1>2, <3>1 DEF FindDueProviders, NextOf
    <3> QED
      BY <2>1, <2>2, <2>4, <3>1, <3>2
  <2> QED
    BY <2>3, <2>4
<1>3. CASE SubmitBuild
  BY <1>3 DEF SubmitBuild, ContinueResolving, NextOf, PhaseInv
<1>4. CASE ResolveFails
  BY <1>4 DEF ResolveFails, ContinueResolving, NextOf, PhaseInv
<1>5. CASE SubmitToBrokenPool
  BY <1>5 DEF SubmitToBrokenPool, CloseDirectory
<1>6. CASE GatherOutcomes
  BY <1>6 DEF GatherOutcomes, CloseDirectory, AllEnded, Settled
<1>7. CASE BeginAuxiliary
  BY <1>7 DEF BeginAuxiliary, ContinueToMachines
<1>8. CASE FinishProvider
  BY <1>8 DEF FinishProvider, AfterProvider
<1>9. CASE Wake
  BY <1>9 DEF Wake
<1>10. ASSUME NEW j \in Entries, BuildStarts(j) PROVE CycleInv'
  BY <1>10 DEF BuildStarts
<1>11. ASSUME NEW j \in Entries, BuildOpens(j) PROVE CycleInv'
  BY <1>11 DEF BuildOpens
<1>12. ASSUME NEW j \in Entries, BuildDownloads(j) PROVE CycleInv'
  BY <1>12 DEF BuildDownloads
<1>13. ASSUME NEW j \in Entries, BuildCommits(j) PROVE CycleInv'
  BY <1>13 DEF BuildCommits
<1>14. ASSUME NEW j \in Entries, BuildRaises(j) PROVE CycleInv'
  BY <1>14 DEF BuildRaises, FailureSeen
<1>15. ASSUME NEW j \in Entries, InstallRequested(j) PROVE CycleInv'
  BY <1>15 DEF InstallRequested
<1>16. ASSUME NEW j \in Entries, InstallAttaches(j) PROVE CycleInv'
  BY <1>16 DEF InstallAttaches
<1>17. ASSUME NEW j \in Entries, AttachRaises(j) PROVE CycleInv'
  BY <1>17 DEF AttachRaises
<1>18. ASSUME NEW j \in Entries, InstallCommits(j) PROVE CycleInv'
  BY <1>18 DEF InstallCommits, Detach, BuildInv, InstallHasSource, PhaseInv
<1>19. ASSUME NEW j \in Entries, InstallRaises(j) PROVE CycleInv'
  BY <1>19 DEF InstallRaises, Detach
<1>20. ASSUME NEW j \in Entries, InstallTaskFails(j) PROVE CycleInv'
  BY <1>20 DEF InstallTaskFails
<1>21. CASE DelaysDownloaded
  BY <1>21 DEF DelaysDownloaded
<1>22. CASE DelaysComputed
  BY <1>22 DEF DelaysComputed
<1>23. CASE DelaysCommit
  BY <1>23 DEF DelaysCommit, ContinueToMachines
<1>24. CASE MachinesDownloaded
  BY <1>24 DEF MachinesDownloaded
<1>25. CASE MachinesBegin
  BY <1>25 DEF MachinesBegin
<1>26. CASE MachinesCommit
  BY <1>26 DEF MachinesCommit
<1>27. CASE AuxiliaryRaises
  BY <1>27 DEF AuxiliaryRaises
<1>28. CASE LoopStorageFault
  BY <1>28 DEF LoopStorageFault
<1>29. CASE WorkerDies
  BY <1>29 DEF WorkerDies, FailureSeen
<1>30. CASE Restart
  BY <1>30 DEF Restart
<1>31. ASSUME NEW s \in Slugs, ScheduleExpires(s) PROVE CycleInv'
  BY <1>31 DEF ScheduleExpires
<1>32. ASSUME NEW s \in Slugs, Publish(s) PROVE CycleInv'
  BY <1>32 DEF Publish
<1>33. CASE UNCHANGED vars
  BY <1>33 DEF vars, loopVars, jobVars, poolVars, auxVars, dbVars
<1> QED
  BY <1>1, <1>2, <1>3, <1>4, <1>5, <1>6, <1>7, <1>8, <1>9, <1>10, <1>11,
         <1>12, <1>13, <1>14, <1>15, <1>16, <1>17, <1>18, <1>19, <1>20,
         <1>21, <1>22, <1>23, <1>24, <1>25, <1>26, <1>27, <1>28, <1>29,
         <1>30, <1>31, <1>32, <1>33 DEF Next, CoroutineStep, LoopStep, CatalogStep, JobStep,
         AuxiliaryStep, EnvironmentStep

(* What the statuses say stays true.                                       *)
LEMMA StatusStep ==
  ASSUME IInv, [Next]_vars
  PROVE  StatusInv'
<1> USE Constants DEF TypeOK, StatusInv, ValidHasSchedule, RestingStatusIsFinal,
           AuxiliaryStatusIsLive, AuxiliaryIs, Resting, Current, NoVersion,
           loopVars, jobVars, poolVars, auxVars, dbVars, Acquire, Release
<1> USE DEF IInv
<1>1. CASE EnsureProvider
  BY <1>1 DEF EnsureProvider
<1>2. CASE FindDueProviders
  <2>1. \/ pc' = "aux" /\ at' = 1 /\ status' = status
        \/ pc' \in {"resolve", "gather"} /\
             \A s \in Slugs : status'[s] \in {status[s], "downloading_schedule"}
    BY <1>2, ZenonT(60) DEF FindDueProviders, ContinueResolving
  <2>2. /\ UNCHANGED <<schedule, aux>>
        /\ aux = "off" /\ pc # "aux"
    BY <1>2 DEF FindDueProviders, PhaseInv
  <2>3. \A s \in Slugs : status[s] \notin
          {"downloading_delays", "updating_delays",
           "downloading_ticket_machines", "updating_ticket_machines"}
    BY <2>2
  <2>4. ValidHasSchedule'
    BY <2>1, <2>2
  <2>5. RestingStatusIsFinal'
    BY <2>1
  <2>6. AuxiliaryStatusIsLive'
    BY <2>1, <2>3
  <2> QED
    BY <2>1, <2>2, <2>4, <2>5, <2>6
<1>3. CASE SubmitBuild
  <2>1. /\ aux = "off" /\ aux' = "off" /\ schedule' = schedule
        /\ pc' \in {"resolve", "gather"}
    BY <1>3 DEF SubmitBuild, ContinueResolving
  <2>2. \A s \in Slugs : status'[s] \in {status[s], "downloading_schedule"}
    BY <1>3, ZenonT(60) DEF SubmitBuild, ContinueResolving
  <2> QED
    BY <2>1, <2>2
<1>4. CASE ResolveFails
  <2>1. aux = "off" /\ aux' = "off"
    BY <1>4 DEF ResolveFails
  <2> QED
    BY <1>4, <2>1, ZenonT(60) DEF ResolveFails, ContinueResolving, PhaseInv
<1>5. CASE SubmitToBrokenPool
  BY <1>5 DEF SubmitToBrokenPool, CloseDirectory
<1>6. CASE GatherOutcomes
  BY <1>6 DEF GatherOutcomes, CloseDirectory, AllEnded, Settled
<1>7. CASE BeginAuxiliary
  BY <1>7 DEF BeginAuxiliary, FetchesDelays, ContinueToMachines, Report,
   PhaseInv
<1>8. CASE FinishProvider
  BY <1>8 DEF FinishProvider, FinalState, AfterProvider, Report, CycleInv,
   PhaseInv
<1>9. CASE Wake
  BY <1>9 DEF Wake
<1>10. ASSUME NEW j \in Entries, BuildStarts(j) PROVE StatusInv'
  BY <1>10 DEF BuildStarts
<1>11. ASSUME NEW j \in Entries, BuildOpens(j) PROVE StatusInv'
  BY <1>11 DEF BuildOpens
<1>12. ASSUME NEW j \in Entries, BuildDownloads(j) PROVE StatusInv'
  BY <1>12 DEF BuildDownloads
<1>13. ASSUME NEW j \in Entries, BuildCommits(j) PROVE StatusInv'
  BY <1>13 DEF BuildCommits
<1>14. ASSUME NEW j \in Entries, BuildRaises(j) PROVE StatusInv'
  BY <1>14 DEF BuildRaises, FailureSeen
<1>15. ASSUME NEW j \in Entries, InstallRequested(j) PROVE StatusInv'
  BY <1>15 DEF InstallRequested, PhaseInv
<1>16. ASSUME NEW j \in Entries, InstallAttaches(j) PROVE StatusInv'
  BY <1>16 DEF InstallAttaches
<1>17. ASSUME NEW j \in Entries, AttachRaises(j) PROVE StatusInv'
  BY <1>17 DEF AttachRaises
<1>18. ASSUME NEW j \in Entries, InstallCommits(j) PROVE StatusInv'
  BY <1>18 DEF InstallCommits, Detach, BuildInv, InstallHasSource, PhaseInv
<1>19. ASSUME NEW j \in Entries, InstallRaises(j) PROVE StatusInv'
  BY <1>19 DEF InstallRaises, Detach
<1>20. ASSUME NEW j \in Entries, InstallTaskFails(j) PROVE StatusInv'
  BY <1>20 DEF InstallTaskFails, PhaseInv
<1>21. CASE DelaysDownloaded
  BY <1>21 DEF DelaysDownloaded, Report, PhaseInv
<1>22. CASE DelaysComputed
  <2>1. /\ pc = "aux" /\ pc' = pc /\ at' = at /\ aux # "off" /\ aux' # "off"
        /\ UNCHANGED <<status, failures, schedule>>
    BY <1>22 DEF DelaysComputed, PhaseInv
  <2>2. AuxiliaryStatusIsLive'
    BY <1>22, <2>1 DEF DelaysComputed
  <2> QED
    BY <2>1, <2>2
<1>23. CASE DelaysCommit
  <2>1. /\ pc = "aux" /\ pc' = pc /\ at' = at /\ aux' # "off"
        /\ UNCHANGED <<failures, schedule>>
        /\ Current \in Slugs
    BY <1>23 DEF DelaysCommit, ContinueToMachines, PhaseInv
  <2>2. \/ aux' = "returned" /\ status' = status
        \/ /\ aux' = "fetchMachines"
           /\ status' = [status EXCEPT ![Current] = "downloading_ticket_machines"]
    BY <1>23 DEF DelaysCommit, ContinueToMachines, Report
  <2>3. AuxiliaryStatusIsLive'
    BY <1>23, <2>1, <2>2 DEF DelaysCommit
  <2> QED
    BY <2>1, <2>2, <2>3
<1>24. CASE MachinesDownloaded
  BY <1>24 DEF MachinesDownloaded, Report, PhaseInv
<1>25. CASE MachinesBegin
  <2>1. /\ pc = "aux" /\ pc' = pc /\ at' = at /\ aux # "off" /\ aux' # "off"
        /\ UNCHANGED <<status, failures, schedule>>
    BY <1>25 DEF MachinesBegin, PhaseInv
  <2>2. AuxiliaryStatusIsLive'
    BY <1>25, <2>1 DEF MachinesBegin
  <2> QED
    BY <2>1, <2>2
<1>26. CASE MachinesCommit
  BY <1>26 DEF MachinesCommit
<1>27. CASE AuxiliaryRaises
  BY <1>27 DEF AuxiliaryRaises
<1>28. CASE LoopStorageFault
  BY <1>28 DEF LoopStorageFault
<1>29. CASE WorkerDies
  BY <1>29 DEF WorkerDies, FailureSeen
<1>30. CASE Restart
  BY <1>30 DEF Restart
<1>31. ASSUME NEW s \in Slugs, ScheduleExpires(s) PROVE StatusInv'
  BY <1>31 DEF ScheduleExpires
<1>32. ASSUME NEW s \in Slugs, Publish(s) PROVE StatusInv'
  BY <1>32 DEF Publish
<1>33. CASE UNCHANGED vars
  BY <1>33 DEF vars, loopVars, jobVars, poolVars, auxVars, dbVars
<1> HIDE DEF TypeOK, StatusInv, ValidHasSchedule, RestingStatusIsFinal,
           AuxiliaryStatusIsLive, AuxiliaryIs, Resting, Current, NoVersion, IInv
<1> QED
  BY <1>1, <1>2, <1>3, <1>4, <1>5, <1>6, <1>7, <1>8, <1>9, <1>10, <1>11,
         <1>12, <1>13, <1>14, <1>15, <1>16, <1>17, <1>18, <1>19, <1>20,
         <1>21, <1>22, <1>23, <1>24, <1>25, <1>26, <1>27, <1>28, <1>29,
         <1>30, <1>31, <1>32, <1>33 DEF Next, CoroutineStep, LoopStep, CatalogStep, JobStep,
         AuxiliaryStep, EnvironmentStep

(* Only the commit of an install changes a served schedule.                *)
LEMMA ScheduleStep ==
  ASSUME [Next]_vars
  PROVE  schedule' = schedule \/ \E j \in Entries : InstallCommits(j)
<1>1. CASE CoroutineStep
  BY <1>1 DEF CoroutineStep, LoopStep, CatalogStep, EnsureProvider, FindDueProviders, SubmitBuild,
     ResolveFails, SubmitToBrokenPool, GatherOutcomes, BeginAuxiliary,
     FinishProvider, Wake, dbVars
<1>2. ASSUME NEW j \in Entries, JobStep(j)
      PROVE  schedule' = schedule \/ InstallCommits(j)
  BY <1>2 DEF JobStep, BuildStarts, BuildOpens, BuildDownloads, BuildCommits,
     BuildRaises, InstallRequested, InstallAttaches, AttachRaises,
     InstallRaises, InstallTaskFails, dbVars
<1>3. CASE AuxiliaryStep
  BY <1>3 DEF AuxiliaryStep, DelaysDownloaded, DelaysComputed, DelaysCommit,
     MachinesDownloaded, MachinesBegin, MachinesCommit, AuxiliaryRaises, dbVars
<1>4. CASE EnvironmentStep
  BY <1>4 DEF EnvironmentStep, LoopStorageFault, WorkerDies, Restart,
     ScheduleExpires, Publish, dbVars
<1>5. CASE UNCHANGED vars
  BY <1>5 DEF vars, dbVars
<1> QED
  BY <1>1, <1>2, <1>3, <1>4, <1>5 DEF Next

-----------------------------------------------------------------------------
(* The theorems.                                                           *)

(* The strengthened invariant holds in every reachable state: initially, and *)
(* after every step, each part by its own lemma.                           *)
THEOREM Invariance == Spec => []IInv
<1>1. Init => IInv
  BY InitIInv
<1>2. IInv /\ [Next]_vars => IInv'
  <2> SUFFICES ASSUME IInv, [Next]_vars PROVE IInv'
    OBVIOUS
  <2>1. TypeOK /\ PhaseInv /\ LockInv /\ BuildInv /\ StoreInv
    BY DEF IInv
  <2>2. TypeOK'
    BY <2>1, TypeStep
  <2>3. PhaseInv'
    BY <2>1, PhaseStep
  <2>4. LockInv'
    BY <2>1, LockStep
  <2>5. BuildInv'
    BY <2>1, BuildStep
  <2>6. StoreInv'
    BY <2>1, StoreStep
  <2>7. CycleInv'
    BY <2>1, CycleStep DEF IInv
  <2>8. StatusInv'
    BY StatusStep
  <2> QED
    BY <2>2, <2>3, <2>4, <2>5, <2>6, <2>7, <2>8 DEF IInv
<1> QED
  BY <1>1, <1>2, PTL DEF Spec

(* Every variable keeps its type: no cycle leaves the list of providers.   *)
THEOREM TypeCorrect == Spec => []TypeOK
<1>1. IInv => TypeOK
  BY DEF IInv
<1> QED
  BY <1>1, Invariance, PTL

(* Delays are only served with the schedule they were computed from.       *)
THEOREM OverlayTheorem == Spec => []OverlayMatchesSchedule
<1>1. IInv => OverlayMatchesSchedule
  BY DEF IInv, StoreInv
<1> QED
  BY <1>1, Invariance, PTL

(* A provider reported valid has a schedule to serve.                      *)
THEOREM ValidTheorem == Spec => []ValidHasSchedule
<1>1. IInv => ValidHasSchedule
  BY DEF IInv, StatusInv
<1> QED
  BY <1>1, Invariance, PTL

(* After a cycle every status is final, and failed where the schedule was. *)
THEOREM RestingTheorem == Spec => []RestingStatusIsFinal
<1>1. IInv => RestingStatusIsFinal
  BY DEF IInv, StatusInv
<1> QED
  BY <1>1, Invariance, PTL

(* An auxiliary activity that /status reports is going on.                 *)
THEOREM AuxiliaryStatusTheorem == Spec => []AuxiliaryStatusIsLive
<1>1. IInv => AuxiliaryStatusIsLive
  BY DEF IInv, StatusInv
<1> QED
  BY <1>1, Invariance, PTL

(* The event loop never waits for the write lock.                          *)
THEOREM EventLoopTheorem == Spec => []EventLoopNeverBlocks
<1>1. IInv => EventLoopNeverBlocks
  <2> SUFFICES ASSUME IInv, pc = "ensure" PROVE lock = NoThread
    BY DEF EventLoopNeverBlocks
  <2>1. lock \notin Entries
    BY DEF IInv, PhaseInv, LockInv
  <2>2. lock # AuxThread
    BY DEF IInv, PhaseInv, LockInv
  <2>3. lock \in 0 .. AuxThread
    BY DEF IInv, TypeOK
  <2> QED
    BY <2>1, <2>2, <2>3, ProvidersAssumption DEF Entries, AuxThread, NoThread
<1> QED
  BY <1>1, Invariance, PTL

(* Every install copies a completely built database, which no build writes *)
(* to while its directory is there.                                        *)
THEOREM SourceTheorem == Spec => []InstallHasSource
<1>1. IInv => InstallHasSource
  BY DEF IInv, BuildInv, InstallHasSource
<1> QED
  BY <1>1, Invariance, PTL

(* At most one thread is in a write transaction.                           *)
THEOREM WritersTheorem == Spec => []WritersExcludeEachOther
<1>1. IInv => WritersExcludeEachOther
  BY DEF IInv, LockInv, Writers, WritersExcludeEachOther
<1> QED
  BY <1>1, Invariance, PTL

(* No step replaces a served schedule by an older one: an install commits  *)
(* the database it has open, and that is not older than what is served.    *)
THEOREM NoRegressionTheorem == Spec => NoRegression
<1>1. IInv /\ [Next]_vars => [\A s \in Slugs : schedule'[s] >= schedule[s]]_vars
  <2> SUFFICES ASSUME IInv, [Next]_vars, NEW s \in Slugs
               PROVE  schedule'[s] >= schedule[s]
    OBVIOUS
  <2>1. /\ \A r \in Slugs : schedule[r] \in Nat
        /\ \A j \in Entries : source[j] \in Nat
    BY Constants DEF IInv, TypeOK
  <2>2. CASE schedule' = schedule
    BY <2>1, <2>2
  <2>3. ASSUME NEW j \in Entries, InstallCommits(j)
        PROVE  schedule'[s] >= schedule[s]
    <3>1. source[j] >= schedule[SlugAt(j)]
      BY <2>1, <2>3, Constants DEF InstallCommits, IInv, StoreInv
    <3>2. schedule' = [schedule EXCEPT ![SlugAt(j)] = source[j]]
      BY <2>3 DEF InstallCommits, Detach
    <3> QED
      BY <2>1, <3>1, <3>2 DEF IInv, TypeOK
  <2> QED
    BY <2>2, <2>3, ScheduleStep
<1> QED
  BY <1>1, Invariance, PTL DEF Spec, NoRegression

(* A new schedule is served together with a fresh time stamp.              *)
THEOREM StampTheorem == Spec => ScheduleAndStampTogether
<1>1. IInv /\ [Next]_vars =>
        [\A s \in Slugs : schedule'[s] # schedule[s] => stamp'[s] = "fresh"]_vars
  <2> SUFFICES ASSUME IInv, [Next]_vars, NEW s \in Slugs,
                      schedule'[s] # schedule[s]
               PROVE  stamp'[s] = "fresh"
    OBVIOUS
  <2>1. PICK j \in Entries : InstallCommits(j)
    BY ScheduleStep
  <2> QED
    BY <2>1, Constants DEF InstallCommits, Detach, Restamp, IInv, TypeOK
<1> QED
  BY <1>1, Invariance, PTL DEF Spec, ScheduleAndStampTogether

-----------------------------------------------------------------------------
(* Refinement of ProviderStore.                                            *)

(* The committed tables start empty.                                       *)
LEMMA InitImplements == Init => Store!Init
BY DEF Init, Store!Init, NoVersion

(* Registering a provider, committing an install and committing real-time  *)
(* rows are the abstract operations; with the clock and the publishers     *)
(* they are the only steps that change the committed tables.               *)
LEMMA StepImplements ==
  ASSUME TypeOK, PhaseInv, BuildInv, StoreInv, [Next]_vars
  PROVE  [Store!Next]_(Store!vars)
<1> USE Constants DEF TypeOK
<1>1. CASE EnsureProvider
  <2>1. SlugAt(at) \in Slugs
    BY <1>1 DEF EnsureProvider, PhaseInv
  <2>2. CASE stamp[SlugAt(at)] = "noRow"
    <3>1. Store!Register(SlugAt(at))
      BY <1>1, <2>1, <2>2 DEF EnsureProvider, Store!Register
    <3> QED
      BY <2>1, <3>1 DEF Store!Next
  <2>3. CASE stamp[SlugAt(at)] # "noRow"
    <3>1. stamp' = stamp
      BY <1>1, <2>1, <2>3 DEF EnsureProvider
    <3> QED
      BY <1>1, <3>1 DEF EnsureProvider, Store!vars
  <2> QED
    BY <2>2, <2>3
<1>2. CASE FindDueProviders \/ SubmitBuild \/ ResolveFails \/ SubmitToBrokenPool
           \/ GatherOutcomes \/ BeginAuxiliary \/ FinishProvider \/ Wake
  BY <1>2 DEF FindDueProviders, SubmitBuild, ResolveFails, SubmitToBrokenPool,
     GatherOutcomes, BeginAuxiliary, FinishProvider, Wake, dbVars, Store!vars
<1>3. ASSUME NEW j \in Entries, InstallCommits(j)
      PROVE  Store!Next
  <2> DEFINE s == SlugAt(j)
  <2>1. s \in Slugs
    OBVIOUS
  <2>2. /\ source[j] # NoVersion /\ schedule[s] <= source[j]
        /\ source[j] <= published[s]
    BY <1>3 DEF InstallCommits, BuildInv, InstallHasSource, StoreInv
  <2>3. source[j] \in 1 .. published[s]
    <3>1. source[j] \in Nat /\ published[s] \in Nat
      BY <2>1
    <3> HIDE DEF s
    <3> QED
      BY <2>2, <3>1 DEF NoVersion
  <2>4. source[j] >= schedule[s]
    BY <2>1, <2>2
  <2>5. Store!Install(s)
    BY <1>3, <2>3, <2>4 DEF InstallCommits, Detach, EmptyRealtime, Restamp, Store!Install
  <2> QED
    BY <2>1, <2>5 DEF Store!Next
<1>4. ASSUME NEW j \in Entries, JobStep(j), ~InstallCommits(j)
      PROVE  UNCHANGED Store!vars
  BY <1>4 DEF JobStep, BuildStarts, BuildOpens, BuildDownloads, BuildCommits,
     BuildRaises, InstallRequested, InstallAttaches, AttachRaises,
     InstallRaises, InstallTaskFails, dbVars, Store!vars
<1>5. CASE DelaysCommit
  <2>1. Current \in Slugs /\ basis = schedule[Current]
    BY <1>5 DEF DelaysCommit, PhaseInv, StoreInv, Current
  <2>2. Store!Observe(Current)
    BY <1>5, <2>1 DEF DelaysCommit, Store!Observe
  <2> QED
    BY <2>1, <2>2 DEF Store!Next
<1>6. CASE DelaysDownloaded \/ DelaysComputed \/ MachinesDownloaded
           \/ MachinesBegin \/ MachinesCommit \/ AuxiliaryRaises
  BY <1>6 DEF DelaysDownloaded, DelaysComputed, MachinesDownloaded,
     MachinesBegin, MachinesCommit, AuxiliaryRaises, dbVars, Store!vars
<1>7. CASE LoopStorageFault \/ WorkerDies \/ Restart
  BY <1>7 DEF LoopStorageFault, WorkerDies, Restart, dbVars, Store!vars
<1>8. ASSUME NEW s \in Slugs, ScheduleExpires(s)
      PROVE  Store!Next
  <2>1. Store!Expire(s)
    BY <1>8 DEF ScheduleExpires, Store!Expire
  <2> QED
    BY <2>1 DEF Store!Next
<1>9. ASSUME NEW s \in Slugs, Publish(s)
      PROVE  Store!Next
  <2>1. Store!Publish(s)
    BY <1>9 DEF Publish, Store!Publish, dbVars
  <2> QED
    BY <2>1 DEF Store!Next
<1>10. CASE UNCHANGED vars
  BY <1>10 DEF vars, dbVars, Store!vars
<1>11. CASE \E j \in Entries : JobStep(j)
  BY <1>3, <1>4, <1>11
<1>12. CASE AuxiliaryStep
  BY <1>5, <1>6, <1>12 DEF AuxiliaryStep
<1>13. CASE EnvironmentStep
  BY <1>7, <1>8, <1>9, <1>13 DEF EnvironmentStep
<1>14. CASE CoroutineStep
  BY <1>1, <1>2, <1>14 DEF CoroutineStep, LoopStep, CatalogStep
<1> QED
  BY <1>10, <1>11, <1>12, <1>13, <1>14 DEF Next

(* The refresh cycle implements the promise of the store, whatever fails.  *)
THEOREM StoreTheorem == Spec => ImplementsStore
<1>1. Init => Store!Init
  BY InitImplements
<1>2. IInv /\ [Next]_vars => [Store!Next]_(Store!vars)
  BY StepImplements DEF IInv
<1> QED
  BY <1>1, <1>2, Invariance, PTL DEF Spec, ImplementsStore, Store!Spec

=============================================================================
