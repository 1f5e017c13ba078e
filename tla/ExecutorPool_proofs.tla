------------------------ MODULE ExecutorPool_proofs ------------------------
(***************************************************************************)
(* What holds of ExecutorPool for any number of jobs, workers, containers  *)
(* and retries: the worker pool uses the ContainerManager as that allows,  *)
(* and so executes no two jobs in one container at the same time.          *)
(***************************************************************************)
EXTENDS ExecutorPool, ContainerManager_proofs

\* A worker has a job exactly while it works on one, and the outcome of the
\* execution from its end on.
WorkerHasJob ==
  \A w \in Workers :
    /\ wjob[w] # NoJob <=> pc[w] \notin {"select", "exited"}
    /\ pc[w] \in {"release", "send"} => outcome[w] \in {"ok", "failed"}

LEMMA TakenIsJob ==
  ASSUME TypeOK, WorkerHasJob, NEW w \in Workers, pc[w] \notin {"select", "exited"}
  PROVE  wjob[w] \in Jobs /\ wjob[w] # NoJob
BY DEF TypeOK, WorkerHasJob

\* A job is answered only after ExecuteJob was called for it.
ResultIsAwaited == \A j \in Jobs : result[j] # "none" => caller[j] \in {"waiting", "returned"}

\* The goroutines of the pool exist only once InitializePool is done.
UsedPoolIsReady ==
  /\ \A w \in Workers : pc[w] \notin {"select", "exited"} => Ready
  /\ \A j \in Jobs : watch[j] # "none" => Ready
  /\ down # "up" => Ready

\* A watcher watches a container the daemon handed out and the monitor does
\* not have on its hands.
WatchedIsHandedOut ==
  \A j \in Jobs :
    /\ watch[j] # "none" => at[j] # NoId
    /\ at[j] # NoId => docker[at[j]] # "fresh" /\ at[j] # newId

PoolInv ==
  /\ TypeOK
  /\ LeaseInv
  /\ WorkerHasJob
  /\ ResultIsAwaited
  /\ JobConservation
  /\ UsedPoolIsReady
  /\ WatchedIsHandedOut
  /\ LeaseFollowsWorker

-----------------------------------------------------------------------------
LEMMA PoolInvInit == Init => PoolInv
<1> SUFFICES ASSUME Init PROVE PoolInv
  OBVIOUS
<1>1. LeaseInv /\ CMTypeOK
  BY LeaseInvInit DEF Init, LeaseInv
<1>2. jobs \in Seq(Jobs) /\ Len(jobs) <= MaxJobCount
  BY ExecutorPoolAssumption DEF Init
<1>3. tries \in [Workers -> 0..(MaxRetries - 1)]
  BY ExecutorPoolAssumption DEF Init
<1>4. TypeOK
  BY <1>1, <1>2, <1>3 DEF Init, TypeOK
<1>5. WorkerHasJob /\ ResultIsAwaited /\ JobConservation
  <2>1. Len(jobs) = 0
    BY DEF Init
  <2>2. \A j \in Jobs : HeldBy(j) = {}
    BY ExecutorPoolAssumption DEF Init, HeldBy
  <2>3. \A j \in Jobs : OnePlace(j)
    BY <2>1, <2>2 DEF Init, OnePlace
  <2>4. JobConservation
    BY <2>1, <2>3 DEF Init, JobConservation
  <2>5. WorkerHasJob
    BY DEF Init, WorkerHasJob
  <2>6. ResultIsAwaited
    BY DEF Init, ResultIsAwaited
  <2> QED
    BY <2>4, <2>5, <2>6
<1> QED
  BY <1>1, <1>4, <1>5
     DEF Init, CMInit, PoolInv, UsedPoolIsReady, WatchedIsHandedOut, LeaseFollowsWorker

\* The monitor does not start over.
LEMMA ReadyStays == CMTypeOK /\ [CMNext]_cmVars /\ Ready => Ready'
<1> SUFFICES ASSUME CMTypeOK, [CMNext]_cmVars, Ready PROVE Ready'
  OBVIOUS
<1>1. CASE MonitorStep
  BY <1>1 DEF MonitorStep, MonitorOwnStep, InitializePool, InitializeFails,
     FinishInitialize, StartNothing, RegisterContainer, StartFails,
     StartContainer, CanStart, RemoveMarked, Tick, ListContainers, ListFails,
     ReadRegistry, MarkContainers, FinishRemove, FinishHealthCheck, Ready
<1>2. CASE mon' = mon
  BY <1>2 DEF Ready
<1> QED
  BY <1>1, <1>2
     DEF CMNext, RemoverStep, RemoveCall, RemoveDelete, ClientStep, GetAvailableContainer,
         ReleaseContainer, ShutdownContainers, ShutdownRegistry, ContainerExits, MapRace,
         monVars, cmVars

\* No container becomes fresh again, and only a fresh one is started.
LEMMA HandedOutStays ==
  ASSUME CMTypeOK, [CMNext]_cmVars, NEW id \in Ids, docker[id] # "fresh", id # newId
  PROVE  docker'[id] # "fresh" /\ id # newId'
<1>1. id # newId'
  BY ContainerManagerAssumption
     DEF CMNext, MonitorStep, MonitorOwnStep, InitializePool, InitializeFails,
         FinishInitialize, StartNothing, RegisterContainer, StartFails,
         StartContainer, RemoveMarked, Tick, ListContainers, ListFails, ReadRegistry,
         MarkContainers, FinishRemove, FinishHealthCheck, RemoverStep, RemoveCall,
         RemoveDelete, ClientStep, GetAvailableContainer, ReleaseContainer,
         ShutdownContainers, ShutdownRegistry, ContainerExits, MapRace, daemonVars,
         monVars, clientVars, cmVars
<1>2. CASE docker' = docker
  BY <1>1, <1>2
<1>3. CASE InitializePool \/ FinishRemove \/ ShutdownContainers
  BY <1>1, <1>3 DEF InitializePool, FinishRemove, RemoveExcess, ShutdownContainers
<1>4. ASSUME NEW i \in Ids, StartFails(i) \/ StartContainer(i) \/ ContainerExits(i)
      PROVE  docker'[id] # "fresh"
  BY <1>4 DEF StartFails, StartContainer, ContainerExits, CMTypeOK
<1>5. ASSUME NEW r \in Removers \cup {Monitor}, RemoveCall(r)
      PROVE  docker'[id] # "fresh"
  BY <1>5 DEF RemoveCall, CMTypeOK
<1> QED
  BY <1>1, <1>2, <1>3, <1>4, <1>5
     DEF CMNext, MonitorStep, MonitorOwnStep, InitializeFails, FinishInitialize,
        StartNothing, RegisterContainer, RemoveMarked, Tick, ListContainers,
        ListFails, ReadRegistry, MarkContainers, FinishHealthCheck, RemoverStep,
        RemoveDelete, ClientStep, GetAvailableContainer, ReleaseContainer,
        ShutdownRegistry, MapRace, daemonVars, cmVars

-----------------------------------------------------------------------------
\* Every step of the pool is one ContainerManager allows, or leaves it alone.
LEMMA ManagerSimulation == PoolInv /\ [Next]_vars => [CMNext]_cmVars
<1> SUFFICES ASSUME PoolInv, [Next]_vars PROVE [CMNext]_cmVars
  OBVIOUS
<1> USE ContainerManagerAssumption, ExecutorPoolAssumption
<1>0. TypeOK /\ CMTypeOK
  BY DEF PoolInv, TypeOK
<1>1. ASSUME NEW j \in Jobs, CallerStep(j) \/ WatchEnds(j) \/ ProcessStep(j)
      PROVE  UNCHANGED cmVars
  BY <1>1 DEF CallerStep, SubmitAccept, SubmitReject, SubmitClosed, Return, WatchEnds,
              ProcStarts, ProcBuilds, ProcRuns, ProcEnds, ProcMoves, ProcessStep
<1>2. ASSUME NEW j \in Jobs, WatchRemoves(j)
      PROVE  CMNext
  <2>1. /\ at[j] \in Ids /\ docker[at[j]] # "fresh" /\ at[j] # newId /\ Ready
        /\ SpawnRemoval(j, at[j])
        /\ UNCHANGED <<daemonVars, monVars, lease, mu, cmClosed, fatal>>
    BY <1>0, <1>2 DEF WatchRemoves, PoolInv, WatchedIsHandedOut, UsedPoolIsReady, TypeOK
  <2> QED
    BY <2>1 DEF CMNext, ClientStep, Jobs
<1>3. ASSUME NEW w \in Workers, WorkerStep(w)
      PROVE  [CMNext]_cmVars
  <2>1. CASE \/ TakeJob(w) \/ ExitWorker(w) \/ AcquireFails(w)
             \/ ExecDone(w) \/ ExecFails(w) \/ SendResult(w)
    BY <2>1 DEF TakeJob, ExitWorker, AcquireFails, ExecDone, ExecFails, EndExec, SendResult
  <2>2. ASSUME NEW id \in Ids, Acquire(w, id)
        PROVE  CMNext
    BY <2>2 DEF Acquire, PoolInv, UsedPoolIsReady, CMNext, ClientStep
  <2>3. CASE StartExec(w)
    <3>1. lease[w] \in Ids /\ containers[lease[w]] \in {"busy", "absent"}
      BY <1>0, <2>3
         DEF StartExec, PoolInv, LeaseFollowsWorker, LeaseInv, LeasedIsBusy, CMTypeOK
    <3>2. Updated(lease[w], "busy") = containers
      BY <1>0, <3>1 DEF Updated, CMTypeOK
    <3> QED
      BY <2>3, <3>2 DEF StartExec, monVars, clientVars, cmVars
  <2>4. CASE Release(w)
    BY <2>4 DEF Release, PoolInv, UsedPoolIsReady, CMNext, ClientStep
  <2> QED
    BY <1>3, <2>1, <2>2, <2>3, <2>4 DEF WorkerStep
<1>4. CASE ShutdownStep
  BY <1>4 DEF ShutdownStep, CloseShutdownChan, CloseJobs, LockContainers, ClearContainers,
              ShutdownTo, PoolInv, UsedPoolIsReady, CMNext, ClientStep
<1>5. CASE ManagerStep
  <2>1. CASE MapRace(\E w \in Workers : pc[w] \in {"acquire", "start", "release"})
    <3>1. (\E w \in Workers : pc[w] \in {"acquire", "start", "release"}) => Ready
      BY DEF PoolInv, UsedPoolIsReady
    <3> QED
      BY <2>1, <3>1 DEF MapRace, CMNext
  <2> QED
    BY <1>5, <2>1 DEF ManagerStep, CMNext
<1>6. CASE DaemonStep
  BY <1>6 DEF DaemonStep, CMNext
<1>7. CASE UNCHANGED vars
  BY <1>7 DEF vars
<1> QED
  BY <1>1, <1>2, <1>3, <1>4, <1>5, <1>6, <1>7 DEF Next

-----------------------------------------------------------------------------
LEMMA TypeNext == TypeOK /\ CMTypeOK' /\ WorkerHasJob /\ [Next]_vars => TypeOK'
<1> SUFFICES ASSUME TypeOK, CMTypeOK', WorkerHasJob, [Next]_vars PROVE TypeOK'
  OBVIOUS
<1> USE ContainerManagerAssumption, ExecutorPoolAssumption
<1>1. ASSUME NEW j \in Jobs, CallerStep(j)
      PROVE  TypeOK'
  <2>1. CASE SubmitAccept(j)
    <3>1. jobs' \in Seq(Jobs) /\ Len(jobs') = Len(jobs) + 1
      BY <2>1 DEF SubmitAccept, TypeOK
    <3> QED
      BY <2>1, <3>1 DEF SubmitAccept, TypeOK, workVars, execVars, procVars
  <2>2. CASE SubmitReject(j)
    BY <2>2 DEF SubmitReject, TypeOK, callVars, workVars, execVars, procVars
  <2>3. CASE SubmitClosed(j)
    BY <2>3 DEF SubmitClosed, TypeOK, callVars, workVars, execVars, procVars
  <2>4. CASE Return(j)
    BY <2>4 DEF Return, TypeOK, callVars, workVars, execVars, procVars
  <2> QED
    BY <1>1, <2>1, <2>2, <2>3, <2>4 DEF CallerStep
<1>2. ASSUME NEW j \in Jobs, WatchRemoves(j) \/ WatchEnds(j) \/ ProcessStep(j)
      PROVE  TypeOK'
  <2>1. CASE WatchRemoves(j)
    BY <2>1 DEF WatchRemoves, TypeOK, callVars, workVars, procVars
  <2>2. CASE WatchEnds(j)
    BY <2>2 DEF WatchEnds, TypeOK, callVars, workVars, procVars
  <2>3. CASE ProcStarts(j)
    BY <2>3 DEF ProcStarts, ProcMoves, TypeOK, callVars, workVars
  <2>4. CASE ProcBuilds(j)
    <3>1. UNCHANGED <<jobs, callVars, workVars, at, ran, orphans, watch, down, panicked>>
      BY <2>4 DEF ProcBuilds, ProcMoves
    <3>2. proc' = [proc EXCEPT ![j] = "built"] /\ prog' = [prog EXCEPT ![at[j]] = j]
      BY <2>4 DEF ProcBuilds, ProcMoves
    <3> QED
      BY <3>1, <3>2 DEF TypeOK, callVars, workVars
  <2>5. CASE ProcRuns(j)
    <3>1. UNCHANGED <<jobs, callVars, workVars, at, prog, orphans, watch, down, panicked>>
      BY <2>5 DEF ProcRuns, ProcMoves
    <3>2. proc' = [proc EXCEPT ![j] = "running"] /\ ran' = [ran EXCEPT ![j] = prog[at[j]]]
      BY <2>5 DEF ProcRuns, ProcMoves
    <3>3. prog[at[j]] \in Jobs \cup {NoJob}
      BY <2>5 DEF ProcRuns, ProcMoves, TypeOK
    <3> QED
      BY <3>1, <3>2, <3>3 DEF TypeOK, callVars, workVars
  <2>6. CASE ProcEnds(j)
    <3>1. UNCHANGED <<jobs, callVars, workVars, at, prog, ran, orphans, watch, down, panicked>>
      BY <2>6 DEF ProcEnds, ProcMoves
    <3>2. PICK state \in {"ok", "failed"} : proc' = [proc EXCEPT ![j] = state]
      BY <2>6 DEF ProcEnds, ProcMoves
    <3> QED
      BY <3>1, <3>2 DEF TypeOK, callVars, workVars
  <2> QED
    BY <1>2, <2>1, <2>2, <2>3, <2>4, <2>5, <2>6 DEF ProcessStep
<1>3. ASSUME NEW w \in Workers, WorkerStep(w)
      PROVE  TypeOK'
  <2>1. CASE TakeJob(w)
    <3>1. Head(jobs) \in Jobs /\ Tail(jobs) \in Seq(Jobs) /\ Len(Tail(jobs)) = Len(jobs) - 1
      BY <2>1 DEF TakeJob, TypeOK
    <3> QED
      BY <2>1, <3>1 DEF TakeJob, TypeOK, callVars, execVars, procVars
  <2>2. CASE ExitWorker(w)
    <3>1. down' \in {down, "done"}
      BY <2>2 DEF ExitWorker, AfterDone
    <3> QED
      BY <2>2, <3>1 DEF ExitWorker, TypeOK, callVars, execVars, procVars
  <2>3. ASSUME NEW id \in Ids, Acquire(w, id)
        PROVE  TypeOK'
    BY <2>3 DEF Acquire, TypeOK, callVars, execVars, procVars
  <2>4. CASE AcquireFails(w)
    <3>1. tries' \in [Workers -> 0..(MaxRetries - 1)]
      <4>1. tries \in [Workers -> 0..(MaxRetries - 1)]
        BY DEF TypeOK
      <4>2. tries' \in {[tries EXCEPT ![w] = 0], [tries EXCEPT ![w] = tries[w] + 1]}
            /\ (tries[w] + 1 = MaxRetries => tries' = [tries EXCEPT ![w] = 0])
        BY <2>4 DEF AcquireFails
      <4> QED
        BY <4>1, <4>2
    <3>2. outcome' \in [Workers -> {"none", "ok", "failed"}]
      <4>1. outcome' \in {outcome, [outcome EXCEPT ![w] = "failed"]}
        BY <2>4 DEF AcquireFails
      <4> QED
        BY <4>1 DEF TypeOK
    <3>3. pc' \in [Workers -> {"select", "acquire", "start", "running", "release", "send", "exited"}]
      <4>1. pc' \in {pc, [pc EXCEPT ![w] = "send"]}
        BY <2>4 DEF AcquireFails
      <4> QED
        BY <4>1 DEF TypeOK
    <3>4. UNCHANGED <<jobs, callVars, wjob, execVars, down, panicked>>
      BY <2>4 DEF AcquireFails
    <3> QED
      BY <3>1, <3>2, <3>3, <3>4 DEF TypeOK, callVars, execVars, procVars
  <2>5. CASE StartExec(w)
    <3>1. lease[w] \in Ids \cup {NoId}
      BY DEF TypeOK, CMTypeOK
    <3>2. UNCHANGED <<jobs, callVars, wjob, tries, proc, prog, ran, orphans, down, panicked>>
      BY <2>5 DEF StartExec
    <3>3. CASE wjob[w] \in Supported
      <4>1. /\ at' = [at EXCEPT ![wjob[w]] = lease[w]]
            /\ watch' = [watch EXCEPT ![wjob[w]] = "on"]
            /\ pc' = [pc EXCEPT ![w] = "running"]
            /\ outcome' = outcome
        BY <2>5, <3>3 DEF StartExec
      <4> QED
        BY <3>1, <3>2, <4>1 DEF TypeOK, callVars
    <3>4. CASE wjob[w] \notin Supported
      <4>1. /\ outcome' = [outcome EXCEPT ![w] = "failed"]
            /\ pc' = [pc EXCEPT ![w] = "release"]
            /\ UNCHANGED <<at, watch>>
        BY <2>5, <3>4 DEF StartExec
      <4> QED
        BY <3>2, <4>1 DEF TypeOK, callVars
    <3> QED
      BY <3>3, <3>4
  <2>6. CASE ExecDone(w) \/ ExecFails(w)
    <3>1. PICK res \in {"ok", "failed"} : EndExec(w, res)
      BY <2>6 DEF ExecDone, ExecFails
    <3>2. wjob[w] \in Jobs
      BY <3>1, TakenIsJob DEF EndExec
    <3> QED
      BY <3>1, <3>2 DEF EndExec, TypeOK, callVars, procVars
  <2>7. CASE Release(w)
    BY <2>7 DEF Release, TypeOK, callVars, execVars, procVars
  <2>8. CASE SendResult(w)
    BY <2>8 DEF SendResult, TypeOK, execVars, procVars
  <2> QED
    BY <1>3, <2>1, <2>2, <2>3, <2>4, <2>5, <2>6, <2>7, <2>8 DEF WorkerStep
<1>4. CASE ShutdownStep
  <2>1. /\ down' \in {"up", "signalled", "closed", "clearing", "waiting", "done"}
        /\ UNCHANGED <<jobs, callVars, workVars, execVars, panicked>>
    BY <1>4 DEF ShutdownStep, CloseShutdownChan, CloseJobs, LockContainers, ClearContainers,
                ShutdownTo, AfterDone
  <2> QED
    BY <2>1 DEF TypeOK, callVars, workVars, execVars, procVars
<1>5. CASE ManagerStep \/ DaemonStep \/ UNCHANGED vars
  <2>1. UNCHANGED poolVars
    BY <1>5 DEF ManagerStep, DaemonStep, vars
  <2> QED
    BY <2>1 DEF poolVars, callVars, workVars, execVars, procVars, TypeOK
<1> QED
  BY <1>1, <1>2, <1>3, <1>4, <1>5 DEF Next

-----------------------------------------------------------------------------
(* The way of a job through queue, worker and result channel.              *)

LEMMA WorkerHasJobNext == TypeOK /\ WorkerHasJob /\ [Next]_vars => WorkerHasJob'
<1> SUFFICES ASSUME TypeOK, WorkerHasJob, [Next]_vars PROVE WorkerHasJob'
  OBVIOUS
<1> USE ExecutorPoolAssumption
<1>1. CASE UNCHANGED workVars
  BY <1>1 DEF workVars, WorkerHasJob
<1>2. ASSUME NEW w \in Workers, WorkerStep(w)
      PROVE  WorkerHasJob'
  <2>1. CASE TakeJob(w)
    <3>1. Head(jobs) \in Jobs
      BY <2>1 DEF TakeJob, TypeOK
    <3> QED
      BY <2>1, <3>1 DEF TakeJob, WorkerHasJob, TypeOK
  <2>2. CASE ExitWorker(w)
    BY <2>2 DEF ExitWorker, WorkerHasJob, TypeOK
  <2>3. ASSUME NEW id \in Ids, Acquire(w, id)
        PROVE  WorkerHasJob'
    BY <2>3 DEF Acquire, WorkerHasJob, TypeOK
  <2>4. CASE AcquireFails(w)
    <3>1. pc' = pc \/ (pc[w] = "acquire" /\ pc' = [pc EXCEPT ![w] = "send"])
      BY <2>4 DEF AcquireFails
    <3>2. outcome' = IF pc' = pc THEN outcome ELSE [outcome EXCEPT ![w] = "failed"]
      BY <2>4 DEF AcquireFails, TypeOK
    <3>3. wjob' = wjob
      BY <2>4 DEF AcquireFails
    <3> QED
      BY <3>1, <3>2, <3>3 DEF WorkerHasJob, TypeOK
  <2>5. CASE StartExec(w)
    BY <2>5 DEF StartExec, WorkerHasJob, TypeOK
  <2>6. CASE ExecDone(w) \/ ExecFails(w)
    <3>1. PICK res \in {"ok", "failed"} : EndExec(w, res)
      BY <2>6 DEF ExecDone, ExecFails
    <3> QED
      BY <3>1 DEF EndExec, WorkerHasJob, TypeOK
  <2>7. CASE Release(w)
    BY <2>7 DEF Release, WorkerHasJob, TypeOK
  <2>8. CASE SendResult(w)
    BY <2>8 DEF SendResult, WorkerHasJob, TypeOK
  <2> QED
    BY <1>2, <2>1, <2>2, <2>3, <2>4, <2>5, <2>6, <2>7, <2>8 DEF WorkerStep
<1> QED
  BY <1>1, <1>2
     DEF Next, CallerStep, SubmitAccept, SubmitReject, SubmitClosed, Return, WatchRemoves,
         WatchEnds, ProcStarts, ProcBuilds, ProcRuns, ProcEnds, ProcMoves, ProcessStep,
         ShutdownStep, CloseShutdownChan, CloseJobs, LockContainers, ClearContainers,
         ShutdownTo, ManagerStep, DaemonStep, poolVars, callVars, workVars, execVars,
         procVars, vars

LEMMA ResultIsAwaitedNext ==
  TypeOK /\ WorkerHasJob /\ JobConservation /\ ResultIsAwaited /\ [Next]_vars => ResultIsAwaited'
<1> SUFFICES ASSUME TypeOK, WorkerHasJob, JobConservation, ResultIsAwaited, [Next]_vars
             PROVE  ResultIsAwaited'
  OBVIOUS
<1>1. CASE UNCHANGED <<caller, result>>
  BY <1>1 DEF ResultIsAwaited
<1>2. ASSUME NEW j \in Jobs, CallerStep(j)
      PROVE  ResultIsAwaited'
  <2>1. result' = result
    BY <1>2 DEF CallerStep, SubmitAccept, SubmitReject, SubmitClosed, Return, callVars
  <2>2. \A i \in Jobs : caller'[i] = caller[i] \/ caller[i] = "idle" \/ caller'[i] = "returned"
    BY <1>2 DEF CallerStep, SubmitAccept, SubmitReject, SubmitClosed, Return, callVars,
       TypeOK
  <2> QED
    BY <2>1, <2>2 DEF ResultIsAwaited
<1>3. ASSUME NEW w \in Workers, SendResult(w)
      PROVE  ResultIsAwaited'
  <2>1. PICK j \in Jobs : j = wjob[w]
    BY <1>3, TakenIsJob DEF SendResult
  <2>2. caller[j] = "waiting"
    BY <2>1 DEF JobConservation, OnePlace, HeldBy
  <2> QED
    BY <1>3, <2>1, <2>2 DEF SendResult, TypeOK, ResultIsAwaited
<1>4. ASSUME NEW w \in Workers, WorkerStep(w)
      PROVE  ResultIsAwaited'
  BY <1>1, <1>3, <1>4
     DEF WorkerStep, TakeJob, ExitWorker, Acquire, AcquireFails, StartExec, ExecDone,
         ExecFails, EndExec, Release, callVars
<1> QED
  BY <1>1, <1>2, <1>4
     DEF Next, WatchRemoves, WatchEnds, ProcStarts, ProcBuilds, ProcRuns, ProcEnds,
        ProcMoves, ProcessStep, ShutdownStep, CloseShutdownChan, CloseJobs,
        LockContainers, ClearContainers, ShutdownTo, ManagerStep, DaemonStep, poolVars,
        callVars, workVars, execVars, procVars, vars

LEMMA ConservationNext ==
  TypeOK /\ WorkerHasJob /\ ResultIsAwaited /\ JobConservation /\ [Next]_vars => JobConservation'
<1> SUFFICES ASSUME TypeOK, WorkerHasJob, ResultIsAwaited, JobConservation, [Next]_vars
             PROVE  JobConservation'
  OBVIOUS
<1> USE ExecutorPoolAssumption
<1>1. CASE UNCHANGED <<jobs, caller, result, wjob>>
  BY <1>1 DEF JobConservation, OnePlace, HeldBy
<1>2. ASSUME NEW j \in Jobs, SubmitAccept(j)
      PROVE  JobConservation'
  <2>1. /\ Len(jobs') = Len(jobs) + 1 /\ Len(jobs) \in Nat
        /\ \A i \in 1..Len(jobs) : jobs'[i] = jobs[i]
        /\ jobs'[Len(jobs) + 1] = j
    BY <1>2 DEF SubmitAccept, TypeOK
  <2>2. /\ caller[j] = "idle" /\ caller'[j] = "waiting" /\ result' = result /\ wjob' = wjob
        /\ \A i \in Jobs \ {j} : caller'[i] = caller[i]
    BY <1>2 DEF SubmitAccept, workVars, TypeOK
  <2>3. /\ \A i \in 1..Len(jobs) : jobs[i] # j
        /\ HeldBy(j) = {}
    BY <2>2 DEF JobConservation, OnePlace
  <2>4. result[j] = "none"
    BY <2>2 DEF ResultIsAwaited, TypeOK
  <2>5. \A i \in Jobs : OnePlace(i)'
    <3> SUFFICES ASSUME NEW i \in Jobs PROVE OnePlace(i)'
      OBVIOUS
    <3>1. OnePlace(i)
      BY DEF JobConservation
    <3>2. CASE i = j
      BY <2>1, <2>2, <2>3, <2>4, <3>2 DEF OnePlace, HeldBy
    <3>3. CASE i # j
      BY <2>1, <2>2, <3>1, <3>3 DEF OnePlace, HeldBy
    <3> QED
      BY <3>2, <3>3
  <2> QED
    BY <2>1, <2>2, <2>3, <2>5 DEF JobConservation
<1>3. ASSUME NEW j \in Jobs, SubmitReject(j) \/ Return(j)
      PROVE  JobConservation'
  <2>1. jobs' = jobs /\ result' = result /\ wjob' = wjob
    BY <1>3 DEF SubmitReject, Return, workVars
  <2>2. /\ \A i \in Jobs \ {j} : caller'[i] = caller[i]
        /\ caller'[j] # "waiting"
        /\ caller[j] = "waiting" => result[j] # "none"
    BY <1>3 DEF SubmitReject, Return, TypeOK
  <2>3. \A i \in Jobs : OnePlace(i)'
    BY <2>1, <2>2 DEF JobConservation, OnePlace, HeldBy
  <2> QED
    BY <2>1, <2>3 DEF JobConservation
<1>4. ASSUME NEW w \in Workers, TakeJob(w)
      PROVE  JobConservation'
  <2> DEFINE h == Head(jobs)
  <2>1. /\ h \in Jobs /\ h = jobs[1] /\ Len(jobs) \in Nat \ {0}
        /\ Len(jobs') = Len(jobs) - 1
        /\ \A i \in 1..(Len(jobs) - 1) : jobs'[i] = jobs[i + 1]
    BY <1>4 DEF TakeJob, TypeOK
  <2>2. /\ wjob[w] = NoJob /\ caller' = caller /\ result' = result
        /\ \A v \in Workers : wjob'[v] = IF v = w THEN h ELSE wjob[v]
    BY <1>4 DEF TakeJob, WorkerHasJob, callVars, TypeOK
  <2> HIDE DEF h
  <2>3. /\ \A i \in 1..Len(jobs) : jobs[i] = h => i = 1
        /\ HeldBy(h) = {}
    BY <2>1 DEF JobConservation, OnePlace
  <2>4. \A i \in Jobs : OnePlace(i)'
    <3> SUFFICES ASSUME NEW i \in Jobs PROVE OnePlace(i)'
      OBVIOUS
    <3>1. OnePlace(i)
      BY DEF JobConservation
    <3>2. (\E k \in 1..Len(jobs') : jobs'[k] = i) <=> (i # h /\ \E k \in 1..Len(jobs) : jobs[k] = i)
      <4>1. ASSUME NEW k \in 1..Len(jobs'), jobs'[k] = i
            PROVE  i # h /\ \E m \in 1..Len(jobs) : jobs[m] = i
        <5>1. k + 1 \in 1..Len(jobs) /\ jobs[k + 1] = i /\ k + 1 # 1
          BY <2>1, <4>1
        <5> QED
          BY <2>3, <5>1
      <4>2. ASSUME NEW k \in 1..Len(jobs), jobs[k] = i, i # h
            PROVE  \E m \in 1..Len(jobs') : jobs'[m] = i
        <5>1. k - 1 \in 1..Len(jobs') /\ jobs'[k - 1] = i
          BY <2>1, <4>2
        <5> QED
          BY <5>1
      <4> QED
        BY <4>1, <4>2
    <3>3. HeldBy(i)' # {} <=> (i = h \/ HeldBy(i) # {})
      BY <2>2 DEF HeldBy
    <3> QED
      BY <2>1, <2>2, <3>1, <3>2, <3>3 DEF OnePlace
  <2>5. \A i, k \in 1..Len(jobs') : jobs'[i] = jobs'[k] => i = k
    <3> SUFFICES ASSUME NEW i \in 1..Len(jobs'), NEW k \in 1..Len(jobs'), jobs'[i] = jobs'[k]
                 PROVE  i = k
      OBVIOUS
    <3>1. i + 1 \in 1..Len(jobs) /\ k + 1 \in 1..Len(jobs) /\ jobs[i + 1] = jobs[k + 1]
      BY <2>1
    <3>2. i + 1 = k + 1
      BY <3>1 DEF JobConservation
    <3> QED
      BY <2>1, <3>2
  <2>6. \A u, v \in Workers : wjob'[u] = wjob'[v] /\ wjob'[u] # NoJob => u = v
    BY <2>2, <2>3 DEF JobConservation, HeldBy
  <2> QED
    BY <2>4, <2>5, <2>6 DEF JobConservation
<1>5. ASSUME NEW w \in Workers, SendResult(w)
      PROVE  JobConservation'
  <2>1. PICK j \in Jobs : j = wjob[w]
    BY <1>5, TakenIsJob DEF SendResult
  <2>2. /\ jobs' = jobs /\ caller' = caller
        /\ \A v \in Workers : wjob'[v] = IF v = w THEN NoJob ELSE wjob[v]
        /\ result[j] = "none" /\ result'[j] # "none"
        /\ \A i \in Jobs \ {j} : result'[i] = result[i]
    BY <1>5, <2>1 DEF SendResult, WorkerHasJob, TypeOK
  <2>3. HeldBy(j) = {w}
    BY <2>1 DEF HeldBy, JobConservation
  <2>4. HeldBy(j)' = {} /\ \A i \in Jobs \ {j} : HeldBy(i)' = HeldBy(i)
    BY <2>1, <2>2, <2>3 DEF HeldBy
  <2>5. \A i \in Jobs : OnePlace(i)'
    BY <2>2, <2>3, <2>4 DEF JobConservation, OnePlace
  <2> QED
    BY <2>2, <2>5 DEF JobConservation
<1>6. ASSUME NEW w \in Workers, WorkerStep(w)
      PROVE  JobConservation'
  BY <1>1, <1>4, <1>5, <1>6
     DEF WorkerStep, ExitWorker, Acquire, AcquireFails, StartExec, ExecDone, ExecFails,
         EndExec, Release, callVars
<1> QED
  BY <1>1, <1>2, <1>3, <1>6
     DEF Next, CallerStep, SubmitClosed, WatchRemoves, WatchEnds, ProcStarts, ProcBuilds,
         ProcRuns, ProcEnds, ProcMoves, ProcessStep, ShutdownStep, CloseShutdownChan,
         CloseJobs, LockContainers, ClearContainers, ShutdownTo, ManagerStep, DaemonStep,
         poolVars, callVars, workVars, execVars, procVars, vars

-----------------------------------------------------------------------------
LEMMA PoolInvNext == PoolInv /\ [Next]_vars => PoolInv'
<1> SUFFICES ASSUME PoolInv, [Next]_vars PROVE PoolInv'
  OBVIOUS
<1> USE ContainerManagerAssumption, ExecutorPoolAssumption
<1>1. [CMNext]_cmVars
  BY ManagerSimulation
<1>2. LeaseInv' /\ CMTypeOK /\ CMTypeOK'
  BY <1>1, LeaseInvNext DEF PoolInv, LeaseInv
<1>3. TypeOK /\ TypeOK'
  BY <1>2, TypeNext DEF PoolInv
<1>4. Ready => Ready'
  BY <1>1, <1>2, ReadyStays
<1>5. UsedPoolIsReady'
  <2>1. \A w \in Workers : pc'[w] \notin {"select", "exited"} => Ready
    <3> SUFFICES ASSUME NEW w \in Workers, pc'[w] \notin {"select", "exited"}, ~Ready
                 PROVE  FALSE
      OBVIOUS
    <3>1. pc[w] \in {"select", "exited"}
      BY DEF PoolInv, UsedPoolIsReady
    <3>2. ASSUME NEW v \in Workers, WorkerStep(v)
          PROVE  FALSE
      <4>1. CASE TakeJob(v)
        BY <4>1 DEF TakeJob
      <4>2. CASE ExitWorker(v)
        BY <1>3, <3>1, <4>2 DEF ExitWorker, TypeOK
      <4>3. pc[v] \in {"select", "exited"}
        BY DEF PoolInv, UsedPoolIsReady
      <4> QED
        BY <3>2, <4>1, <4>2, <4>3
           DEF WorkerStep, Acquire, AcquireFails, StartExec, ExecDone, ExecFails, EndExec,
               Release, SendResult
    <3> QED
      BY <3>1, <3>2
         DEF Next, CallerStep, SubmitAccept, SubmitReject, SubmitClosed, Return,
            WatchRemoves, WatchEnds, ProcStarts, ProcBuilds, ProcRuns, ProcEnds,
            ProcMoves, ProcessStep, ShutdownStep, CloseShutdownChan, CloseJobs,
            LockContainers, ClearContainers, ShutdownTo, ManagerStep, DaemonStep,
            poolVars, callVars, workVars, execVars, procVars, vars
  <2>2. \A j \in Jobs : watch'[j] # "none" => Ready
    <3>1. ASSUME NEW w \in Workers, WorkerStep(w), watch' # watch
          PROVE  Ready
      BY <3>1 DEF WorkerStep, TakeJob, ExitWorker, Acquire, AcquireFails, StartExec,
         ExecDone, ExecFails, EndExec, Release, SendResult, execVars, procVars, PoolInv,
         UsedPoolIsReady
    <3>2. ASSUME NEW j \in Jobs, WatchRemoves(j) \/ WatchEnds(j)
          PROVE  Ready
      BY <3>2 DEF WatchRemoves, WatchEnds, PoolInv, UsedPoolIsReady
    <3>3. watch' = watch \/ Ready
      BY <3>1, <3>2
         DEF Next, CallerStep, SubmitAccept, SubmitReject, SubmitClosed, Return, ProcStarts,
             ProcBuilds, ProcRuns, ProcEnds, ProcMoves, ProcessStep, ShutdownStep,
             CloseShutdownChan, CloseJobs, LockContainers, ClearContainers, ShutdownTo,
             ManagerStep, DaemonStep, poolVars, callVars, workVars, execVars, procVars,
             vars
    <3> QED
      BY <3>3 DEF PoolInv, UsedPoolIsReady
  <2>3. down' # "up" => Ready
    <3>1. ASSUME NEW w \in Workers, WorkerStep(w), down' # down
          PROVE  down # "up"
      BY <3>1 DEF WorkerStep, TakeJob, ExitWorker, Acquire, AcquireFails, StartExec,
         ExecDone, ExecFails, EndExec, Release, SendResult
    <3>2. down' = down \/ down # "up" \/ Ready
      BY <3>1 DEF Next, CallerStep, SubmitAccept, SubmitReject, SubmitClosed, Return,
                  WatchRemoves, WatchEnds, ProcStarts, ProcBuilds, ProcRuns, ProcEnds,
                  ProcMoves, ProcessStep, ShutdownStep, CloseShutdownChan, CloseJobs,
                  LockContainers, ClearContainers, ShutdownTo, ManagerStep, DaemonStep,
                  poolVars, callVars, workVars, execVars, procVars, vars
    <3> QED
      BY <3>2 DEF PoolInv, UsedPoolIsReady
  <2> QED
    BY <1>4, <2>1, <2>2, <2>3 DEF UsedPoolIsReady
<1>6. WatchedIsHandedOut'
  <2>1. ASSUME NEW j \in Jobs, at[j] # NoId, at'[j] = at[j]
        PROVE  docker'[at'[j]] # "fresh" /\ at'[j] # newId'
    <3>1. at[j] \in Ids /\ docker[at[j]] # "fresh" /\ at[j] # newId
      BY <1>3, <2>1 DEF PoolInv, WatchedIsHandedOut, TypeOK
    <3> QED
      BY <1>1, <1>2, <2>1, <3>1, HandedOutStays
  <2>2. CASE \E w \in Workers : StartExec(w)
    <3>1. PICK w \in Workers : StartExec(w)
      BY <2>2
    <3>2. /\ lease[w] \in Ids /\ docker[lease[w]] # "fresh" /\ lease[w] # newId
          /\ docker' = docker /\ newId' = newId
      BY <1>2, <3>1
         DEF StartExec, monVars, PoolInv, LeaseFollowsWorker, LeaseInv, HandedOut,
            NewIsUnused, CMTypeOK
    <3>3. \A j \in Jobs : \/ at'[j] = at[j] /\ watch'[j] = watch[j]
                          \/ at'[j] = lease[w]
      BY <1>3, <3>1 DEF StartExec, TypeOK
    <3> QED
      BY <2>1, <3>2, <3>3 DEF PoolInv, WatchedIsHandedOut
  <2>3. CASE at' = at /\ \A j \in Jobs : watch'[j] # "none" => watch[j] # "none"
    BY <2>1, <2>3 DEF PoolInv, WatchedIsHandedOut
  <2>4. ASSUME NEW j \in Jobs, WatchRemoves(j) \/ WatchEnds(j)
        PROVE  at' = at /\ \A i \in Jobs : watch'[i] # "none" => watch[i] # "none"
    BY <1>3, <2>4 DEF WatchRemoves, WatchEnds, TypeOK, procVars
  <2>5. ASSUME NEW w \in Workers, WorkerStep(w), ~StartExec(w)
        PROVE  UNCHANGED <<at, watch>>
    BY <2>5 DEF WorkerStep, TakeJob, ExitWorker, Acquire, AcquireFails, ExecDone, ExecFails,
                EndExec, Release, SendResult, execVars, procVars
  <2>6. \/ \E w \in Workers : WorkerStep(w)
        \/ \E j \in Jobs : WatchRemoves(j) \/ WatchEnds(j)
        \/ UNCHANGED <<at, watch>>
    BY DEF Next, CallerStep, SubmitAccept, SubmitReject, SubmitClosed, Return, ProcStarts,
           ProcBuilds, ProcRuns, ProcEnds, ProcMoves, ProcessStep, ShutdownStep,
           CloseShutdownChan, CloseJobs, LockContainers, ClearContainers, ShutdownTo,
           ManagerStep, DaemonStep, poolVars, callVars, workVars, execVars, procVars, vars
  <2> QED
    BY <2>2, <2>3, <2>4, <2>5, <2>6
<1>7. LeaseFollowsWorker'
  <2>a. WorkerHasJob /\ JobConservation /\ \A v \in Workers : wjob[v] \in Jobs \cup {NoJob}
    BY <1>3 DEF PoolInv, TypeOK
  <2>1. CASE UNCHANGED <<lease, pc, wjob, at>>
    BY <2>1 DEF PoolInv, LeaseFollowsWorker
  <2>2. ASSUME NEW w \in Workers, WorkerStep(w)
        PROVE  LeaseFollowsWorker'
    <3>1. ASSUME NEW v \in Workers, v # w
          PROVE  /\ lease'[v] = lease[v] /\ pc'[v] = pc[v] /\ wjob'[v] = wjob[v]
                 /\ pc[v] = "running" => at'[wjob[v]] = at[wjob[v]]
      <4>1. lease'[v] = lease[v] /\ pc'[v] = pc[v] /\ wjob'[v] = wjob[v]
        <5>1. CASE TakeJob(w) \/ ExitWorker(w) \/ SendResult(w)
          BY <1>3, <3>1, <5>1 DEF TakeJob, ExitWorker, SendResult, cmVars, TypeOK
        <5>2. CASE AcquireFails(w) \/ ExecDone(w) \/ ExecFails(w)
          BY <1>3, <3>1, <5>2 DEF AcquireFails, ExecDone, ExecFails, EndExec, cmVars, TypeOK
        <5>3. CASE StartExec(w)
          BY <1>3, <3>1, <5>3 DEF StartExec, clientVars, TypeOK
        <5>4. ASSUME NEW id \in Ids, Acquire(w, id)
              PROVE  lease'[v] = lease[v] /\ pc'[v] = pc[v] /\ wjob'[v] = wjob[v]
          BY <1>2, <1>3, <3>1, <5>4 DEF Acquire, GetAvailableContainer, TypeOK, CMTypeOK
        <5>5. CASE Release(w)
          BY <1>2, <1>3, <3>1, <5>5 DEF Release, ReleaseContainer, TypeOK, CMTypeOK
        <5> QED
          BY <2>2, <5>1, <5>2, <5>3, <5>4, <5>5 DEF WorkerStep
      <4>2. CASE StartExec(w)
        <5>1. pc[v] = "running" => wjob[v] \in Jobs /\ wjob[v] # wjob[w]
          BY <2>a, <3>1 DEF JobConservation, WorkerHasJob
        <5> QED
          BY <1>3, <4>1, <4>2, <5>1 DEF StartExec, TypeOK
      <4>3. CASE at' = at
        BY <4>1, <4>3
      <4> QED
        BY <2>2, <4>2, <4>3
           DEF WorkerStep, TakeJob, ExitWorker, Acquire, AcquireFails, ExecDone, ExecFails,
               EndExec, Release, SendResult, execVars, procVars
    <3>2. /\ lease'[w] # NoId <=> pc'[w] \in {"start", "running", "release"}
          /\ pc'[w] = "running" => at'[wjob'[w]] = lease'[w]
      <4>1. lease[w] # NoId <=> pc[w] \in {"start", "running", "release"}
        BY DEF PoolInv, LeaseFollowsWorker
      <4>2. CASE TakeJob(w)
        BY <1>3, <4>1, <4>2 DEF TakeJob, cmVars, TypeOK
      <4>3. CASE ExitWorker(w) \/ SendResult(w)
        BY <1>3, <4>1, <4>3 DEF ExitWorker, SendResult, cmVars, TypeOK
      <4>4. ASSUME NEW id \in Ids, Acquire(w, id)
            PROVE  lease'[w] # NoId /\ pc'[w] = "start"
        BY <1>2, <1>3, <4>4 DEF Acquire, GetAvailableContainer, TypeOK, CMTypeOK
      <4>5. CASE AcquireFails(w)
        BY <1>3, <4>1, <4>5 DEF AcquireFails, cmVars, TypeOK
      <4>6. CASE StartExec(w)
        <5>1. pc[w] = "start"
          BY <4>6 DEF StartExec
        <5>2. wjob[w] \in Jobs
          BY <2>a, <5>1 DEF WorkerHasJob
        <5> QED
          BY <1>3, <4>1, <4>6, <5>1, <5>2 DEF StartExec, clientVars, TypeOK
      <4>7. CASE ExecDone(w) \/ ExecFails(w)
        <5>1. PICK res \in {"ok", "failed"} : EndExec(w, res)
          BY <4>7 DEF ExecDone, ExecFails
        <5> QED
          BY <1>3, <4>1, <5>1 DEF EndExec, cmVars, TypeOK
      <4>8. CASE Release(w)
        BY <1>2, <1>3, <4>8 DEF Release, ReleaseContainer, TypeOK, CMTypeOK
      <4> QED
        BY <2>2, <4>2, <4>3, <4>4, <4>5, <4>6, <4>7, <4>8 DEF WorkerStep
    <3> QED
      BY <3>1, <3>2 DEF PoolInv, LeaseFollowsWorker
  <2>3. ManagerStep \/ DaemonStep => UNCHANGED <<lease, pc, wjob, at>>
    BY DEF ManagerStep, DaemonStep, poolVars, callVars, workVars, execVars, procVars,
           MonitorStep, MonitorOwnStep, InitializePool, InitializeFails, FinishInitialize,
           StartNothing, RegisterContainer, StartFails, StartContainer,
           RemoveMarked, Tick, ListContainers, ListFails, ReadRegistry, MarkContainers,
           FinishRemove, FinishHealthCheck, RemoverStep, RemoveCall, RemoveDelete,
           ContainerExits, MapRace, clientVars
  <2>4. (\E w \in Workers : WorkerStep(w)) \/ UNCHANGED <<lease, pc, wjob, at>>
    BY <2>3 DEF Next, CallerStep, SubmitAccept, SubmitReject, SubmitClosed, Return,
                WatchRemoves, WatchEnds, ProcStarts, ProcBuilds, ProcRuns, ProcEnds,
                ProcMoves, ProcessStep, ShutdownStep, CloseShutdownChan, CloseJobs,
                LockContainers, ClearContainers, ShutdownContainers, ShutdownRegistry,
                ShutdownTo, cmVars, poolVars, callVars, workVars, execVars, procVars, vars
  <2> QED
    BY <2>1, <2>2, <2>4
<1>8. WorkerHasJob' /\ ResultIsAwaited' /\ JobConservation'
  BY WorkerHasJobNext, ResultIsAwaitedNext, ConservationNext DEF PoolInv
<1> QED
  BY <1>2, <1>3, <1>5, <1>6, <1>7, <1>8 DEF PoolInv

LEMMA PoolInvariant == Spec => []PoolInv
BY PoolInvInit, PoolInvNext, PTL DEF Spec

-----------------------------------------------------------------------------
\* Every variable of the pool and of the manager keeps its type.
THEOREM PoolTypeCorrect == Spec => []TypeOK
<1>1. PoolInv => TypeOK
  BY DEF PoolInv
<1> QED
  BY <1>1, PoolInvariant, PTL

\* No accepted job is lost, taken twice or answered twice, even when Shutdown
\* runs at the same time.
THEOREM PoolConservesJobs == Spec => []JobConservation
<1>1. PoolInv => JobConservation
  BY DEF PoolInv
<1> QED
  BY <1>1, PoolInvariant, PTL

\* A worker executes in the container it was given, and gives it back.
THEOREM LeasesFollowWorkers == Spec => []LeaseFollowsWorker
<1>1. PoolInv => LeaseFollowsWorker
  BY DEF PoolInv
<1> QED
  BY <1>1, PoolInvariant, PTL

\* The worker pool does with its containers only what ContainerManager allows
\* its clients to do, so that what is proved of the manager holds in the pool.
THEOREM PoolImplementsManager == Spec => ImplementsContainerManager
<1>1. Init => CMInit
  BY DEF Init
<1> QED
  BY <1>1, PoolInvariant, ManagerSimulation, PTL
     DEF Spec, CMSpec, ImplementsContainerManager

\* Two commands never run in one container at the same time: a consequence of
\* the exclusive leases of the manager and of the discipline of the workers.
THEOREM PoolExecutesApart == Spec => []ExecutionsApart
<1>1. PoolInv => ExecutionsApart
  <2> SUFFICES ASSUME PoolInv, NEW i \in Jobs, NEW j \in Jobs,
                      Executing(i), Executing(j), at[i] = at[j]
               PROVE  i = j
    BY DEF ExecutionsApart
  <2>1. PICK w \in Workers : pc[w] = "running" /\ wjob[w] = i
    BY DEF Executing
  <2>2. PICK v \in Workers : pc[v] = "running" /\ wjob[v] = j
    BY DEF Executing
  <2>3. lease[w] = at[i] /\ lease[v] = at[j] /\ lease[w] # NoId
    BY <2>1, <2>2 DEF PoolInv, LeaseFollowsWorker
  <2>4. w = v
    BY <2>3 DEF PoolInv, LeaseInv, LeaseExclusive
  <2> QED
    BY <2>1, <2>2, <2>4
<1> QED
  BY <1>1, PoolInvariant, PTL

-----------------------------------------------------------------------------
(* The processes, and the files they share in a container.                 *)

\* The command of a job is started once, while its worker executes it.
StartedOnce ==
  \A j \in Jobs : at[j] # NoId =>
    result[j] # "none" \/ \E w \in HeldBy(j) : pc[w] \in {"running", "release", "send"}

\* A process that goes on after its command is left behind; there is none before it.
LeftBehind ==
  \A j \in Jobs :
    /\ at[j] = NoId => proc[j] = "none"
    /\ at[j] # NoId /\ ~Executing(j) => proc[j] \in {"ok", "failed"} \/ j \in orphans

\* While a command is executed, the program in the container is its own.
RunsItsOwn ==
  \A j \in Jobs : Executing(j) =>
    \/ Disturbed(j)
    \/ /\ proc[j] = "built" => prog[at[j]] = j
       /\ proc[j] \in {"running", "ok"} => ran[j] = j

ProcInv == StartedOnce /\ LeftBehind /\ RunsItsOwn

\* The commands and their processes are changed by four actions only.
LEMMA ProcSteps ==
  ASSUME PoolInv, [Next]_vars
  PROVE  \/ /\ UNCHANGED <<procVars, orphans>>
            /\ \A j \in Jobs : Executing(j)' <=> Executing(j)
         \/ \E w \in Workers : StartExec(w) \/ ExecDone(w) \/ ExecFails(w)
         \/ \E j \in Jobs : ProcessStep(j)
<1>0. TypeOK
  BY DEF PoolInv
<1>1. CASE UNCHANGED <<procVars, orphans, pc, wjob>>
  BY <1>1 DEF Executing
<1>2. ASSUME NEW w \in Workers, WorkerStep(w), ~(StartExec(w) \/ ExecDone(w) \/ ExecFails(w))
      PROVE  UNCHANGED <<procVars, orphans>> /\ \A j \in Jobs : Executing(j)' <=> Executing(j)
  <2>1. UNCHANGED <<procVars, orphans>>
    BY <1>2 DEF WorkerStep, TakeJob, ExitWorker, Acquire, AcquireFails, Release,
       SendResult, execVars
  <2>2. /\ pc[w] # "running" /\ pc'[w] # "running"
        /\ \A v \in Workers \ {w} : pc'[v] = pc[v] /\ wjob'[v] = wjob[v]
    BY <1>0, <1>2
       DEF WorkerStep, TakeJob, ExitWorker, Acquire, AcquireFails, Release, SendResult,
          TypeOK
  <2> QED
    BY <2>1, <2>2 DEF Executing
<1>3. CASE \E j \in Jobs : CallerStep(j) \/ WatchRemoves(j) \/ WatchEnds(j)
  BY <1>1, <1>3 DEF CallerStep, SubmitAccept, SubmitReject, SubmitClosed, Return,
     WatchRemoves, WatchEnds, workVars, execVars
<1>4. CASE ShutdownStep \/ ManagerStep \/ DaemonStep \/ UNCHANGED vars
  BY <1>1, <1>4 DEF ShutdownStep, CloseShutdownChan, CloseJobs, LockContainers,
     ClearContainers, ShutdownTo, ManagerStep, DaemonStep, workVars, execVars, poolVars,
     vars
<1> QED
  BY <1>2, <1>3, <1>4 DEF Next

\* A job a worker is going to start has no container yet.
LEMMA StartsFresh ==
  ASSUME PoolInv, StartedOnce, NEW w \in Workers, StartExec(w)
  PROVE  wjob[w] \in Jobs /\ at[wjob[w]] = NoId
<1>1. TypeOK /\ WorkerHasJob /\ JobConservation /\ pc[w] = "start"
  BY DEF PoolInv, StartExec
<1>2. wjob[w] \in Jobs
  BY <1>1 DEF TypeOK, WorkerHasJob
<1>3. result[wjob[w]] = "none"
  BY <1>1, <1>2 DEF JobConservation, OnePlace, HeldBy
<1>4. \A v \in HeldBy(wjob[w]) : v = w
  BY <1>1, <1>2, ExecutorPoolAssumption DEF JobConservation, HeldBy
<1> QED
  BY <1>1, <1>2, <1>3, <1>4 DEF StartedOnce

\* What is started stays where it is ...
LEMMA AtStays ==
  ASSUME PoolInv, StartedOnce, [Next]_vars, NEW j \in Jobs, at[j] # NoId
  PROVE  at'[j] = at[j]
<1>1. ASSUME NEW w \in Workers, StartExec(w)
      PROVE  at'[j] = at[j]
  <2>1. at \in [Jobs -> Ids \cup {NoId}]
    BY DEF PoolInv, TypeOK
  <2>2. at' = at \/ at' = [at EXCEPT ![wjob[w]] = lease[w]]
    BY <1>1 DEF StartExec
  <2>3. at[wjob[w]] = NoId
    BY <1>1, StartsFresh
  <2> QED
    BY <2>1, <2>2, <2>3
<1>2. ASSUME NEW w \in Workers, ExecDone(w) \/ ExecFails(w)
      PROVE  at'[j] = at[j]
  BY <1>2 DEF ExecDone, ExecFails, EndExec, procVars
<1>3. ASSUME NEW i \in Jobs, ProcessStep(i)
      PROVE  at'[j] = at[j]
  BY <1>3 DEF ProcStarts, ProcBuilds, ProcRuns, ProcEnds, ProcMoves, ProcessStep
<1> QED
  BY <1>1, <1>2, <1>3, ProcSteps DEF procVars

\* ... and what is left behind is so for ever.
LEMMA OrphansStay == PoolInv /\ [Next]_vars => orphans \subseteq orphans'
<1> SUFFICES ASSUME PoolInv, [Next]_vars PROVE orphans \subseteq orphans'
  OBVIOUS
<1>1. ASSUME NEW w \in Workers, StartExec(w) \/ ExecDone(w) \/ ExecFails(w)
      PROVE  orphans \subseteq orphans'
  BY <1>1 DEF StartExec, ExecDone, ExecFails, EndExec
<1>2. ASSUME NEW i \in Jobs, ProcessStep(i)
      PROVE  orphans \subseteq orphans'
  BY <1>2 DEF ProcStarts, ProcBuilds, ProcRuns, ProcEnds, ProcMoves, ProcessStep
<1> QED
  BY <1>1, <1>2, ProcSteps

LEMMA DisturbedStays ==
  ASSUME PoolInv, StartedOnce, [Next]_vars, NEW j \in Jobs, at[j] # NoId, Disturbed(j)
  PROVE  Disturbed(j)'
<1>1. at'[j] = at[j]
  BY AtStays
<1>2. ASSUME NEW i \in orphans \ {j}, at[i] = at[j]
      PROVE  i \in orphans' \ {j} /\ at'[i] = at'[j]
  <2>1. i \in Jobs
    BY DEF PoolInv, TypeOK
  <2>2. at'[i] = at[i]
    BY <1>2, <2>1, AtStays
  <2> QED
    BY <1>1, <1>2, <2>2, OrphansStay
<1> QED
  BY <1>1, <1>2 DEF Disturbed

LEMMA StartedOnceNext == PoolInv /\ StartedOnce /\ [Next]_vars => StartedOnce'
<1> SUFFICES ASSUME PoolInv, StartedOnce, [Next]_vars, NEW j \in Jobs, at'[j] # NoId
             PROVE  \/ result'[j] # "none"
                    \/ \E w \in Workers : wjob'[w] = j /\ pc'[w] \in {"running", "release", "send"}
  BY DEF StartedOnce, HeldBy
<1>0. TypeOK /\ WorkerHasJob
  BY DEF PoolInv
<1>1. CASE at[j] # NoId /\ result[j] # "none"
  <2>1. ResultIsAwaited' /\ TypeOK'
    BY PoolInvNext DEF PoolInv
  <2>2. result' = result \/ \E w \in Workers : SendResult(w)
    BY DEF Next, CallerStep, SubmitAccept, SubmitReject, SubmitClosed, Return, WatchRemoves,
           WatchEnds, ProcStarts, ProcBuilds, ProcRuns, ProcEnds, ProcMoves, ProcessStep,
           WorkerStep, TakeJob, ExitWorker, Acquire, AcquireFails, StartExec, ExecDone,
           ExecFails, EndExec, Release, ShutdownStep, CloseShutdownChan, CloseJobs,
           LockContainers, ClearContainers, ShutdownTo, ManagerStep, DaemonStep, poolVars,
           callVars, vars
  <2> QED
    BY <1>0, <1>1, <2>2 DEF SendResult, TypeOK
<1>2. ASSUME NEW w \in Workers, wjob[w] = j, pc[w] \in {"running", "release", "send"}
      PROVE  \/ result'[j] # "none"
             \/ wjob'[w] = j /\ pc'[w] \in {"running", "release", "send"}
  <2>1. UNCHANGED <<pc, wjob>> \/ \E v \in Workers : WorkerStep(v)
    BY DEF Next, CallerStep, SubmitAccept, SubmitReject, SubmitClosed, Return, WatchRemoves,
           WatchEnds, ProcStarts, ProcBuilds, ProcRuns, ProcEnds, ProcMoves, ProcessStep,
           ShutdownStep, CloseShutdownChan, CloseJobs, LockContainers, ClearContainers,
           ShutdownTo, ManagerStep, DaemonStep, poolVars, workVars, vars
  <2>2. ASSUME NEW v \in Workers \ {w}, WorkerStep(v)
        PROVE  pc'[w] = pc[w] /\ wjob'[w] = wjob[w]
    BY <1>0, <2>2
       DEF WorkerStep, TakeJob, ExitWorker, Acquire, AcquireFails, StartExec, ExecDone,
           ExecFails, EndExec, Release, SendResult, TypeOK
  <2>3. CASE ExecDone(w) \/ ExecFails(w) \/ Release(w)
    BY <1>0, <1>2, <2>3 DEF ExecDone, ExecFails, EndExec, Release, TypeOK
  <2>4. CASE SendResult(w)
    BY <1>0, <1>2, <2>4 DEF SendResult, WorkerHasJob, TypeOK
  <2>5. WorkerStep(w) => ExecDone(w) \/ ExecFails(w) \/ Release(w) \/ SendResult(w)
    BY <1>2 DEF WorkerStep, TakeJob, ExitWorker, Acquire, AcquireFails, StartExec
  <2> QED
    BY <1>2, <2>1, <2>2, <2>3, <2>4, <2>5
<1>3. CASE at[j] # NoId
  BY <1>1, <1>2, <1>3 DEF StartedOnce, HeldBy
<1>4. CASE at[j] = NoId
  <2>1. ASSUME NEW w \in Workers, StartExec(w)
        PROVE  wjob'[w] = j /\ pc'[w] = "running"
    BY <1>0, <1>4, <2>1 DEF StartExec, TypeOK
  <2>2. ~\E w \in Workers : ExecDone(w) \/ ExecFails(w)
    BY <1>4 DEF ExecDone, ExecFails, EndExec, procVars
  <2>3. ~\E i \in Jobs : ProcessStep(i)
    BY <1>4 DEF ProcStarts, ProcBuilds, ProcRuns, ProcEnds, ProcMoves, ProcessStep
  <2> QED
    BY <1>4, <2>1, <2>2, <2>3, ProcSteps DEF procVars
<1> QED
  BY <1>3, <1>4

LEMMA LeftBehindNext == PoolInv /\ StartedOnce /\ LeftBehind /\ [Next]_vars => LeftBehind'
<1> SUFFICES ASSUME PoolInv, StartedOnce, LeftBehind, [Next]_vars PROVE LeftBehind'
  OBVIOUS
<1>0. TypeOK /\ WorkerHasJob /\ LeaseFollowsWorker
  BY DEF PoolInv
<1>1. CASE UNCHANGED <<procVars, orphans>> /\ \A j \in Jobs : Executing(j)' <=> Executing(j)
  BY <1>1 DEF LeftBehind, procVars
<1>2. ASSUME NEW w \in Workers, StartExec(w)
      PROVE  LeftBehind'
  <2>1. wjob[w] \in Jobs /\ at[wjob[w]] = NoId /\ lease[w] # NoId /\ wjob' = wjob
        /\ UNCHANGED <<proc, orphans>>
    BY <1>0, <1>2, StartsFresh DEF StartExec, LeaseFollowsWorker
  <2>2. \A j \in Jobs : Executing(j) => Executing(j)'
    BY <1>0, <1>2, <2>1 DEF StartExec, Executing, TypeOK
  <2>3. at' = at \/ (at' = [at EXCEPT ![wjob[w]] = lease[w]] /\ Executing(wjob[w])')
    BY <1>0, <1>2, <2>1 DEF StartExec, Executing, TypeOK
  <2> QED
    BY <1>0, <2>1, <2>2, <2>3 DEF LeftBehind, TypeOK
<1>3. ASSUME NEW w \in Workers, ExecDone(w) \/ ExecFails(w)
      PROVE  LeftBehind'
  <2>1. /\ UNCHANGED <<at, proc, wjob>>
        /\ orphans \subseteq orphans'
        /\ proc[wjob[w]] \in {"ok", "failed"} \/ wjob[w] \in orphans'
        /\ \A v \in Workers \ {w} : pc'[v] = pc[v]
    BY <1>0, <1>3 DEF ExecDone, ExecFails, EndExec, procVars, TypeOK
  <2>2. \A j \in Jobs \ {wjob[w]} : Executing(j) => Executing(j)'
    BY <2>1 DEF Executing
  <2> QED
    BY <2>1, <2>2 DEF LeftBehind
<1>4. ASSUME NEW i \in Jobs, ProcessStep(i)
      PROVE  LeftBehind'
  <2>1. /\ UNCHANGED <<at, orphans, pc, wjob>> /\ at[i] # NoId
        /\ \A j \in Jobs : proc'[j] = proc[j] \/ (j = i /\ proc[j] \notin {"ok", "failed"})
    BY <1>0, <1>4 DEF ProcStarts, ProcBuilds, ProcRuns, ProcEnds, ProcMoves, ProcessStep,
                      workVars, TypeOK
  <2>2. \A j \in Jobs : Executing(j)' <=> Executing(j)
    BY <2>1 DEF Executing
  <2> QED
    BY <2>1, <2>2 DEF LeftBehind
<1> QED
  BY <1>1, <1>2, <1>3, <1>4, ProcSteps

LEMMA RunsItsOwnNext ==
  PoolInv /\ ExecutionsApart /\ ProcInv /\ [Next]_vars => RunsItsOwn'
<1> SUFFICES ASSUME PoolInv, ExecutionsApart, ProcInv, [Next]_vars,
                    NEW j \in Jobs, Executing(j)', ~Disturbed(j)'
             PROVE  /\ proc'[j] = "built" => prog'[at'[j]] = j
                    /\ proc'[j] \in {"running", "ok"} => ran'[j] = j
  BY DEF RunsItsOwn
<1>0. TypeOK /\ StartedOnce /\ LeftBehind
  BY DEF PoolInv, ProcInv
\* A job that was executed before, and was not disturbed.
<1>1. CASE Executing(j)
  <2>1. at[j] # NoId
    BY <1>1 DEF PoolInv, LeaseFollowsWorker, Executing
  <2>2. ~Disturbed(j) /\ at'[j] = at[j] /\ at[j] \in Ids
    BY <1>0, <2>1, DisturbedStays, AtStays DEF TypeOK
  <2>3. /\ proc[j] = "built" => prog[at[j]] = j
        /\ proc[j] \in {"running", "ok"} => ran[j] = j
    BY <1>1, <2>2 DEF ProcInv, RunsItsOwn
  <2>4. CASE UNCHANGED <<proc, prog, ran>>
    BY <2>2, <2>3, <2>4
  <2>5. CASE ProcessStep(j)
    <3>1. CASE ProcBuilds(j)
      <4>1. proc'[j] = "built" /\ prog'[at[j]] = j
        BY <1>0, <2>2, <3>1 DEF ProcBuilds, ProcMoves, TypeOK
      <4> QED
        BY <2>2, <4>1
    <3>2. CASE ProcRuns(j)
      <4>1. proc[j] = "built" /\ proc'[j] = "running" /\ ran'[j] = prog[at[j]]
        BY <1>0, <3>2 DEF ProcRuns, ProcMoves, TypeOK
      <4> QED
        BY <2>3, <4>1
    <3>3. CASE ProcStarts(j) \/ ProcEnds(j)
      <4>1. UNCHANGED <<prog, ran>>
        BY <3>3 DEF ProcStarts, ProcEnds
      <4>2. proc'[j] # "built" /\ (proc'[j] \in {"running", "ok"} => proc[j] = "running")
        BY <1>0, <3>3 DEF ProcStarts, ProcEnds, ProcMoves, TypeOK
      <4> QED
        BY <2>3, <4>1, <4>2
    <3> QED
      BY <2>5, <3>1, <3>2, <3>3 DEF ProcessStep
  \* Another process that builds in the container would have been left behind.
  <2>6. ASSUME NEW i \in Jobs \ {j}, ProcessStep(i)
        PROVE  UNCHANGED <<proc[j], prog[at[j]], ran[j]>>
    <3>1. proc'[j] = proc[j] /\ ran'[j] = ran[j]
      BY <1>0, <2>6 DEF ProcStarts, ProcBuilds, ProcRuns, ProcEnds, ProcMoves,
         ProcessStep, TypeOK
    <3>2. CASE ProcBuilds(i)
      <4>1. at[i] # NoId /\ proc[i] = "building" /\ prog' = [prog EXCEPT ![at[i]] = i]
        BY <3>2 DEF ProcBuilds, ProcMoves
      <4>2. ASSUME at[i] = at[j]
            PROVE  FALSE
        <5>1. ~Executing(i)
          BY <1>1, <4>2 DEF ExecutionsApart
        <5>2. i \in orphans
          BY <1>0, <4>1, <5>1 DEF LeftBehind
        <5> QED
          BY <2>2, <4>2, <5>2 DEF Disturbed
      <4> QED
        <5>1. prog \in [Ids -> Jobs \cup {NoJob}]
          BY <1>0 DEF TypeOK
        <5> QED
          BY <2>2, <3>1, <4>1, <4>2, <5>1
    <3>3. CASE ~ProcBuilds(i)
      BY <2>2, <2>6, <3>1, <3>3 DEF ProcStarts, ProcRuns, ProcEnds, ProcessStep
    <3> QED
      BY <3>2, <3>3
  <2>7. (\E w \in Workers : StartExec(w) \/ ExecDone(w) \/ ExecFails(w))
        => UNCHANGED <<proc, prog, ran>>
    BY DEF StartExec, ExecDone, ExecFails, EndExec, procVars
  <2>8. CASE \E i \in Jobs \ {j} : ProcessStep(i)
    BY <2>2, <2>3, <2>6, <2>8
  <2> QED
    BY <2>4, <2>5, <2>7, <2>8, ProcSteps DEF procVars
\* A job that is started now has no process yet.
<1>2. CASE ~Executing(j)
  <2>1. PICK w \in Workers : StartExec(w)
    <3>1. ~\E i \in Jobs : ProcessStep(i)
      BY <1>2 DEF ProcStarts, ProcBuilds, ProcRuns, ProcEnds, ProcMoves, ProcessStep,
         workVars, Executing
    <3>2. ~\E w \in Workers : ExecDone(w) \/ ExecFails(w)
      BY <1>0, <1>2 DEF ExecDone, ExecFails, EndExec, Executing, TypeOK
    <3> QED
      BY <1>2, <3>1, <3>2, ProcSteps
  <2>2. j = wjob[w]
    BY <1>0, <1>2, <2>1 DEF StartExec, Executing, TypeOK
  <2>3. proc[j] = "none" /\ proc' = proc
    BY <1>0, <2>1, <2>2, StartsFresh DEF StartExec, LeftBehind
  <2> QED
    BY <2>3
<1> QED
  BY <1>1, <1>2

\* A success a worker is going to send, or has sent, is that of the job's process.
Good(j) == at[j] # NoId /\ proc[j] = "ok" /\ (ran[j] = j \/ Disturbed(j))
OutcomeIsOwn == \A w \in Workers : outcome[w] = "ok" => wjob[w] # NoJob /\ Good(wjob[w])
ResultIsOwn == \A j \in Jobs : result[j] = "ok" => Good(j)

LEMMA GoodStays ==
  ASSUME PoolInv, StartedOnce, [Next]_vars, NEW j \in Jobs, Good(j)
  PROVE  Good(j)'
<1>0. TypeOK
  BY DEF PoolInv
<1>1. at'[j] = at[j]
  BY AtStays DEF Good
<1>2. proc'[j] = proc[j] /\ ran'[j] = ran[j]
  <2>1. ASSUME NEW w \in Workers, StartExec(w) \/ ExecDone(w) \/ ExecFails(w)
        PROVE  UNCHANGED <<proc, ran>>
    BY <2>1 DEF StartExec, ExecDone, ExecFails, EndExec, procVars
  <2>2. ASSUME NEW i \in Jobs, ProcessStep(i)
        PROVE  proc'[j] = proc[j] /\ ran'[j] = ran[j]
    BY <1>0, <2>2
       DEF Good, ProcStarts, ProcBuilds, ProcRuns, ProcEnds, ProcMoves, ProcessStep, TypeOK
  <2> QED
    BY <2>1, <2>2, ProcSteps DEF procVars
<1> QED
  BY <1>1, <1>2, DisturbedStays DEF Good

LEMMA SuccessNext ==
  PoolInv /\ ProcInv /\ OutcomeIsOwn /\ ResultIsOwn /\ [Next]_vars => OutcomeIsOwn' /\ ResultIsOwn'
<1> SUFFICES ASSUME PoolInv, ProcInv, OutcomeIsOwn, ResultIsOwn, [Next]_vars
             PROVE  OutcomeIsOwn' /\ ResultIsOwn'
  OBVIOUS
<1>0. TypeOK /\ WorkerHasJob /\ StartedOnce
  BY DEF PoolInv, ProcInv
\* What was a success stays one.
<1>1. ASSUME \A w \in Workers : outcome'[w] = "ok" => outcome[w] = "ok" /\ wjob'[w] = wjob[w],
             \A j \in Jobs : result'[j] = "ok" =>
               result[j] = "ok" \/ \E w \in Workers : wjob[w] = j /\ outcome[w] = "ok"
      PROVE  OutcomeIsOwn' /\ ResultIsOwn'
  <2>1. ASSUME NEW w \in Workers, outcome[w] = "ok"
        PROVE  wjob[w] \in Jobs /\ wjob[w] # NoJob /\ Good(wjob[w])
    BY <1>0, <2>1 DEF OutcomeIsOwn, TypeOK
  <2>2. \A j \in Jobs : Good(j) => Good(j)'
    BY <1>0, GoodStays
  <2>3. ASSUME NEW w \in Workers, outcome'[w] = "ok"
        PROVE  wjob'[w] # NoJob /\ Good(wjob[w])'
    <3>1. PICK j \in Jobs : j = wjob[w]
      BY <1>1, <2>1, <2>3
    <3>2. wjob'[w] = j /\ j # NoJob /\ Good(j)'
      BY <1>1, <2>1, <2>2, <2>3, <3>1
    <3> QED
      BY <3>2 DEF Good, Disturbed
  <2>4. OutcomeIsOwn'
    BY <2>3 DEF OutcomeIsOwn
  <2>5. ASSUME NEW j \in Jobs, result'[j] = "ok"
        PROVE  Good(j)'
    BY <1>1, <2>1, <2>2, <2>5 DEF ResultIsOwn
  <2> QED
    BY <2>4, <2>5 DEF ResultIsOwn
<1>2. CASE UNCHANGED <<wjob, outcome, result>>
  BY <1>1, <1>2
<1>3. ASSUME NEW w \in Workers, WorkerStep(w)
      PROVE  OutcomeIsOwn' /\ ResultIsOwn'
  <2>1. CASE TakeJob(w)
    <3>1. /\ outcome' = outcome /\ result' = result
          /\ \A v \in Workers \ {w} : wjob'[v] = wjob[v]
      BY <1>0, <2>1 DEF TakeJob, callVars, TypeOK
    <3>2. outcome[w] # "ok"
      BY <1>0, <2>1 DEF TakeJob, WorkerHasJob, OutcomeIsOwn
    <3> QED
      BY <1>1, <3>1, <3>2
  <2>2. CASE AcquireFails(w) \/ StartExec(w) \/ ExecFails(w)
    <3>1. /\ UNCHANGED <<wjob, result>>
          /\ outcome' = outcome \/ outcome' = [outcome EXCEPT ![w] = "failed"]
      BY <2>2 DEF AcquireFails, StartExec, ExecFails, EndExec, callVars
    <3> QED
      BY <1>0, <1>1, <3>1 DEF TypeOK
  <2>3. CASE ExecDone(w)
    <3>1. /\ UNCHANGED <<wjob, result, at, proc, ran>>
          /\ outcome' = [outcome EXCEPT ![w] = proc[wjob[w]]]
          /\ pc[w] = "running"
      BY <2>3 DEF ExecDone, EndExec, callVars, procVars
    <3>2. wjob[w] # NoJob /\ wjob[w] \in Jobs
      BY <1>0, <3>1 DEF WorkerHasJob, TypeOK
    <3>3. proc[wjob[w]] = "ok" => Good(wjob[w])
      <4>1. Executing(wjob[w]) /\ at[wjob[w]] # NoId
        BY <3>1 DEF Executing, PoolInv, LeaseFollowsWorker
      <4> QED
        BY <3>2, <4>1 DEF ProcInv, RunsItsOwn, Good
    <3>4. \A j \in Jobs : Good(j) => Good(j)'
      BY <1>0, GoodStays
    <3>5. ASSUME NEW v \in Workers, outcome'[v] = "ok"
          PROVE  wjob[v] # NoJob /\ wjob[v] \in Jobs /\ Good(wjob[v])
      <4>1. CASE v = w
        BY <1>0, <3>1, <3>2, <3>3, <3>5, <4>1 DEF TypeOK
      <4>2. CASE v # w
        BY <1>0, <3>1, <3>5, <4>2 DEF TypeOK, OutcomeIsOwn
      <4> QED
        BY <4>1, <4>2
    <3>6. OutcomeIsOwn'
      <4>1. ASSUME NEW v \in Workers, outcome'[v] = "ok"
            PROVE  wjob'[v] # NoJob /\ Good(wjob[v])'
        <5>1. PICK j \in Jobs : j = wjob[v]
          BY <3>5, <4>1
        <5>2. wjob'[v] = j /\ j # NoJob /\ Good(j)'
          BY <3>1, <3>4, <3>5, <4>1, <5>1
        <5> QED
          BY <5>2 DEF Good, Disturbed
      <4> QED
        BY <4>1 DEF OutcomeIsOwn
    <3>7. ResultIsOwn'
      BY <3>1, <3>4 DEF ResultIsOwn
    <3> QED
      BY <3>6, <3>7
  <2>4. CASE SendResult(w)
    <3>1. /\ result' = [result EXCEPT ![wjob[w]] = outcome[w]]
          /\ outcome'[w] = "none"
          /\ \A v \in Workers \ {w} : outcome'[v] = outcome[v] /\ wjob'[v] = wjob[v]
      BY <1>0, <2>4 DEF SendResult, TypeOK
    <3> QED
      BY <1>0, <1>1, <3>1 DEF TypeOK
  <2>5. CASE ExitWorker(w) \/ Release(w) \/ \E id \in Ids : Acquire(w, id)
    BY <1>2, <2>5 DEF ExitWorker, Release, Acquire, callVars
  <2> QED
    BY <1>3, <2>1, <2>2, <2>3, <2>4, <2>5 DEF WorkerStep
<1>4. ASSUME NEW j \in Jobs,
             CallerStep(j) \/ WatchRemoves(j) \/ WatchEnds(j) \/ ProcessStep(j)
      PROVE  OutcomeIsOwn' /\ ResultIsOwn'
  BY <1>2, <1>4
     DEF CallerStep, SubmitAccept, SubmitReject, SubmitClosed, Return, WatchRemoves,
        WatchEnds, ProcStarts, ProcBuilds, ProcRuns, ProcEnds, ProcMoves, ProcessStep,
        callVars, workVars
<1>5. CASE ShutdownStep \/ ManagerStep \/ DaemonStep \/ UNCHANGED vars
  BY <1>2, <1>5 DEF ShutdownStep, CloseShutdownChan, CloseJobs, LockContainers,
     ClearContainers, ShutdownTo, ManagerStep, DaemonStep, callVars, workVars, poolVars,
     vars
<1> QED
  BY <1>3, <1>4, <1>5 DEF Next

\* A job succeeds only by the end of its own process with status 0, and that has run
\* the program of the job, although containers, and the files in them, are passed on
\* from job to job: unless a process an earlier job has left behind, or an earlier run
\* of the pool, was in the same container.
THEOREM PoolSuccessIsOwn == Spec => []SuccessIsOwn
<1>1. Init => ProcInv /\ OutcomeIsOwn /\ ResultIsOwn
  BY DEF Init, ProcInv, StartedOnce, LeftBehind, RunsItsOwn, Executing, OutcomeIsOwn,
     ResultIsOwn
<1>2. PoolInv /\ ExecutionsApart /\ ProcInv /\ [Next]_vars => ProcInv'
  BY StartedOnceNext, LeftBehindNext, RunsItsOwnNext DEF ProcInv
<1>3. OutcomeIsOwn /\ ResultIsOwn => SuccessIsOwn
  BY DEF OutcomeIsOwn, ResultIsOwn, SuccessIsOwn, HeldBy, Good
<1> QED
  BY <1>1, <1>2, <1>3, PoolInvariant, PoolExecutesApart, SuccessNext, PTL DEF Spec

-----------------------------------------------------------------------------
(* The pool is a worker.WorkerPool.                                        *)

\* The monitor is always among the goroutines wg counts.
NotDone == down # "done"

LEMMA MonitorIsCounted ==
  ASSUME NEW w \in Workers \cup {NoJob}, NEW state
  PROVE  AfterDone(w, state) = state
BY ExecutorPoolAssumption DEF AfterDone, Counted

LEMMA NotDoneNext == NotDone /\ [Next]_vars => NotDone'
<1> SUFFICES ASSUME NotDone, [Next]_vars PROVE NotDone'
  OBVIOUS
<1>1. CASE UNCHANGED down
  BY <1>1 DEF NotDone
<1>2. ASSUME NEW w \in Workers, WorkerStep(w)
      PROVE  NotDone'
  <2>1. CASE ExitWorker(w)
    BY <2>1, MonitorIsCounted DEF ExitWorker, NotDone
  <2> QED
    BY <1>1, <1>2, <2>1
       DEF WorkerStep, TakeJob, Acquire, AcquireFails, StartExec, ExecDone, ExecFails,
          EndExec, Release, SendResult
<1>3. CASE ShutdownStep
  BY <1>3, MonitorIsCounted
     DEF ShutdownStep, CloseShutdownChan, CloseJobs, LockContainers, ClearContainers,
         ShutdownTo, NotDone
<1> QED
  BY <1>1, <1>2, <1>3
     DEF Next, CallerStep, SubmitAccept, SubmitReject, SubmitClosed, Return, WatchRemoves,
         WatchEnds, ProcStarts, ProcBuilds, ProcRuns, ProcEnds, ProcMoves, ProcessStep,
         ManagerStep, DaemonStep, poolVars, callVars, workVars, execVars, procVars, vars

\* Shutdown never returns: it waits for the monitor, whose loop has no way out.
\* So the property ShutdownCompletes fails for every value of the constants as
\* soon as Shutdown is called.
THEOREM ShutdownNeverReturns == Spec => [](down # "done")
<1>1. Init => NotDone
  BY DEF Init, NotDone
<1>2. NotDone => down # "done"
  BY DEF NotDone
<1> QED
  BY <1>1, <1>2, NotDoneNext, PTL DEF Spec

\* The jobs the workers have are those in Held.
LEMMA HeldIsWjob ==
  ASSUME WorkerHasJob
  PROVE  Held = {wjob[w] : w \in {v \in Workers : wjob[v] # NoJob}}
BY DEF Held, WorkerHasJob

\* A worker that selects leaves room for one more job.
LEMMA RoomToTake ==
  ASSUME TypeOK, NEW w \in Workers, pc[w] = "select"
  PROVE  Cardinality(Held) < MaxWorkers
<1> DEFINE busy == {v \in Workers : pc[v] \notin {"select", "exited"}}
           take == [v \in busy |-> wjob[v]]
<1>1. IsFiniteSet(Workers) /\ Cardinality(Workers) = MaxWorkers /\ MaxWorkers \in Nat
  BY ExecutorPoolAssumption, ContainerManagerAssumption
<1>2. IsFiniteSet(Workers \ {w}) /\ Cardinality(Workers \ {w}) = MaxWorkers - 1
  BY <1>1, FS_RemoveElement
<1>3. busy \in SUBSET (Workers \ {w})
  OBVIOUS
<1>4. IsFiniteSet(busy) /\ Cardinality(busy) <= MaxWorkers - 1
  BY <1>2, <1>3, FS_Subset
<1>5. take \in Surjection(busy, Held)
  BY DEF Held, Surjection
<1>6. IsFiniteSet(Held) /\ Cardinality(Held) <= Cardinality(busy)
  BY <1>4, <1>5, FS_Surjection
<1>7. Cardinality(Held) \in Nat /\ Cardinality(busy) \in Nat
  BY <1>4, <1>6, FS_CardinalityType
<1> QED
  BY <1>1, <1>4, <1>6, <1>7

LEMMA InitRefines == Init => Service!Init
BY ExecutorPoolAssumption DEF Init, Service!Init, Held

\* A job of the abstract specification is new while it is idle here.
LEMMA IdleIsUnseen ==
  ASSUME PoolInv, NEW j \in Jobs, caller[j] = "idle"
  PROVE  j \notin Service!Seen
<1>1. ~(\E i \in 1..Len(jobs) : jobs[i] = j) /\ HeldBy(j) = {}
  BY DEF PoolInv, JobConservation, OnePlace
<1>2. result[j] = "none"
  BY DEF PoolInv, ResultIsAwaited
<1>3. j \notin Held
  BY <1>1 DEF Held, HeldBy
<1> QED
  BY <1>1, <1>2, <1>3 DEF Service!Seen

LEMMA NextRefines == PoolInv /\ NotDone /\ [Next]_vars => [Service!Next]_Service!vars
<1> SUFFICES ASSUME PoolInv, NotDone, [Next]_vars
             PROVE  Service!Next \/ UNCHANGED Service!vars
  OBVIOUS
<1> DEFINE answered == {j \in Jobs : result[j] # "none"}
           refused == {j \in Jobs : caller[j] = "rejected"}
<1>0. TypeOK /\ WorkerHasJob /\ JobConservation /\ NotDone'
  BY NotDoneNext DEF PoolInv
<1>1. ASSUME NEW j \in Jobs, SubmitAccept(j)
      PROVE  Service!Next
  <2>1. Held' = Held /\ answered' = answered /\ down' = down
    BY <1>1 DEF SubmitAccept, Held, workVars
  <2>2. refused' = refused
    BY <1>0, <1>1 DEF SubmitAccept, TypeOK
  <2>3. j \notin Service!Seen
    BY <1>1, IdleIsUnseen DEF SubmitAccept
  <2>4. Service!Accept(j)
    BY <1>1, <2>1, <2>2, <2>3 DEF SubmitAccept, Service!Accept
  <2> QED
    BY <2>4 DEF Service!Next
<1>2. ASSUME NEW j \in Jobs, SubmitReject(j)
      PROVE  Service!Next
  <2>1. Held' = Held /\ answered' = answered /\ down' = down /\ jobs' = jobs
    BY <1>2 DEF SubmitReject, Held, workVars
  <2>2. refused' = refused \cup {j}
    BY <1>0, <1>2 DEF SubmitReject, TypeOK
  <2>3. j \notin Service!Seen
    BY <1>2, IdleIsUnseen DEF SubmitReject
  <2>4. Len(jobs) = MaxJobCount
    BY <1>0, <1>2, ExecutorPoolAssumption DEF SubmitReject, TypeOK
  <2>5. Service!Refuse(j)
    BY <2>1, <2>2, <2>3, <2>4 DEF Service!Refuse
  <2> QED
    BY <2>5 DEF Service!Next
\* What a caller that gets its result or panics does is not seen.
<1>3. ASSUME NEW j \in Jobs, SubmitClosed(j) \/ Return(j)
      PROVE  UNCHANGED Service!vars
  <2>1. refused' = refused
    BY <1>0, <1>3 DEF SubmitClosed, Return, TypeOK, callVars
  <2>2. Held' = Held /\ answered' = answered /\ down' = down /\ jobs' = jobs
    BY <1>3 DEF SubmitClosed, Return, Held, workVars, callVars
  <2> QED
    BY <2>1, <2>2 DEF Service!vars
<1>4. ASSUME NEW w \in Workers, TakeJob(w)
      PROVE  Service!Next
  <2>1. Head(jobs) \in Jobs /\ jobs # <<>>
    BY <1>0, <1>4 DEF TakeJob, TypeOK
  <2>2. Held' = Held \cup {Head(jobs)}
    <3>1. pc[w] = "select" /\ pc'[w] = "acquire" /\ \A v \in Workers \ {w} : pc'[v] = pc[v]
      BY <1>0, <1>4 DEF TakeJob, TypeOK
    <3>2. wjob'[w] = Head(jobs) /\ \A v \in Workers \ {w} : wjob'[v] = wjob[v]
      BY <1>0, <1>4 DEF TakeJob, TypeOK
    <3> QED
      BY <3>1, <3>2 DEF Held
  <2>3. Service!Cardinality(Held) < MaxWorkers
    <3>1. Service!Cardinality(Held) = Cardinality(Held)
      BY DEF Service!Cardinality, Cardinality
    <3> QED
      BY <1>0, <1>4, <3>1, RoomToTake DEF TakeJob
  <2>4. jobs' = Tail(jobs) /\ answered' = answered /\ refused' = refused /\ down' = down
    BY <1>4 DEF TakeJob, callVars
  <2>5. Service!Dispatch
    BY <2>1, <2>2, <2>3, <2>4 DEF Service!Dispatch, NotDone
  <2> QED
    BY <2>5 DEF Service!Next
<1>5. ASSUME NEW w \in Workers, SendResult(w)
      PROVE  Service!Next
  <2>0. PICK h : h = wjob[w]
    OBVIOUS
  <2>1. h \in Jobs /\ h # NoJob /\ h \in Held
    BY <1>0, <1>5, <2>0 DEF SendResult, WorkerHasJob, TypeOK, Held
  <2>2. Held' = Held \ {h}
    <3>1. pc[w] = "send" /\ pc'[w] = "select" /\ \A v \in Workers \ {w} : pc'[v] = pc[v]
      BY <1>0, <1>5 DEF SendResult, TypeOK
    <3>2. \A v \in Workers \ {w} : wjob'[v] = wjob[v] /\ wjob[v] # h
      BY <1>0, <1>5, <2>0, <2>1 DEF SendResult, TypeOK, JobConservation
    <3> QED
      BY <2>0, <3>1, <3>2 DEF Held
  <2>3. answered' = answered \cup {h}
    <3>1. outcome[w] # "none"
      BY <1>0, <1>5 DEF SendResult, WorkerHasJob
    <3> QED
      BY <1>0, <1>5, <2>0, <2>1, <3>1 DEF SendResult, TypeOK
  <2>4. jobs' = jobs /\ refused' = refused /\ down' = down
    BY <1>5 DEF SendResult
  <2>5. Service!Answer(h)
    BY <2>1, <2>2, <2>3, <2>4 DEF Service!Answer
  <2> QED
    BY <2>1, <2>5 DEF Service!Next
\* Between the take and the result a worker keeps its job.
<1>6. ASSUME NEW w \in Workers, WorkerStep(w), ~TakeJob(w), ~SendResult(w)
      PROVE  UNCHANGED Service!vars
  <2>1. UNCHANGED <<jobs, caller, result, wjob>>
    BY <1>6 DEF WorkerStep, ExitWorker, Acquire, AcquireFails, StartExec, ExecDone,
       ExecFails, EndExec, Release, callVars
  <2>2. WorkerHasJob'
    BY <1>0, <1>6, WorkerHasJobNext DEF Next
  <2>3. Held' = Held
    BY <1>0, <2>1, <2>2, HeldIsWjob DEF Held, WorkerHasJob
  <2> QED
    BY <1>0, <2>1, <2>3 DEF Service!vars, NotDone
<1>7. CASE \/ \E j \in Jobs : WatchRemoves(j) \/ WatchEnds(j) \/ ProcessStep(j)
           \/ ShutdownStep \/ ManagerStep \/ DaemonStep \/ UNCHANGED vars
  <2>1. UNCHANGED <<jobs, caller, result, pc, wjob>>
    BY <1>7
       DEF WatchRemoves, WatchEnds, ProcStarts, ProcBuilds, ProcRuns, ProcEnds, ProcMoves,
          ProcessStep, ShutdownStep, CloseShutdownChan, CloseJobs, LockContainers,
          ClearContainers, ShutdownTo, ManagerStep, DaemonStep, callVars, workVars,
          poolVars, execVars, procVars, vars
  <2> QED
    BY <1>0, <2>1 DEF Service!vars, Held, NotDone
<1> QED
  BY <1>1, <1>2, <1>3, <1>4, <1>5, <1>6, <1>7 DEF Next, CallerStep

\* The pool is a worker.WorkerPool: jobs are executed in the order they were
\* accepted, each once, at most MaxWorkers at a time, whatever happens to the
\* containers and however far Shutdown has come.
THEOREM PoolRefines == Spec => ImplementsJobService
<1>1. Init => NotDone
  BY DEF Init, NotDone
<1> QED
  BY <1>1, PoolInvariant, NotDoneNext, InitRefines, NextRefines, PTL
     DEF Spec, ImplementsJobService, Service!Spec

-----------------------------------------------------------------------------
(* What the pool therefore promises its callers.                           *)

Promise == INSTANCE JobService_proofs WITH
  Capacity <- MaxJobCount,
  pending <- jobs,
  running <- Held,
  answered <- {j \in Jobs : result[j] # "none"},
  refused <- {j \in Jobs : caller[j] = "rejected"},
  open <- (down # "done")

LEMMA WorkersCounted == MaxWorkers \in Nat
BY ExecutorPoolAssumption, FS_CardinalityType

LEMMA ServiceIsPromise == Service!Spec => Promise!Spec
<1>1. Service!Init => Promise!Init
  BY DEF Service!Init, Promise!Init
<1>2. Service!Cardinality(Held) = Promise!Cardinality(Held)
  BY DEF Service!Cardinality, Promise!Cardinality
<1>3. [Service!Next]_Service!vars => [Promise!Next]_Promise!vars
  BY <1>2
     DEF Service!Next, Promise!Next, Service!vars, Promise!vars, Service!Seen, Promise!Seen,
         Service!Accept, Promise!Accept, Service!Refuse, Promise!Refuse, Service!Answer,
         Promise!Answer, Service!Dispatch, Promise!Dispatch, Service!Stop, Promise!Stop
<1> QED
  BY <1>1, <1>3, PTL DEF Service!Spec, Promise!Spec

\* A call of ExecuteJob is at one stage at a time; the queue and the workers
\* stay within the configuration; an answer or a refusal is final; the queue is
\* served in turn.
THEOREM ExecutorKeepsPromises ==
  Spec => /\ []Service!OneStage /\ []Service!WithinLimits
          /\ Service!VerdictsAreFinal /\ Service!FirstComeFirstServed
<1>1. Spec => Promise!Spec
  BY PoolRefines, ServiceIsPromise DEF ImplementsJobService
<1>2. Promise!Spec => /\ []Promise!OneStage /\ []Promise!WithinLimits
                      /\ Promise!VerdictsAreFinal /\ Promise!FirstComeFirstServed
  BY ExecutorPoolAssumption, WorkersCounted, Promise!CallsAreAtOneStage,
     Promise!LimitsAreKept, Promise!VerdictsStay, Promise!QueueInTurn
<1>3. Promise!OneStage => Service!OneStage
  BY DEF Service!OneStage, Promise!OneStage, Service!Pending, Promise!Pending
<1>4. Promise!WithinLimits => Service!WithinLimits
  <2>1. Service!Cardinality(Held) = Promise!Cardinality(Held)
    BY DEF Service!Cardinality, Promise!Cardinality
  <2> QED
    BY <2>1 DEF Service!WithinLimits, Promise!WithinLimits
<1>5. Promise!VerdictsAreFinal => Service!VerdictsAreFinal
  <2>1. [Promise!VerdictsKept]_Promise!vars => [Service!VerdictsKept]_Service!vars
    BY DEF Service!vars, Promise!vars, Service!VerdictsKept, Promise!VerdictsKept
  <2> QED
    BY <2>1, PTL DEF Service!VerdictsAreFinal, Promise!VerdictsAreFinal
<1>6. Promise!FirstComeFirstServed => Service!FirstComeFirstServed
  <2>1. [Promise!InTurn]_Promise!vars => [Service!InTurn]_Service!vars
    BY DEF Service!vars, Promise!vars, Service!InTurn, Promise!InTurn
  <2> QED
    BY <2>1, PTL DEF Service!FirstComeFirstServed, Promise!FirstComeFirstServed
<1> QED
  BY <1>1, <1>2, <1>3, <1>4, <1>5, <1>6, PTL

\* What the pool lends its workers is what ContainerLeases promises.
THEOREM PoolLendsContainers == Spec => ImplementsContainerLeases
BY PoolImplementsManager, ManagerProvidesLeases, PTL DEF ImplementsContainerManager

-----------------------------------------------------------------------------
(* What holds up a worker, and for how long.                               *)

\* The send of a result never blocks: every job has a channel of its own.
ResultsFindRoom == \A w \in Workers : pc[w] = "send" => result[wjob[w]] = "none"

THEOREM SendsNeverBlock == Spec => []ResultsFindRoom
<1>1. PoolInv => ResultsFindRoom
  <2> SUFFICES ASSUME PoolInv, NEW w \in Workers, pc[w] = "send"
               PROVE  result[wjob[w]] = "none"
    BY DEF ResultsFindRoom
  <2>1. wjob[w] \in Jobs /\ HeldBy(wjob[w]) # {}
    BY DEF PoolInv, WorkerHasJob, TypeOK, HeldBy
  <2> QED
    BY <2>1 DEF PoolInv, JobConservation, OnePlace
<1> QED
  BY <1>1, PoolInvariant, PTL

LEMMA GetsOnNext == PoolInv /\ [Next]_vars => [GetsOn]_vars
<1> SUFFICES ASSUME PoolInv, Next, NEW w \in Workers, wjob[w] # NoJob
             PROVE  \/ wjob'[w] = wjob[w] /\ pc'[w] = pc[w] /\ tries'[w] = tries[w]
                    \/ wjob'[w] = wjob[w] /\ Effort(w)' > Effort(w)
                    \/ wjob'[w] = NoJob /\ result'[wjob[w]] # "none"
  BY DEF GetsOn
<1> USE ExecutorPoolAssumption
<1>0. /\ TypeOK /\ wjob[w] \in Jobs /\ pc[w] \notin {"select", "exited"}
      /\ tries[w] \in 0..(MaxRetries - 1)
  BY DEF PoolInv, WorkerHasJob, TypeOK
<1>1. CASE UNCHANGED <<wjob, pc, tries>>
  BY <1>1
<1>2. ASSUME NEW v \in Workers, v # w, WorkerStep(v)
      PROVE  wjob'[w] = wjob[w] /\ pc'[w] = pc[w] /\ tries'[w] = tries[w]
  BY <1>0, <1>2
     DEF WorkerStep, TakeJob, ExitWorker, Acquire, AcquireFails, StartExec, ExecDone,
         ExecFails, EndExec, Release, SendResult, TypeOK
<1>3. ASSUME NEW id \in Ids, Acquire(w, id)
      PROVE  wjob'[w] = wjob[w] /\ Effort(w)' > Effort(w)
  BY <1>0, <1>3 DEF Acquire, Effort, TypeOK
<1>4. CASE AcquireFails(w)
  BY <1>0, <1>4 DEF AcquireFails, Effort, TypeOK
<1>5. CASE StartExec(w)
  BY <1>0, <1>5 DEF StartExec, Effort, TypeOK
<1>6. CASE ExecDone(w) \/ ExecFails(w)
  BY <1>0, <1>6 DEF ExecDone, ExecFails, EndExec, Effort, TypeOK
<1>7. CASE Release(w)
  BY <1>0, <1>7 DEF Release, Effort, TypeOK
<1>8. CASE SendResult(w)
  <2>1. outcome[w] # "none"
    BY <1>8 DEF SendResult, PoolInv, WorkerHasJob
  <2> QED
    BY <1>0, <1>8, <2>1 DEF SendResult, TypeOK
<1>9. ~TakeJob(w) /\ ~ExitWorker(w)
  BY <1>0 DEF TakeJob, ExitWorker
<1>10. UNCHANGED <<wjob, pc, tries>> \/ \E v \in Workers : WorkerStep(v)
  BY DEF Next, CallerStep, SubmitAccept, SubmitReject, SubmitClosed, Return, WatchRemoves,
         WatchEnds, ProcStarts, ProcBuilds, ProcRuns, ProcEnds, ProcMoves, ProcessStep,
         ShutdownStep, CloseShutdownChan, CloseJobs, LockContainers, ClearContainers,
         ShutdownTo, ManagerStep, DaemonStep, workVars, poolVars, callVars, execVars,
         procVars
<1> QED
  BY <1>1, <1>2, <1>3, <1>4, <1>5, <1>6, <1>7, <1>8, <1>9, <1>10 DEF WorkerStep

\* A job takes its worker MaxRetries + 4 steps at most.
THEOREM WorkersGetOn == Spec => WorkIsBounded
BY PoolInvariant, GetsOnNext, PTL DEF Spec, WorkIsBounded

-----------------------------------------------------------------------------
(* Every job is answered.                                                  *)

\* cm.mu is held across steps by Shutdown only; the workers leave their loops
\* only for a Shutdown; a call that waits has found the pool ready.
LoopInv ==
  /\ mu <=> down = "clearing"
  /\ down = "up" => \A w \in Workers : pc[w] # "exited"
  /\ \A j \in Jobs : caller[j] = "waiting" => Ready

LEMMA LoopInvNext == PoolInv /\ LoopInv /\ [Next]_vars => LoopInv'
<1> SUFFICES ASSUME PoolInv, LoopInv, [Next]_vars PROVE LoopInv'
  OBVIOUS
<1>0. TypeOK /\ CMTypeOK
  BY DEF PoolInv, TypeOK
<1>1. Ready => Ready'
  BY <1>0, ReadyStays, ManagerSimulation
<1>2. ASSUME UNCHANGED caller
      PROVE  \A j \in Jobs : caller'[j] = "waiting" => Ready'
  BY <1>1, <1>2 DEF LoopInv
<1>3. ASSUME NEW j \in Jobs, CallerStep(j)
      PROVE  LoopInv'
  BY <1>0, <1>1, <1>3
     DEF CallerStep, SubmitAccept, SubmitReject, SubmitClosed, Return, LoopInv, TypeOK,
        cmVars, workVars, callVars
<1>4. ASSUME NEW w \in Workers, WorkerStep(w)
      PROVE  LoopInv'
  <2>1. UNCHANGED <<mu, caller>>
    BY <1>4 DEF WorkerStep, TakeJob, ExitWorker, Acquire, GetAvailableContainer,
       AcquireFails, StartExec, ExecDone, ExecFails, EndExec, Release, ReleaseContainer,
       SendResult, cmVars, callVars, clientVars
  <2>2. CASE ExitWorker(w)
    BY <1>2, <2>1, <2>2, MonitorIsCounted DEF ExitWorker, LoopInv
  <2>3. CASE ~ExitWorker(w)
    <3>1. down' = down /\ \A v \in Workers : pc'[v] = "exited" => pc[v] = "exited"
      BY <1>0, <1>4, <2>3
         DEF WorkerStep, TakeJob, Acquire, AcquireFails, StartExec, ExecDone, ExecFails,
             EndExec, Release, SendResult, TypeOK
    <3> QED
      BY <1>2, <2>1, <3>1 DEF LoopInv
  <2> QED
    BY <2>2, <2>3
<1>5. CASE ShutdownStep
  BY <1>2, <1>5, MonitorIsCounted
     DEF ShutdownStep, CloseShutdownChan, CloseJobs, LockContainers, ClearContainers,
         ShutdownTo, ShutdownContainers, ShutdownRegistry, LoopInv, cmVars, callVars,
         workVars
<1>6. CASE ManagerStep \/ DaemonStep
  <2>1. UNCHANGED <<mu, poolVars>>
    BY <1>6 DEF ManagerStep, DaemonStep, MonitorStep, MonitorOwnStep, InitializePool,
                InitializeFails, FinishInitialize, StartNothing,
                RegisterContainer, StartFails, StartContainer, RemoveMarked, Tick,
                ListContainers, ListFails, ReadRegistry, MarkContainers, FinishRemove,
                FinishHealthCheck, RemoverStep, RemoveCall, RemoveDelete, ContainerExits,
                MapRace, clientVars
  <2> QED
    BY <1>2, <2>1 DEF LoopInv, poolVars, callVars, workVars, execVars, procVars
<1>7. ASSUME NEW j \in Jobs, WatchRemoves(j) \/ WatchEnds(j) \/ ProcessStep(j)
      PROVE  LoopInv'
  BY <1>2, <1>7
     DEF WatchRemoves, WatchEnds, ProcStarts, ProcBuilds, ProcRuns, ProcEnds, ProcMoves,
        ProcessStep, LoopInv, cmVars, callVars, workVars
<1>8. CASE UNCHANGED vars
  BY <1>2, <1>8 DEF vars, cmVars, poolVars, callVars, workVars, execVars, procVars, LoopInv
<1> QED
  BY <1>3, <1>4, <1>5, <1>6, <1>7, <1>8 DEF Next

LEMMA LoopInvariant == Spec => []LoopInv
<1>1. Init => LoopInv
  BY DEF Init, CMInit, LoopInv
<1> QED
  BY <1>1, LoopInvNext, PoolInvariant, PTL DEF Spec

\* The process stays aborted; Shutdown holds cm.mu once, until its next step.
Clearing == down = "clearing"
Past == down \in {"waiting", "done"}

LEMMA ShutdownStages ==
  ASSUME PoolInv, LoopInv, [Next]_vars
  PROVE  /\ ~Alive => ~Alive'
         /\ mu <=> Clearing
         /\ Past => Past' /\ ~mu
         /\ Clearing => Clearing' \/ Past'
<1>1. ~Alive => ~Alive'
  <2>1. ~Alive /\ Next => UNCHANGED <<fatal, panicked>>
    BY DEF Alive, Next, CallerStep, SubmitAccept, SubmitReject, SubmitClosed, Return,
           WatchRemoves, WatchEnds, ProcStarts, ProcBuilds, ProcRuns, ProcEnds, ProcMoves,
           ProcessStep, WorkerStep, TakeJob, ExitWorker, Acquire, AcquireFails, StartExec,
           ExecDone, ExecFails, EndExec, Release, SendResult, ShutdownStep,
           CloseShutdownChan, CloseJobs, LockContainers, ClearContainers, ShutdownTo,
           ManagerStep, DaemonStep, poolVars, callVars, workVars, execVars, procVars,
           MonitorStep, MonitorOwnStep, InitializePool, InitializeFails, FinishInitialize,
           StartNothing, RegisterContainer, StartFails, StartContainer,
           RemoveMarked, SpawnRemoval, Tick, ListContainers, ListFails, ReadRegistry,
           MarkContainers, FinishRemove, FinishHealthCheck, RemoverStep, RemoveCall,
           RemoveDelete, ContainerExits, MapRace, clientVars
  <2> QED
    BY <2>1 DEF Alive, vars, cmVars, poolVars, callVars, workVars, execVars, procVars
<1>2. CASE UNCHANGED down
  BY <1>1, <1>2, MonitorIsCounted
     DEF LoopInv, Past, Clearing, CloseJobs, LockContainers, ClearContainers, ShutdownTo
<1>3. ASSUME NEW w \in Workers, ExitWorker(w)
      PROVE  down' = down
  BY <1>3, MonitorIsCounted DEF ExitWorker
<1>4. CASE ShutdownStep
  BY <1>4, MonitorIsCounted
     DEF LoopInv, Past, Clearing, ShutdownStep, CloseShutdownChan, CloseJobs,
        LockContainers, ClearContainers, ShutdownTo
<1>5. UNCHANGED down \/ ShutdownStep
  BY <1>3 DEF Next, CallerStep, SubmitAccept, SubmitReject, SubmitClosed, Return,
     WatchRemoves, WatchEnds, ProcStarts, ProcBuilds, ProcRuns, ProcEnds, ProcMoves,
     ProcessStep, WorkerStep, TakeJob, Acquire, AcquireFails, StartExec, ExecDone,
     ExecFails, EndExec, Release, SendResult, ManagerStep, DaemonStep, poolVars, callVars,
     workVars, execVars, procVars, vars
<1> QED
  BY <1>1, <1>2, <1>4, <1>5

\* A worker has a job and is at least n steps on with it, or it has none.
Busy(w, n) == wjob[w] # NoJob /\ Effort(w) >= n
Free(w) == wjob[w] = NoJob

LEMMA BusySteps ==
  ASSUME NEW w \in Workers, NEW n \in Nat, PoolInv, Busy(w, n), [Next]_vars
  PROVE  /\ Busy(w, n)' \/ Free(w)'
         /\ <<WorkerStep(w)>>_vars => Busy(w, n + 1)' \/ Free(w)'
<1> USE ExecutorPoolAssumption
<1>1. TypeOK /\ TypeOK' /\ WorkerHasJob /\ WorkerHasJob'
  BY PoolInvNext DEF PoolInv
<1>2. Effort(w) \in Nat
  BY <1>1 DEF Effort, WorkerHasJob, TypeOK, Busy
<1>3. wjob'[w] # NoJob => Effort(w)' \in Nat
  BY <1>1 DEF Effort, WorkerHasJob, TypeOK
<1>4. pc'[w] = pc[w] /\ tries'[w] = tries[w] => Effort(w)' = Effort(w)
  BY DEF Effort
<1>5. \/ wjob'[w] = wjob[w] /\ pc'[w] = pc[w] /\ tries'[w] = tries[w]
      \/ wjob'[w] = wjob[w] /\ Effort(w)' > Effort(w)
      \/ wjob'[w] = NoJob
  <2>1. CASE UNCHANGED vars
    BY <2>1 DEF vars, poolVars, callVars, workVars, execVars, procVars
  <2>2. CASE ~UNCHANGED vars
    BY <2>2, GetsOnNext DEF GetsOn, Busy
  <2> QED
    BY <2>1, <2>2
<1>6. WorkerStep(w) => ~(pc'[w] = pc[w] /\ tries'[w] = tries[w])
  BY <1>1 DEF WorkerStep, TakeJob, ExitWorker, Acquire, AcquireFails, StartExec, ExecDone,
              ExecFails, EndExec, Release, SendResult, TypeOK
<1>7. Effort(w) >= n
  BY DEF Busy
<1>8. CASE wjob'[w] = NoJob
  BY <1>8 DEF Free
<1>9. CASE wjob'[w] = wjob[w] /\ wjob'[w] # NoJob
  <2>1. CASE pc'[w] = pc[w] /\ tries'[w] = tries[w]
    BY <1>4, <1>6, <1>7, <1>9, <2>1 DEF Busy
  <2>2. CASE Effort(w)' > Effort(w)
    <3>1. Effort(w)' >= n /\ Effort(w)' >= n + 1
      BY <1>2, <1>3, <1>7, <1>9, <2>2
    <3> QED
      BY <1>9, <3>1 DEF Busy
  <2> QED
    BY <1>5, <1>9, <2>1, <2>2
<1> QED
  BY <1>5, <1>8, <1>9

\* So whatever keeps it, a fair worker gets on with its job, by any number of
\* steps, unless the mutex is never given back: the provers cannot do induction over
\* a temporal formula, but doubling the number takes them far enough.
GetsTo(w, from, to) == Busy(w, from) ~> (Busy(w, to) \/ Free(w) \/ ~Alive \/ []mu)
GetsOnBy(w, d) == \A n \in Nat : GetsTo(w, n, n + d)
ComesBack(w) == Busy(w, 0) ~> (Free(w) \/ ~Alive \/ []mu)

LEMMA EachIsFair ==
  Fairness => (\A w \in Workers : WorkerFairness(w)) /\ (\A j \in Jobs : ReturnFairness(j))
BY PTL DEF Fairness

LEMMA WorkersAreReady ==
  ASSUME NEW w \in Workers, PoolInv, LoopInv, WorkerMoves(w), Alive, wjob[w] # NoJob, ~mu
  PROVE  ENABLED <<WorkerStep(w)>>_vars
<1>1. WorkerHasJob /\ TypeOK
  BY DEF PoolInv
<1>2. pc[w] \in {"acquire", "start", "running", "release", "send"}
  BY <1>1 DEF WorkerHasJob, TypeOK
<1>3. pc[w] = "send" => result[wjob[w]] = "none"
  <2>1. wjob[w] \in Jobs /\ HeldBy(wjob[w]) # {}
    BY <1>1 DEF TypeOK, HeldBy
  <2> QED
    BY <1>1, <2>1 DEF PoolInv, JobConservation, OnePlace, WorkerHasJob
<1> QED
  BY <1>2, <1>3 DEF WorkerMoves, WorkerReady

LEMMA OneStepOn ==
  ASSUME NEW w \in Workers, NEW n \in Nat, NEW m \in Nat, m = n + 1
  PROVE  FairSpec /\ []NothingElseBlocks => GetsTo(w, n, m)
<1>1. Fairness => WorkerFairness(w)
  BY EachIsFair
<1>2. NothingElseBlocks => WorkerMoves(w)
  BY DEF NothingElseBlocks
<1>3. PoolInv /\ LoopInv /\ WorkerMoves(w) /\ Alive /\ Busy(w, n) /\ ~mu
      => ENABLED <<WorkerStep(w)>>_vars
  BY WorkersAreReady DEF Busy
<1>4. PoolInv /\ Busy(w, n) /\ [Next]_vars
      => /\ Busy(w, n)' \/ Free(w)'
         /\ <<WorkerStep(w)>>_vars => Busy(w, m)' \/ Free(w)'
  BY BusySteps
<1>5. PoolInv /\ LoopInv /\ [Next]_vars
      => /\ ~Alive => ~Alive'
         /\ mu <=> Clearing
         /\ Past => Past' /\ ~mu
         /\ Clearing => Clearing' \/ Past'
  BY ShutdownStages
<1> QED
  BY <1>1, <1>2, <1>3, <1>4, <1>5, PoolInvariant, LoopInvariant, PTL
     DEF FairSpec, Spec, Fairness, WorkerFairness, GetsTo

LEMMA MoreStepsOn ==
  ASSUME NEW w \in Workers, NEW d \in Nat
  PROVE  GetsOnBy(w, d) => GetsOnBy(w, 2 * d)
<1>1. ASSUME NEW n \in Nat, NEW k \in Nat, NEW m \in Nat
      PROVE  GetsTo(w, n, k) /\ GetsTo(w, k, m) => GetsTo(w, n, m)
  BY PTL DEF GetsTo
<1>2. ASSUME NEW n \in Nat
      PROVE  GetsOnBy(w, d) => GetsTo(w, n, n + 2 * d)
  <2>1. n + d \in Nat /\ n + 2 * d \in Nat /\ (n + d) + d = n + 2 * d
    OBVIOUS
  <2> QED
    BY <1>1, <2>1 DEF GetsOnBy
<1> QED
  BY <1>2 DEF GetsOnBy

\* GetAvailableContainer makes 10 attempts.
LEMMA WorkersComeBack ==
  ASSUME MaxRetries <= 1024, NEW w \in Workers
  PROVE  FairSpec /\ []NothingElseBlocks => ComesBack(w)
<1>1. FairSpec /\ []NothingElseBlocks => GetsOnBy(w, 1)
  <2>1. ASSUME NEW n \in Nat
        PROVE  FairSpec /\ []NothingElseBlocks => GetsTo(w, n, n + 1)
    BY OneStepOn
  <2> QED
    BY <2>1 DEF GetsOnBy
<1>2. GetsOnBy(w, 1) => GetsOnBy(w, 16)
  <2>1. 2 * 1 = 2 /\ 2 * 2 = 4 /\ 2 * 4 = 8 /\ 2 * 8 = 16
    OBVIOUS
  <2> QED
    BY <2>1, MoreStepsOn
<1>3. GetsOnBy(w, 16) => GetsOnBy(w, 256)
  <2>1. 2 * 16 = 32 /\ 2 * 32 = 64 /\ 2 * 64 = 128 /\ 2 * 128 = 256
    OBVIOUS
  <2> QED
    BY <2>1, MoreStepsOn
<1>4. GetsOnBy(w, 256) => GetsOnBy(w, 2048)
  <2>1. 2 * 256 = 512 /\ 2 * 512 = 1024 /\ 2 * 1024 = 2048
    OBVIOUS
  <2> QED
    BY <2>1, MoreStepsOn
<1>5. GetsOnBy(w, 2048) => GetsTo(w, 0, 2048)
  <2>1. 0 \in Nat /\ 0 + 2048 = 2048
    OBVIOUS
  <2> QED
    BY <2>1 DEF GetsOnBy
<1>6. PoolInv => ~Busy(w, 2048)
  BY ExecutorPoolAssumption DEF PoolInv, TypeOK, WorkerHasJob, Busy, Effort
<1> QED
  BY <1>1, <1>2, <1>3, <1>4, <1>5, <1>6, PoolInvariant, PTL DEF FairSpec, GetsTo, ComesBack

Sent(j) == result[j] # "none"
Returned(j) == caller[j] = "returned"
Holds(w, j) == wjob[w] = j

\* An answer that was sent is returned.
LEMMA SentIsReturned ==
  ASSUME NEW j \in Jobs
  PROVE  FairSpec /\ []NothingElseBlocks => (Sent(j) ~> (Returned(j) \/ ~Alive))
<1>1. Fairness => ReturnFairness(j)
  BY EachIsFair
<1>2. NothingElseBlocks => CallerMoves(j)
  BY DEF NothingElseBlocks
<1>3. PoolInv /\ CallerMoves(j) /\ Alive /\ Sent(j) /\ ~Returned(j)
      => ENABLED <<Return(j)>>_vars
  BY DEF PoolInv, ResultIsAwaited, CallerMoves, Sent, Returned
<1>4. PoolInv /\ <<Return(j)>>_vars => Returned(j)'
  BY DEF PoolInv, TypeOK, Return, Returned
<1>5. PoolInv /\ Sent(j) /\ [Next]_vars => Sent(j)'
  <2>1. [Next]_vars => result' = result \/ \E w \in Workers : SendResult(w)
    BY DEF Next, CallerStep, SubmitAccept, SubmitReject, SubmitClosed, Return, WatchRemoves,
           WatchEnds, ProcStarts, ProcBuilds, ProcRuns, ProcEnds, ProcMoves, ProcessStep,
           WorkerStep, TakeJob, ExitWorker, Acquire, AcquireFails, StartExec, ExecDone,
           ExecFails, EndExec, Release, ShutdownStep, CloseShutdownChan, CloseJobs,
           LockContainers, ClearContainers, ShutdownTo, ManagerStep, DaemonStep, callVars,
           poolVars, workVars, execVars, procVars, vars
  <2>2. ASSUME NEW w \in Workers, PoolInv, Sent(j), SendResult(w)
        PROVE  Sent(j)'
    <3>1. result \in [Jobs -> {"none", "ok", "failed"}]
      BY <2>2 DEF PoolInv, TypeOK
    <3> QED
      BY <2>2, <3>1 DEF SendResult, Sent
  <2> QED
    BY <2>1, <2>2 DEF Sent
<1> QED
  BY <1>1, <1>2, <1>3, <1>4, <1>5, PoolInvariant, PTL DEF FairSpec, Spec, ReturnFairness

HeldIsReturned(w, j) == [](Holds(w, j) => <>(Returned(j) \/ ~Alive \/ []mu))

LEMMA HeldJobIsReturned ==
  ASSUME MaxRetries <= 1024, NEW w \in Workers, NEW j \in Jobs
  PROVE  FairSpec /\ []NothingElseBlocks => HeldIsReturned(w, j)
<1>1. PoolInv /\ Holds(w, j) => Busy(w, 0) /\ ~Free(w)
  <2> SUFFICES ASSUME PoolInv, Holds(w, j) PROVE Busy(w, 0) /\ ~Free(w)
    OBVIOUS
  <2>1. TypeOK /\ wjob[w] # NoJob
    BY ExecutorPoolAssumption DEF PoolInv, Holds
  <2>2. pc[w] \in {"acquire", "start", "running", "release", "send"}
    BY <2>1 DEF PoolInv, TypeOK, WorkerHasJob
  <2>3. Effort(w) \in Nat
    BY <2>1, <2>2, ExecutorPoolAssumption DEF TypeOK, Effort
  <2> QED
    BY <2>1, <2>3 DEF Busy, Free
<1>2. PoolInv /\ Holds(w, j) /\ [Next]_vars => Holds(w, j)' \/ Sent(j)'
  BY GetsOnNext, ExecutorPoolAssumption
     DEF GetsOn, Holds, Sent, vars, poolVars, callVars, workVars, execVars, procVars
<1> QED
  BY <1>1, <1>2, WorkersComeBack, SentIsReturned, PoolInvariant, PTL
     DEF FairSpec, Spec, ComesBack, HeldIsReturned

\* A job a worker has taken is answered, even if the pool is shut down and all its
\* containers are lost, for any number of workers and containers: unless the Shutdown
\* waits for the daemon for ever, with cm.mu held.
THEOREM TakenJobsAreAnsweredOrHang ==
  ASSUME MaxRetries <= 1024
  PROVE  FairSpec /\ []NothingElseBlocks => TakenIsAnsweredOrHangs
<1>1. ASSUME NEW j \in Jobs
      PROVE  FairSpec /\ []NothingElseBlocks => (j \in Held ~> (Returned(j) \/ ~Alive \/ []mu))
  <2>1. FairSpec /\ []NothingElseBlocks => \A w \in Workers : HeldIsReturned(w, j)
    BY HeldJobIsReturned
  <2>2. (\A w \in Workers : HeldIsReturned(w, j))
        => [](\A w \in Workers : Holds(w, j) => <>(Returned(j) \/ ~Alive \/ []mu))
    BY DEF HeldIsReturned
  <2>3. (\A w \in Workers : Holds(w, j) => <>(Returned(j) \/ ~Alive \/ []mu))
        => ((\E w \in Workers : Holds(w, j)) => <>(Returned(j) \/ ~Alive \/ []mu))
    OBVIOUS
  <2>4. j \in Held => \E w \in Workers : Holds(w, j)
    BY DEF Held, Holds
  <2> QED
    BY <2>1, <2>2, <2>3, <2>4, PTL
<1> QED
  BY <1>1 DEF TakenIsAnsweredOrHangs, Returned

\* The job j is the k-th in the queue; it has left that place, upward or to a
\* worker, or the pool is being shut down.
At(k, j) == k <= Len(jobs) /\ jobs[k] = j
Left(j) == j \in Held \/ down # "up" \/ ~Alive
Advanced(k, j) == (k > 1 /\ At(k - 1, j)) \/ Left(j)

\* A step leaves the k-th job where it is or advances it, and a worker that takes
\* a job advances every one.
LEMMA QueueStages ==
  ASSUME NEW w \in Workers, NEW j \in Jobs, NEW k \in Nat \ {0},
         PoolInv, LoopInv, At(k, j), ~Left(j), [Next]_vars
  PROVE  /\ At(k, j)' \/ Advanced(k, j)'
         /\ Free(w) => WorkerReady(w)
         /\ Free(w) => Free(w)' \/ Advanced(k, j)'
         /\ Free(w) /\ <<WorkerStep(w)>>_vars => Advanced(k, j)'
<1>0. TypeOK /\ k \in 1..Len(jobs) /\ jobs[k] = j /\ down = "up"
  BY DEF PoolInv, At, TypeOK, Left
<1>1. ASSUME NEW v \in Workers, TakeJob(v)
      PROVE  Advanced(k, j)'
  <2>1. CASE k = 1
    <3>1. wjob'[v] = j /\ pc'[v] \notin {"select", "exited"}
      BY <1>0, <1>1, <2>1 DEF TakeJob, TypeOK
    <3> QED
      BY <3>1 DEF Advanced, Left, Held
  <2>2. CASE k # 1
    <3>1. k > 1 /\ k - 1 <= Len(jobs') /\ jobs'[k - 1] = j
      BY <1>0, <1>1, <2>2 DEF TakeJob, TypeOK
    <3> QED
      BY <3>1 DEF Advanced, At
  <2> QED
    BY <2>1, <2>2
<1>2. ASSUME NEW i \in Jobs, SubmitAccept(i)
      PROVE  At(k, j)' /\ wjob' = wjob
  BY <1>0, <1>2 DEF SubmitAccept, TypeOK, At, workVars
<1>3. ASSUME NEW v \in Workers, WorkerStep(v), ~TakeJob(v)
      PROVE  jobs' = jobs /\ ~Free(v) /\ \A u \in Workers \ {v} : wjob'[u] = wjob[u]
  <2>1. ~ExitWorker(v)
    BY <1>0 DEF ExitWorker
  <2>2. pc[v] # "select" => wjob[v] # NoJob
    BY <1>0 DEF PoolInv, WorkerHasJob, LoopInv
  <2> QED
    BY <1>0, <1>3, <2>1, <2>2
       DEF WorkerStep, Acquire, AcquireFails, StartExec, ExecDone, ExecFails, EndExec,
          Release, SendResult, TypeOK, Free
<1>4. \/ UNCHANGED <<jobs, wjob>> /\ ~WorkerStep(w)
      \/ UNCHANGED vars
      \/ \E i \in Jobs : SubmitAccept(i)
      \/ \E v \in Workers : WorkerStep(v)
  BY DEF Next, CallerStep, SubmitReject, SubmitClosed, Return, WatchRemoves, WatchEnds,
         ProcStarts, ProcBuilds, ProcRuns, ProcEnds, ProcMoves, ProcessStep, ShutdownStep,
         CloseShutdownChan, CloseJobs, LockContainers, ClearContainers, ShutdownTo,
         ManagerStep, DaemonStep, workVars, poolVars, callVars, execVars, procVars
<1>5. Free(w) => WorkerReady(w)
  <2>1. Free(w) => pc[w] = "select"
    BY <1>0 DEF PoolInv, WorkerHasJob, LoopInv, Free
  <2>2. jobs # <<>>
    BY <1>0 DEF TypeOK
  <2>3. Ready
    <3>1. j \in Jobs /\ caller[j] = "waiting"
      BY <1>0 DEF PoolInv, JobConservation, OnePlace
    <3> QED
      BY <3>1 DEF LoopInv
  <2> QED
    BY <2>1, <2>2, <2>3 DEF WorkerReady
<1>6. CASE (\E i \in Jobs : SubmitAccept(i)) /\ ~WorkerStep(w)
  BY <1>2, <1>5, <1>6 DEF Free
<1>7. CASE \E v \in Workers : WorkerStep(v)
  <2>1. ASSUME NEW v \in Workers, TakeJob(v)
        PROVE  Advanced(k, j)'
    BY <1>1, <2>1
  <2>2. ASSUME NEW v \in Workers, WorkerStep(v), ~TakeJob(v)
        PROVE  /\ At(k, j)'
               /\ Free(w) => Free(w)'
               /\ Free(w) => v # w
    BY <1>0, <1>3, <2>2 DEF At, Free
  <2> QED
    BY <1>5, <1>7, <2>1, <2>2
<1> QED
  BY <1>0, <1>4, <1>5, <1>6, <1>7
     DEF At, Free, vars, poolVars, callVars, workVars, execVars, procVars

Advances(k, j) == At(k, j) ~> Advanced(k, j)
QueueMoves(j) == \A k \in Nat \ {0} : Advances(k, j)

\* No job stays where it is in the queue, because there is a worker, and it comes
\* back to the queue.
LEMMA NobodyIsStuckInTheQueue ==
  ASSUME MaxRetries <= 1024, NEW j \in Jobs, NEW k \in Nat \ {0}
  PROVE  FairSpec /\ []NothingElseBlocks => Advances(k, j)
<1>1. PICK w \in Workers : TRUE
  BY ExecutorPoolAssumption, ContainerManagerAssumption, FS_EmptySet
<1>2. Fairness => WorkerFairness(w)
  BY EachIsFair
<1>3. NothingElseBlocks => WorkerMoves(w)
  BY DEF NothingElseBlocks
<1>4. WorkerMoves(w) /\ WorkerReady(w) /\ ~Left(j) => ENABLED <<WorkerStep(w)>>_vars
  BY DEF WorkerMoves, Left
<1>5. PoolInv /\ LoopInv /\ At(k, j) /\ ~Left(j) /\ [Next]_vars
      => /\ At(k, j)' \/ Advanced(k, j)'
         /\ Free(w) => WorkerReady(w)
         /\ Free(w) => Free(w)' \/ Advanced(k, j)'
         /\ Free(w) /\ <<WorkerStep(w)>>_vars => Advanced(k, j)'
  BY QueueStages
<1>6. PoolInv => Free(w) \/ Busy(w, 0)
  <2> SUFFICES ASSUME PoolInv, ~Free(w) PROVE Busy(w, 0)
    OBVIOUS
  <2>1. pc[w] \in {"acquire", "start", "running", "release", "send"} /\ TypeOK
    BY DEF PoolInv, TypeOK, WorkerHasJob, Free
  <2>2. Effort(w) \in Nat
    BY <2>1, ExecutorPoolAssumption DEF TypeOK, Effort
  <2> QED
    BY <2>2 DEF Busy, Free
<1>7. Left(j) => Advanced(k, j)
  BY DEF Advanced
<1>8. LoopInv => (~Alive => Left(j)) /\ (mu => Left(j))
  BY DEF LoopInv, Left
<1>9. FairSpec /\ []NothingElseBlocks => ComesBack(w)
  BY WorkersComeBack
<1> QED
  BY <1>2, <1>3, <1>4, <1>5, <1>6, <1>7, <1>8, <1>9, PoolInvariant, LoopInvariant, PTL
     DEF FairSpec, Spec, WorkerFairness, ComesBack, Advances

\* The job j is among the first n of the queue.
Within(n, j) == \E k \in 1..n : At(k, j)
Nears(j, from, to) == Within(from, j) ~> (Within(to, j) \/ Left(j))
Strides(j, d) == \A n \in Nat : Nears(j, n + d, n)

LEMMA OneStride ==
  ASSUME NEW j \in Jobs
  PROVE  QueueMoves(j) => Strides(j, 1)
<1>1. ASSUME NEW n \in Nat
      PROVE  QueueMoves(j) => Nears(j, n + 1, n)
  <2>1. Within(n + 1, j) => Within(n, j) \/ At(n + 1, j)
    BY DEF Within
  <2>2. Advanced(n + 1, j) => Within(n, j) \/ Left(j)
    BY DEF Advanced, Within
  <2>3. QueueMoves(j) => Advances(n + 1, j)
    BY DEF QueueMoves
  <2> QED
    BY <2>1, <2>2, <2>3, PTL DEF Advances, Nears
<1> QED
  BY <1>1 DEF Strides

LEMMA LongerStrides ==
  ASSUME NEW j \in Jobs, NEW d \in Nat
  PROVE  Strides(j, d) => Strides(j, 2 * d)
<1>1. ASSUME NEW n \in Nat, NEW k \in Nat, NEW m \in Nat
      PROVE  Nears(j, m, k) /\ Nears(j, k, n) => Nears(j, m, n)
  BY PTL DEF Nears
<1>2. ASSUME NEW n \in Nat
      PROVE  Strides(j, d) => Nears(j, n + 2 * d, n)
  <2>1. n + d \in Nat /\ n + 2 * d \in Nat /\ (n + d) + d = n + 2 * d
    OBVIOUS
  <2> QED
    BY <1>1, <2>1 DEF Strides
<1> QED
  BY <1>2 DEF Strides

LEMMA QueueEmpties ==
  ASSUME NEW j \in Jobs
  PROVE  QueueMoves(j) => (Within(4096, j) ~> Left(j))
<1>1. QueueMoves(j) => Strides(j, 16)
  <2>1. 2 * 1 = 2 /\ 2 * 2 = 4 /\ 2 * 4 = 8 /\ 2 * 8 = 16
    OBVIOUS
  <2> QED
    BY <2>1, OneStride, LongerStrides
<1>2. Strides(j, 16) => Strides(j, 256)
  <2>1. 2 * 16 = 32 /\ 2 * 32 = 64 /\ 2 * 64 = 128 /\ 2 * 128 = 256
    OBVIOUS
  <2> QED
    BY <2>1, LongerStrides
<1>3. Strides(j, 256) => Strides(j, 4096)
  <2>1. 2 * 256 = 512 /\ 2 * 512 = 1024 /\ 2 * 1024 = 2048 /\ 2 * 2048 = 4096
    OBVIOUS
  <2> QED
    BY <2>1, LongerStrides
<1>4. Strides(j, 4096) => Nears(j, 4096, 0)
  <2>1. 0 \in Nat /\ 0 + 4096 = 4096
    OBVIOUS
  <2> QED
    BY <2>1 DEF Strides
<1>5. ~Within(0, j)
  BY DEF Within
<1> QED
  BY <1>1, <1>2, <1>3, <1>4, <1>5, PTL DEF Nears

\* An accepted job is answered, unless the pool is shut down or the process ends
\* first: a lost container, a failed start or a removal by a watcher costs an
\* attempt, not the answer.
THEOREM AcceptedJobsAreAnswered ==
  ASSUME MaxRetries <= 1024, MaxJobCount <= 4096
  PROVE  FairSpec /\ []NothingElseBlocks => AcceptedIsAnswered
<1>1. ASSUME NEW j \in Jobs
      PROVE  FairSpec /\ []NothingElseBlocks
             => (caller[j] = "waiting" ~> (Returned(j) \/ down # "up" \/ ~Alive))
  <2>1. FairSpec /\ []NothingElseBlocks => QueueMoves(j)
    <3>1. ASSUME NEW k \in Nat \ {0}
          PROVE  FairSpec /\ []NothingElseBlocks => Advances(k, j)
      BY NobodyIsStuckInTheQueue
    <3> QED
      BY <3>1 DEF QueueMoves
  <2>2. QueueMoves(j) => (Within(4096, j) ~> Left(j))
    BY QueueEmpties
  <2>3. PoolInv /\ caller[j] = "waiting" => Within(4096, j) \/ j \in Held \/ Sent(j)
    <3> SUFFICES ASSUME PoolInv, caller[j] = "waiting"
                 PROVE  Within(4096, j) \/ j \in Held \/ Sent(j)
      OBVIOUS
    <3>1. (\E i \in 1..Len(jobs) : jobs[i] = j) \/ HeldBy(j) # {} \/ Sent(j)
      BY DEF PoolInv, JobConservation, OnePlace, Sent
    <3>2. CASE \E i \in 1..Len(jobs) : jobs[i] = j
      <4>1. Len(jobs) \in Nat /\ Len(jobs) <= 4096
        BY ExecutorPoolAssumption DEF PoolInv, TypeOK
      <4>2. ASSUME NEW m \in Nat, Len(jobs) <= m
            PROVE  Within(m, j)
        BY <3>2, <4>1, <4>2 DEF Within, At
      <4> QED
        BY <4>1, <4>2
    <3>3. CASE HeldBy(j) # {}
      <4>1. PICK w \in Workers : wjob[w] = j
        BY <3>3 DEF HeldBy
      <4>2. pc[w] \notin {"select", "exited"}
        BY <4>1, ExecutorPoolAssumption DEF PoolInv, WorkerHasJob
      <4> QED
        BY <4>1, <4>2 DEF Held
    <3> QED
      BY <3>1, <3>2, <3>3
  <2>4. FairSpec /\ []NothingElseBlocks => (j \in Held ~> (Returned(j) \/ ~Alive \/ []mu))
    BY TakenJobsAreAnsweredOrHang DEF TakenIsAnsweredOrHangs, Returned
  <2>5. LoopInv => (mu => down # "up")
    BY DEF LoopInv
  <2> QED
    BY <2>1, <2>2, <2>3, <2>4, <2>5, SentIsReturned, PoolInvariant, LoopInvariant, PTL
       DEF FairSpec, Left
<1> QED
  BY <1>1 DEF AcceptedIsAnswered, Returned

=============================================================================
