------------------------- MODULE DockerPool_proofs -------------------------
(***************************************************************************)
(* What holds of DockerPool for any jobs and any number of workers.        *)
(***************************************************************************)
EXTENDS DockerPool, FiniteSetTheorems, SequenceTheorems, TLAPS

\* NewPool always ends up with at least one worker and room in the queue.
LEMMA Constants ==
  /\ MaxWorkers \in Nat /\ MaxWorkers >= 1
  /\ QueueCapacity \in Nat /\ QueueCapacity >= 4
BY DockerPoolAssumption DEF MaxWorkers, QueueCapacity

LEMMA ResultsType ==
  /\ ZeroResult \in Results
  /\ Failure \in Results
  /\ \A ok \in BOOLEAN : RunResult(ok) \in Results
BY DEF ZeroResult, Failure, RunResult, Results

LEMMA InitTypeOK == Init => TypeOK
<1> SUFFICES ASSUME Init
             PROVE  TypeOK
  OBVIOUS
<1> USE DEF Init
<1>1. jobs \in Seq(Jobs) /\ Len(jobs) <= QueueCapacity
  BY Constants
<1>2. resultCh \in [Jobs -> Seq(Results)] /\ \A j \in Jobs : Len(resultCh[j]) <= 1
  OBVIOUS
<1>3. answer \in [Jobs -> Results] /\ outcome \in [Workers -> Results]
  BY ResultsType
<1>4. stats \in [QueuedJobs : Nat, TotalExecuted : Nat]
  OBVIOUS
<1> QED
  BY <1>1, <1>2, <1>3, <1>4 DEF TypeOK, ContainerStates, Unstarted

LEMMA NextTypeOK == TypeOK /\ [Next]_vars => TypeOK'
<1> SUFFICES ASSUME TypeOK, [Next]_vars
             PROVE  TypeOK'
  OBVIOUS
<1> USE ResultsType, Constants
<1>1. ASSUME NEW j \in Jobs, SubmitAccept(j)
      PROVE  TypeOK'
  BY <1>1 DEF TypeOK, SubmitAccept, workVars, stopVars
<1>2. ASSUME NEW j \in Jobs, SubmitReject(j)
      PROVE  TypeOK'
  BY <1>2 DEF TypeOK, SubmitReject, workVars, stopVars
<1>3. ASSUME NEW j \in Jobs, CountJob(j)
      PROVE  TypeOK'
  <2>1. stats' \in [QueuedJobs : Nat, TotalExecuted : Nat]
    <3>1. stats.TotalExecuted + 1 \in Nat
      BY DEF TypeOK
    <3>2. stats' = [stats EXCEPT !.TotalExecuted = stats.TotalExecuted + 1]
      BY <1>3 DEF CountJob
    <3> QED BY <3>1, <3>2 DEF TypeOK
  <2> QED
    BY <1>3, <2>1 DEF TypeOK, CountJob, workVars, stopVars
<1>4. ASSUME NEW j \in Jobs, Return(j)
      PROVE  TypeOK'
  <2>1. /\ Head(resultCh[j]) \in Results
        /\ Tail(resultCh[j]) \in Seq(Results)
        /\ Len(Tail(resultCh[j])) <= 1
    BY <1>4 DEF TypeOK, Return
  <2>2. resultCh' \in [Jobs -> Seq(Results)]
    BY <1>4, <2>1 DEF TypeOK, Return
  <2>3. \A i \in Jobs : Len(resultCh'[i]) <= 1
    BY <1>4, <2>1 DEF TypeOK, Return
  <2>4. answer' \in [Jobs -> Results]
    BY <1>4, <2>1 DEF TypeOK, Return
  <2> QED
    BY <1>4, <2>2, <2>3, <2>4 DEF TypeOK, Return, workVars, stopVars
<1>5. ASSUME NEW j \in Jobs, DaemonStep(j)
      PROVE  TypeOK'
  <2>1. PICK to \in ContainerStates : container' = [container EXCEPT ![j] = to]
    BY <1>5 DEF DaemonStep, DockerCreate, DockerStart, ContainerExit, ContainerStep, Ask,
       AskCreate, AskStart, ContainerStates, Unstarted, Removed
  <2>2. container' \in [Jobs -> ContainerStates]
    BY <2>1 DEF TypeOK
  <2>3. UNCHANGED <<jobs, callVars, workVars, stopVars>>
    BY <1>5 DEF DaemonStep, DockerCreate, DockerStart, ContainerExit, ContainerStep, Ask,
       AskCreate, AskStart
  <2> QED
    BY <2>2, <2>3 DEF TypeOK, callVars, workVars, stopVars
<1>6. ASSUME NEW w \in Workers, TakeJob(w)
      PROVE  TypeOK'
  <2>1. /\ Head(jobs) \in Jobs
        /\ jobs' \in Seq(Jobs)
        /\ Len(jobs') <= QueueCapacity
    <3>1. jobs \in Seq(Jobs) /\ jobs # <<>> /\ jobs' = Tail(jobs) /\ Len(jobs) <= QueueCapacity
      BY <1>6 DEF TypeOK, TakeJob
    <3>2. Head(jobs) \in Jobs /\ Tail(jobs) \in Seq(Jobs) /\ Len(Tail(jobs)) = Len(jobs) - 1
      BY <3>1, HeadTailProperties
    <3>3. Len(jobs) \in Nat /\ Len(jobs') <= Len(jobs) /\ Len(jobs') \in Nat
      BY <3>1, <3>2, LenProperties
    <3> QED
      BY <3>1, <3>2, <3>3, Constants
  <2>2. pc' \in [Workers -> {"select", "running", "sending", "exited"}]
    <3>1. pc' \in {[pc EXCEPT ![w] = "running"], [pc EXCEPT ![w] = "sending"]}
      BY <1>6 DEF TakeJob
    <3> QED
      BY <3>1 DEF TypeOK
  <2>3. wjob' \in [Workers -> Jobs \cup {NoJob}]
    BY <1>6, <2>1 DEF TypeOK, TakeJob
  <2>4. outcome' \in [Workers -> Results]
    BY <1>6 DEF TypeOK, TakeJob
  <2> QED
    BY <1>6, <2>1, <2>2, <2>3, <2>4 DEF TypeOK, TakeJob, callVars, stopVars
<1>7. ASSUME NEW w \in Workers, ExitWorker(w)
      PROVE  TypeOK'
  BY <1>7 DEF TypeOK, ExitWorker, callVars, stopVars
<1>8. ASSUME NEW w \in Workers, CommandDone(w) \/ CommandFails(w) \/ Timeout(w)
      PROVE  TypeOK'
  <2>1. PICK ok \in BOOLEAN : EndRun(w, ok)
    BY <1>8 DEF CommandDone, CommandFails, Timeout
  <2>2. RunResult(ok) \in Results
    BY <2>1
  <2> QED
    BY <2>1, <2>2 DEF TypeOK, EndRun, callVars, stopVars
<1>9. ASSUME NEW w \in Workers, SendResult(w)
      PROVE  TypeOK'
  <2> DEFINE j == wjob[w]
             ch == Append(resultCh[j], outcome[w])
  <2>1. j \in Jobs => ch \in Seq(Results) /\ Len(ch) <= 1
    BY <1>9 DEF TypeOK, SendResult
  <2>2. resultCh' = [resultCh EXCEPT ![j] = ch]
    BY <1>9 DEF SendResult
  <2>3. /\ resultCh' \in [Jobs -> Seq(Results)]
        /\ \A i \in Jobs : Len(resultCh'[i]) <= 1
    <3> HIDE DEF ch
    <3> QED BY <2>1, <2>2 DEF TypeOK
  <2>4. /\ pc' \in [Workers -> {"select", "running", "sending", "exited"}]
        /\ wjob' \in [Workers -> Jobs \cup {NoJob}]
        /\ outcome' \in [Workers -> Results]
    BY <1>9 DEF TypeOK, SendResult
  <2> QED
    BY <1>9, <2>3, <2>4 DEF TypeOK, SendResult, stopVars
<1>10. CASE Stats
  <2>1. stats' \in [QueuedJobs : Nat, TotalExecuted : Nat]
    <3>1. Len(jobs) \in Nat
      BY DEF TypeOK
    <3>2. stats' = [stats EXCEPT !.QueuedJobs = Len(jobs)]
      BY <1>10 DEF Stats
    <3> QED
      BY <3>1, <3>2 DEF TypeOK
  <2> QED
    BY <1>10, <2>1 DEF TypeOK, Stats, workVars, stopVars
<1>11. CASE CloseShutdown \/ ShutdownReturns
  BY <1>11 DEF TypeOK, CloseShutdown, ShutdownReturns, callVars, workVars
<1>12. CASE UNCHANGED vars
  BY <1>12 DEF TypeOK, vars
<1>13. QED
  BY <1>1, <1>2, <1>3, <1>4, <1>5, <1>6, <1>7, <1>8, <1>9, <1>10, <1>11, <1>12
     DEF Next, CallerStep, WorkerStep

\* Every variable keeps its type, and no channel exceeds its capacity.
THEOREM TypeCorrect == Spec => []TypeOK
BY InitTypeOK, NextTypeOK, PTL DEF Spec

-----------------------------------------------------------------------------
(* Conservation of jobs.                                                   *)

LEMMA InitConservation == Init => JobConservation
<1> SUFFICES ASSUME Init
             PROVE  JobConservation
  OBVIOUS
<1>1. ASSUME NEW j \in Jobs
      PROVE  OnePlace(j)
  BY DockerPoolAssumption DEF Init, OnePlace, Waiting, Queued, HeldBy, Delivered
<1>2. QueueDistinct /\ HoldersDistinct /\ BusyHolds
  BY DEF Init, QueueDistinct, HoldersDistinct, BusyHolds
<1> QED
  BY <1>1, <1>2 DEF JobConservation

\* The places depend on five variables only.
LEMMA SamePlaces ==
  ASSUME JobConservation, UNCHANGED <<jobs, resultCh, wjob>>,
         \A j \in Jobs : Waiting(j)' <=> Waiting(j),
         \A w \in Workers : pc'[w] \in {"running", "sending"} <=> pc[w] \in {"running", "sending"}
  PROVE  JobConservation'
<1>1. ASSUME NEW j \in Jobs
      PROVE  OnePlace(j)'
  BY <1>1 DEF JobConservation, OnePlace, Queued, HeldBy, Delivered
<1>2. QueueDistinct' /\ HoldersDistinct'
  BY DEF JobConservation, QueueDistinct, HoldersDistinct
<1>3. BusyHolds'
  BY DEF JobConservation, BusyHolds
<1> QED
  BY <1>1, <1>2, <1>3 DEF JobConservation

LEMMA NextConservation ==
  TypeOK /\ JobConservation /\ [Next]_vars => JobConservation'
<1> SUFFICES ASSUME TypeOK, JobConservation, [Next]_vars
             PROVE  JobConservation'
  OBVIOUS
<1>1. ASSUME NEW j \in Jobs, SubmitAccept(j)
      PROVE  JobConservation'
  <2>1. /\ Len(jobs') = Len(jobs) + 1
        /\ \A i \in 1..Len(jobs) : jobs'[i] = jobs[i]
        /\ jobs'[Len(jobs) + 1] = j
    BY <1>1 DEF SubmitAccept, TypeOK
  <2>2. ~Queued(j) /\ HeldBy(j) = {} /\ ~Delivered(j)
    BY <1>1 DEF SubmitAccept, JobConservation, OnePlace, Waiting
  <2>3. ASSUME NEW i \in Jobs
        PROVE  Queued(i)' <=> Queued(i) \/ i = j
    <3>1. 1..Len(jobs') = 1..Len(jobs) \cup {Len(jobs) + 1}
      BY <2>1 DEF TypeOK
    <3> QED
      BY <2>1, <3>1 DEF Queued
  <2>4. ASSUME NEW i \in Jobs
        PROVE  /\ Waiting(i)' <=> Waiting(i) \/ i = j
               /\ HeldBy(i)' = HeldBy(i)
               /\ Delivered(i)' = Delivered(i)
    BY <1>1 DEF SubmitAccept, TypeOK, Waiting, HeldBy, Delivered, workVars
  <2>5. ASSUME NEW i \in Jobs
        PROVE  OnePlace(i)'
    BY <2>2, <2>3, <2>4 DEF JobConservation, OnePlace
  <2>6. QueueDistinct'
    <3>1. 1..Len(jobs') = 1..Len(jobs) \cup {Len(jobs) + 1}
      BY <2>1 DEF TypeOK
    <3> QED
      BY <2>1, <2>2, <3>1 DEF QueueDistinct, JobConservation, Queued
  <2>7. HoldersDistinct' /\ BusyHolds'
    BY <1>1 DEF SubmitAccept, JobConservation, HoldersDistinct, BusyHolds, workVars
  <2> QED
    BY <2>5, <2>6, <2>7 DEF JobConservation
<1>2. ASSUME NEW j \in Jobs, SubmitReject(j)
      PROVE  JobConservation'
  <2>1. \A i \in Jobs : Waiting(i)' <=> Waiting(i)
    BY <1>2 DEF SubmitReject, TypeOK, Waiting
  <2> QED
    BY <1>2, <2>1, SamePlaces DEF SubmitReject, workVars
<1>3. ASSUME NEW j \in Jobs, CountJob(j)
      PROVE  JobConservation'
  <2>1. \A i \in Jobs : Waiting(i)' <=> Waiting(i)
    BY <1>3 DEF CountJob, TypeOK, Waiting
  <2> QED
    BY <1>3, <2>1, SamePlaces DEF CountJob, workVars
<1>4. ASSUME NEW j \in Jobs, Return(j)
      PROVE  JobConservation'
  <2>1. Tail(resultCh[j]) = <<>>
    BY <1>4 DEF Return, TypeOK
  <2>2. ~Queued(j) /\ HeldBy(j) = {}
    BY <1>4 DEF Return, JobConservation, OnePlace, Delivered
  <2>3. ASSUME NEW i \in Jobs
        PROVE  /\ Queued(i)' = Queued(i)
               /\ HeldBy(i)' = HeldBy(i)
               /\ i # j => Delivered(i)' = Delivered(i) /\ Waiting(i)' = Waiting(i)
               /\ i = j => ~Delivered(i)' /\ ~Waiting(i)'
    BY <1>4, <2>1 DEF Return, TypeOK, Queued, HeldBy, Delivered, Waiting, workVars
  <2>4. ASSUME NEW i \in Jobs
        PROVE  OnePlace(i)'
    BY <2>2, <2>3 DEF JobConservation, OnePlace
  <2>5. QueueDistinct' /\ HoldersDistinct' /\ BusyHolds'
    BY <1>4 DEF Return, JobConservation, QueueDistinct, HoldersDistinct, BusyHolds, workVars
  <2> QED
    BY <2>4, <2>5 DEF JobConservation
<1>5. ASSUME NEW j \in Jobs, DaemonStep(j)
      PROVE  JobConservation'
  BY <1>5, SamePlaces DEF DaemonStep, DockerCreate, DockerStart, ContainerStep, Ask,
     AskCreate, AskStart, ContainerExit, Waiting, callVars, workVars
<1>6. ASSUME NEW w \in Workers, TakeJob(w)
      PROVE  JobConservation'
  <2> DEFINE h == Head(jobs)
  <2>1. /\ h \in Jobs
        /\ h = jobs[1]
        /\ Len(jobs) >= 1
        /\ Len(jobs') = Len(jobs) - 1
        /\ \A i \in 1..Len(jobs') : jobs'[i] = jobs[i + 1]
    BY <1>6 DEF TakeJob, TypeOK
  <2>2. Queued(h) /\ HeldBy(h) = {} /\ ~Delivered(h) /\ wjob[w] = NoJob
    BY <1>6, <2>1 DEF TakeJob, JobConservation, OnePlace, Queued, BusyHolds
  <2>3. /\ wjob' = [wjob EXCEPT ![w] = h]
        /\ pc'[w] \in {"running", "sending"}
        /\ \A v \in Workers \ {w} : pc'[v] = pc[v] /\ wjob'[v] = wjob[v]
        /\ wjob'[w] = h
    BY <1>6 DEF TakeJob, TypeOK
  <2>4. QueueDistinct'
    <3> SUFFICES ASSUME NEW i \in 1..Len(jobs'), NEW k \in 1..Len(jobs'), jobs'[i] = jobs'[k]
                 PROVE  i = k
      BY DEF QueueDistinct
    <3>1. i + 1 \in 1..Len(jobs) /\ k + 1 \in 1..Len(jobs)
      <4>1. Len(jobs) \in Nat /\ Len(jobs') = Len(jobs) - 1
        BY <2>1 DEF TypeOK
      <4> QED
        BY <4>1
    <3>2. jobs[i + 1] = jobs[k + 1]
      BY <2>1
    <3>3. i + 1 = k + 1
      BY <3>1, <3>2 DEF JobConservation, QueueDistinct
    <3> QED
      BY <3>3
  <2>5. ASSUME NEW i \in Jobs
        PROVE  Queued(i)' <=> Queued(i) /\ i # h
    <3>1. ASSUME Queued(i), i # h
          PROVE  Queued(i)'
      <4>1. PICK k \in 1..Len(jobs) : jobs[k] = i
        BY <3>1 DEF Queued
      <4>2. Len(jobs) \in Nat /\ k # 1
        BY <2>1, <3>1, <4>1 DEF TypeOK
      <4>3. k - 1 \in 1..Len(jobs') /\ (k - 1) + 1 = k
        BY <2>1, <4>1, <4>2
      <4>4. jobs'[k - 1] = i
        BY <2>1, <4>1, <4>3
      <4> QED
        BY <4>3, <4>4 DEF Queued
    <3>2. ASSUME Queued(i)'
          PROVE  Queued(i) /\ i # h
      <4>1. PICK k \in 1..Len(jobs') : jobs'[k] = i
        BY <3>2 DEF Queued
      <4>2. k + 1 \in 1..Len(jobs) /\ jobs[k + 1] = i /\ 1 \in 1..Len(jobs) /\ k + 1 # 1
        BY <2>1, <4>1 DEF TypeOK
      <4> QED
        BY <2>1, <4>2 DEF Queued, JobConservation, QueueDistinct
    <3> QED
      BY <3>1, <3>2
  <2>6. ASSUME NEW i \in Jobs
        PROVE  /\ Waiting(i)' = Waiting(i)
               /\ Delivered(i)' = Delivered(i)
               /\ i = h => HeldBy(i)' # {}
               /\ i # h => HeldBy(i)' = HeldBy(i)
    BY <1>6, <2>2, <2>3, DockerPoolAssumption DEF TakeJob, TypeOK, Waiting, Delivered,
       HeldBy, callVars
  <2>7. ASSUME NEW i \in Jobs
        PROVE  OnePlace(i)'
    BY <2>2, <2>5, <2>6 DEF JobConservation, OnePlace
  <2>8. HoldersDistinct'
    BY <2>1, <2>2, <2>3 DEF HoldersDistinct, HeldBy, JobConservation
  <2>9. BusyHolds'
    BY <2>1, <2>3, DockerPoolAssumption DEF BusyHolds, JobConservation
  <2> QED
    BY <2>4, <2>7, <2>8, <2>9 DEF JobConservation
<1>7. ASSUME NEW w \in Workers, ExitWorker(w)
      PROVE  JobConservation'
  <2>1. \A v \in Workers : pc'[v] \in {"running", "sending"} <=> pc[v] \in {"running", "sending"}
    BY <1>7 DEF ExitWorker, TypeOK
  <2> QED
    BY <1>7, <2>1, SamePlaces DEF ExitWorker, Waiting, callVars
<1>8. ASSUME NEW w \in Workers, CommandDone(w) \/ CommandFails(w) \/ Timeout(w)
      PROVE  JobConservation'
  <2>1. \A v \in Workers : pc'[v] \in {"running", "sending"} <=> pc[v] \in {"running", "sending"}
    BY <1>8 DEF CommandDone, CommandFails, Timeout, EndRun, TypeOK
  <2> QED
    BY <1>8, <2>1, SamePlaces
       DEF CommandDone, CommandFails, Timeout, EndRun, Waiting, callVars
<1>9. ASSUME NEW w \in Workers, SendResult(w)
      PROVE  JobConservation'
  <2> DEFINE h == wjob[w]
  <2>1. h \in Jobs /\ h # NoJob
    BY <1>9 DEF SendResult, TypeOK, JobConservation, BusyHolds
  <2>2. HeldBy(h) = {w} /\ ~Queued(h) /\ ~Delivered(h)
    BY <2>1 DEF JobConservation, HoldersDistinct, HeldBy, OnePlace
  <2>3. /\ resultCh'[h] # <<>>
        /\ \A i \in Jobs \ {h} : resultCh'[i] = resultCh[i]
    <3>1. resultCh[h] \in Seq(Results) /\ outcome[w] \in Results
      BY <2>1 DEF TypeOK
    <3>2. Append(resultCh[h], outcome[w]) # <<>>
      <4> HIDE DEF h
      <4> QED BY <3>1
    <3> QED
      BY <1>9, <2>1, <3>2 DEF SendResult, TypeOK
  <2>4. /\ wjob'[w] = NoJob /\ pc'[w] = "select"
        /\ \A v \in Workers \ {w} : pc'[v] = pc[v] /\ wjob'[v] = wjob[v]
    BY <1>9 DEF SendResult, TypeOK
  <2>5. ASSUME NEW i \in Jobs
        PROVE  /\ Waiting(i)' = Waiting(i)
               /\ Queued(i)' = Queued(i)
               /\ i = h => HeldBy(i)' = {} /\ Delivered(i)'
               /\ i # h => HeldBy(i)' = HeldBy(i) /\ Delivered(i)' = Delivered(i)
    <3>1. Waiting(i)' = Waiting(i) /\ Queued(i)' = Queued(i)
      BY <1>9 DEF SendResult, Waiting, Queued
    <3>2. i = h => HeldBy(i)' = {}
      BY <2>1, <2>2, <2>4 DEF HeldBy
    <3>3. i # h => HeldBy(i)' = HeldBy(i)
      BY <2>4, DockerPoolAssumption DEF HeldBy
    <3>4. i # h => Delivered(i)' = Delivered(i)
      BY <2>3 DEF Delivered
    <3>5. i = h => Delivered(i)'
      BY <2>3 DEF Delivered
    <3> QED
      BY <3>1, <3>2, <3>3, <3>4, <3>5
  <2>6. ASSUME NEW i \in Jobs
        PROVE  OnePlace(i)'
    BY <2>2, <2>5 DEF JobConservation, OnePlace
  <2>7. QueueDistinct' /\ HoldersDistinct' /\ BusyHolds'
    BY <1>9, <2>4 DEF SendResult, JobConservation, QueueDistinct, HoldersDistinct, BusyHolds
  <2> QED
    BY <2>6, <2>7 DEF JobConservation
<1>10. CASE Stats \/ CloseShutdown \/ ShutdownReturns
  BY <1>10, SamePlaces DEF Stats, CloseShutdown, ShutdownReturns, Waiting, callVars,
     workVars
<1>11. CASE UNCHANGED vars
  BY <1>11, SamePlaces DEF vars, Waiting
<1>12. QED
  BY <1>1, <1>2, <1>3, <1>4, <1>5, <1>6, <1>7, <1>8, <1>9, <1>10, <1>11
     DEF Next, CallerStep, WorkerStep

\* No accepted job is lost, answered twice or executed twice: until ExecuteJob
\* returns it is in the queue, with one worker or in its result channel.
THEOREM JobsConserved == Spec => []JobConservation
BY InitTypeOK, NextTypeOK, InitConservation, NextConservation, PTL DEF Spec

-----------------------------------------------------------------------------
(* Containers, and the end of Shutdown.                                    *)

\* A docker command is run for a configured language only; a worker holds no
\* stale result; Shutdown has returned only if every worker has left its loop.
WorkerInv ==
  /\ \A w \in Workers : pc[w] = "running" => wjob[w] \in Supported
  /\ \A w \in Workers : pc[w] # "sending" => outcome[w] = ZeroResult
  /\ stopped => \A w \in Workers : pc[w] = "exited"

LEMMA InitWorkerInv == Init => WorkerInv
BY DEF Init, WorkerInv

LEMMA NextWorkerInv == TypeOK /\ WorkerInv /\ [Next]_vars => WorkerInv'
<1> SUFFICES ASSUME TypeOK, WorkerInv, [Next]_vars
             PROVE  WorkerInv'
  OBVIOUS
<1>1. ASSUME NEW j \in Jobs, CallerStep(j) \/ DaemonStep(j)
      PROVE  WorkerInv'
  BY <1>1 DEF WorkerInv, CallerStep, SubmitAccept, SubmitReject, CountJob, Return,
     DaemonStep, DockerCreate, DockerStart, ContainerStep, Ask, AskCreate, AskStart,
     ContainerExit, workVars, stopVars
<1>2. ASSUME NEW w \in Workers, TakeJob(w)
      PROVE  WorkerInv'
  BY <1>2 DEF WorkerInv, TypeOK, TakeJob, stopVars
<1>3. ASSUME NEW w \in Workers, ExitWorker(w)
      PROVE  WorkerInv'
  BY <1>3 DEF WorkerInv, TypeOK, ExitWorker, stopVars
<1>4. ASSUME NEW w \in Workers, CommandDone(w) \/ CommandFails(w) \/ Timeout(w)
      PROVE  WorkerInv'
  <2>1. /\ pc[w] = "running" /\ pc'[w] = "sending"
        /\ \A v \in Workers \ {w} : pc'[v] = pc[v] /\ outcome'[v] = outcome[v]
        /\ UNCHANGED <<wjob, stopVars>>
    BY <1>4 DEF TypeOK, CommandDone, CommandFails, Timeout, EndRun
  <2> QED
    BY <2>1 DEF WorkerInv, stopVars
<1>5. ASSUME NEW w \in Workers, SendResult(w)
      PROVE  WorkerInv'
  BY <1>5 DEF WorkerInv, TypeOK, SendResult, stopVars
<1>6. CASE Stats \/ CloseShutdown \/ ShutdownReturns \/ UNCHANGED vars
  BY <1>6 DEF WorkerInv, Stats, CloseShutdown, ShutdownReturns, workVars, stopVars, vars
<1> QED
  BY <1>1, <1>2, <1>3, <1>4, <1>5, <1>6 DEF Next, WorkerStep

LEMMA InitContainer == Init => ContainerOfItsJob
BY DockerPoolAssumption
   DEF Init, ContainerOfItsJob, SuccessReported, HeldBy, ZeroResult

\* Steps that leave the daemon alone and report no success for a new job.
LEMMA SameContainers ==
  ASSUME ContainerOfItsJob, UNCHANGED container,
         \A j \in Jobs : SuccessReported(j)' => SuccessReported(j) \/ container[j] = "succeeded",
         \A j \in Jobs : Queued(j)' => Queued(j) \/ container[j] = "none",
         \A j \in Jobs : caller[j] \in {"sent", "waiting", "returned"}
                          => caller'[j] \in {"sent", "waiting", "returned"}
  PROVE  ContainerOfItsJob'
BY DEF ContainerOfItsJob

LEMMA NextContainer ==
  TypeOK /\ JobConservation /\ WorkerInv /\ ContainerOfItsJob /\ [Next]_vars => ContainerOfItsJob'
<1> SUFFICES ASSUME TypeOK, JobConservation, WorkerInv, ContainerOfItsJob, [Next]_vars
             PROVE  ContainerOfItsJob'
  OBVIOUS
<1>1. ASSUME NEW j \in Jobs, SubmitAccept(j)
      PROVE  ContainerOfItsJob'
  <2>1. container[j] = "none"
    BY <1>1 DEF SubmitAccept, ContainerOfItsJob
  <2>2. ASSUME NEW i \in Jobs, Queued(i)'
        PROVE  Queued(i) \/ i = j
    <3>1. PICK k \in 1..Len(jobs') : jobs'[k] = i
      BY <2>2 DEF Queued
    <3>2. (k \in 1..Len(jobs) /\ jobs[k] = i) \/ i = j
      BY <1>1, <3>1 DEF SubmitAccept, TypeOK
    <3> QED
      BY <3>2 DEF Queued
  <2>3. \A i \in Jobs : SuccessReported(i)' = SuccessReported(i)
    BY <1>1 DEF SubmitAccept, SuccessReported, HeldBy, workVars
  <2>4. \A i \in Jobs : caller[i] \in {"sent", "waiting", "returned"}
                          => caller'[i] \in {"sent", "waiting", "returned"}
    BY <1>1 DEF SubmitAccept, TypeOK
  <2>5. UNCHANGED container
    BY <1>1 DEF SubmitAccept
  <2> QED
    BY <2>1, <2>2, <2>3, <2>4, <2>5, SameContainers
<1>2. ASSUME NEW j \in Jobs, SubmitReject(j)
      PROVE  ContainerOfItsJob'
  <2>1. \A i \in Jobs : SuccessReported(i)' => SuccessReported(i)
    BY <1>2 DEF SubmitReject, TypeOK, SuccessReported, HeldBy, Failure, workVars
  <2> QED
    BY <1>2, <2>1, SameContainers DEF SubmitReject, TypeOK, Queued
<1>3. ASSUME NEW j \in Jobs, CountJob(j)
      PROVE  ContainerOfItsJob'
  <2>1. \A i \in Jobs : SuccessReported(i)' = SuccessReported(i)
    BY <1>3 DEF CountJob, SuccessReported, HeldBy, workVars
  <2> QED
    BY <1>3, <2>1, SameContainers DEF CountJob, TypeOK, Queued
<1>4. ASSUME NEW j \in Jobs, Return(j)
      PROVE  ContainerOfItsJob'
  <2>1. /\ resultCh[j] \in Seq(Results) /\ Len(resultCh[j]) = 1
        /\ Head(resultCh[j]) = resultCh[j][1]
        /\ Len(Tail(resultCh[j])) = 0
    <3>1. /\ resultCh[j] \in Seq(Results) /\ resultCh[j] # <<>>
          /\ Len(resultCh[j]) <= 1
      BY <1>4 DEF Return, TypeOK
    <3>2. ASSUME NEW s \in Seq(Results), s # <<>>, Len(s) <= 1
          PROVE  Len(s) = 1 /\ Head(s) = s[1] /\ Len(Tail(s)) = 0
      <4>1. Tail(s) \in Seq(Results) /\ Len(Tail(s)) = Len(s) - 1
        BY <3>2, HeadTailProperties
      <4>2. Len(s) \in Nat /\ Len(Tail(s)) \in Nat
        BY <3>2, <4>1, LenProperties
      <4> QED
        BY <3>2, <4>1, <4>2
    <3> QED
      BY <3>1, <3>2
  <2>2. answer'[j] = resultCh[j][1] /\ Len(resultCh'[j]) = 0
    BY <1>4, <2>1 DEF Return, TypeOK
  <2>3. ASSUME NEW i \in Jobs, i # j
        PROVE  SuccessReported(i)' = SuccessReported(i)
    BY <1>4, <2>3 DEF Return, TypeOK, SuccessReported, HeldBy, workVars
  <2>4. SuccessReported(j)' => SuccessReported(j)
    BY <1>4, <2>1, <2>2 DEF Return, SuccessReported, HeldBy, workVars
  <2>5. \A i \in Jobs : SuccessReported(i)' => SuccessReported(i)
    BY <2>3, <2>4
  <2> QED
    BY <1>4, <2>5, SameContainers DEF Return, TypeOK, Queued
<1>5. ASSUME NEW j \in Jobs, DaemonStep(j)
      PROVE  ContainerOfItsJob'
  <2>1. /\ container[j] \in Unstarted \cup {"starting", "running"}
        /\ container'[j] # "none"
        /\ \A i \in Jobs \ {j} : container'[i] = container[i]
        /\ container[j] = "none" => \E w \in Workers : pc[w] = "running" /\ wjob[w] = j
    BY <1>5 DEF DaemonStep, DockerCreate, DockerStart, ContainerStep, Ask, AskCreate,
       AskStart, ContainerExit, TypeOK, Unstarted, Removed
  <2>2. \A i \in Jobs : /\ SuccessReported(i)' = SuccessReported(i)
                          /\ Queued(i)' = Queued(i)
                          /\ caller'[i] = caller[i]
    BY <1>5 DEF DaemonStep, DockerCreate, DockerStart, ContainerStep, Ask, AskCreate,
       AskStart, ContainerExit, SuccessReported, HeldBy, Queued, callVars, workVars
  <2>3. ~SuccessReported(j)
    BY <2>1 DEF ContainerOfItsJob, Unstarted
  <2>4. /\ j \in Supported
        /\ ~Queued(j)
        /\ caller[j] \in {"sent", "waiting", "returned"}
    <3>1. CASE container[j] = "none"
      <4>1. PICK w \in Workers : pc[w] = "running" /\ wjob[w] = j
        BY <2>1, <3>1
      <4>2. j \in Supported /\ HeldBy(j) # {}
        BY <4>1 DEF WorkerInv, HeldBy
      <4> QED
        BY <4>2 DEF JobConservation, OnePlace, Waiting
    <3>2. CASE container[j] # "none"
      BY <3>2 DEF ContainerOfItsJob
    <3> QED
      BY <3>1, <3>2
  <2> QED
    BY <2>1, <2>2, <2>3, <2>4 DEF ContainerOfItsJob
<1>6. ASSUME NEW w \in Workers, TakeJob(w)
      PROVE  ContainerOfItsJob'
  <2>1. ~outcome[w].Success /\ ~outcome'[w].Success
    BY <1>6 DEF TakeJob, WorkerInv, TypeOK, ZeroResult, Failure
  <2>2. \A v \in Workers \ {w} : wjob'[v] = wjob[v] /\ outcome'[v] = outcome[v]
    BY <1>6 DEF TakeJob, TypeOK
  <2>3. ASSUME NEW i \in Jobs
        PROVE  SuccessReported(i)' => SuccessReported(i)
    BY <1>6, <2>1, <2>2 DEF TakeJob, SuccessReported, HeldBy, callVars
  <2>4. ASSUME NEW i \in Jobs, Queued(i)'
        PROVE  Queued(i)
    <3>1. PICK k \in 1..Len(jobs') : jobs'[k] = i
      BY <2>4 DEF Queued
    <3>2. k + 1 \in 1..Len(jobs) /\ jobs[k + 1] = i
      BY <1>6, <3>1 DEF TakeJob, TypeOK
    <3> QED
      BY <3>2 DEF Queued
  <2> QED
    BY <1>6, <2>3, <2>4, SameContainers DEF TakeJob, callVars
<1>7. ASSUME NEW w \in Workers, ExitWorker(w)
      PROVE  ContainerOfItsJob'
  BY <1>7, SameContainers DEF ExitWorker, SuccessReported, HeldBy, Queued, callVars
<1>8. ASSUME NEW w \in Workers, CommandDone(w) \/ CommandFails(w) \/ Timeout(w)
      PROVE  ContainerOfItsJob'
  <2>1. /\ \A v \in Workers \ {w} : outcome'[v] = outcome[v]
        /\ outcome'[w].Success => container[wjob[w]] = "succeeded"
    <3>1. PICK ok \in BOOLEAN : EndRun(w, ok) /\ (ok => container[wjob[w]] = "succeeded")
      BY <1>8 DEF CommandDone, CommandFails, Timeout
    <3> QED
      BY <3>1 DEF EndRun, TypeOK, RunResult
  <2>2. UNCHANGED <<jobs, callVars, wjob, container>>
    BY <1>8 DEF CommandDone, CommandFails, Timeout, EndRun
  <2>3. ASSUME NEW i \in Jobs
        PROVE  SuccessReported(i)' => SuccessReported(i) \/ container[i] = "succeeded"
    BY <2>1, <2>2 DEF SuccessReported, HeldBy, callVars
  <2> QED
    BY <2>2, <2>3, SameContainers DEF Queued, callVars
<1>9. ASSUME NEW w \in Workers, SendResult(w)
      PROVE  ContainerOfItsJob'
  <2>0. PICK h : h = wjob[w]
    OBVIOUS
  <2>1. h \in Jobs /\ w \in HeldBy(h) /\ ~Delivered(h)
    BY <1>9, <2>0 DEF SendResult, TypeOK, JobConservation, BusyHolds, HeldBy, OnePlace
  <2>2. /\ \A v \in Workers \ {w} : outcome'[v] = outcome[v] /\ wjob'[v] = wjob[v]
        /\ wjob'[w] = NoJob
        /\ \A i \in Jobs \ {h} : resultCh'[i] = resultCh[i]
        /\ resultCh'[h] = <<outcome[w]>>
    <3>1. resultCh[h] = <<>>
      BY <2>1 DEF Delivered
    <3> QED
      BY <1>9, <2>0, <2>1, <3>1 DEF SendResult, TypeOK
  <2>3. ASSUME NEW i \in Jobs, i # h
        PROVE  SuccessReported(i)' => SuccessReported(i)
    BY <1>9, <2>2, <2>3, DockerPoolAssumption DEF SendResult, SuccessReported, HeldBy
  <2>4. SuccessReported(h)' => SuccessReported(h)
    <3>1. ASSUME NEW k \in 1..Len(resultCh'[h]), resultCh'[h][k].Success
          PROVE  outcome[w].Success
      BY <2>2, <3>1
    <3>2. ASSUME NEW v \in HeldBy(h)', outcome'[v].Success
          PROVE  v \in HeldBy(h) /\ outcome[v].Success
      BY <2>1, <2>2, <3>2, DockerPoolAssumption DEF HeldBy
    <3> QED
      BY <1>9, <2>1, <3>1, <3>2 DEF SuccessReported, SendResult
  <2>5. \A i \in Jobs : SuccessReported(i)' => SuccessReported(i)
    BY <2>3, <2>4
  <2> QED
    BY <1>9, <2>5, SameContainers DEF SendResult, Queued
<1>10. CASE Stats \/ CloseShutdown \/ ShutdownReturns \/ UNCHANGED vars
  BY <1>10, SameContainers DEF Stats, CloseShutdown, ShutdownReturns, vars, SuccessReported,
     HeldBy, Queued, callVars, workVars
<1> QED
  BY <1>1, <1>2, <1>3, <1>4, <1>5, <1>6, <1>7, <1>8, <1>9, <1>10
     DEF Next, CallerStep, WorkerStep

\* The inductive invariant of the module.
DockerInv == TypeOK /\ JobConservation /\ WorkerInv /\ ContainerOfItsJob

LEMMA DockerInvariant == Spec => []DockerInv
BY InitTypeOK, InitConservation, InitWorkerInv, InitContainer,
   NextTypeOK, NextConservation, NextWorkerInv, NextContainer, PTL DEF Spec, DockerInv

\* ExecuteJob never reports as a success the output of a container that has not
\* ended with status 0, and containers exist for supported, taken jobs only.
THEOREM ContainersCorrect == Spec => []ContainerOfItsJob
BY DockerInvariant, PTL DEF DockerInv

\* After Shutdown has returned no program is started but those the daemon had
\* been asked to start by a command that a deadline killed: only a command asks,
\* and it ends with its worker.
THEOREM ShutdownIsFinal == Spec => NothingStartsAfterShutdown
<1>1. WorkerInv /\ TypeOK /\ [Next]_vars
      => [stopped => \A j \in Jobs : container[j] \in Unstarted => container'[j] \in Unstarted]_vars
  <2> SUFFICES ASSUME WorkerInv, TypeOK, [Next]_vars, stopped,
                      NEW j \in Jobs, container[j] \in Unstarted
               PROVE  container'[j] \in Unstarted
    OBVIOUS
  <2>1. \A w \in Workers : pc[w] = "exited"
    BY DEF WorkerInv
  <2>2. ASSUME NEW i \in Jobs, CallerStep(i)
        PROVE  container' = container
    BY <2>2 DEF CallerStep, SubmitAccept, SubmitReject, CountJob, Return
  <2>3. ASSUME NEW i \in Jobs, DaemonStep(i)
        PROVE  container'[j] \in Unstarted
    <3>1. ~AskCreate(i) /\ ~AskStart(i)
      BY <2>1 DEF AskCreate, AskStart, Ask
    <3>2. CASE DockerCreate(i)
      BY <3>2 DEF DockerCreate, ContainerStep, TypeOK, Unstarted
    <3>3. CASE DockerStart(i) \/ ContainerExit(i)
      BY <3>3 DEF DockerStart, ContainerStep, ContainerExit, TypeOK, Unstarted
    <3> QED
      BY <2>3, <3>1, <3>2, <3>3 DEF DaemonStep
  <2>4. ASSUME NEW w \in Workers, WorkerStep(w)
        PROVE  container' = container
    BY <2>4 DEF WorkerStep, TakeJob, ExitWorker, CommandDone, CommandFails, Timeout, EndRun,
       SendResult
  <2>5. CASE Stats \/ CloseShutdown \/ ShutdownReturns \/ UNCHANGED vars
    BY <2>5 DEF Stats, CloseShutdown, ShutdownReturns, vars
  <2> QED
    BY <2>2, <2>3, <2>4, <2>5 DEF Next
<1> QED
  BY <1>1, DockerInvariant, PTL DEF Spec, DockerInv, NothingStartsAfterShutdown

-----------------------------------------------------------------------------
(* The counter.                                                            *)

LEMMA NextCounted == TypeOK /\ CountedOnce /\ [Next]_vars => CountedOnce'
<1> SUFFICES ASSUME TypeOK, CountedOnce, [Next]_vars
             PROVE  CountedOnce'
  OBVIOUS
<1> DEFINE counted == {j \in Jobs : caller[j] \in {"waiting", "returned"}}
<1>1. ASSUME NEW j \in Jobs, CountJob(j)
      PROVE  CountedOnce'
  <2>1. stats'.TotalExecuted = stats.TotalExecuted + 1
    <3>1. stats' = [stats EXCEPT !.TotalExecuted = stats.TotalExecuted + 1]
      BY <1>1 DEF CountJob
    <3> QED
      BY <3>1 DEF TypeOK
  <2>2. j \notin counted /\ counted' = counted \cup {j}
    BY <1>1 DEF CountJob, TypeOK
  <2>3. IsFiniteSet(counted)
    <3>1. IsFiniteSet(Jobs)
      BY DockerPoolAssumption
    <3> QED
      BY <3>1, FS_Subset
  <2>4. Cardinality(counted \cup {j}) = Cardinality(counted) + 1
    BY <2>2, <2>3, FS_AddElement
  <2> QED
    BY <2>1, <2>2, <2>4 DEF CountedOnce
<1>2. CASE stats'.TotalExecuted = stats.TotalExecuted /\ counted' = counted
  BY <1>2 DEF CountedOnce
<1>3. ASSUME NEW j \in Jobs, SubmitAccept(j) \/ SubmitReject(j) \/ Return(j)
      PROVE  CountedOnce'
  <2>1. stats' = stats /\ counted' = counted
    BY <1>3 DEF SubmitAccept, SubmitReject, Return, TypeOK
  <2> QED
    BY <1>2, <2>1
<1>4. CASE Stats
  <2>1. caller' = caller /\ stats' = [stats EXCEPT !.QueuedJobs = Len(jobs)]
    BY <1>4 DEF Stats
  <2>2. stats'.TotalExecuted = stats.TotalExecuted
    BY <2>1 DEF TypeOK
  <2> QED
    BY <1>2, <2>1, <2>2
<1>5. CASE UNCHANGED <<caller, stats>>
  BY <1>2, <1>5
<1>6. CASE CloseShutdown \/ ShutdownReturns \/ UNCHANGED vars
  BY <1>5, <1>6 DEF CloseShutdown, ShutdownReturns, vars, callVars
<1>7. ASSUME NEW w \in Workers, WorkerStep(w)
      PROVE  CountedOnce'
  BY <1>5, <1>7 DEF WorkerStep, TakeJob, ExitWorker, CommandDone, CommandFails, Timeout,
     EndRun, SendResult, callVars
<1>8. ASSUME NEW j \in Jobs, DaemonStep(j)
      PROVE  CountedOnce'
  BY <1>5, <1>8 DEF DaemonStep, DockerCreate, DockerStart, ContainerStep, Ask, AskCreate,
     AskStart, ContainerExit, callVars
<1> QED
  BY <1>1, <1>3, <1>4, <1>6, <1>7, <1>8 DEF Next, CallerStep

\* TotalExecuted counts each accepted job once, however the increments of the
\* callers and the ends of their jobs interleave, and refused jobs never.
THEOREM JobsAreCountedOnce == Spec => []CountedOnce
<1>1. Init => CountedOnce
  <2> SUFFICES ASSUME Init
               PROVE  CountedOnce
    OBVIOUS
  <2>1. {j \in Jobs : caller[j] \in {"waiting", "returned"}} = {}
    BY DEF Init
  <2> QED
    BY <2>1, FS_EmptySet DEF Init, CountedOnce
<1> QED
  BY <1>1, DockerInvariant, NextCounted, PTL DEF Spec, DockerInv

-----------------------------------------------------------------------------
(* Refinement of JobService.                                               *)

\* A worker in its select leaves room for one more execution.
LEMMA RoomToDispatch ==
  ASSUME TypeOK, JobConservation, NEW w \in Workers, pc[w] = "select"
  PROVE  IsFiniteSet(Held) /\ Cardinality(Held) < MaxWorkers
<1> DEFINE busy == {v \in Workers : pc[v] \in {"running", "sending"}}
           take == [v \in busy |-> wjob[v]]
<1>1. IsFiniteSet(Workers) /\ Cardinality(Workers) = MaxWorkers
  BY Constants, FS_Interval DEF Workers
<1>2. IsFiniteSet(Workers \ {w}) /\ Cardinality(Workers \ {w}) = MaxWorkers - 1
  BY <1>1, FS_RemoveElement
<1>3. busy \in SUBSET (Workers \ {w})
  OBVIOUS
<1>4. IsFiniteSet(busy) /\ Cardinality(busy) <= MaxWorkers - 1
  BY <1>2, <1>3, FS_Subset
<1>5. take \in Surjection(busy, Held)
  BY DEF Held, Surjection
<1>6. IsFiniteSet(Held) /\ Cardinality(Held) <= Cardinality(busy)
  BY <1>4, <1>5, FS_Surjection
<1>7. Cardinality(Held) \in Nat /\ Cardinality(busy) \in Nat
  BY <1>4, <1>6, FS_CardinalityType
<1> QED
  BY <1>4, <1>6, <1>7, Constants

LEMMA InitRefines == Init => Service!Init
BY DockerPoolAssumption
   DEF Init, Service!Init, Held, Answered

\* A job of the abstract specification is new exactly while it is idle here.
LEMMA IdleIsUnseen ==
  ASSUME TypeOK, JobConservation, NEW j \in Jobs, caller[j] = "idle"
  PROVE  j \notin Service!Seen
<1>1. ~Queued(j) /\ HeldBy(j) = {} /\ ~Delivered(j)
  BY DEF JobConservation, OnePlace, Waiting
<1> QED
  BY <1>1 DEF Service!Seen, Queued, HeldBy, Delivered, Held, Answered

LEMMA NextRefines ==
  TypeOK /\ JobConservation /\ WorkerInv /\ [Next]_vars => [Service!Next]_Service!vars
<1> SUFFICES ASSUME TypeOK, JobConservation, WorkerInv, [Next]_vars
             PROVE  Service!Next \/ UNCHANGED Service!vars
  OBVIOUS
<1> DEFINE refused == {j \in Jobs : caller[j] = "rejected"}
<1>1. ASSUME NEW j \in Jobs, SubmitAccept(j)
      PROVE  Service!Accept(j)
  <2>1. Held' = Held /\ stopped' = stopped
    BY <1>1 DEF SubmitAccept, Held, workVars, stopVars
  <2>2. Answered' = Answered /\ refused' = refused
    BY <1>1 DEF SubmitAccept, Answered, TypeOK
  <2>3. j \notin Service!Seen
    BY <1>1, IdleIsUnseen DEF SubmitAccept
  <2> QED
    BY <1>1, <2>1, <2>2, <2>3 DEF SubmitAccept, Service!Accept
<1>2. ASSUME NEW j \in Jobs, SubmitReject(j)
      PROVE  Service!Refuse(j)
  <2>1. Held' = Held /\ stopped' = stopped /\ jobs' = jobs
    BY <1>2 DEF SubmitReject, Held, workVars, stopVars
  <2>2. Answered' = Answered /\ refused' = refused \cup {j}
    BY <1>2 DEF SubmitReject, Answered, TypeOK
  <2>3. j \notin Service!Seen
    BY <1>2, IdleIsUnseen DEF SubmitReject
  <2>4. Len(jobs) = QueueCapacity
    BY <1>2, Constants DEF SubmitReject, TypeOK
  <2> QED
    BY <2>1, <2>2, <2>3, <2>4 DEF Service!Refuse
<1>3. ASSUME NEW j \in Jobs, CountJob(j)
      PROVE  UNCHANGED Service!vars
  BY <1>3 DEF Service!vars, CountJob, TypeOK, Held, Answered, workVars, stopVars
<1>4. ASSUME NEW j \in Jobs, Return(j)
      PROVE  UNCHANGED Service!vars
  <2>1. Answered' = Answered
    BY <1>4 DEF Return, TypeOK, Answered
  <2>2. Held' = Held /\ refused' = refused /\ stopped' = stopped /\ jobs' = jobs
    BY <1>4 DEF Return, TypeOK, Held, workVars, stopVars
  <2> QED
    BY <2>1, <2>2 DEF Service!vars
<1>5. ASSUME NEW j \in Jobs, DaemonStep(j)
      PROVE  UNCHANGED Service!vars
  BY <1>5 DEF Service!vars, DaemonStep, DockerCreate, DockerStart, ContainerStep, Ask,
     AskCreate, AskStart, ContainerExit, Held, Answered, callVars, workVars, stopVars
<1>6. ASSUME NEW w \in Workers, TakeJob(w)
      PROVE  Service!Dispatch
  <2>1. ~stopped
    BY <1>6 DEF TakeJob, WorkerInv
  <2>2. Cardinality(Held) < MaxWorkers
    BY <1>6, RoomToDispatch DEF TakeJob
  <2>3. Held' = Held \cup {Head(jobs)}
    <3>1. /\ wjob'[w] = Head(jobs) /\ pc'[w] \in {"running", "sending"}
          /\ pc[w] = "select"
          /\ \A v \in Workers \ {w} : pc'[v] = pc[v] /\ wjob'[v] = wjob[v]
      BY <1>6 DEF TakeJob, TypeOK
    <3> QED
      BY <3>1 DEF Held
  <2>4. Answered' = Answered /\ refused' = refused
    BY <1>6 DEF TakeJob, Answered, callVars
  <2>5. jobs # <<>> /\ jobs' = Tail(jobs) /\ stopped' = stopped
    BY <1>6 DEF TakeJob, stopVars
  <2>6. Service!Cardinality(Held) = Cardinality(Held)
    BY DEF Service!Cardinality, Cardinality
  <2> QED
    BY <2>1, <2>2, <2>3, <2>4, <2>5, <2>6 DEF Service!Dispatch
<1>7. ASSUME NEW w \in Workers, ExitWorker(w)
      PROVE  UNCHANGED Service!vars
  <2>1. Held' = Held
    BY <1>7 DEF ExitWorker, TypeOK, Held
  <2> QED
    BY <1>7, <2>1 DEF Service!vars, ExitWorker, Answered, callVars, stopVars
<1>8. ASSUME NEW w \in Workers, CommandDone(w) \/ CommandFails(w) \/ Timeout(w)
      PROVE  UNCHANGED Service!vars
  <2>1. PICK ok \in BOOLEAN : EndRun(w, ok)
    BY <1>8 DEF CommandDone, CommandFails, Timeout
  <2>2. Held' = Held
    <3>1. /\ wjob' = wjob
          /\ \A v \in Workers : pc'[v] \in {"running", "sending"} <=> pc[v] \in {"running", "sending"}
      BY <2>1 DEF EndRun, TypeOK
    <3> QED
      BY <3>1 DEF Held
  <2> QED
    BY <2>1, <2>2 DEF Service!vars, EndRun, Answered, callVars, stopVars
<1>9. ASSUME NEW w \in Workers, SendResult(w)
      PROVE  Service!Answer(wjob[w])
  <2>0. PICK h : h = wjob[w]
    OBVIOUS
  <2>1. h \in Jobs /\ h # NoJob /\ h \in Held /\ caller[h] # "returned"
    <3>1. h # NoJob /\ h \in Held
      BY <1>9, <2>0 DEF SendResult, JobConservation, BusyHolds, Held
    <3>2. h \in Jobs
      BY <2>0, <3>1 DEF TypeOK
    <3>3. w \in HeldBy(h)
      BY <2>0 DEF HeldBy
    <3> QED
      BY <3>1, <3>2, <3>3 DEF JobConservation, OnePlace, Waiting
  <2>2. Held' = Held \ {h}
    <3>1. /\ pc'[w] = "select" /\ pc[w] = "sending"
          /\ \A v \in Workers \ {w} : pc'[v] = pc[v] /\ wjob'[v] = wjob[v]
      BY <1>9 DEF SendResult, TypeOK
    <3>2. \A v \in Workers \ {w} : wjob[v] # h
      BY <2>0, <2>1 DEF JobConservation, HoldersDistinct
    <3> QED
      BY <2>0, <3>1, <3>2 DEF Held
  <2>3. Answered' = Answered \cup {h}
    <3>1. resultCh'[h] # <<>> /\ \A i \in Jobs \ {h} : resultCh'[i] = resultCh[i]
      <4>1. resultCh[h] \in Seq(Results) /\ outcome[w] \in Results
        BY <2>1 DEF TypeOK
      <4>2. Append(resultCh[h], outcome[w]) # <<>>
        BY <4>1
      <4> QED
        BY <1>9, <2>0, <2>1, <4>2 DEF SendResult, TypeOK
    <3> QED
      BY <1>9, <2>1, <3>1 DEF Answered, SendResult
  <2> QED
    BY <1>9, <2>0, <2>1, <2>2, <2>3 DEF Service!Answer, SendResult, stopVars
<1>10. CASE ShutdownReturns
  <2>1. Held = {} /\ Held' = Held
    BY <1>10 DEF ShutdownReturns, Held, workVars
  <2> QED
    BY <1>10, <2>1 DEF ShutdownReturns, Service!Next, Service!Stop, Answered, callVars
<1>11. CASE Stats \/ CloseShutdown \/ UNCHANGED vars
  <2>1. UNCHANGED <<jobs, caller, resultCh, pc, wjob, stopped>>
    BY <1>11 DEF Stats, CloseShutdown, vars, callVars, workVars, stopVars
  <2> QED
    BY <2>1 DEF Service!vars, Held, Answered
<1>12. ASSUME NEW j \in Jobs, Service!Accept(j) \/ Service!Refuse(j) \/ Service!Answer(j)
       PROVE  Service!Next
  BY <1>12 DEF Service!Next
<1>13. ASSUME NEW w \in Workers, SendResult(w)
       PROVE  Service!Next
  <2>1. wjob[w] \in Jobs
    BY <1>13 DEF SendResult, TypeOK, JobConservation, BusyHolds
  <2> QED
    BY <1>9, <1>13, <2>1 DEF Service!Next
<1>14. Service!Dispatch => Service!Next
  BY DEF Service!Next
<1> QED
  BY <1>1, <1>2, <1>3, <1>4, <1>5, <1>6, <1>7, <1>8, <1>10, <1>11, <1>12, <1>13, <1>14
     DEF Next, CallerStep, WorkerStep

\* The pool is a worker.WorkerPool: jobs are executed in the order they were
\* accepted, each once, at most MaxWorkers at a time, none after Shutdown.
THEOREM Refinement == Spec => ImplementsJobService
BY DockerInvariant, InitRefines, NextRefines, PTL
   DEF Spec, DockerInv, ImplementsJobService, Service!Spec

-----------------------------------------------------------------------------
(* What the pool therefore promises its callers.                           *)

Promise == INSTANCE JobService_proofs WITH
  Capacity <- QueueCapacity,
  pending <- jobs,
  running <- Held,
  answered <- Answered,
  refused <- {j \in Jobs : caller[j] = "rejected"},
  open <- ~stopped

LEMMA ServiceIsPromise == Service!Spec => Promise!Spec
<1>1. Service!Init => Promise!Init
  BY DEF Service!Init, Promise!Init
<1>2. Service!Cardinality(Held) = Promise!Cardinality(Held)
  BY DEF Service!Cardinality, Promise!Cardinality
<1>3. [Service!Next]_Service!vars => [Promise!Next]_Promise!vars
  BY <1>2
     DEF Service!Next, Promise!Next, Service!vars, Promise!vars, Service!Seen, Promise!Seen,
         Service!Accept, Promise!Accept, Service!Refuse, Promise!Refuse,
         Service!Answer, Promise!Answer, Service!Dispatch, Promise!Dispatch,
         Service!Stop, Promise!Stop
<1> QED
  BY <1>1, <1>3, PTL DEF Service!Spec, Promise!Spec

\* A call of ExecuteJob is at one stage at a time; the queue and the workers
\* stay within the configuration; an answer or a refusal is final; the queue is
\* served in turn.
THEOREM PoolKeepsPromises ==
  Spec => /\ []Service!OneStage /\ []Service!WithinLimits
          /\ Service!VerdictsAreFinal /\ Service!FirstComeFirstServed
<1>1. Spec => Promise!Spec
  BY Refinement, ServiceIsPromise DEF ImplementsJobService
<1>2. Promise!Spec => /\ []Promise!OneStage /\ []Promise!WithinLimits
                      /\ Promise!VerdictsAreFinal /\ Promise!FirstComeFirstServed
  BY Constants, Promise!CallsAreAtOneStage, Promise!LimitsAreKept, Promise!VerdictsStay,
     Promise!QueueInTurn
<1>3. Promise!OneStage => Service!OneStage
  BY DEF Service!OneStage, Promise!OneStage, Service!Pending, Promise!Pending
<1>4. Promise!WithinLimits => Service!WithinLimits
  <2>1. Service!Cardinality(Held) = Promise!Cardinality(Held)
    BY DEF Service!Cardinality, Promise!Cardinality
  <2> QED
    BY <2>1 DEF Service!WithinLimits, Promise!WithinLimits
<1>5. Promise!VerdictsAreFinal => Service!VerdictsAreFinal
  <2>1. [Promise!VerdictsKept]_Promise!vars => [Service!VerdictsKept]_Service!vars
    BY DEF Service!vars, Promise!vars, Service!VerdictsKept, Promise!VerdictsKept
  <2> QED
    BY <2>1, PTL DEF Service!VerdictsAreFinal, Promise!VerdictsAreFinal
<1>6. Promise!FirstComeFirstServed => Service!FirstComeFirstServed
  <2>1. [Promise!InTurn]_Promise!vars => [Service!InTurn]_Service!vars
    BY DEF Service!vars, Promise!vars, Service!InTurn, Promise!InTurn
  <2> QED
    BY <2>1, PTL DEF Service!FirstComeFirstServed, Promise!FirstComeFirstServed
<1> QED
  BY <1>1, <1>2, <1>3, <1>4, <1>5, <1>6, PTL

-----------------------------------------------------------------------------
(* What ends up happening.  The provers do not know what ENABLED means: that *)
(* the guards of a goroutine's next step enable it, NothingElseBlocks, which *)
(* TLC checks, is an assumption here.  That they hold is proved.             *)

\* A worker that sends a result finds room for it.
RoomToSend == \A w \in Workers : pc[w] = "sending" => resultCh[wjob[w]] = <<>>

LEMMA SendersFindRoom == DockerInv => RoomToSend
BY DEF DockerInv, TypeOK, JobConservation, BusyHolds, OnePlace, HeldBy, Delivered,
   RoomToSend

\* The send of a result never blocks a worker, whatever has become of its caller.
THEOREM SendsNeverBlock == Spec => []RoomToSend
BY SendersFindRoom, DockerInvariant, PTL

Runs(w, j) == pc[w] = "running" /\ wjob[w] = j
Sends(w, j) == pc[w] = "sending" /\ wjob[w] = j
Uncounted(j) == caller[j] = "sent" /\ Delivered(j)
Receivable(j) == caller[j] = "waiting" /\ Delivered(j)
Returned(j) == caller[j] = "returned"

\* A worker is disturbed by nobody, and leaves the stage it is in forward.
LEMMA WorkerStages ==
  ASSUME NEW w \in Workers, NEW j \in Jobs, DockerInv, [Next]_vars
  PROVE  /\ Runs(w, j) => Runs(w, j)' \/ Sends(w, j)'
         /\ Sends(w, j) => Sends(w, j)' \/ Uncounted(j)' \/ Receivable(j)'
         /\ <<WorkerStep(w)>>_vars => ~Runs(w, j)' \/ ~Runs(w, j)
         /\ <<WorkerStep(w)>>_vars => ~Sends(w, j)' \/ ~Sends(w, j)
<1>0. TypeOK /\ JobConservation
  BY DEF DockerInv
<1>1. CASE UNCHANGED <<pc, wjob>>
  <2>1. ASSUME WorkerStep(w)
        PROVE  ~Runs(w, j) /\ ~Sends(w, j)
    BY <1>0, <1>1, <2>1 DEF WorkerStep, TakeJob, ExitWorker, CommandDone, CommandFails,
       Timeout, EndRun, SendResult, Runs, Sends, TypeOK
  <2> QED
    BY <1>1, <2>1 DEF Runs, Sends
<1>2. ASSUME NEW v \in Workers, WorkerStep(v), v # w
      PROVE  /\ pc'[w] = pc[w] /\ wjob'[w] = wjob[w]
             /\ ~(WorkerStep(w) /\ (Runs(w, j) \/ Sends(w, j)))
  BY <1>0, <1>2 DEF WorkerStep, TakeJob, ExitWorker, CommandDone, CommandFails, Timeout,
     EndRun, SendResult, TypeOK, Runs, Sends, workVars
<1>3. ASSUME WorkerStep(w), Runs(w, j)
      PROVE  Sends(w, j)'
  BY <1>0, <1>3 DEF WorkerStep, TakeJob, ExitWorker, CommandDone, CommandFails, Timeout,
     EndRun, SendResult, TypeOK, Runs, Sends
<1>4. ASSUME WorkerStep(w), Sends(w, j)
      PROVE  ~Sends(w, j)' /\ (Uncounted(j)' \/ Receivable(j)')
  <2>1. SendResult(w)
    BY <1>4 DEF WorkerStep, TakeJob, ExitWorker, CommandDone, CommandFails, Timeout,
       EndRun, Sends
  <2>2. Delivered(j)' /\ caller' = caller
    BY <1>0, <1>4, <2>1 DEF SendResult, TypeOK, Sends, Delivered
  <2>3. Waiting(j)
    BY <1>0, <1>4 DEF JobConservation, OnePlace, HeldBy, Sends
  <2> QED
    BY <1>0, <2>1, <2>2, <2>3 DEF SendResult, TypeOK, Sends, Waiting, Uncounted, Receivable
<1>5. UNCHANGED <<pc, wjob>> \/ \E v \in Workers : WorkerStep(v)
  BY DEF Next, vars, CallerStep, SubmitAccept, SubmitReject, CountJob, Return, DaemonStep,
     DockerCreate, DockerStart, ContainerStep, Ask, AskCreate, AskStart, ContainerExit,
     Stats, CloseShutdown, ShutdownReturns, workVars
<1>6. CASE WorkerStep(w)
  BY <1>3, <1>4, <1>6 DEF Runs, Sends
<1> QED
  BY <1>1, <1>2, <1>5, <1>6 DEF Runs, Sends

\* A result that was sent stays until ExecuteJob receives it.
LEMMA CallerStages ==
  ASSUME NEW j \in Jobs, DockerInv, [Next]_vars
  PROVE  /\ Uncounted(j) => Uncounted(j)' \/ Receivable(j)'
         /\ Uncounted(j) /\ <<CountJob(j)>>_vars => Receivable(j)'
         /\ Receivable(j) => Receivable(j)' \/ Returned(j)'
         /\ Receivable(j) /\ <<Return(j)>>_vars => Returned(j)'
         /\ Returned(j) => Returned(j)'
<1>0. TypeOK /\ JobConservation
  BY DEF DockerInv
<1>1. CASE UNCHANGED <<caller, resultCh>>
  <2>1. /\ Uncounted(j) => ~CountJob(j)
        /\ Receivable(j) => ~Return(j)
    BY <1>0, <1>1 DEF CountJob, Return, Uncounted, Receivable, TypeOK
  <2> QED
    BY <1>1, <2>1 DEF Uncounted, Receivable, Returned, Delivered
<1>2. ASSUME NEW i \in Jobs, CallerStep(i), i # j
      PROVE  caller'[j] = caller[j] /\ resultCh'[j] = resultCh[j]
  BY <1>0, <1>2 DEF CallerStep, SubmitAccept, SubmitReject, CountJob, Return, TypeOK
<1>3. ASSUME CallerStep(j)
      PROVE  /\ Uncounted(j) => Receivable(j)'
             /\ Receivable(j) => Returned(j)'
             /\ ~Returned(j)
  BY <1>0, <1>3 DEF CallerStep, SubmitAccept, SubmitReject, CountJob, Return, TypeOK,
     Uncounted, Receivable, Returned, Delivered
<1>4. ASSUME NEW w \in Workers, SendResult(w)
      PROVE  caller' = caller /\ (Delivered(j) => resultCh'[j] = resultCh[j])
  <2>1. wjob[w] \in Jobs /\ HeldBy(wjob[w]) # {}
    BY <1>0, <1>4 DEF SendResult, TypeOK, JobConservation, BusyHolds, HeldBy
  <2>2. ~Delivered(wjob[w])
    BY <1>0, <2>1 DEF JobConservation, OnePlace
  <2> QED
    BY <1>0, <1>4, <2>1, <2>2 DEF SendResult, TypeOK, Delivered
<1>5. \/ UNCHANGED <<caller, resultCh>>
      \/ \E i \in Jobs : CallerStep(i)
      \/ \E w \in Workers : SendResult(w)
  BY DEF Next, vars, WorkerStep, TakeJob, ExitWorker, CommandDone, CommandFails, Timeout,
     EndRun, DaemonStep, DockerCreate, DockerStart, ContainerStep, Ask, AskCreate,
     AskStart, ContainerExit, Stats, CloseShutdown, ShutdownReturns, callVars
<1>6. ASSUME \E i \in Jobs : CallerStep(i)
      PROVE  CallerStep(j) \/ (caller'[j] = caller[j] /\ resultCh'[j] = resultCh[j])
  BY <1>2, <1>6
<1>7. CountJob(j) \/ Return(j) => CallerStep(j)
  BY DEF CallerStep
<1> QED
  BY <1>1, <1>3, <1>4, <1>5, <1>6, <1>7 DEF Uncounted, Receivable, Returned, Delivered

\* The result of a job reaches its caller.
LEMMA SentIsReturned ==
  ASSUME NEW j \in Jobs
  PROVE  FairSpec /\ []NothingElseBlocks => (Uncounted(j) \/ Receivable(j) ~> Returned(j))
<1>1. Fairness => CallerFairness(j)
  BY DEF Fairness
<1>2. NothingElseBlocks => CallerMoves(j)
  BY DEF NothingElseBlocks
<1>3. CallerMoves(j) /\ Uncounted(j) => ENABLED <<CountJob(j)>>_vars
  BY DEF CallerMoves, Uncounted
<1>4. CallerMoves(j) /\ Receivable(j) => ENABLED <<Return(j)>>_vars
  BY DEF CallerMoves, Receivable
<1>5. /\ DockerInv /\ Uncounted(j) /\ [Next]_vars => Uncounted(j)' \/ Receivable(j)'
      /\ DockerInv /\ Uncounted(j) /\ [Next]_vars /\ <<CountJob(j)>>_vars => Receivable(j)'
      /\ DockerInv /\ Receivable(j) /\ [Next]_vars => Receivable(j)' \/ Returned(j)'
      /\ DockerInv /\ Receivable(j) /\ [Next]_vars /\ <<Return(j)>>_vars => Returned(j)'
  BY CallerStages
<1> QED
  BY <1>1, <1>2, <1>3, <1>4, <1>5, DockerInvariant, PTL DEF FairSpec, Spec, CallerFairness

\* A worker's job reaches its caller.
LEMMA WorkedOnIsReturned ==
  ASSUME NEW w \in Workers, NEW j \in Jobs
  PROVE  FairSpec /\ []NothingElseBlocks => (Runs(w, j) \/ Sends(w, j) ~> Returned(j))
<1>1. Fairness => WorkerFairness(w)
  BY DEF Fairness
<1>2. NothingElseBlocks => WorkerMoves(w)
  BY DEF NothingElseBlocks
<1>3. DockerInv /\ WorkerMoves(w) /\ (Runs(w, j) \/ Sends(w, j)) => ENABLED <<WorkerStep(w)>>_vars
  BY SendersFindRoom DEF WorkerMoves, WorkerReady, RoomToSend, Runs, Sends
<1>4. /\ DockerInv /\ Runs(w, j) /\ [Next]_vars => Runs(w, j)' \/ Sends(w, j)'
      /\ DockerInv /\ Sends(w, j) /\ [Next]_vars
           => Sends(w, j)' \/ Uncounted(j)' \/ Receivable(j)'
      /\ DockerInv /\ Runs(w, j) /\ [Next]_vars /\ <<WorkerStep(w)>>_vars => ~Runs(w, j)'
      /\ DockerInv /\ Sends(w, j) /\ [Next]_vars /\ <<WorkerStep(w)>>_vars => ~Sends(w, j)'
  BY WorkerStages
<1> QED
  BY <1>1, <1>2, <1>3, <1>4, SentIsReturned, DockerInvariant, PTL
     DEF FairSpec, Spec, WorkerFairness

\* A job a worker has taken is answered, whatever the daemon and the submitted
\* program do and whether or not the pool is shut down.
THEOREM TakenJobsAreAnswered == FairSpec /\ []NothingElseBlocks => TakenIsAnswered
<1>1. ASSUME NEW j \in Jobs
      PROVE  FairSpec /\ []NothingElseBlocks => (j \in Held ~> Returned(j))
  <2>1. FairSpec /\ []NothingElseBlocks
        => \A w \in Workers : [](Runs(w, j) \/ Sends(w, j) => <>Returned(j))
    <3>1. ASSUME NEW w \in Workers
          PROVE  FairSpec /\ []NothingElseBlocks
                 => [](Runs(w, j) \/ Sends(w, j) => <>Returned(j))
      BY WorkedOnIsReturned, PTL
    <3> QED
      BY <3>1
  <2>2. (\A w \in Workers : [](Runs(w, j) \/ Sends(w, j) => <>Returned(j)))
        => [](\A w \in Workers : Runs(w, j) \/ Sends(w, j) => <>Returned(j))
    OBVIOUS
  <2>3. (\A w \in Workers : Runs(w, j) \/ Sends(w, j) => <>Returned(j))
        => ((\E w \in Workers : Runs(w, j) \/ Sends(w, j)) => <>Returned(j))
    OBVIOUS
  <2>4. j \in Held => \E w \in Workers : Runs(w, j) \/ Sends(w, j)
    BY DEF Held, Runs, Sends
  <2> QED
    BY <2>1, <2>2, <2>3, <2>4, PTL
<1> QED
  BY <1>1 DEF TakenIsAnswered, Returned

\* Workers leave their loops only once Shutdown was called.
InLoop == \A w \in Workers : pc[w] = "exited" => shutdown

LEMMA InLoopNext == TypeOK /\ InLoop /\ [Next]_vars => InLoop'
BY DEF InLoop, TypeOK, Next, vars, CallerStep, SubmitAccept, SubmitReject, CountJob, Return,
   DaemonStep, DockerCreate, DockerStart, ContainerStep, Ask, AskCreate, AskStart,
   ContainerExit, WorkerStep, TakeJob, ExitWorker, CommandDone, CommandFails, Timeout,
   EndRun, SendResult, Stats, CloseShutdown, ShutdownReturns, workVars, stopVars

LEMMA LoopInvariant == Spec => []InLoop
<1>1. Init => InLoop
  BY DEF Init, InLoop
<1> QED
  BY <1>1, InLoopNext, TypeCorrect, PTL DEF Spec

\* The job j is the k-th in the queue; it has left that place, upward or to a
\* worker, or the pool is being shut down.
At(k, j) == k <= Len(jobs) /\ jobs[k] = j
Advanced(k, j) == (k > 1 /\ At(k - 1, j)) \/ j \in Held \/ shutdown

Is(w, stage) == pc[w] = stage

\* A step leaves the k-th job where it is or advances it, and a worker that takes
\* a job advances every one.
LEMMA QueueStages ==
  ASSUME NEW w \in Workers, NEW j \in Jobs, NEW k \in Nat \ {0},
         DockerInv, InLoop, At(k, j), ~shutdown, [Next]_vars
  PROVE  /\ At(k, j)' \/ Advanced(k, j)'
         /\ Is(w, "running") \/ Is(w, "sending") \/ Is(w, "select")
         /\ Is(w, "running") => Is(w, "running")' \/ Is(w, "sending")'
         /\ Is(w, "sending") => Is(w, "sending")' \/ Is(w, "select")'
         /\ Is(w, "select") => Is(w, "select")' \/ Advanced(k, j)'
         /\ Is(w, "running") /\ <<WorkerStep(w)>>_vars => ~Is(w, "running")'
         /\ Is(w, "sending") /\ <<WorkerStep(w)>>_vars => ~Is(w, "sending")'
         /\ Is(w, "select") /\ <<WorkerStep(w)>>_vars => Advanced(k, j)'
<1>0. TypeOK /\ k \in 1..Len(jobs) /\ jobs[k] = j
  BY DEF DockerInv, At, TypeOK
<1>1. ASSUME NEW v \in Workers, TakeJob(v)
      PROVE  Advanced(k, j)'
  <2>1. CASE k = 1
    <3>1. wjob'[v] = j /\ pc'[v] \in {"running", "sending"}
      BY <1>0, <1>1, <2>1 DEF TakeJob, TypeOK
    <3> QED
      BY <3>1 DEF Advanced, Held
  <2>2. CASE k # 1
    <3>1. k > 1 /\ k - 1 <= Len(jobs') /\ jobs'[k - 1] = j
      BY <1>0, <1>1, <2>2 DEF TakeJob, TypeOK
    <3> QED
      BY <3>1 DEF Advanced, At
  <2> QED
    BY <2>1, <2>2
<1>2. ASSUME NEW i \in Jobs, SubmitAccept(i)
      PROVE  At(k, j)' /\ pc' = pc
  BY <1>0, <1>2 DEF SubmitAccept, TypeOK, At, workVars
<1>3. ASSUME NEW v \in Workers, WorkerStep(v), ~TakeJob(v)
      PROVE  /\ jobs' = jobs
             /\ \A u \in Workers \ {v} : pc'[u] = pc[u]
             /\ \/ Is(v, "running") /\ Is(v, "sending")'
                \/ Is(v, "sending") /\ Is(v, "select")'
  <2>1. CASE CommandDone(v) \/ CommandFails(v) \/ Timeout(v)
    BY <1>0, <2>1 DEF CommandDone, CommandFails, Timeout, EndRun, TypeOK, Is
  <2>2. CASE SendResult(v)
    BY <1>0, <2>2 DEF SendResult, TypeOK, Is
  <2>3. ~ExitWorker(v)
    BY DEF ExitWorker
  <2> QED
    BY <1>3, <2>1, <2>2, <2>3 DEF WorkerStep
<1>4. \/ UNCHANGED <<jobs, pc>>
      \/ \E i \in Jobs : SubmitAccept(i)
      \/ \E v \in Workers : WorkerStep(v)
  BY DEF Next, vars, CallerStep, SubmitReject, CountJob, Return, DaemonStep,
     DockerCreate, DockerStart, ContainerStep, Ask, AskCreate, AskStart, ContainerExit,
     Stats, CloseShutdown, ShutdownReturns, workVars
<1>5. pc[w] \in {"running", "sending", "select"}
  BY <1>0 DEF InLoop, TypeOK
<1>6. ASSUME WorkerStep(w)
      PROVE  pc' # pc
  BY <1>0, <1>6 DEF WorkerStep, TakeJob, ExitWorker, CommandDone, CommandFails, Timeout,
     EndRun, SendResult, TypeOK
<1>7. ASSUME NEW v \in Workers, TakeJob(v)
      PROVE  /\ Is(v, "select") /\ ~Is(v, "select")'
             /\ \A u \in Workers \ {v} : pc'[u] = pc[u]
  BY <1>0, <1>7 DEF TakeJob, TypeOK, Is
<1>8. CASE UNCHANGED jobs /\ UNCHANGED pc
  BY <1>0, <1>5, <1>6, <1>8 DEF At, Is
<1>9. CASE \E i \in Jobs : SubmitAccept(i)
  BY <1>2, <1>5, <1>6, <1>9 DEF Is
<1>10. ASSUME NEW v \in Workers, WorkerStep(v), ~TakeJob(v)
       PROVE  At(k, j)'
  BY <1>0, <1>3, <1>10 DEF At
<1>11. CASE \E v \in Workers : WorkerStep(v)
  BY <1>1, <1>3, <1>5, <1>7, <1>10, <1>11 DEF Is
<1> QED
  BY <1>4, <1>8, <1>9, <1>11

\* One step of the way to AcceptedIsAnswered: no job stays where it is in the
\* queue, because there is a worker, and no worker is held up for ever.  As the
\* queue is finite every job reaches a worker, unless the pool is shut down.
LEMMA NobodyIsStuckInTheQueue ==
  ASSUME NEW j \in Jobs, NEW k \in Nat \ {0}
  PROVE  FairSpec /\ []NothingElseBlocks => (At(k, j) ~> Advanced(k, j))
<1> DEFINE w == 1
<1>1. w \in Workers
  BY Constants DEF Workers
<1> HIDE DEF w
<1>2. Fairness => WorkerFairness(w)
  BY <1>1 DEF Fairness
<1>3. NothingElseBlocks => WorkerMoves(w)
  BY <1>1 DEF NothingElseBlocks
<1>4. DockerInv /\ WorkerMoves(w) /\ At(k, j)
        /\ (Is(w, "running") \/ Is(w, "sending") \/ Is(w, "select"))
      => ENABLED <<WorkerStep(w)>>_vars
  <2>1. DockerInv /\ At(k, j) => jobs # <<>>
    BY DEF At, DockerInv, TypeOK
  <2> QED
    BY <1>1, <2>1, SendersFindRoom DEF WorkerMoves, WorkerReady, RoomToSend, Is
<1>5. shutdown => Advanced(k, j)
  BY DEF Advanced
<1>6. DockerInv /\ InLoop /\ At(k, j) /\ ~shutdown /\ [Next]_vars
      => /\ At(k, j)' \/ Advanced(k, j)'
         /\ Is(w, "running") \/ Is(w, "sending") \/ Is(w, "select")
         /\ Is(w, "running") => Is(w, "running")' \/ Is(w, "sending")'
         /\ Is(w, "sending") => Is(w, "sending")' \/ Is(w, "select")'
         /\ Is(w, "select") => Is(w, "select")' \/ Advanced(k, j)'
         /\ Is(w, "running") /\ <<WorkerStep(w)>>_vars => ~Is(w, "running")'
         /\ Is(w, "sending") /\ <<WorkerStep(w)>>_vars => ~Is(w, "sending")'
         /\ Is(w, "select") /\ <<WorkerStep(w)>>_vars => Advanced(k, j)'
  BY <1>1, QueueStages
<1> QED
  BY <1>2, <1>3, <1>4, <1>5, <1>6, DockerInvariant, LoopInvariant, PTL
     DEF FairSpec, Spec, WorkerFairness

\* The job j is among the first n of the queue.
Within(n, j) == \E k \in 1..n : At(k, j)

\* So the place of a job that is still queued has a bound that decreases, by any
\* distance: the provers cannot do induction over a temporal formula, but
\* doubling the distance takes them far enough.
Left(j) == j \in Held \/ shutdown
Advances(k, j) == At(k, j) ~> Advanced(k, j)
QueueMoves(j) == \A k \in Nat \ {0} : Advances(k, j)
Nears(j, from, to) == Within(from, j) ~> (Within(to, j) \/ Left(j))
Strides(j, d) == \A n \in Nat : Nears(j, n + d, n)

LEMMA OneStride ==
  ASSUME NEW j \in Jobs
  PROVE  QueueMoves(j) => Strides(j, 1)
<1>1. ASSUME NEW n \in Nat
      PROVE  QueueMoves(j) => Nears(j, n + 1, n)
  <2>1. Within(n + 1, j) => Within(n, j) \/ At(n + 1, j)
    BY DEF Within
  <2>2. Advanced(n + 1, j) => Within(n, j) \/ Left(j)
    BY DEF Advanced, Within, Left
  <2>3. QueueMoves(j) => Advances(n + 1, j)
    BY DEF QueueMoves
  <2> QED
    BY <2>1, <2>2, <2>3, PTL DEF Advances, Nears
<1> QED
  BY <1>1 DEF Strides

LEMMA LongerStrides ==
  ASSUME NEW j \in Jobs, NEW d \in Nat
  PROVE  Strides(j, d) => Strides(j, 2 * d)
<1>1. ASSUME NEW n \in Nat, NEW k \in Nat, NEW m \in Nat
      PROVE  Nears(j, m, k) /\ Nears(j, k, n) => Nears(j, m, n)
  BY PTL DEF Nears
<1>2. ASSUME NEW n \in Nat
      PROVE  Strides(j, d) => Nears(j, n + 2 * d, n)
  <2>1. n + d \in Nat /\ n + 2 * d \in Nat /\ (n + d) + d = n + 2 * d
    OBVIOUS
  <2> QED
    BY <1>1, <2>1 DEF Strides
<1> QED
  BY <1>2 DEF Strides

\* The longest queue of the theorems below has 4096 places.
LEMMA QueueEmpties ==
  ASSUME NEW j \in Jobs
  PROVE  QueueMoves(j) => (Within(4096, j) ~> Left(j))
<1>1. QueueMoves(j) => Strides(j, 16)
  <2>1. 2 * 1 = 2 /\ 2 * 2 = 4 /\ 2 * 4 = 8 /\ 2 * 8 = 16
    OBVIOUS
  <2> QED
    BY <2>1, OneStride, LongerStrides
<1>2. Strides(j, 16) => Strides(j, 256)
  <2>1. 2 * 16 = 32 /\ 2 * 32 = 64 /\ 2 * 64 = 128 /\ 2 * 128 = 256
    OBVIOUS
  <2> QED
    BY <2>1, LongerStrides
<1>3. Strides(j, 256) => Strides(j, 4096)
  <2>1. 2 * 256 = 512 /\ 2 * 512 = 1024 /\ 2 * 1024 = 2048 /\ 2 * 2048 = 4096
    OBVIOUS
  <2> QED
    BY <2>1, LongerStrides
<1>4. Strides(j, 4096) => Nears(j, 4096, 0)
  <2>1. 0 \in Nat /\ 0 + 4096 = 4096
    OBVIOUS
  <2> QED
    BY <2>1 DEF Strides
<1>5. ~Within(0, j)
  BY DEF Within
<1> QED
  BY <1>1, <1>2, <1>3, <1>4, <1>5, PTL DEF Nears

\* An accepted job is answered, unless the pool is shut down first, for any
\* number of jobs and at most 1024 workers, whose queue has 4096 places.
THEOREM AcceptedJobsAreAnswered ==
  ASSUME MaxWorkers <= 1024
  PROVE  FairSpec /\ []NothingElseBlocks => AcceptedIsAnswered
<1>1. ASSUME NEW j \in Jobs
      PROVE  FairSpec /\ []NothingElseBlocks
             => (caller[j] = "sent" ~> (Returned(j) \/ shutdown))
  <2>1. FairSpec /\ []NothingElseBlocks => QueueMoves(j)
    <3>1. ASSUME NEW k \in Nat \ {0}
          PROVE  FairSpec /\ []NothingElseBlocks => Advances(k, j)
      BY NobodyIsStuckInTheQueue DEF Advances
    <3> QED
      BY <3>1 DEF QueueMoves
  <2>2. QueueMoves(j) => (Within(4096, j) ~> Left(j))
    BY QueueEmpties
  <2>3. DockerInv /\ caller[j] = "sent" => Within(4096, j) \/ j \in Held \/ Uncounted(j)
    <3> SUFFICES ASSUME DockerInv, caller[j] = "sent"
                 PROVE  Within(4096, j) \/ j \in Held \/ Uncounted(j)
      OBVIOUS
    <3>1. Queued(j) \/ HeldBy(j) # {} \/ Delivered(j)
      BY DEF DockerInv, JobConservation, OnePlace, Waiting
    <3>2. CASE Queued(j)
      <4>1. Len(jobs) \in Nat /\ Len(jobs) <= 4096
        BY Constants DEF QueueCapacity, DockerInv, TypeOK
      <4>2. ASSUME NEW m \in Nat, Len(jobs) <= m
            PROVE  Within(m, j)
        BY <3>2, <4>1, <4>2 DEF Queued, Within, At
      <4> QED
        BY <4>1, <4>2
    <3>3. CASE HeldBy(j) # {}
      <4>1. PICK w \in Workers : wjob[w] = j
        BY <3>3 DEF HeldBy
      <4>2. pc[w] \in {"running", "sending"}
        BY <4>1, DockerPoolAssumption DEF DockerInv, JobConservation, BusyHolds
      <4> QED
        BY <4>1, <4>2 DEF Held
    <3>4. CASE Delivered(j)
      BY <3>4 DEF Uncounted
    <3> QED
      BY <3>1, <3>2, <3>3, <3>4
  <2>4. FairSpec /\ []NothingElseBlocks => (j \in Held ~> Returned(j))
    BY TakenJobsAreAnswered DEF TakenIsAnswered, Returned
  <2> QED
    BY <2>1, <2>2, <2>3, <2>4, SentIsReturned, DockerInvariant, PTL
       DEF FairSpec, Left
<1> QED
  BY <1>1 DEF AcceptedIsAnswered, Returned

-----------------------------------------------------------------------------
(* Shutdown returns.                                                       *)

\* A worker that has a job ends it; the way out of the loop is a one-way street.
LEMMA LoopStages ==
  ASSUME NEW w \in Workers, DockerInv, [Next]_vars
  PROVE  /\ Is(w, "select") \/ Is(w, "running") \/ Is(w, "sending") \/ Is(w, "exited")
         /\ Is(w, "running") => Is(w, "running")' \/ Is(w, "sending")'
         /\ Is(w, "sending") => Is(w, "sending")' \/ Is(w, "select")'
         /\ Is(w, "exited") => Is(w, "exited")'
         /\ Is(w, "running") /\ <<WorkerStep(w)>>_vars => ~Is(w, "running")'
         /\ Is(w, "sending") /\ <<WorkerStep(w)>>_vars => ~Is(w, "sending")'
         /\ <<ExitWorker(w)>>_vars => Is(w, "exited")'
         /\ shutdown => shutdown'
<1>0. TypeOK
  BY DEF DockerInv
<1>1. ASSUME WorkerStep(w)
      PROVE  \/ Is(w, "select") /\ (Is(w, "running") \/ Is(w, "sending") \/ Is(w, "exited"))'
             \/ Is(w, "running") /\ Is(w, "sending")'
             \/ Is(w, "sending") /\ Is(w, "select")'
  BY <1>0, <1>1 DEF WorkerStep, TakeJob, ExitWorker, CommandDone, CommandFails, Timeout,
     EndRun, SendResult, TypeOK, Is
<1>2. ASSUME NEW v \in Workers, WorkerStep(v), v # w
      PROVE  pc'[w] = pc[w]
  BY <1>0, <1>2 DEF WorkerStep, TakeJob, ExitWorker, CommandDone, CommandFails, Timeout,
     EndRun, SendResult, TypeOK
<1>3. UNCHANGED pc \/ \E v \in Workers : WorkerStep(v)
  BY DEF Next, vars, CallerStep, SubmitAccept, SubmitReject, CountJob, Return, DaemonStep,
     DockerCreate, DockerStart, ContainerStep, Ask, AskCreate, AskStart, ContainerExit,
     Stats, CloseShutdown, ShutdownReturns, workVars
<1>4. WorkerStep(w) \/ pc'[w] = pc[w]
  BY <1>2, <1>3
<1>5. pc[w] \in {"select", "running", "sending", "exited"}
  BY <1>0 DEF TypeOK
<1>6. ASSUME ExitWorker(w)
      PROVE  Is(w, "exited")'
  BY <1>0, <1>6 DEF ExitWorker, TypeOK, Is
<1>7. shutdown => shutdown'
  BY DEF Next, vars, CallerStep, SubmitAccept, SubmitReject, CountJob, Return, WorkerStep,
     TakeJob, ExitWorker, CommandDone, CommandFails, Timeout, EndRun, SendResult,
     DaemonStep, DockerCreate, DockerStart, ContainerStep, Ask, AskCreate, AskStart,
     ContainerExit, Stats, CloseShutdown, ShutdownReturns, stopVars
<1> QED
  BY <1>1, <1>4, <1>5, <1>6, <1>7 DEF Is

\* Shutdown waits for no worker for ever, whatever is still queued and however
\* many calls go on adding to the queue: a worker is always back at its select
\* after a while, and a select that is fair ends up taking the closed channel.
THEOREM EveryWorkerLeaves ==
  ASSUME NEW w \in Workers
  PROVE  FairSpec /\ SelectIsFair /\ []NothingElseBlocks => (shutdown ~> []Is(w, "exited"))
<1>1. Fairness => WorkerFairness(w)
  BY DEF Fairness
<1>2. SelectIsFair => SelectFairness(w)
  BY DEF SelectIsFair
<1>3. NothingElseBlocks => WorkerMoves(w)
  BY DEF NothingElseBlocks
<1>4. DockerInv /\ WorkerMoves(w)
      => /\ Is(w, "running") \/ Is(w, "sending") => ENABLED <<WorkerStep(w)>>_vars
         /\ Is(w, "select") /\ shutdown => ENABLED <<ExitWorker(w)>>_vars
  BY SendersFindRoom DEF WorkerMoves, WorkerReady, RoomToSend, Is
<1>5. DockerInv /\ [Next]_vars
      => /\ Is(w, "select") \/ Is(w, "running") \/ Is(w, "sending") \/ Is(w, "exited")
         /\ Is(w, "running") => Is(w, "running")' \/ Is(w, "sending")'
         /\ Is(w, "sending") => Is(w, "sending")' \/ Is(w, "select")'
         /\ Is(w, "exited") => Is(w, "exited")'
         /\ Is(w, "running") /\ <<WorkerStep(w)>>_vars => ~Is(w, "running")'
         /\ Is(w, "sending") /\ <<WorkerStep(w)>>_vars => ~Is(w, "sending")'
         /\ <<ExitWorker(w)>>_vars => Is(w, "exited")'
         /\ shutdown => shutdown'
  BY LoopStages
<1> QED
  BY <1>1, <1>2, <1>3, <1>4, <1>5, DockerInvariant, PTL DEF FairSpec, Spec, WorkerFairness,
     SelectFairness

\* Shutdown was called, and the first n workers have left their loops.
Gone(n) == shutdown /\ \A w \in Workers : w <= n => Is(w, "exited")

Leaves(w) == shutdown ~> []Is(w, "exited")
WorkersLeave == \A w \in Workers : Leaves(w)
MoreGo(from, to) == Gone(from) ~> Gone(to)
Goes(d) == \A n \in Nat : MoreGo(n, n + d)

LEMMA GoneStays ==
  ASSUME NEW n \in Nat, DockerInv, Gone(n), [Next]_vars
  PROVE  Gone(n)'
<1>1. 1 \in Workers
  BY Constants DEF Workers
<1>2. shutdown'
  BY <1>1, LoopStages DEF Gone
<1>3. \A w \in Workers : Is(w, "exited") => Is(w, "exited")'
  BY LoopStages
<1> QED
  BY <1>2, <1>3 DEF Gone

LEMMA OneMoreGoes == Spec /\ WorkersLeave => Goes(1)
<1>1. ASSUME NEW n \in Nat
      PROVE  Spec /\ WorkersLeave => MoreGo(n, n + 1)
  <2>1. CASE n + 1 \in Workers
    <3>1. WorkersLeave => Leaves(n + 1)
      BY <2>1 DEF WorkersLeave
    <3>2. Gone(n) => shutdown
      BY DEF Gone
    <3>3. Gone(n) /\ Is(n + 1, "exited") => Gone(n + 1)
      BY Constants DEF Gone, Workers
    <3>4. DockerInv /\ Gone(n) /\ [Next]_vars => Gone(n)'
      BY GoneStays
    <3> QED
      BY <3>1, <3>2, <3>3, <3>4, DockerInvariant, PTL DEF Leaves, MoreGo, Spec
  <2>2. CASE n + 1 \notin Workers
    <3>1. Gone(n) => Gone(n + 1)
      BY <2>2, Constants DEF Gone, Workers
    <3> QED
      BY <3>1, PTL DEF MoreGo
  <2> QED
    BY <2>1, <2>2
<1> QED
  BY <1>1 DEF Goes

LEMMA TwiceAsManyGo ==
  ASSUME NEW d \in Nat
  PROVE  Goes(d) => Goes(2 * d)
<1>1. ASSUME NEW n \in Nat, NEW k \in Nat, NEW m \in Nat
      PROVE  MoreGo(n, k) /\ MoreGo(k, m) => MoreGo(n, m)
  BY PTL DEF MoreGo
<1>2. ASSUME NEW n \in Nat
      PROVE  Goes(d) => MoreGo(n, n + 2 * d)
  <2>1. n + d \in Nat /\ n + 2 * d \in Nat /\ (n + d) + d = n + 2 * d
    OBVIOUS
  <2> QED
    BY <1>1, <2>1 DEF Goes
<1> QED
  BY <1>2 DEF Goes

\* If each worker leaves its loop in the end, so do all.
LEMMA AllGo == Spec /\ WorkersLeave => (shutdown ~> Gone(1024))
<1>1. Goes(1) => Goes(32)
  <2>1. 2 * 1 = 2 /\ 2 * 2 = 4 /\ 2 * 4 = 8 /\ 2 * 8 = 16 /\ 2 * 16 = 32
    OBVIOUS
  <2> QED
    BY <2>1, TwiceAsManyGo
<1>2. Goes(32) => Goes(1024)
  <2>1. 2 * 32 = 64 /\ 2 * 64 = 128 /\ 2 * 128 = 256 /\ 2 * 256 = 512 /\ 2 * 512 = 1024
    OBVIOUS
  <2> QED
    BY <2>1, TwiceAsManyGo
<1>3. Goes(1024) => MoreGo(0, 1024)
  <2>1. 0 \in Nat /\ 0 + 1024 = 1024
    OBVIOUS
  <2> QED
    BY <2>1 DEF Goes
<1>4. shutdown => Gone(0)
  BY Constants DEF Gone, Workers
<1> QED
  BY <1>1, <1>2, <1>3, <1>4, OneMoreGoes, PTL DEF MoreGo

\* Shutdown returns: every worker ends its job and leaves its loop, for any
\* number of jobs and at most 1024 workers.
THEOREM ShutdownReturnsInTheEnd ==
  ASSUME MaxWorkers <= 1024
  PROVE  FairSpec /\ SelectIsFair /\ []NothingElseBlocks => ShutdownCompletes
<1>1. FairSpec /\ SelectIsFair /\ []NothingElseBlocks => WorkersLeave
  <2>1. ASSUME NEW w \in Workers
        PROVE  FairSpec /\ SelectIsFair /\ []NothingElseBlocks => Leaves(w)
    BY EveryWorkerLeaves DEF Leaves
  <2> QED
    BY <2>1 DEF WorkersLeave
<1>2. Gone(1024) => shutdown /\ \A w \in Workers : pc[w] = "exited"
  BY Constants DEF Gone, Workers, Is
<1>3. NothingElseBlocks => MainMoves
  BY DEF NothingElseBlocks
<1>4. MainMoves /\ Gone(1024) /\ ~stopped => ENABLED <<ShutdownReturns>>_vars
  BY <1>2 DEF MainMoves
<1>5. DockerInv /\ [Next]_vars
      => /\ Gone(1024) => Gone(1024)'
         /\ <<ShutdownReturns>>_vars => stopped'
  BY GoneStays DEF ShutdownReturns
<1>6. Fairness => MainFairness
  BY DEF Fairness
<1> QED
  BY <1>1, <1>3, <1>4, <1>5, <1>6, AllGo, DockerInvariant, PTL
     DEF FairSpec, Spec, MainFairness, ShutdownCompletes

-----------------------------------------------------------------------------
(* What a caller can tell from the error of a result.                      *)

\* executeCode wraps the error of cmd.Run with fmt.Errorf even when it is nil.
ErrorEverywhere ==
  /\ \A w \in Workers : pc[w] = "sending" => outcome[w].Error
  /\ \A j \in Jobs : \A i \in 1..Len(resultCh[j]) : resultCh[j][i].Error
  /\ \A j \in Jobs : caller[j] \in {"returned", "rejected"} => answer[j].Error

LEMMA ErrorEverywhereNext == TypeOK /\ ErrorEverywhere /\ [Next]_vars => ErrorEverywhere'
<1> SUFFICES ASSUME TypeOK, ErrorEverywhere, [Next]_vars
             PROVE  ErrorEverywhere'
  OBVIOUS
<1>1. ASSUME NEW j \in Jobs, SubmitAccept(j) \/ SubmitReject(j) \/ CountJob(j)
      PROVE  ErrorEverywhere'
  BY <1>1 DEF SubmitAccept, SubmitReject, CountJob, ErrorEverywhere, TypeOK, Failure,
     workVars
<1>2. ASSUME NEW j \in Jobs, Return(j)
      PROVE  ErrorEverywhere'
  <2>1. /\ resultCh[j] \in Seq(Results) /\ resultCh[j] # <<>>
        /\ resultCh' = [resultCh EXCEPT ![j] = Tail(resultCh[j])]
        /\ answer' = [answer EXCEPT ![j] = Head(resultCh[j])]
        /\ caller' = [caller EXCEPT ![j] = "returned"]
        /\ UNCHANGED workVars
    BY <1>2 DEF Return, TypeOK
  <2>2. Head(resultCh[j]).Error
    BY <2>1 DEF ErrorEverywhere
  <2>3. \A i \in 1..Len(Tail(resultCh[j])) : Tail(resultCh[j])[i].Error
    BY <2>1 DEF ErrorEverywhere
  <2> QED
    BY <2>1, <2>2, <2>3 DEF ErrorEverywhere, TypeOK, workVars
<1>3. ASSUME NEW w \in Workers, TakeJob(w)
      PROVE  ErrorEverywhere'
  BY <1>3 DEF TakeJob, ErrorEverywhere, TypeOK, Failure, callVars
<1>4. ASSUME NEW w \in Workers, CommandDone(w) \/ CommandFails(w) \/ Timeout(w)
      PROVE  ErrorEverywhere'
  <2>1. PICK ok : EndRun(w, ok)
    BY <1>4 DEF CommandDone, CommandFails, Timeout
  <2> QED
    BY <2>1 DEF EndRun, RunResult, ErrorEverywhere, TypeOK, callVars
<1>5. ASSUME NEW w \in Workers, SendResult(w)
      PROVE  ErrorEverywhere'
  <2>1. /\ outcome[w].Error
        /\ resultCh' = [resultCh EXCEPT ![wjob[w]] = Append(resultCh[wjob[w]], outcome[w])]
        /\ pc' = [pc EXCEPT ![w] = "select"]
        /\ outcome' = [outcome EXCEPT ![w] = ZeroResult]
        /\ UNCHANGED <<caller, answer>>
    BY <1>5 DEF SendResult, ErrorEverywhere
  <2>2. ASSUME NEW j \in Jobs, NEW i \in 1..Len(resultCh'[j])
        PROVE  resultCh'[j][i].Error
    BY <2>1, <2>2 DEF ErrorEverywhere, TypeOK
  <2> QED
    BY <2>1, <2>2 DEF ErrorEverywhere, TypeOK
<1>6. ASSUME NEW w \in Workers, ExitWorker(w)
      PROVE  ErrorEverywhere'
  BY <1>6 DEF ExitWorker, ErrorEverywhere, TypeOK, callVars
<1>7. CASE Stats \/ CloseShutdown \/ ShutdownReturns \/ UNCHANGED vars \/ \E j \in Jobs : DaemonStep(j)
  BY <1>7 DEF Stats, CloseShutdown, ShutdownReturns, vars, DaemonStep, DockerCreate,
     DockerStart, ContainerStep, Ask, AskCreate, AskStart, ContainerExit, ErrorEverywhere,
     callVars, workVars
<1> QED
  BY <1>1, <1>2, <1>3, <1>4, <1>5, <1>6, <1>7 DEF Next, CallerStep, WorkerStep

\* Every call of ExecuteJob that returns, returns an error, the successful ones
\* included: the documentation's promise fails for each success, not for some.
THEOREM EveryCallReturnsAnError == Spec => []ErrorEverywhere
<1>1. Init => ErrorEverywhere
  BY DEF Init, ErrorEverywhere
<1> QED
  BY <1>1, ErrorEverywhereNext, TypeCorrect, PTL DEF Spec

=============================================================================
