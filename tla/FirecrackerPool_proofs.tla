----------------------- MODULE FirecrackerPool_proofs -----------------------
(***************************************************************************)
(* What holds of FirecrackerPool for any jobs and any number of workers.   *)
(***************************************************************************)
EXTENDS FirecrackerPool, FiniteSetTheorems, SequenceTheorems, TLAPS

\* The stages of executeCode: all, those in which there is a machine and the
\* semaphore is held, those in which the machine is restored and its socket not
\* removed, those in which the socket has been found.
Busy == {"launch", "load", "find", "dial", "handshake", "request", "unlink", "kill", "send"}
InMachine == {"load", "find", "dial", "handshake", "request", "unlink", "kill"}
Restored == {"find", "dial", "handshake", "request", "unlink"}
Found == {"dial", "handshake", "request", "unlink"}

\* The places of a job.
Queued(j) == \E i \in 1..Len(jobs) : jobs[i] = j
HasWorker(j) == \E w \in Workers : wjob[w] = j
Delivered(j) == resultCh[j] # <<>>

\* A job is in one place at a time, and only while its caller waits.
OnePlace(j) ==
  /\ Queued(j) => caller[j] = "waiting" /\ ~HasWorker(j) /\ ~Delivered(j)
  /\ HasWorker(j) => caller[j] = "waiting" /\ ~Delivered(j)
  /\ Delivered(j) => caller[j] = "waiting"

QueueDistinct ==
  \A i, k \in 1..Len(jobs) : jobs[i] = jobs[k] => i = k
HoldersDistinct ==
  \A v, w \in Workers : wjob[v] = wjob[w] /\ wjob[v] # NoJob => v = w
BusyHolds ==
  \A w \in Workers : pc[w] \in Busy <=> wjob[w] # NoJob
Places ==
  /\ \A j \in Jobs : OnePlace(j)
  /\ QueueDistinct
  /\ HoldersDistinct
  /\ BusyHolds

\* Nothing happens before Initialize has succeeded, or after Shutdown has returned.
BootInv == boot # "up" => \A w \in Workers : pc[w] = "off"
StopInv == stopped => \A w \in Workers : pc[w] = "exited"

\* A socket is where its machine binds it; the only files nobody listens at are the
\* one of createSnapshot and those of runs before.
SocketInv ==
  /\ \A p \in Paths : socket[p] \in Jobs => p = SocketOf(socket[p]) /\ boot = "up"
  /\ \A p \in Paths : socket[p] = "stale" => p \in SharedPaths
  /\ \A p \in Paths : socket[p] = "stranger" => boot = "creating" /\ p = InitPath

\* The file of a dead process, when machines share a path.
Stale(p) == uds # "instance" /\ p \in SharedPaths /\ socket[p] = "stale"

\* While a machine is restored its socket is there.  findVsockUDS finds it, or the
\* file of a dead process.
TargetInv ==
  /\ \A w \in Workers : pc[w] \in Restored => socket[SocketOf(wjob[w])] = wjob[w]
  /\ \A w \in Workers : target[w] # NoJob <=> pc[w] \in Found
  /\ \A w \in Workers :
       target[w] # NoJob =>
         \/ target[w] = SocketOf(wjob[w])
         \/ Stale(target[w])

MachineInv ==
  /\ \A j \in Jobs : Alive(j) => \E w \in Workers : wjob[w] = j /\ pc[w] \in InMachine
  /\ warmSem = Cardinality({w \in Workers : pc[w] \in InMachine})

Inner(w) ==
  \/ Launch(w) \/ LaunchFails(w) \/ Load(w) \/ LoadFails(w) \/ Find(w)
  \/ Dial(w) \/ DialFails(w) \/ HandshakeStep(w)
  \/ \E ok \in BOOLEAN : Respond(w, ok)
  \/ Unlink(w) \/ Kill(w)

-----------------------------------------------------------------------------
LEMMA Constants ==
  /\ MaxWorkers \in Nat /\ MaxWorkers >= 1
  /\ QueueCapacity \in Nat /\ QueueCapacity >= 1
BY FirecrackerPoolAssumption DEF MaxWorkers

LEMMA ResultsType ==
  /\ Failure \in Results
  /\ \A ok \in BOOLEAN : [Success |-> ok] \in Results
BY DEF Failure, Results

\* A step of executeCode moves one worker from a stage to another, and the other
\* variables of calls and of Shutdown stay.
LEMMA InnerStep ==
  ASSUME TypeOK, NEW w \in Workers, Inner(w)
  PROVE  /\ UNCHANGED <<boot, snapshot, uds, callVars, wjob, stopVars>>
         /\ pc[w] \in Busy
         /\ \E to \in Busy : pc' = [pc EXCEPT ![w] = to]
         /\ \E r \in Results : outcome' = [outcome EXCEPT ![w] = r]
<1>1. PICK to \in Busy, r \in Results : Goto(w, to, r) /\ pc[w] \in Busy
  <2>1. outcome[w] \in Results
    BY DEF TypeOK
  <2> QED
    BY <2>1, ResultsType
       DEF Inner, Launch, LaunchFails, Load, LoadFails, Find, Dial, DialFails, HandshakeStep,
           HandshakeDone, HandshakeFails, Respond, Unlink, Kill, Busy
<1> QED
  BY <1>1 DEF Goto

LEMMA SocketPlaces ==
  ASSUME TypeOK, NEW j \in Jobs
  PROVE  /\ uds = "instance" => SocketOf(j) = j
         /\ uds # "instance" => SocketOf(j) = uds /\ uds \in SharedPaths
         /\ SocketOf(j) \in Paths
         /\ j \notin SharedPaths /\ j # NoJob
BY FirecrackerPoolAssumption DEF SocketOf, TypeOK, Paths

LEMMA InitTypeOK == Init => TypeOK
<1> SUFFICES ASSUME Init
             PROVE  TypeOK
  OBVIOUS
<1>1. jobs \in Seq(Jobs) /\ Len(jobs) <= QueueCapacity
  BY Constants DEF Init
<1>2. socket \in [Paths -> Jobs \cup Strangers]
  BY FirecrackerPoolAssumption DEF Init, Strangers
<1>3. warmSem \in 0..MaxWorkers
  BY Constants DEF Init
<1>4. resultCh \in [Jobs -> Seq(Results)] /\ \A j \in Jobs : Len(resultCh[j]) <= 1
  BY DEF Init
<1>5. outcome \in [Workers -> Results]
  BY ResultsType DEF Init
<1> QED
  BY <1>1, <1>2, <1>3, <1>4, <1>5 DEF Init, TypeOK

LEMMA NextTypeOK == TypeOK /\ MachineInv /\ BusyHolds /\ [Next]_vars => TypeOK'
<1> SUFFICES ASSUME TypeOK, MachineInv, BusyHolds, [Next]_vars
             PROVE  TypeOK'
  OBVIOUS
<1> USE Constants
<1>1. CASE Initialize
  <2>1. InitPath \in Paths /\ "stale" \in Strangers /\ "stranger" \in Strangers /\ "absent" \in Strangers
    BY DEF Paths, SharedPaths, Strangers
  <2>2. socket' \in [Paths -> Jobs \cup Strangers]
    BY <1>1, <2>1
       DEF TypeOK, Initialize, UseSnapshot, BeginSnapshot, EndSnapshot, SnapshotFails, hostVars
  <2>3. ASSUME startWorkers
        PROVE  /\ pc' = [w \in Workers |-> "select"]
               /\ stats' \in [ActiveWorkers : Nat, QueuedJobs : Nat, TotalExecuted : Nat]
    BY <2>3 DEF startWorkers, TypeOK
  <2>4. CASE UseSnapshot
    BY <2>4, <2>2, <2>3 DEF UseSnapshot, startWorkers, TypeOK, hostVars, stopVars
  <2>5. CASE BeginSnapshot
    BY <2>5, <2>2 DEF BeginSnapshot, TypeOK, callVars, workVars, stopVars
  <2>6. CASE EndSnapshot
    BY <2>6, <2>2, <2>3
       DEF EndSnapshot, startWorkers, TypeOK, SnapshotStates, SharedPaths, stopVars
  <2>7. CASE SnapshotFails
    BY <2>7, <2>2 DEF SnapshotFails, TypeOK, SnapshotStates, callVars, workVars, stopVars
  <2> QED
    BY <1>1, <2>4, <2>5, <2>6, <2>7 DEF Initialize
<1>2. ASSUME NEW j \in Jobs, SubmitAccept(j)
      PROVE  TypeOK'
  <2>1. jobs' \in Seq(Jobs) /\ Len(jobs') <= QueueCapacity
    BY <1>2 DEF TypeOK, SubmitAccept
  <2>2. stats' \in [ActiveWorkers : Nat, QueuedJobs : Nat, TotalExecuted : Nat]
    <3>1. stats.TotalExecuted + 1 \in Nat
      BY DEF TypeOK
    <3>2. stats' = [stats EXCEPT !.TotalExecuted = stats.TotalExecuted + 1]
      BY <1>2 DEF SubmitAccept
    <3> QED BY <3>1, <3>2 DEF TypeOK
  <2> QED
    BY <1>2, <2>1, <2>2 DEF TypeOK, SubmitAccept, hostVars, workVars, stopVars
<1>3. ASSUME NEW j \in Jobs, SubmitReject(j)
      PROVE  TypeOK'
  BY <1>3 DEF TypeOK, SubmitReject, hostVars, workVars, stopVars
<1>4. ASSUME NEW j \in Jobs, Return(j)
      PROVE  TypeOK'
  <2>1. Tail(resultCh[j]) \in Seq(Results) /\ Len(Tail(resultCh[j])) <= 1
    BY <1>4 DEF TypeOK, Return
  <2>2. resultCh' \in [Jobs -> Seq(Results)] /\ \A i \in Jobs : Len(resultCh'[i]) <= 1
    BY <1>4, <2>1 DEF TypeOK, Return
  <2> QED
    BY <1>4, <2>2 DEF TypeOK, Return, hostVars, workVars, stopVars
<1>5. CASE Stats
  <2>1. stats' \in [ActiveWorkers : Nat, QueuedJobs : Nat, TotalExecuted : Nat]
    <3>1. Len(jobs) \in Nat
      BY DEF TypeOK
    <3>2. stats' = [stats EXCEPT !.ActiveWorkers = MaxWorkers, !.QueuedJobs = Len(jobs)]
      BY <1>5 DEF Stats
    <3> QED
      BY <3>1, <3>2 DEF TypeOK
  <2> QED
    BY <1>5, <2>1 DEF TypeOK, Stats, hostVars, workVars, stopVars
<1>6. ASSUME NEW w \in Workers, TakeJob(w)
      PROVE  TypeOK'
  <2>1. /\ Head(jobs) \in Jobs
        /\ jobs' \in Seq(Jobs)
        /\ Len(jobs') <= QueueCapacity
    <3>1. jobs \in Seq(Jobs) /\ jobs # <<>> /\ jobs' = Tail(jobs) /\ Len(jobs) <= QueueCapacity
      BY <1>6 DEF TypeOK, TakeJob
    <3>2. Head(jobs) \in Jobs /\ Tail(jobs) \in Seq(Jobs) /\ Len(Tail(jobs)) = Len(jobs) - 1
      BY <3>1, HeadTailProperties
    <3>3. Len(jobs) \in Nat /\ Len(jobs') <= Len(jobs) /\ Len(jobs') \in Nat
      BY <3>1, <3>2, LenProperties
    <3> QED
      BY <3>1, <3>2, <3>3
  <2>2. wjob' \in [Workers -> Jobs \cup {NoJob}]
    BY <1>6, <2>1 DEF TypeOK, TakeJob
  <2> QED
    BY <1>6, <2>1, <2>2 DEF TypeOK, TakeJob, hostVars, stopVars
<1>7. ASSUME NEW w \in Workers, ExitWorker(w)
      PROVE  TypeOK'
  BY <1>7 DEF TypeOK, ExitWorker, hostVars, callVars, stopVars
<1>8. ASSUME NEW w \in Workers, Inner(w)
      PROVE  TypeOK'
  <2>1. PICK to \in Busy, r \in Results :
          /\ pc' = [pc EXCEPT ![w] = to]
          /\ outcome' = [outcome EXCEPT ![w] = r]
    BY <1>8, InnerStep
  <2>2. /\ pc' \in [Workers -> {"off", "select", "launch", "load", "find", "dial", "handshake",
                                "request", "unlink", "kill", "send", "exited"}]
        /\ outcome' \in [Workers -> Results]
    BY <2>1 DEF TypeOK, Busy
  <2>3. wjob[w] \in Jobs
    BY <1>8, InnerStep DEF BusyHolds, TypeOK
  <2>4. socket' \in [Paths -> Jobs \cup Strangers]
    <3>1. SUFFICES ASSUME socket' # socket
                   PROVE  socket' \in [Paths -> Jobs \cup Strangers]
      BY DEF TypeOK
    <3>2. PICK p \in Paths \cup {NoJob}, x \in Jobs \cup Strangers :
            socket' = [socket EXCEPT ![p] = x]
      <4>1. "absent" \in Strangers /\ SocketOf(wjob[w]) \in Paths
        BY <2>3, SocketPlaces DEF Strangers, Paths
      <4>2. target[w] \in Paths \cup {NoJob}
        BY DEF TypeOK
      <4> QED
        BY <1>8, <2>3, <3>1, <4>1, <4>2
           DEF Inner, Launch, LaunchFails, Load, LoadFails, Find, Dial, DialFails, HandshakeStep,
               HandshakeDone, HandshakeFails, Respond, Unlink, Kill
    <3> QED
      BY <3>2 DEF TypeOK
  <2>5. vm' \in [Jobs -> {"none", "started", "restored", "dead"}]
    BY <1>8
       DEF TypeOK, Inner, Launch, LaunchFails, Load, LoadFails, Find, Dial, DialFails,
           HandshakeStep, HandshakeDone, HandshakeFails, Respond, Unlink, Kill
  <2>6. peer' \in [Jobs -> Jobs \cup {"none", "stranger"}]
    <3>1. CASE Dial(w)
      BY <3>1 DEF TypeOK, Dial, Listening
    <3> QED
      BY <1>8, <3>1
         DEF TypeOK, Inner, Launch, LaunchFails, Load, LoadFails, Find, DialFails,
             HandshakeStep, HandshakeDone, HandshakeFails, Respond, Unlink, Kill
  <2>7. target' \in [Workers -> Paths \cup {NoJob}]
    <3>1. CASE Find(w)
      <4>1. findVsockUDS(wjob[w]) \subseteq Paths
        BY DEF findVsockUDS, Existing, Paths
      <4> QED
        BY <3>1, <4>1 DEF TypeOK, Find
    <3> QED
      BY <1>8, <3>1
         DEF TypeOK, Inner, Launch, LaunchFails, Load, LoadFails, Dial, DialFails,
             HandshakeStep, HandshakeDone, HandshakeFails, Respond, Unlink, Kill
  <2>8. warmSem' \in 0..MaxWorkers
    <3>1. CASE Launch(w)
      BY <3>1 DEF TypeOK, Launch
    <3>2. CASE Kill(w)
      <4>1. warmSem \in Nat /\ warmSem # 0
        <5> DEFINE M == {v \in Workers : pc[v] \in InMachine}
        <5>1. IsFiniteSet(Workers)
          BY FS_Interval DEF Workers
        <5>2. M \subseteq Workers
          OBVIOUS
        <5>3. IsFiniteSet(M)
          BY <5>1, <5>2, FS_Subset
        <5>4. w \in M
          BY <3>2 DEF Kill, InMachine
        <5>5. Cardinality(M) # 0
          BY <5>3, <5>4, FS_EmptySet
        <5> QED
          BY <5>5 DEF MachineInv, TypeOK
      <4> QED
        BY <3>2, <4>1 DEF TypeOK, Kill
    <3> QED
      BY <1>8, <3>1, <3>2
         DEF TypeOK, Inner, LaunchFails, Load, LoadFails, Find, Dial, DialFails,
             HandshakeStep, HandshakeDone, HandshakeFails, Respond, Unlink
  <2>9. UNCHANGED <<boot, snapshot, uds, callVars, wjob, stopVars>>
    BY <1>8, InnerStep
  <2> QED
    BY <2>2, <2>4, <2>5, <2>6, <2>7, <2>8, <2>9 DEF TypeOK, callVars, stopVars
<1>9. ASSUME NEW w \in Workers, SendResult(w)
      PROVE  TypeOK'
  <2> DEFINE j == wjob[w]
             ch == Append(resultCh[j], outcome[w])
  <2>1. j \in Jobs => ch \in Seq(Results) /\ Len(ch) <= 1
    BY <1>9 DEF TypeOK, SendResult
  <2>2. resultCh' = [resultCh EXCEPT ![j] = ch]
    BY <1>9 DEF SendResult
  <2>3. /\ resultCh' \in [Jobs -> Seq(Results)]
        /\ \A i \in Jobs : Len(resultCh'[i]) <= 1
    <3> HIDE DEF ch
    <3> QED BY <2>1, <2>2 DEF TypeOK
  <2>4. /\ pc' \in [Workers -> {"off", "select", "launch", "load", "find", "dial", "handshake",
                                "request", "unlink", "kill", "send", "exited"}]
        /\ wjob' \in [Workers -> Jobs \cup {NoJob}]
        /\ outcome' \in [Workers -> Results]
    BY <1>9, ResultsType DEF TypeOK, SendResult
  <2> QED
    BY <1>9, <2>3, <2>4 DEF TypeOK, SendResult, hostVars, stopVars
<1>10. CASE CloseShutdown \/ ShutdownReturns
  BY <1>10 DEF TypeOK, CloseShutdown, ShutdownReturns, hostVars, callVars, workVars, stopVars
<1>11. CASE UNCHANGED vars
  BY <1>11 DEF TypeOK, vars, hostVars, callVars, workVars, stopVars
<1> QED
  BY <1>1, <1>2, <1>3, <1>4, <1>5, <1>6, <1>7, <1>8, <1>9, <1>10, <1>11
     DEF Next, CallerStep, OwnStep, Inner

-----------------------------------------------------------------------------
(* The places of a job.                                                    *)

LEMMA InitPlaces == Init => Places
BY FirecrackerPoolAssumption
   DEF Init, Places, OnePlace, Queued, HasWorker, Delivered, QueueDistinct, HoldersDistinct,
       BusyHolds, Busy

\* The places depend on four variables, and on whether a worker is busy.
LEMMA SamePlaces ==
  ASSUME Places, UNCHANGED <<jobs, caller, resultCh, wjob>>,
         \A w \in Workers : pc'[w] \in Busy <=> pc[w] \in Busy
  PROVE  Places'
<1>1. ASSUME NEW j \in Jobs
      PROVE  OnePlace(j)'
  BY <1>1 DEF Places, OnePlace, Queued, HasWorker, Delivered
<1>2. QueueDistinct' /\ HoldersDistinct' /\ BusyHolds'
  BY DEF Places, QueueDistinct, HoldersDistinct, BusyHolds
<1> QED
  BY <1>1, <1>2 DEF Places

LEMMA NextPlaces == TypeOK /\ BootInv /\ Places /\ [Next]_vars => Places'
<1> SUFFICES ASSUME TypeOK, BootInv, Places, [Next]_vars
             PROVE  Places'
  OBVIOUS
<1>1. CASE Initialize
  <2>1. UNCHANGED <<jobs, caller, resultCh, wjob>>
    BY <1>1 DEF Initialize, UseSnapshot, BeginSnapshot, EndSnapshot, SnapshotFails, startWorkers,
       callVars, workVars
  <2>2. boot # "up"
    BY <1>1 DEF Initialize, UseSnapshot, BeginSnapshot, EndSnapshot, SnapshotFails
  <2>3. \A w \in Workers : pc[w] = "off"
    BY <2>2 DEF BootInv
  <2>4. \A w \in Workers : pc'[w] \in {"off", "select"}
    BY <1>1, <2>3
       DEF Initialize, UseSnapshot, BeginSnapshot, EndSnapshot, SnapshotFails, startWorkers, workVars
  <2> QED
    BY <2>1, <2>3, <2>4, SamePlaces DEF Busy
<1>2. ASSUME NEW j \in Jobs, SubmitAccept(j)
      PROVE  Places'
  <2>1. /\ Len(jobs') = Len(jobs) + 1
        /\ \A i \in 1..Len(jobs) : jobs'[i] = jobs[i]
        /\ jobs'[Len(jobs) + 1] = j
        /\ 1..Len(jobs') = 1..Len(jobs) \cup {Len(jobs) + 1}
    BY <1>2 DEF SubmitAccept, TypeOK
  <2>2. ~Queued(j) /\ ~HasWorker(j) /\ ~Delivered(j)
    BY <1>2 DEF SubmitAccept, Places, OnePlace
  <2>3. ASSUME NEW i \in Jobs
        PROVE  OnePlace(i)'
    <3>1. Queued(i)' <=> Queued(i) \/ i = j
      BY <2>1 DEF Queued
    <3>2. /\ HasWorker(i)' = HasWorker(i)
          /\ Delivered(i)' = Delivered(i)
          /\ caller'[i] = IF i = j THEN "waiting" ELSE caller[i]
      BY <1>2 DEF SubmitAccept, TypeOK, HasWorker, Delivered, workVars
    <3> QED
      BY <2>2, <3>1, <3>2 DEF Places, OnePlace
  <2>4. QueueDistinct'
    BY <2>1, <2>2 DEF QueueDistinct, Places, Queued
  <2>5. HoldersDistinct' /\ BusyHolds'
    BY <1>2 DEF SubmitAccept, Places, HoldersDistinct, BusyHolds, workVars
  <2> QED
    BY <2>3, <2>4, <2>5 DEF Places
<1>3. ASSUME NEW j \in Jobs, SubmitReject(j)
      PROVE  Places'
  <2>1. ~Queued(j) /\ ~HasWorker(j) /\ ~Delivered(j)
    BY <1>3 DEF SubmitReject, Places, OnePlace
  <2>2. ASSUME NEW i \in Jobs
        PROVE  OnePlace(i)'
    <3>1. /\ Queued(i)' = Queued(i)
          /\ HasWorker(i)' = HasWorker(i)
          /\ Delivered(i)' = Delivered(i)
          /\ i # j => caller'[i] = caller[i]
      BY <1>3 DEF SubmitReject, TypeOK, Queued, HasWorker, Delivered, workVars
    <3> QED
      BY <2>1, <3>1 DEF Places, OnePlace
  <2>3. QueueDistinct' /\ HoldersDistinct' /\ BusyHolds'
    BY <1>3 DEF SubmitReject, Places, QueueDistinct, HoldersDistinct, BusyHolds, workVars
  <2> QED
    BY <2>2, <2>3 DEF Places
<1>4. ASSUME NEW j \in Jobs, Return(j)
      PROVE  Places'
  <2>1. Tail(resultCh[j]) = <<>>
    BY <1>4 DEF Return, TypeOK
  <2>2. ~Queued(j) /\ ~HasWorker(j)
    BY <1>4 DEF Return, Places, OnePlace, Delivered
  <2>3. ASSUME NEW i \in Jobs
        PROVE  OnePlace(i)'
    <3>1. /\ Queued(i)' = Queued(i)
          /\ HasWorker(i)' = HasWorker(i)
          /\ i # j => Delivered(i)' = Delivered(i) /\ caller'[i] = caller[i]
          /\ i = j => ~Delivered(i)'
      BY <1>4, <2>1 DEF Return, TypeOK, Queued, HasWorker, Delivered, workVars
    <3> QED
      BY <2>2, <3>1 DEF Places, OnePlace
  <2>4. QueueDistinct' /\ HoldersDistinct' /\ BusyHolds'
    BY <1>4 DEF Return, Places, QueueDistinct, HoldersDistinct, BusyHolds, workVars
  <2> QED
    BY <2>3, <2>4 DEF Places
<1>5. ASSUME NEW w \in Workers, TakeJob(w)
      PROVE  Places'
  <2> DEFINE h == Head(jobs)
  <2>1. /\ h \in Jobs
        /\ h = jobs[1]
        /\ Len(jobs) >= 1
        /\ Len(jobs) \in Nat
        /\ Len(jobs') = Len(jobs) - 1
        /\ \A i \in 1..Len(jobs') : jobs'[i] = jobs[i + 1]
    BY <1>5 DEF TakeJob, TypeOK
  <2>2. Queued(h) /\ caller[h] = "waiting" /\ ~HasWorker(h) /\ ~Delivered(h)
    BY <2>1 DEF Places, OnePlace, Queued
  <2>3. /\ wjob'[w] = h /\ pc'[w] = "launch" /\ wjob[w] = NoJob
        /\ \A v \in Workers \ {w} : pc'[v] = pc[v] /\ wjob'[v] = wjob[v]
    BY <1>5 DEF TakeJob, TypeOK, Places, BusyHolds, Busy
  <2>4. \A i \in 1..Len(jobs') : i + 1 \in 1..Len(jobs) /\ i + 1 # 1
    BY <2>1
  <2>5. QueueDistinct'
    BY <2>1, <2>4 DEF QueueDistinct, Places
  <2>6. ASSUME NEW i \in Jobs, Queued(i)'
        PROVE  Queued(i) /\ i # h
    <3>1. PICK k \in 1..Len(jobs') : jobs'[k] = i
      BY <2>6 DEF Queued
    <3>2. k + 1 \in 1..Len(jobs) /\ jobs[k + 1] = i /\ 1 \in 1..Len(jobs) /\ k + 1 # 1
      BY <2>1, <2>4, <3>1
    <3> QED
      BY <2>1, <3>2 DEF Queued, Places, QueueDistinct
  <2>7. ASSUME NEW i \in Jobs
        PROVE  OnePlace(i)'
    <3>1. caller'[i] = caller[i] /\ Delivered(i)' = Delivered(i)
      BY <1>5 DEF TakeJob, Delivered
    <3>2. HasWorker(i)' <=> HasWorker(i) \/ i = h
      BY <2>3, <2>1, FirecrackerPoolAssumption DEF HasWorker
    <3> QED
      BY <2>2, <2>6, <3>1, <3>2 DEF Places, OnePlace
  <2>8. HoldersDistinct'
    BY <2>1, <2>2, <2>3 DEF HoldersDistinct, HasWorker, Places
  <2>9. BusyHolds'
    BY <2>1, <2>3, FirecrackerPoolAssumption DEF BusyHolds, Busy, Places
  <2> QED
    BY <2>5, <2>7, <2>8, <2>9 DEF Places
<1>6. ASSUME NEW w \in Workers, Inner(w)
      PROVE  Places'
  <2>1. \A v \in Workers : pc'[v] \in Busy <=> pc[v] \in Busy
    BY <1>6, InnerStep DEF TypeOK
  <2> QED
    BY <1>6, <2>1, InnerStep, SamePlaces DEF callVars
<1>7. ASSUME NEW w \in Workers, ExitWorker(w)
      PROVE  Places'
  <2>1. \A v \in Workers : pc'[v] \in Busy <=> pc[v] \in Busy
    BY <1>7 DEF ExitWorker, TypeOK, Busy
  <2> QED
    BY <1>7, <2>1, SamePlaces DEF ExitWorker, callVars
<1>8. ASSUME NEW w \in Workers, SendResult(w)
      PROVE  Places'
  <2>0. PICK h : h = wjob[w]
    OBVIOUS
  <2>1. h \in Jobs /\ h # NoJob /\ HasWorker(h)
    BY <1>8, <2>0 DEF SendResult, TypeOK, Places, BusyHolds, Busy, HasWorker
  <2>2. caller[h] = "waiting" /\ ~Queued(h)
    BY <2>1 DEF Places, OnePlace
  <2>3. /\ wjob'[w] = NoJob /\ pc'[w] = "select"
        /\ \A v \in Workers \ {w} : pc'[v] = pc[v] /\ wjob'[v] = wjob[v]
    BY <1>8 DEF SendResult, TypeOK
  <2>4. \A v \in Workers \ {w} : wjob[v] # h
    BY <2>0, <2>1 DEF Places, HoldersDistinct
  <2>5. ASSUME NEW i \in Jobs
        PROVE  OnePlace(i)'
    <3>1. Queued(i)' = Queued(i) /\ caller'[i] = caller[i]
      BY <1>8 DEF SendResult, Queued
    <3>2. HasWorker(i)' <=> HasWorker(i) /\ i # h
      BY <2>0, <2>3, <2>4, FirecrackerPoolAssumption DEF HasWorker
    <3>3. i # h => Delivered(i)' = Delivered(i)
      BY <1>8, <2>0 DEF SendResult, TypeOK, Delivered
    <3> QED
      BY <2>2, <3>1, <3>2, <3>3 DEF Places, OnePlace
  <2>6. QueueDistinct' /\ HoldersDistinct' /\ BusyHolds'
    BY <1>8, <2>3 DEF SendResult, Places, QueueDistinct, HoldersDistinct, BusyHolds, Busy
  <2> QED
    BY <2>5, <2>6 DEF Places
<1>9. CASE Stats \/ CloseShutdown \/ ShutdownReturns
  BY <1>9, SamePlaces DEF Stats, CloseShutdown, ShutdownReturns, callVars, workVars
<1>10. CASE UNCHANGED vars
  BY <1>10, SamePlaces DEF vars, callVars, workVars
<1> QED
  BY <1>1, <1>2, <1>3, <1>4, <1>5, <1>6, <1>7, <1>8, <1>9, <1>10
     DEF Next, CallerStep, OwnStep, Inner

-----------------------------------------------------------------------------
(* The sockets.                                                            *)

LEMMA InitSockets ==
  ASSUME "stranger" \notin Leftovers
  PROVE  Init => SocketInv /\ TargetInv
<1> SUFFICES ASSUME Init
             PROVE  SocketInv /\ TargetInv
  OBVIOUS
<1>1. PICK left \in [SharedPaths -> Leftovers] :
        socket = [p \in Paths |-> IF p \in SharedPaths THEN left[p] ELSE "absent"]
  BY DEF Init
<1>2. /\ \A p \in SharedPaths : left[p] \in {"absent", "stale"}
      /\ {"absent", "stale"} \cap Jobs = {}
  <2>1. \A x \in Leftovers : x \in {"absent", "stale"}
    BY FirecrackerPoolAssumption DEF Strangers
  <2>2. {"absent", "stale"} \cap Jobs = {}
    BY FirecrackerPoolAssumption DEF Strangers
  <2>3. \A p \in SharedPaths : left[p] \in Leftovers
    BY <1>1
  <2> QED
    BY <2>1, <2>2, <2>3
<1>3. SocketInv
  <2>1. ASSUME NEW p \in Paths
        PROVE  /\ socket[p] \in {"absent", "stale"}
               /\ socket[p] = "stale" => p \in SharedPaths
    BY <1>1, <1>2, <2>1
  <2> QED
    BY <1>2, <2>1 DEF SocketInv
<1>4. TargetInv
  BY DEF Init, TargetInv, Restored, Found
<1> QED
  BY <1>3, <1>4

LEMMA NextSocketInv ==
  TypeOK /\ BootInv /\ Places /\ SocketInv /\ TargetInv /\ [Next]_vars => SocketInv'
<1> SUFFICES ASSUME TypeOK, BootInv, Places, SocketInv, TargetInv, [Next]_vars
             PROVE  SocketInv'
  OBVIOUS
<1>1. CASE Initialize
  <2>1. boot # "up" /\ \A p \in Paths : socket[p] \notin Jobs
    BY <1>1 DEF Initialize, UseSnapshot, BeginSnapshot, EndSnapshot, SnapshotFails, SocketInv, BootInv
  <2>2. \A s \in Strangers : s \notin Jobs
    BY FirecrackerPoolAssumption
  <2>3. \A p \in Paths : socket'[p] \notin Jobs
    BY <1>1, <2>1, <2>2
       DEF Initialize, UseSnapshot, BeginSnapshot, EndSnapshot, SnapshotFails, hostVars, TypeOK,
           Strangers
  <2>4. \A p \in Paths : socket'[p] = "stale" => p \in SharedPaths
    BY <1>1
       DEF Initialize, UseSnapshot, BeginSnapshot, EndSnapshot, SnapshotFails, hostVars, TypeOK,
           SocketInv, BootInv, SharedPaths
  <2>5. \A p \in Paths : socket'[p] = "stranger" => boot' = "creating" /\ p = InitPath
    <3>1. CASE UseSnapshot
      BY <3>1 DEF UseSnapshot, hostVars, SocketInv, BootInv
    <3>2. CASE BeginSnapshot
      BY <3>2 DEF BeginSnapshot, SocketInv, BootInv, TypeOK
    <3>3. CASE EndSnapshot \/ SnapshotFails
      <4>1. \A p \in Paths : p # InitPath => socket[p] # "stranger"
        BY DEF SocketInv, BootInv
      <4> QED
        BY <3>3, <4>1 DEF EndSnapshot, SnapshotFails, TypeOK
    <3> QED
      BY <1>1, <3>1, <3>2, <3>3 DEF Initialize
  <2>6. boot' # "up" => \A w \in Workers : pc'[w] = "off"
    BY <1>1, <2>1
       DEF Initialize, UseSnapshot, BeginSnapshot, EndSnapshot, SnapshotFails, startWorkers,
           workVars, SocketInv, BootInv
  <2> QED
    BY <2>3, <2>4, <2>5, <2>6 DEF SocketInv, BootInv
<1>2. ASSUME UNCHANGED <<boot, uds, socket>>, boot = "up"
      PROVE  SocketInv'
  BY <1>2 DEF SocketInv, BootInv, SocketOf
<1>3. ASSUME NEW w \in Workers, Inner(w)
      PROVE  SocketInv'
  <2>1. boot = "up" /\ UNCHANGED <<boot, uds>> /\ wjob[w] \in Jobs
    <3>1. pc[w] # "off" /\ UNCHANGED <<boot, uds, wjob>> /\ wjob[w] # NoJob
      BY <1>3, InnerStep DEF Busy, Places, BusyHolds
    <3> QED
      BY <3>1 DEF SocketInv, BootInv, TypeOK
  <2>2. PICK j : j = wjob[w]
    OBVIOUS
  <2>3. CASE socket' = [socket EXCEPT ![SocketOf(j)] = j]
    <3>1. \A p \in Paths : socket'[p] = IF p = SocketOf(j) THEN j ELSE socket[p]
      BY <2>3 DEF TypeOK
    <3>2. j \in Jobs /\ j \notin Strangers
      BY <2>1, <2>2, FirecrackerPoolAssumption
    <3>3. \A i \in Jobs : SocketOf(i)' = SocketOf(i)
      BY <2>1 DEF SocketOf
    <3> QED
      BY <2>1, <3>1, <3>2, <3>3 DEF SocketInv, BootInv, Strangers
  <2>4. CASE socket' = [socket EXCEPT ![target[w]] = "absent"]
    <3>1. \A p \in Paths : socket'[p] \in {socket[p], "absent"}
      BY <2>4 DEF TypeOK
    <3>2. "absent" \notin Jobs
      BY FirecrackerPoolAssumption DEF Strangers
    <3>3. \A i \in Jobs : SocketOf(i)' = SocketOf(i)
      BY <2>1 DEF SocketOf
    <3> QED
      BY <2>1, <3>1, <3>2, <3>3 DEF SocketInv, BootInv
  <2>5. CASE UNCHANGED socket
    BY <1>2, <2>1, <2>5
  <2> QED
    BY <1>3, <2>2, <2>3, <2>4, <2>5
       DEF Inner, Launch, LaunchFails, Load, LoadFails, Find, Dial, DialFails, HandshakeStep,
           HandshakeDone, HandshakeFails, Respond, Unlink, Kill
<1>4. ASSUME NEW j \in Jobs, SubmitAccept(j) \/ SubmitReject(j) \/ Return(j)
      PROVE  SocketInv'
  BY <1>4 DEF SubmitAccept, SubmitReject, Return, hostVars, workVars, SocketInv, BootInv, SocketOf
<1>5. ASSUME NEW w \in Workers, TakeJob(w) \/ ExitWorker(w) \/ SendResult(w)
      PROVE  SocketInv'
  <2>1. pc[w] # "off"
    BY <1>5 DEF TakeJob, ExitWorker, SendResult
  <2>2. boot = "up"
    BY <2>1 DEF SocketInv, BootInv
  <2> QED
    BY <1>2, <1>5, <2>2 DEF TakeJob, ExitWorker, SendResult, hostVars
<1>6. CASE Stats \/ CloseShutdown \/ ShutdownReturns
  BY <1>6 DEF Stats, CloseShutdown, ShutdownReturns, hostVars, workVars, SocketInv, BootInv, SocketOf
<1>7. CASE UNCHANGED vars
  BY <1>7 DEF vars, hostVars, workVars, SocketInv, BootInv, SocketOf
<1> QED
  BY <1>1, <1>3, <1>4, <1>5, <1>6, <1>7 DEF Next, CallerStep, OwnStep, Inner

\* Two workers with a restored machine at the same path are the same.
LEMMA OneAtAPath ==
  ASSUME TypeOK, Places, TargetInv, NEW v \in Workers, NEW w \in Workers,
         pc[v] \in Restored, pc[w] \in Restored,
         SocketOf(wjob[v]) = SocketOf(wjob[w])
  PROVE  v = w
<1>1. wjob[v] = wjob[w]
  BY DEF TargetInv
<1>2. wjob[v] # NoJob
  BY DEF Places, BusyHolds, Busy, Restored
<1> QED
  BY <1>1, <1>2 DEF Places, HoldersDistinct

\* findVsockUDS returns the socket of the machine that was restored for the job,
\* or, when machines share a path, what a dead process has left.
LEMMA FindReturns ==
  ASSUME TypeOK, SocketInv, TargetInv, NEW j \in Jobs, boot = "up",
         socket[SocketOf(j)] = j, NEW p \in findVsockUDS(j)
  PROVE  /\ p \in Paths
         /\ p = SocketOf(j) \/ Stale(p)
<1>1. SocketOf(j) \in Existing
  BY SocketPlaces, FirecrackerPoolAssumption DEF Existing, Strangers
<1>2. p \in Paths /\ socket[p] \in Jobs \cup {"stale"}
  <2>1. p \in Existing
    BY DEF findVsockUDS
  <2> QED
    BY <2>1 DEF Existing, TypeOK, SocketInv, Strangers
<1>3. CASE uds = "instance"
  <2>1. findVsockUDS(j) = {j} /\ SocketOf(j) = j
    BY <1>1, <1>3, SocketPlaces DEF findVsockUDS
  <2> QED
    BY <1>2, <2>1
<1>4. CASE uds # "instance"
  <2>1. CASE socket[p] \in Jobs
    BY <1>2, <1>4, <2>1, SocketPlaces DEF SocketInv
  <2>2. CASE socket[p] = "stale"
    BY <1>2, <1>4, <2>2 DEF SocketInv, Stale
  <2> QED
    BY <1>2, <2>1, <2>2
<1> QED
  BY <1>3, <1>4

LEMMA NextTargetInv ==
  TypeOK /\ BootInv /\ Places /\ SocketInv /\ TargetInv /\ [Next]_vars => TargetInv'
<1> SUFFICES ASSUME TypeOK, BootInv, Places, SocketInv, TargetInv, [Next]_vars
             PROVE  TargetInv'
  OBVIOUS
<1> USE DEF Stale
<1>1. CASE Initialize
  <2>1. boot # "up" /\ target' = target
    BY <1>1 DEF Initialize, UseSnapshot, BeginSnapshot, EndSnapshot, SnapshotFails, startWorkers,
       workVars
  <2>2. \A w \in Workers : pc[w] = "off"
    BY <2>1 DEF SocketInv, BootInv
  <2>3. \A w \in Workers : pc'[w] \in {"off", "select"}
    BY <1>1, <2>2
       DEF Initialize, UseSnapshot, BeginSnapshot, EndSnapshot, SnapshotFails, startWorkers,
           workVars
  <2> QED
    BY <2>1, <2>2, <2>3 DEF TargetInv, Restored, Found
<1>2. ASSUME UNCHANGED <<uds, socket, target>>,
             \A w \in Workers :
               \/ pc'[w] = pc[w] /\ wjob'[w] = wjob[w]
               \/ pc[w] \notin Restored /\ pc'[w] \notin Restored
      PROVE  TargetInv'
  BY <1>2 DEF TargetInv, Restored, Found, SocketOf
<1>3. ASSUME NEW w \in Workers, Inner(w)
      PROVE  TargetInv'
  <2>1. PICK j : j = wjob[w]
    OBVIOUS
  <2>2. PICK to \in Busy : pc' = [pc EXCEPT ![w] = to]
    BY <1>3, InnerStep
  <2>3. /\ UNCHANGED <<boot, uds, wjob>>
        /\ j \in Jobs /\ boot = "up"
    <3>1. UNCHANGED <<boot, uds, wjob>> /\ pc[w] \in Busy
      BY <1>3, InnerStep
    <3>2. pc[w] # "off" /\ wjob[w] # NoJob
      BY <3>1 DEF Busy, Places, BusyHolds
    <3> QED
      BY <2>1, <3>1, <3>2 DEF SocketInv, BootInv, TypeOK
  <2>4. /\ pc'[w] = to
        /\ \A v \in Workers \ {w} : pc'[v] = pc[v] /\ wjob'[v] = wjob[v]
    BY <2>2, <2>3 DEF TypeOK
  <2>5. \A v \in Workers : SocketOf(wjob[v])' = SocketOf(wjob[v])
    BY <2>3 DEF SocketOf
  <2>6. CASE Load(w) \/ LoadFails(w)
    <3>1. \/ socket' = socket
          \/ socket[SocketOf(j)] = "absent" /\ socket' = [socket EXCEPT ![SocketOf(j)] = j]
      BY <2>1, <2>6 DEF Load, LoadFails
    <3>2. \A p \in Paths : socket[p] # "absent" => socket'[p] = socket[p]
      BY <3>1 DEF TypeOK
    <3>3. /\ target' = target /\ pc[w] \notin Restored /\ to \notin Found
          /\ Load(w) => to = "find" /\ socket'[SocketOf(j)] = j
          /\ LoadFails(w) => to = "kill"
      <4>1. SocketOf(j) \in Paths
        BY <2>3, SocketPlaces DEF Paths
      <4> QED
        BY <2>1, <2>2, <2>4, <2>6, <4>1 DEF Load, LoadFails, Goto, TypeOK, Restored, Found
    <3>4. ASSUME NEW v \in Workers, pc'[v] \in Restored
          PROVE  socket'[SocketOf(wjob[v])] = wjob[v]
      <4>1. CASE v = w
        BY <2>1, <2>4, <2>6, <3>3, <3>4, <4>1 DEF Restored
      <4>2. CASE v # w
        <5>1. wjob[v] \in Jobs /\ socket[SocketOf(wjob[v])] = wjob[v]
          BY <2>4, <3>4, <4>2 DEF TargetInv, Places, BusyHolds, Busy, Restored, TypeOK
        <5>2. wjob[v] # "absent" /\ SocketOf(wjob[v]) \in Paths
          BY <5>1, SocketPlaces, FirecrackerPoolAssumption DEF Paths, Strangers
        <5> QED
          BY <3>2, <5>1, <5>2
      <4> QED
        BY <4>1, <4>2
    <3>5. ASSUME NEW v \in Workers
          PROVE  target'[v] # NoJob <=> pc'[v] \in Found
      BY <2>4, <3>3 DEF TargetInv, Found, Restored
    <3>6. ASSUME NEW v \in Workers, target'[v] # NoJob
          PROVE  \/ target'[v] = SocketOf(wjob[v])
                 \/ Stale(target[v])'
      BY <2>3, <3>2, <3>3, <3>6 DEF TargetInv, Paths
    <3> QED
      BY <2>3, <2>5, <3>4, <3>5, <3>6 DEF TargetInv
  <2>7. CASE Find(w)
    <3>1. socket' = socket /\ pc[w] = "find" /\ socket[SocketOf(j)] = j
      BY <2>1, <2>7 DEF Find, TargetInv, Restored
    <3>2. \/ to = "kill" /\ target' = target
          \/ to = "dial" /\ \E p \in findVsockUDS(j) : target' = [target EXCEPT ![w] = p]
      BY <2>1, <2>4, <2>7 DEF Find, Goto, TypeOK
    <3>3. CASE to = "kill" /\ target' = target
      BY <2>3, <2>4, <2>5, <3>1, <3>3 DEF TargetInv, Restored, Found
    <3>4. CASE to = "dial" /\ \E p \in findVsockUDS(j) : target' = [target EXCEPT ![w] = p]
      <4>1. PICK p \in findVsockUDS(j) : target' = [target EXCEPT ![w] = p]
        BY <3>4
      <4>2. /\ p \in Paths
            /\ p = SocketOf(j) \/ Stale(p)
        BY <2>3, <3>1, FindReturns
      <4>3. p # NoJob
        BY <4>2, FirecrackerPoolAssumption DEF Paths
      <4>4. target'[w] = p /\ \A v \in Workers \ {w} : target'[v] = target[v]
        BY <4>1 DEF TypeOK
      <4>5. ASSUME NEW v \in Workers
            PROVE  target'[v] # NoJob <=> pc'[v] \in Found
        BY <2>4, <3>4, <4>3, <4>4 DEF TargetInv, Found
      <4>6. ASSUME NEW v \in Workers, target'[v] # NoJob
            PROVE  \/ target'[v] = SocketOf(wjob[v])
                   \/ Stale(target'[v])
        BY <2>1, <4>2, <4>4, <4>6 DEF TargetInv
      <4>7. ASSUME NEW v \in Workers, pc'[v] \in Restored
            PROVE  socket[SocketOf(wjob[v])] = wjob[v]
        BY <2>1, <2>4, <3>1, <4>7 DEF TargetInv
      <4> QED
        BY <2>3, <2>5, <3>1, <4>5, <4>6, <4>7 DEF TargetInv
    <3> QED
      BY <3>2, <3>3, <3>4
  <2>8. CASE Unlink(w)
    <3>1. /\ pc[w] = "unlink" /\ to = "kill"
          /\ socket' = [socket EXCEPT ![target[w]] = "absent"]
          /\ target' = [target EXCEPT ![w] = NoJob]
      BY <2>4, <2>8 DEF Unlink, Goto, TypeOK
    <3>2. \A p \in Paths : p # target[w] => socket'[p] = socket[p]
      BY <3>1 DEF TypeOK
    <3>3. /\ \/ target[w] = SocketOf(j)
             \/ Stale(target[w])
          /\ pc[w] \in Restored
      BY <2>1, <3>1 DEF TargetInv, Found, Restored
    <3>4. ASSUME NEW v \in Workers, v # w, pc[v] \in Restored
          PROVE  /\ SocketOf(wjob[v]) \in Paths /\ SocketOf(wjob[v]) # target[w]
                 /\ socket[SocketOf(wjob[v])] = wjob[v] /\ wjob[v] \in Jobs
      <4>1. wjob[v] \in Jobs /\ socket[SocketOf(wjob[v])] = wjob[v]
        BY <3>4 DEF TargetInv, Places, BusyHolds, Busy, Restored, TypeOK
      <4>2. wjob[v] # "stale"
        BY <4>1, FirecrackerPoolAssumption DEF Strangers
      <4>3. SocketOf(wjob[v]) # SocketOf(j)
        BY <2>1, <3>3, <3>4, OneAtAPath
      <4> QED
        BY <3>3, <4>1, <4>2, <4>3, SocketPlaces DEF Paths
    <3>5. target'[w] = NoJob /\ \A v \in Workers \ {w} : target'[v] = target[v]
      BY <3>1 DEF TypeOK
    <3>6. ASSUME NEW v \in Workers, pc'[v] \in Restored
          PROVE  socket'[SocketOf(wjob[v])] = wjob[v]
      BY <2>4, <3>1, <3>2, <3>4, <3>6 DEF Restored
    <3>7. ASSUME NEW v \in Workers
          PROVE  target'[v] # NoJob <=> pc'[v] \in Found
      BY <2>4, <3>1, <3>5 DEF TargetInv, Found
    <3>8. ASSUME NEW v \in Workers, target'[v] # NoJob
          PROVE  \/ target'[v] = SocketOf(wjob[v])
                 \/ Stale(target[v])'
      <4>1. v # w /\ target[v] = target'[v] /\ pc[v] \in Restored
        BY <3>5, <3>8 DEF TargetInv, Found, Restored
      <4>2. CASE target[v] = SocketOf(wjob[v])
        BY <4>1, <4>2
      <4>3. CASE Stale(target[v])
        <5>1. SocketOf(wjob[v]) = uds /\ SocketOf(j) = uds
          BY <4>3 DEF Stale, SocketOf
        <5>2. SocketOf(wjob[v]) = SocketOf(wjob[w])
          BY <2>1, <5>1
        <5>3. pc[v] \in Restored /\ pc[w] \in Restored
          BY <3>3, <4>1
        <5>4. v = w
          BY <5>2, <5>3, OneAtAPath
        <5> QED
          BY <4>1, <5>4
      <4> QED
        BY <3>8, <4>1, <4>2, <4>3 DEF TargetInv
    <3> QED
      BY <2>3, <2>5, <3>6, <3>7, <3>8 DEF TargetInv
  <2>9. CASE Dial(w) \/ DialFails(w) \/ HandshakeStep(w) \/ \E ok \in BOOLEAN : Respond(w, ok)
    <3>1. UNCHANGED <<socket, target>> /\ pc[w] \in Found /\ to \in Found
      BY <2>4, <2>9
         DEF Dial, DialFails, HandshakeStep, HandshakeDone, HandshakeFails, Respond, Goto, TypeOK,
             Found
    <3> QED
      BY <2>3, <2>4, <2>5, <3>1 DEF TargetInv, Found, Restored
  <2>10. CASE Launch(w) \/ LaunchFails(w) \/ Kill(w)
    <3>1. UNCHANGED <<socket, target>> /\ pc[w] \notin Restored /\ to \notin Restored
      BY <2>4, <2>10 DEF Launch, LaunchFails, Kill, Goto, TypeOK, Restored
    <3> QED
      BY <1>2, <2>3, <2>4, <3>1
  <2> QED
    BY <1>3, <2>6, <2>7, <2>8, <2>9, <2>10 DEF Inner
<1>4. ASSUME NEW j \in Jobs, SubmitAccept(j) \/ SubmitReject(j) \/ Return(j)
      PROVE  TargetInv'
  BY <1>4 DEF SubmitAccept, SubmitReject, Return, hostVars, workVars, TargetInv, SocketOf
<1>5. ASSUME NEW w \in Workers, TakeJob(w) \/ ExitWorker(w) \/ SendResult(w)
      PROVE  TargetInv'
  <2>1. /\ pc[w] \notin Restored /\ pc'[w] \notin Restored
        /\ \A v \in Workers \ {w} : pc'[v] = pc[v] /\ wjob'[v] = wjob[v]
    BY <1>5 DEF TakeJob, ExitWorker, SendResult, TypeOK, Restored
  <2> QED
    BY <1>2, <1>5, <2>1 DEF TakeJob, ExitWorker, SendResult, hostVars
<1>6. CASE Stats \/ CloseShutdown \/ ShutdownReturns
  BY <1>6 DEF Stats, CloseShutdown, ShutdownReturns, hostVars, workVars, TargetInv, SocketOf
<1>7. CASE UNCHANGED vars
  BY <1>7 DEF vars, hostVars, workVars, TargetInv, SocketOf
<1> QED
  BY <1>1, <1>3, <1>4, <1>5, <1>6, <1>7 DEF Next, CallerStep, OwnStep, Inner

\* The invariants so far make the two statements about sockets true.
LEMMA FoundIsOwnOrStale ==
  ASSUME TypeOK, Places, TargetInv, NEW w \in Workers, target[w] # NoJob
  PROVE  wjob[w] \in Jobs /\ socket[target[w]] \in {wjob[w], "stale"}
<1>1. pc[w] \in Found
  BY DEF TargetInv
<1>2. pc[w] \in Restored /\ pc[w] \in Busy
  BY <1>1 DEF Found, Restored, Busy
<1> QED
  BY <1>2 DEF TargetInv, Stale, Places, BusyHolds, TypeOK

LEMMA InitOwnMachine == Init => OwnMachine
BY DEF Init, OwnMachine

LEMMA NextOwnMachine ==
  TypeOK /\ Places /\ TargetInv /\ OwnMachine /\ [Next]_vars => OwnMachine'
<1> SUFFICES ASSUME TypeOK, Places, TargetInv, OwnMachine, [Next]_vars
             PROVE  OwnMachine'
  OBVIOUS
<1>1. ASSUME NEW w \in Workers, Dial(w)
      PROVE  OwnMachine'
  <2>1. target[w] # NoJob /\ peer' = [peer EXCEPT ![wjob[w]] = socket[target[w]]]
    BY <1>1 DEF Dial, TargetInv, Found
  <2>2. socket[target[w]] = wjob[w] /\ wjob[w] \in Jobs
    <3>1. socket[target[w]] # "stale"
      BY <1>1, FirecrackerPoolAssumption DEF Dial, Listening, Strangers
    <3> QED
      BY <2>1, <3>1, FoundIsOwnOrStale
  <2> QED
    BY <2>1, <2>2 DEF OwnMachine, TypeOK
<1>2. CASE UNCHANGED peer
  BY <1>2 DEF OwnMachine
<1>3. [Next]_vars => UNCHANGED peer \/ \E w \in Workers : Dial(w)
  BY DEF Next, vars, hostVars, CallerStep, OwnStep, HandshakeStep, HandshakeDone, HandshakeFails,
     Initialize, UseSnapshot, BeginSnapshot, EndSnapshot, SnapshotFails,
     SubmitAccept, SubmitReject, Return, TakeJob, ExitWorker, Launch, LaunchFails, Load, LoadFails,
     Find, DialFails, Respond, Unlink, Kill, SendResult, Stats, CloseShutdown, ShutdownReturns
<1> QED
  BY <1>1, <1>2, <1>3

-----------------------------------------------------------------------------
(* The machines, and the end of Shutdown.                                  *)

LEMMA InitMachines == Init => MachineInv /\ BootInv /\ StopInv
<1> SUFFICES ASSUME Init
             PROVE  MachineInv /\ BootInv /\ StopInv
  OBVIOUS
<1>1. {w \in Workers : pc[w] \in InMachine} = {}
  BY DEF Init, InMachine
<1>2. \A j \in Jobs : ~Alive(j)
  BY DEF Init, Alive
<1> QED
  BY <1>1, <1>2, FS_EmptySet DEF Init, MachineInv, BootInv, StopInv

\* Steps that change neither the machines nor who is in one.
LEMMA SameMachines ==
  ASSUME MachineInv, UNCHANGED <<vm, warmSem>>,
         \A w \in Workers :
           \/ pc'[w] \in InMachine /\ pc[w] \in InMachine /\ wjob'[w] = wjob[w]
           \/ pc'[w] \notin InMachine /\ pc[w] \notin InMachine
  PROVE  MachineInv'
BY DEF MachineInv, Alive

LEMMA NextMachines ==
  TypeOK /\ BootInv /\ Places /\ MachineInv /\ [Next]_vars => MachineInv'
<1> SUFFICES ASSUME TypeOK, BootInv, Places, MachineInv, [Next]_vars
             PROVE  MachineInv'
  OBVIOUS
<1>1. CASE Initialize
  <2>1. boot # "up" /\ UNCHANGED <<vm, warmSem>>
    BY <1>1 DEF Initialize, UseSnapshot, BeginSnapshot, EndSnapshot, SnapshotFails, startWorkers,
       workVars, hostVars
  <2>2. \A w \in Workers : pc[w] = "off" /\ pc'[w] \in {"off", "select"}
    BY <1>1, <2>1
       DEF Initialize, UseSnapshot, BeginSnapshot, EndSnapshot, SnapshotFails, startWorkers,
           workVars, BootInv
  <2> QED
    BY <2>1, <2>2, SameMachines DEF InMachine
<1>2. ASSUME NEW w \in Workers, Inner(w)
      PROVE  MachineInv'
  <2> DEFINE M == {v \in Workers : pc[v] \in InMachine}
  <2>1. PICK j : j = wjob[w]
    OBVIOUS
  <2>2. PICK to \in Busy : pc' = [pc EXCEPT ![w] = to]
    BY <1>2, InnerStep
  <2>3. /\ wjob' = wjob /\ j \in Jobs
        /\ \A v \in Workers \ {w} : wjob[v] # j
    <3>1. wjob' = wjob /\ pc[w] \in Busy
      BY <1>2, InnerStep
    <3>2. j # NoJob
      BY <2>1, <3>1 DEF Places, BusyHolds
    <3> QED
      BY <2>1, <3>1, <3>2 DEF Places, HoldersDistinct, TypeOK
  <2>4. /\ pc'[w] = to
        /\ \A v \in Workers \ {w} : pc'[v] = pc[v]
    BY <2>2 DEF TypeOK
  <2>5. IsFiniteSet(M)
    <3>1. IsFiniteSet(Workers)
      BY Constants, FS_Interval DEF Workers
    <3> QED
      BY <3>1, FS_Subset
  <2>6. CASE Launch(w)
    <3>1. /\ pc[w] = "launch" /\ to = "load" /\ warmSem' = warmSem + 1
          /\ \A i \in Jobs : i # j => vm'[i] = vm[i]
      BY <2>1, <2>4, <2>6 DEF Launch, Goto, TypeOK
    <3>2. w \notin M /\ {v \in Workers : pc'[v] \in InMachine} = M \cup {w}
      BY <2>4, <3>1 DEF InMachine
    <3>3. Cardinality(M \cup {w}) = warmSem + 1
      BY <2>5, <3>2, FS_AddElement DEF MachineInv
    <3>4. ASSUME NEW i \in Jobs, Alive(i)'
          PROVE  \E v \in Workers : wjob'[v] = i /\ pc'[v] \in InMachine
      BY <2>1, <2>3, <2>4, <3>1, <3>4 DEF MachineInv, Alive, InMachine
    <3> QED
      BY <3>1, <3>2, <3>3, <3>4 DEF MachineInv
  <2>7. CASE Kill(w)
    <3>1. /\ pc[w] = "kill" /\ to = "send" /\ warmSem' = warmSem - 1
          /\ \A i \in Jobs : i # j => vm'[i] = vm[i]
          /\ vm'[j] = "dead"
      BY <2>1, <2>3, <2>4, <2>7 DEF Kill, Goto, TypeOK
    <3>2. w \in M /\ {v \in Workers : pc'[v] \in InMachine} = M \ {w}
      BY <2>4, <3>1 DEF InMachine
    <3>3. Cardinality(M \ {w}) = warmSem - 1
      BY <2>5, <3>2, FS_RemoveElement DEF MachineInv
    <3>4. ASSUME NEW i \in Jobs, Alive(i)'
          PROVE  \E v \in Workers : wjob'[v] = i /\ pc'[v] \in InMachine
      <4>1. i # j /\ Alive(i)
        BY <3>1, <3>4 DEF Alive
      <4>2. PICK v \in Workers : wjob[v] = i /\ pc[v] \in InMachine
        BY <4>1 DEF MachineInv
      <4> QED
        BY <2>1, <2>3, <2>4, <4>1, <4>2
    <3> QED
      BY <3>1, <3>2, <3>3, <3>4 DEF MachineInv
  <2>8. CASE Load(w)
    <3>1. /\ pc[w] \in InMachine /\ to \in InMachine /\ warmSem' = warmSem
          /\ \A i \in Jobs : i # j => vm'[i] = vm[i]
      BY <2>1, <2>4, <2>8 DEF Load, Goto, TypeOK, InMachine
    <3>2. {v \in Workers : pc'[v] \in InMachine} = M
      BY <2>4, <3>1
    <3>3. ASSUME NEW i \in Jobs, Alive(i)'
          PROVE  \E v \in Workers : wjob'[v] = i /\ pc'[v] \in InMachine
      BY <2>1, <2>3, <2>4, <3>1, <3>3 DEF MachineInv, Alive
    <3> QED
      BY <3>1, <3>2, <3>3 DEF MachineInv
  <2>9. ASSUME Inner(w), ~Launch(w), ~Kill(w), ~Load(w)
        PROVE  MachineInv'
    <3>1. /\ UNCHANGED <<vm, warmSem>>
          /\ pc[w] \in InMachine <=> to \in InMachine
      BY <2>4, <2>9
         DEF Inner, LaunchFails, LoadFails, Find, Dial, DialFails, HandshakeStep,
             HandshakeDone, HandshakeFails, Respond, Unlink, Goto, TypeOK, InMachine
    <3> QED
      BY <2>3, <2>4, <3>1, SameMachines
  <2> QED
    BY <1>2, <2>6, <2>7, <2>8, <2>9
<1>3. ASSUME NEW j \in Jobs, SubmitAccept(j) \/ SubmitReject(j) \/ Return(j)
      PROVE  MachineInv'
  BY <1>3, SameMachines DEF SubmitAccept, SubmitReject, Return, hostVars, workVars
<1>4. ASSUME NEW w \in Workers, TakeJob(w) \/ ExitWorker(w) \/ SendResult(w)
      PROVE  MachineInv'
  <2>1. /\ pc[w] \notin InMachine /\ pc'[w] \notin InMachine
        /\ \A v \in Workers \ {w} : pc'[v] = pc[v] /\ wjob'[v] = wjob[v]
        /\ UNCHANGED <<vm, warmSem>>
    BY <1>4 DEF TakeJob, ExitWorker, SendResult, TypeOK, InMachine, hostVars
  <2> QED
    BY <2>1, SameMachines
<1>5. CASE Stats \/ CloseShutdown \/ ShutdownReturns \/ UNCHANGED vars
  BY <1>5, SameMachines DEF Stats, CloseShutdown, ShutdownReturns, vars, hostVars, workVars
<1> QED
  BY <1>1, <1>2, <1>3, <1>4, <1>5 DEF Next, CallerStep, OwnStep, Inner

LEMMA NextBootStop ==
  TypeOK /\ BootInv /\ StopInv /\ [Next]_vars => BootInv' /\ StopInv'
<1> SUFFICES ASSUME TypeOK, BootInv, StopInv, [Next]_vars
             PROVE  BootInv' /\ StopInv'
  OBVIOUS
<1>1. 1 \in Workers
  BY Constants DEF Workers
<1>2. CASE Initialize
  <2>1. boot # "up" /\ stopped' = stopped
    BY <1>2 DEF Initialize, UseSnapshot, BeginSnapshot, EndSnapshot, SnapshotFails, startWorkers,
       stopVars
  <2>2. ~stopped
    BY <1>1, <2>1 DEF BootInv, StopInv
  <2>3. boot' # "up" => pc' = pc
    BY <1>2 DEF Initialize, UseSnapshot, BeginSnapshot, EndSnapshot, SnapshotFails, startWorkers,
       workVars
  <2> QED
    BY <2>1, <2>2, <2>3 DEF BootInv, StopInv
<1>3. ASSUME NEW w \in Workers, Inner(w) \/ TakeJob(w) \/ ExitWorker(w) \/ SendResult(w)
      PROVE  BootInv' /\ StopInv'
  <2>1. pc[w] \notin {"off", "exited"} /\ boot' = boot /\ stopped' = stopped
    <3>1. CASE Inner(w)
      BY <3>1, InnerStep DEF Busy, stopVars
    <3>2. CASE TakeJob(w) \/ ExitWorker(w) \/ SendResult(w)
      BY <3>2 DEF TakeJob, ExitWorker, SendResult, stopVars
    <3> QED
      BY <1>3, <3>1, <3>2
  <2> QED
    BY <2>1 DEF BootInv, StopInv
<1>4. ASSUME NEW j \in Jobs, SubmitAccept(j) \/ SubmitReject(j) \/ Return(j)
      PROVE  BootInv' /\ StopInv'
  BY <1>4 DEF SubmitAccept, SubmitReject, Return, workVars, stopVars, BootInv, StopInv
<1>5. CASE Stats \/ CloseShutdown \/ ShutdownReturns \/ UNCHANGED vars
  BY <1>5 DEF Stats, CloseShutdown, ShutdownReturns, vars, workVars, stopVars, BootInv, StopInv
<1> QED
  BY <1>2, <1>3, <1>4, <1>5 DEF Next, CallerStep, OwnStep, Inner

\* Everything that holds wherever the machines bind their sockets.
PoolInv == TypeOK /\ Places /\ MachineInv /\ BootInv /\ StopInv

LEMMA PoolInvariant == Spec => []PoolInv
<1>1. Init => PoolInv
  BY InitTypeOK, InitPlaces, InitMachines DEF PoolInv
<1>2. PoolInv /\ [Next]_vars => PoolInv'
  BY NextTypeOK, NextPlaces, NextMachines, NextBootStop DEF PoolInv, Places
<1> QED
  BY <1>1, <1>2, PTL DEF Spec

\* The types, and the capacities of the channels and of the semaphore.
THEOREM FirecrackerTypeCorrect == Spec => []TypeOK
<1>1. PoolInv => TypeOK
  BY DEF PoolInv
<1> QED
  BY <1>1, PoolInvariant, PTL

\* The sockets, if no process of an earlier run still listens.
LEMMA SocketsInvariant ==
  ASSUME "stranger" \notin Leftovers
  PROVE  Spec => [](PoolInv /\ SocketInv /\ TargetInv /\ OwnMachine)
<1>1. Init => SocketInv /\ TargetInv /\ OwnMachine
  BY InitSockets, InitOwnMachine
<1>2. PoolInv /\ SocketInv /\ TargetInv /\ OwnMachine /\ [Next]_vars
        => (SocketInv /\ TargetInv /\ OwnMachine)'
  BY NextSocketInv, NextTargetInv, NextOwnMachine DEF PoolInv
<1> QED
  BY <1>1, <1>2, PoolInvariant, PTL DEF Spec

\* Each job is executed in the machine that was started for it, wherever the
\* machines bind their sockets, unless a process of an earlier run still listens
\* at one of the paths.
THEOREM JobsUseTheirMachine ==
  ASSUME "stranger" \notin Leftovers
  PROVE  Spec => []OwnMachine
<1> QED
  BY SocketsInvariant, PTL

\* Under the same condition no worker removes a socket another has found.
THEOREM FoundSocketsStay ==
  ASSUME "stranger" \notin Leftovers
  PROVE  Spec => []FoundSocketStays
<1>1. PoolInv /\ SocketInv /\ TargetInv /\ OwnMachine => FoundSocketStays
  BY FoundIsOwnOrStale DEF PoolInv, FoundSocketStays
<1> QED
  BY <1>1, SocketsInvariant, PTL

\* A machine has ended when its job is answered, whichever way executeCode
\* returned, and there are no more machines than the semaphore counts.
THEOREM MachinesEnd == Spec => []NoMachineOutlivesItsJob
<1>1. ASSUME PoolInv
      PROVE  NoMachineOutlivesItsJob
  <2> DEFINE M == {w \in Workers : pc[w] \in InMachine}
             A == {j \in Jobs : Alive(j)}
             I == {wjob[w] : w \in M}
             f == [w \in M |-> wjob[w]]
  <2>1. \A j \in Jobs : Alive(j) => \E w \in M : wjob[w] = j
    BY <1>1 DEF PoolInv, MachineInv
  <2>2. \A j \in Answered : ~Alive(j)
    BY <1>1, <2>1 DEF PoolInv, Places, OnePlace, HasWorker, Delivered, Answered
  <2>3. IsFiniteSet(M)
    <3>1. IsFiniteSet(Workers)
      BY Constants, FS_Interval DEF Workers
    <3> QED
      BY <3>1, FS_Subset
  <2>4. f \in Surjection(M, I)
    BY DEF Surjection
  <2>5. IsFiniteSet(I) /\ Cardinality(I) <= Cardinality(M)
    BY <2>3, <2>4, FS_Surjection
  <2>6. A \in SUBSET I
    BY <2>1
  <2>7. IsFiniteSet(A) /\ Cardinality(A) <= Cardinality(I)
    BY <2>5, <2>6, FS_Subset
  <2>8. Cardinality(A) \in Nat /\ Cardinality(I) \in Nat /\ Cardinality(M) \in Nat
    BY <2>3, <2>5, <2>7, FS_CardinalityType
  <2>9. Cardinality(A) <= warmSem
    BY <1>1, <2>5, <2>7, <2>8 DEF PoolInv, MachineInv
  <2> QED
    BY <2>2, <2>9 DEF NoMachineOutlivesItsJob
<1> QED
  BY <1>1, PoolInvariant, PTL

-----------------------------------------------------------------------------
(* The pool is a worker.WorkerPool.                                        *)

\* A worker that selects leaves room for one more job.
LEMMA RoomToDispatch ==
  ASSUME TypeOK, Places, NEW w \in Workers, pc[w] = "select"
  PROVE  IsFiniteSet(Held) /\ Cardinality(Held) < MaxWorkers
<1> DEFINE holders == {v \in Workers : wjob[v] # NoJob}
           take == [v \in holders |-> wjob[v]]
<1>1. IsFiniteSet(Workers) /\ Cardinality(Workers) = MaxWorkers
  BY Constants, FS_Interval DEF Workers
<1>2. IsFiniteSet(Workers \ {w}) /\ Cardinality(Workers \ {w}) = MaxWorkers - 1
  BY <1>1, FS_RemoveElement
<1>3. holders \in SUBSET (Workers \ {w})
  BY DEF Places, BusyHolds, Busy
<1>4. IsFiniteSet(holders) /\ Cardinality(holders) <= MaxWorkers - 1
  BY <1>2, <1>3, FS_Subset
<1>5. take \in Surjection(holders, Held)
  BY DEF Held, Surjection
<1>6. IsFiniteSet(Held) /\ Cardinality(Held) <= Cardinality(holders)
  BY <1>4, <1>5, FS_Surjection
<1>7. Cardinality(Held) \in Nat /\ Cardinality(holders) \in Nat
  BY <1>4, <1>6, FS_CardinalityType
<1> QED
  BY <1>4, <1>6, <1>7, Constants

LEMMA InitRefines == Init => Service!Init
BY FirecrackerPoolAssumption DEF Init, Service!Init, Held, Answered

\* A job of the abstract specification is new exactly while it is idle here.
LEMMA IdleIsUnseen ==
  ASSUME TypeOK, Places, NEW j \in Jobs, caller[j] = "idle"
  PROVE  j \notin Service!Seen
<1>1. ~Queued(j) /\ ~HasWorker(j) /\ ~Delivered(j)
  BY DEF Places, OnePlace
<1> QED
  BY <1>1 DEF Service!Seen, Queued, HasWorker, Delivered, Held, Answered

LEMMA NextRefines == PoolInv /\ [Next]_vars => [Service!Next]_Service!vars
<1> SUFFICES ASSUME PoolInv, [Next]_vars
             PROVE  Service!Next \/ UNCHANGED Service!vars
  OBVIOUS
<1> DEFINE refused == {j \in Jobs : caller[j] = "rejected"}
<1>0. TypeOK /\ Places /\ StopInv
  BY DEF PoolInv
<1>1. ASSUME NEW j \in Jobs, SubmitAccept(j)
      PROVE  Service!Accept(j)
  <2>1. Held' = Held /\ stopped' = stopped
    BY <1>1 DEF SubmitAccept, Held, workVars, stopVars
  <2>2. Answered' = Answered /\ refused' = refused
    BY <1>0, <1>1 DEF SubmitAccept, Answered, TypeOK
  <2>3. j \notin Service!Seen
    BY <1>0, <1>1, IdleIsUnseen DEF SubmitAccept
  <2> QED
    BY <1>1, <2>1, <2>2, <2>3 DEF SubmitAccept, Service!Accept
<1>2. ASSUME NEW j \in Jobs, SubmitReject(j)
      PROVE  Service!Refuse(j)
  <2>1. Held' = Held /\ stopped' = stopped /\ jobs' = jobs
    BY <1>2 DEF SubmitReject, Held, workVars, stopVars
  <2>2. Answered' = Answered /\ refused' = refused \cup {j}
    BY <1>0, <1>2 DEF SubmitReject, Answered, TypeOK
  <2>3. j \notin Service!Seen
    BY <1>0, <1>2, IdleIsUnseen DEF SubmitReject
  <2>4. Len(jobs) = QueueCapacity
    BY <1>0, <1>2, Constants DEF SubmitReject, TypeOK
  <2> QED
    BY <2>1, <2>2, <2>3, <2>4 DEF Service!Refuse
<1>3. ASSUME NEW j \in Jobs, Return(j)
      PROVE  UNCHANGED Service!vars
  <2>1. Answered' = Answered
    BY <1>0, <1>3 DEF Return, TypeOK, Answered
  <2>2. Held' = Held /\ refused' = refused /\ stopped' = stopped /\ jobs' = jobs
    BY <1>0, <1>3 DEF Return, TypeOK, Held, workVars, stopVars
  <2> QED
    BY <2>1, <2>2 DEF Service!vars
<1>4. ASSUME NEW w \in Workers, TakeJob(w)
      PROVE  Service!Dispatch
  <2>1. ~stopped
    BY <1>0, <1>4 DEF TakeJob, StopInv
  <2>2. Cardinality(Held) < MaxWorkers
    BY <1>0, <1>4, RoomToDispatch DEF TakeJob
  <2>3. Held' = Held \cup {Head(jobs)}
    <3>1. Head(jobs) \in Jobs /\ Head(jobs) # NoJob
      <4>1. jobs \in Seq(Jobs) /\ jobs # <<>>
        BY <1>0, <1>4 DEF TakeJob, TypeOK
      <4> QED
        BY <4>1, HeadTailProperties, FirecrackerPoolAssumption
    <3>2. wjob[w] = NoJob
      BY <1>0, <1>4 DEF TakeJob, Places, BusyHolds, Busy
    <3>3. wjob'[w] = Head(jobs) /\ \A v \in Workers \ {w} : wjob'[v] = wjob[v]
      BY <1>0, <1>4 DEF TakeJob, TypeOK
    <3> QED
      BY <3>1, <3>2, <3>3 DEF Held
  <2>4. Answered' = Answered /\ refused' = refused
    BY <1>4 DEF TakeJob, Answered
  <2>5. jobs # <<>> /\ jobs' = Tail(jobs) /\ stopped' = stopped
    BY <1>4 DEF TakeJob, stopVars
  <2>6. Service!Cardinality(Held) = Cardinality(Held)
    BY DEF Service!Cardinality, Cardinality
  <2> QED
    BY <2>1, <2>2, <2>3, <2>4, <2>5, <2>6 DEF Service!Dispatch
<1>5. ASSUME NEW w \in Workers, SendResult(w)
      PROVE  Service!Next
  <2>0. PICK h : h = wjob[w]
    OBVIOUS
  <2>1. h \in Jobs /\ h # NoJob /\ h \in Held /\ caller[h] # "returned"
    <3>1. h # NoJob /\ h \in Held
      BY <1>0, <1>5, <2>0 DEF SendResult, Places, BusyHolds, Busy, Held
    <3>2. h \in Jobs
      BY <1>0, <2>0, <3>1 DEF TypeOK
    <3> QED
      BY <1>0, <2>0, <3>1, <3>2 DEF Places, OnePlace, HasWorker
  <2>2. Held' = Held \ {h}
    <3>1. wjob'[w] = NoJob /\ \A v \in Workers \ {w} : wjob'[v] = wjob[v]
      BY <1>0, <1>5 DEF SendResult, TypeOK
    <3>2. \A v \in Workers \ {w} : wjob[v] # h
      BY <1>0, <2>0, <2>1 DEF Places, HoldersDistinct
    <3> QED
      BY <2>0, <3>1, <3>2 DEF Held
  <2>3. Answered' = Answered \cup {h}
    <3>1. resultCh'[h] # <<>> /\ \A i \in Jobs \ {h} : resultCh'[i] = resultCh[i]
      <4>1. resultCh[h] \in Seq(Results) /\ outcome[w] \in Results
        BY <1>0, <2>1 DEF TypeOK
      <4>2. Append(resultCh[h], outcome[w]) # <<>>
        BY <4>1
      <4> QED
        BY <1>0, <1>5, <2>0, <2>1, <4>2 DEF SendResult, TypeOK
    <3> QED
      BY <1>5, <2>1, <3>1 DEF Answered, SendResult
  <2>4. Service!Answer(h)
    BY <1>5, <2>1, <2>2, <2>3 DEF Service!Answer, SendResult, stopVars
  <2> QED
    BY <2>1, <2>4 DEF Service!Next
<1>6. ASSUME NEW w \in Workers, Inner(w) \/ ExitWorker(w)
      PROVE  UNCHANGED Service!vars
  <2>1. UNCHANGED <<callVars, wjob, stopped>>
    <3>1. CASE Inner(w)
      BY <1>0, <3>1, InnerStep DEF stopVars
    <3>2. CASE ExitWorker(w)
      BY <3>2 DEF ExitWorker, stopVars
    <3> QED
      BY <1>6, <3>1, <3>2
  <2> QED
    BY <2>1 DEF Service!vars, Held, Answered, callVars
<1>7. CASE ShutdownReturns
  <2>1. Held = {} /\ Held' = Held
    BY <1>0, <1>7 DEF ShutdownReturns, Held, workVars, Places, BusyHolds, Busy
  <2> QED
    BY <1>7, <2>1 DEF ShutdownReturns, Service!Next, Service!Stop, Answered, callVars
<1>8. CASE Initialize \/ Stats \/ CloseShutdown \/ UNCHANGED vars
  <2>1. UNCHANGED <<jobs, caller, resultCh, wjob, stopped>>
    BY <1>8
       DEF Initialize, UseSnapshot, BeginSnapshot, EndSnapshot, SnapshotFails, startWorkers,
           Stats, CloseShutdown, vars, callVars, workVars, stopVars
  <2> QED
    BY <2>1 DEF Service!vars, Held, Answered
<1>9. ASSUME NEW j \in Jobs, Service!Accept(j) \/ Service!Refuse(j)
      PROVE  Service!Next
  BY <1>9 DEF Service!Next
<1>10. Service!Dispatch => Service!Next
  BY DEF Service!Next
<1> QED
  BY <1>1, <1>2, <1>3, <1>4, <1>5, <1>6, <1>7, <1>8, <1>9, <1>10
     DEF Next, CallerStep, OwnStep, Inner

\* The pool is a worker.WorkerPool: jobs are executed in the order they were
\* accepted, each once, at most MaxWorkers at a time, none after Shutdown.
THEOREM FirecrackerRefines == Spec => ImplementsJobService
BY PoolInvariant, InitRefines, NextRefines, PTL
   DEF Spec, ImplementsJobService, Service!Spec

-----------------------------------------------------------------------------
(* What the pool therefore promises its callers.                           *)

Promise == INSTANCE JobService_proofs WITH
  Capacity <- QueueCapacity,
  pending <- jobs,
  running <- Held,
  answered <- Answered,
  refused <- {j \in Jobs : caller[j] = "rejected"},
  open <- ~stopped

LEMMA ServiceIsPromise == Service!Spec => Promise!Spec
<1>1. Service!Init => Promise!Init
  BY DEF Service!Init, Promise!Init
<1>2. Service!Cardinality(Held) = Promise!Cardinality(Held)
  BY DEF Service!Cardinality, Promise!Cardinality
<1>3. [Service!Next]_Service!vars => [Promise!Next]_Promise!vars
  BY <1>2
     DEF Service!Next, Promise!Next, Service!vars, Promise!vars, Service!Seen, Promise!Seen,
         Service!Accept, Promise!Accept, Service!Refuse, Promise!Refuse,
         Service!Answer, Promise!Answer, Service!Dispatch, Promise!Dispatch,
         Service!Stop, Promise!Stop
<1> QED
  BY <1>1, <1>3, PTL DEF Service!Spec, Promise!Spec

\* A call of ExecuteJob is at one stage at a time; the queue and the workers
\* stay within the configuration; an answer or a refusal is final; the queue is
\* served in turn.
THEOREM FirecrackerKeepsPromises ==
  Spec => /\ []Service!OneStage /\ []Service!WithinLimits
          /\ Service!VerdictsAreFinal /\ Service!FirstComeFirstServed
<1>1. Spec => Promise!Spec
  BY FirecrackerRefines, ServiceIsPromise DEF ImplementsJobService
<1>2. Promise!Spec => /\ []Promise!OneStage /\ []Promise!WithinLimits
                      /\ Promise!VerdictsAreFinal /\ Promise!FirstComeFirstServed
  BY Constants, Promise!CallsAreAtOneStage, Promise!LimitsAreKept, Promise!VerdictsStay,
     Promise!QueueInTurn
<1>3. Promise!OneStage => Service!OneStage
  BY DEF Service!OneStage, Promise!OneStage, Service!Pending, Promise!Pending
<1>4. Promise!WithinLimits => Service!WithinLimits
  <2>1. Service!Cardinality(Held) = Promise!Cardinality(Held)
    BY DEF Service!Cardinality, Promise!Cardinality
  <2> QED
    BY <2>1 DEF Service!WithinLimits, Promise!WithinLimits
<1>5. Promise!VerdictsAreFinal => Service!VerdictsAreFinal
  <2>1. [Promise!VerdictsKept]_Promise!vars => [Service!VerdictsKept]_Service!vars
    BY DEF Service!vars, Promise!vars, Service!VerdictsKept, Promise!VerdictsKept
  <2> QED
    BY <2>1, PTL DEF Service!VerdictsAreFinal, Promise!VerdictsAreFinal
<1>6. Promise!FirstComeFirstServed => Service!FirstComeFirstServed
  <2>1. [Promise!InTurn]_Promise!vars => [Service!InTurn]_Service!vars
    BY DEF Service!vars, Promise!vars, Service!InTurn, Promise!InTurn
  <2> QED
    BY <2>1, PTL DEF Service!FirstComeFirstServed, Promise!FirstComeFirstServed
<1> QED
  BY <1>1, <1>2, <1>3, <1>4, <1>5, <1>6, PTL

-----------------------------------------------------------------------------
(* A path that stays occupied.                                             *)

LEMMA BlockedNext == PoolInv /\ Blocked /\ [Next]_vars => Blocked'
<1> SUFFICES ASSUME PoolInv, Blocked, [Next]_vars
             PROVE  Blocked'
  OBVIOUS
<1>1. /\ boot = "up" /\ uds # "instance"
      /\ \A j \in Jobs : socket[SocketOf(j)] # "absent"
      /\ \A w \in Workers : pc[w] \notin {"find", "dial", "handshake", "request", "unlink"}
      /\ TypeOK
  BY DEF Blocked, PoolInv
<1>2. ASSUME UNCHANGED <<boot, uds, socket>>,
             \A w \in Workers : pc'[w] \notin {"find", "dial", "handshake", "request", "unlink"}
      PROVE  Blocked'
  BY <1>1, <1>2 DEF Blocked, SocketOf
<1>3. ASSUME NEW j \in Jobs, CallerStep(j)
      PROVE  Blocked'
  BY <1>1, <1>2, <1>3 DEF CallerStep, SubmitAccept, SubmitReject, Return, hostVars, workVars
<1>4. CASE Stats \/ CloseShutdown \/ ShutdownReturns \/ UNCHANGED vars
  BY <1>1, <1>2, <1>4 DEF Stats, CloseShutdown, ShutdownReturns, vars, hostVars, workVars
<1>5. ~Initialize
  BY <1>1 DEF Initialize, UseSnapshot, BeginSnapshot, EndSnapshot, SnapshotFails
<1>6. ASSUME NEW w \in Workers, TakeJob(w) \/ ExitWorker(w) \/ SendResult(w)
      PROVE  Blocked'
  BY <1>1, <1>2, <1>6 DEF TakeJob, ExitWorker, SendResult, TypeOK, hostVars
<1>7. ASSUME NEW w \in Workers, Launch(w) \/ LaunchFails(w) \/ Kill(w)
      PROVE  Blocked'
  BY <1>1, <1>2, <1>7 DEF Launch, LaunchFails, Kill, Goto, TypeOK
<1>8. ASSUME NEW w \in Workers, Load(w) \/ LoadFails(w)
      PROVE  Blocked'
  <2>1. pc[w] = "load" /\ wjob[w] \in Jobs
    BY <1>1, <1>8 DEF Load, LoadFails, PoolInv, Places, BusyHolds, Busy, TypeOK
  <2>2. LoadFails(w) /\ UNCHANGED <<boot, uds, socket>>
    BY <1>1, <1>8, <2>1 DEF Load, LoadFails, Goto
  <2> QED
    BY <1>1, <1>2, <2>2 DEF LoadFails, Goto, TypeOK
<1>9. ASSUME NEW w \in Workers
      PROVE  /\ ~Find(w) /\ ~Dial(w) /\ ~DialFails(w) /\ ~HandshakeStep(w) /\ ~Unlink(w)
             /\ \A ok \in BOOLEAN : ~Respond(w, ok)
  BY <1>1 DEF Find, Dial, DialFails, HandshakeStep, HandshakeDone, HandshakeFails, Unlink, Respond
<1> QED
  BY <1>3, <1>4, <1>5, <1>6, <1>7, <1>8, <1>9 DEF Next, OwnStep

\* Machines that share a path lose it to a file nobody listens at, the one of
\* createSnapshot or of one load that failed, until the process ends.
THEOREM BlockedStays == Spec => BlockedForGood
BY BlockedNext, PoolInvariant, PTL DEF Spec, BlockedForGood

FreshInv ==
  /\ uds # "instance"
  /\ boot = "start" => Occupied
  /\ boot = "up" => Blocked
  /\ NothingIsServed

LEMMA FreshNext == PoolInv /\ FreshInv /\ [Next]_vars => FreshInv'
<1> SUFFICES ASSUME PoolInv, FreshInv, [Next]_vars
             PROVE  FreshInv'
  OBVIOUS
<1>0. TypeOK /\ uds # "instance"
  BY DEF PoolInv, FreshInv
<1>1. CASE Initialize
  <2>1. /\ boot # "up" /\ \A w \in Workers : pc[w] = "off"
        /\ UNCHANGED <<peer, outcome, resultCh>>
    BY <1>1 DEF Initialize, UseSnapshot, BeginSnapshot, EndSnapshot, SnapshotFails, startWorkers,
       hostVars, callVars, workVars, PoolInv, BootInv
  <2>2. NothingIsServed'
    BY <2>1 DEF NothingIsServed, FreshInv
  <2>3. CASE UseSnapshot
    <3>1. uds # "instance" /\ socket[uds] # "absent"
      BY <2>3 DEF UseSnapshot, FreshInv, Occupied
    <3>2. /\ boot' = "up" /\ UNCHANGED <<uds, socket>>
          /\ \A w \in Workers : pc'[w] = "select"
      BY <2>3 DEF UseSnapshot, startWorkers, hostVars
    <3> QED
      BY <2>2, <3>1, <3>2 DEF FreshInv, Blocked, SocketOf
  <2>4. CASE EndSnapshot
    <3>1. /\ boot' = "up" /\ uds' = InitPath
          /\ socket' = [socket EXCEPT ![InitPath] = "stale"]
          /\ \A w \in Workers : pc'[w] = "select"
      BY <1>0, <2>4 DEF EndSnapshot, startWorkers, TypeOK, SharedPaths
    <3>2. socket'[InitPath] # "absent"
      BY <1>0, <3>1 DEF TypeOK, Paths, SharedPaths
    <3> QED
      BY <2>2, <3>1, <3>2, FirecrackerPoolAssumption DEF FreshInv, Blocked, SocketOf, SharedPaths
  <2>5. CASE BeginSnapshot \/ SnapshotFails
    BY <1>0, <2>2, <2>5 DEF BeginSnapshot, SnapshotFails, FreshInv
  <2> QED
    BY <1>1, <2>3, <2>4, <2>5 DEF Initialize
<1>2. CASE ~Initialize /\ boot = "up"
  <2>1. Blocked'
    BY <1>2, BlockedNext DEF FreshInv
  <2>2. boot' = "up" /\ uds' # "instance"
    BY <2>1 DEF Blocked
  <2>3. \A w \in Workers : pc[w] \notin {"find", "dial", "handshake", "request", "unlink"}
    BY <1>2 DEF FreshInv, Blocked
  <2>4. ASSUME NEW w \in Workers, SendResult(w)
        PROVE  NothingIsServed'
    <3>1. wjob[w] \in Jobs /\ resultCh[wjob[w]] \in Seq(Results) /\ outcome[w] \in Results
      BY <1>0, <2>4 DEF SendResult, PoolInv, Places, BusyHolds, Busy, TypeOK
    <3>2. /\ resultCh' = [resultCh EXCEPT ![wjob[w]] = Append(resultCh[wjob[w]], outcome[w])]
          /\ outcome' = [outcome EXCEPT ![w] = Failure]
          /\ ~outcome[w].Success /\ ~Failure.Success /\ peer' = peer
      BY <2>4 DEF SendResult, FreshInv, NothingIsServed, Failure, hostVars
    <3>3. ASSUME NEW j \in Jobs, NEW i \in 1..Len(resultCh'[j])
          PROVE  ~resultCh'[j][i].Success
      BY <1>0, <3>1, <3>2, <3>3 DEF TypeOK, FreshInv, NothingIsServed
    <3> QED
      BY <1>0, <3>2, <3>3 DEF TypeOK, FreshInv, NothingIsServed
  <2>5. ASSUME NEW j \in Jobs, Return(j)
        PROVE  NothingIsServed'
    <3>1. /\ resultCh[j] \in Seq(Results) /\ resultCh[j] # <<>>
          /\ resultCh' = [resultCh EXCEPT ![j] = Tail(resultCh[j])]
          /\ UNCHANGED <<peer, outcome>>
      BY <1>0, <2>5 DEF Return, TypeOK, hostVars, workVars
    <3>2. \A i \in 1..Len(Tail(resultCh[j])) : ~Tail(resultCh[j])[i].Success
      BY <3>1 DEF FreshInv, NothingIsServed
    <3> QED
      BY <1>0, <3>1, <3>2 DEF TypeOK, FreshInv, NothingIsServed
  <2>6. ASSUME NEW w \in Workers, OwnStep(w) \/ HandshakeStep(w), ~SendResult(w)
        PROVE  NothingIsServed'
    <3>1. UNCHANGED <<peer, resultCh>>
      BY <2>3, <2>6 DEF OwnStep, HandshakeStep, TakeJob, ExitWorker, Launch, LaunchFails, Load,
         LoadFails, Find, Dial, DialFails, HandshakeDone, HandshakeFails, Respond, Unlink, Kill,
         Goto, hostVars, callVars
    <3>2. \/ UNCHANGED outcome
          \/ outcome' = [outcome EXCEPT ![w] = Failure]
          \/ outcome' = [outcome EXCEPT ![w] = outcome[w]]
      BY <2>3, <2>6 DEF OwnStep, HandshakeStep, TakeJob, ExitWorker, Launch, LaunchFails, Load,
         LoadFails, Find, Dial, DialFails, HandshakeDone, HandshakeFails, Respond, Unlink, Kill, Goto
    <3>3. \A v \in Workers : outcome'[v] \in {outcome[v], Failure}
      BY <1>0, <3>2 DEF TypeOK
    <3>4. \A v \in Workers : ~outcome'[v].Success
      BY <3>3 DEF FreshInv, NothingIsServed, Failure
    <3> QED
      BY <3>1, <3>4 DEF FreshInv, NothingIsServed
  <2>7. ASSUME UNCHANGED <<peer, outcome, resultCh>>
        PROVE  NothingIsServed'
    BY <2>7 DEF FreshInv, NothingIsServed
  <2>8. NothingIsServed'
    BY <1>2, <2>4, <2>5, <2>6, <2>7 DEF Next, CallerStep, SubmitAccept, SubmitReject, Stats,
       CloseShutdown, ShutdownReturns, vars, hostVars, callVars, workVars
  <2> QED
    BY <2>1, <2>2, <2>8 DEF FreshInv
<1>3. CASE ~Initialize /\ boot # "up"
  <2>0. \A w \in Workers : ~OwnStep(w) /\ ~HandshakeStep(w)
    <3>1. \A w \in Workers : pc[w] = "off"
      BY <1>3 DEF PoolInv, BootInv
    <3> QED
      BY <3>1 DEF OwnStep, HandshakeStep, TakeJob, ExitWorker, Launch, LaunchFails, Load,
         LoadFails, Find, Dial, DialFails, HandshakeDone, HandshakeFails, Respond, Unlink, Kill,
         SendResult
  <2>1. /\ UNCHANGED <<boot, hostVars, pc, outcome>>
        /\ UNCHANGED resultCh \/ \E j \in Jobs : Return(j)
    BY <1>3, <2>0 DEF Next, CallerStep, SubmitAccept, SubmitReject, Return, Stats, CloseShutdown,
       ShutdownReturns, vars, callVars, workVars
  <2>2. CASE UNCHANGED resultCh
    BY <1>3, <2>1, <2>2 DEF FreshInv, Occupied, NothingIsServed, hostVars
  <2>3. ASSUME NEW j \in Jobs, Return(j)
        PROVE  FreshInv'
    <3>1. /\ resultCh[j] \in Seq(Results) /\ resultCh[j] # <<>>
          /\ resultCh' = [resultCh EXCEPT ![j] = Tail(resultCh[j])]
      BY <1>0, <2>3 DEF Return, TypeOK
    <3>2. \A i \in 1..Len(Tail(resultCh[j])) : ~Tail(resultCh[j])[i].Success
      BY <3>1 DEF FreshInv, NothingIsServed
    <3> QED
      BY <1>0, <1>3, <2>1, <3>1, <3>2 DEF TypeOK, FreshInv, Occupied, NothingIsServed, hostVars
  <2> QED
    BY <2>1, <2>2, <2>3
<1> QED
  BY <1>1, <1>2, <1>3

\* A backend whose machines bind the path in the snapshot of createSnapshot, as
\* firecracker.go:230 says, executes nothing: not on the run that makes the
\* snapshot, and not on a later one that finds the socket it has left.
THEOREM OccupiedPathServesNobody == Spec /\ Occupied => []NothingIsServed
<1>1. Init /\ Occupied => FreshInv
  BY DEF Init, FreshInv, Occupied, NothingIsServed, Failure
<1>2. FreshInv => NothingIsServed
  BY DEF FreshInv
<1> QED
  BY <1>1, <1>2, FreshNext, PoolInvariant, PTL DEF Spec

-----------------------------------------------------------------------------
(* What ends up happening.  The provers do not know what ENABLED means: that *)
(* the guards of a goroutine's next step enable it, NothingElseBlocks, which *)
(* TLC checks, is an assumption here.  That they hold is proved.             *)

\* There is a slot of the semaphore for a worker that starts a machine, and room
\* for a result that is sent.
WorkersNeverWait ==
  \A w \in Workers :
    /\ pc[w] = "launch" => warmSem < MaxWorkers
    /\ pc[w] = "send" => resultCh[wjob[w]] = <<>>

LEMMA RoomForWorkers == PoolInv => WorkersNeverWait
<1> SUFFICES ASSUME PoolInv, NEW w \in Workers
             PROVE  /\ pc[w] = "launch" => warmSem < MaxWorkers
                    /\ pc[w] = "send" => resultCh[wjob[w]] = <<>>
  BY DEF WorkersNeverWait
<1>1. ASSUME pc[w] = "launch"
      PROVE  warmSem < MaxWorkers
  <2> DEFINE inside == {v \in Workers : pc[v] \in InMachine}
  <2>1. IsFiniteSet(Workers) /\ Cardinality(Workers) = MaxWorkers
    BY Constants, FS_Interval DEF Workers
  <2>2. IsFiniteSet(Workers \ {w}) /\ Cardinality(Workers \ {w}) = MaxWorkers - 1
    BY <2>1, FS_RemoveElement
  <2>3. inside \in SUBSET (Workers \ {w})
    BY <1>1 DEF InMachine
  <2>4. IsFiniteSet(inside) /\ Cardinality(inside) <= MaxWorkers - 1
    BY <2>2, <2>3, FS_Subset
  <2>5. warmSem = Cardinality(inside) /\ warmSem \in Nat
    BY Constants DEF PoolInv, MachineInv, TypeOK
  <2> QED
    BY <2>4, <2>5, Constants
<1>2. ASSUME pc[w] = "send"
      PROVE  resultCh[wjob[w]] = <<>>
  <2>1. wjob[w] \in Jobs
    BY <1>2 DEF PoolInv, Places, BusyHolds, Busy, TypeOK
  <2> QED
    BY <2>1 DEF PoolInv, Places, OnePlace, HasWorker, Delivered
<1> QED
  BY <1>1, <1>2

\* Neither the semaphore nor the send of a result ever blocks a worker: every
\* worker has a slot of its own, and every job a channel of its own.
THEOREM WorkersFindRoom == Spec => []WorkersNeverWait
BY RoomForWorkers, PoolInvariant, PTL

On(w, j, stage) == pc[w] = stage /\ wjob[w] = j
Receivable(j) == caller[j] = "waiting" /\ Delivered(j)
Returned(j) == caller[j] = "returned"

\* A worker goes forward from stage to stage, and every step of its own ends one.
LEMMA WorkerStages ==
  ASSUME NEW w \in Workers, NEW j \in Jobs, PoolInv, [Next]_vars
  PROVE  /\ On(w, j, "launch") => On(w, j, "launch")' \/ On(w, j, "load")' \/ On(w, j, "send")'
         /\ On(w, j, "load") => On(w, j, "load")' \/ On(w, j, "find")' \/ On(w, j, "kill")'
         /\ On(w, j, "find") => On(w, j, "find")' \/ On(w, j, "dial")' \/ On(w, j, "kill")'
         /\ On(w, j, "dial") => On(w, j, "dial")' \/ On(w, j, "handshake")' \/ On(w, j, "unlink")'
         /\ On(w, j, "handshake")
              => On(w, j, "handshake")' \/ On(w, j, "request")' \/ On(w, j, "unlink")'
         /\ On(w, j, "request") => On(w, j, "request")' \/ On(w, j, "unlink")'
         /\ On(w, j, "unlink") => On(w, j, "unlink")' \/ On(w, j, "kill")'
         /\ On(w, j, "kill") => On(w, j, "kill")' \/ On(w, j, "send")'
         /\ On(w, j, "send") => On(w, j, "send")' \/ Receivable(j)'
         /\ \A stage \in Busy \ {"handshake"} :
              On(w, j, stage) /\ <<OwnStep(w)>>_vars => ~On(w, j, stage)'
<1>0. TypeOK /\ Places /\ BootInv
  BY DEF PoolInv
<1>1. CASE UNCHANGED <<pc, wjob>>
  <2>1. ~OwnStep(w)
    BY <1>0, <1>1 DEF OwnStep, TakeJob, ExitWorker, Launch, LaunchFails, Load, LoadFails, Find,
       Dial, DialFails, Respond, Unlink, Kill, SendResult, Goto, TypeOK
  <2> QED
    BY <1>1, <2>1 DEF On
<1>2. ASSUME NEW v \in Workers, v # w, OwnStep(v) \/ HandshakeStep(v)
      PROVE  pc'[w] = pc[w] /\ wjob'[w] = wjob[w] /\ pc'[v] # pc[v]
  BY <1>0, <1>2 DEF OwnStep, HandshakeStep, TakeJob, ExitWorker, Launch, LaunchFails, Load,
     LoadFails, Find, Dial, DialFails, HandshakeDone, HandshakeFails, Respond, Unlink, Kill,
     SendResult, Goto, TypeOK
<1>3. ASSUME OwnStep(w)
      PROVE  pc'[w] # pc[w]
  BY <1>0, <1>3 DEF OwnStep, TakeJob, ExitWorker, Launch, LaunchFails, Load, LoadFails, Find,
     Dial, DialFails, Respond, Unlink, Kill, SendResult, Goto, TypeOK
<1>4. ASSUME Inner(w)
      PROVE  /\ wjob' = wjob
             /\ <<pc[w], pc'[w]>> \in
                  {<<"launch", "load">>, <<"launch", "send">>, <<"load", "find">>, <<"load", "kill">>,
                   <<"find", "dial">>, <<"find", "kill">>, <<"dial", "handshake">>,
                   <<"dial", "unlink">>, <<"handshake", "request">>, <<"handshake", "unlink">>,
                   <<"request", "unlink">>, <<"unlink", "kill">>, <<"kill", "send">>}
  BY <1>0, <1>4 DEF Inner, HandshakeStep, Launch, LaunchFails, Load,
     LoadFails, Find, Dial, DialFails, HandshakeDone, HandshakeFails, Respond, Unlink, Kill,
     Goto, TypeOK
<1>5. ASSUME SendResult(w), On(w, j, "send")
      PROVE  Receivable(j)'
  BY <1>0, <1>5 DEF SendResult, On, Receivable, Delivered, Places, OnePlace, HasWorker, TypeOK
<1>6. ASSUME TakeJob(w) \/ ExitWorker(w)
      PROVE  pc[w] = "select"
  BY <1>6 DEF TakeJob, ExitWorker
<1>7. \/ UNCHANGED <<pc, wjob>>
      \/ \A v \in Workers : pc[v] = "off"
      \/ \E v \in Workers : OwnStep(v) \/ HandshakeStep(v)
  BY DEF Next, vars, CallerStep, SubmitAccept, SubmitReject, Return, Stats, CloseShutdown,
     ShutdownReturns, workVars, Initialize, UseSnapshot, BeginSnapshot, EndSnapshot, SnapshotFails,
     PoolInv, BootInv
<1>8. OwnStep(w) \/ HandshakeStep(w)
      => Inner(w) \/ SendResult(w) \/ TakeJob(w) \/ ExitWorker(w)
  BY DEF OwnStep, Inner
<1>9. CASE Inner(w)
  <2>1. /\ wjob'[w] = wjob[w]
        /\ pc[w] = "launch" => pc'[w] \in {"load", "send"}
        /\ pc[w] = "load" => pc'[w] \in {"find", "kill"}
        /\ pc[w] = "find" => pc'[w] \in {"dial", "kill"}
        /\ pc[w] = "dial" => pc'[w] \in {"handshake", "unlink"}
        /\ pc[w] = "handshake" => pc'[w] \in {"request", "unlink"}
        /\ pc[w] = "request" => pc'[w] = "unlink"
        /\ pc[w] = "unlink" => pc'[w] = "kill"
        /\ pc[w] = "kill" => pc'[w] = "send"
        /\ pc[w] # "send"
    BY <1>4, <1>9
  <2>2. pc'[w] # pc[w]
    BY <1>4, <1>9
  <2> QED
    BY <2>1, <2>2 DEF On, Busy
<1>10. CASE SendResult(w)
  <2>1. pc[w] = "send" /\ pc'[w] = "select"
    BY <1>0, <1>10 DEF SendResult, TypeOK
  <2> QED
    BY <1>5, <1>10, <2>1 DEF On
<1> QED
  BY <1>1, <1>2, <1>3, <1>6, <1>7, <1>8, <1>9, <1>10 DEF On, Busy

\* A result that was sent stays until ExecuteJob receives it.
LEMMA CallerStages ==
  ASSUME NEW j \in Jobs, PoolInv, [Next]_vars
  PROVE  /\ Receivable(j) => Receivable(j)' \/ Returned(j)'
         /\ Receivable(j) /\ <<Return(j)>>_vars => Returned(j)'
<1>0. TypeOK /\ Places
  BY DEF PoolInv
<1>1. CASE UNCHANGED <<caller, resultCh>>
  <2>1. Receivable(j) => ~Return(j)
    BY <1>0, <1>1 DEF Return, Receivable, TypeOK
  <2> QED
    BY <1>1, <2>1 DEF Receivable, Delivered
<1>2. ASSUME NEW i \in Jobs, CallerStep(i), i # j
      PROVE  caller'[j] = caller[j] /\ resultCh'[j] = resultCh[j]
  BY <1>0, <1>2 DEF CallerStep, SubmitAccept, SubmitReject, Return, TypeOK
<1>3. ASSUME CallerStep(j)
      PROVE  Receivable(j) => Returned(j)'
  BY <1>0, <1>3 DEF CallerStep, SubmitAccept, SubmitReject, Return, TypeOK, Receivable, Returned
<1>4. ASSUME NEW w \in Workers, SendResult(w)
      PROVE  caller' = caller /\ (Delivered(j) => resultCh'[j] = resultCh[j])
  <2>1. wjob[w] \in Jobs
    BY <1>0, <1>4 DEF SendResult, TypeOK, Places, BusyHolds, Busy
  <2>2. ~Delivered(wjob[w])
    BY <1>0, <2>1 DEF Places, OnePlace, HasWorker
  <2> QED
    BY <1>0, <1>4, <2>1, <2>2 DEF SendResult, TypeOK, Delivered
<1>5. \/ UNCHANGED <<caller, resultCh>>
      \/ \E i \in Jobs : CallerStep(i)
      \/ \E w \in Workers : SendResult(w)
  BY DEF Next, vars, OwnStep, HandshakeStep, TakeJob, ExitWorker, Launch, LaunchFails, Load,
     LoadFails, Find, Dial, DialFails, HandshakeDone, HandshakeFails, Respond, Unlink, Kill,
     Goto, Stats, CloseShutdown, ShutdownReturns, callVars, Initialize, UseSnapshot,
     BeginSnapshot, EndSnapshot, SnapshotFails, startWorkers
<1>6. ASSUME \E i \in Jobs : CallerStep(i)
      PROVE  CallerStep(j) \/ (caller'[j] = caller[j] /\ resultCh'[j] = resultCh[j])
  BY <1>2, <1>6
<1>7. Return(j) => CallerStep(j)
  BY DEF CallerStep
<1>8. CASE caller' = caller /\ (Delivered(j) => resultCh'[j] = resultCh[j])
  <2>1. Receivable(j) => ~Return(j)
    BY <1>0, <1>8 DEF Return, Receivable, TypeOK
  <2> QED
    BY <1>8, <2>1 DEF Receivable, Delivered
<1>9. CASE \E i \in Jobs : CallerStep(i)
  BY <1>3, <1>6, <1>7, <1>9 DEF Receivable, Delivered
<1> QED
  BY <1>1, <1>4, <1>5, <1>8, <1>9

\* The result of a job reaches its caller.
LEMMA SentIsReturned ==
  ASSUME NEW j \in Jobs
  PROVE  FairSpec /\ []NothingElseBlocks => (Receivable(j) ~> Returned(j))
<1>1. Fairness => CallerFairness(j)
  BY DEF Fairness
<1>2. NothingElseBlocks => CallerMoves(j)
  BY DEF NothingElseBlocks
<1>3. CallerMoves(j) /\ Receivable(j) => ENABLED <<Return(j)>>_vars
  BY DEF CallerMoves, Receivable, Delivered
<1>4. /\ PoolInv /\ Receivable(j) /\ [Next]_vars => Receivable(j)' \/ Returned(j)'
      /\ PoolInv /\ Receivable(j) /\ [Next]_vars /\ <<Return(j)>>_vars => Returned(j)'
  BY CallerStages
<1> QED
  BY <1>1, <1>2, <1>3, <1>4, PoolInvariant, PTL DEF FairSpec, Spec, CallerFairness

\* The guards of a worker's next step hold in every stage but the handshake.
LEMMA WorkersAreReady ==
  ASSUME NEW w \in Workers, NEW j \in Jobs, NEW stage \in Busy \ {"handshake"},
         PoolInv, NothingElseBlocks, On(w, j, stage)
  PROVE  ENABLED <<OwnStep(w)>>_vars
BY RoomForWorkers DEF NothingElseBlocks, WorkerMoves, WorkerReady, WorkersNeverWait, On, Busy

\* executeCode, once the connection is over, ends and its result is received.
LEMMA EndIsReturned ==
  ASSUME NEW j \in Jobs, NEW w \in Workers
  PROVE  FairSpec /\ []NothingElseBlocks
         => (On(w, j, "unlink") \/ On(w, j, "kill") \/ On(w, j, "send") ~> Returned(j))
<1>1. Fairness => WorkerFairness(w)
  BY DEF Fairness
<1>2. PoolInv /\ NothingElseBlocks
        /\ (On(w, j, "unlink") \/ On(w, j, "kill") \/ On(w, j, "send"))
      => ENABLED <<OwnStep(w)>>_vars
  BY WorkersAreReady DEF Busy
<1>3. PoolInv /\ [Next]_vars
      => /\ On(w, j, "unlink") => On(w, j, "unlink")' \/ On(w, j, "kill")'
         /\ On(w, j, "kill") => On(w, j, "kill")' \/ On(w, j, "send")'
         /\ On(w, j, "send") => On(w, j, "send")' \/ Receivable(j)'
         /\ On(w, j, "unlink") /\ <<OwnStep(w)>>_vars => ~On(w, j, "unlink")'
         /\ On(w, j, "kill") /\ <<OwnStep(w)>>_vars => ~On(w, j, "kill")'
         /\ On(w, j, "send") /\ <<OwnStep(w)>>_vars => ~On(w, j, "send")'
  BY WorkerStages DEF Busy
<1> QED
  BY <1>1, <1>2, <1>3, SentIsReturned, PoolInvariant, PTL DEF FairSpec, Spec, WorkerFairness

\* The worker w is at the job j, wherever in executeCode.
Works(w, j) == pc[w] \in Busy /\ wjob[w] = j

\* A worker's job reaches its caller unless the handshake never ends.
LEMMA WorkedOnIsReturned ==
  ASSUME NEW j \in Jobs, NEW w \in Workers
  PROVE  FairSpec /\ []NothingElseBlocks
         => (Works(w, j) ~> (Returned(j) \/ []Handshaking(j)))
<1>1. Fairness => WorkerFairness(w)
  BY DEF Fairness
<1>2. PoolInv /\ NothingElseBlocks
        /\ \/ On(w, j, "launch") \/ On(w, j, "load") \/ On(w, j, "find")
           \/ On(w, j, "dial") \/ On(w, j, "request")
      => ENABLED <<OwnStep(w)>>_vars
  BY WorkersAreReady DEF Busy
<1>3. PoolInv /\ [Next]_vars
      => /\ On(w, j, "launch") => On(w, j, "launch")' \/ On(w, j, "load")' \/ On(w, j, "send")'
         /\ On(w, j, "load") => On(w, j, "load")' \/ On(w, j, "find")' \/ On(w, j, "kill")'
         /\ On(w, j, "find") => On(w, j, "find")' \/ On(w, j, "dial")' \/ On(w, j, "kill")'
         /\ On(w, j, "dial") => On(w, j, "dial")' \/ On(w, j, "handshake")' \/ On(w, j, "unlink")'
         /\ On(w, j, "handshake")
              => On(w, j, "handshake")' \/ On(w, j, "request")' \/ On(w, j, "unlink")'
         /\ On(w, j, "request") => On(w, j, "request")' \/ On(w, j, "unlink")'
         /\ On(w, j, "launch") /\ <<OwnStep(w)>>_vars => ~On(w, j, "launch")'
         /\ On(w, j, "load") /\ <<OwnStep(w)>>_vars => ~On(w, j, "load")'
         /\ On(w, j, "find") /\ <<OwnStep(w)>>_vars => ~On(w, j, "find")'
         /\ On(w, j, "dial") /\ <<OwnStep(w)>>_vars => ~On(w, j, "dial")'
         /\ On(w, j, "request") /\ <<OwnStep(w)>>_vars => ~On(w, j, "request")'
  BY WorkerStages DEF Busy
<1>4. Works(w, j)
      => \/ On(w, j, "launch") \/ On(w, j, "load") \/ On(w, j, "find") \/ On(w, j, "dial")
         \/ On(w, j, "handshake") \/ On(w, j, "request")
         \/ On(w, j, "unlink") \/ On(w, j, "kill") \/ On(w, j, "send")
  BY DEF Busy, On, Works
<1>5. On(w, j, "handshake") => Handshaking(j)
  BY DEF On, Handshaking
<1> QED
  BY <1>1, <1>2, <1>3, <1>4, <1>5, EndIsReturned, PoolInvariant, PTL DEF FairSpec, Spec, WorkerFairness

\* A job a worker has taken is answered, whatever Firecracker and the file system
\* do, with one exception: the response to CONNECT, for which there is no
\* deadline.
THEOREM TakenJobsAreAnsweredOrHang == FairSpec /\ []NothingElseBlocks => TakenIsAnsweredOrHangs
<1>1. ASSUME NEW j \in Jobs
      PROVE  FairSpec /\ []NothingElseBlocks => (j \in Held ~> (Returned(j) \/ []Handshaking(j)))
  <2>1. ASSUME NEW w \in Workers
        PROVE  FairSpec /\ []NothingElseBlocks
               => [](Works(w, j) => <>(Returned(j) \/ []Handshaking(j)))
    BY WorkedOnIsReturned, PTL
  <2>2. FairSpec /\ []NothingElseBlocks
        => \A w \in Workers : [](Works(w, j) => <>(Returned(j) \/ []Handshaking(j)))
    BY <2>1
  <2>3. (\A w \in Workers : [](Works(w, j) => <>(Returned(j) \/ []Handshaking(j))))
        => [](\A w \in Workers : Works(w, j) => <>(Returned(j) \/ []Handshaking(j)))
    OBVIOUS
  <2>4. (\A w \in Workers : Works(w, j) => <>(Returned(j) \/ []Handshaking(j)))
        => ((\E w \in Workers : Works(w, j)) => <>(Returned(j) \/ []Handshaking(j)))
    OBVIOUS
  <2>5. PoolInv /\ j \in Held => \E w \in Workers : Works(w, j)
    BY DEF PoolInv, Places, BusyHolds, Held, Works
  <2> QED
    BY <2>2, <2>3, <2>4, <2>5, PoolInvariant, PTL DEF FairSpec
<1> QED
  BY <1>1 DEF TakenIsAnsweredOrHangs, Returned

-----------------------------------------------------------------------------
(* Shutdown returns, or waits for a worker that waits for CONNECT.         *)

\* Shutdown comes after Initialize, which has started the workers.
UpInv ==
  /\ boot = "up" => \A w \in Workers : pc[w] # "off"
  /\ shutdown => boot = "up"

LEMMA NextUp == TypeOK /\ UpInv /\ [Next]_vars => UpInv'
<1> SUFFICES ASSUME TypeOK, UpInv, [Next]_vars
             PROVE  UpInv'
  OBVIOUS
<1>1. CASE Initialize
  BY <1>1 DEF Initialize, UseSnapshot, BeginSnapshot, EndSnapshot, SnapshotFails, startWorkers,
     UpInv, workVars, stopVars
<1>2. ASSUME NEW w \in Workers, Inner(w)
      PROVE  UpInv'
  BY <1>2 DEF Inner, HandshakeStep, Launch, LaunchFails, Load, LoadFails, Find, Dial, DialFails,
     HandshakeDone, HandshakeFails, Respond, Unlink, Kill, Goto, UpInv, TypeOK, stopVars
<1>3. ASSUME NEW w \in Workers, TakeJob(w) \/ ExitWorker(w) \/ SendResult(w)
      PROVE  UpInv'
  BY <1>3 DEF TakeJob, ExitWorker, SendResult, UpInv, TypeOK, stopVars
<1>4. ASSUME NEW j \in Jobs, CallerStep(j)
      PROVE  UpInv'
  BY <1>4 DEF CallerStep, SubmitAccept, SubmitReject, Return, UpInv, workVars, stopVars
<1>5. CASE Stats \/ CloseShutdown \/ ShutdownReturns \/ UNCHANGED vars
  BY <1>5 DEF Stats, CloseShutdown, ShutdownReturns, vars, workVars, stopVars, UpInv
<1> QED
  BY <1>1, <1>2, <1>3, <1>4, <1>5 DEF Next, OwnStep, Inner

LEMMA UpInvariant == Spec => []UpInv
<1>1. Init => UpInv
  BY DEF Init, UpInv
<1> QED
  BY <1>1, NextUp, PoolInvariant, PTL DEF Spec, PoolInv

AtSelect(w) == pc[w] = "select"
Exited(w) == pc[w] = "exited"

\* The two ends of a worker's loop.
LEMMA LoopStages ==
  ASSUME NEW w \in Workers, NEW j \in Jobs, PoolInv, UpInv, [Next]_vars
  PROVE  /\ On(w, j, "send") => On(w, j, "send")' \/ AtSelect(w)'
         /\ <<ExitWorker(w)>>_vars => Exited(w)'
<1>0. TypeOK
  BY DEF PoolInv
<1>1. ASSUME SendResult(w)
      PROVE  AtSelect(w)'
  BY <1>0, <1>1 DEF SendResult, TypeOK, AtSelect
<1>2. ASSUME NEW v \in Workers, v # w, OwnStep(v) \/ HandshakeStep(v)
      PROVE  pc'[w] = pc[w] /\ wjob'[w] = wjob[w]
  BY <1>0, <1>2 DEF OwnStep, HandshakeStep, TakeJob, ExitWorker, Launch, LaunchFails, Load,
     LoadFails, Find, Dial, DialFails, HandshakeDone, HandshakeFails, Respond, Unlink, Kill,
     SendResult, Goto, TypeOK
<1>3. ASSUME OwnStep(w) \/ HandshakeStep(w), On(w, j, "send")
      PROVE  SendResult(w)
  BY <1>0, <1>3 DEF OwnStep, HandshakeStep, TakeJob, ExitWorker, Launch, LaunchFails, Load,
     LoadFails, Find, Dial, DialFails, HandshakeDone, HandshakeFails, Respond, Unlink, Kill, On
<1>4. \/ UNCHANGED <<pc, wjob>>
      \/ \A v \in Workers : pc[v] = "off"
      \/ \E v \in Workers : OwnStep(v) \/ HandshakeStep(v)
  BY DEF Next, vars, CallerStep, SubmitAccept, SubmitReject, Return, Stats, CloseShutdown,
     ShutdownReturns, workVars, Initialize, UseSnapshot, BeginSnapshot, EndSnapshot, SnapshotFails,
     PoolInv, BootInv
<1>5. ExitWorker(w) => Exited(w)'
  BY <1>0 DEF ExitWorker, TypeOK, Exited
<1> QED
  BY <1>1, <1>2, <1>3, <1>4, <1>5 DEF On

\* A worker that has left its loop does not come back, nor does the signal.
LEMMA WayOut ==
  ASSUME NEW w \in Workers, PoolInv, UpInv, [Next]_vars
  PROVE  /\ Exited(w) => Exited(w)'
         /\ shutdown => shutdown'
<1>0. TypeOK
  BY DEF PoolInv
<1>1. ASSUME NEW v \in Workers, OwnStep(v) \/ HandshakeStep(v)
      PROVE  shutdown' = shutdown /\ (Exited(w) => Exited(w)')
  BY <1>0, <1>1 DEF OwnStep, HandshakeStep, TakeJob, ExitWorker, Launch, LaunchFails, Load,
     LoadFails, Find, Dial, DialFails, HandshakeDone, HandshakeFails, Respond, Unlink, Kill,
     SendResult, Goto, TypeOK, Exited, stopVars
<1>2. ASSUME Initialize
      PROVE  shutdown' = shutdown /\ ~Exited(w)
  BY <1>2 DEF Initialize, UseSnapshot, BeginSnapshot, EndSnapshot, SnapshotFails, startWorkers,
     stopVars, PoolInv, BootInv, Exited
<1>3. CASE \/ \E i \in Jobs : CallerStep(i)
           \/ Stats \/ CloseShutdown \/ ShutdownReturns \/ UNCHANGED vars
  BY <1>3 DEF CallerStep, SubmitAccept, SubmitReject, Return, Stats, CloseShutdown,
     ShutdownReturns, vars, workVars, stopVars, Exited
<1> QED
  BY <1>1, <1>2, <1>3 DEF Next

Hangs == \E j \in Jobs : []Handshaking(j)
BackOrHangs(w, j) == [](Works(w, j) => <>(AtSelect(w) \/ Hangs))

\* A worker comes back to its select, unless a handshake never ends.
LEMMA BackAtSelect ==
  ASSUME NEW j \in Jobs, NEW w \in Workers
  PROVE  FairSpec /\ []NothingElseBlocks => BackOrHangs(w, j)
<1>1. Fairness => WorkerFairness(w)
  BY DEF Fairness
<1>2. PoolInv /\ NothingElseBlocks
        /\ \/ On(w, j, "launch") \/ On(w, j, "load") \/ On(w, j, "find")
           \/ On(w, j, "dial") \/ On(w, j, "request")
           \/ On(w, j, "unlink") \/ On(w, j, "kill") \/ On(w, j, "send")
      => ENABLED <<OwnStep(w)>>_vars
  BY WorkersAreReady DEF Busy
<1>3. PoolInv /\ UpInv /\ [Next]_vars
      => /\ On(w, j, "launch") => On(w, j, "launch")' \/ On(w, j, "load")' \/ On(w, j, "send")'
         /\ On(w, j, "load") => On(w, j, "load")' \/ On(w, j, "find")' \/ On(w, j, "kill")'
         /\ On(w, j, "find") => On(w, j, "find")' \/ On(w, j, "dial")' \/ On(w, j, "kill")'
         /\ On(w, j, "dial") => On(w, j, "dial")' \/ On(w, j, "handshake")' \/ On(w, j, "unlink")'
         /\ On(w, j, "handshake")
              => On(w, j, "handshake")' \/ On(w, j, "request")' \/ On(w, j, "unlink")'
         /\ On(w, j, "request") => On(w, j, "request")' \/ On(w, j, "unlink")'
         /\ On(w, j, "unlink") => On(w, j, "unlink")' \/ On(w, j, "kill")'
         /\ On(w, j, "kill") => On(w, j, "kill")' \/ On(w, j, "send")'
         /\ On(w, j, "send") => On(w, j, "send")' \/ AtSelect(w)'
         /\ On(w, j, "launch") /\ <<OwnStep(w)>>_vars => ~On(w, j, "launch")'
         /\ On(w, j, "load") /\ <<OwnStep(w)>>_vars => ~On(w, j, "load")'
         /\ On(w, j, "find") /\ <<OwnStep(w)>>_vars => ~On(w, j, "find")'
         /\ On(w, j, "dial") /\ <<OwnStep(w)>>_vars => ~On(w, j, "dial")'
         /\ On(w, j, "request") /\ <<OwnStep(w)>>_vars => ~On(w, j, "request")'
         /\ On(w, j, "unlink") /\ <<OwnStep(w)>>_vars => ~On(w, j, "unlink")'
         /\ On(w, j, "kill") /\ <<OwnStep(w)>>_vars => ~On(w, j, "kill")'
         /\ On(w, j, "send") /\ <<OwnStep(w)>>_vars => ~On(w, j, "send")'
  BY WorkerStages, LoopStages DEF Busy
<1>4. Works(w, j)
      => \/ On(w, j, "launch") \/ On(w, j, "load") \/ On(w, j, "find") \/ On(w, j, "dial")
         \/ On(w, j, "handshake") \/ On(w, j, "request")
         \/ On(w, j, "unlink") \/ On(w, j, "kill") \/ On(w, j, "send")
  BY DEF Busy, On, Works
<1>5. On(w, j, "handshake") => Handshaking(j)
  BY DEF On, Handshaking
<1>6. []Handshaking(j) => Hangs
  BY DEF Hangs
<1> QED
  BY <1>1, <1>2, <1>3, <1>4, <1>5, <1>6, PoolInvariant, UpInvariant, PTL
     DEF FairSpec, Spec, WorkerFairness, BackOrHangs

\* Shutdown waits for a worker for ever only if a handshake never ends, however
\* many jobs are queued or still come.
THEOREM EveryWorkerLeavesOrHangs ==
  ASSUME NEW w \in Workers
  PROVE  FairSpec /\ SelectIsFair /\ []NothingElseBlocks => (shutdown ~> ([]Exited(w) \/ Hangs))
<1>1. SelectIsFair => SelectFairness(w)
  BY DEF SelectIsFair
<1>2. NothingElseBlocks => WorkerMoves(w)
  BY DEF NothingElseBlocks
<1>3. WorkerMoves(w) /\ AtSelect(w) /\ shutdown => ENABLED <<ExitWorker(w)>>_vars
  BY DEF WorkerMoves, AtSelect
<1>4. PoolInv /\ UpInv /\ [Next]_vars
      => /\ Exited(w) => Exited(w)'
         /\ shutdown => shutdown'
         /\ <<ExitWorker(w)>>_vars => Exited(w)'
  <2>1. PoolInv /\ ExitWorker(w) => Exited(w)'
    BY DEF PoolInv, ExitWorker, TypeOK, Exited
  <2> QED
    BY <2>1, WayOut
<1>5. FairSpec /\ []NothingElseBlocks => \A j \in Jobs : BackOrHangs(w, j)
  BY BackAtSelect
<1>6. (\A j \in Jobs : BackOrHangs(w, j))
      => [](\A j \in Jobs : Works(w, j) => <>(AtSelect(w) \/ Hangs))
  BY DEF BackOrHangs
<1>7. (\A j \in Jobs : Works(w, j) => <>(AtSelect(w) \/ Hangs))
      => ((\E j \in Jobs : Works(w, j)) => <>(AtSelect(w) \/ Hangs))
  OBVIOUS
<1>8. PoolInv /\ UpInv /\ shutdown
      => AtSelect(w) \/ Exited(w) \/ \E j \in Jobs : Works(w, j)
  BY DEF PoolInv, TypeOK, UpInv, Places, BusyHolds, Busy, Works, AtSelect, Exited
<1> QED
  BY <1>1, <1>2, <1>3, <1>4, <1>5, <1>6, <1>7, <1>8, PoolInvariant, UpInvariant, PTL
     DEF FairSpec, Spec, SelectFairness

\* Shutdown was called, and the first n workers have left their loops.
Gone(n) == shutdown /\ \A w \in Workers : w <= n => Exited(w)

Leaves(w) == shutdown ~> ([]Exited(w) \/ Hangs)
WorkersLeave == \A w \in Workers : Leaves(w)
MoreGo(from, to) == Gone(from) ~> (Gone(to) \/ Hangs)
Goes(d) == \A n \in Nat : MoreGo(n, n + d)

LEMMA GoneStays ==
  ASSUME NEW n \in Nat, PoolInv, UpInv, Gone(n), [Next]_vars
  PROVE  Gone(n)'
<1>1. 1 \in Workers
  BY Constants DEF Workers
<1>2. shutdown'
  BY <1>1, WayOut DEF Gone
<1>3. \A w \in Workers : Exited(w) => Exited(w)'
  BY WayOut
<1> QED
  BY <1>2, <1>3 DEF Gone

LEMMA OneMoreGoes == Spec /\ WorkersLeave => Goes(1)
<1>1. ASSUME NEW n \in Nat
      PROVE  Spec /\ WorkersLeave => MoreGo(n, n + 1)
  <2>1. CASE n + 1 \in Workers
    <3>1. WorkersLeave => Leaves(n + 1)
      BY <2>1 DEF WorkersLeave
    <3>2. Gone(n) => shutdown
      BY DEF Gone
    <3>3. Gone(n) /\ Exited(n + 1) => Gone(n + 1)
      BY Constants DEF Gone, Workers
    <3>4. PoolInv /\ UpInv /\ Gone(n) /\ [Next]_vars => Gone(n)'
      BY GoneStays
    <3> QED
      BY <3>1, <3>2, <3>3, <3>4, PoolInvariant, UpInvariant, PTL DEF Leaves, MoreGo, Spec
  <2>2. CASE n + 1 \notin Workers
    <3>1. Gone(n) => Gone(n + 1)
      BY <2>2, Constants DEF Gone, Workers
    <3> QED
      BY <3>1, PTL DEF MoreGo
  <2> QED
    BY <2>1, <2>2
<1> QED
  BY <1>1 DEF Goes

\* The provers cannot do induction over a temporal formula, but doubling takes
\* them far enough.
LEMMA TwiceAsManyGo ==
  ASSUME NEW d \in Nat
  PROVE  Goes(d) => Goes(2 * d)
<1>1. ASSUME NEW n \in Nat, NEW k \in Nat, NEW m \in Nat
      PROVE  MoreGo(n, k) /\ MoreGo(k, m) => MoreGo(n, m)
  BY PTL DEF MoreGo
<1>2. ASSUME NEW n \in Nat
      PROVE  Goes(d) => MoreGo(n, n + 2 * d)
  <2>1. n + d \in Nat /\ n + 2 * d \in Nat /\ (n + d) + d = n + 2 * d
    OBVIOUS
  <2> QED
    BY <1>1, <2>1 DEF Goes
<1> QED
  BY <1>2 DEF Goes

LEMMA AllGo == Spec /\ WorkersLeave => (shutdown ~> (Gone(1024) \/ Hangs))
<1>1. Goes(1) => Goes(32)
  <2>1. 2 * 1 = 2 /\ 2 * 2 = 4 /\ 2 * 4 = 8 /\ 2 * 8 = 16 /\ 2 * 16 = 32
    OBVIOUS
  <2> QED
    BY <2>1, TwiceAsManyGo
<1>2. Goes(32) => Goes(1024)
  <2>1. 2 * 32 = 64 /\ 2 * 64 = 128 /\ 2 * 128 = 256 /\ 2 * 256 = 512 /\ 2 * 512 = 1024
    OBVIOUS
  <2> QED
    BY <2>1, TwiceAsManyGo
<1>3. Goes(1024) => MoreGo(0, 1024)
  <2>1. 0 \in Nat /\ 0 + 1024 = 1024
    OBVIOUS
  <2> QED
    BY <2>1 DEF Goes
<1>4. shutdown => Gone(0)
  BY Constants DEF Gone, Workers
<1> QED
  BY <1>1, <1>2, <1>3, <1>4, OneMoreGoes, PTL DEF MoreGo

\* Shutdown returns, unless a handshake never ends, for any number of jobs and at
\* most 1024 workers.
THEOREM ShutdownReturnsOrHangs ==
  ASSUME MaxWorkers <= 1024
  PROVE  FairSpec /\ SelectIsFair /\ []NothingElseBlocks => ShutdownCompletesOrHangs
<1>1. FairSpec /\ SelectIsFair /\ []NothingElseBlocks => WorkersLeave
  <2>1. ASSUME NEW w \in Workers
        PROVE  FairSpec /\ SelectIsFair /\ []NothingElseBlocks => Leaves(w)
    BY EveryWorkerLeavesOrHangs DEF Leaves
  <2> QED
    BY <2>1 DEF WorkersLeave
<1>2. Gone(1024) => shutdown /\ \A w \in Workers : pc[w] = "exited"
  BY Constants DEF Gone, Workers, Exited
<1>3. NothingElseBlocks => MainMoves
  BY DEF NothingElseBlocks
<1>4. MainMoves /\ Gone(1024) /\ ~stopped => ENABLED <<ShutdownReturns>>_vars
  BY <1>2 DEF MainMoves
<1>5. PoolInv /\ UpInv /\ [Next]_vars
      => /\ Gone(1024) => Gone(1024)'
         /\ <<ShutdownReturns>>_vars => stopped'
  BY GoneStays DEF ShutdownReturns
<1>6. Fairness => MainFairness
  BY DEF Fairness
<1> QED
  BY <1>1, <1>3, <1>4, <1>5, <1>6, AllGo, PoolInvariant, UpInvariant, PTL
     DEF FairSpec, Spec, MainFairness, ShutdownCompletesOrHangs, Hangs

=============================================================================
