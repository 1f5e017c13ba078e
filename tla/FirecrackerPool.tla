--------------------------- MODULE FirecrackerPool ---------------------------
(***************************************************************************)
(* The execution backend worker/firecracker: Initialize makes a snapshot   *)
(* of a booted virtual machine unless there is one; every job is executed  *)
(* in a machine restored from it, which the worker starts, looks for in    *)
(* /tmp by the socket it listens on, asks over that socket, and kills.     *)
(*                                                                         *)
(* Firecracker is external to the program: a machine that is restored      *)
(* binds its socket, which fails if the file exists, and a killed one      *)
(* leaves the file behind.  The program does not know where the socket     *)
(* will be: findVsockUDS looks for a name made from the instance, then for *)
(* the name createSnapshot has used, then for any other.                   *)
(***************************************************************************)
EXTENDS Integers, Sequences, FiniteSets

CONSTANTS
  Jobs,               \* the calls of ExecuteJob, each with an instance of its own
  ConfiguredWorkers,  \* MaxWorkers of the configuration passed to NewPool
  QueueCapacity,      \* of the channel of jobs: MaxWorkers*10 in NewPool
  Leftovers,          \* what runs before this one may have left in /tmp
  InitPath,           \* /tmp/fc-init.vsock
  OtherPaths,         \* any other *.vsock: of a snapshot made by hand, of old instances
  NoJob               \* a worker's job while it has none

\* The names that do not come from an instance of this run.
SharedPaths == {InitPath} \cup OtherPaths

\* What a socket file is bound to if not to the machine of a job: nothing, as it
\* does not exist; a process that has ended; one that still runs.
Strangers == {"absent", "stale", "stranger"}

\* Of the snapshot files: "partial" ones exist and cannot be loaded.
SnapshotStates == {"none", "partial", "complete"}

ASSUME FirecrackerPoolAssumption ==
  /\ IsFiniteSet(Jobs)
  /\ ConfiguredWorkers \in Int
  /\ QueueCapacity \in Nat \ {0}
  /\ Leftovers \subseteq Strangers
  /\ Jobs \cap (Strangers \cup SharedPaths \cup {NoJob, "none"}) = {}
  /\ InitPath \notin OtherPaths /\ SharedPaths \cap {NoJob, "instance"} = {}

MaxWorkers == IF ConfiguredWorkers <= 0 THEN 3 ELSE ConfiguredWorkers
Workers == 1..MaxWorkers

\* /tmp/fc-<instance>.vsock of each job, and the others.
Paths == Jobs \cup SharedPaths

VARIABLES
  boot,      \* progress of Initialize
  snapshot,  \* the snapshot files
  uds,       \* where a restored machine binds its socket: a path all of them share, or
             \* one that is made from the instance
  socket,    \* what the socket files in /tmp are bound to
  vm,        \* the firecracker process of each job
  peer,      \* the machine each job's connection reached
  jobs,      \* the channel p.jobs, oldest job first
  caller,    \* progress of each call of ExecuteJob
  resultCh,  \* the result channel of each job
  stats,     \* p.stats
  pc,        \* progress of each worker goroutine
  wjob,      \* the job a worker has taken
  target,    \* the path findVsockUDS has returned to a worker
  outcome,   \* the result of executeCode, not sent yet
  warmSem,   \* how many workers hold the semaphore
  shutdown,  \* the channel p.shutdown is closed
  stopped    \* Shutdown has returned

hostVars == <<snapshot, uds, socket, vm, peer>>
callVars == <<jobs, caller, resultCh, stats>>
workVars == <<pc, wjob, target, outcome, warmSem>>
stopVars == <<shutdown, stopped>>
vars == <<boot, hostVars, callVars, workVars, stopVars>>

\* A worker.Result, with its Error non-nil exactly if Success is not set.
Results == [Success : BOOLEAN]
Failure == [Success |-> FALSE]

\* The socket of the machine restored for j.
SocketOf(j) == IF uds = "instance" THEN j ELSE uds

\* The machine is restored and has not been killed: it listens.
Listening(k) == k = "stranger" \/ (k \in Jobs /\ vm[k] = "restored")

-----------------------------------------------------------------------------
Init ==
  /\ boot = "start"
  /\ snapshot \in SnapshotStates
  /\ uds \in {"instance"} \cup SharedPaths
  /\ \E left \in [SharedPaths -> Leftovers] :
       socket = [p \in Paths |-> IF p \in SharedPaths THEN left[p] ELSE "absent"]
  /\ vm = [j \in Jobs |-> "none"]
  /\ peer = [j \in Jobs |-> "none"]
  /\ jobs = <<>>
  /\ caller = [j \in Jobs |-> "idle"]
  /\ resultCh = [j \in Jobs |-> <<>>]
  /\ stats = [ActiveWorkers |-> 0, QueuedJobs |-> 0, TotalExecuted |-> 0]
  /\ pc = [w \in Workers |-> "off"]
  /\ wjob = [w \in Workers |-> NoJob]
  /\ target = [w \in Workers |-> NoJob]
  /\ outcome = [w \in Workers |-> Failure]
  /\ warmSem = 0
  /\ shutdown = FALSE
  /\ stopped = FALSE

-----------------------------------------------------------------------------
(* Initialize, called once by main before anything else.                   *)

startWorkers ==
  /\ pc' = [w \in Workers |-> "select"]
  /\ stats' = [stats EXCEPT !.ActiveWorkers = MaxWorkers]
  /\ boot' = "up"
  /\ UNCHANGED <<jobs, caller, resultCh, wjob, target, outcome, warmSem, stopVars>>

\* Both files exist: whatever is in them is used.
UseSnapshot ==
  /\ boot = "start"
  /\ snapshot # "none"
  /\ startWorkers
  /\ UNCHANGED hostVars

\* createSnapshot removes an old socket and boots a machine that binds it anew.
BeginSnapshot ==
  /\ boot = "start"
  /\ snapshot = "none"
  /\ boot' = "creating"
  /\ socket' = [socket EXCEPT ![InitPath] = "stranger"]
  /\ UNCHANGED <<snapshot, uds, vm, peer, callVars, workVars, stopVars>>

\* The guest is asked 30 times whether it is ready, each time maybe for ever, and
\* the snapshot is made whatever it answers: after a restore it may not listen
\* yet.  The machine is killed; its socket stays.
EndSnapshot ==
  /\ boot = "creating"
  /\ snapshot' = "complete"
  /\ uds' = IF uds \in OtherPaths THEN InitPath ELSE uds
  /\ socket' = [socket EXCEPT ![InitPath] = "stale"]
  /\ startWorkers
  /\ UNCHANGED <<vm, peer>>

\* A call of the API fails: Initialize returns an error and main ends.
SnapshotFails ==
  /\ boot = "creating"
  /\ boot' = "failed"
  /\ snapshot' \in {"none", "partial"}
  /\ socket' \in {[socket EXCEPT ![InitPath] = s] : s \in {"absent", "stale"}}
  /\ UNCHANGED <<uds, vm, peer, callVars, workVars, stopVars>>

Initialize ==
  \/ UseSnapshot
  \/ BeginSnapshot
  \/ EndSnapshot
  \/ SnapshotFails

-----------------------------------------------------------------------------
(* ExecuteJob, by the goroutine of a caller.                               *)

\* The increment that follows the send is atomic, and nothing but Stats reads
\* the counter: it is part of the step.
SubmitAccept(j) ==
  /\ boot = "up"
  /\ caller[j] = "idle"
  /\ Len(jobs) < QueueCapacity
  /\ jobs' = Append(jobs, j)
  /\ stats' = [stats EXCEPT !.TotalExecuted = @ + 1]
  /\ caller' = [caller EXCEPT ![j] = "waiting"]
  /\ UNCHANGED <<boot, hostVars, resultCh, workVars, stopVars>>

SubmitReject(j) ==
  /\ boot = "up"
  /\ caller[j] = "idle"
  /\ Len(jobs) >= QueueCapacity
  /\ caller' = [caller EXCEPT ![j] = "rejected"]
  /\ UNCHANGED <<boot, hostVars, jobs, resultCh, stats, workVars, stopVars>>

Return(j) ==
  /\ caller[j] = "waiting"
  /\ resultCh[j] # <<>>
  /\ resultCh' = [resultCh EXCEPT ![j] = Tail(@)]
  /\ caller' = [caller EXCEPT ![j] = "returned"]
  /\ UNCHANGED <<boot, hostVars, jobs, stats, workVars, stopVars>>

Stats ==
  /\ boot = "up"
  /\ stats' = [stats EXCEPT !.ActiveWorkers = MaxWorkers, !.QueuedJobs = Len(jobs)]
  /\ UNCHANGED <<boot, hostVars, jobs, caller, resultCh, workVars, stopVars>>

-----------------------------------------------------------------------------
(* The worker goroutines and executeCode.                                  *)

TakeJob(w) ==
  /\ pc[w] = "select"
  /\ jobs # <<>>
  /\ jobs' = Tail(jobs)
  /\ wjob' = [wjob EXCEPT ![w] = Head(jobs)]
  /\ pc' = [pc EXCEPT ![w] = "launch"]
  /\ UNCHANGED <<boot, hostVars, caller, resultCh, stats, target, outcome, warmSem, stopVars>>

\* Mutant: the worker leaves its loop when there is nothing to do.
ExitWorkerIdle(w) ==
  /\ pc[w] = "select"
  /\ shutdown \/ jobs = <<>>
  /\ pc' = [pc EXCEPT ![w] = "exited"]
  /\ UNCHANGED <<boot, hostVars, callVars, wjob, target, outcome, warmSem, stopVars>>

\* Mutant: one value is sent on the channel instead of closing it.
ExitWorkerTakes(w) ==
  /\ pc[w] = "select"
  /\ shutdown
  /\ pc' = [pc EXCEPT ![w] = "exited"]
  /\ shutdown' = FALSE
  /\ UNCHANGED <<boot, hostVars, callVars, wjob, target, outcome, warmSem, stopped>>

ExitWorker(w) ==
  /\ pc[w] = "select"
  /\ shutdown
  /\ pc' = [pc EXCEPT ![w] = "exited"]
  /\ UNCHANGED <<boot, hostVars, callVars, wjob, target, outcome, warmSem, stopVars>>

\* executeCode goes on at `to' with `outcome' as its result.
Goto(w, to, result) ==
  /\ pc' = [pc EXCEPT ![w] = to]
  /\ outcome' = [outcome EXCEPT ![w] = result]
  /\ UNCHANGED <<boot, snapshot, uds, callVars, wjob, stopVars>>

\* The semaphore is acquired and firecracker started, or not.
Launch(w) ==
  /\ pc[w] = "launch"
  /\ warmSem < MaxWorkers
  /\ warmSem' = warmSem + 1
  /\ vm' = [vm EXCEPT ![wjob[w]] = "started"]
  /\ Goto(w, "load", Failure)
  /\ UNCHANGED <<socket, peer, target>>

LaunchFails(w) ==
  /\ pc[w] = "launch"
  /\ warmSem < MaxWorkers
  /\ Goto(w, "send", Failure)
  /\ UNCHANGED <<socket, vm, peer, target, warmSem>>

\* The machine binds its socket and goes on from the snapshot.
Load(w) ==
  /\ pc[w] = "load"
  /\ snapshot # "partial"
  /\ socket[SocketOf(wjob[w])] = "absent"
  /\ socket' = [socket EXCEPT ![SocketOf(wjob[w])] = wjob[w]]
  /\ vm' = [vm EXCEPT ![wjob[w]] = "restored"]
  /\ Goto(w, "find", Failure)
  /\ UNCHANGED <<peer, target, warmSem>>

\* Mutant: the deferred end of the process is set up after the load.
LoadFailsLeaves(w) ==
  /\ pc[w] = "load"
  /\ warmSem' = warmSem - 1
  /\ Goto(w, "send", Failure)
  /\ UNCHANGED <<socket, vm, peer, target>>

\* PUT /snapshot/load fails, before the socket is bound or after.  The socket is
\* not removed: it has not been looked for yet.
LoadFails(w) ==
  /\ pc[w] = "load"
  /\ \/ UNCHANGED socket
     \/ /\ socket[SocketOf(wjob[w])] = "absent"
        /\ socket' = [socket EXCEPT ![SocketOf(wjob[w])] = wjob[w]]
  /\ Goto(w, "kill", Failure)
  /\ UNCHANGED <<vm, peer, target, warmSem>>

\* findVsockUDS: the path of the instance if it exists, else the one of
\* createSnapshot if it exists, else the first the directory is listed with.
Existing == {p \in Paths : socket[p] # "absent"}

\* Mutant: no candidate is preferred.
findVsockUDSAny(j) == Existing

findVsockUDS(j) ==
  IF j \in Existing THEN {j}
  ELSE IF InitPath \in Existing THEN {InitPath}
  ELSE Existing

Find(w) ==
  /\ pc[w] = "find"
  /\ IF findVsockUDS(wjob[w]) = {}
       THEN Goto(w, "kill", Failure) /\ UNCHANGED target
       ELSE /\ \E p \in findVsockUDS(wjob[w]) : target' = [target EXCEPT ![w] = p]
            /\ Goto(w, "dial", Failure)
  /\ UNCHANGED <<socket, vm, peer, warmSem>>

\* Whoever has bound the file accepts the connection.
Dial(w) ==
  /\ pc[w] = "dial"
  /\ Listening(socket[target[w]])
  /\ peer' = [peer EXCEPT ![wjob[w]] = socket[target[w]]]
  /\ Goto(w, "handshake", Failure)
  /\ UNCHANGED <<socket, vm, target, warmSem>>

DialFails(w) ==
  /\ pc[w] = "dial"
  /\ Goto(w, "unlink", Failure)
  /\ UNCHANGED <<socket, vm, peer, target, warmSem>>

\* The response to CONNECT comes, and tells that the guest listens.
HandshakeDone(w) ==
  /\ pc[w] = "handshake"
  /\ Goto(w, "request", Failure)
  /\ UNCHANGED <<socket, vm, peer, target, warmSem>>

\* It comes and tells something else, or the connection is closed.
HandshakeFails(w) ==
  /\ pc[w] = "handshake"
  /\ Goto(w, "unlink", Failure)
  /\ UNCHANGED <<socket, vm, peer, target, warmSem>>

\* The response to the request comes, or an error, the deadline's at the latest.
Respond(w, ok) ==
  /\ pc[w] = "request"
  /\ Goto(w, "unlink", [Success |-> ok])
  /\ UNCHANGED <<socket, vm, peer, target, warmSem>>

\* The deferred calls: os.Remove of what was found, ...
Unlink(w) ==
  /\ pc[w] = "unlink"
  /\ socket' = [socket EXCEPT ![target[w]] = "absent"]
  /\ target' = [target EXCEPT ![w] = NoJob]
  /\ Goto(w, "kill", outcome[w])
  /\ UNCHANGED <<vm, peer, warmSem>>

\* ... then the end of the process; and the worker releases the semaphore.
Kill(w) ==
  /\ pc[w] = "kill"
  /\ vm' = [vm EXCEPT ![wjob[w]] = "dead"]
  /\ warmSem' = warmSem - 1
  /\ Goto(w, "send", outcome[w])
  /\ UNCHANGED <<socket, peer, target>>

\* Mutant: the worker goes on after an error.
SendResultOnSuccess(w) ==
  /\ pc[w] = "send"
  /\ resultCh' = IF outcome[w].Success
                   THEN [resultCh EXCEPT ![wjob[w]] = Append(@, outcome[w])] ELSE resultCh
  /\ pc' = [pc EXCEPT ![w] = "select"]
  /\ wjob' = [wjob EXCEPT ![w] = NoJob]
  /\ outcome' = [outcome EXCEPT ![w] = Failure]
  /\ UNCHANGED <<boot, hostVars, jobs, caller, stats, target, warmSem, stopVars>>

SendResult(w) ==
  /\ pc[w] = "send"
  /\ Len(resultCh[wjob[w]]) < 1
  /\ resultCh' = [resultCh EXCEPT ![wjob[w]] = Append(@, outcome[w])]
  /\ pc' = [pc EXCEPT ![w] = "select"]
  /\ wjob' = [wjob EXCEPT ![w] = NoJob]
  /\ outcome' = [outcome EXCEPT ![w] = Failure]
  /\ UNCHANGED <<boot, hostVars, jobs, caller, stats, target, warmSem, stopVars>>

-----------------------------------------------------------------------------
(* Shutdown, called once by main.                                          *)

CloseShutdown ==
  /\ boot = "up"
  /\ ~shutdown
  /\ shutdown' = TRUE
  /\ UNCHANGED <<boot, hostVars, callVars, workVars, stopped>>

\* Mutant: without wg.Wait.
ShutdownDoesNotWait ==
  /\ shutdown /\ ~stopped
  /\ stopped' = TRUE
  /\ UNCHANGED <<boot, hostVars, callVars, workVars, shutdown>>

\* wg.Wait returns, and the semaphore is closed.
ShutdownReturns ==
  /\ shutdown /\ ~stopped
  /\ \A w \in Workers : pc[w] = "exited"
  /\ stopped' = TRUE
  /\ UNCHANGED <<boot, hostVars, callVars, workVars, shutdown>>

-----------------------------------------------------------------------------
CallerStep(j) == SubmitAccept(j) \/ SubmitReject(j) \/ Return(j)

\* What a worker does by itself or within a deadline ...
OwnStep(w) ==
  \/ TakeJob(w) \/ ExitWorker(w)
  \/ Launch(w) \/ LaunchFails(w)
  \/ Load(w) \/ LoadFails(w)
  \/ Find(w)
  \/ Dial(w) \/ DialFails(w)
  \/ \E ok \in BOOLEAN : Respond(w, ok)
  \/ Unlink(w) \/ Kill(w) \/ SendResult(w)

\* ... and what it waits for without one.
HandshakeStep(w) == HandshakeDone(w) \/ HandshakeFails(w)

Next ==
  \/ Initialize
  \/ \E j \in Jobs : CallerStep(j)
  \/ \E w \in Workers : OwnStep(w) \/ HandshakeStep(w)
  \/ Stats \/ CloseShutdown \/ ShutdownReturns

Spec == Init /\ [][Next]_vars

\* Runnable goroutines are scheduled; the calls of the API, the dial and the
\* exchange after the handshake have deadlines.  The response to CONNECT has
\* none, and need not come.
CallerFairness(j) == WF_vars(Return(j))
WorkerFairness(w) == WF_vars(OwnStep(w))
MainFairness == WF_vars(ShutdownReturns)

Fairness ==
  /\ \A j \in Jobs : CallerFairness(j)
  /\ \A w \in Workers : WorkerFairness(w)
  /\ MainFairness

FairSpec == Spec /\ Fairness

\* Go's select picks at random among the cases that are ready: a worker that
\* finds the channel p.shutdown closed again and again ends up taking that case.
\* No run assumes it; the proof that Shutdown returns however many jobs come does.
SelectFairness(w) == SF_vars(ExitWorker(w))
SelectIsFair == \A w \in Workers : SelectFairness(w)

-----------------------------------------------------------------------------
\* The types, and the capacities of the two kinds of channel.
TypeOK ==
  /\ boot \in {"start", "creating", "failed", "up"}
  /\ snapshot \in SnapshotStates
  /\ uds \in {"instance"} \cup SharedPaths
  /\ socket \in [Paths -> Jobs \cup Strangers]
  /\ vm \in [Jobs -> {"none", "started", "restored", "dead"}]
  /\ peer \in [Jobs -> Jobs \cup {"none", "stranger"}]
  /\ jobs \in Seq(Jobs)
  /\ Len(jobs) <= QueueCapacity
  /\ caller \in [Jobs -> {"idle", "waiting", "returned", "rejected"}]
  /\ resultCh \in [Jobs -> Seq(Results)]
  /\ \A j \in Jobs : Len(resultCh[j]) <= 1
  /\ stats \in [ActiveWorkers : Nat, QueuedJobs : Nat, TotalExecuted : Nat]
  /\ pc \in [Workers -> {"off", "select", "launch", "load", "find", "dial", "handshake",
                         "request", "unlink", "kill", "send", "exited"}]
  /\ wjob \in [Workers -> Jobs \cup {NoJob}]
  /\ target \in [Workers -> Paths \cup {NoJob}]
  /\ outcome \in [Workers -> Results]
  /\ warmSem \in 0..MaxWorkers
  /\ shutdown \in BOOLEAN
  /\ stopped \in BOOLEAN

\* The jobs the workers have taken and not yet sent the result of, and those
\* whose result was sent.
Held == {wjob[w] : w \in {v \in Workers : wjob[v] # NoJob}}
Answered == {j \in Jobs : caller[j] = "returned" \/ resultCh[j] # <<>>}

Alive(j) == vm[j] \in {"started", "restored"}

\* README.md: each execution runs in its own microVM.  The connection of a job
\* reaches the machine that was started for it or none, wherever that machine
\* listens, and although machines follow each other on one path and findVsockUDS
\* takes what it finds.
OwnMachine == \A j \in Jobs : peer[j] \in {"none", j}

\* What a worker has found stays as it is until it removes it: the socket of its
\* own machine, or one of a process that has ended.  So the deferred os.Remove
\* never takes away a socket that another job is about to use.
FoundSocketStays ==
  \A w \in Workers : target[w] # NoJob => socket[target[w]] \in {wjob[w], "stale"}

\* A machine ends before the result of its job is sent, on whatever path
\* executeCode returns, and there are never more of them than the semaphore lets
\* through.
NoMachineOutlivesItsJob ==
  /\ \A j \in Answered : ~Alive(j)
  /\ Cardinality({j \in Jobs : Alive(j)}) <= warmSem

\* The pool implements the interface worker.WorkerPool.
Service == INSTANCE JobService WITH
  Capacity <- QueueCapacity,
  pending <- jobs,
  running <- Held,
  answered <- Answered,
  refused <- {j \in Jobs : caller[j] = "rejected"},
  open <- ~stopped

ImplementsJobService == Service!Spec

\* The worker of j waits for the response to CONNECT.
Handshaking(j) == \E w \in Workers : wjob[w] = j /\ pc[w] = "handshake"

\* executeCode takes the socket to be at a new path after a restore: the file the
\* machine is going to bind is not one that a dead process has left.
NewPathAfterRestore ==
  \A w \in Workers : pc[w] = "load" => socket[SocketOf(wjob[w])] # "stale"

\* Machines share one path, there is a file at it, and nobody is going to remove
\* it: the snapshot of createSnapshot has left it there, or a load that failed
\* after the machine had bound it.
Blocked ==
  /\ boot = "up"
  /\ uds # "instance"
  /\ \A j \in Jobs : socket[SocketOf(j)] # "absent"
  /\ \A w \in Workers : pc[w] \notin {"find", "dial", "handshake", "request", "unlink"}

\* As long as the process runs, no machine is restored again.
BlockedForGood == [](Blocked => []Blocked)

\* Machines share a path, and Initialize is about to leave a file there or finds
\* one: on the first run, and on the next with what that has left.
Occupied == uds # "instance" /\ (snapshot = "none" \/ socket[uds] # "absent")

NothingIsServed ==
  /\ \A j \in Jobs : peer[j] = "none"
  /\ \A w \in Workers : ~outcome[w].Success
  /\ \A j \in Jobs : \A i \in 1..Len(resultCh[j]) : ~resultCh[j][i].Success

\* A goroutine is held up by nothing but what is named here: a worker in its
\* select by an empty queue, one that starts a machine by the semaphore, one that
\* sends a result by a full channel, one that awaits the response to CONNECT ...
WorkerReady(w) ==
  \/ pc[w] = "select" /\ (jobs # <<>> \/ shutdown)
  \/ pc[w] = "launch" /\ warmSem < MaxWorkers
  \/ pc[w] \in {"load", "find", "dial", "request", "unlink", "kill"}
  \/ pc[w] = "send" /\ resultCh[wjob[w]] = <<>>

WorkerMoves(w) ==
  /\ WorkerReady(w) => ENABLED <<OwnStep(w)>>_vars
  /\ pc[w] = "select" /\ shutdown => ENABLED <<ExitWorker(w)>>_vars

\* ... a caller by an empty one ...
CallerMoves(j) ==
  caller[j] = "waiting" /\ resultCh[j] # <<>> => ENABLED <<Return(j)>>_vars

\* ... and Shutdown by the workers that have not left their loops.
MainMoves ==
  shutdown /\ ~stopped /\ (\A w \in Workers : pc[w] = "exited")
    => ENABLED <<ShutdownReturns>>_vars

NothingElseBlocks ==
  /\ \A w \in Workers : WorkerMoves(w)
  /\ \A j \in Jobs : CallerMoves(j)
  /\ MainMoves

\* An accepted job is answered, unless the pool is shut down first or a worker
\* waits for the response to CONNECT for ever: one is enough, as the only one.
AcceptedIsAnsweredOrHangs ==
  \A j \in Jobs :
    caller[j] = "waiting"
      ~> (caller[j] = "returned" \/ shutdown \/ \E k \in Jobs : []Handshaking(k))

\* A job a worker has taken is answered, unless the response to CONNECT never
\* comes: nothing else can hold up a worker.
TakenIsAnsweredOrHangs ==
  \A j \in Jobs : j \in Held ~> (caller[j] = "returned" \/ []Handshaking(j))

\* Shutdown returns, with the same exception.
ShutdownCompletesOrHangs ==
  shutdown ~> (stopped \/ \E j \in Jobs : []Handshaking(j))

=============================================================================
