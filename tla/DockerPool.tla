----------------------------- MODULE DockerPool -----------------------------
(***************************************************************************)
(* The execution backend cmd/main.go runs by default, worker/docker: a     *)
(* buffered channel of jobs, MaxWorkers worker goroutines, one `docker run *)
(* --rm` command per job under a deadline, and one result channel of       *)
(* capacity 1 per job.                                                     *)
(*                                                                         *)
(* A job stands for one call of ExecuteJob.  The Docker daemon is external *)
(* to the program: it creates, starts and (because of --rm) removes the    *)
(* container of a job when the docker command asks it to.  What it was     *)
(* asked for it may still do when the command is gone, and a container     *)
(* that has been started goes on without it.                               *)
(***************************************************************************)
EXTENDS Integers, Sequences, FiniteSets

CONSTANTS
  Jobs,               \* the calls of ExecuteJob
  Supported,          \* those whose language is in languageConfigs
  ConfiguredWorkers,  \* MaxWorkers of the configuration passed to NewPool
  NoJob               \* a worker's job while it has none

ASSUME DockerPoolAssumption ==
  /\ IsFiniteSet(Jobs)
  /\ Supported \subseteq Jobs
  /\ ConfiguredWorkers \in Int
  /\ NoJob \notin Jobs

\* NewPool falls back to three workers.
MaxWorkers == IF ConfiguredWorkers <= 0 THEN 3 ELSE ConfiguredWorkers

\* Mutant: room for one job per worker.
QueueUnscaled == MaxWorkers

QueueCapacity == MaxWorkers * 4
Workers == 1..MaxWorkers

VARIABLES
  jobs,           \* the channel p.jobs, oldest job first
  caller,         \* progress of each call of ExecuteJob
  resultCh,       \* the result channel of each job
  answer,         \* what ExecuteJob returned
  stats,          \* p.stats
  pc,             \* progress of each worker goroutine
  wjob,           \* the job a worker has taken
  outcome,        \* the result executeCode computed, not sent yet
  container,      \* the container of each job, in the Docker daemon
  shutdown,       \* the channel p.shutdown is closed
  stopped         \* Shutdown has returned

callVars == <<caller, resultCh, answer, stats>>
workVars == <<pc, wjob, outcome>>
stopVars == <<shutdown, stopped>>
vars == <<jobs, caller, resultCh, answer, stats, pc, wjob, outcome, container,
          shutdown, stopped>>

\* A worker.Result; Error tells whether the error is non-nil.
Results == [Success : BOOLEAN, Error : BOOLEAN]
ZeroResult == [Success |-> FALSE, Error |-> FALSE]
Failure == [Success |-> FALSE, Error |-> TRUE]

\* What executeCode returns once the command has ended: its Error is built
\* with fmt.Errorf whether the command failed or not.
RunResult(ok) == [Success |-> ok, Error |-> TRUE]

\* The daemon is asked to create a container and, when it has, to start it.  It
\* removes the container when its main process has ended, with status 0
\* (succeeded) or another one (failed).
Unstarted == {"none", "asked", "created"}
Removed == {"succeeded", "failed"}
ContainerStates == Unstarted \cup {"starting", "running"} \cup Removed

\* The jobs the workers have taken and not yet sent the result of.
Held == {wjob[w] : w \in {v \in Workers : pc[v] \in {"running", "sending"}}}

\* The jobs whose result was sent on their channel.
Answered == {j \in Jobs : caller[j] = "returned" \/ resultCh[j] # <<>>}

-----------------------------------------------------------------------------
Init ==
  /\ jobs = <<>>
  /\ caller = [j \in Jobs |-> "idle"]
  /\ resultCh = [j \in Jobs |-> <<>>]
  /\ answer = [j \in Jobs |-> ZeroResult]
  /\ stats = [QueuedJobs |-> 0, TotalExecuted |-> 0]
  /\ pc = [w \in Workers |-> "select"]
  /\ wjob = [w \in Workers |-> NoJob]
  /\ outcome = [w \in Workers |-> ZeroResult]
  /\ container = [j \in Jobs |-> "none"]
  /\ shutdown = FALSE
  /\ stopped = FALSE

-----------------------------------------------------------------------------
(* ExecuteJob, by the goroutine of a caller.                               *)

\* The select of ExecuteJob sends the job when the channel has room ...
SubmitAccept(j) ==
  /\ caller[j] = "idle"
  /\ Len(jobs) < QueueCapacity
  /\ jobs' = Append(jobs, j)
  /\ caller' = [caller EXCEPT ![j] = "sent"]
  /\ UNCHANGED <<resultCh, answer, stats, workVars, container, stopVars>>

\* Mutant: the job is counted before it is known to be accepted.
SubmitRejectCounts(j) ==
  /\ caller[j] = "idle" /\ Len(jobs) >= QueueCapacity
  /\ stats' = [stats EXCEPT !.TotalExecuted = @ + 1]
  /\ caller' = [caller EXCEPT ![j] = "rejected"]
  /\ answer' = [answer EXCEPT ![j] = Failure]
  /\ UNCHANGED <<jobs, resultCh, workVars, container, stopVars>>

\* ... and takes its default branch when it has none.
SubmitReject(j) ==
  /\ caller[j] = "idle"
  /\ Len(jobs) >= QueueCapacity
  /\ caller' = [caller EXCEPT ![j] = "rejected"]
  /\ answer' = [answer EXCEPT ![j] = Failure]
  /\ UNCHANGED <<jobs, resultCh, stats, workVars, container, stopVars>>

\* The atomic increment comes after the send: the job may be over by then.
CountJob(j) ==
  /\ caller[j] = "sent"
  /\ stats' = [stats EXCEPT !.TotalExecuted = @ + 1]
  /\ caller' = [caller EXCEPT ![j] = "waiting"]
  /\ UNCHANGED <<jobs, resultCh, answer, workVars, container, stopVars>>

Return(j) ==
  /\ caller[j] = "waiting"
  /\ resultCh[j] # <<>>
  /\ answer' = [answer EXCEPT ![j] = Head(resultCh[j])]
  /\ resultCh' = [resultCh EXCEPT ![j] = Tail(@)]
  /\ caller' = [caller EXCEPT ![j] = "returned"]
  /\ UNCHANGED <<jobs, stats, workVars, container, stopVars>>

\* Stats stores the length of the queue in the structure it returns.
Stats ==
  /\ stats' = [stats EXCEPT !.QueuedJobs = Len(jobs)]
  /\ UNCHANGED <<jobs, caller, resultCh, answer, workVars, container, stopVars>>

-----------------------------------------------------------------------------
(* The worker goroutines.                                                  *)

\* A language without a configuration is answered without a container.
TakeJob(w) ==
  /\ pc[w] = "select"
  /\ jobs # <<>>
  /\ jobs' = Tail(jobs)
  /\ wjob' = [wjob EXCEPT ![w] = Head(jobs)]
  /\ IF Head(jobs) \in Supported
       THEN /\ pc' = [pc EXCEPT ![w] = "running"]
            /\ UNCHANGED outcome
       ELSE /\ pc' = [pc EXCEPT ![w] = "sending"]
            /\ outcome' = [outcome EXCEPT ![w] = Failure]
  /\ UNCHANGED <<callVars, container, stopVars>>

\* The other case of the worker's select.
ExitWorker(w) ==
  /\ pc[w] = "select"
  /\ shutdown
  /\ pc' = [pc EXCEPT ![w] = "exited"]
  /\ UNCHANGED <<jobs, callVars, wjob, outcome, container, stopVars>>

\* cmd.Run returns: the worker is about to send the result.
EndRun(w, ok) ==
  /\ pc[w] = "running"
  /\ outcome' = [outcome EXCEPT ![w] = RunResult(ok)]
  /\ pc' = [pc EXCEPT ![w] = "sending"]
  /\ UNCHANGED <<jobs, callVars, wjob, container, stopVars>>

\* The command ends with the status of the container's main process.
CommandDone(w) ==
  /\ pc[w] = "running"
  /\ container[wjob[w]] \in Removed
  /\ EndRun(w, container[wjob[w]] = "succeeded")

\* The command fails before the container runs (daemon, image).
CommandFails(w) ==
  /\ pc[w] = "running"
  /\ container[wjob[w]] \in Unstarted \cup {"starting"}
  /\ EndRun(w, FALSE)

\* Mutants: the error of cmd.Run is ignored; the command has no deadline.
TimeoutIgnored(w) == EndRun(w, TRUE)
NoTimeout(w) == CommandFails(w)

\* The deadline of the context kills the docker command.  Whatever it has asked
\* of the daemon so far stays as it is.
Timeout(w) == EndRun(w, FALSE)

\* Mutant: an unbuffered channel, and a send that does not wait for the caller.
SendResultDrops(w) ==
  /\ pc[w] = "sending"
  /\ resultCh' = IF caller[wjob[w]] = "waiting"
                   THEN [resultCh EXCEPT ![wjob[w]] = <<outcome[w]>>] ELSE resultCh
  /\ pc' = [pc EXCEPT ![w] = "select"]
  /\ wjob' = [wjob EXCEPT ![w] = NoJob]
  /\ outcome' = [outcome EXCEPT ![w] = ZeroResult]
  /\ UNCHANGED <<jobs, caller, answer, stats, container, stopVars>>

\* The send blocks while the channel, of capacity 1, is full.
SendResult(w) ==
  /\ pc[w] = "sending"
  /\ Len(resultCh[wjob[w]]) < 1
  /\ resultCh' = [resultCh EXCEPT ![wjob[w]] = Append(@, outcome[w])]
  /\ pc' = [pc EXCEPT ![w] = "select"]
  /\ wjob' = [wjob EXCEPT ![w] = NoJob]
  /\ outcome' = [outcome EXCEPT ![w] = ZeroResult]
  /\ UNCHANGED <<jobs, caller, answer, stats, container, stopVars>>

-----------------------------------------------------------------------------
(* The docker command of a job and the Docker daemon (external).           *)

ContainerStep(j, from, to) ==
  /\ container[j] = from
  /\ container' = [container EXCEPT ![j] = to]
  /\ UNCHANGED <<jobs, callVars, workVars, stopVars>>

\* The command sends a request, as long as it has not been killed.
Ask(j, from, to) ==
  /\ \E w \in Workers : pc[w] = "running" /\ wjob[w] = j
  /\ ContainerStep(j, from, to)

AskCreate(j) == Ask(j, "none", "asked")
AskStart(j) == Ask(j, "created", "starting")

\* The daemon serves it, whether the command is still there or not.
DockerCreate(j) == ContainerStep(j, "asked", "created")
DockerStart(j) == ContainerStep(j, "starting", "running")

\* The main process ends, whether the command is still attached or not.
ContainerExit(j) ==
  /\ container[j] = "running"
  /\ \E to \in Removed : container' = [container EXCEPT ![j] = to]
  /\ UNCHANGED <<jobs, callVars, workVars, stopVars>>

-----------------------------------------------------------------------------
(* Shutdown, called once by main.                                          *)

CloseShutdown ==
  /\ ~shutdown
  /\ shutdown' = TRUE
  /\ UNCHANGED <<jobs, callVars, workVars, container, stopped>>

\* Mutant: Shutdown does not wait for the workers.
ShutdownDoesNotWait ==
  /\ shutdown /\ ~stopped
  /\ stopped' = TRUE
  /\ UNCHANGED <<jobs, callVars, workVars, container, shutdown>>

\* wg.Wait returns.
ShutdownReturns ==
  /\ shutdown /\ ~stopped
  /\ \A w \in Workers : pc[w] = "exited"
  /\ stopped' = TRUE
  /\ UNCHANGED <<jobs, callVars, workVars, container, shutdown>>

-----------------------------------------------------------------------------
CallerStep(j) == SubmitAccept(j) \/ SubmitReject(j) \/ CountJob(j) \/ Return(j)

WorkerStep(w) ==
  \/ TakeJob(w) \/ ExitWorker(w)
  \/ CommandDone(w) \/ CommandFails(w) \/ Timeout(w)
  \/ SendResult(w)

DaemonStep(j) ==
  AskCreate(j) \/ DockerCreate(j) \/ AskStart(j) \/ DockerStart(j) \/ ContainerExit(j)

Next ==
  \/ \E j \in Jobs : CallerStep(j) \/ DaemonStep(j)
  \/ \E w \in Workers : WorkerStep(w)
  \/ Stats \/ CloseShutdown \/ ShutdownReturns

Spec == Init /\ [][Next]_vars

\* Runnable goroutines are scheduled; a deadline that has been set expires.
\* Nobody has to call ExecuteJob, Stats or Shutdown, and neither the daemon nor
\* a submitted program has to make progress.
CallerFairness(j) == WF_vars(CountJob(j)) /\ WF_vars(Return(j))
WorkerFairness(w) == WF_vars(WorkerStep(w))
MainFairness == WF_vars(ShutdownReturns)

Fairness ==
  /\ \A j \in Jobs : CallerFairness(j)
  /\ \A w \in Workers : WorkerFairness(w)
  /\ MainFairness

FairSpec == Spec /\ Fairness

\* Go's select picks at random among the cases that are ready: a worker that
\* finds the channel p.shutdown closed again and again ends up taking that case.
\* No run assumes it; the proof that Shutdown returns however many jobs come does.
SelectFairness(w) == SF_vars(ExitWorker(w))
SelectIsFair == \A w \in Workers : SelectFairness(w)

-----------------------------------------------------------------------------
\* The types, and the capacities of the two kinds of channel.
TypeOK ==
  /\ jobs \in Seq(Jobs)
  /\ Len(jobs) <= QueueCapacity
  /\ caller \in [Jobs -> {"idle", "sent", "waiting", "returned", "rejected"}]
  /\ resultCh \in [Jobs -> Seq(Results)]
  /\ \A j \in Jobs : Len(resultCh[j]) <= 1
  /\ answer \in [Jobs -> Results]
  /\ stats \in [QueuedJobs : Nat, TotalExecuted : Nat]
  /\ pc \in [Workers -> {"select", "running", "sending", "exited"}]
  /\ wjob \in [Workers -> Jobs \cup {NoJob}]
  /\ outcome \in [Workers -> Results]
  /\ container \in [Jobs -> ContainerStates]
  /\ shutdown \in BOOLEAN
  /\ stopped \in BOOLEAN

(* Properties.  The place of a job that was accepted: in the queue, with   *)
(* one worker, or in its result channel.                                   *)

Queued(j) == \E i \in 1..Len(jobs) : jobs[i] = j
HeldBy(j) == {w \in Workers : wjob[w] = j}
Delivered(j) == resultCh[j] # <<>>

Waiting(j) == caller[j] \in {"sent", "waiting"}

\* A job ExecuteJob waits for is in one place, any other job in none.
OnePlace(j) ==
  /\ Waiting(j) <=> (Queued(j) \/ HeldBy(j) # {} \/ Delivered(j))
  /\ ~(Queued(j) /\ HeldBy(j) # {})
  /\ ~(Queued(j) /\ Delivered(j))
  /\ ~(HeldBy(j) # {} /\ Delivered(j))

QueueDistinct == \A i, k \in 1..Len(jobs) : jobs[i] = jobs[k] => i = k

HoldersDistinct == \A w, v \in Workers : wjob[w] = wjob[v] /\ wjob[w] # NoJob => w = v

BusyHolds == \A w \in Workers : wjob[w] # NoJob <=> pc[w] \in {"running", "sending"}

\* Every job whose ExecuteJob waits for a result is in exactly one place, once;
\* any other job is nowhere.  So no job is lost or executed twice, and a worker
\* that sends a result never finds the channel full.
JobConservation ==
  /\ \A j \in Jobs : OnePlace(j)
  /\ QueueDistinct
  /\ HoldersDistinct
  /\ BusyHolds

\* A result with Success set was computed for j: it is about to be sent, on the
\* channel, or returned.
SuccessReported(j) ==
  \/ \E w \in HeldBy(j) : outcome[w].Success
  \/ \E i \in 1..Len(resultCh[j]) : resultCh[j][i].Success
  \/ answer[j].Success

\* Output is reported as a success only of a container that has ended with
\* status 0 (and is removed), never of one left behind by a deadline; and a
\* container exists only for a job with a configured language that a worker has
\* taken.
ContainerOfItsJob ==
  \A j \in Jobs :
    /\ SuccessReported(j) => container[j] = "succeeded"
    /\ container[j] # "none" =>
         /\ j \in Supported
         /\ ~Queued(j)
         /\ caller[j] \in {"sent", "waiting", "returned"}

\* TotalExecuted counts the accepted jobs, but for those whose caller is still
\* between the send and the increment; refused jobs are never counted.
CountedOnce ==
  stats.TotalExecuted = Cardinality({j \in Jobs : caller[j] \in {"waiting", "returned"}})

\* Once Shutdown has returned no program is started any more, but for those the
\* daemon had been asked to start before a deadline killed their command.  A
\* container that is created late is never started: nobody is left to ask for it.
NothingStartsAfterShutdown ==
  [][stopped => \A j \in Jobs : container[j] \in Unstarted => container'[j] \in Unstarted]_vars

\* The pool implements the interface worker.WorkerPool.
Service == INSTANCE JobService WITH
  Capacity <- QueueCapacity,
  pending <- jobs,
  running <- Held,
  answered <- Answered,
  refused <- {j \in Jobs : caller[j] = "rejected"},
  open <- ~stopped

ImplementsJobService == Service!Spec

\* A goroutine is held up by nothing but what is named here: a worker in its
\* select by an empty queue, one that sends a result by a full channel ...
WorkerReady(w) ==
  \/ pc[w] = "select" /\ (jobs # <<>> \/ shutdown)
  \/ pc[w] = "running"
  \/ pc[w] = "sending" /\ resultCh[wjob[w]] = <<>>

WorkerMoves(w) ==
  /\ WorkerReady(w) => ENABLED <<WorkerStep(w)>>_vars
  /\ pc[w] = "select" /\ shutdown => ENABLED <<ExitWorker(w)>>_vars

\* ... a caller by an empty one ...
CallerMoves(j) ==
  /\ caller[j] = "sent" => ENABLED <<CountJob(j)>>_vars
  /\ caller[j] = "waiting" /\ Delivered(j) => ENABLED <<Return(j)>>_vars

\* ... and Shutdown by the workers that have not left their loops.
MainMoves ==
  shutdown /\ ~stopped /\ (\A w \in Workers : pc[w] = "exited")
    => ENABLED <<ShutdownReturns>>_vars

NothingElseBlocks ==
  /\ \A w \in Workers : WorkerMoves(w)
  /\ \A j \in Jobs : CallerMoves(j)
  /\ MainMoves

\* An accepted job is answered, unless the pool is shut down first.
AcceptedIsAnswered ==
  \A j \in Jobs : caller[j] = "sent" ~> (caller[j] = "returned" \/ shutdown)

\* A job a worker has taken is answered even if the pool is shut down: with the
\* deadline, whatever the daemon and the submitted program do.
TakenIsAnswered ==
  \A j \in Jobs : j \in Held ~> caller[j] = "returned"

\* Shutdown returns: every worker ends its job and leaves its loop.
ShutdownCompletes == shutdown ~> stopped

-----------------------------------------------------------------------------
(* What the documentation says, and the code does not do.                  *)

\* README.md: ExecuteJob returns (Result, error).  A call that has succeeded
\* does not return an error.
SuccessIsNotAnError ==
  \A j \in Jobs : answer[j].Success => ~answer[j].Error

\* README.md: each request spawns and destroys a container.  When ExecuteJob
\* returns, the container of the request does not exist any more.
RequestDestroysItsContainer ==
  \A j \in Jobs :
    caller[j] = "returned" => container[j] \notin {"created", "starting", "running"}

=============================================================================
