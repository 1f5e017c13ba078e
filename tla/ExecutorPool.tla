---------------------------- MODULE ExecutorPool ----------------------------
(***************************************************************************)
(* executor/worker_pool.go composed with ContainerManager: a fixed set of  *)
(* worker goroutines execute the queued jobs with `docker exec` in the     *)
(* containers of the pool.                                                 *)
(*                                                                         *)
(* A job stands for one call of ExecuteJob.  While the command of a job    *)
(* runs, a watcher goroutine polls the resources of its container; when it *)
(* finds them exceeded it starts `go RemoveContainer(id)` and cancels the  *)
(* context of the job.  The Remover of ContainerManager a watcher starts   *)
(* is therefore named by the job.  The processes inside the containers     *)
(* belong to the daemon (external): killing the docker command does not    *)
(* end the process it has started, or has asked the daemon to start.       *)
(*                                                                         *)
(* The commands of executor/config.go write the code of the job to a file  *)
(* of the container, build /app/temp/exe from it (go, cpp), and run that:  *)
(* files with fixed names, which are here one program per container.  The  *)
(* jobs are taken to be such that their commands use the same file.        *)
(***************************************************************************)
EXTENDS ContainerManager, Sequences

CONSTANTS
  Supported,    \* the jobs (Removers) whose language is in languageConfigs
  MaxJobCount,  \* capacity of the queue
  MaxRetries,   \* attempts of GetAvailableContainer: 10
  NoJob

Jobs == Removers

ASSUME ExecutorPoolAssumption ==
  /\ IsFiniteSet(Jobs)
  /\ Supported \subseteq Jobs
  /\ MaxJobCount \in Nat
  /\ MaxRetries \in Nat \ {0}
  /\ NoJob \notin Jobs
  /\ Monitor \notin Workers \cup {NoJob}
  /\ IsFiniteSet(Workers) /\ Cardinality(Workers) = MaxWorkers

VARIABLES
  jobs,      \* the channel p.jobs, oldest job first
  caller,    \* progress of each call of ExecuteJob
  result,    \* what was sent on the result channel of each job
  pc,        \* progress of each worker
  wjob,      \* the job a worker has taken
  tries,     \* attempts of GetAvailableContainer so far
  outcome,   \* what the worker is going to send
  at,        \* the container the command of a job was started for
  proc,      \* the process of each job in that container
  prog,      \* the job whose command was the last to build the program in a container
  ran,       \* the job whose program the process of each job has run
  orphans,   \* history: the jobs whose command ended before their process
  watch,     \* the watcher goroutine of each job
  down,      \* progress of Shutdown
  panicked   \* a goroutine has panicked

callVars == <<caller, result>>
workVars == <<pc, wjob, tries, outcome>>
procVars == <<at, proc, prog, ran>>
execVars == <<procVars, orphans, watch>>
poolVars == <<jobs, callVars, workVars, execVars, down, panicked>>
vars == <<cmVars, poolVars>>

Alive == ~fatal /\ ~panicked

\* The jobs the workers have taken and not yet answered.
Held == {wjob[w] : w \in {v \in Workers : pc[v] \notin {"select", "exited"}}}

\* The processes that are running in container id.
Processes(id) ==
  {j \in Jobs : /\ at[j] = id /\ docker[id] = "running"
                /\ proc[j] \in {"building", "built", "running"}}

-----------------------------------------------------------------------------
Init ==
  /\ CMInit
  /\ jobs = <<>>
  /\ caller = [j \in Jobs |-> "idle"]
  /\ result = [j \in Jobs |-> "none"]
  /\ pc = [w \in Workers |-> "select"]
  /\ wjob = [w \in Workers |-> NoJob]
  /\ tries = [w \in Workers |-> 0]
  /\ outcome = [w \in Workers |-> "none"]
  /\ at = [j \in Jobs |-> NoId]
  /\ proc = [j \in Jobs |-> "none"]
  /\ prog = [id \in Ids |-> NoJob]
  /\ ran = [j \in Jobs |-> NoJob]
  /\ orphans = {}
  /\ watch = [j \in Jobs |-> "none"]
  /\ down = "up"
  /\ panicked = FALSE

-----------------------------------------------------------------------------
(* ExecuteJob.                                                             *)

\* Shutdown closes the channel in its second step.
Closed == down \notin {"up", "signalled"}

SubmitAccept(j) ==
  /\ Ready /\ Alive /\ ~Closed
  /\ caller[j] = "idle"
  /\ Len(jobs) < MaxJobCount
  /\ jobs' = Append(jobs, j)
  /\ caller' = [caller EXCEPT ![j] = "waiting"]
  /\ UNCHANGED <<cmVars, result, workVars, execVars, down, panicked>>

SubmitReject(j) ==
  /\ Ready /\ Alive /\ ~Closed
  /\ caller[j] = "idle"
  /\ Len(jobs) >= MaxJobCount
  /\ caller' = [caller EXCEPT ![j] = "rejected"]
  /\ UNCHANGED <<cmVars, jobs, result, workVars, execVars, down, panicked>>

\* A send on a closed channel panics, in a select with a default branch too.
SubmitClosed(j) ==
  /\ Alive /\ Closed
  /\ caller[j] = "idle"
  /\ panicked' = TRUE
  /\ UNCHANGED <<cmVars, jobs, callVars, workVars, execVars, down>>

Return(j) ==
  /\ Alive
  /\ caller[j] = "waiting" /\ result[j] # "none"
  /\ caller' = [caller EXCEPT ![j] = "returned"]
  /\ UNCHANGED <<cmVars, jobs, result, workVars, execVars, down, panicked>>

-----------------------------------------------------------------------------
(* The workers.                                                            *)

\* Mutant: the youngest job is taken.
TakeJobLast(w) ==
  /\ Ready /\ Alive
  /\ pc[w] = "select" /\ jobs # <<>>
  /\ jobs' = SubSeq(jobs, 1, Len(jobs) - 1)
  /\ wjob' = [wjob EXCEPT ![w] = jobs[Len(jobs)]]
  /\ pc' = [pc EXCEPT ![w] = "acquire"]
  /\ UNCHANGED <<cmVars, callVars, tries, outcome, execVars, down, panicked>>

TakeJob(w) ==
  /\ Ready /\ Alive
  /\ pc[w] = "select" /\ jobs # <<>>
  /\ jobs' = Tail(jobs)
  /\ wjob' = [wjob EXCEPT ![w] = Head(jobs)]
  /\ pc' = [pc EXCEPT ![w] = "acquire"]
  /\ UNCHANGED <<cmVars, callVars, tries, outcome, execVars, down, panicked>>

\* The goroutines wg counts: the workers, and the monitor, which has no way out
\* of its loop.  wg.Wait returns with the Done of the last one.
Counted == {w \in Workers : pc[w] # "exited"} \cup {Monitor}
AfterDone(w, state) ==
  IF state = "waiting" /\ Counted \ {w} = {} THEN "done" ELSE state

\* shutdownChan is closed, or the channel of the jobs is, and empty.
ExitWorker(w) ==
  /\ Alive
  /\ pc[w] = "select" /\ down # "up"
  /\ pc' = [pc EXCEPT ![w] = "exited"]
  /\ down' = AfterDone(w, down)
  /\ UNCHANGED <<cmVars, jobs, callVars, wjob, tries, outcome, execVars, panicked>>

Acquire(w, id) ==
  /\ Alive /\ pc[w] = "acquire"
  /\ GetAvailableContainer(w, id)
  /\ pc' = [pc EXCEPT ![w] = "start"]
  /\ tries' = [tries EXCEPT ![w] = 0]
  /\ UNCHANGED <<jobs, callVars, wjob, outcome, execVars, down, panicked>>

\* Mutant: the attempts are not counted.
AcquireFailsForever(w) ==
  /\ Alive /\ ~mu
  /\ pc[w] = "acquire" /\ Idle = {}
  /\ tries' = [tries EXCEPT ![w] = IF @ + 1 = MaxRetries THEN 0 ELSE @ + 1]
  /\ UNCHANGED <<cmVars, jobs, callVars, wjob, pc, outcome, execVars, down, panicked>>

\* No container is idle; after the last attempt the job fails.
AcquireFails(w) ==
  /\ Alive /\ ~mu
  /\ pc[w] = "acquire" /\ Idle = {}
  /\ IF tries[w] + 1 = MaxRetries
       THEN /\ tries' = [tries EXCEPT ![w] = 0]
            /\ outcome' = [outcome EXCEPT ![w] = "failed"]
            /\ pc' = [pc EXCEPT ![w] = "send"]
       ELSE /\ tries' = [tries EXCEPT ![w] = @ + 1]
            /\ UNCHANGED <<outcome, pc>>
  /\ UNCHANGED <<cmVars, jobs, callVars, wjob, execVars, down, panicked>>

\* SetContainerState(id, StateBusy), then executeCode: without a configuration
\* for the language it fails, else it starts a watcher and the docker command.
StartExec(w) ==
  /\ Alive /\ ~mu
  /\ pc[w] = "start"
  /\ containers' = Updated(lease[w], "busy")
  /\ IF wjob[w] \in Supported
       THEN /\ at' = [at EXCEPT ![wjob[w]] = lease[w]]
            /\ watch' = [watch EXCEPT ![wjob[w]] = "on"]
            /\ pc' = [pc EXCEPT ![w] = "running"]
            /\ UNCHANGED outcome
       ELSE /\ outcome' = [outcome EXCEPT ![w] = "failed"]
            /\ pc' = [pc EXCEPT ![w] = "release"]
            /\ UNCHANGED <<at, watch>>
  /\ UNCHANGED <<docker, monVars, clientVars, jobs, callVars, wjob, tries, proc, prog, ran, orphans,
                 down, panicked>>

\* cmd.Run returns, and the contexts are cancelled.
EndExec(w, res) ==
  /\ Alive /\ pc[w] = "running"
  /\ outcome' = [outcome EXCEPT ![w] = res]
  /\ pc' = [pc EXCEPT ![w] = "release"]
  /\ orphans' = IF proc[wjob[w]] \in {"ok", "failed"} THEN orphans ELSE orphans \cup {wjob[w]}
  /\ UNCHANGED <<cmVars, jobs, callVars, wjob, tries, procVars, watch, down, panicked>>

\* The command ends with the status of the process.
ExecDone(w) ==
  /\ pc[w] = "running"
  /\ proc[wjob[w]] \in {"ok", "failed"}
  /\ EndExec(w, proc[wjob[w]])

\* The deadline, the watcher or the loss of the container ends the command; a
\* process in the container stays as it is.
ExecFails(w) == EndExec(w, "failed")

\* SetContainerState(id, StateIdle).
Release(w) ==
  /\ Alive /\ pc[w] = "release"
  /\ ReleaseContainer(w)
  /\ pc' = [pc EXCEPT ![w] = "send"]
  /\ UNCHANGED <<jobs, callVars, wjob, tries, outcome, execVars, down, panicked>>

\* Mutant: a failure is not sent.
SendResultDrops(w) ==
  /\ Alive /\ pc[w] = "send"
  /\ result[wjob[w]] = "none"
  /\ result' = IF outcome[w] = "ok" THEN [result EXCEPT ![wjob[w]] = "ok"] ELSE result
  /\ outcome' = [outcome EXCEPT ![w] = "none"]
  /\ wjob' = [wjob EXCEPT ![w] = NoJob]
  /\ pc' = [pc EXCEPT ![w] = "select"]
  /\ UNCHANGED <<cmVars, jobs, caller, tries, execVars, down, panicked>>

\* The send blocks while the channel, of capacity 1, is full.
SendResult(w) ==
  /\ Alive /\ pc[w] = "send"
  /\ result[wjob[w]] = "none"
  /\ result' = [result EXCEPT ![wjob[w]] = outcome[w]]
  /\ outcome' = [outcome EXCEPT ![w] = "none"]
  /\ wjob' = [wjob EXCEPT ![w] = NoJob]
  /\ pc' = [pc EXCEPT ![w] = "select"]
  /\ UNCHANGED <<cmVars, jobs, caller, tries, execVars, down, panicked>>

-----------------------------------------------------------------------------
(* The watcher of a job.                                                   *)

\* The command of j has not returned.
Executing(j) == \E w \in Workers : pc[w] = "running" /\ wjob[w] = j

\* A check that was begun, or chosen by the select, before the command returned
\* may come to its end long after.
WatchRemoves(j) ==
  /\ Alive
  /\ watch[j] = "on"
  /\ docker[at[j]] = "running"
  /\ SpawnRemoval(j, at[j])
  /\ watch' = [watch EXCEPT ![j] = "removed"]
  /\ UNCHANGED <<daemonVars, monVars, lease, mu, cmClosed, fatal, jobs, callVars, workVars,
                 procVars, orphans, down, panicked>>

WatchEnds(j) ==
  /\ Alive
  /\ watch[j] = "on" /\ ~Executing(j)
  /\ watch' = [watch EXCEPT ![j] = "ended"]
  /\ UNCHANGED <<cmVars, jobs, callVars, workVars, procVars, orphans, down, panicked>>

-----------------------------------------------------------------------------
(* The process of a job in its container (external).                       *)

ProcMoves(j, from, to) ==
  /\ Alive
  /\ at[j] # NoId /\ docker[at[j]] = "running"
  /\ proc[j] \in from
  /\ \E state \in to : proc' = [proc EXCEPT ![j] = state]
  /\ UNCHANGED <<cmVars, jobs, callVars, workVars, at, orphans, watch, down, panicked>>

\* The daemon serves the request of the docker command, maybe after that was killed.
ProcStarts(j) == ProcMoves(j, {"none"}, {"building"}) /\ UNCHANGED <<prog, ran>>

\* The program is written, over that of an earlier job or of one left behind ...
ProcBuilds(j) ==
  /\ ProcMoves(j, {"building"}, {"built"})
  /\ prog' = [prog EXCEPT ![at[j]] = j]
  /\ UNCHANGED ran

\* ... and what is there a moment later is run.
ProcRuns(j) ==
  /\ ProcMoves(j, {"built"}, {"running"})
  /\ ran' = [ran EXCEPT ![j] = prog[at[j]]]
  /\ UNCHANGED prog

ProcEnds(j) ==
  /\ \/ ProcMoves(j, {"running"}, {"ok", "failed"})
     \/ ProcMoves(j, {"building"}, {"failed"})
  /\ UNCHANGED <<prog, ran>>

ProcessStep(j) == ProcStarts(j) \/ ProcBuilds(j) \/ ProcRuns(j) \/ ProcEnds(j)

-----------------------------------------------------------------------------
(* Shutdown.                                                               *)

ShutdownTo(from, to) ==
  /\ Alive
  /\ down = from
  /\ down' = to
  /\ UNCHANGED <<jobs, callVars, workVars, execVars, panicked>>

CloseShutdownChan == Ready /\ ShutdownTo("up", "signalled") /\ UNCHANGED cmVars

CloseJobs == ShutdownTo("signalled", "closed") /\ UNCHANGED cmVars

LockContainers == ShutdownTo("closed", "clearing") /\ ShutdownContainers

ClearContainers == ShutdownTo("clearing", AfterDone(NoJob, "waiting")) /\ ShutdownRegistry

-----------------------------------------------------------------------------
\* Steps of ContainerManager that leave the pool alone.
ManagerStep ==
  /\ ~panicked
  /\ \/ MonitorStep
     \/ \E r \in Removers \cup {Monitor} : RemoverStep(r)
     \/ MapRace(\E w \in Workers : pc[w] \in {"acquire", "start", "release"})
  /\ UNCHANGED poolVars

DaemonStep ==
  /\ ~panicked
  /\ \E id \in Ids : ContainerExits(id)
  /\ UNCHANGED poolVars

CallerStep(j) == SubmitAccept(j) \/ SubmitReject(j) \/ SubmitClosed(j) \/ Return(j)

WorkerStep(w) ==
  \/ TakeJob(w) \/ ExitWorker(w)
  \/ \E id \in Ids : Acquire(w, id)
  \/ AcquireFails(w) \/ StartExec(w)
  \/ ExecDone(w) \/ ExecFails(w)
  \/ Release(w) \/ SendResult(w)

ShutdownStep ==
  CloseShutdownChan \/ CloseJobs \/ LockContainers \/ ClearContainers

Next ==
  \/ \E j \in Jobs :
       CallerStep(j) \/ WatchRemoves(j) \/ WatchEnds(j) \/ ProcessStep(j)
  \/ \E w \in Workers : WorkerStep(w)
  \/ ShutdownStep
  \/ ManagerStep
  \/ DaemonStep

Spec == Init /\ [][Next]_vars

\* Runnable goroutines are scheduled, a deadline that is set expires, and a
\* Shutdown that has begun goes on: up to the removal of the containers, which
\* waits for the daemon without a deadline, with cm.mu held.
WorkerFairness(w) == WF_vars(WorkerStep(w))
ReturnFairness(j) == WF_vars(Return(j))

Fairness ==
  /\ \A w \in Workers : WorkerFairness(w)
  /\ \A j \in Jobs : ReturnFairness(j)
  /\ WF_vars(CloseJobs \/ LockContainers)

FairSpec == Spec /\ Fairness

\* What nothing in the code gives: a daemon that answers all calls.
AnswersFairness ==
  /\ WF_vars(ClearContainers)
  /\ WF_vars(MonitorStep /\ ManagerStep)
  /\ \A r \in Removers \cup {Monitor} : WF_vars(RemoverStep(r) /\ ManagerStep)

DaemonSpec == FairSpec /\ AnswersFairness

-----------------------------------------------------------------------------
TypeOK ==
  /\ CMTypeOK
  /\ jobs \in Seq(Jobs)
  /\ Len(jobs) <= MaxJobCount
  /\ caller \in [Jobs -> {"idle", "waiting", "returned", "rejected"}]
  /\ result \in [Jobs -> {"none", "ok", "failed"}]
  /\ pc \in [Workers -> {"select", "acquire", "start", "running", "release", "send", "exited"}]
  /\ wjob \in [Workers -> Jobs \cup {NoJob}]
  /\ tries \in [Workers -> 0..(MaxRetries - 1)]
  /\ outcome \in [Workers -> {"none", "ok", "failed"}]
  /\ at \in [Jobs -> Ids \cup {NoId}]
  /\ proc \in [Jobs -> {"none", "building", "built", "running", "ok", "failed"}]
  /\ prog \in [Ids -> Jobs \cup {NoJob}]
  /\ ran \in [Jobs -> Jobs \cup {NoJob}]
  /\ orphans \in SUBSET Jobs
  /\ watch \in [Jobs -> {"none", "on", "removed", "ended"}]
  /\ down \in {"up", "signalled", "closed", "clearing", "waiting", "done"}
  /\ panicked \in BOOLEAN

HeldBy(j) == {w \in Workers : wjob[w] = j}

\* A job ExecuteJob waits for is in one of three places, any other job in none.
OnePlace(j) ==
  LET queued == \E i \in 1..Len(jobs) : jobs[i] = j
      held == HeldBy(j) # {}
      sent == caller[j] = "waiting" /\ result[j] # "none"
  IN  /\ caller[j] = "waiting" <=> (queued \/ held \/ sent)
      /\ ~(queued /\ held) /\ ~(queued /\ sent) /\ ~(held /\ sent)

\* No accepted job is lost, taken twice or answered twice on its way through
\* queue, worker and result channel; not even when no container is available
\* for it or its container is removed.
JobConservation ==
  /\ \A j \in Jobs : OnePlace(j)
  /\ \A i, k \in 1..Len(jobs) : jobs[i] = jobs[k] => i = k
  /\ \A w, v \in Workers : wjob[w] = wjob[v] /\ wjob[w] # NoJob => w = v

\* Two commands never run in one container at the same time, whatever the
\* watchers of earlier jobs and the monitor do to the registry.
ExecutionsApart ==
  \A i, j \in Jobs : Executing(i) /\ Executing(j) /\ at[i] = at[j] => i = j

\* A worker executes in the container it was given, and gives it back.
LeaseFollowsWorker ==
  \A w \in Workers :
    /\ lease[w] # NoId <=> pc[w] \in {"start", "running", "release"}
    /\ pc[w] = "running" => at[wjob[w]] = lease[w]

\* The program of job j may have been replaced, after its command had written it, by
\* the process of another job that was left behind in the same container.  What the
\* processes of an earlier run do in a container that is left over is not followed.
Disturbed(j) ==
  \/ at[j] \in Leftover
  \/ \E i \in orphans \ {j} : at[i] = at[j]

\* A job succeeds only by the end of its own process with status 0, and that has
\* run its own program, unless it was disturbed: a worker that goes on with its
\* next job, a container that goes to another worker, or comes late from the
\* registry, is not enough to mix up the files the jobs share.
SuccessIsOwn ==
  \A j \in Jobs :
    (result[j] = "ok" \/ \E w \in HeldBy(j) : outcome[w] = "ok")
      => proc[j] = "ok" /\ (ran[j] = j \/ Disturbed(j))

Service == INSTANCE JobService WITH
  Capacity <- MaxJobCount,
  pending <- jobs,
  running <- Held,
  answered <- {j \in Jobs : result[j] # "none"},
  refused <- {j \in Jobs : caller[j] = "rejected"},
  open <- (down # "done")

\* The pool keeps the promises of worker.WorkerPool on the execution of jobs.
ImplementsJobService == Service!Spec

\* What the pool does with its containers is what ContainerManager allows.
ImplementsContainerManager == CMSpec

\* Nothing but these conditions keeps a worker from its next step: an empty queue,
\* cm.mu while Shutdown removes the containers, a full result channel ...
WorkerReady(w) ==
  \/ pc[w] = "select" /\ (down # "up" \/ (Ready /\ jobs # <<>>))
  \/ pc[w] \in {"acquire", "start", "release"} /\ ~mu
  \/ pc[w] = "running"
  \/ pc[w] = "send" /\ result[wjob[w]] = "none"

WorkerMoves(w) == Alive /\ WorkerReady(w) => ENABLED <<WorkerStep(w)>>_vars

\* ... and nothing but an empty result channel a caller.
CallerMoves(j) ==
  Alive /\ caller[j] = "waiting" /\ result[j] # "none" => ENABLED <<Return(j)>>_vars

NothingElseBlocks ==
  /\ \A w \in Workers : WorkerMoves(w)
  /\ \A j \in Jobs : CallerMoves(j)

\* Every accepted job is answered, at the latest after the retries and the
\* deadline, even if all containers are lost; unless the pool is shut down.
AcceptedIsAnswered ==
  \A j \in Jobs : caller[j] = "waiting" ~> (caller[j] = "returned" \/ down # "up" \/ ~Alive)

\* A job a worker has taken is answered even if the pool is shut down, unless the
\* daemon never answers the Shutdown that holds cm.mu.
TakenIsAnsweredOrHangs ==
  \A j \in Jobs : j \in Held ~> (caller[j] = "returned" \/ ~Alive \/ []mu)

\* How far a worker is with its job: there are MaxRetries attempts to get a
\* container, and what follows them.
Effort(w) ==
  CASE pc[w] = "acquire" -> tries[w]
    [] pc[w] = "start" -> MaxRetries
    [] pc[w] = "running" -> MaxRetries + 1
    [] pc[w] = "release" -> MaxRetries + 2
    [] pc[w] = "send" -> MaxRetries + 3

\* A worker that has a job gets on with it in each of its steps, and no other
\* goroutine sets it back: after MaxRetries + 4 steps at most it has sent the
\* result, on whatever path, and no attempt is made for ever.
GetsOn ==
  \A w \in Workers : wjob[w] # NoJob =>
    \/ wjob'[w] = wjob[w] /\ pc'[w] = pc[w] /\ tries'[w] = tries[w]
    \/ wjob'[w] = wjob[w] /\ Effort(w)' > Effort(w)
    \/ wjob'[w] = NoJob /\ result'[wjob[w]] # "none"

WorkIsBounded == [][GetsOn]_vars

-----------------------------------------------------------------------------
(* What the comments say, and the code does not do.                        *)

\* "Shutdown gracefully stops the worker pool": it comes to its end ...
ShutdownCompletes == down = "signalled" ~> (down = "done" \/ ~Alive)

\* ... and no call of ExecuteJob panics.
ShutdownIsGraceful == ~panicked

\* "Shutdown cleans up all containers": when it has, none is registered.
ShutdownCleansUp == down \in {"waiting", "done"} => Registered = {}

\* "GetAvailableContainer finds an idle container": nothing runs in it.
AvailableIsIdle == \A w \in Workers : pc[w] = "start" => Processes(lease[w]) = {}

\* "RemoveContainer safely removes a container": a removal on behalf of one job
\* does not take the container of another one.
RemovalSparesOthers ==
  \A j \in Jobs, w \in Workers :
    removal[j].phase = "call" /\ lease[w] = removal[j].id => wjob[w] = j

\* "executeCode runs code in a container": in that container runs that code.
CodeRuns == \A j \in Jobs : result[j] = "ok" => ran[j] = j

=============================================================================
