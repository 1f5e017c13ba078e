# CodeExecutionEngine in TLA+

The engine takes requests to run code from NATS, runs each of them in a container,
or in a Firecracker virtual machine, and responds with the result. This directory
holds TLA+ models of it, the TLC configurations that check them on small instances,
and proofs, checked by TLAPS, of the properties that matter most for every size.

Paths and line numbers refer to the repository.

## Inventory

| Component | Source | State | Operations | Module |
|---|---|---|---|---|
| Backend interface | `worker/worker.go` | none | `Initialize`, `ExecuteJob`, `Shutdown`, `Stats` | `JobService` |
| Docker backend | `worker/docker/docker.go`, `config.go` | channel of jobs, result channels, worker goroutines, statistics, shutdown channel | `ExecuteJob`, worker loop, `executeCode`, `Shutdown`, `Stats` | `DockerPool` |
| Container manager | `executor/container_manager.go` | registry of containers and their states, mutex, monitor goroutine | `InitializePool`, `StartContainer`, `RemoveContainer`, `checkHealth`, `GetAvailableContainer`, `SetContainerState`, `Shutdown` | `ContainerManager`, `ContainerLeases` |
| Executor pool | `executor/worker_pool.go`, `config.go` | channel of jobs, worker and watcher goroutines, wait group, shutdown channel | `ExecuteJob`, worker loop, `executeCode`, `Shutdown` | `ExecutorPool` |
| Rate limiter | `executor/ratelimiter.go` | times of requests and bans per client, cleanup goroutine | `Allow`, `IsBlocked`, `CooldownRemaining`, cleanup, `Stop` | `RateLimiter` |
| Handlers, service, main | `natshandler/`, `service/`, `cmd/main.go` | two subscriptions, the running callbacks, the life of the process | parse, validate, execute, respond, signal, exit | `Engine` |
| One request | `service/service.go` | none | `normalizeLanguage`, `Execute` | `CompilerService` |
| Sanitizer | `internal/sanitize.go` | patterns (constant) | `SanitizeCode` | `CompilerService`; its verdict in `Engine` |
| Firecracker backend | `worker/firecracker/firecracker.go` | channel of jobs, worker goroutines, semaphore, snapshot files, sockets in `/tmp` | `Initialize`, `ExecuteJob`, worker loop, `executeCode`, `findVsockUDS`, `Shutdown`, `Stats` | `FirecrackerPool` |
| Vsock client | `worker/firecracker/vsock/vsock.go` | one connection | `connect`, `Execute`, `Ping` | `VsockClient` |
| Configuration | `config/config.go` | none | `LoadConfig`, `CalcAutoMaxWorkers` | not modelled |
| Logging, data types, NATS wrapper, tools, deployment | `logger/`, `logutil/`, `model/`, `natsclient/`, `dockerkill.go`, `stresstest.js`, `deploy/` | none of the program's | output, declarations, scripts | not modelled |

How they interact. `main` creates a backend, subscribes to two subjects and waits
for a signal. The callback of a subscription runs for one message at a time; it
calls `CompilerService.Execute`, which validates the code and blocks in `ExecuteJob`
until a worker has sent the result on a channel made for this job. On a signal
`main` calls `Shutdown` of the backend, which waits for the workers only, and
returns. The package `executor` is an earlier backend with a fixed set of containers
and a rate limiter; nothing in `cmd/main.go` uses them, and `executor/config.go` (a
stray first line) and the Firecracker backend (the function literal of
firecracker.go:329 is not of the type `DialContext` has) do not compile at this
commit. They are modelled as they are written.

A Firecracker worker shares no memory with its machine. It starts a process, tells
it over an API socket to load the snapshot, looks in `/tmp` for the socket the
machine has bound, dials it, exchanges one request and one response, removes the
socket and kills the process. Whether the socket belongs to this machine and whether
the bytes read are the ones meant are left to conventions.

What is hard, by component, and what makes it correct:

- **Docker backend**: jobs, workers, a shutdown and a deadline race each other. A
  job is executed once and answered once, a refused one leaves no trace, a success
  is reported only of a container that has succeeded, and after `Shutdown` no program
  is started but those the daemon had been asked for before.
- **Container manager**: four kinds of goroutine change one registry, some of them
  without its mutex. A container belongs to at most one worker, the registry never
  outgrows the pool, the pool is filled up again.
- **Executor pool**: containers outlive jobs, so what one job leaves behind meets
  the next one. Two commands never run in a container at a time, and a result is that
  of the job's own process; its program is the job's own only as long as no process of
  another job was left behind in the container.
- **Rate limiter**: three operations and a loop drop expired records in different
  ways, and a ban deletes the history. The window and the bans hold nevertheless.
- **Firecracker backend**: machines restored from one snapshot may all bind one
  path, killed ones leave their file there, and a worker takes the first name that
  exists. A job reaches its own machine nevertheless, no worker removes a socket
  another one needs, and no machine outlives its job.
- **Vsock client**: text and lengths follow each other on one stream that is read in
  pieces. A length is never read from the text before it, and a response is taken
  for one only when all of it has come.
- **One request**: the language is guessed from substrings. Code is executed only as
  what it was checked as, and a success is the guest's.
- **Engine**: two subscriptions share a pool that may be shut down under them.
  Requests are answered once and in order, and the process exits.

`PROJECT.json` lists each hazard at its line with the properties about it.

## Modules

`JobService` is the abstract specification: jobs are accepted or refused, executed
in order by at most `MaxWorkers` executions, answered once; nothing runs after
`Shutdown`. `DockerPool`, `ExecutorPool` and `FirecrackerPool` implement it through
a refinement mapping (`ImplementsJobService`). `OneStage`, `WithinLimits`,
`VerdictsAreFinal` and `FirstComeFirstServed` say what that amounts to for a caller.

`ContainerLeases` is the abstract specification of the container manager: a pool of
at most `MaxWorkers` containers, lent to one worker each, that containers join once
and may leave at any time. In the mapping (`ImplementsContainerLeases`) the pool is what
is registered as idle or busy (`Lendable`).

`DockerPool`. A job is one call of `ExecuteJob`. `caller` follows the call: the send
(`SubmitAccept`, `SubmitReject`), the increment after it (`CountJob`), the receive
(`Return`). A worker is in its select, running a command, sending, or gone. A
container is created, started and removed by the daemon, at its own pace
(`DockerCreate`, `DockerStart`, `ContainerExit`), when the docker command has asked
for it (`AskCreate`, `AskStart`). The deadline (`Timeout`) ends the command whatever
the container is doing; a request that was sent is not recalled, and may be served
after the job was answered, or the pool shut down. Code and output are abstracted to the
status the container ends with, a language to having a configuration or not.

`ContainerManager`. The registry is a function from container ids to their state,
the daemon's view another one. A critical section of `cm.mu` is one step; what is
done outside is steps of their own, so `checkHealth` is five (list, read, mark,
remove, start), of which the first may fail and end the round (`ListFails`), and `StartContainer` and `RemoveContainer` are two each. The actions
of the worker goroutines and of the goroutines that remove a container may occur at
any time in `CMNext`.

`ExecutorPool` EXTENDS it and says when they do occur: it conjoins the actions of
the manager with those of workers, watchers, callers and `Shutdown`.
`ImplementsContainerManager` says that it uses the manager as `CMSpec` allows.
`Effort` measures how far a worker is with its job. The processes in the containers
are external, but their commands are those of `executor/config.go`: they write the
code to a file, build `/app/temp/exe` and run it, in files whose names are the same
for all jobs of a language. So a container has one program (`prog`), which the process
of a job writes (`ProcBuilds`) and, a step later, runs (`ProcRuns`); `ran` keeps whose
program that was. A command that is killed leaves its process behind, started or only
asked for (`orphans`), and such a process may write or run at any later time. Jobs of
different languages, which disturb each other less, are not told apart. Nor is what
the daemon does with the input of the command: `docker exec` is called without `-i`
(worker_pool.go:211), so whether a program receives the code at all is its matter.

`RateLimiter`. All operations hold the mutex, so each is one step; the clock is a
variable. `accepted`, `banEnd` and `since` are history: what the code would know had
it never dropped a record. `requests` holds the recorded times as indexes into
`accepted`.

`FirecrackerPool`. A worker's `pc` goes through `executeCode`: start the process,
load the snapshot, find the socket, dial, shake hands, exchange, and the deferred
calls (`Unlink`, `Kill`), which an early return reaches as well. `vm`, `socket` and
`peer` are external: the process of each job, what each file in `/tmp` is bound to,
and the machine a connection reached. Where a restored machine binds its socket is
written in the snapshot and not known to the program: it is chosen at the start
(`uds`), a path per instance, the path of `createSnapshot`, or another one that all
machines share, as that of a snapshot made by hand. At each of the shared paths
(`SharedPaths`) an earlier run may have left a file (`Leftovers`). A socket
that is bound already makes the load fail. The snapshot files may be missing,
complete, or left half-written by a creation that failed (`Initialize`).

`VsockClient` is one call of the client, on a stream whose bytes come from three
places: the line that answers CONNECT, four bytes of length, and a text. `Cuts` says
where the stream may be cut; only the bytes up to the length have values, as the
text is handed on as a whole. `CompilerService` EXTENDS it with what precedes the
call (normalise, decode, sanitize, the queue) and what is made of its result. Whether
a worker ever takes the request from `p.jobs` is up to other requests and to
`Shutdown`, so `TakeJob` may happen or not. A code is the set
of the categories of patterns it matches; a name is the set of the tokens it
contains. A call without a request is a ping of `Initialize`.

`Engine` EXTENDS `DockerPool` and adds the subscriptions, the callbacks and `main`.
It drives the callers of the pool; `UsesDockerPool` (the specification of
`DockerPool` as a property) lifts what is proved of the pool to the engine.
`Publishable` says which requests may come on which subject.

`MC*` modules add symmetry sets for TLC. `*_proofs` modules hold the theorems.
Definitions commented as mutants are plausible bugs in the action beside them; no
specification uses them.

## Runs

| Run | Instance | Shows |
|---|---|---|
| `docker_queue` | 1 worker, 5 jobs (1 with a configured language), shutdown at any point | the queue (capacity 4) fills and refuses; counting, refinement, and what the daemon may still do after a shutdown |
| `docker_live` | 2 workers, 2 jobs, fairness | jobs are conserved, results belong to containers, answers and shutdown need only the deadlines |
| `manager` | 1 container wanted, 2 found at start, 2 workers, removals, shutdown, a daemon that may fail or hang | containers are lent as `ContainerLeases` promises, to one worker each, and never again once in error; the bound of the registry; the pool is refilled if the daemon answers, and a container in error leaves the registry unless it does not |
| `executor` | 2 workers, 2 containers, 2 jobs, a queue of 1, no `Shutdown` | executions stay apart under late removals and replacements; a success is of the job's own process, which has run the job's own program unless one left behind was in its container |
| `executor_stops` | 1 worker, 1 container, 2 jobs, a queue of 2, `Shutdown`, fairness of the goroutines | refinement of `JobService`, order included; the pool uses the manager as it allows; a bound on the steps a job takes its worker; answers to accepted jobs, and to taken ones unless the daemon never answers `Shutdown` |
| `rate_limiter` | 2 clients, 2 requests per window of 2, bans of 2, clock up to 5 | window, bans, invisibility of dropped records |
| `engine` | 2 subjects, 1 worker, 4 requests (one malformed, one of an unknown language, one that may come on both), fairness | load on the pool, order of responses; responses and exit |
| `firecracker` | 2 workers, 2 jobs, a queue of 1, every kind of snapshot and of socket path, a file nobody listens at or none at each shared path, fairness | own machines, sockets that stay, no machine left, refinement; only the handshake keeps a job from its answer or holds up `Shutdown` |
| `request` | 10 names, 7 codes, lines that accept and refuse, lengths 0, 2, the cap and the cap + 1, fairness | framing, vetting, genuine success, an end of every request but for the wait for a worker and the handshake |
| `docker_success`, `executor_waits`, `javascript` | smallest instances, and that of `request` | violations, see below |

The type invariants are part of the inductive invariants and proved; they are not
repeated in the runs. Nor are four other properties that are proved and whose purpose
a property of the same run expresses: `LeaseExclusive` and `ErrorIsFinal` of the manager
(`ImplementsContainerLeases`), `JobConservation` (`ImplementsJobService`) and
`LeaseFollowsWorker` (`ExecutionsApart`) of the executor pool.

`ExecutorPoolQueue.cfg` checks `ImplementsJobService` once more, with 2 workers, 3 jobs,
a queue of 2 and one container for both workers, so that jobs are refused and taken in
order by either worker. Its jobs have no configured language: `executeCode` returns
after a container was lent, and no process runs.

Six further configurations pass as well. They check that goroutines can go on
whenever they have something to do, which the theorems on progress assume, and some
of them the conclusions as well. The premises restate the guards of the actions; they
are there because the provers know nothing of ENABLED, and are no findings about the
code.

| Configuration | Instance of | Premise |
|---|---|---|
| `DockerPoolProgress.cfg` | `docker_live` | `NothingElseBlocks` |
| `FirecrackerPoolProgress.cfg` | `firecracker` | `NothingElseBlocks` |
| `EngineProgress.cfg` | `engine` | `NothingInEngineBlocks` |
| `ExecutorPoolProgress.cfg` | `executor_stops` | `NothingElseBlocks` |
| `ContainerManagerProgress.cfg` | `manager` | `NothingBlocksManager` |
| `CompilerServiceProgress.cfg` | `request` | `RequestMoves` |

Bounds. One more job than the queue holds is enough to see it full and refusing; two
workers (or subjects) are enough for every race between two of them, as the actions
involve at most two; the ids of containers are enough for one generation of
replacements beyond the pool (`FewLost` in `MCExecutorPool` bounds by `MaxLost` how
many are lost without a removal, none in `executor`). A behaviour of `executor` ends
when all calls have returned or the command of each job was killed (`CallsLeft`):
there is no further job to be affected; and the watchers of its commands remove one
container (`FewRemovals`), the monitor as many as there are. That run has no
`Shutdown`, which `executor_stops` has; it never comes past its wait for the workers,
as the monitor never ends, so that the `Stop` of `JobService` has no counterpart
there. The queue of `executor_stops` holds both of its jobs; `ExecutorPoolQueue.cfg`
has the refusals. The clock runs through a window, a ban, and a window after it. `MaxRetries` is 1 or 2 instead of 10: every failed attempt but the
last one changes the counter only. The queue of `firecracker` holds 1 job instead of
`MaxWorkers*10`, so that it can be full: the refusal depends on nothing else. In
`request` the line and the length are cut at every byte, a text only at its end,
since a text that is not whole is read on whatever has come of it.

Fairness. Runnable goroutines are scheduled (weak fairness of each worker, the
monitor, the callbacks, the rest of a `Shutdown` that has begun), and a deadline
that was set expires: it is an action of the worker that waits for it. Nothing is
assumed of clients and of submitted programs, and of the daemon only what is named
here. The manager calls the daemon without a deadline, `Shutdown` with `cm.mu` held
(container_manager.go:405), so that nothing in the code gives an answer: `CMFairSpec`
and the `FairSpec` of the executor pool are fair to the monitor's and the workers' own
steps only, and the properties checked under them, `ErrorsLeaveOrHangs` and
`TakenIsAnsweredOrHangs`, end with "or the daemon never answers". `PoolRefills` cannot
hold without a daemon: its premise `DaemonAnswers` is one that answers every call, and,
asked again and again, does list the containers and start one (strong fairness). `DaemonSpec` of the
executor pool adds answers for `executor_waits`, so that it cannot be the daemon
that `Shutdown` waits for. `SelectIsFair` is assumed by theorems about `Shutdown`
only, see below. In `FirecrackerPool` the step that waits for the
response to CONNECT is not fair, and in `VsockClient` nothing need arrive: the read
has no deadline (vsock.go:45), and the properties of the pool say "or hangs" for this
place only. A request has no deadline for its wait in `p.jobs` either
(firecracker.go:301): where all workers hang, or after `Shutdown`, none comes, which
`RequestEndsOrHangs` names as the other place.
Runs with deadlock checking off are those of systems that do stop: the process ends or
is aborted, or its containers are used up.

### Where the code does something else than it says

Three runs must end in a violation.

| Run | Statement | What happens |
|---|---|---|
| `docker_success` | `ExecuteJob` returns `(Result, error)` | `executeCode` always sets `Error` (docker.go:111); the service responds "Failed to execute code" to every request |
| `executor_waits` | "gracefully stops the worker pool" | `Shutdown` waits for the monitor, which never ends |
| `javascript` | README: supports Python, JavaScript, C++ and Go | "javascript" contains a c and no js: it is checked and executed as C++ (service.go:66) |

Further configurations, of the same modules, end in a violation as well.

| Configuration | Statement | What happens |
|---|---|---|
| `DockerPoolOrphan.cfg` | README: each request destroys its container | the deadline kills the client of the daemon, the container goes on |
| `ContainerManagerRace.cfg` | "safely removes a container" | the map is written without the mutex |
| `ContainerManagerStopped.cfg` | "ensures container health" | a stopped container stays registered and in use |
| `ExecutorPoolPanics.cfg` | "gracefully stops the worker pool" | a call during `Shutdown` sends on a closed channel |
| `ExecutorPoolRefills.cfg` | "cleans up all containers" | the monitor starts new ones afterwards |
| `ExecutorPoolLeftover.cfg` | "finds an idle container" | a process of an earlier job is still running in it |
| `ExecutorPoolMixed.cfg` | "runs code in a container" | a job succeeds by running the program of another one, which a process left behind has put in its place |
| `ExecutorPoolLate.cfg` | "safely removes a container" | a removal for one job takes the container of another |
| `FirecrackerPoolStranger.cfg` | README: each execution in a microVM of its own | a process of an earlier run still listens at `/tmp/fc-init.vsock` and is taken for the machine of the job |
| `FirecrackerPoolStale.cfg` | "After restore, Firecracker creates it at a new path" (firecracker.go:231) | a snapshot made by `createSnapshot` binds `/tmp/fc-init.vsock` again, where the killed machine has left its file |
| `CompilerServiceHandshake.cfg` | `VsockHandshakeTimeout` | no deadline is set before the response to CONNECT is read |

Also: with two subscriptions whose callbacks wait for their result, at most two jobs
are ever in the pool (`OneJobPerSubject`), so that more than two workers
(`MAX_WORKERS`) are never busy and the queue never refuses (`NoRequestRefused`).

## Proofs

The theorems hold for every value of the constants that satisfies the named
assumptions (`DockerPoolAssumption` and so on, which TLC also evaluates): finite
sets of jobs and ids, special values outside them, a pool of at least one worker.

- `JobService_proofs`: `CallsAreAtOneStage`, `LimitsAreKept`, `VerdictsStay`,
  `QueueInTurn`, of the interface itself and once for all backends. `StageInv` adds
  to `OneStage` and `WithinLimits` that the executions are a finite set. The
  refinements carry the four to the backends: `PoolKeepsPromises`,
  `ExecutorKeepsPromises`, `FirecrackerKeepsPromises`, and `EngineKeepsPromises`.
- `DockerPool_proofs`: `TypeCorrect`, `JobsConserved`, `ContainersCorrect`,
  `ShutdownIsFinal`, `Refinement`, `JobsAreCountedOnce`, `PoolKeepsPromises`,
  `SendsNeverBlock`, `TakenJobsAreAnswered`, `AcceptedJobsAreAnswered`,
  `EveryWorkerLeaves`, `ShutdownReturnsInTheEnd`, `EveryCallReturnsAnError`. The invariant ties the
  three places of a job (queue, worker, result channel) to the progress of its
  caller, and a success to the container that produced it; without the first, a
  worker might find the result channel full, without the second the status of a
  removed container could not be known. Once `Shutdown` has returned every worker is
  gone, and so nobody asks the daemon for anything any more: what it may still serve
  are requests of killed commands (`ShutdownIsFinal`). The refinement follows step by
  step. `JobsAreCountedOnce` compares a counter with the cardinality of the set of
  jobs that were counted. `EveryCallReturnsAnError` is the general form of what
  `docker_success` shows: docker.go:111 spoils every result, not some.
- `ContainerManager_proofs`: `ManagerTypeCorrect`, `LeasesAreExclusive`,
  `BusyContainersAreLeased`, `RegistryIsBounded`, `ErrorsAreFinal`,
  `ManagerProvidesLeases`, `PoolRefillsInTheEnd`, `ErrorsLeaveInTheEnd`. The core is
  `LeaseInv`: a leased container is not idle, so that it is given to nobody else; it
  holds because an id that left the registry does not come back (the daemon does not
  reuse ids) and a container is registered once. The bound needs that the monitor is
  the only one to register. For `ManagerProvidesLeases` each action of the manager is
  one of `ContainerLeases` or a stutter: the one of a late `SetContainerState` is not
  to bring a container back, which is where the mutant `UpdatedAlways` fails. `MonInv`
  is what its liveness needs besides: a round marks at most `MaxWorkers` containers
  for removal, and no container it has counted as working is in error.
  `ErrorsLeaveInTheEnd` assumes nothing of the daemon and names the calls it may be
  waiting in for ever (`DaemonHangs`); `PoolRefillsInTheEnd` takes the daemon
  that answers as the premise of `PoolRefills`, and first shows that these are not (`CallsAreAnswered`).
- `ExecutorPool_proofs`: `PoolTypeCorrect`, `PoolConservesJobs`,
  `LeasesFollowWorkers`, `PoolImplementsManager`, `PoolExecutesApart`,
  `PoolSuccessIsOwn`, `PoolRefines`, `ExecutorKeepsPromises`, `PoolLendsContainers`,
  `SendsNeverBlock`, `WorkersGetOn`, `TakenJobsAreAnsweredOrHang`, `AcceptedJobsAreAnswered`,
  `ShutdownNeverReturns`. The pool implements the
  manager, so the manager's invariant holds of the pool, and so does its refinement of
  `ContainerLeases`; with the invariant and with the correspondence of leases and
  workers two executions are apart. `WorkersGetOn` bounds the steps of a worker for a
  job by `MaxRetries` + 4: no loss of containers keeps it busy for ever. `PoolSuccessIsOwn`
  follows the file the jobs of a container share. A job is started once
  (`StartedOnce`); a process whose command is no longer running has ended or is among
  the orphans (`LeftBehind`); so while a command runs, apart from all others by
  `ExecutionsApart`, only an orphan can write over its program (`RunsItsOwn`). That
  one does, if it was left in the same container, is shown by `ExecutorPoolMixed.cfg`.
  The refinement of `JobService` follows step by step from
  the conservation of jobs; since wg counts the monitor as well, `Shutdown` does not
  return for any value of the constants, which is what the run `executor_waits`
  shows on a small instance.
- `RateLimiter_proofs`: `RateTypeCorrect`, `WindowIsRespected`,
  `DroppingRecordsIsInvisible`, `BansDoLast`, `BansAreDeserved`. The invariant says
  that what was dropped had expired: a record is missing only if it left the window
  or came before the last ban, and a ban only if it has ended.
- `Engine_proofs`: `EngineTypeCorrect`, `EngineRunsThePool`, `OneJobEach`,
  `NeverRefused`, `AnswersInOrder`, `AnsweredIsOver`, `EngineKeepsPromises`,
  `NobodySucceeds`, `TakenRequestsAreReplied`, `NobodyIsStuckInTheInbox`,
  `ReceivedRequestsAreReplied`, `SignalsEndTheProcess`. As the engine's behaviours are
  the pool's, the pool's theorems hold of it. `CallInv` adds what the subscriptions
  contribute: a request is received once, a job that was submitted and not answered
  has a callback that waits for it, all before it are answered and none after it. A
  request finds room because the jobs in the queue map to the other subscriptions
  one to one, and there are fewer of those than places. `NobodySucceeds` follows
  `EveryCallReturnsAnError` to the clients: a callback responds with a success only to
  a call without an error, and there is none.
- `FirecrackerPool_proofs`: `FirecrackerTypeCorrect`, `JobsUseTheirMachine`,
  `FoundSocketsStay`, `MachinesEnd`, `FirecrackerRefines`, `FirecrackerKeepsPromises`,
  `WorkersFindRoom`, `TakenJobsAreAnsweredOrHang`, `ShutdownReturnsOrHangs`, `BlockedStays`,
  `OccupiedPathServesNobody`. `PoolInv` ties the places
  of a job together as in `DockerPool`, and a live machine to the worker that holds
  its job: the latter gives `MachinesEnd`, since a result is sent only after the
  deferred calls, and the semaphore counts the workers in between. For the sockets,
  `SocketInv` says that a socket bound by a job is where the snapshot puts it and
  that a stale file is at a shared path only; `TargetInv` says that a
  restored machine keeps its socket until its own worker removes it. So what a
  worker finds is its own machine, or a file nobody answers at. Both theorems about
  sockets assume that no process of an earlier run listens (`"stranger" \notin
  Leftovers`): `FirecrackerPoolStranger.cfg` shows why. `BlockedStays` and
  `OccupiedPathServesNobody` say what `FirecrackerPoolStale.cfg` leads to: once a file
  nobody listens at is in the way of machines that share a path, no load succeeds until
  the process ends. If machines bind the path in the snapshot, as firecracker.go:230
  says, the pool that makes the snapshot answers every job with an error.
- `CompilerService_proofs`: `FramingHolds` and `ResponsesAreGenuine` of the client
  alone, `RequestFraming`, `SuccessesAreGenuine`, `ExecutedCodeIsVetted` and
  `RequestsEndOrHang` of the request. If one Read of the handshake left bytes of the
  line behind, the length begins with a byte of text: no such byte is below 10, so the length exceeds the
  cap of 1 MiB and is refused (`TextIsNoLength`). Otherwise the four bytes are the
  guest's, and decoding them gives back the length (`LengthRoundTrip`, on digits to
  the base 256). That the answer to CONNECT is text is the assumption
  `VsockClientAssumption`.

### Liveness

Every liveness property of the runs is proved as well, but for
`AcceptedIsAnsweredOrHangs` of the Firecracker pool. The provers do temporal logic,
but know nothing of ENABLED, which fairness refers to. So the theorems have the form
`FairSpec /\ []NothingElseBlocks => ...`: the premise says that a goroutine with
something to do is able to do it. The configurations `*Progress.cfg` check it as an
invariant. What lies behind it is proved: the steps of a worker wait for room
in a channel or in the semaphore only, and there always is some (`SendsNeverBlock`,
`WorkersFindRoom`).

- *A job that was taken.* The fairness of its worker takes a job from stage to stage
  of its execution, that of its caller returns the result: `TakenJobsAreAnswered`,
  `TakenJobsAreAnsweredOrHang`, `TakenRequestsAreReplied`, `RequestsEndOrHang`. In the
  executor pool a failed attempt leads to the next one, with one retry less
  (`TakenJobsAreAnsweredOrHang` there); `LoopInv` says that `cm.mu` is held across steps by
  `Shutdown` only, and that workers leave their loop only for it. So either `Shutdown`
  holds it for ever, in a call the daemon does not answer, or it is free from some time on.
- *A job that waits.* It moves up, since there is a worker and none is held up
  for ever: `NobodyIsStuckInTheQueue`, and in the engine `NobodyIsStuckInTheInbox`.
  From this follow the two `AcceptedJobsAreAnswered` and `ReceivedRequestsAreReplied`.
- *Shutdown.* A worker between two jobs has two ready cases in its select, as long as
  something is queued. Go chooses between them at random, so the worker does not
  take a job each time for ever: `SelectIsFair` (`EngineSelectIsFair`), strong
  fairness of `ExitWorker`. No run assumes it: with finitely many jobs weak fairness
  is enough, which is an argument about all jobs together. With it each worker leaves for
  a reason of its own (`EveryWorkerLeaves`), whatever is still queued, and so
  `Shutdown` returns (`ShutdownReturnsInTheEnd`, `ShutdownReturnsOrHangs`) and
  the process ends (`SignalsEndTheProcess`).
- *The monitor.* A round ends, or a call of the daemon in it never returns, because
  the containers still to be removed and those still to be started get fewer
  (`RemovesEnd`, `StartsEnd`), and `cm.mu` is in the end free, or held for ever by a
  `Shutdown` the daemon does not answer: it is called once (`MutexSettles`). So a
  container in error leaves, or the daemon hangs (`ErrorsLeaveInTheEnd`). With a daemon
  that answers (`CMDaemonSpec`, with the premise of `PoolRefills`), as
  each start that succeeds uses up an id, and removals need a container that
  is there, the losses come to an end and the pool is full again (`PoolRefillsInTheEnd`).

Such an argument is an induction over temporal formulas, on the place in the queue,
the workers still there, the retries or ids left. The library's induction theorems
cannot be instantiated here, but from "the distance shrinks by n" follows "it
shrinks by 2n", and a few of these doublings reach every distance up to a fixed
number. This is why the theorems have bounds, all but one far above what the repository uses:

| Bound | Theorems | In the code |
|---|---|---|
| `MaxWorkers <= 1024` | on the queue of `DockerPool` (which has `MaxWorkers*4` places), on `Shutdown`, on the manager | `MAX_WORKERS`, 4 in `.env.example` |
| `MaxRetries <= 1024` | on the executor pool | 10 |
| `MaxJobCount <= 4096` | `AcceptedJobsAreAnswered` of the executor pool | the capacity of the channel; `MAX_JOBS` is 3 |
| `Cardinality(Ids) <= 4096` | `PoolRefillsInTheEnd` | none: the theorem is about runs that start no more than 4096 containers |
| `[]WithinPendingLimit`, an inbox of at most 2^19 messages | `ReceivedRequestsAreReplied` | the limit at which nats.go begins to drop messages |

The step of each induction has no bound: `EveryWorkerLeaves`, the two lemmas about
waiting and `TakenJobsAreAnswered` of the Docker backend hold for every size.

Only model-checked: the premises above, and `AcceptedIsAnsweredOrHangs` of the
Firecracker pool. Neither checked nor proved: liveness beyond these bounds.

## Not modelled

The text of code, output and messages, and whether a regular expression matches one;
logging; resource limits other than their effect (a removal or a failed command);
the pull of the image; NATS itself (messages it loses or a client repeats are new or
missing requests: a client of `natsclient` that asks again after a timeout cannot be
told from a new one); failures that end the process at start, except those of the
snapshot; the programs inside the guest; in the executor pool, the processes of an
earlier run inside containers that are found at start (`Disturbed` exempts those
containers). The configuration is read once, before
anything runs, and yields the constants of the models: `CalcAutoMaxWorkers` any
number of workers. The races on the statistics (`Stats` of the Docker backend has no
caller) are not told apart. `PROJECT.json` gives the reason for every component that
is left out.

## Plan

Done, in this order, each with its proofs: `JobService`, `DockerPool`,
`ContainerManager` and `ContainerLeases`, `ExecutorPool`, `RateLimiter`, `Engine`,
`FirecrackerPool`, `VsockClient` and `CompilerService`.

Left: `Engine` over `FirecrackerPool`. As the pools implement `JobService`, the engine
could be stated over the abstract specification and instantiated twice.
