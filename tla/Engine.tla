------------------------------- MODULE Engine -------------------------------
(***************************************************************************)
(* The engine as cmd/main.go assembles it with its default backend: two    *)
(* NATS subscriptions (natshandler), the service that validates a request  *)
(* and calls ExecuteJob (service), the Docker pool, and main, which shuts  *)
(* the pool down on a signal and returns.                                  *)
(*                                                                         *)
(* The NATS client is external: it keeps the messages of a subscription in *)
(* order and runs the callback of a subscription for one message at a      *)
(* time.  A request stands for the message that carries it; it is the job  *)
(* its callback submits.                                                   *)
(***************************************************************************)
EXTENDS DockerPool

CONSTANTS
  Subjects,     \* the subjects subscribed to
  Publishable,  \* the requests that may be published on each subject
  Malformed,    \* requests json.Unmarshal fails on
  Undecodable,  \* requests whose code is not base64
  Prohibited    \* requests whose code is too long or matches a pattern

\* The code subscribes to two subjects: at most four are needed here for the
\* smallest channel of jobs.
ASSUME EngineAssumption ==
  /\ IsFiniteSet(Subjects)
  /\ Cardinality(Subjects) <= 4
  /\ Publishable \in [Subjects -> SUBSET Jobs]
  /\ Malformed \subseteq Jobs
  /\ Undecodable \subseteq Jobs
  /\ Prohibited \subseteq Jobs

VARIABLES
  inbox,   \* the messages each subscription has received, oldest first
  taken,   \* how many of them its callback was called with
  step,    \* progress of the callback
  reply,   \* the StatusMessage of the response published for a request
  exited   \* main has returned, and the process with it

engineVars == <<inbox, taken, step, reply, exited>>
allVars == <<vars, engineVars>>

\* SanitizeCode has patterns for exactly the languages of languageConfigs, and
\* fails on any other one.
Sanitized(j) == j \in Supported \ Prohibited

Received(s) == {inbox[s][i] : i \in 1..Len(inbox[s])}

\* The message the callback of s is running for, or has last run for.
Current(s) == inbox[s][taken[s]]

\* ExecuteJob has returned, with an error when the queue was full.
Over(j) == caller[j] \in {"returned", "rejected"}

\* The response CompilerService.Execute builds.
Response(j) ==
  IF j \in Undecodable THEN "undecodable"
  ELSE IF ~Sanitized(j) THEN "prohibited"
  ELSE IF caller[j] = "rejected" \/ answer[j].Error THEN "failed"
  ELSE "success"

Statuses == {"undecodable", "prohibited", "failed", "success"}

EngineInit ==
  /\ Init
  /\ inbox = [s \in Subjects |-> <<>>]
  /\ taken = [s \in Subjects |-> 0]
  /\ step = [s \in Subjects |-> "idle"]
  /\ reply = [j \in Jobs |-> "none"]
  /\ exited = FALSE

-----------------------------------------------------------------------------
\* The NATS client receives a request published on s.
Receive(s, j) ==
  /\ ~exited
  /\ j \in Publishable[s]
  /\ \A t \in Subjects : j \notin Received(t)
  /\ inbox' = [inbox EXCEPT ![s] = Append(@, j)]
  /\ UNCHANGED <<vars, taken, step, reply, exited>>

\* The callback parses and validates a request without anybody's help.  It
\* returns without a response from a message it cannot parse.
Begin(s) ==
  /\ taken[s] < Len(inbox[s])
  /\ taken' = [taken EXCEPT ![s] = @ + 1]
  /\ LET j == inbox[s][taken[s] + 1]
     IN  step' = [step EXCEPT ![s] = IF j \in Malformed THEN "idle"
                                     ELSE IF j \in Undecodable \/ ~Sanitized(j)
                                     THEN "respond" ELSE "execute"]
  /\ UNCHANGED <<vars, inbox, reply, exited>>

\* Mutant: a goroutine per message.
StartAnyTime(s) ==
  /\ ~exited
  /\ step[s] = "idle" \/ (taken[s] > 0 /\ caller[Current(s)] # "idle")
  /\ Begin(s)

\* The client calls the callback when it has returned from the last message.
StartCallback(s) == ~exited /\ step[s] = "idle" /\ Begin(s)

\* A step of the pool.ExecuteJob the callback is in.
Execute(s) ==
  /\ ~exited
  /\ step[s] = "execute"
  /\ CallerStep(Current(s))
  /\ UNCHANGED engineVars

\* msg.Respond, after which the callback returns.
Publish(s) ==
  /\ ~exited
  /\ reply' = [reply EXCEPT ![Current(s)] = Response(Current(s))]
  /\ step' = [step EXCEPT ![s] = "idle"]
  /\ UNCHANGED <<inbox, taken, exited>>

Respond(s) ==
  /\ step[s] = "respond" \/ (step[s] = "execute" /\ Over(Current(s)))
  /\ Publish(s)
  /\ UNCHANGED vars

\* The goroutines of the pool and the Docker daemon.
PoolStep ==
  /\ \/ \E w \in Workers : WorkerStep(w)
     \/ \E j \in Jobs : DaemonStep(j)
  /\ UNCHANGED engineVars

\* main: a signal arrives, Shutdown is called and returns, and main with it.
Signal == CloseShutdown /\ UNCHANGED engineVars
ShutdownPool == ShutdownReturns /\ UNCHANGED engineVars

Exit ==
  /\ stopped /\ ~exited
  /\ exited' = TRUE
  /\ UNCHANGED <<vars, inbox, taken, step, reply>>

-----------------------------------------------------------------------------
CallbackStep(s) == StartCallback(s) \/ Execute(s) \/ Respond(s)

EngineNext ==
  \/ \E s \in Subjects : CallbackStep(s) \/ (\E j \in Jobs : Receive(s, j))
  \/ PoolStep
  \/ Signal \/ ShutdownPool \/ Exit

EngineSpec == EngineInit /\ [][EngineNext]_allVars

\* Runnable goroutines are scheduled and deadlines expire.  No message has to
\* come, nor a signal, and neither the daemon nor a program has to progress.
EngineWorkerStep(w) == WorkerStep(w) /\ UNCHANGED engineVars

CallbackFairness(s) == WF_allVars(CallbackStep(s))
EngineWorkerFairness(w) == WF_allVars(EngineWorkerStep(w))
ExitFairness == WF_allVars(ShutdownPool) /\ WF_allVars(Exit)

EngineFairness ==
  /\ \A s \in Subjects : CallbackFairness(s)
  /\ \A w \in Workers : EngineWorkerFairness(w)
  /\ ExitFairness

EngineFairSpec == EngineSpec /\ EngineFairness

\* The fair select of the pool's workers, as a step of the engine.
EngineExitWorker(w) == ExitWorker(w) /\ UNCHANGED engineVars
EngineSelectFairness(w) == SF_allVars(EngineExitWorker(w))
EngineSelectIsFair == \A w \in Workers : EngineSelectFairness(w)

-----------------------------------------------------------------------------
\* The types of the engine's own state.  A message is received once.
EngineTypeOK ==
  /\ inbox \in [Subjects -> Seq(Jobs)]
  /\ taken \in [Subjects -> Nat]
  /\ \A s \in Subjects : taken[s] <= Len(inbox[s])
  /\ step \in [Subjects -> {"idle", "execute", "respond"}]
  /\ \A s \in Subjects : step[s] # "idle" => taken[s] > 0
  /\ reply \in [Jobs -> Statuses \cup {"none"}]
  /\ exited \in BOOLEAN

\* The pool holds at most one unanswered request of each subject, whatever its
\* number of workers; so no more than that is lost when the process exits between
\* the end of a job and the response.
OneJobPerSubject ==
  \A s \in Subjects :
    Cardinality({j \in Received(s) : caller[j] # "idle" /\ reply[j] = "none"}) <= 1

\* The queue is never found full: the callbacks limit the load before it does.
NoRequestRefused == \A j \in Jobs : caller[j] # "rejected"

\* Requests of a subject are answered in the order of their arrival; only those
\* that cannot be parsed are passed over.
RepliesInOrder ==
  \A s \in Subjects : \A i, k \in 1..Len(inbox[s]) :
    i < k /\ reply[inbox[s][k]] # "none"
      => inbox[s][i] \in Malformed \/ reply[inbox[s][i]] # "none"

\* Once a request has been answered nothing is left of it in the pool: it is
\* not queued, no worker has it, and no result waits to be received.
RepliedIsOver ==
  \A j \in Jobs : reply[j] # "none" => ~Queued(j) /\ HeldBy(j) = {} /\ ~Delivered(j)

\* The engine uses the pool as its interface allows: whatever holds of
\* DockerPool's behaviours holds of the engine's.
UsesDockerPool == Spec

\* A worker is held up as in the pool by itself, and a callback by nothing when it
\* has a message to take, a step of ExecuteJob to make or a response to send.
EngineWorkerMoves(w) ==
  /\ WorkerReady(w) => ENABLED <<EngineWorkerStep(w)>>_allVars
  /\ pc[w] = "select" /\ shutdown => ENABLED <<EngineExitWorker(w)>>_allVars

CallbackReady(s) ==
  \/ step[s] = "idle" /\ taken[s] < Len(inbox[s])
  \/ step[s] = "respond"
  \/ /\ step[s] = "execute"
     /\ \/ caller[Current(s)] \in {"idle", "sent"}
        \/ Delivered(Current(s))
        \/ Over(Current(s))

CallbackMoves(s) == ~exited /\ CallbackReady(s) => ENABLED <<CallbackStep(s)>>_allVars

\* main waits for the workers and for nobody else.
EngineMainMoves ==
  /\ shutdown /\ ~stopped /\ (\A w \in Workers : pc[w] = "exited")
       => ENABLED <<ShutdownPool>>_allVars
  /\ stopped /\ ~exited => ENABLED <<Exit>>_allVars

NothingInEngineBlocks ==
  /\ \A s \in Subjects : CallbackMoves(s)
  /\ \A w \in Workers : EngineWorkerMoves(w)
  /\ EngineMainMoves

\* A request a worker has taken is answered, signal or not, unless the process
\* exits before its callback has published the response.
TakenIsReplied ==
  \A j \in Jobs : j \in Held ~> (reply[j] # "none" \/ exited)

\* A request that can be parsed is answered, unless a signal comes first.
ReceivedIsReplied ==
  \A s \in Subjects : \A j \in Jobs \ Malformed :
    j \in Received(s) ~> (reply[j] # "none" \/ shutdown)

\* The process exits after a signal, whatever the callbacks are waiting for.
SignalExits == shutdown ~> exited

=============================================================================
