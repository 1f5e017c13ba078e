-------------------------- MODULE ContainerManager --------------------------
(***************************************************************************)
(* executor/container_manager.go: the registry of worker containers, the   *)
(* monitor goroutine that checks and refills it every second, and the      *)
(* operations the goroutines of executor/worker_pool.go call.              *)
(*                                                                         *)
(* Workers are the goroutines that hold a container between                *)
(* GetAvailableContainer and the last SetContainerState.  Removers are the *)
(* goroutines started by `go RemoveContainer(id)`.  When they start is up  *)
(* to ExecutorPool, which composes this module with the worker pool; here  *)
(* they may start at any time.                                             *)
(*                                                                         *)
(* A critical section of cm.mu is one step, but for that of Shutdown,      *)
(* which calls the daemon in between.  RemoveContainer writes the registry *)
(* and checkHealth reads it without the mutex: the Go runtime aborts the   *)
(* process (fatal) when it sees a map written during another access.       *)
(* The Docker daemon is external.                                          *)
(***************************************************************************)
EXTENDS Integers, FiniteSets

CONSTANTS
  Ids,         \* the container ids the daemon can hand out
  MaxWorkers,  \* the size of the pool
  Workers,     \* the worker goroutines
  Removers,    \* the goroutines that run RemoveContainer
  Leftover,    \* those that may exist from an earlier run
  Monitor,     \* the goroutine of InitializePool, later of MonitorContainers
  NoId

ASSUME ContainerManagerAssumption ==
  /\ MaxWorkers \in Nat \ {0}
  /\ IsFiniteSet(Ids)
  /\ Leftover \subseteq Ids
  /\ NoId \notin Ids
  /\ Monitor \notin Removers

VARIABLES
  docker,      \* the containers of the worker image, in the daemon
  containers,  \* cm.containers: the state of the registered ones
  mon,         \* where the Monitor is
  seen,        \* checkHealth: the containers listed, then those counted as working
  toRemove,    \* checkHealth: the containers still to be removed
  need,        \* calls of StartContainer left in the Monitor's loop
  newId,       \* the container StartContainer has started and not registered
  removal,     \* calls of RemoveContainer
  lease,       \* the container each worker was given
  mu,          \* Shutdown holds cm.mu
  cmClosed,    \* Shutdown has emptied the registry
  fatal        \* the process was aborted

monVars == <<mon, seen, toRemove, need, newId>>
daemonVars == <<docker, containers>>
clientVars == <<removal, lease, mu, cmClosed, fatal>>
cmVars == <<docker, containers, mon, seen, toRemove, need, newId, removal, lease,
            mu, cmClosed, fatal>>

Registered == {id \in Ids : containers[id] # "absent"}
Idle == {id \in Ids : containers[id] = "idle"}

\* What ContainerList returns: all containers there are, running or not.
Existing == {id \in Ids : docker[id] \in {"created", "running", "exited"}}

NoRemoval == [phase |-> "none", id |-> NoId]

-----------------------------------------------------------------------------
\* Containers of an earlier run may exist, stopped or running.
CMInit ==
  /\ docker \in {d \in [Ids -> {"fresh", "running", "exited"}] :
                    \A id \in Ids \ Leftover : d[id] = "fresh"}
  /\ containers = [id \in Ids |-> "absent"]
  /\ mon = "init"
  /\ seen = {} /\ toRemove = {} /\ need = 0 /\ newId = NoId
  /\ removal = [r \in Removers \cup {Monitor} |-> NoRemoval]
  /\ lease = [w \in Workers |-> NoId]
  /\ mu = FALSE /\ cmClosed = FALSE /\ fatal = FALSE

-----------------------------------------------------------------------------
(* InitializePool, before there are workers and a monitor.                 *)

\* The containers of S leave the registry reg; the daemon removes those in gone
\* and fails for the others.
RemoveExcess(reg, S, gone) ==
  /\ containers' = [id \in Ids |-> IF id \in S THEN "absent" ELSE reg[id]]
  /\ docker' = [id \in Ids |-> IF id \in gone THEN "gone" ELSE docker[id]]

\* An existing container is registered, in state error if it is not running.
Found ==
  [id \in Ids |->
     IF id \notin Existing THEN "absent"
     ELSE IF docker[id] = "running" THEN "idle" ELSE "error"]

\* Mutant: one container short.
MissingOne(count) == IF count < MaxWorkers THEN MaxWorkers - count - 1 ELSE 0

Missing(count) == IF count < MaxWorkers THEN MaxWorkers - count ELSE 0
Excess(count) == IF count > MaxWorkers THEN count - MaxWorkers ELSE 0

InitializePool ==
  /\ mon = "init"
  /\ \E S \in SUBSET Existing :
       /\ Cardinality(S) = Excess(Cardinality(Existing))
       /\ \E gone \in SUBSET S : RemoveExcess(Found, S, gone)
  /\ need' = Missing(Cardinality(Existing))
  /\ mon' = "filling"
  /\ UNCHANGED <<seen, toRemove, newId, clientVars>>

\* NewWorkerPool fails if the containers cannot be listed ...
InitializeFails ==
  /\ mon = "init"
  /\ mon' = "failed"
  /\ UNCHANGED <<daemonVars, seen, toRemove, need, newId, clientVars>>

\* ... or not a single one is registered in the end; else the workers and the
\* monitor are started.
FinishInitialize ==
  /\ mon = "filling" /\ need = 0
  /\ mon' = IF Registered = {} THEN "failed" ELSE "tick"
  /\ UNCHANGED <<daemonVars, seen, toRemove, need, newId, clientVars>>

Ready == mon \notin {"init", "filling", "fillRegister", "failed"}

-----------------------------------------------------------------------------
(* StartContainer, in the loops of InitializePool (filling) and of         *)
(* checkHealth (starting).                                                 *)

CanStart == mon \in {"filling", "starting"} /\ need > 0 /\ ~mu /\ ~fatal

\* The daemon cannot create a container, or is not asked: the registry is full.
\* (The monitor asks for no more than there is room for, and so that never happens.)
StartNothing ==
  /\ CanStart
  /\ need' = need - 1
  /\ UNCHANGED <<daemonVars, mon, seen, toRemove, newId, clientVars>>

\* The container cannot be started; it is removed unless that fails as well.
StartFails(id) ==
  /\ CanStart
  /\ Cardinality(Registered) < MaxWorkers
  /\ docker[id] = "fresh"
  /\ \E left \in {"gone", "created"} : docker' = [docker EXCEPT ![id] = left]
  /\ need' = need - 1
  /\ UNCHANGED <<containers, mon, seen, toRemove, newId, clientVars>>

\* The registry has room, says the first critical section.
StartContainer(id) ==
  /\ CanStart
  /\ Cardinality(Registered) < MaxWorkers
  /\ docker[id] = "fresh"
  /\ docker' = [docker EXCEPT ![id] = "running"]
  /\ newId' = id
  /\ mon' = IF mon = "filling" THEN "fillRegister" ELSE "register"
  /\ UNCHANGED <<containers, seen, toRemove, need, clientVars>>

\* The second one.
RegisterContainer ==
  /\ mon \in {"fillRegister", "register"} /\ ~mu /\ ~fatal
  /\ containers' = [containers EXCEPT ![newId] = "idle"]
  /\ newId' = NoId
  /\ need' = need - 1
  /\ mon' = IF mon = "fillRegister" THEN "filling" ELSE "starting"
  /\ UNCHANGED <<docker, seen, toRemove, clientVars>>

-----------------------------------------------------------------------------
(* RemoveContainer, called by checkHealth and by the Removers.             *)

SpawnRemoval(r, id) ==
  /\ removal[r].phase = "none" /\ ~fatal
  /\ removal' = [removal EXCEPT ![r] = [phase |-> "call", id |-> id]]

\* The daemon removes the container, or fails to; the outcome is only logged.
RemoveCall(r) ==
  /\ removal[r].phase = "call" /\ ~fatal
  /\ docker' \in {docker, [docker EXCEPT ![removal[r].id] = "gone"]}
  /\ removal' = [removal EXCEPT ![r].phase = "delete"]
  /\ UNCHANGED <<containers, monVars, lease, mu, cmClosed, fatal>>

\* Either way its entry is deleted, without the mutex.
RemoveDelete(r) ==
  /\ removal[r].phase = "delete" /\ ~fatal
  /\ containers' = [containers EXCEPT ![removal[r].id] = "absent"]
  /\ removal' = [removal EXCEPT ![r] = IF r = Monitor THEN NoRemoval ELSE [@ EXCEPT !.phase = "done"]]
  /\ UNCHANGED <<docker, monVars, lease, mu, cmClosed, fatal>>

-----------------------------------------------------------------------------
(* checkHealth, once per tick.                                             *)

Tick ==
  /\ mon = "tick" /\ ~fatal
  /\ mon' = "list"
  /\ UNCHANGED <<daemonVars, seen, toRemove, need, newId, clientVars>>

\* The daemon answers, with the containers there are at that moment ...
ListContainers ==
  /\ mon = "list" /\ ~fatal
  /\ seen' = Existing
  /\ mon' = "read"
  /\ UNCHANGED <<daemonVars, toRemove, need, newId, clientVars>>

\* ... or with an error, and the round is over.
ListFails ==
  /\ mon = "list" /\ ~fatal
  /\ mon' = "tick"
  /\ UNCHANGED <<daemonVars, seen, toRemove, need, newId, clientVars>>

\* Mutant: the state in the registry is not looked at.
ReadRegistryAll ==
  /\ mon = "read" /\ ~fatal
  /\ seen' = {id \in seen : containers[id] # "absent"}
  /\ mon' = "mark"
  /\ UNCHANGED <<daemonVars, toRemove, need, newId, clientVars>>

\* Without the mutex.  A listed container counts as working unless its entry
\* says error, even if it has stopped.
ReadRegistry ==
  /\ mon = "read" /\ ~fatal
  /\ seen' = {id \in seen : containers[id] \in {"idle", "busy"}}
  /\ mon' = "mark"
  /\ UNCHANGED <<daemonVars, toRemove, need, newId, clientVars>>

MarkContainers ==
  /\ mon = "mark" /\ ~mu /\ ~fatal
  /\ toRemove' = Registered \ seen
  /\ need' = Missing(Cardinality(Registered) - Cardinality(Registered \ seen))
  /\ mon' = "remove"
  /\ UNCHANGED <<daemonVars, seen, newId, clientVars>>

RemoveMarked(id) ==
  /\ mon = "remove" /\ id \in toRemove
  /\ SpawnRemoval(Monitor, id)
  /\ toRemove' = toRemove \ {id}
  /\ UNCHANGED <<daemonVars, mon, seen, need, newId, lease, mu, cmClosed, fatal>>

\* If nothing has to be started, working containers beyond MaxWorkers go.
FinishRemove ==
  /\ mon = "remove" /\ toRemove = {} /\ removal[Monitor].phase = "none"
  /\ ~mu /\ ~fatal
  /\ \E S \in SUBSET Registered :
       /\ Cardinality(S) = IF need = 0 THEN Excess(Cardinality(seen)) ELSE 0
       /\ \E gone \in SUBSET S : RemoveExcess(containers, S, gone)
  /\ mon' = "starting"
  /\ seen' = {}
  /\ UNCHANGED <<toRemove, need, newId, clientVars>>

FinishHealthCheck ==
  /\ mon = "starting" /\ need = 0 /\ ~fatal
  /\ mon' = "tick"
  /\ UNCHANGED <<daemonVars, seen, toRemove, need, newId, clientVars>>

-----------------------------------------------------------------------------
(* The operations of the worker goroutines.                                *)

\* Mutant: any registered container is handed out.
GetAnyContainer(w, id) ==
  /\ lease[w] = NoId /\ ~mu /\ ~fatal
  /\ containers[id] # "absent"
  /\ containers' = [containers EXCEPT ![id] = "busy"]
  /\ lease' = [lease EXCEPT ![w] = id]
  /\ UNCHANGED <<docker, monVars, removal, mu, cmClosed, fatal>>

\* GetAvailableContainer hands out any idle container.
GetAvailableContainer(w, id) ==
  /\ lease[w] = NoId /\ ~mu /\ ~fatal
  /\ containers[id] = "idle"
  /\ containers' = [containers EXCEPT ![id] = "busy"]
  /\ lease' = [lease EXCEPT ![w] = id]
  /\ UNCHANGED <<docker, monVars, removal, mu, cmClosed, fatal>>

\* Mutant: a removed container comes back.
UpdatedAlways(id, state) == [containers EXCEPT ![id] = state]

\* SetContainerState has no effect on a container that is not registered.
Updated(id, state) ==
  IF containers[id] = "absent" THEN containers ELSE [containers EXCEPT ![id] = state]

\* The worker is done with its container: SetContainerState(id, StateIdle).
ReleaseContainer(w) ==
  /\ lease[w] # NoId /\ ~mu /\ ~fatal
  /\ containers' = Updated(lease[w], "idle")
  /\ lease' = [lease EXCEPT ![w] = NoId]
  /\ UNCHANGED <<docker, monVars, removal, mu, cmClosed, fatal>>

-----------------------------------------------------------------------------
(* Shutdown.                                                               *)

\* The registered containers are removed, errors ignored ...
ShutdownContainers ==
  /\ ~mu /\ ~cmClosed /\ ~fatal
  /\ mu' = TRUE
  /\ \E gone \in SUBSET Registered :
       docker' = [id \in Ids |-> IF id \in gone THEN "gone" ELSE docker[id]]
  /\ UNCHANGED <<containers, monVars, removal, lease, cmClosed, fatal>>

\* ... and a new, empty map takes the place of the registry.
ShutdownRegistry ==
  /\ mu /\ ~fatal
  /\ containers' = [id \in Ids |-> "absent"]
  /\ mu' = FALSE
  /\ cmClosed' = TRUE
  /\ UNCHANGED <<docker, monVars, removal, lease, fatal>>

-----------------------------------------------------------------------------
\* The main process of a container ends, on its own or killed (external).  What
\* becomes of the containers after the process was aborted is not followed.
ContainerExits(id) ==
  /\ ~fatal
  /\ docker[id] = "running"
  /\ docker' = [docker EXCEPT ![id] = "exited"]
  /\ UNCHANGED <<containers, monVars, clientVars>>

\* While r is inside the deletion some other access of the map is under way:
\* a deletion, one of the monitor or of Shutdown, or one of a worker.  An entry
\* deleted between the two lookups of checkHealth, a nil dereference, is the
\* same for what follows.
MapRace(workerAccess) ==
  /\ ~fatal
  /\ \E r \in Removers \cup {Monitor} :
       /\ removal[r].phase = "delete"
       /\ \/ \E q \in Removers \cup {Monitor} : q # r /\ removal[q].phase = "delete"
          \/ r # Monitor /\ mon \in {"read", "mark", "starting", "register"}
          \/ mu
          \/ workerAccess
  /\ fatal' = TRUE
  /\ UNCHANGED <<daemonVars, monVars, removal, lease, mu, cmClosed>>

\* What the monitor does by itself ...
MonitorOwnStep ==
  \/ FinishInitialize \/ RegisterContainer
  \/ Tick \/ ReadRegistry \/ MarkContainers \/ FinishRemove \/ FinishHealthCheck
  \/ \E id \in Ids : RemoveMarked(id)

\* ... and what it waits for the daemon to answer, without a deadline.
MonitorStep ==
  \/ MonitorOwnStep
  \/ InitializePool \/ InitializeFails
  \/ ListContainers \/ ListFails
  \/ StartNothing \/ \E id \in Ids : StartFails(id) \/ StartContainer(id)

RemoverStep(r) == RemoveCall(r) \/ RemoveDelete(r)

\* What the rest of the executor does, at any time once the pool is ready.
ClientStep ==
  \/ ShutdownRegistry
  \/ /\ Ready
     /\ \/ \E w \in Workers, id \in Ids : GetAvailableContainer(w, id)
        \/ \E w \in Workers : ReleaseContainer(w)
        \/ \E r \in Removers, id \in Ids :
             /\ docker[id] # "fresh" /\ id # newId
             /\ SpawnRemoval(r, id)
             /\ UNCHANGED <<daemonVars, monVars, lease, mu, cmClosed, fatal>>
        \/ ShutdownContainers

CMNext ==
  \/ MonitorStep
  \/ \E r \in Removers \cup {Monitor} : RemoverStep(r)
  \/ ClientStep
  \/ \E id \in Ids : ContainerExits(id)
  \/ MapRace(Ready)

CMSpec == CMInit /\ [][CMNext]_cmVars

\* What the code gives: a runnable monitor is scheduled.  Its calls of the daemon
\* have no deadline, and neither have those of a Shutdown that holds the mutex.
CMFairness ==
  /\ WF_cmVars(MonitorOwnStep)
  /\ WF_cmVars(RemoveDelete(Monitor))

\* What nothing in the code gives: a daemon that answers every call, and when it
\* is asked again and again does list the containers and start one in the end.
DaemonAnswers ==
  /\ WF_cmVars(MonitorStep)
  /\ WF_cmVars(RemoveCall(Monitor))
  /\ WF_cmVars(ShutdownRegistry)
  /\ SF_cmVars(ListContainers)
  /\ SF_cmVars(\E id \in Ids : StartContainer(id))

CMFairSpec == CMSpec /\ CMFairness
CMDaemonSpec == CMFairSpec /\ DaemonAnswers

-----------------------------------------------------------------------------
CMTypeOK ==
  /\ docker \in [Ids -> {"fresh", "created", "running", "exited", "gone"}]
  /\ containers \in [Ids -> {"absent", "idle", "busy", "error"}]
  /\ mon \in {"init", "filling", "fillRegister", "failed", "tick", "list", "read", "mark",
              "remove", "starting", "register"}
  /\ seen \in SUBSET Ids
  /\ toRemove \in SUBSET Ids
  /\ need \in 0..MaxWorkers
  /\ newId \in Ids \cup {NoId}
  /\ newId # NoId <=> mon \in {"fillRegister", "register"}
  /\ newId # NoId => need > 0
  /\ removal \in [Removers \cup {Monitor} ->
                    [phase : {"none", "call", "delete", "done"}, id : Ids \cup {NoId}]]
  /\ lease \in [Workers -> Ids \cup {NoId}]
  /\ mu \in BOOLEAN /\ cmClosed \in BOOLEAN /\ fatal \in BOOLEAN

\* No two workers have the same container, whatever is removed under their
\* hands, replaced by the monitor or put back late.
LeaseExclusive ==
  \A w, v \in Workers : lease[w] = lease[v] /\ lease[w] # NoId => w = v

\* A container marked busy is some worker's: none is out of use for ever.
BusyIsLeased ==
  \A id \in Ids : containers[id] = "busy" => \E w \in Workers : lease[w] = id

\* The registry never exceeds MaxWorkers, the container that was started and
\* will be registered included, although StartContainer lets go of the mutex
\* between its check and the registration.
RegistryBound ==
  Cardinality(Registered) + (IF newId = NoId THEN 0 ELSE 1) <= MaxWorkers

\* A container that was found stopped is never used: its entry stays in state
\* error until it is deleted.
ErrorIsFinal ==
  [][\A id \in Ids : containers[id] = "error" => containers'[id] \in {"error", "absent"}]_cmVars

\* The containers that are lent, or may be, and the ids that may still join them.
Lendable == {id \in Ids : containers[id] \in {"idle", "busy"}}
MayJoin == {id \in Ids : mon = "init" \/ docker[id] = "fresh" \/ id = newId}

Leases == INSTANCE ContainerLeases WITH pool <- Lendable, fresh <- MayJoin

\* The manager lends containers as ContainerLeases promises, whatever else its
\* goroutines do to the registry: a container that was removed, or was found
\* stopped, is lent to nobody any more, not even after a late SetContainerState.
ImplementsContainerLeases == Leases!Spec

\* Nothing but these conditions keeps the monitor from its next step: cm.mu while
\* Shutdown removes the containers, a call of RemoveContainer of its own, and the
\* daemon ...
MonitorReady ==
  \/ mon \in {"tick", "read"}
  \/ mon \in {"mark", "register"} /\ ~mu
  \/ mon = "remove" /\ removal[Monitor].phase = "none" /\ (toRemove # {} \/ ~mu)
  \/ mon = "starting" /\ need = 0

MonitorMoves ==
  /\ ~fatal /\ MonitorReady => ENABLED <<MonitorOwnStep>>_cmVars
  /\ ~fatal /\ ~mu /\ mon = "starting" => ENABLED <<MonitorStep>>_cmVars
  /\ ~fatal /\ mon = "list" => ENABLED <<ListContainers>>_cmVars

\* ... nothing but the daemon such a call and a Shutdown that holds cm.mu ...
RemovalMoves ==
  /\ ~fatal /\ removal[Monitor].phase = "call" => ENABLED <<RemoveCall(Monitor)>>_cmVars
  /\ ~fatal /\ removal[Monitor].phase = "delete" => ENABLED <<RemoveDelete(Monitor)>>_cmVars

RegistryMoves == ~fatal /\ mu => ENABLED <<ShutdownRegistry>>_cmVars

\* ... and a container is started where one is missing, if the daemon does it.
StartMoves ==
  /\ ~fatal /\ ~mu
  /\ mon = "starting" /\ need > 0
  /\ Cardinality(Registered) < MaxWorkers
  /\ \E id \in Ids : docker[id] = "fresh"
  => ENABLED <<\E id \in Ids : StartContainer(id)>>_cmVars

NothingBlocksManager == MonitorMoves /\ RemovalMoves /\ RegistryMoves /\ StartMoves

\* The daemon never answers a call again: one that starts a container, one that
\* lists them (or does so with errors only), one that removes one, for the monitor
\* or for a Shutdown that holds cm.mu.
StartHangs(n) == [](mon = "starting" /\ need = n)

DaemonHangs ==
  \/ \E n \in 1..MaxWorkers : StartHangs(n)
  \/ [](mon \in {"tick", "list"})
  \/ [](removal[Monitor].phase = "call")
  \/ []mu

\* A pool that has lost containers is filled up again, unless the process was
\* aborted or the ids run out: if the daemon answers.
PoolRefills ==
  DaemonAnswers =>
    ((Ready /\ Cardinality(Registered) < MaxWorkers)
       ~> (Cardinality(Registered) = MaxWorkers \/ fatal \/ \A id \in Ids : docker[id] # "fresh"))

\* A container in state error leaves the registry, unless the daemon does not
\* answer: nothing else can keep the monitor from it, round after round.
ErrorsLeaveOrHangs ==
  \A id \in Ids :
    (Ready /\ containers[id] = "error") ~> (containers[id] = "absent" \/ fatal \/ DaemonHangs)

-----------------------------------------------------------------------------
(* What the comments say, and the code does not do.                        *)

\* "checkHealth ensures container health and count": a registered container
\* that has stopped does not stay in the registry.
StoppedLeaves ==
  \A id \in Ids :
    (Ready /\ containers[id] # "absent" /\ docker[id] = "exited")
      ~> (containers[id] = "absent" \/ fatal)

\* "RemoveContainer safely removes a container": it does not make the runtime
\* abort the process.
RemovalIsSafe == ~fatal

=============================================================================
