---------------------- MODULE ContainerManager_proofs ----------------------
(***************************************************************************)
(* What holds of ContainerManager for any number of containers, workers    *)
(* and goroutines that remove containers.                                  *)
(***************************************************************************)
EXTENDS ContainerManager, FiniteSetTheorems, TLAPS

\* The registry is finite, so its size is a number.
LEMMA RegisteredFinite ==
  ASSUME NEW S \in SUBSET Ids
  PROVE  IsFiniteSet(S) /\ Cardinality(S) \in Nat
BY ContainerManagerAssumption, FS_Subset, FS_CardinalityType

LEMMA MissingType ==
  ASSUME NEW n \in Nat
  PROVE  Missing(n) \in 0..MaxWorkers /\ Excess(n) \in Nat /\ n - Excess(n) <= MaxWorkers
BY ContainerManagerAssumption DEF Missing, Excess

-----------------------------------------------------------------------------
LEMMA CMInitTypeOK == CMInit => CMTypeOK
<1> SUFFICES ASSUME CMInit PROVE CMTypeOK
  OBVIOUS
<1>1. docker \in [Ids -> {"fresh", "created", "running", "exited", "gone"}]
  BY DEF CMInit
<1>2. NoRemoval \in [phase : {"none", "call", "delete", "done"}, id : Ids \cup {NoId}]
  BY DEF NoRemoval
<1>3. removal \in [Removers \cup {Monitor} ->
                     [phase : {"none", "call", "delete", "done"}, id : Ids \cup {NoId}]]
  BY <1>2 DEF CMInit
<1>4. need \in 0..MaxWorkers
  BY ContainerManagerAssumption DEF CMInit
<1> QED
  BY <1>1, <1>3, <1>4 DEF CMInit, CMTypeOK

\* The steps of the monitor but for the removals.
LEMMA MonitorTypeOK == CMTypeOK /\ MonitorStep => CMTypeOK'
<1> SUFFICES ASSUME CMTypeOK, MonitorStep
             PROVE  CMTypeOK'
  OBVIOUS
<1> USE ContainerManagerAssumption
<1>1. CASE InitializePool
  <2>1. Existing \in SUBSET Ids
    BY DEF Existing
  <2>2. need' \in 0..MaxWorkers
    BY <1>1, <2>1, RegisteredFinite, MissingType DEF InitializePool
  <2>3. PICK S \in SUBSET Existing, gone \in SUBSET Existing : RemoveExcess(Found, S, gone)
    BY <1>1 DEF InitializePool
  <2>4. /\ containers' \in [Ids -> {"absent", "idle", "busy", "error"}]
        /\ docker' \in [Ids -> {"fresh", "created", "running", "exited", "gone"}]
    BY <2>3 DEF RemoveExcess, Found, CMTypeOK
  <2> QED
    BY <1>1, <2>2, <2>4 DEF InitializePool, CMTypeOK, clientVars
<1>2. CASE InitializeFails \/ FinishInitialize \/ FinishHealthCheck
  BY <1>2 DEF InitializeFails, FinishInitialize, FinishHealthCheck, CMTypeOK, daemonVars,
     clientVars
<1>3. CASE StartNothing
  <2>1. need' \in 0..MaxWorkers /\ newId = NoId
    BY <1>3 DEF StartNothing, CanStart, CMTypeOK
  <2> QED
    BY <1>3, <2>1 DEF StartNothing, CanStart, CMTypeOK, daemonVars, clientVars
<1>4. CASE RegisterContainer
  <2>1. need' \in 0..MaxWorkers
    BY <1>4 DEF RegisterContainer, CMTypeOK
  <2> QED
    BY <1>4, <2>1 DEF RegisterContainer, CMTypeOK, clientVars
<1>5. ASSUME NEW id \in Ids, StartFails(id)
      PROVE  CMTypeOK'
  BY <1>5 DEF StartFails, CanStart, CMTypeOK, clientVars
<1>6. ASSUME NEW id \in Ids, StartContainer(id)
      PROVE  CMTypeOK'
  BY <1>6 DEF StartContainer, CanStart, CMTypeOK, clientVars
<1>7. ASSUME NEW id \in Ids, RemoveMarked(id)
      PROVE  CMTypeOK'
  BY <1>7 DEF RemoveMarked, SpawnRemoval, CMTypeOK, daemonVars
<1>8. CASE Tick \/ ListContainers \/ ListFails \/ ReadRegistry
  BY <1>8 DEF Tick, ListContainers, ListFails, ReadRegistry, Existing, CMTypeOK,
     daemonVars, clientVars
<1>9. CASE MarkContainers
  <2>1. Registered \in SUBSET Ids
    BY DEF Registered
  <2> DEFINE n == Cardinality(Registered) - Cardinality(Registered \ seen)
  <2>2. n \in Nat
    BY <2>1, RegisteredFinite, FS_Subset
  <2>3. need' \in 0..MaxWorkers
    BY <1>9, <2>2, MissingType DEF MarkContainers
  <2> QED
    BY <1>9, <2>1, <2>3 DEF MarkContainers, CMTypeOK, daemonVars, clientVars
<1>10. CASE FinishRemove
  <2>1. PICK S \in SUBSET Registered, gone \in SUBSET Registered : RemoveExcess(containers, S, gone)
    BY <1>10 DEF FinishRemove
  <2>2. /\ containers' \in [Ids -> {"absent", "idle", "busy", "error"}]
        /\ docker' \in [Ids -> {"fresh", "created", "running", "exited", "gone"}]
    BY <2>1 DEF RemoveExcess, CMTypeOK
  <2> QED
    BY <1>10, <2>2 DEF FinishRemove, CMTypeOK, clientVars
<1> QED
  BY <1>1, <1>2, <1>3, <1>4, <1>5, <1>6, <1>7, <1>8, <1>9, <1>10 DEF MonitorStep,
     MonitorOwnStep

LEMMA CMNextTypeOK == CMTypeOK /\ [CMNext]_cmVars => CMTypeOK'
<1> SUFFICES ASSUME CMTypeOK, [CMNext]_cmVars
             PROVE  CMTypeOK'
  OBVIOUS
<1>1. CASE MonitorStep
  BY <1>1, MonitorTypeOK
<1>2. ASSUME NEW r \in Removers \cup {Monitor}, RemoverStep(r)
      PROVE  CMTypeOK'
  <2>1. CASE RemoveCall(r)
    BY <2>1 DEF RemoveCall, CMTypeOK, monVars
  <2>2. CASE RemoveDelete(r)
    <3>1. containers' \in [Ids -> {"absent", "idle", "busy", "error"}]
      BY <2>2 DEF RemoveDelete, CMTypeOK
    <3>2. removal' \in [Removers \cup {Monitor} ->
                          [phase : {"none", "call", "delete", "done"}, id : Ids \cup {NoId}]]
      BY <2>2 DEF RemoveDelete, CMTypeOK, NoRemoval
    <3> QED
      BY <2>2, <3>1, <3>2 DEF RemoveDelete, CMTypeOK, monVars
  <2> QED
    BY <1>2, <2>1, <2>2 DEF RemoverStep
<1>3. CASE ClientStep
  <2>1. ASSUME NEW w \in Workers, NEW id \in Ids, GetAvailableContainer(w, id)
        PROVE  CMTypeOK'
    BY <2>1 DEF GetAvailableContainer, CMTypeOK, monVars
  <2>2. ASSUME NEW w \in Workers, ReleaseContainer(w)
        PROVE  CMTypeOK'
    BY <2>2 DEF ReleaseContainer, Updated, CMTypeOK, monVars
  <2>3. ASSUME NEW r \in Removers, NEW id \in Ids, SpawnRemoval(r, id),
               UNCHANGED <<daemonVars, monVars, lease, mu, cmClosed, fatal>>
        PROVE  CMTypeOK'
    BY <2>3 DEF SpawnRemoval, CMTypeOK, daemonVars, monVars
  <2>4. CASE ShutdownContainers \/ ShutdownRegistry
    BY <2>4 DEF ShutdownContainers, ShutdownRegistry, CMTypeOK, monVars
  <2> QED
    BY <1>3, <2>1, <2>2, <2>3, <2>4 DEF ClientStep
<1>4. ASSUME NEW id \in Ids, ContainerExits(id)
      PROVE  CMTypeOK'
  BY <1>4 DEF ContainerExits, CMTypeOK, monVars, clientVars
<1>5. CASE MapRace(Ready)
  BY <1>5 DEF MapRace, CMTypeOK, daemonVars, monVars
<1>6. CASE UNCHANGED cmVars
  BY <1>6 DEF cmVars, CMTypeOK
<1> QED
  BY <1>1, <1>2, <1>3, <1>4, <1>5, <1>6 DEF CMNext

\* Every variable keeps its type; the monitor never has more than MaxWorkers
\* containers to start.
THEOREM ManagerTypeCorrect == CMSpec => []CMTypeOK
BY CMInitTypeOK, CMNextTypeOK, PTL DEF CMSpec

-----------------------------------------------------------------------------
(* Containers and leases.  An id that is registered, leased or about to be *)
(* registered was handed out by the daemon, so StartContainer never starts *)
(* it again; a leased container can lose its entry, but no other worker    *)
(* finds it idle until it is released.                                     *)

HandedOut ==
  /\ \A id \in Ids : containers[id] # "absent" => docker[id] # "fresh"
  /\ \A w \in Workers : lease[w] # NoId => docker[lease[w]] # "fresh"
  /\ newId # NoId => docker[newId] # "fresh"

NewIsUnused ==
  newId # NoId => containers[newId] = "absent" /\ \A w \in Workers : lease[w] # newId

LeasedIsBusy ==
  \A w \in Workers : lease[w] # NoId => containers[lease[w]] \in {"busy", "absent"}

NothingBeforeReady ==
  /\ ~Ready => \A w \in Workers : lease[w] = NoId
  /\ mon = "init" => \A id \in Ids : containers[id] = "absent"

LeaseInv ==
  /\ CMTypeOK
  /\ HandedOut
  /\ NewIsUnused
  /\ LeasedIsBusy
  /\ NothingBeforeReady
  /\ LeaseExclusive
  /\ BusyIsLeased

LEMMA LeaseInvInit == CMInit => LeaseInv
<1> SUFFICES ASSUME CMInit PROVE LeaseInv
  OBVIOUS
<1>1. CMTypeOK
  BY CMInitTypeOK
<1> QED
  BY <1>1 DEF CMInit, LeaseInv, HandedOut, NewIsUnused, LeasedIsBusy, NothingBeforeReady,
              LeaseExclusive, BusyIsLeased

\* A step that takes entries out of the registry, wakes no container and
\* leaves the leases alone keeps what the leases rely on.
LEMMA DroppingEntries ==
  ASSUME LeaseInv, CMTypeOK',
         \A id \in Ids : containers'[id] \in {containers[id], "absent"},
         \A id \in Ids : docker'[id] = "fresh" => docker[id] = "fresh",
         lease' = lease, newId' = newId,
         Ready => Ready', mon' = "init" => mon = "init"
  PROVE  LeaseInv'
<1> USE ContainerManagerAssumption
<1>1. HandedOut' /\ NewIsUnused' /\ LeasedIsBusy'
  BY DEF LeaseInv, CMTypeOK, HandedOut, NewIsUnused, LeasedIsBusy
<1>2. NothingBeforeReady'
  BY DEF LeaseInv, CMTypeOK, NothingBeforeReady
<1>3. LeaseExclusive' /\ BusyIsLeased'
  BY DEF LeaseInv, CMTypeOK, LeaseExclusive, BusyIsLeased
<1> QED
  BY <1>1, <1>2, <1>3 DEF LeaseInv

LEMMA LeaseInvMonitor == LeaseInv /\ MonitorStep => LeaseInv'
<1> SUFFICES ASSUME LeaseInv, MonitorStep PROVE LeaseInv'
  OBVIOUS
<1> USE ContainerManagerAssumption
<1>0. CMTypeOK /\ CMTypeOK'
  BY MonitorTypeOK DEF LeaseInv
<1>1. CASE InitializePool
  <2>1. PICK S \in SUBSET Existing, gone \in SUBSET Existing : RemoveExcess(Found, S, gone)
    BY <1>1 DEF InitializePool
  <2>2. /\ mon = "init" /\ mon' = "filling" /\ lease' = lease
        /\ newId = NoId /\ newId' = NoId
        /\ \A w \in Workers : lease[w] = NoId
    BY <1>0, <1>1 DEF InitializePool, clientVars, CMTypeOK, LeaseInv, NothingBeforeReady,
       Ready
  <2>3. \A id \in Ids : /\ containers'[id] \in {"absent", "idle", "error"}
                        /\ containers'[id] # "absent" => docker[id] # "fresh"
                        /\ docker'[id] = "fresh" => docker[id] = "fresh"
    BY <2>1 DEF RemoveExcess, Found, Existing
  <2> QED
    BY <1>0, <2>2, <2>3 DEF LeaseInv, HandedOut, NewIsUnused, LeasedIsBusy,
       NothingBeforeReady, LeaseExclusive, BusyIsLeased, Ready
<1>2. CASE InitializeFails \/ FinishInitialize \/ StartNothing \/ FinishHealthCheck
  BY <1>0, <1>2, DroppingEntries
     DEF InitializeFails, FinishInitialize, StartNothing, CanStart,
        FinishHealthCheck, daemonVars, clientVars, Ready
<1>3. CASE RegisterContainer
  <2>1. /\ newId \in Ids /\ newId # NoId /\ newId' = NoId
        /\ mon' # "init" /\ lease' = lease /\ docker' = docker
        /\ \A id \in Ids : containers'[id] = IF id = newId THEN "idle" ELSE containers[id]
        /\ Ready' <=> Ready
    BY <1>0, <1>3 DEF RegisterContainer, CMTypeOK, clientVars, Ready
  <2>2. HandedOut' /\ NewIsUnused' /\ LeasedIsBusy'
    BY <1>0, <2>1 DEF LeaseInv, HandedOut, NewIsUnused, LeasedIsBusy, CMTypeOK
  <2>3. NothingBeforeReady' /\ LeaseExclusive' /\ BusyIsLeased'
    BY <1>0, <2>1 DEF LeaseInv, NothingBeforeReady, LeaseExclusive, BusyIsLeased, CMTypeOK
  <2> QED
    BY <1>0, <2>2, <2>3 DEF LeaseInv
<1>4. ASSUME NEW id \in Ids, StartFails(id)
      PROVE  LeaseInv'
  BY <1>0, <1>4, DroppingEntries DEF StartFails, CanStart, clientVars, CMTypeOK, Ready
<1>5. ASSUME NEW id \in Ids, StartContainer(id)
      PROVE  LeaseInv'
  <2>1. /\ docker[id] = "fresh" /\ newId' = id
        /\ \A i \in Ids : docker'[i] = IF i = id THEN "running" ELSE docker[i]
        /\ containers' = containers /\ lease' = lease
        /\ mon' # "init" /\ Ready' = Ready
    BY <1>0, <1>5 DEF StartContainer, CanStart, CMTypeOK, clientVars, Ready
  <2>2. HandedOut' /\ NewIsUnused' /\ LeasedIsBusy'
    BY <1>0, <2>1 DEF LeaseInv, HandedOut, NewIsUnused, LeasedIsBusy, CMTypeOK
  <2>3. NothingBeforeReady' /\ LeaseExclusive' /\ BusyIsLeased'
    BY <1>0, <2>1 DEF LeaseInv, NothingBeforeReady, LeaseExclusive, BusyIsLeased, CMTypeOK
  <2> QED
    BY <1>0, <2>2, <2>3 DEF LeaseInv
<1>6. ASSUME NEW id \in Ids, RemoveMarked(id)
      PROVE  LeaseInv'
  BY <1>0, <1>6, DroppingEntries DEF RemoveMarked, daemonVars, Ready
<1>7. CASE Tick \/ ListContainers \/ ListFails \/ ReadRegistry \/ MarkContainers
  BY <1>0, <1>7, DroppingEntries
     DEF Tick, ListContainers, ListFails, ReadRegistry, MarkContainers, daemonVars,
        clientVars, Ready
<1>8. CASE FinishRemove
  <2>1. PICK S \in SUBSET Registered, gone \in SUBSET Registered : RemoveExcess(containers, S, gone)
    BY <1>8 DEF FinishRemove
  <2>2. \A id \in Ids : /\ containers'[id] \in {containers[id], "absent"}
                        /\ docker'[id] = "fresh" => docker[id] = "fresh"
    BY <2>1 DEF RemoveExcess
  <2> QED
    BY <1>0, <1>8, <2>2, DroppingEntries DEF FinishRemove, clientVars, Ready
<1> QED
  BY <1>1, <1>2, <1>3, <1>4, <1>5, <1>6, <1>7, <1>8 DEF MonitorStep, MonitorOwnStep

LEMMA LeaseInvNext == LeaseInv /\ [CMNext]_cmVars => LeaseInv'
<1> SUFFICES ASSUME LeaseInv, [CMNext]_cmVars PROVE LeaseInv'
  OBVIOUS
<1> USE ContainerManagerAssumption
<1>0. CMTypeOK /\ CMTypeOK'
  BY CMNextTypeOK DEF LeaseInv
<1>1. CASE MonitorStep
  BY <1>1, LeaseInvMonitor
<1>2. ASSUME NEW r \in Removers \cup {Monitor}, RemoverStep(r)
      PROVE  LeaseInv'
  <2>1. CASE RemoveCall(r)
    <3>1. \A id \in Ids : docker'[id] = "fresh" => docker[id] = "fresh"
      BY <1>0, <2>1 DEF RemoveCall, CMTypeOK
    <3> QED
      BY <1>0, <2>1, <3>1, DroppingEntries DEF RemoveCall, monVars, Ready
  <2>2. CASE RemoveDelete(r)
    <3>1. \A id \in Ids : containers'[id] \in {containers[id], "absent"}
      BY <1>0, <2>2 DEF RemoveDelete, CMTypeOK
    <3> QED
      BY <1>0, <2>2, <3>1, DroppingEntries DEF RemoveDelete, monVars, Ready
  <2> QED
    BY <1>2, <2>1, <2>2 DEF RemoverStep
<1>3. CASE ClientStep
  <2>1. ASSUME NEW w \in Workers, NEW id \in Ids, GetAvailableContainer(w, id), Ready
        PROVE  LeaseInv'
    <3>1. /\ containers[id] = "idle" /\ lease[w] = NoId /\ id # NoId
          /\ \A i \in Ids : containers'[i] = IF i = id THEN "busy" ELSE containers[i]
          /\ \A v \in Workers : lease'[v] = IF v = w THEN id ELSE lease[v]
          /\ docker' = docker /\ newId' = newId /\ mon' = mon
      BY <1>0, <2>1 DEF GetAvailableContainer, CMTypeOK, monVars
    <3>2. HandedOut' /\ NewIsUnused' /\ LeasedIsBusy'
      BY <1>0, <3>1 DEF LeaseInv, HandedOut, NewIsUnused, LeasedIsBusy, CMTypeOK
    <3>3. NothingBeforeReady'
      BY <2>1, <3>1 DEF NothingBeforeReady, Ready
    <3>4. LeaseExclusive' /\ BusyIsLeased'
      BY <1>0, <3>1 DEF LeaseInv, LeasedIsBusy, LeaseExclusive, BusyIsLeased, CMTypeOK
    <3> QED
      BY <1>0, <3>2, <3>3, <3>4 DEF LeaseInv
  <2>2. ASSUME NEW w \in Workers, ReleaseContainer(w), Ready
        PROVE  LeaseInv'
    <3>1. /\ lease[w] \in Ids
          /\ \A i \in Ids : containers'[i] = IF i = lease[w] /\ containers[i] # "absent"
                                              THEN "idle" ELSE containers[i]
          /\ \A v \in Workers : lease'[v] = IF v = w THEN NoId ELSE lease[v]
          /\ docker' = docker /\ newId' = newId /\ mon' = mon
      BY <1>0, <2>2 DEF ReleaseContainer, Updated, CMTypeOK, monVars
    <3>2. HandedOut' /\ NewIsUnused' /\ LeasedIsBusy'
      BY <1>0, <3>1 DEF LeaseInv, HandedOut, NewIsUnused, LeasedIsBusy, LeaseExclusive,
         CMTypeOK
    <3>3. NothingBeforeReady'
      BY <2>2, <3>1 DEF NothingBeforeReady, Ready
    <3>4. LeaseExclusive' /\ BusyIsLeased'
      BY <1>0, <3>1 DEF LeaseInv, LeasedIsBusy, LeaseExclusive, BusyIsLeased, CMTypeOK
    <3> QED
      BY <1>0, <3>2, <3>3, <3>4 DEF LeaseInv
  <2>3. ASSUME NEW r \in Removers, NEW id \in Ids, SpawnRemoval(r, id),
               UNCHANGED <<daemonVars, monVars, lease, mu, cmClosed, fatal>>
        PROVE  LeaseInv'
    BY <1>0, <2>3, DroppingEntries DEF daemonVars, monVars, Ready
  <2>4. CASE ShutdownContainers
    <3>1. \A id \in Ids : docker'[id] = "fresh" => docker[id] = "fresh"
      BY <2>4 DEF ShutdownContainers
    <3> QED
      BY <1>0, <2>4, <3>1, DroppingEntries DEF ShutdownContainers, monVars, Ready
  <2>5. CASE ShutdownRegistry
    BY <1>0, <2>5, DroppingEntries DEF ShutdownRegistry, monVars, Ready
  <2> QED
    BY <1>3, <2>1, <2>2, <2>3, <2>4, <2>5 DEF ClientStep
<1>4. ASSUME NEW id \in Ids, ContainerExits(id)
      PROVE  LeaseInv'
  BY <1>0, <1>4, DroppingEntries DEF ContainerExits, CMTypeOK, monVars, clientVars, Ready
<1>5. CASE MapRace(Ready)
  BY <1>0, <1>5, DroppingEntries DEF MapRace, daemonVars, monVars, Ready
<1>6. CASE UNCHANGED cmVars
  BY <1>0, <1>6, DroppingEntries DEF cmVars, Ready
<1> QED
  BY <1>1, <1>2, <1>3, <1>4, <1>5, <1>6 DEF CMNext

LEMMA ManagerInvariant == CMSpec => []LeaseInv
BY LeaseInvInit, LeaseInvNext, PTL DEF CMSpec

\* No two workers ever hold the same container, whatever the monitor, the
\* removals and Shutdown do to the registry meanwhile.
THEOREM LeasesAreExclusive == CMSpec => []LeaseExclusive
<1>1. LeaseInv => LeaseExclusive
  BY DEF LeaseInv
<1> QED
  BY <1>1, ManagerInvariant, PTL

\* A container marked busy always has a worker that will release it.
THEOREM BusyContainersAreLeased == CMSpec => []BusyIsLeased
<1>1. LeaseInv => BusyIsLeased
  BY DEF LeaseInv
<1> QED
  BY <1>1, ManagerInvariant, PTL

-----------------------------------------------------------------------------
(* Containers found stopped.                                               *)

LEMMA ErrorStep ==
  LeaseInv /\ [CMNext]_cmVars
    => [\A id \in Ids : containers[id] = "error" => containers'[id] \in {"error", "absent"}]_cmVars
<1> SUFFICES ASSUME LeaseInv, CMNext, NEW id \in Ids, containers[id] = "error"
             PROVE  containers'[id] \in {"error", "absent"}
  BY DEF cmVars
<1> USE ContainerManagerAssumption
<1>0. CMTypeOK
  BY DEF LeaseInv
<1>1. CASE MonitorStep
  <2>1. ~InitializePool
    BY DEF InitializePool, LeaseInv, NothingBeforeReady
  <2>2. CASE RegisterContainer
    BY <1>0, <2>2 DEF RegisterContainer, CMTypeOK, LeaseInv, NewIsUnused
  <2>3. CASE FinishRemove
    BY <1>0, <2>3 DEF FinishRemove, RemoveExcess, CMTypeOK
  <2>4. CASE containers' = containers
    BY <2>4
  <2> QED
    BY <1>1, <2>1, <2>2, <2>3, <2>4
       DEF MonitorStep, MonitorOwnStep, InitializeFails, FinishInitialize, StartNothing,
          StartFails, StartContainer, RemoveMarked, Tick, ListContainers,
          ListFails, ReadRegistry, MarkContainers, FinishHealthCheck, daemonVars
<1>2. ASSUME NEW r \in Removers \cup {Monitor}, RemoverStep(r)
      PROVE  containers'[id] \in {"error", "absent"}
  BY <1>0, <1>2 DEF RemoverStep, RemoveCall, RemoveDelete, CMTypeOK
<1>3. CASE ClientStep
  <2>1. ASSUME NEW w \in Workers, NEW i \in Ids, GetAvailableContainer(w, i)
        PROVE  containers'[id] \in {"error", "absent"}
    BY <1>0, <2>1 DEF GetAvailableContainer, CMTypeOK
  <2>2. ASSUME NEW w \in Workers, ReleaseContainer(w)
        PROVE  containers'[id] \in {"error", "absent"}
    BY <1>0, <2>2 DEF ReleaseContainer, Updated, CMTypeOK, LeaseInv, LeasedIsBusy
  <2>3. CASE ShutdownContainers \/ ShutdownRegistry
    BY <2>3 DEF ShutdownContainers, ShutdownRegistry
  <2>4. CASE containers' = containers
    BY <2>4
  <2> QED
    BY <1>3, <2>1, <2>2, <2>3, <2>4 DEF ClientStep, daemonVars
<1>4. CASE containers' = containers
  BY <1>4
<1> QED
  BY <1>1, <1>2, <1>3, <1>4 DEF CMNext, ContainerExits, MapRace, daemonVars

\* A container that was found stopped is never handed to a worker.
THEOREM ErrorsAreFinal == CMSpec => ErrorIsFinal
BY ManagerInvariant, ErrorStep, PTL DEF CMSpec, ErrorIsFinal

-----------------------------------------------------------------------------
(* The size of the registry.                                               *)

\* Losing entries can only help.
LEMMA RegistryShrinks ==
  ASSUME CMTypeOK, RegistryBound, newId' = newId, Registered' \subseteq Registered
  PROVE  RegistryBound'
<1>1. Registered \in SUBSET Ids
  BY DEF Registered
<1>2. /\ Cardinality(Registered') <= Cardinality(Registered)
      /\ Cardinality(Registered) \in Nat /\ Cardinality(Registered') \in Nat
  BY <1>1, RegisteredFinite, FS_Subset
<1> QED
  BY <1>2, ContainerManagerAssumption DEF RegistryBound

LEMMA RegistryBoundNext == LeaseInv /\ RegistryBound /\ [CMNext]_cmVars => RegistryBound'
<1> SUFFICES ASSUME LeaseInv, RegistryBound, [CMNext]_cmVars
             PROVE  RegistryBound'
  OBVIOUS
<1> USE ContainerManagerAssumption
<1>0. CMTypeOK
  BY DEF LeaseInv
<1>a. Registered \in SUBSET Ids /\ IsFiniteSet(Registered) /\ Cardinality(Registered) \in Nat
  BY RegisteredFinite DEF Registered
<1>1. CASE InitializePool
  <2>1. PICK S \in SUBSET Existing :
          /\ Cardinality(S) = Excess(Cardinality(Existing))
          /\ \E gone \in SUBSET S : RemoveExcess(Found, S, gone)
    BY <1>1 DEF InitializePool
  <2>2. Existing \in SUBSET Ids /\ IsFiniteSet(Existing) /\ Cardinality(Existing) \in Nat
    BY RegisteredFinite DEF Existing
  <2>3. Registered' = Existing \ S
    BY <2>1, <2>2 DEF RemoveExcess, Found, Registered
  <2>4. Existing \cap S = S
    OBVIOUS
  <2>5. Cardinality(Existing \ S) = Cardinality(Existing) - Cardinality(S)
    BY <2>2, <2>4, FS_Difference
  <2>6. newId' = NoId
    BY <1>0, <1>1 DEF InitializePool, CMTypeOK
  <2> QED
    BY <2>1, <2>2, <2>3, <2>5, <2>6, MissingType DEF RegistryBound
<1>2. CASE RegisterContainer
  <2>1. Registered' \subseteq Registered \cup {newId}
    BY <1>0, <1>2 DEF RegisterContainer, CMTypeOK, Registered
  <2>2. newId # NoId /\ newId' = NoId /\ newId \notin Registered
    BY <1>0, <1>2 DEF RegisterContainer, CMTypeOK, LeaseInv, NewIsUnused, Registered
  <2>3. /\ IsFiniteSet(Registered \cup {newId})
        /\ Cardinality(Registered \cup {newId}) = Cardinality(Registered) + 1
    BY <1>a, <2>2, FS_AddElement
  <2>4. Cardinality(Registered') <= Cardinality(Registered) + 1 /\ Cardinality(Registered') \in Nat
    BY <1>a, <2>1, <2>3, FS_Subset, FS_CardinalityType
  <2> QED
    BY <1>a, <2>2, <2>4 DEF RegistryBound
<1>3. ASSUME NEW id \in Ids, StartContainer(id)
      PROVE  RegistryBound'
  <2>1. Registered' = Registered /\ Cardinality(Registered) < MaxWorkers /\ newId' = id
    BY <1>3 DEF StartContainer, Registered
  <2>2. Cardinality(Registered') + (IF newId' = NoId THEN 0 ELSE 1) <= MaxWorkers
    BY <1>a, <2>1
  <2> QED
    BY <2>2 DEF RegistryBound
<1>4. ASSUME Registered' \subseteq Registered, newId' = newId
      PROVE  RegistryBound'
  BY <1>0, <1>4, RegistryShrinks
<1>5. CASE MonitorStep
  <2>1. CASE containers' = containers /\ newId' = newId
    BY <1>4, <2>1 DEF Registered
  <2>2. CASE FinishRemove
    BY <1>4, <2>2 DEF FinishRemove, RemoveExcess, Registered
  <2> QED
    BY <1>1, <1>2, <1>3, <1>5, <2>1, <2>2
       DEF MonitorStep, MonitorOwnStep, InitializeFails, FinishInitialize, StartNothing,
          StartFails, RemoveMarked, Tick, ListContainers, ListFails,
          ReadRegistry, MarkContainers, FinishHealthCheck, daemonVars
<1>6. ASSUME NEW r \in Removers \cup {Monitor}, RemoverStep(r)
      PROVE  RegistryBound'
  <2>1. Registered' \subseteq Registered /\ newId' = newId
    BY <1>0, <1>6 DEF RemoverStep, RemoveCall, RemoveDelete, CMTypeOK, Registered, monVars
  <2> QED
    BY <1>4, <2>1
<1>7. CASE ClientStep
  <2>1. ASSUME NEW w \in Workers, NEW id \in Ids, GetAvailableContainer(w, id)
        PROVE  Registered' \subseteq Registered /\ newId' = newId
    BY <1>0, <2>1 DEF GetAvailableContainer, CMTypeOK, Registered, monVars
  <2>2. ASSUME NEW w \in Workers, ReleaseContainer(w)
        PROVE  Registered' \subseteq Registered /\ newId' = newId
    BY <1>0, <2>2 DEF ReleaseContainer, Updated, CMTypeOK, Registered, monVars
  <2>3. CASE ShutdownContainers \/ ShutdownRegistry
    BY <1>4, <2>3 DEF ShutdownContainers, ShutdownRegistry, Registered, monVars
  <2>4. CASE containers' = containers /\ newId' = newId
    BY <1>4, <2>4 DEF Registered
  <2> QED
    BY <1>4, <1>7, <2>1, <2>2, <2>3, <2>4 DEF ClientStep, daemonVars, monVars
<1>8. CASE containers' = containers /\ newId' = newId
  BY <1>4, <1>8 DEF Registered
<1> QED
  BY <1>5, <1>6, <1>7, <1>8 DEF CMNext, ContainerExits, MapRace, daemonVars, monVars, cmVars

\* The pool never has more than MaxWorkers containers, although StartContainer
\* creates one between two critical sections: only the monitor starts any.
THEOREM RegistryIsBounded == CMSpec => []RegistryBound
<1>1. CMInit => RegistryBound
  <2> SUFFICES ASSUME CMInit PROVE RegistryBound
    OBVIOUS
  <2>1. Registered = {} /\ newId = NoId
    BY DEF CMInit, Registered
  <2> QED
    BY <2>1, FS_EmptySet, ContainerManagerAssumption DEF RegistryBound
<1> QED
  BY <1>1, RegistryBoundNext, ManagerInvariant, PTL DEF CMSpec

-----------------------------------------------------------------------------
(* The manager implements ContainerLeases: a step of it provides, retires, *)
(* lends or takes back containers, or is not seen.                         *)

\* The registry bounds the containers that can be lent.
LendableBound == Cardinality(Lendable) <= MaxWorkers

LEMMA LendablesAreBounded == RegistryBound => LendableBound
<1> SUFFICES ASSUME RegistryBound
             PROVE  Cardinality(Lendable) <= MaxWorkers
  BY DEF LendableBound
<1>1. Registered \in SUBSET Ids /\ Lendable \subseteq Registered
  BY DEF Registered, Lendable
<1>2. /\ Cardinality(Lendable) <= Cardinality(Registered)
      /\ Cardinality(Registered) \in Nat /\ Cardinality(Lendable) \in Nat
  BY <1>1, RegisteredFinite, FS_Subset
<1> QED
  BY <1>2, ContainerManagerAssumption DEF RegistryBound

\* What a step may do to entries and ids if the leases stay as they are: add
\* some that may join, which then may not any more, ...
LEMMA ProvideStep ==
  ASSUME RegistryBound', lease' = lease, Lendable \subseteq Lendable',
         Lendable' \ Lendable \subseteq MayJoin,
         MayJoin' \subseteq MayJoin \ (Lendable' \ Lendable)
  PROVE  Leases!Next
<1> DEFINE S == Lendable' \ Lendable
<1>1. /\ S \in SUBSET Ids /\ Lendable' = Lendable \cup S
      /\ S \subseteq MayJoin /\ MayJoin' \in SUBSET (MayJoin \ S)
  BY DEF Lendable
<1>2. LendableBound'
  BY LendablesAreBounded, PTL
<1>3. Cardinality(Lendable \cup S) <= MaxWorkers
  BY <1>1, <1>2 DEF LendableBound
<1> HIDE DEF S
<1>4. Leases!Provide(S)
  BY <1>1, <1>3 DEF Leases!Provide, Leases!Cardinality, Cardinality
<1> QED
  BY <1>1, <1>4 DEF Leases!Next

\* ... or take some away.
LEMMA RetireStep ==
  ASSUME lease' = lease, Lendable' \subseteq Lendable, MayJoin' = MayJoin
  PROVE  Leases!Next
<1> DEFINE S == Lendable \ Lendable'
<1>1. S \in SUBSET Ids /\ Lendable' = Lendable \ S
  BY DEF Lendable
<1>2. Leases!Retire(S)
  BY <1>1 DEF Leases!Retire
<1> QED
  BY <1>1, <1>2 DEF Leases!Next

LEMMA MonitorProvides ==
  ASSUME LeaseInv, RegistryBound', MonitorStep
  PROVE  Leases!Next
<1> USE ContainerManagerAssumption
<1>0. CMTypeOK
  BY DEF LeaseInv
<1>1. CASE InitializePool
  <2>1. PICK S \in SUBSET Existing, gone \in SUBSET Existing : RemoveExcess(Found, S, gone)
    BY <1>1 DEF InitializePool
  <2>2. mon = "init" /\ mon' = "filling" /\ newId' = NoId /\ lease' = lease
    BY <1>0, <1>1 DEF InitializePool, CMTypeOK, clientVars
  <2>3. Lendable = {} /\ MayJoin = Ids
    BY <2>2 DEF Lendable, MayJoin, LeaseInv, NothingBeforeReady
  <2>4. Lendable' \subseteq Ids /\ MayJoin' \subseteq Ids \ Lendable'
    BY <2>1, <2>2 DEF Lendable, MayJoin, RemoveExcess, Found, Existing
  <2> QED
    BY <2>2, <2>3, <2>4, ProvideStep
<1>2. CASE InitializeFails \/ FinishInitialize \/ StartNothing \/ FinishHealthCheck
           \/ Tick \/ ListContainers \/ ListFails \/ ReadRegistry \/ MarkContainers
  <2>1. Lendable' = Lendable /\ MayJoin' \subseteq MayJoin /\ lease' = lease
    BY <1>2 DEF InitializeFails, FinishInitialize, StartNothing,
       FinishHealthCheck, CanStart, Tick, ListContainers, ListFails, ReadRegistry,
       MarkContainers, daemonVars, clientVars, Lendable, MayJoin
  <2> QED
    BY <2>1, ProvideStep
<1>3. CASE RegisterContainer
  <2>1. /\ newId \in Ids /\ newId # NoId /\ newId' = NoId /\ mon # "init" /\ mon' # "init"
        /\ docker[newId] # "fresh" /\ docker' = docker /\ lease' = lease
        /\ containers' = [containers EXCEPT ![newId] = "idle"]
    BY <1>0, <1>3 DEF RegisterContainer, CMTypeOK, LeaseInv, HandedOut, clientVars
  <2>2. Lendable' = Lendable \cup {newId} /\ newId \in MayJoin
    BY <1>0, <2>1 DEF Lendable, MayJoin, CMTypeOK
  <2>3. MayJoin' \subseteq MayJoin \ {newId}
    BY <2>1 DEF MayJoin
  <2> QED
    BY <2>1, <2>2, <2>3, ProvideStep
<1>4. ASSUME NEW id \in Ids, StartFails(id)
      PROVE  Leases!Next
  <2>1. Lendable' = Lendable /\ MayJoin' \subseteq MayJoin /\ lease' = lease
    BY <1>0, <1>4 DEF StartFails, CanStart, clientVars, Lendable, MayJoin, CMTypeOK
  <2> QED
    BY <2>1, ProvideStep
<1>5. ASSUME NEW id \in Ids, StartContainer(id)
      PROVE  Leases!Next
  <2>1. Lendable' = Lendable /\ MayJoin' \subseteq MayJoin /\ lease' = lease
    BY <1>0, <1>5 DEF StartContainer, CanStart, clientVars, Lendable, MayJoin, CMTypeOK
  <2> QED
    BY <2>1, ProvideStep
<1>6. ASSUME NEW id \in Ids, RemoveMarked(id)
      PROVE  Leases!Next
  <2>1. Lendable' = Lendable /\ MayJoin' \subseteq MayJoin /\ lease' = lease
    BY <1>6 DEF RemoveMarked, daemonVars, Lendable, MayJoin
  <2> QED
    BY <2>1, ProvideStep
<1>7. CASE FinishRemove
  <2>1. PICK S \in SUBSET Registered, gone \in SUBSET Registered : RemoveExcess(containers, S, gone)
    BY <1>7 DEF FinishRemove
  <2>2. mon # "init" /\ mon' # "init" /\ newId' = newId /\ lease' = lease
    BY <1>7 DEF FinishRemove, clientVars
  <2>3. \A id \in Registered : docker[id] # "fresh"
    BY DEF LeaseInv, HandedOut, Registered
  <2>4. Lendable' \subseteq Lendable
    BY <1>0, <2>1 DEF RemoveExcess, Lendable
  <2>5. MayJoin' = MayJoin
    BY <2>1, <2>2, <2>3 DEF RemoveExcess, MayJoin
  <2> QED
    BY <2>2, <2>4, <2>5, RetireStep
<1> QED
  BY <1>1, <1>2, <1>3, <1>4, <1>5, <1>6, <1>7 DEF MonitorStep, MonitorOwnStep

LEMMA LeasesSimulation ==
  LeaseInv /\ RegistryBound' /\ [CMNext]_cmVars => [Leases!Next]_(Leases!vars)
<1> SUFFICES ASSUME LeaseInv, RegistryBound', [CMNext]_cmVars
             PROVE  Leases!Next \/ UNCHANGED Leases!vars
  OBVIOUS
<1> USE ContainerManagerAssumption
<1>0. CMTypeOK
  BY DEF LeaseInv
<1>1. CASE MonitorStep
  BY <1>1, MonitorProvides
<1>2. ASSUME NEW r \in Removers \cup {Monitor}, RemoverStep(r)
      PROVE  Leases!Next
  <2>1. CASE RemoveCall(r)
    <3>1. Lendable' = Lendable /\ MayJoin' \subseteq MayJoin /\ lease' = lease
      BY <1>0, <2>1 DEF RemoveCall, monVars, Lendable, MayJoin, CMTypeOK
    <3> QED
      BY <3>1, ProvideStep
  <2>2. CASE RemoveDelete(r)
    <3>1. Lendable' \subseteq Lendable /\ MayJoin' = MayJoin /\ lease' = lease
      BY <1>0, <2>2 DEF RemoveDelete, monVars, Lendable, MayJoin, CMTypeOK
    <3> QED
      BY <3>1, RetireStep
  <2> QED
    BY <1>2, <2>1, <2>2 DEF RemoverStep
<1>3. CASE ClientStep
  <2>1. ASSUME NEW w \in Workers, NEW id \in Ids, GetAvailableContainer(w, id)
        PROVE  Leases!Next
    <3>1. Lendable' = Lendable /\ MayJoin' = MayJoin
      BY <1>0, <2>1 DEF GetAvailableContainer, monVars, Lendable, MayJoin, CMTypeOK
    <3>2. id \in Lendable \ Leases!Lent
      BY <2>1 DEF GetAvailableContainer, Lendable, Leases!Lent, LeaseInv, LeasedIsBusy
    <3>3. Leases!Lend(w, id)
      BY <2>1, <3>1, <3>2 DEF GetAvailableContainer, Leases!Lend
    <3> QED
      BY <3>3 DEF Leases!Next
  <2>2. ASSUME NEW w \in Workers, ReleaseContainer(w)
        PROVE  Leases!Next
    <3>1. lease[w] \in Ids /\ containers[lease[w]] \in {"busy", "absent"}
      BY <1>0, <2>2 DEF ReleaseContainer, CMTypeOK, LeaseInv, LeasedIsBusy
    <3>2. Lendable' = Lendable /\ MayJoin' = MayJoin
      BY <1>0, <2>2, <3>1 DEF ReleaseContainer, Updated, monVars, Lendable, MayJoin,
         CMTypeOK
    <3>3. Leases!GiveBack(w)
      BY <2>2, <3>2 DEF ReleaseContainer, Leases!GiveBack
    <3> QED
      BY <3>3 DEF Leases!Next
  <2>3. CASE ShutdownContainers
    <3>1. Lendable' = Lendable /\ MayJoin' \subseteq MayJoin /\ lease' = lease
      BY <2>3 DEF ShutdownContainers, monVars, Lendable, MayJoin
    <3> QED
      BY <3>1, ProvideStep
  <2>4. CASE ShutdownRegistry
    <3>1. Lendable' = {} /\ MayJoin' = MayJoin /\ lease' = lease
      BY <2>4 DEF ShutdownRegistry, monVars, Lendable, MayJoin
    <3> QED
      BY <3>1, RetireStep
  <2>5. CASE UNCHANGED <<daemonVars, monVars, lease>>
    <3>1. Lendable' = Lendable /\ MayJoin' = MayJoin /\ lease' = lease
      BY <2>5 DEF daemonVars, monVars, Lendable, MayJoin
    <3> QED
      BY <3>1, RetireStep
  <2> QED
    BY <1>3, <2>1, <2>2, <2>3, <2>4, <2>5 DEF ClientStep
<1>4. ASSUME NEW id \in Ids, ContainerExits(id)
      PROVE  Leases!Next
  <2>1. Lendable' = Lendable /\ MayJoin' \subseteq MayJoin /\ lease' = lease
    BY <1>0, <1>4 DEF ContainerExits, monVars, clientVars, Lendable, MayJoin, CMTypeOK
  <2> QED
    BY <2>1, ProvideStep
<1>5. CASE MapRace(Ready) \/ UNCHANGED cmVars
  <2>1. Lendable' = Lendable /\ MayJoin' = MayJoin /\ lease' = lease
    BY <1>5 DEF MapRace, cmVars, daemonVars, monVars, Lendable, MayJoin
  <2> QED
    BY <2>1, RetireStep
<1> QED
  BY <1>1, <1>2, <1>3, <1>4, <1>5 DEF CMNext

\* The manager lends containers as ContainerLeases promises: one to one worker, no
\* more than MaxWorkers, and none that has left the pool, for any number of
\* workers and removals, and during Shutdown.
THEOREM ManagerProvidesLeases == CMSpec => ImplementsContainerLeases
<1>1. CMInit => Leases!Init
  <2> SUFFICES ASSUME CMInit PROVE Leases!Init
    OBVIOUS
  <2>1. Lendable = {} /\ MayJoin = Ids
    BY DEF CMInit, Lendable, MayJoin
  <2> QED
    BY <2>1 DEF CMInit, Leases!Init
<1> QED
  BY <1>1, LeasesSimulation, ManagerInvariant, RegistryIsBounded, PTL
     DEF CMSpec, ImplementsContainerLeases, Leases!Spec

-----------------------------------------------------------------------------
(* The rounds of the monitor.                                              *)

\* Only the monitor moves the monitor.
LEMMA OthersLeaveMonitor == [CMNext]_cmVars => MonitorStep \/ UNCHANGED monVars
BY DEF CMNext, RemoverStep, RemoveCall, RemoveDelete, ClientStep, GetAvailableContainer,
   ReleaseContainer, ShutdownContainers, ShutdownRegistry, ContainerExits, MapRace,
   cmVars, monVars

\* A Remover does not touch the monitor's own removal; only Shutdown touches cm.mu.
LEMMA OthersLeaveRemoval ==
  [CMNext]_cmVars
    => \/ UNCHANGED removal
       \/ RemoverStep(Monitor)
       \/ \E id \in Ids : RemoveMarked(id)
       \/ \E r \in Removers : \E v : removal' = [removal EXCEPT ![r] = v]
<1> SUFFICES ASSUME [CMNext]_cmVars, removal' # removal, ~RemoverStep(Monitor),
                    ~\E id \in Ids : RemoveMarked(id)
             PROVE  \E r \in Removers : \E v : removal' = [removal EXCEPT ![r] = v]
  OBVIOUS
<1>1. CASE MonitorStep
  BY <1>1 DEF MonitorStep, MonitorOwnStep, InitializePool, InitializeFails,
     FinishInitialize, StartNothing, RegisterContainer, StartFails,
     StartContainer, Tick, ListContainers, ListFails, ReadRegistry, MarkContainers,
     FinishRemove, FinishHealthCheck, clientVars
<1>2. ASSUME NEW r \in Removers, RemoverStep(r)
      PROVE  \E v : removal' = [removal EXCEPT ![r] = v]
  <2>1. CASE RemoveCall(r)
    BY <2>1 DEF RemoveCall
  <2>2. CASE RemoveDelete(r)
    BY <2>2 DEF RemoveDelete
  <2> QED
    BY <1>2, <2>1, <2>2 DEF RemoverStep
<1>3. CASE ClientStep
  BY <1>3 DEF ClientStep, GetAvailableContainer, ReleaseContainer, ShutdownContainers,
     ShutdownRegistry, SpawnRemoval
<1>4. ~(\E id \in Ids : ContainerExits(id)) /\ ~MapRace(Ready)
  BY DEF ContainerExits, MapRace, clientVars
<1> QED
  BY <1>1, <1>2, <1>3, <1>4 DEF CMNext, cmVars

MonInv ==
  /\ Cardinality(toRemove) <= MaxWorkers
  /\ removal[Monitor].phase # "done"
  /\ removal[Monitor].phase # "none" => mon = "remove"
  /\ mon = "mark" => \A id \in seen : containers[id] # "error"
  /\ mu => ~cmClosed

\* Containers are found stopped before the pool is ready, and never again.
LEMMA NoNewErrors ==
  ASSUME LeaseInv, [CMNext]_cmVars, mon # "init", NEW id \in Ids, containers'[id] = "error"
  PROVE  containers[id] = "error"
<1>0. CMTypeOK
  BY DEF LeaseInv
<1>1. CASE MonitorStep
  <2>1. ~InitializePool
    BY DEF InitializePool
  <2>2. CASE RegisterContainer
    BY <1>0, <2>2 DEF RegisterContainer, CMTypeOK
  <2>3. CASE FinishRemove
    BY <1>0, <2>3 DEF FinishRemove, RemoveExcess, CMTypeOK
  <2>4. CASE containers' = containers
    BY <2>4
  <2> QED
    BY <1>1, <2>1, <2>2, <2>3, <2>4
       DEF MonitorStep, MonitorOwnStep, InitializeFails, FinishInitialize, StartNothing,
          StartFails, StartContainer, RemoveMarked, Tick, ListContainers,
          ListFails, ReadRegistry, MarkContainers, FinishHealthCheck, daemonVars
<1>2. ASSUME NEW r \in Removers \cup {Monitor}, RemoverStep(r)
      PROVE  containers[id] = "error"
  BY <1>0, <1>2 DEF RemoverStep, RemoveCall, RemoveDelete, CMTypeOK
<1>3. CASE ClientStep
  BY <1>0, <1>3 DEF ClientStep, GetAvailableContainer, ReleaseContainer, Updated,
     ShutdownContainers, ShutdownRegistry, CMTypeOK, daemonVars
<1>4. CASE containers' = containers
  BY <1>4
<1> QED
  BY <1>1, <1>2, <1>3, <1>4 DEF CMNext, ContainerExits, MapRace, daemonVars, cmVars

LEMMA MonInvNext == LeaseInv /\ RegistryBound /\ MonInv /\ [CMNext]_cmVars => MonInv'
<1> SUFFICES ASSUME LeaseInv, RegistryBound, MonInv, [CMNext]_cmVars PROVE MonInv'
  OBVIOUS
<1> USE ContainerManagerAssumption
<1>0. CMTypeOK /\ CMTypeOK'
  BY CMNextTypeOK DEF LeaseInv
<1>1. Cardinality(toRemove') <= MaxWorkers
  <2>1. CASE UNCHANGED toRemove
    BY <2>1 DEF MonInv
  <2>2. CASE MarkContainers
    <3>1. Registered \in SUBSET Ids /\ toRemove' \in SUBSET Registered
      BY <2>2 DEF MarkContainers, Registered
    <3>2. Cardinality(toRemove') <= Cardinality(Registered)
      BY <3>1, RegisteredFinite, FS_Subset
    <3>3. Cardinality(Registered) <= MaxWorkers
      BY <3>1, RegisteredFinite DEF RegistryBound
    <3>4. Cardinality(Registered) \in Nat /\ Cardinality(toRemove') \in Nat
      BY <1>0, <3>1, RegisteredFinite DEF CMTypeOK
    <3> QED
      BY <3>2, <3>3, <3>4
  <2>3. ASSUME NEW id \in Ids, RemoveMarked(id)
        PROVE  Cardinality(toRemove') <= MaxWorkers
    <3>1. toRemove \in SUBSET Ids /\ toRemove' \in SUBSET toRemove
      BY <1>0, <2>3 DEF RemoveMarked, CMTypeOK
    <3>2. Cardinality(toRemove') <= Cardinality(toRemove)
      BY <3>1, RegisteredFinite, FS_Subset
    <3>3. Cardinality(toRemove) \in Nat /\ Cardinality(toRemove') \in Nat
      BY <1>0, <3>1, RegisteredFinite DEF CMTypeOK
    <3> QED
      BY <3>2, <3>3 DEF MonInv
  <2> QED
    BY <2>1, <2>2, <2>3, OthersLeaveMonitor
       DEF MonitorStep, MonitorOwnStep, InitializePool, InitializeFails, FinishInitialize,
          StartNothing, RegisterContainer, StartFails, StartContainer, Tick,
          ListContainers, ListFails, ReadRegistry, FinishRemove, FinishHealthCheck,
          monVars
<1>2. /\ removal'[Monitor].phase # "done"
      /\ removal'[Monitor].phase # "none" => mon' = "remove"
  <2>1. CASE \E id \in Ids : RemoveMarked(id)
    BY <1>0, <2>1 DEF RemoveMarked, SpawnRemoval, CMTypeOK
  <2>2. CASE RemoverStep(Monitor)
    <3>1. mon' = mon
      BY <2>2 DEF RemoverStep, RemoveCall, RemoveDelete, monVars
    <3>2. removal'[Monitor].phase \in {"delete", "none"}
      BY <1>0, <2>2 DEF RemoverStep, RemoveCall, RemoveDelete, CMTypeOK, NoRemoval
    <3>3. removal[Monitor].phase # "none"
      BY <2>2 DEF RemoverStep, RemoveCall, RemoveDelete
    <3> QED
      BY <3>1, <3>2, <3>3 DEF MonInv
  <2>3. CASE UNCHANGED removal \/ \E r \in Removers : \E v : removal' = [removal EXCEPT ![r] = v]
    <3>1. removal'[Monitor] = removal[Monitor]
      BY <1>0, <2>3 DEF CMTypeOK
    <3>2. removal[Monitor].phase # "none" /\ ~(\E id \in Ids : RemoveMarked(id)) => mon' = mon
      <4>1. ASSUME MonitorStep, mon = "remove", mon' # mon
            PROVE  removal[Monitor].phase = "none"
        BY <4>1 DEF MonitorStep, MonitorOwnStep, InitializePool, InitializeFails,
           FinishInitialize, StartNothing, RegisterContainer, StartFails,
           StartContainer, CanStart, Tick, ListContainers, ListFails, ReadRegistry,
           MarkContainers, RemoveMarked, FinishRemove, FinishHealthCheck
      <4> QED
        BY <4>1, OthersLeaveMonitor DEF MonInv, monVars
    <3> QED
      BY <2>1, <3>1, <3>2 DEF MonInv
  <2> QED
    BY <2>1, <2>2, <2>3, OthersLeaveRemoval
<1>3. mon' = "mark" => \A id \in seen' : containers'[id] # "error"
  <2>1. CASE ReadRegistry
    BY <1>0, <2>1 DEF ReadRegistry, daemonVars, CMTypeOK
  <2>2. CASE ~ReadRegistry /\ mon' = "mark"
    <3>1. mon = "mark" /\ seen' = seen
      BY <2>2, OthersLeaveMonitor
         DEF MonitorStep, MonitorOwnStep, InitializePool, InitializeFails,
            FinishInitialize, StartNothing, RegisterContainer, StartFails,
            StartContainer, CanStart, Tick, ListContainers, ListFails, MarkContainers,
            RemoveMarked, FinishRemove, FinishHealthCheck, monVars
    <3>2. seen \subseteq Ids
      BY <1>0 DEF CMTypeOK
    <3> QED
      BY <3>1, <3>2, NoNewErrors DEF MonInv
  <2> QED
    BY <2>1, <2>2
<1>4. mu' => ~cmClosed'
  <2>1. [CMNext]_cmVars => UNCHANGED <<mu, cmClosed>> \/ ShutdownContainers \/ ShutdownRegistry
    BY DEF CMNext, MonitorStep, MonitorOwnStep, InitializePool, InitializeFails,
       FinishInitialize, StartNothing, RegisterContainer, StartFails,
       StartContainer, Tick, ListContainers, ListFails, ReadRegistry, MarkContainers,
       RemoveMarked, FinishRemove, FinishHealthCheck, RemoverStep, RemoveCall,
       RemoveDelete, ClientStep, GetAvailableContainer, ReleaseContainer, ContainerExits,
       MapRace, cmVars, clientVars
  <2> QED
    BY <2>1 DEF ShutdownContainers, ShutdownRegistry, MonInv
<1> QED
  BY <1>1, <1>2, <1>3, <1>4 DEF MonInv

LEMMA MonInvariant == CMSpec => []MonInv
<1>1. CMInit => MonInv
  BY ContainerManagerAssumption, FS_EmptySet DEF CMInit, MonInv, NoRemoval
<1> QED
  BY <1>1, MonInvNext, ManagerInvariant, RegistryIsBounded, PTL DEF CMSpec

\* Shutdown holds cm.mu once, until its next step; the process stays aborted.
LEMMA MutexStages ==
  ASSUME CMTypeOK, MonInv, [CMNext]_cmVars
  PROVE  /\ fatal => fatal'
         /\ mu => mu' \/ cmClosed'
         /\ mu => ~cmClosed
         /\ cmClosed => cmClosed'
         /\ mu /\ <<ShutdownRegistry>>_cmVars => cmClosed'
<1>1. UNCHANGED <<mu, cmClosed>> \/ ShutdownContainers \/ ShutdownRegistry
  BY DEF CMNext, MonitorStep, MonitorOwnStep, InitializePool, InitializeFails,
     FinishInitialize, StartNothing, RegisterContainer, StartFails,
     StartContainer, Tick, ListContainers, ListFails, ReadRegistry, MarkContainers,
     RemoveMarked, FinishRemove, FinishHealthCheck, RemoverStep, RemoveCall, RemoveDelete,
     ClientStep, GetAvailableContainer, ReleaseContainer, ContainerExits, MapRace, cmVars,
     clientVars
<1>2. fatal => fatal'
  BY DEF CMNext, MonitorStep, MonitorOwnStep, InitializePool, InitializeFails,
     FinishInitialize, StartNothing, RegisterContainer, StartFails,
     StartContainer, Tick, ListContainers, ListFails, ReadRegistry, MarkContainers,
     RemoveMarked, FinishRemove, FinishHealthCheck, RemoverStep, RemoveCall, RemoveDelete,
     ClientStep, SpawnRemoval, GetAvailableContainer, ReleaseContainer,
     ShutdownContainers, ShutdownRegistry, ContainerExits, MapRace, cmVars, clientVars
<1> QED
  BY <1>1, <1>2 DEF ShutdownContainers, ShutdownRegistry, MonInv

\* The monitor is starting containers, and is done with that after n more steps.
StartRank == IF mon = "register" THEN 2 * need ELSE 2 * need + 1
Starts(n) == mon \in {"starting", "register"} /\ StartRank <= n

LEMMA StartSteps ==
  ASSUME CMTypeOK, NEW n \in Nat, NEW m \in Nat, n = m + 1, Starts(n), [CMNext]_cmVars
  PROVE  /\ Starts(n)' \/ mon' = "tick"
         /\ Starts(m)' \/ mon' = "tick" \/ (mon' = mon /\ need' = need)
         /\ <<MonitorOwnStep>>_cmVars => Starts(m)' \/ mon' = "tick"
         /\ mon = "register" /\ ~mu => MonitorReady
         /\ mon = "starting" /\ need = 0 => MonitorReady
<1> USE ContainerManagerAssumption
<1>1. /\ mon = "starting" \/ mon = "register"
      /\ need \in Nat
      /\ mon = "register" => need > 0
  BY DEF Starts, CMTypeOK
<1>2. CASE UNCHANGED monVars
  <2>1. Starts(n)' /\ mon' = mon /\ need' = need
    BY <1>2 DEF Starts, StartRank, monVars
  <2>2. MonitorOwnStep => mon' # mon \/ need' # need
    BY <1>1, <1>2 DEF MonitorOwnStep, FinishInitialize, RegisterContainer, CanStart,
       Tick, ReadRegistry, MarkContainers, RemoveMarked, FinishRemove, FinishHealthCheck
  <2> QED
    BY <1>1, <1>2, <2>1, <2>2 DEF MonitorReady
<1>3. CASE MonitorStep
  <2>1. \/ mon = "starting" /\ mon' = "starting" /\ need' = need - 1 /\ need > 0
        \/ mon = "starting" /\ mon' = "register" /\ need' = need
        \/ mon = "register" /\ mon' = "starting" /\ need' = need - 1
        \/ mon' = "tick"
    BY <1>1, <1>3 DEF MonitorStep, MonitorOwnStep, InitializePool, InitializeFails,
       FinishInitialize, StartNothing, RegisterContainer, StartFails,
       StartContainer, CanStart, Tick, ListContainers, ListFails, ReadRegistry, MarkContainers,
       RemoveMarked, FinishRemove, FinishHealthCheck
  <2>2. Starts(m)' \/ mon' = "tick"
    BY <1>1, <2>1 DEF Starts, StartRank
  <2>3. Starts(m)' => Starts(n)'
    BY <1>1, <2>1 DEF Starts, StartRank
  <2> QED
    BY <1>1, <2>2, <2>3 DEF MonitorReady
<1> QED
  BY <1>2, <1>3, OthersLeaveMonitor

\* The monitor is removing containers: for each it calls RemoveContainer, whose
\* two steps follow.
RemoveRank ==
  3 * Cardinality(toRemove)
    + (IF removal[Monitor].phase = "call" THEN 3
       ELSE IF removal[Monitor].phase = "delete" THEN 2 ELSE 1)
Removes(n) == mon = "remove" /\ RemoveRank <= n
OwnCall == removal[Monitor].phase = "call"
OwnDelete == removal[Monitor].phase = "delete"
OwnRemoval == OwnCall \/ OwnDelete

LEMMA RemoveSteps ==
  ASSUME CMTypeOK, MonInv, NEW n \in Nat, NEW m \in Nat, n = m + 1, Removes(n), [CMNext]_cmVars
  PROVE  /\ Removes(n)' \/ mon' = "starting"
         /\ \/ Removes(m)'
            \/ mon' = "starting"
            \/ (OwnCall' <=> OwnCall) /\ (OwnDelete' <=> OwnDelete)
         /\ <<MonitorOwnStep>>_cmVars => Removes(m)' \/ mon' = "starting"
         /\ <<RemoveDelete(Monitor)>>_cmVars => Removes(m)' \/ mon' = "starting"
         /\ ~mu /\ ~OwnCall /\ ~OwnDelete => MonitorReady
<1> USE ContainerManagerAssumption
<1>0. /\ mon = "remove"
      /\ Cardinality(toRemove) \in Nat
      /\ removal[Monitor].phase \in {"none", "call", "delete"}
  BY RegisteredFinite DEF Removes, CMTypeOK, MonInv
<1>1. ASSUME NEW id \in Ids, RemoveMarked(id)
      PROVE  Removes(m)'
  <2>1. IsFiniteSet(toRemove)
    BY RegisteredFinite DEF CMTypeOK
  <2>2. Cardinality(toRemove') = Cardinality(toRemove) - 1
    BY <1>1, <2>1, FS_RemoveElement DEF RemoveMarked
  <2>3. removal[Monitor].phase = "none" /\ removal'[Monitor].phase = "call" /\ mon' = "remove"
    BY <1>1 DEF RemoveMarked, SpawnRemoval, CMTypeOK
  <2> QED
    BY <1>0, <2>2, <2>3 DEF Removes, RemoveRank
<1>2. ASSUME RemoverStep(Monitor)
      PROVE  Removes(m)'
  <2>1. UNCHANGED <<mon, toRemove>>
    BY <1>2 DEF RemoverStep, RemoveCall, RemoveDelete, monVars
  <2>2. \/ removal[Monitor].phase = "call" /\ removal'[Monitor].phase = "delete"
        \/ removal[Monitor].phase = "delete" /\ removal'[Monitor].phase = "none"
    BY <1>2 DEF RemoverStep, RemoveCall, RemoveDelete, CMTypeOK, NoRemoval
  <2> QED
    BY <1>0, <2>1, <2>2 DEF Removes, RemoveRank
<1>3. ASSUME MonitorStep, ~\E id \in Ids : RemoveMarked(id)
      PROVE  mon' = "starting"
  BY <1>0, <1>3 DEF MonitorStep, MonitorOwnStep, InitializePool, InitializeFails,
     FinishInitialize, StartNothing, RegisterContainer, StartFails,
     StartContainer, CanStart, Tick, ListContainers, ListFails, ReadRegistry,
     MarkContainers, FinishRemove, FinishHealthCheck
<1>4. ASSUME UNCHANGED monVars, removal'[Monitor] = removal[Monitor]
      PROVE  Removes(n)' /\ (OwnCall' <=> OwnCall) /\ (OwnDelete' <=> OwnDelete)
  BY <1>4 DEF Removes, RemoveRank, OwnCall, OwnDelete, monVars
<1>5. Removes(m)' => Removes(n)'
  <2>1. Removes(m)' => RemoveRank' \in Nat
    <3>1. CMTypeOK'
      BY CMNextTypeOK
    <3>2. Cardinality(toRemove') \in Nat
      BY <3>1, RegisteredFinite DEF CMTypeOK
    <3> QED
      BY <3>2 DEF RemoveRank
  <2> QED
    BY <2>1 DEF Removes
<1>6. ~mu /\ ~OwnCall /\ ~OwnDelete => MonitorReady
  BY <1>0 DEF OwnCall, OwnDelete, MonitorReady
<1>7. CASE (\E id \in Ids : RemoveMarked(id)) \/ RemoverStep(Monitor)
  BY <1>1, <1>2, <1>5, <1>6, <1>7
<1>8. CASE MonitorStep /\ ~\E id \in Ids : RemoveMarked(id)
  BY <1>3, <1>6, <1>8
<1>9. CASE ~MonitorStep /\ ~RemoverStep(Monitor) /\ ~\E id \in Ids : RemoveMarked(id)
  <2>1. UNCHANGED monVars
    BY <1>9, OthersLeaveMonitor
  <2>2. removal'[Monitor] = removal[Monitor]
    BY <1>9, OthersLeaveRemoval DEF CMTypeOK
  <2> QED
    BY <1>4, <1>6, <1>9, <2>1, <2>2 DEF MonitorStep, RemoverStep
<1> QED
  BY <1>7, <1>8, <1>9

\* The rest of the round.
LEMMA RoundStages ==
  ASSUME CMTypeOK, [CMNext]_cmVars
  PROVE  /\ mon = "tick" => mon' = "tick" \/ mon' = "list"
         /\ mon = "list" => mon' = "list" \/ mon' = "tick" \/ mon' = "read"
         /\ mon = "read" => mon' = "read" \/ mon' = "mark"
         /\ mon = "mark" => mon' = "mark" \/ mon' = "remove"
         /\ mon = "tick" /\ <<MonitorOwnStep>>_cmVars => mon' = "list"
         /\ mon = "list" /\ <<ListContainers>>_cmVars => mon' = "read"
         /\ mon = "read" /\ <<MonitorOwnStep>>_cmVars => mon' = "mark"
         /\ mon = "mark" /\ <<MonitorOwnStep>>_cmVars => mon' = "remove"
         /\ Ready => Ready'
         /\ Ready => \/ mon = "tick" \/ mon = "list" \/ mon = "read" \/ mon = "mark"
                     \/ mon = "remove" \/ mon = "starting" \/ mon = "register"
         /\ mon = "tick" => MonitorReady
         /\ mon = "read" => MonitorReady
         /\ mon = "mark" /\ ~mu => MonitorReady
<1>1. CASE MonitorStep
  BY <1>1 DEF MonitorStep, MonitorOwnStep, InitializePool, InitializeFails,
     FinishInitialize, StartNothing, RegisterContainer, StartFails,
     StartContainer, CanStart, Tick, ListContainers, ListFails, ReadRegistry,
     MarkContainers, RemoveMarked, FinishRemove, FinishHealthCheck, Ready, CMTypeOK,
     MonitorReady
<1>2. CASE UNCHANGED monVars /\ ~MonitorStep
  BY <1>2 DEF MonitorStep, monVars, Ready, CMTypeOK, MonitorReady
<1> QED
  BY <1>1, <1>2, OthersLeaveMonitor

\* Shutdown keeps the mutex from the others for a while, or for ever.
LEMMA MutexSettles == CMFairSpec => <>[]mu \/ <>[]~mu
<1>1. LeaseInv /\ MonInv /\ [CMNext]_cmVars
      => /\ mu => mu' \/ cmClosed'
         /\ mu => ~cmClosed
         /\ cmClosed => cmClosed'
  BY MutexStages DEF LeaseInv
<1> QED
  BY <1>1, ManagerInvariant, MonInvariant, PTL DEF CMFairSpec, CMSpec

\* The provers cannot do induction over a temporal formula, but doubling the
\* number of steps takes them far enough.
StartsGo(from, to) == Starts(from) ~> (Starts(to) \/ mon = "tick" \/ fatal \/ DaemonHangs)
StartsGoBy(d) == \A n \in Nat : StartsGo(n + d, n)

LEMMA StartStages ==
  ASSUME NEW n \in Nat, NEW m \in Nat, n = m + 1
  PROVE  /\ NothingBlocksManager /\ ~fatal /\ MonitorReady => ENABLED <<MonitorOwnStep>>_cmVars
         /\ LeaseInv /\ Starts(n) /\ [CMNext]_cmVars
            => /\ Starts(n)' \/ (mon = "tick")'
               /\ \/ Starts(m)' \/ (mon = "tick")'
                  \/ mon = "register" /\ (mon = "register")'
                  \/ mon = "starting" /\ (mon = "starting")'
               /\ <<MonitorOwnStep>>_cmVars => Starts(m)' \/ (mon = "tick")'
               /\ mon = "register" /\ ~mu => MonitorReady
BY StartSteps DEF LeaseInv, Starts, NothingBlocksManager, MonitorMoves

\* The daemon is asked for a container, and starts one, fails, or never answers.
IsStarting(k) == mon = "starting" /\ need = k

LEMMA OneCall ==
  ASSUME NEW k \in 1..MaxWorkers
  PROVE  CMFairSpec /\ []NothingBlocksManager => StartsGo(2 * k + 1, 2 * k)
<1> USE ContainerManagerAssumption
<1>1. 2 * k + 1 \in Nat /\ 2 * k \in Nat
  OBVIOUS
<1> DEFINE n == 2 * k + 1
           m == 2 * k
<1>2. /\ NothingBlocksManager /\ ~fatal /\ MonitorReady => ENABLED <<MonitorOwnStep>>_cmVars
      /\ LeaseInv /\ Starts(n) /\ [CMNext]_cmVars
         => /\ Starts(n)' \/ (mon = "tick")'
            /\ \/ Starts(m)' \/ (mon = "tick")'
               \/ mon = "register" /\ (mon = "register")'
               \/ mon = "starting" /\ (mon = "starting")'
            /\ <<MonitorOwnStep>>_cmVars => Starts(m)' \/ (mon = "tick")'
            /\ mon = "register" /\ ~mu => MonitorReady
  BY <1>1, StartStages
<1>3. []mu => DaemonHangs
  BY DEF DaemonHangs
<1>0. mon = "register" => ~(mon = "starting")
  OBVIOUS
<1>4. LeaseInv /\ Starts(n) /\ ~Starts(m) /\ mon = "starting" => IsStarting(k)
  BY DEF LeaseInv, CMTypeOK, Starts, StartRank, IsStarting
<1>5. StartHangs(k) => DaemonHangs
  BY DEF DaemonHangs
<1>6. []IsStarting(k) => DaemonHangs
  BY <1>5 DEF StartHangs, IsStarting
<1> HIDE DEF n, m
<1>7. CMFairSpec /\ []NothingBlocksManager => StartsGo(n, m)
  BY <1>0, <1>2, <1>3, <1>4, <1>6, MutexSettles, ManagerInvariant, PTL
     DEF CMFairSpec, CMSpec, CMFairness, StartsGo
<1> QED
  BY <1>7 DEF n, m

LEMMA OneStart ==
  ASSUME NEW n \in Nat, NEW m \in Nat, n = m + 1
  PROVE  CMFairSpec /\ []NothingBlocksManager => StartsGo(n, m)
<1> USE ContainerManagerAssumption
<1>1. /\ NothingBlocksManager /\ ~fatal /\ MonitorReady => ENABLED <<MonitorOwnStep>>_cmVars
      /\ LeaseInv /\ Starts(n) /\ [CMNext]_cmVars
         => /\ Starts(n)' \/ (mon = "tick")'
            /\ \/ Starts(m)' \/ (mon = "tick")'
               \/ mon = "register" /\ (mon = "register")'
               \/ mon = "starting" /\ (mon = "starting")'
            /\ <<MonitorOwnStep>>_cmVars => Starts(m)' \/ (mon = "tick")'
            /\ mon = "register" /\ ~mu => MonitorReady
  BY StartStages
<1>2. []mu => DaemonHangs
  BY DEF DaemonHangs
<1>3. CASE n = 1
  <2>1. LeaseInv /\ Starts(n) /\ ~Starts(m) /\ mon = "starting" => MonitorReady
    BY <1>3 DEF LeaseInv, CMTypeOK, Starts, StartRank, MonitorReady
  <2> QED
    BY <1>1, <1>2, <2>1, MutexSettles, ManagerInvariant, PTL
       DEF CMFairSpec, CMSpec, CMFairness, StartsGo
<1>4. CASE \E k \in 1..MaxWorkers : n = 2 * k + 1
  <2>1. PICK k \in 1..MaxWorkers : n = 2 * k + 1 /\ m = 2 * k
    BY <1>4
  <2> QED
    BY <2>1, OneCall
<1>5. CASE n # 1 /\ \A k \in 1..MaxWorkers : n # 2 * k + 1
  <2>1. LeaseInv /\ Starts(n) /\ ~Starts(m) => mon = "register"
    BY <1>5 DEF LeaseInv, CMTypeOK, Starts, StartRank
  <2> QED
    BY <1>1, <1>2, <2>1, MutexSettles, ManagerInvariant, PTL
       DEF CMFairSpec, CMSpec, CMFairness, StartsGo
<1> QED
  BY <1>3, <1>4, <1>5

LEMMA MoreStarts ==
  ASSUME NEW d \in Nat
  PROVE  StartsGoBy(d) => StartsGoBy(2 * d)
<1>1. ASSUME NEW n \in Nat, NEW k \in Nat, NEW m \in Nat
      PROVE  StartsGo(m, k) /\ StartsGo(k, n) => StartsGo(m, n)
  BY PTL DEF StartsGo
<1>2. ASSUME NEW n \in Nat
      PROVE  StartsGoBy(d) => StartsGo(n + 2 * d, n)
  <2>1. n + d \in Nat /\ n + 2 * d \in Nat /\ (n + d) + d = n + 2 * d
    OBVIOUS
  <2> QED
    BY <1>1, <2>1 DEF StartsGoBy
<1> QED
  BY <1>2 DEF StartsGoBy

LEMMA StartsEnd ==
  ASSUME MaxWorkers <= 1024
  PROVE  CMFairSpec /\ []NothingBlocksManager
         => (mon \in {"starting", "register"} ~> (mon = "tick" \/ fatal \/ DaemonHangs))
<1>1. CMFairSpec /\ []NothingBlocksManager => StartsGoBy(1)
  <2>1. ASSUME NEW n \in Nat
        PROVE  CMFairSpec /\ []NothingBlocksManager => StartsGo(n + 1, n)
    BY OneStart
  <2> QED
    BY <2>1 DEF StartsGoBy
<1>2. StartsGoBy(1) => StartsGoBy(16)
  <2>1. 2 * 1 = 2 /\ 2 * 2 = 4 /\ 2 * 4 = 8 /\ 2 * 8 = 16
    OBVIOUS
  <2> QED
    BY <2>1, MoreStarts
<1>3. StartsGoBy(16) => StartsGoBy(256)
  <2>1. 2 * 16 = 32 /\ 2 * 32 = 64 /\ 2 * 64 = 128 /\ 2 * 128 = 256
    OBVIOUS
  <2> QED
    BY <2>1, MoreStarts
<1>4. StartsGoBy(256) => StartsGoBy(4096)
  <2>1. 2 * 256 = 512 /\ 2 * 512 = 1024 /\ 2 * 1024 = 2048 /\ 2 * 2048 = 4096
    OBVIOUS
  <2> QED
    BY <2>1, MoreStarts
<1>5. StartsGoBy(4096) => StartsGo(4096, 0)
  <2>1. 0 \in Nat /\ 0 + 4096 = 4096
    OBVIOUS
  <2> QED
    BY <2>1 DEF StartsGoBy
<1>6. LeaseInv /\ mon \in {"starting", "register"} => Starts(4096)
  BY ContainerManagerAssumption DEF LeaseInv, CMTypeOK, Starts, StartRank
<1>7. LeaseInv => ~Starts(0)
  BY ContainerManagerAssumption DEF LeaseInv, CMTypeOK, Starts, StartRank
<1> QED
  BY <1>1, <1>2, <1>3, <1>4, <1>5, <1>6, <1>7, ManagerInvariant, PTL DEF CMFairSpec,
     StartsGo

RemovesGo(from, to) == Removes(from) ~> (Removes(to) \/ mon = "starting" \/ fatal \/ DaemonHangs)
RemovesGoBy(d) == \A n \in Nat : RemovesGo(n + d, n)

LEMMA OneRemoval ==
  ASSUME NEW n \in Nat, NEW m \in Nat, n = m + 1
  PROVE  CMFairSpec /\ []NothingBlocksManager => RemovesGo(n, m)
<1>1. NothingBlocksManager /\ ~fatal /\ MonitorReady => ENABLED <<MonitorOwnStep>>_cmVars
  BY DEF NothingBlocksManager, MonitorMoves
<1>2. NothingBlocksManager /\ ~fatal /\ OwnDelete => ENABLED <<RemoveDelete(Monitor)>>_cmVars
  BY DEF NothingBlocksManager, RemovalMoves, OwnDelete
<1>3. LeaseInv /\ MonInv /\ Removes(n) /\ [CMNext]_cmVars
      => /\ Removes(n)' \/ (mon = "starting")'
         /\ \/ Removes(m)'
            \/ (mon = "starting")'
            \/ (OwnCall' <=> OwnCall) /\ (OwnDelete' <=> OwnDelete)
         /\ <<MonitorOwnStep>>_cmVars => Removes(m)' \/ (mon = "starting")'
         /\ <<RemoveDelete(Monitor)>>_cmVars => Removes(m)' \/ (mon = "starting")'
         /\ ~mu /\ ~OwnCall /\ ~OwnDelete => MonitorReady
  BY RemoveSteps DEF LeaseInv
<1>4. []mu => DaemonHangs
  BY DEF DaemonHangs
<1>5. []OwnCall => DaemonHangs
  BY DEF DaemonHangs, OwnCall
<1> QED
  BY <1>1, <1>2, <1>3, <1>4, <1>5, MutexSettles, ManagerInvariant, MonInvariant, PTL
     DEF CMFairSpec, CMSpec, CMFairness, RemovesGo

LEMMA MoreRemovals ==
  ASSUME NEW d \in Nat
  PROVE  RemovesGoBy(d) => RemovesGoBy(2 * d)
<1>1. ASSUME NEW n \in Nat, NEW k \in Nat, NEW m \in Nat
      PROVE  RemovesGo(m, k) /\ RemovesGo(k, n) => RemovesGo(m, n)
  BY PTL DEF RemovesGo
<1>2. ASSUME NEW n \in Nat
      PROVE  RemovesGoBy(d) => RemovesGo(n + 2 * d, n)
  <2>1. n + d \in Nat /\ n + 2 * d \in Nat /\ (n + d) + d = n + 2 * d
    OBVIOUS
  <2> QED
    BY <1>1, <2>1 DEF RemovesGoBy
<1> QED
  BY <1>2 DEF RemovesGoBy

LEMMA RemovesEnd ==
  ASSUME MaxWorkers <= 1024
  PROVE  CMFairSpec /\ []NothingBlocksManager => (mon = "remove" ~> (mon = "starting" \/ fatal \/ DaemonHangs))
<1>1. CMFairSpec /\ []NothingBlocksManager => RemovesGoBy(1)
  <2>1. ASSUME NEW n \in Nat
        PROVE  CMFairSpec /\ []NothingBlocksManager => RemovesGo(n + 1, n)
    BY OneRemoval
  <2> QED
    BY <2>1 DEF RemovesGoBy
<1>2. RemovesGoBy(1) => RemovesGoBy(16)
  <2>1. 2 * 1 = 2 /\ 2 * 2 = 4 /\ 2 * 4 = 8 /\ 2 * 8 = 16
    OBVIOUS
  <2> QED
    BY <2>1, MoreRemovals
<1>3. RemovesGoBy(16) => RemovesGoBy(256)
  <2>1. 2 * 16 = 32 /\ 2 * 32 = 64 /\ 2 * 64 = 128 /\ 2 * 128 = 256
    OBVIOUS
  <2> QED
    BY <2>1, MoreRemovals
<1>4. RemovesGoBy(256) => RemovesGoBy(4096)
  <2>1. 2 * 256 = 512 /\ 2 * 512 = 1024 /\ 2 * 1024 = 2048 /\ 2 * 2048 = 4096
    OBVIOUS
  <2> QED
    BY <2>1, MoreRemovals
<1>5. RemovesGoBy(4096) => RemovesGo(4096, 0)
  <2>1. 0 \in Nat /\ 0 + 4096 = 4096
    OBVIOUS
  <2> QED
    BY <2>1 DEF RemovesGoBy
<1>6. LeaseInv /\ MonInv => Cardinality(toRemove) \in Nat /\ Cardinality(toRemove) <= 1024
  BY ContainerManagerAssumption, RegisteredFinite DEF LeaseInv, CMTypeOK, MonInv
<1>7. LeaseInv /\ MonInv => /\ mon = "remove" => Removes(4096)
                            /\ ~Removes(0)
  BY <1>6 DEF Removes, RemoveRank
<1> QED
  BY <1>1, <1>2, <1>3, <1>4, <1>5, <1>7, ManagerInvariant, MonInvariant, PTL
     DEF CMFairSpec, RemovesGo

\* The monitor goes round and round, as long as the daemon answers.
LEMMA RoundsGoOn ==
  ASSUME MaxWorkers <= 1024
  PROVE  CMFairSpec /\ []NothingBlocksManager
         => /\ Ready ~> (mon = "mark" \/ fatal \/ DaemonHangs)
            /\ mon = "mark" ~> (mon = "remove" \/ fatal \/ DaemonHangs)
<1>1. NothingBlocksManager /\ ~fatal /\ MonitorReady => ENABLED <<MonitorOwnStep>>_cmVars
  BY DEF NothingBlocksManager, MonitorMoves
<1>2. LeaseInv /\ [CMNext]_cmVars
      => /\ mon \in {"tick", "list"} => (mon \in {"tick", "list"})' \/ (mon = "read")'
         /\ mon = "read" => (mon = "read")' \/ (mon = "mark")'
         /\ mon = "mark" => (mon = "mark")' \/ (mon = "remove")'
         /\ mon = "read" /\ <<MonitorOwnStep>>_cmVars => (mon = "mark")'
         /\ mon = "mark" /\ <<MonitorOwnStep>>_cmVars => (mon = "remove")'
         /\ Ready => \/ mon \in {"tick", "list"} \/ mon = "read" \/ mon = "mark"
                     \/ mon = "remove" \/ mon \in {"starting", "register"}
         /\ mon = "read" => MonitorReady
         /\ mon = "mark" /\ ~mu => MonitorReady
  BY RoundStages DEF LeaseInv
<1>3. /\ mon = "starting" => mon \in {"starting", "register"}
      /\ mon = "tick" => mon \in {"tick", "list"}
  OBVIOUS
<1>4. []mu => DaemonHangs
  BY DEF DaemonHangs
<1>5. [](mon \in {"tick", "list"}) => DaemonHangs
  BY DEF DaemonHangs
<1> QED
  BY <1>1, <1>2, <1>3, <1>4, <1>5, StartsEnd, RemovesEnd, MutexSettles, ManagerInvariant, PTL
     DEF CMFairSpec, CMSpec, CMFairness

-----------------------------------------------------------------------------
(* What the rounds achieve.                                                *)

Err(id) == containers[id] = "error"
Dropped(id) == containers[id] = "absent"

\* The container id is among those the monitor is going to remove.
Marked(id) ==
  mon = "remove" /\ (id \in toRemove \/ (OwnRemoval /\ removal[Monitor].id = id))

LEMMA ErrorStages ==
  ASSUME NEW id \in Ids, LeaseInv, MonInv, Err(id), [CMNext]_cmVars
  PROVE  /\ Err(id)' \/ Dropped(id)'
         /\ mon = "mark" => mon' = "mark" \/ Marked(id)'
         /\ Marked(id) => Marked(id)' \/ Dropped(id)'
         /\ Marked(id) => mon = "remove"
<1> USE ContainerManagerAssumption
<1>0. CMTypeOK
  BY DEF LeaseInv
<1>1. Err(id)' \/ Dropped(id)'
  BY ErrorStep DEF Err, Dropped, cmVars
<1>2. mon = "mark" => mon' = "mark" \/ Marked(id)'
  <2>1. CASE MarkContainers
    <3>1. mon = "mark" /\ mon' = "remove" /\ id \in Registered \ seen
      BY <2>1 DEF MarkContainers, MonInv, Err, Registered
    <3> QED
      BY <2>1, <3>1 DEF MarkContainers, Marked
  <2>2. CASE ~MarkContainers
    BY <2>2, OthersLeaveMonitor DEF MonitorStep, MonitorOwnStep, InitializePool,
       InitializeFails, FinishInitialize, StartNothing, RegisterContainer,
       StartFails, StartContainer, CanStart, Tick, ListContainers, ListFails,
       ReadRegistry, RemoveMarked, FinishRemove, FinishHealthCheck, monVars
  <2> QED
    BY <2>1, <2>2
<1>3. Marked(id) => Marked(id)' \/ Dropped(id)'
  <2> SUFFICES ASSUME Marked(id) PROVE Marked(id)' \/ Dropped(id)'
    OBVIOUS
  <2>1. ASSUME NEW x \in Ids, RemoveMarked(x)
        PROVE  Marked(id)'
    <3>1. /\ removal[Monitor].phase = "none" /\ mon' = "remove" /\ toRemove' = toRemove \ {x}
          /\ removal'[Monitor].phase = "call" /\ removal'[Monitor].id = x
      BY <1>0, <2>1 DEF RemoveMarked, SpawnRemoval, CMTypeOK
    <3> QED
      BY <3>1 DEF Marked, OwnRemoval, OwnCall, OwnDelete
  <2>2. CASE RemoveCall(Monitor)
    BY <1>0, <2>2 DEF RemoveCall, Marked, OwnRemoval, OwnCall, OwnDelete, CMTypeOK,
       monVars
  <2>3. CASE RemoveDelete(Monitor)
    <3>1. \/ containers'[removal[Monitor].id] = "absent"
          \/ removal[Monitor].id \notin Ids
      BY <1>0, <2>3 DEF RemoveDelete, CMTypeOK
    <3>2. UNCHANGED monVars
      BY <2>3 DEF RemoveDelete
    <3> QED
      BY <3>1, <3>2 DEF Marked, Dropped, monVars
  <2>4. CASE MonitorStep /\ ~\E x \in Ids : RemoveMarked(x)
    BY <2>4 DEF MonitorStep, MonitorOwnStep, InitializePool, InitializeFails,
       FinishInitialize, StartNothing, RegisterContainer, StartFails,
       StartContainer, CanStart, Tick, ListContainers, ListFails, ReadRegistry,
       MarkContainers, FinishRemove, FinishHealthCheck, Marked, OwnRemoval, OwnCall, OwnDelete
  <2>5. CASE UNCHANGED monVars /\ removal'[Monitor] = removal[Monitor]
    BY <2>5 DEF Marked, OwnRemoval, OwnCall, OwnDelete, monVars
  <2>6. ~MonitorStep /\ ~RemoverStep(Monitor) => UNCHANGED monVars /\ removal'[Monitor] = removal[Monitor]
    <3>1. ~MonitorStep => UNCHANGED monVars /\ ~\E x \in Ids : RemoveMarked(x)
      BY OthersLeaveMonitor DEF MonitorStep, MonitorOwnStep
    <3> QED
      BY <1>0, <3>1, OthersLeaveRemoval DEF CMTypeOK
  <2> QED
    BY <2>1, <2>2, <2>3, <2>4, <2>5, <2>6 DEF RemoverStep
<1> QED
  BY <1>1, <1>2, <1>3 DEF Marked

\* A container that was found stopped leaves the registry, at the latest in the
\* round after the one the monitor is in, whatever else is removed or started:
\* unless the daemon never answers a call of the monitor, or of a Shutdown that
\* holds the mutex.  Nothing is assumed of the daemon.
THEOREM ErrorsLeaveInTheEnd ==
  ASSUME MaxWorkers <= 1024
  PROVE  CMFairSpec /\ []NothingBlocksManager => ErrorsLeaveOrHangs
<1>1. ASSUME NEW id \in Ids
      PROVE  CMFairSpec /\ []NothingBlocksManager
             => ((Ready /\ Err(id)) ~> (Dropped(id) \/ fatal \/ DaemonHangs))
  <2>1. LeaseInv /\ MonInv /\ Err(id) /\ [CMNext]_cmVars
        => /\ Err(id)' \/ Dropped(id)'
           /\ mon = "mark" => (mon = "mark")' \/ Marked(id)'
           /\ Marked(id) => Marked(id)' \/ Dropped(id)'
           /\ Marked(id) => mon = "remove"
    BY <1>1, ErrorStages
  <2>2. /\ mon = "mark" => ~(mon = "remove")
        /\ mon = "starting" => ~(mon = "remove")
    OBVIOUS
  <2> QED
    BY <2>1, <2>2, RoundsGoOn, RemovesEnd, ManagerInvariant, MonInvariant, PTL
       DEF CMFairSpec, CMSpec
<1> QED
  BY <1>1 DEF ErrorsLeaveOrHangs, Err, Dropped

\* A daemon that answers does not hang: neither in a Shutdown that holds cm.mu ...
LEMMA MutexIsFree == CMDaemonSpec /\ []NothingBlocksManager => <>[](~mu \/ fatal)
<1>1. NothingBlocksManager /\ ~fatal /\ mu => ENABLED <<ShutdownRegistry>>_cmVars
  BY DEF NothingBlocksManager, RegistryMoves
<1>2. LeaseInv /\ MonInv /\ [CMNext]_cmVars
      => /\ fatal => fatal'
         /\ mu => mu' \/ cmClosed'
         /\ mu => ~cmClosed
         /\ cmClosed => cmClosed'
         /\ mu /\ <<ShutdownRegistry>>_cmVars => cmClosed'
  BY MutexStages DEF LeaseInv
<1> QED
  BY <1>1, <1>2, ManagerInvariant, MonInvariant, PTL
     DEF CMDaemonSpec, CMFairSpec, CMSpec, DaemonAnswers

\* What holds at all times of such a run.
DaemonRun ==
  /\ []LeaseInv /\ [][CMNext]_cmVars /\ []NothingBlocksManager
  /\ CMFairness /\ DaemonAnswers /\ <>[](~mu \/ fatal)

\* ... nor in a call that starts a container ...
LEMMA StartIsAnswered ==
  ASSUME NEW k \in 1..MaxWorkers
  PROVE  DaemonRun => (StartHangs(k) => <>fatal)
<1>1. NothingBlocksManager /\ ~fatal /\ ~mu /\ IsStarting(k) => ENABLED <<MonitorStep>>_cmVars
  BY DEF NothingBlocksManager, MonitorMoves, IsStarting
<1>2. LeaseInv /\ IsStarting(k) /\ <<MonitorStep>>_cmVars => ~IsStarting(k)'
  <2>1. LeaseInv => need \in Nat
    BY ContainerManagerAssumption DEF LeaseInv, CMTypeOK
  <2> QED
    BY <2>1 DEF IsStarting, MonitorStep, MonitorOwnStep, InitializePool, InitializeFails,
       FinishInitialize, StartNothing, RegisterContainer, StartFails,
       StartContainer, CanStart, Tick, ListContainers, ListFails, ReadRegistry,
       MarkContainers, RemoveMarked, FinishRemove, FinishHealthCheck
<1>3. DaemonRun => ([]IsStarting(k) => <>fatal)
  BY <1>1, <1>2, PTL DEF DaemonRun, DaemonAnswers
<1> QED
  BY <1>3 DEF StartHangs, IsStarting

\* ... lists the containers, or removes one.
LEMMA CallsAreAnswered == CMDaemonSpec /\ []NothingBlocksManager => (DaemonHangs ~> fatal)
<1>1. NothingBlocksManager
      => /\ ~fatal /\ MonitorReady => ENABLED <<MonitorOwnStep>>_cmVars
         /\ ~fatal /\ mon = "list" => ENABLED <<ListContainers>>_cmVars
         /\ ~fatal /\ OwnCall => ENABLED <<RemoveCall(Monitor)>>_cmVars
  BY DEF NothingBlocksManager, MonitorMoves, RemovalMoves, OwnCall
<1>2. LeaseInv /\ [CMNext]_cmVars
      => /\ mon = "tick" => MonitorReady
         /\ mon = "tick" /\ <<MonitorOwnStep>>_cmVars => (mon = "list")'
         /\ mon = "list" /\ <<ListContainers>>_cmVars => (mon = "read")'
  BY RoundStages DEF LeaseInv
<1>3. /\ <<ListContainers>>_cmVars => mon = "list"
      /\ mon \in {"tick", "list"} <=> mon = "tick" \/ mon = "list"
      /\ mon = "read" => ~(mon \in {"tick", "list"})
  BY DEF ListContainers
<1>4. LeaseInv /\ <<RemoveCall(Monitor)>>_cmVars => ~OwnCall'
  BY DEF RemoveCall, OwnCall, LeaseInv, CMTypeOK
<1>5. DaemonRun => ([](mon \in {"tick", "list"}) => <>fatal)
  BY <1>1, <1>2, <1>3, PTL DEF DaemonRun, CMFairness, DaemonAnswers
<1>6. DaemonRun => ([](removal[Monitor].phase = "call") => <>fatal)
  <2>1. DaemonRun => ([]OwnCall => <>fatal)
    BY <1>1, <1>4, PTL DEF DaemonRun, DaemonAnswers
  <2> QED
    BY <2>1 DEF OwnCall
<1>7. DaemonRun => ([]mu => <>fatal)
  BY PTL DEF DaemonRun
<1>8. DaemonRun => (DaemonHangs => <>fatal)
  BY <1>5, <1>6, <1>7, StartIsAnswered DEF DaemonHangs
<1>9. CMDaemonSpec /\ []NothingBlocksManager => DaemonRun
  BY ManagerInvariant, MutexIsFree, PTL
     DEF DaemonRun, CMDaemonSpec, CMFairSpec, CMSpec
<1>10. DaemonRun => []DaemonRun
  BY PTL DEF DaemonRun, CMFairness, DaemonAnswers
<1> QED
  BY <1>8, <1>9, <1>10, PTL

Full ==
  \/ Cardinality(Registered) = MaxWorkers
  \/ fatal
  \/ \A id \in Ids : docker[id] # "fresh"

Lacking == Ready /\ Cardinality(Registered) < MaxWorkers

\* The daemon has at most n containers left to hand out.
FreshIds == {id \in Ids : docker[id] = "fresh"}
Fresh(n) == Ready /\ Cardinality(FreshIds) <= n

LEMMA RefillStages ==
  ASSUME NEW n \in Nat, NEW m \in Nat, n = m + 1, LeaseInv, Fresh(n), [CMNext]_cmVars
  PROVE  /\ Fresh(n)'
         /\ <<\E id \in Ids : StartContainer(id)>>_cmVars => Fresh(m)'
<1> USE ContainerManagerAssumption
<1>0. CMTypeOK /\ CMTypeOK'
  BY CMNextTypeOK DEF LeaseInv
<1>1. mon # "init" /\ Ready'
  BY <1>0, RoundStages DEF Fresh, Ready
<1>2. FreshIds' \subseteq FreshIds
  <2>1. ASSUME NEW id \in Ids, docker'[id] = "fresh"
        PROVE  docker[id] = "fresh"
    <3>1. CASE MonitorStep
      BY <1>0, <1>1, <2>1, <3>1 DEF MonitorStep, MonitorOwnStep, InitializePool,
         InitializeFails, FinishInitialize, StartNothing, RegisterContainer,
         StartFails, StartContainer, RemoveMarked, Tick, ListContainers, ListFails,
         ReadRegistry, MarkContainers, FinishRemove, RemoveExcess, FinishHealthCheck,
         CMTypeOK, daemonVars
    <3>2. ASSUME NEW r \in Removers \cup {Monitor}, RemoverStep(r)
          PROVE  docker[id] = "fresh"
      BY <1>0, <2>1, <3>2 DEF RemoverStep, RemoveCall, RemoveDelete, CMTypeOK
    <3>3. CASE ClientStep
      BY <1>0, <2>1, <3>3 DEF ClientStep, GetAvailableContainer, ReleaseContainer,
         ShutdownContainers, ShutdownRegistry, daemonVars, CMTypeOK
    <3>4. CASE (\E i \in Ids : ContainerExits(i)) \/ MapRace(Ready) \/ UNCHANGED cmVars
      BY <1>0, <2>1, <3>4 DEF ContainerExits, MapRace, daemonVars, cmVars, CMTypeOK
    <3> QED
      BY <3>1, <3>2, <3>3, <3>4 DEF CMNext
  <2> QED
    BY <2>1 DEF FreshIds
<1>3. /\ IsFiniteSet(FreshIds) /\ Cardinality(FreshIds) \in Nat
      /\ Cardinality(FreshIds') \in Nat
      /\ Cardinality(FreshIds') <= Cardinality(FreshIds)
  <2>1. FreshIds \in SUBSET Ids /\ FreshIds' \in SUBSET Ids
    BY DEF FreshIds
  <2> QED
    BY <1>2, <2>1, RegisteredFinite, FS_Subset
<1>4. ASSUME NEW id \in Ids, StartContainer(id)
      PROVE  Cardinality(FreshIds') <= m
  <2>1. id \in FreshIds /\ id \notin FreshIds'
    BY <1>0, <1>4 DEF StartContainer, FreshIds, CMTypeOK
  <2>2. FreshIds' # FreshIds
    BY <2>1
  <2>3. Cardinality(FreshIds') # Cardinality(FreshIds)
    BY <1>2, <1>3, <2>2, FS_Subset
  <2> QED
    BY <1>3, <2>3 DEF Fresh
<1> QED
  BY <1>1, <1>3, <1>4 DEF Fresh

\* In each round the monitor finds that a container is missing.
LEMMA LackIsSeen ==
  ASSUME CMTypeOK, [CMNext]_cmVars
  PROVE  /\ mon = "mark" /\ Lacking => mon' = "mark" \/ (mon' = "remove" /\ need' > 0)
         /\ mon = "remove" /\ need > 0
              => (mon' = "remove" \/ mon' = "starting") /\ need' > 0
<1> USE ContainerManagerAssumption
<1>1. CASE MarkContainers /\ Lacking
  <2>1. Registered \in SUBSET Ids /\ Registered \ seen \in SUBSET Ids
    BY DEF Registered
  <2>2. Cardinality(Registered) \in Nat /\ Cardinality(Registered \ seen) \in Nat
    BY <2>1, RegisteredFinite
  <2>3. need' > 0
    BY <1>1, <2>2 DEF MarkContainers, Lacking, Missing
  <2> QED
    BY <1>1, <2>3 DEF MarkContainers
<1>2. CASE MonitorStep /\ ~MarkContainers
  BY <1>2 DEF MonitorStep, MonitorOwnStep, InitializePool, InitializeFails,
     FinishInitialize, StartNothing, RegisterContainer, StartFails,
     StartContainer, CanStart, Tick, ListContainers, ListFails, ReadRegistry,
     RemoveMarked, FinishRemove, FinishHealthCheck
<1>3. CASE UNCHANGED monVars
  BY <1>3 DEF monVars
<1>4. CASE MarkContainers /\ ~Lacking
  BY <1>4 DEF MarkContainers
<1> QED
  BY <1>1, <1>2, <1>3, <1>4, OthersLeaveMonitor

Shrinks(from, to) == Fresh(from) ~> (Fresh(to) \/ Full)
ShrinksBy(d) == \A n \in Nat : Shrinks(n + d, n)
NeedsStart == mon = "starting" /\ need > 0

\* As long as a container is missing, another one is started.
LEMMA AnotherIsStarted ==
  ASSUME MaxWorkers <= 1024, NEW n \in Nat, NEW m \in Nat, n = m + 1
  PROVE  CMDaemonSpec /\ []NothingBlocksManager => Shrinks(n, m)
<1>1. LeaseInv /\ Fresh(n) /\ [CMNext]_cmVars
      => /\ Fresh(n)'
         /\ <<\E id \in Ids : StartContainer(id)>>_cmVars => Fresh(m)'
  BY RefillStages
<1>2. LeaseInv /\ [CMNext]_cmVars
      => /\ mon = "mark" /\ Lacking => (mon = "mark")' \/ ((mon = "remove")' /\ (need > 0)')
         /\ mon = "remove" /\ need > 0
              => ((mon = "remove")' \/ (mon = "starting")') /\ (need > 0)'
  BY LackIsSeen DEF LeaseInv
<1>3. LeaseInv /\ RegistryBound /\ Fresh(n) /\ ~Full => Lacking
  <2> SUFFICES ASSUME LeaseInv, RegistryBound, Fresh(n), ~Full PROVE Lacking
    OBVIOUS
  <2>1. Registered \in SUBSET Ids
    BY DEF Registered
  <2>2. Cardinality(Registered) \in Nat
    BY <2>1, RegisteredFinite
  <2> QED
    BY <2>2, ContainerManagerAssumption DEF RegistryBound, Full, Lacking, Fresh
<1>4. NothingBlocksManager /\ NeedsStart /\ Lacking /\ ~Full /\ ~mu
      => ENABLED <<\E id \in Ids : StartContainer(id)>>_cmVars
  BY DEF NothingBlocksManager, StartMoves, NeedsStart, Lacking, Full
<1>5. /\ Fresh(n) => Ready
      /\ fatal => Full
      /\ NeedsStart <=> mon = "starting" /\ need > 0
      /\ mon = "mark" => ~(mon = "remove")
      /\ mon = "starting" => ~(mon = "remove")
  BY DEF Fresh, Full, NeedsStart
<1> QED
  BY <1>1, <1>2, <1>3, <1>4, <1>5, RoundsGoOn, RemovesEnd, MutexIsFree,
     CallsAreAnswered, ManagerInvariant, RegistryIsBounded, PTL
     DEF CMDaemonSpec, CMFairSpec, CMSpec, DaemonAnswers, Shrinks

LEMMA MoreAreStarted ==
  ASSUME NEW d \in Nat
  PROVE  ShrinksBy(d) => ShrinksBy(2 * d)
<1>1. ASSUME NEW n \in Nat, NEW k \in Nat, NEW m \in Nat
      PROVE  Shrinks(m, k) /\ Shrinks(k, n) => Shrinks(m, n)
  BY PTL DEF Shrinks
<1>2. ASSUME NEW n \in Nat
      PROVE  ShrinksBy(d) => Shrinks(n + 2 * d, n)
  <2>1. n + d \in Nat /\ n + 2 * d \in Nat /\ (n + d) + d = n + 2 * d
    OBVIOUS
  <2> QED
    BY <1>1, <2>1 DEF ShrinksBy
<1> QED
  BY <1>2 DEF ShrinksBy

\* A pool that has lost containers is filled up again, unless the process was
\* aborted or the daemon has no more of up to 4096 containers, for any number of
\* workers that use and goroutines that remove containers meanwhile: if the daemon
\* answers, and when asked again and again does not always fail.
THEOREM PoolRefillsInTheEnd ==
  ASSUME MaxWorkers <= 1024, Cardinality(Ids) <= 4096
  PROVE  CMFairSpec /\ []NothingBlocksManager => PoolRefills
<1>1. CMDaemonSpec /\ []NothingBlocksManager => ShrinksBy(1)
  <2>1. ASSUME NEW n \in Nat
        PROVE  CMDaemonSpec /\ []NothingBlocksManager => Shrinks(n + 1, n)
    BY AnotherIsStarted
  <2> QED
    BY <2>1 DEF ShrinksBy
<1>2. ShrinksBy(1) => ShrinksBy(16)
  <2>1. 2 * 1 = 2 /\ 2 * 2 = 4 /\ 2 * 4 = 8 /\ 2 * 8 = 16
    OBVIOUS
  <2> QED
    BY <2>1, MoreAreStarted
<1>3. ShrinksBy(16) => ShrinksBy(256)
  <2>1. 2 * 16 = 32 /\ 2 * 32 = 64 /\ 2 * 64 = 128 /\ 2 * 128 = 256
    OBVIOUS
  <2> QED
    BY <2>1, MoreAreStarted
<1>4. ShrinksBy(256) => ShrinksBy(4096)
  <2>1. 2 * 256 = 512 /\ 2 * 512 = 1024 /\ 2 * 1024 = 2048 /\ 2 * 2048 = 4096
    OBVIOUS
  <2> QED
    BY <2>1, MoreAreStarted
<1>5. ShrinksBy(4096) => Shrinks(4096, 0)
  <2>1. 0 \in Nat /\ 0 + 4096 = 4096
    OBVIOUS
  <2> QED
    BY <2>1 DEF ShrinksBy
<1>6. FreshIds \in SUBSET Ids /\ IsFiniteSet(FreshIds) /\ Cardinality(FreshIds) \in Nat
  <2>1. FreshIds \in SUBSET Ids
    BY DEF FreshIds
  <2> QED
    BY <2>1, RegisteredFinite
<1>7. Lacking => Fresh(4096)
  <2>1. Cardinality(FreshIds) <= Cardinality(Ids) /\ Cardinality(Ids) \in Nat
    BY <1>6, ContainerManagerAssumption, FS_Subset, FS_CardinalityType
  <2> QED
    BY <1>6, <2>1 DEF Lacking, Fresh
<1>8. Fresh(0) => Full
  <2>1. Fresh(0) => FreshIds = {}
    BY <1>6, FS_EmptySet DEF Fresh
  <2> QED
    BY <2>1 DEF FreshIds, Full
<1> QED
  BY <1>1, <1>2, <1>3, <1>4, <1>5, <1>7, <1>8, PTL
     DEF PoolRefills, CMDaemonSpec, Shrinks, Lacking, Full

=============================================================================
