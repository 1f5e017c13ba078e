---------------------------- MODULE Engine_proofs ----------------------------
(***************************************************************************)
(* What holds of Engine for any requests and any number of workers.        *)
(***************************************************************************)
EXTENDS Engine, DockerPool_proofs

\* What a callback is running for is a request that was received.
LEMMA CurrentIsReceived ==
  ASSUME EngineTypeOK, NEW s \in Subjects, step[s] # "idle"
  PROVE  /\ taken[s] \in 1..Len(inbox[s])
         /\ Current(s) \in Jobs
BY DEF EngineTypeOK, Current

-----------------------------------------------------------------------------
(* The engine's steps, and the types.                                      *)

LEMMA EngineInitTypeOK == EngineInit => EngineTypeOK
<1> SUFFICES ASSUME EngineInit
             PROVE  EngineTypeOK
  OBVIOUS
<1>1. inbox \in [Subjects -> Seq(Jobs)] /\ \A s \in Subjects : Len(inbox[s]) = 0
  BY DEF EngineInit
<1>2. reply \in [Jobs -> Statuses \cup {"none"}]
  BY DEF EngineInit
<1>3. /\ taken \in [Subjects -> Nat]
      /\ \A s \in Subjects : taken[s] = 0 /\ step[s] = "idle"
      /\ step \in [Subjects -> {"idle", "execute", "respond"}]
      /\ exited \in BOOLEAN
  BY DEF EngineInit
<1>4. \A s \in Subjects : taken[s] <= Len(inbox[s])
  BY <1>1, <1>3
<1> QED
  BY <1>1, <1>2, <1>3, <1>4 DEF EngineTypeOK

\* The steps the engine's own state does not take part in.
OtherSteps == PoolStep \/ Signal \/ ShutdownPool \/ Exit \/ UNCHANGED allVars

LEMMA OthersLeaveCalls ==
  OtherSteps => UNCHANGED <<inbox, taken, step, reply, caller>>
<1> SUFFICES ASSUME OtherSteps
             PROVE  UNCHANGED <<inbox, taken, step, reply, caller>>
  OBVIOUS
<1>1. CASE PoolStep
  <2>1. ASSUME NEW w \in Workers, WorkerStep(w)
        PROVE  UNCHANGED caller
    BY <2>1 DEF WorkerStep, TakeJob, ExitWorker, CommandDone, CommandFails, Timeout, EndRun,
                SendResult, callVars
  <2>2. ASSUME NEW j \in Jobs, DaemonStep(j)
        PROVE  UNCHANGED caller
    BY <2>2 DEF DaemonStep, DockerCreate, DockerStart, ContainerStep, Ask, AskCreate,
       AskStart, ContainerExit, callVars
  <2> QED
    BY <1>1, <2>1, <2>2 DEF PoolStep, engineVars
<1>2. CASE Signal \/ ShutdownPool
  BY <1>2 DEF Signal, ShutdownPool, CloseShutdown, ShutdownReturns, engineVars, callVars
<1>3. CASE Exit
  BY <1>3 DEF Exit, vars
<1>4. CASE UNCHANGED allVars
  BY <1>4 DEF allVars, vars, engineVars
<1> QED
  BY <1>1, <1>2, <1>3, <1>4 DEF OtherSteps

\* What a callback's step and the arrival of a message are.
LEMMA EngineSteps ==
  ASSUME [EngineNext]_allVars
  PROVE  \/ \E s \in Subjects, j \in Jobs : Receive(s, j)
         \/ \E s \in Subjects : StartCallback(s)
         \/ \E s \in Subjects : Execute(s)
         \/ \E s \in Subjects : Respond(s)
         \/ OtherSteps
BY DEF EngineNext, CallbackStep, OtherSteps

LEMMA EngineNextTypeOK == EngineTypeOK /\ [EngineNext]_allVars => EngineTypeOK'
<1> SUFFICES ASSUME EngineTypeOK, [EngineNext]_allVars
             PROVE  EngineTypeOK'
  OBVIOUS
<1>1. ASSUME NEW s \in Subjects, NEW j \in Jobs, Receive(s, j)
      PROVE  EngineTypeOK'
  <2>1. /\ Append(inbox[s], j) \in Seq(Jobs)
        /\ Len(Append(inbox[s], j)) = Len(inbox[s]) + 1
    BY DEF EngineTypeOK
  <2>2. inbox' = [inbox EXCEPT ![s] = Append(inbox[s], j)]
    BY <1>1 DEF Receive
  <2>3. inbox' \in [Subjects -> Seq(Jobs)]
    BY <2>1, <2>2 DEF EngineTypeOK
  <2>4. \A t \in Subjects : taken[t] <= Len(inbox'[t])
    BY <2>1, <2>2 DEF EngineTypeOK
  <2> QED
    BY <1>1, <2>3, <2>4 DEF Receive, EngineTypeOK
<1>2. ASSUME NEW s \in Subjects, StartCallback(s)
      PROVE  EngineTypeOK'
  BY <1>2 DEF StartCallback, Begin, EngineTypeOK
<1>3. ASSUME NEW s \in Subjects, Execute(s)
      PROVE  EngineTypeOK'
  BY <1>3 DEF Execute, engineVars, EngineTypeOK
<1>4. ASSUME NEW s \in Subjects, Respond(s)
      PROVE  EngineTypeOK'
  <2>1. Response(Current(s)) \in Statuses
    BY DEF Response, Statuses
  <2> QED
    BY <1>4, <2>1 DEF Respond, Publish, EngineTypeOK
<1>5. CASE OtherSteps
  <2>1. exited' \in BOOLEAN
    BY <1>5 DEF OtherSteps, PoolStep, Signal, ShutdownPool, Exit, engineVars, allVars,
       EngineTypeOK
  <2> QED
    BY <1>5, <2>1, OthersLeaveCalls DEF EngineTypeOK
<1> QED
  BY <1>1, <1>2, <1>3, <1>4, <1>5, EngineSteps

\* The engine's variables keep their types; a callback that is running has a
\* message to run for.
THEOREM EngineTypeCorrect == EngineSpec => []EngineTypeOK
BY EngineInitTypeOK, EngineNextTypeOK, PTL DEF EngineSpec

-----------------------------------------------------------------------------
\* The engine's behaviours are behaviours of the pool: the callbacks call
\* ExecuteJob, and main Shutdown, as the pool's specification lets anybody do.
THEOREM EngineRunsThePool == EngineSpec => UsesDockerPool
<1>1. EngineInit => Init
  BY DEF EngineInit
<1>2. EngineTypeOK /\ [EngineNext]_allVars => [Next]_vars
  <2> SUFFICES ASSUME EngineTypeOK, [EngineNext]_allVars
               PROVE  [Next]_vars
    OBVIOUS
  <2>1. ASSUME NEW s \in Subjects, NEW j \in Jobs, Receive(s, j)
        PROVE  UNCHANGED vars
    BY <2>1 DEF Receive
  <2>2. ASSUME NEW s \in Subjects, StartCallback(s)
        PROVE  UNCHANGED vars
    BY <2>2 DEF StartCallback, Begin
  <2>3. ASSUME NEW s \in Subjects, Execute(s)
        PROVE  Next
    <3>1. Current(s) \in Jobs
      BY <2>3, CurrentIsReceived DEF Execute
    <3>2. CallerStep(Current(s))
      BY <2>3 DEF Execute
    <3> QED
      BY <3>1, <3>2 DEF Next
  <2>4. ASSUME NEW s \in Subjects, Respond(s)
        PROVE  UNCHANGED vars
    BY <2>4 DEF Respond
  <2>5. CASE OtherSteps
    <3>1. PoolStep \/ Signal \/ ShutdownPool => Next
      BY DEF PoolStep, Signal, ShutdownPool, Next
    <3>2. Exit \/ UNCHANGED allVars => UNCHANGED vars
      BY DEF Exit, allVars
    <3> QED
      BY <2>5, <3>1, <3>2 DEF OtherSteps
  <2> QED
    BY <2>1, <2>2, <2>3, <2>4, <2>5, EngineSteps
<1> QED
  BY <1>1, <1>2, EngineTypeCorrect, PTL DEF EngineSpec, UsesDockerPool, Spec

-----------------------------------------------------------------------------
(* Requests and the callbacks that carry them.                             *)

\* A request is received once.
ReceivedOnce ==
  \A s, t \in Subjects : \A i \in 1..Len(inbox[s]), k \in 1..Len(inbox[t]) :
    inbox[s][i] = inbox[t][k] => s = t /\ i = k

\* A job that was submitted and is not answered has its callback.
CalledBack ==
  \A j \in Jobs : caller[j] # "idle" /\ reply[j] = "none"
    => \E s \in Subjects : step[s] = "execute" /\ Current(s) = j

\* Only requests that were received are answered, and not before ExecuteJob is over.
AnswersAreDue ==
  \A j \in Jobs : reply[j] # "none" => ~Waiting(j) /\ \E s \in Subjects : j \in Received(s)

\* What a callback is running for, and what comes after it, is not answered.
NotYetAnswered ==
  \A s \in Subjects : \A i \in 1..Len(inbox[s]) :
    i > taken[s] \/ (i = taken[s] /\ step[s] # "idle") => reply[inbox[s][i]] = "none"

\* What came before it is, unless it could not be parsed.
EarlierAnswered ==
  \A s \in Subjects : \A i \in 1..Len(inbox[s]) :
    i < taken[s] \/ (i = taken[s] /\ step[s] = "idle")
      => inbox[s][i] \in Malformed \/ reply[inbox[s][i]] # "none"

CallInv ==
  /\ ReceivedOnce
  /\ CalledBack
  /\ AnswersAreDue
  /\ NotYetAnswered
  /\ EarlierAnswered

LEMMA CallInvInit == EngineInit => CallInv
<1> SUFFICES ASSUME EngineInit
             PROVE  CallInv
  OBVIOUS
<1>1. \A s \in Subjects : 1..Len(inbox[s]) = {}
  BY DEF EngineInit
<1>2. \A j \in Jobs : reply[j] = "none" /\ caller[j] = "idle"
  BY DEF EngineInit, Init
<1> QED
  BY <1>1, <1>2 DEF CallInv, ReceivedOnce, CalledBack, AnswersAreDue, NotYetAnswered,
     EarlierAnswered

\* A callback has the request it is running for to itself.
LEMMA CurrentIsOwn ==
  ASSUME EngineTypeOK, CallInv, NEW s \in Subjects, step[s] # "idle",
         NEW t \in Subjects, NEW i \in 1..Len(inbox[t]), inbox[t][i] = Current(s)
  PROVE  t = s /\ i = taken[s]
<1>1. taken[s] \in 1..Len(inbox[s])
  BY CurrentIsReceived
<1> QED
  BY <1>1 DEF CallInv, ReceivedOnce, Current

LEMMA ReceivePreserves ==
  ASSUME EngineTypeOK, CallInv, NEW s \in Subjects, NEW j \in Jobs, Receive(s, j)
  PROVE  CallInv'
<1>1. ASSUME NEW t \in Subjects
      PROVE  /\ inbox'[t] \in Seq(Jobs)
             /\ t # s => inbox'[t] = inbox[t]
             /\ t = s => Len(inbox'[t]) = Len(inbox[t]) + 1 /\ inbox'[t][Len(inbox[t]) + 1] = j
             /\ Len(inbox[t]) \in Nat
             /\ \A i \in 1..Len(inbox[t]) : i \in 1..Len(inbox'[t]) /\ inbox'[t][i] = inbox[t][i]
  <2>1. inbox[t] \in Seq(Jobs) /\ inbox' = [inbox EXCEPT ![s] = Append(inbox[s], j)]
    BY DEF EngineTypeOK, Receive
  <2>2. /\ Append(inbox[t], j) \in Seq(Jobs)
        /\ Len(Append(inbox[t], j)) = Len(inbox[t]) + 1
        /\ Append(inbox[t], j)[Len(inbox[t]) + 1] = j
        /\ \A i \in 1..Len(inbox[t]) : Append(inbox[t], j)[i] = inbox[t][i]
        /\ Len(inbox[t]) \in Nat
    BY <2>1
  <2>3. inbox'[t] = IF t = s THEN Append(inbox[t], j) ELSE inbox[t]
    BY <2>1 DEF EngineTypeOK
  <2>4. CASE t = s
    <3>1. inbox'[t] = Append(inbox[t], j)
      BY <2>3, <2>4
    <3>2. \A i \in 1..Len(inbox[t]) : i \in 1..(Len(inbox[t]) + 1)
      BY <2>2
    <3> QED
      BY <2>2, <2>4, <3>1, <3>2
  <2>5. CASE t # s
    BY <2>1, <2>2, <2>3, <2>5
  <2> QED
    BY <2>4, <2>5
<1>2. \A t \in Subjects : \A i \in 1..Len(inbox[t]) : inbox[t][i] # j
  BY DEF Receive, Received
<1>3. ASSUME NEW t \in Subjects, NEW i \in 1..Len(inbox'[t])
      PROVE  \/ i \in 1..Len(inbox[t]) /\ inbox'[t][i] = inbox[t][i]
             \/ t = s /\ i = Len(inbox[t]) + 1 /\ inbox'[t][i] = j
  BY <1>1
<1>4. UNCHANGED <<caller, taken, step, reply>>
  BY DEF Receive, vars
<1>5. \A t \in Subjects : step[t] # "idle" => Current(t)' = Current(t)
  BY <1>1, <1>4, CurrentIsReceived DEF Current
<1>6. reply[j] = "none"
  BY DEF CallInv, AnswersAreDue, Receive
<1>7. ReceivedOnce'
  <2> SUFFICES ASSUME NEW t \in Subjects, NEW u \in Subjects,
                      NEW i \in 1..Len(inbox'[t]), NEW k \in 1..Len(inbox'[u]),
                      inbox'[t][i] = inbox'[u][k]
               PROVE  t = u /\ i = k
    BY DEF ReceivedOnce
  <2>1. CASE i \in 1..Len(inbox[t]) /\ k \in 1..Len(inbox[u])
    <3>1. inbox[t][i] = inbox[u][k]
      BY <1>1, <2>1
    <3> QED
      BY <2>1, <3>1 DEF CallInv, ReceivedOnce
  <2>2. CASE i \notin 1..Len(inbox[t])
    <3>1. t = s /\ i = Len(inbox[t]) + 1 /\ inbox'[u][k] = j
      BY <1>3, <2>2
    <3> QED
      BY <1>2, <1>3, <3>1
  <2>3. CASE k \notin 1..Len(inbox[u])
    <3>1. u = s /\ k = Len(inbox[u]) + 1 /\ inbox'[t][i] = j
      BY <1>3, <2>3
    <3> QED
      BY <1>2, <1>3, <3>1
  <2> QED
    BY <2>1, <2>2, <2>3
<1>8. CalledBack'
  BY <1>4, <1>5 DEF CallInv, CalledBack
<1>9. AnswersAreDue'
  <2>1. \A t \in Subjects : Received(t) \subseteq Received(t)'
    BY <1>1 DEF Received
  <2> QED
    BY <1>4, <2>1 DEF CallInv, AnswersAreDue, Waiting
<1>10. NotYetAnswered'
  <2> SUFFICES ASSUME NEW t \in Subjects, NEW i \in 1..Len(inbox'[t]),
                      i > taken[t] \/ (i = taken[t] /\ step[t] # "idle")
               PROVE  reply[inbox'[t][i]] = "none"
    BY <1>4 DEF NotYetAnswered
  <2> QED
    BY <1>3, <1>6 DEF CallInv, NotYetAnswered
<1>11. EarlierAnswered'
  <2> SUFFICES ASSUME NEW t \in Subjects, NEW i \in 1..Len(inbox'[t]),
                      i < taken[t] \/ (i = taken[t] /\ step[t] = "idle")
               PROVE  inbox'[t][i] \in Malformed \/ reply[inbox'[t][i]] # "none"
    BY <1>4 DEF EarlierAnswered
  <2>1. taken[t] <= Len(inbox[t]) /\ taken[t] \in Nat /\ Len(inbox[t]) \in Nat
    BY DEF EngineTypeOK
  <2>2. i \in 1..Len(inbox[t]) /\ inbox'[t][i] = inbox[t][i]
    BY <1>3, <2>1
  <2> QED
    BY <2>2 DEF CallInv, EarlierAnswered
<1> QED
  BY <1>7, <1>8, <1>9, <1>10, <1>11 DEF CallInv

LEMMA StartPreserves ==
  ASSUME EngineTypeOK, CallInv, NEW s \in Subjects, StartCallback(s)
  PROVE  CallInv'
<1>1. UNCHANGED <<inbox, caller, reply>>
  BY DEF StartCallback, Begin, vars
<1>2. /\ taken[s] \in Nat /\ taken'[s] = taken[s] + 1
      /\ step[s] = "idle"
      /\ \A t \in Subjects \ {s} : taken'[t] = taken[t] /\ step'[t] = step[t]
      /\ \A t \in Subjects : \A i \in 1..Len(inbox[t]) : i \in Nat
  BY DEF StartCallback, Begin, EngineTypeOK
<1>3. step'[s] = "idle" => inbox[s][taken'[s]] \in Malformed
  BY <1>2 DEF StartCallback, Begin, EngineTypeOK
<1>4. ReceivedOnce' /\ AnswersAreDue'
  BY <1>1 DEF CallInv, ReceivedOnce, AnswersAreDue, Waiting, Received
<1>5. CalledBack'
  <2> SUFFICES ASSUME NEW j \in Jobs, caller[j] # "idle", reply[j] = "none"
               PROVE  \E t \in Subjects : step'[t] = "execute" /\ Current(t)' = j
    BY <1>1 DEF CalledBack
  <2>1. PICK t \in Subjects : step[t] = "execute" /\ Current(t) = j
    BY DEF CallInv, CalledBack
  <2>2. t # s
    BY <1>2, <2>1
  <2> QED
    BY <1>1, <1>2, <2>1, <2>2 DEF Current
<1>6. NotYetAnswered'
  <2> SUFFICES ASSUME NEW t \in Subjects, NEW i \in 1..Len(inbox[t]),
                      i > taken'[t] \/ (i = taken'[t] /\ step'[t] # "idle")
               PROVE  reply[inbox[t][i]] = "none"
    BY <1>1 DEF NotYetAnswered
  <2> QED
    BY <1>2 DEF CallInv, NotYetAnswered
<1>7. EarlierAnswered'
  <2> SUFFICES ASSUME NEW t \in Subjects, NEW i \in 1..Len(inbox[t]),
                      i < taken'[t] \/ (i = taken'[t] /\ step'[t] = "idle")
               PROVE  inbox[t][i] \in Malformed \/ reply[inbox[t][i]] # "none"
    BY <1>1 DEF EarlierAnswered
  <2>1. CASE t = s
    <3>1. i < taken[s] \/ i = taken[s] \/ i = taken'[s]
      BY <1>2, <2>1
    <3> QED
      BY <1>2, <1>3, <2>1, <3>1 DEF CallInv, EarlierAnswered
  <2>2. CASE t # s
    BY <1>2, <2>2 DEF CallInv, EarlierAnswered
  <2> QED
    BY <2>1, <2>2
<1> QED
  BY <1>4, <1>5, <1>6, <1>7 DEF CallInv

LEMMA ExecutePreserves ==
  ASSUME EngineTypeOK, TypeOK, CallInv, NEW s \in Subjects, Execute(s)
  PROVE  CallInv'
<1>1. UNCHANGED <<inbox, taken, step, reply>>
  BY DEF Execute, engineVars
<1>2. /\ step[s] = "execute"
      /\ \A j \in Jobs \ {Current(s)} : caller'[j] = caller[j]
  BY DEF Execute, CallerStep, SubmitAccept, SubmitReject, CountJob, Return, TypeOK
<1>3. reply[Current(s)] = "none"
  BY <1>2, CurrentIsReceived DEF CallInv, NotYetAnswered, Current
<1>4. ReceivedOnce' /\ NotYetAnswered' /\ EarlierAnswered'
  BY <1>1 DEF CallInv, ReceivedOnce, NotYetAnswered, EarlierAnswered
<1>5. CalledBack'
  BY <1>1, <1>2 DEF CallInv, CalledBack, Current
<1>6. AnswersAreDue'
  BY <1>1, <1>2, <1>3 DEF CallInv, AnswersAreDue, Waiting, Received
<1> QED
  BY <1>4, <1>5, <1>6 DEF CallInv

LEMMA RespondPreserves ==
  ASSUME EngineTypeOK, CallInv, NEW s \in Subjects, Respond(s)
  PROVE  CallInv'
<1> DEFINE c == Current(s)
<1>1. UNCHANGED <<inbox, taken, caller>>
  BY DEF Respond, Publish, vars
<1>2. /\ step[s] # "idle" /\ step'[s] = "idle"
      /\ \A t \in Subjects \ {s} : step'[t] = step[t]
  BY DEF Respond, Publish, EngineTypeOK
<1>3. taken[s] \in 1..Len(inbox[s]) /\ c = inbox[s][taken[s]] /\ c \in Jobs
  BY <1>2, CurrentIsReceived DEF Current
<1>4. reply'[c] # "none" /\ \A j \in Jobs \ {c} : reply'[j] = reply[j]
  <2>1. Response(c) # "none"
    BY DEF Response
  <2> QED
    BY <1>3, <2>1 DEF Respond, Publish, EngineTypeOK
<1>5. ASSUME NEW t \in Subjects, NEW i \in 1..Len(inbox[t]), t # s \/ i # taken[s]
      PROVE  inbox[t][i] # c /\ inbox[t][i] \in Jobs
  BY <1>2, <1>5, CurrentIsOwn DEF EngineTypeOK
<1> HIDE DEF c
<1>6. ReceivedOnce'
  BY <1>1 DEF CallInv, ReceivedOnce
<1>7. CalledBack'
  <2> SUFFICES ASSUME NEW j \in Jobs, caller[j] # "idle", reply'[j] = "none"
               PROVE  \E t \in Subjects : step'[t] = "execute" /\ Current(t)' = j
    BY <1>1 DEF CalledBack
  <2>1. j # c /\ reply[j] = "none"
    BY <1>4
  <2>2. PICK t \in Subjects : step[t] = "execute" /\ Current(t) = j
    BY <2>1 DEF CallInv, CalledBack
  <2>3. t # s
    BY <2>1, <2>2 DEF c
  <2> QED
    BY <1>1, <1>2, <2>2, <2>3 DEF Current
<1>8. AnswersAreDue'
  <2>1. reply[c] = "none"
    BY <1>2, <1>3 DEF CallInv, NotYetAnswered
  <2>2. ~Waiting(c)
    <3>1. CASE step[s] = "respond"
      <4> SUFFICES ASSUME caller[c] # "idle"
                   PROVE  FALSE
        BY DEF Waiting
      <4>1. PICK t \in Subjects : step[t] = "execute" /\ Current(t) = c
        BY <1>3, <2>1 DEF CallInv, CalledBack
      <4>2. taken[t] \in 1..Len(inbox[t]) /\ inbox[t][taken[t]] = c
        BY <4>1, CurrentIsReceived DEF Current
      <4>3. t # s
        BY <3>1, <4>1
      <4> QED
        BY <1>5, <4>2, <4>3
    <3>2. CASE Over(Current(s))
      BY <3>2 DEF c, Over, Waiting
    <3> QED
      BY <3>1, <3>2 DEF Respond
  <2>3. c \in Received(s)
    BY <1>3 DEF Received
  <2> SUFFICES ASSUME NEW j \in Jobs, reply'[j] # "none"
               PROVE  ~Waiting(j) /\ \E t \in Subjects : j \in Received(t)
    BY <1>1 DEF AnswersAreDue, Waiting, Received
  <2> QED
    BY <1>4, <2>2, <2>3 DEF CallInv, AnswersAreDue
<1>9. NotYetAnswered'
  <2> SUFFICES ASSUME NEW t \in Subjects, NEW i \in 1..Len(inbox[t]),
                      i > taken[t] \/ (i = taken[t] /\ step'[t] # "idle")
               PROVE  reply'[inbox[t][i]] = "none"
    BY <1>1 DEF NotYetAnswered
  <2>1. t # s \/ i # taken[s]
    BY <1>2, <1>3
  <2>2. reply[inbox[t][i]] = "none"
    BY <1>2, <2>1 DEF CallInv, NotYetAnswered
  <2> QED
    BY <1>4, <1>5, <2>1, <2>2
<1>10. EarlierAnswered'
  <2> SUFFICES ASSUME NEW t \in Subjects, NEW i \in 1..Len(inbox[t]),
                      i < taken[t] \/ (i = taken[t] /\ step'[t] = "idle")
               PROVE  inbox[t][i] \in Malformed \/ reply'[inbox[t][i]] # "none"
    BY <1>1 DEF EarlierAnswered
  <2>1. CASE t = s /\ i = taken[s]
    BY <1>3, <1>4, <2>1
  <2>2. CASE t # s \/ i # taken[s]
    <3>1. inbox[t][i] \in Malformed \/ reply[inbox[t][i]] # "none"
      BY <1>2, <2>2 DEF CallInv, EarlierAnswered
    <3> QED
      BY <1>4, <1>5, <2>2, <3>1
  <2> QED
    BY <2>1, <2>2
<1> QED
  BY <1>6, <1>7, <1>8, <1>9, <1>10 DEF CallInv

LEMMA CallInvNext == EngineTypeOK /\ TypeOK /\ CallInv /\ [EngineNext]_allVars => CallInv'
<1>1. ASSUME CallInv, OtherSteps
      PROVE  CallInv'
  BY <1>1, OthersLeaveCalls DEF CallInv, ReceivedOnce, CalledBack, AnswersAreDue,
     NotYetAnswered, EarlierAnswered, Current, Received, Waiting
<1> QED
  BY <1>1, EngineSteps, ReceivePreserves, StartPreserves, ExecutePreserves, RespondPreserves

\* What the pool alone guarantees, and what the callbacks add to it.
EngineInv == EngineTypeOK /\ TypeOK /\ JobConservation /\ CallInv

LEMMA EngineInvariant == EngineSpec => []EngineInv
<1>1. EngineSpec => []TypeOK /\ []JobConservation
  BY EngineRunsThePool, TypeCorrect, JobsConserved, PTL DEF UsesDockerPool
<1> QED
  BY <1>1, EngineTypeCorrect, CallInvInit, CallInvNext, PTL DEF EngineSpec, EngineInv

\* Every submitted, unanswered request of a subject is the current one.
LEMMA InFlightIsCurrent ==
  ASSUME EngineInv, NEW s \in Subjects, NEW j \in Received(s),
         caller[j] # "idle", reply[j] = "none"
  PROVE  j = Current(s)
<1>1. PICK i \in 1..Len(inbox[s]) : j = inbox[s][i]
  BY DEF Received
<1>2. j \in Jobs
  BY <1>1 DEF EngineInv, EngineTypeOK
<1>3. PICK t \in Subjects : step[t] = "execute" /\ Current(t) = j
  BY <1>2 DEF EngineInv, CallInv, CalledBack
<1>4. s = t
  BY <1>1, <1>3, CurrentIsOwn DEF EngineInv
<1> QED
  BY <1>3, <1>4

\* A subscription never has two of its requests in the pool: the callback that
\* submitted one waits for its result, and there is no second callback.
THEOREM OneJobEach == EngineSpec => []OneJobPerSubject
<1>1. EngineInv => OneJobPerSubject
  <2> SUFFICES ASSUME EngineInv, NEW s \in Subjects
               PROVE  Cardinality({j \in Received(s) : caller[j] # "idle" /\ reply[j] = "none"}) <= 1
    BY DEF OneJobPerSubject
  <2> DEFINE S == {j \in Received(s) : caller[j] # "idle" /\ reply[j] = "none"}
  <2>1. S \subseteq {Current(s)}
    BY InFlightIsCurrent
  <2>2. IsFiniteSet({Current(s)}) /\ Cardinality({Current(s)}) = 1
    BY FS_Singleton
  <2>3. Cardinality(S) <= Cardinality({Current(s)})
    BY <2>1, <2>2, FS_Subset
  <2> QED
    BY <2>2, <2>3
<1> QED
  BY <1>1, EngineInvariant, PTL

\* A response means that the pool is done with the request, so that a client
\* that reads it and asks again does not compete with what it asked before.
THEOREM AnsweredIsOver == EngineSpec => []RepliedIsOver
<1>1. EngineInv => RepliedIsOver
  BY DEF EngineInv, CallInv, AnswersAreDue, JobConservation, OnePlace, RepliedIsOver
<1> QED
  BY <1>1, EngineInvariant, PTL

\* Responses to a subject's requests come in the order of the requests.
THEOREM AnswersInOrder == EngineSpec => []RepliesInOrder
<1>1. EngineInv => RepliesInOrder
  <2> SUFFICES ASSUME EngineInv, NEW s \in Subjects,
                      NEW i \in 1..Len(inbox[s]), NEW k \in 1..Len(inbox[s]),
                      i < k, reply[inbox[s][k]] # "none"
               PROVE  inbox[s][i] \in Malformed \/ reply[inbox[s][i]] # "none"
    BY DEF RepliesInOrder
  <2>1. taken[s] \in Nat
    BY DEF EngineInv, EngineTypeOK
  <2>2. k <= taken[s]
    BY <2>1 DEF EngineInv, CallInv, NotYetAnswered
  <2>3. i < taken[s]
    BY <2>1, <2>2
  <2> QED
    BY <2>3 DEF EngineInv, CallInv, EarlierAnswered
<1> QED
  BY <1>1, EngineInvariant, PTL

\* Each job in the channel belongs to another subscription: there are no more of
\* them than subscriptions that are waiting for one.
LEMMA QueueWithinSubjects ==
  ASSUME EngineInv, NEW T \in SUBSET Subjects,
         \A t \in Subjects : step[t] = "execute" /\ Waiting(Current(t)) => t \in T
  PROVE  Cardinality(T) \in Nat /\ Len(jobs) <= Cardinality(T)
<1> DEFINE Q == 1..Len(jobs)
           Carrier(i) == CHOOSE t \in Subjects : step[t] = "execute" /\ Current(t) = jobs[i]
           f == [i \in Q |-> Carrier(i)]
<1>1. jobs \in Seq(Jobs) /\ Len(jobs) \in Nat
  BY DEF EngineInv, TypeOK
<1>2. ASSUME NEW i \in Q
      PROVE  f[i] \in T /\ Current(f[i]) = jobs[i]
  <2>1. jobs[i] \in Jobs /\ Queued(jobs[i])
    BY <1>1 DEF Queued
  <2>2. Waiting(jobs[i])
    BY <2>1 DEF EngineInv, JobConservation, OnePlace
  <2>3. reply[jobs[i]] = "none"
    BY <2>1, <2>2 DEF EngineInv, CallInv, AnswersAreDue
  <2>4. \E t \in Subjects : step[t] = "execute" /\ Current(t) = jobs[i]
    BY <2>1, <2>2, <2>3 DEF EngineInv, CallInv, CalledBack, Waiting
  <2>5. f[i] \in Subjects /\ step[f[i]] = "execute" /\ Current(f[i]) = jobs[i]
    BY <2>4
  <2> QED
    BY <2>2, <2>5
<1>3. IsFiniteSet(T) /\ Cardinality(T) \in Nat
  BY EngineAssumption, FS_Subset, FS_CardinalityType
<1>4. IsFiniteSet(Q) /\ Cardinality(Q) = Len(jobs)
  <2> DEFINE n == Len(jobs)
  <2>1. n \in Nat /\ (IF 1 > n THEN 0 ELSE n - 1 + 1) = n
    BY <1>1
  <2> HIDE DEF n
  <2>2. IsFiniteSet(1..n) /\ Cardinality(1..n) = (IF 1 > n THEN 0 ELSE n - 1 + 1)
    BY <2>1, FS_Interval
  <2> QED
    BY <2>1, <2>2 DEF n
<1>5. \A i, k \in Q : f[i] = f[k] => i = k
  <2>1. \A i, k \in Q : f[i] = f[k] => jobs[i] = jobs[k]
    BY <1>2
  <2> HIDE DEF f
  <2> QED
    BY <2>1 DEF EngineInv, JobConservation, QueueDistinct
<1>6. ~(Cardinality(T) < Cardinality(Q))
  <2>1. f \in [Q -> T]
    BY <1>2
  <2> HIDE DEF f, Q
  <2> QED
    BY <1>3, <1>4, <1>5, <2>1, FS_PigeonHole
<1> HIDE DEF Q
<1> QED
  BY <1>1, <1>3, <1>4, <1>6

\* A callback that is about to submit finds room in the channel: it is not waiting
\* itself, and the other subscriptions are fewer than the channel holds.
LEMMA RoomForRequest ==
  ASSUME EngineInv, NEW s \in Subjects, step[s] = "execute", caller[Current(s)] = "idle"
  PROVE  Len(jobs) < QueueCapacity
<1>1. Cardinality(Subjects \ {s}) = Cardinality(Subjects) - 1 /\ Cardinality(Subjects) \in Nat
  BY EngineAssumption, FS_RemoveElement, FS_CardinalityType
<1>2. \A t \in Subjects : step[t] = "execute" /\ Waiting(Current(t)) => t \in Subjects \ {s}
  BY DEF Waiting
<1>3. Len(jobs) <= Cardinality(Subjects \ {s})
  BY <1>2, QueueWithinSubjects
<1>4. Len(jobs) \in Nat
  BY DEF EngineInv, TypeOK
<1> QED
  BY <1>1, <1>3, <1>4, EngineAssumption, Constants

\* No request is ever refused because the queue is full, whatever MaxWorkers is.
THEOREM NeverRefused == EngineSpec => []NoRequestRefused
<1>1. EngineInit => NoRequestRefused
  BY DEF EngineInit, Init, NoRequestRefused
<1>2. EngineInv /\ NoRequestRefused /\ [EngineNext]_allVars => NoRequestRefused'
  <2> SUFFICES ASSUME EngineInv, NoRequestRefused, [EngineNext]_allVars
               PROVE  NoRequestRefused'
    OBVIOUS
  <2>1. CASE UNCHANGED caller
    BY <2>1 DEF NoRequestRefused
  <2>2. ASSUME NEW s \in Subjects, Execute(s)
        PROVE  NoRequestRefused'
    <3>1. ~SubmitReject(Current(s))
      <4> SUFFICES ASSUME SubmitReject(Current(s))
                   PROVE  FALSE
        OBVIOUS
      <4>1. Len(jobs) < QueueCapacity
        BY <2>2, RoomForRequest DEF SubmitReject, Execute
      <4>2. Len(jobs) \in Nat /\ Len(jobs) >= QueueCapacity
        BY DEF SubmitReject, EngineInv, TypeOK
      <4> QED
        BY <4>1, <4>2, Constants
    <3> QED
      BY <2>2, <3>1 DEF Execute, CallerStep, SubmitAccept, CountJob, Return,
         NoRequestRefused, EngineInv, TypeOK
  <2>3. ASSUME NEW s \in Subjects, StartCallback(s) \/ Respond(s)
                                   \/ \E j \in Jobs : Receive(s, j)
        PROVE  UNCHANGED caller
    BY <2>3 DEF StartCallback, Begin, Respond, Receive, vars
  <2> QED
    BY <2>1, <2>2, <2>3, OthersLeaveCalls, EngineSteps
<1> QED
  BY <1>1, <1>2, EngineInvariant, PTL DEF EngineSpec

-----------------------------------------------------------------------------
(* What the engine inherits from the pool.                                 *)

\* The callbacks have a worker.WorkerPool to call, and its promises with it: a
\* request is at one stage at a time, the configured limits hold, verdicts are
\* final and requests are executed in the order their callbacks submitted them.
THEOREM EngineKeepsPromises ==
  EngineSpec => /\ ImplementsJobService
                /\ []Service!OneStage /\ []Service!WithinLimits
                /\ Service!VerdictsAreFinal /\ Service!FirstComeFirstServed
BY EngineRunsThePool, Refinement, PoolKeepsPromises DEF UsesDockerPool

\* Only what the callback turned down itself is answered without ExecuteJob.
TurnedDown ==
  \A s \in Subjects :
    step[s] = "respond" => Current(s) \in Undecodable \/ ~Sanitized(Current(s))

NoRequestSucceeds == \A j \in Jobs : reply[j] # "success"

LEMMA TurnedDownNext == EngineTypeOK /\ TurnedDown /\ [EngineNext]_allVars => TurnedDown'
<1> SUFFICES ASSUME EngineTypeOK, TurnedDown, [EngineNext]_allVars
             PROVE  TurnedDown'
  OBVIOUS
<1>1. ASSUME NEW s \in Subjects, NEW j \in Jobs, Receive(s, j)
      PROVE  TurnedDown'
  <2> SUFFICES ASSUME NEW t \in Subjects, step[t] = "respond"
               PROVE  Current(t)' = Current(t)
    BY <1>1 DEF Receive, TurnedDown, Sanitized
  <2>1. taken[t] \in 1..Len(inbox[t])
    BY CurrentIsReceived
  <2> QED
    BY <1>1, <2>1 DEF Receive, Current, EngineTypeOK
<1>2. ASSUME NEW s \in Subjects, StartCallback(s)
      PROVE  TurnedDown'
  <2>1. /\ taken' = [taken EXCEPT ![s] = @ + 1] /\ inbox' = inbox
        /\ LET j == inbox[s][taken[s] + 1]
           IN  step' = [step EXCEPT ![s] = IF j \in Malformed THEN "idle"
                                           ELSE IF j \in Undecodable \/ ~Sanitized(j)
                                           THEN "respond" ELSE "execute"]
    BY <1>2 DEF StartCallback, Begin
  <2>2. Current(s)' = inbox[s][taken[s] + 1]
    BY <2>1 DEF Current, EngineTypeOK
  <2>3. ASSUME NEW t \in Subjects \ {s}
        PROVE  Current(t)' = Current(t) /\ step'[t] = step[t]
    BY <2>1 DEF Current, EngineTypeOK
  <2> QED
    BY <2>1, <2>2, <2>3 DEF TurnedDown, Sanitized, EngineTypeOK
<1>3. ASSUME NEW s \in Subjects, Execute(s)
      PROVE  TurnedDown'
  BY <1>3 DEF Execute, TurnedDown, Current, Sanitized, engineVars
<1>4. ASSUME NEW s \in Subjects, Respond(s)
      PROVE  TurnedDown'
  BY <1>4 DEF Respond, Publish, TurnedDown, Current, Sanitized, EngineTypeOK
<1>5. CASE OtherSteps
  BY <1>5, OthersLeaveCalls DEF TurnedDown, Current, Sanitized
<1> QED
  BY <1>1, <1>2, <1>3, <1>4, <1>5, EngineSteps

LEMMA NoSuccessNext ==
  EngineTypeOK /\ TurnedDown /\ ErrorEverywhere /\ NoRequestSucceeds /\ [EngineNext]_allVars
    => NoRequestSucceeds'
<1> SUFFICES ASSUME EngineTypeOK, TurnedDown, ErrorEverywhere, NoRequestSucceeds,
                    [EngineNext]_allVars
             PROVE  NoRequestSucceeds'
  OBVIOUS
<1>1. ASSUME NEW s \in Subjects, Respond(s)
      PROVE  NoRequestSucceeds'
  <2>1. Current(s) \in Jobs
    BY <1>1, CurrentIsReceived DEF Respond
  <2>2. Response(Current(s)) # "success"
    BY <1>1, <2>1 DEF Respond, TurnedDown, Response, ErrorEverywhere, Over
  <2> QED
    BY <1>1, <2>1, <2>2 DEF Respond, Publish, NoRequestSucceeds, EngineTypeOK
<1>2. ASSUME NEW s \in Subjects, StartCallback(s) \/ Execute(s) \/ \E j \in Jobs : Receive(s, j)
      PROVE  reply' = reply
  BY <1>2 DEF StartCallback, Begin, Execute, Receive, engineVars
<1>3. CASE OtherSteps
  BY <1>3, OthersLeaveCalls DEF NoRequestSucceeds
<1> QED
  BY <1>1, <1>2, <1>3, EngineSteps DEF NoRequestSucceeds

\* No request is ever answered as a success: Execute asks for the error of the
\* result, and the Docker backend sets it whatever the program has done.
THEOREM NobodySucceeds == EngineSpec => []NoRequestSucceeds
<1>1. EngineInit => NoRequestSucceeds /\ TurnedDown
  BY DEF EngineInit, NoRequestSucceeds, TurnedDown
<1> QED
  BY <1>1, TurnedDownNext, NoSuccessNext, EngineTypeCorrect, EngineRunsThePool,
     EveryCallReturnsAnError, PTL DEF EngineSpec, UsesDockerPool

-----------------------------------------------------------------------------
(* What ends up happening, with NothingInEngineBlocks, which TLC checks, as an     *)
(* assumption: the provers do not know what ENABLED means.                 *)

\* The callback of s is in ExecuteJob for j, or about to publish its result.
InCall(s, j) == step[s] = "execute" /\ Current(s) = j
Counting(s, j) == InCall(s, j) /\ Uncounted(j)
Receiving(s, j) == InCall(s, j) /\ Receivable(j)
Replying(s, j) == InCall(s, j) /\ Returned(j)
Replied(j) == reply[j] # "none"

\* The pool's stages are the engine's: its steps are steps of the pool.
LEMMA EngineStepIsPoolStep ==
  /\ EngineTypeOK /\ [EngineNext]_allVars => [Next]_vars
  /\ \A w \in Workers : <<EngineWorkerStep(w)>>_allVars => <<WorkerStep(w)>>_vars
<1>1. ASSUME EngineTypeOK, NEW s \in Subjects, Execute(s)
      PROVE  Next
  BY <1>1, CurrentIsReceived DEF Execute, Next
<1>2. EngineTypeOK /\ [EngineNext]_allVars => [Next]_vars
  BY <1>1 DEF EngineNext, CallbackStep, StartCallback, Begin, Respond, Receive, PoolStep,
     Signal, ShutdownPool, Exit, allVars, Next
<1>3. \A w \in Workers : <<EngineWorkerStep(w)>>_allVars => <<WorkerStep(w)>>_vars
  BY DEF EngineWorkerStep, allVars
<1> QED
  BY <1>2, <1>3

\* Only its own callback answers a request; every other step leaves the call and
\* the result of its job alone.
LEMMA CallStages ==
  ASSUME NEW s \in Subjects, NEW j \in Jobs, EngineInv, DockerInv, [EngineNext]_allVars
  PROVE  /\ Counting(s, j) => Counting(s, j)' \/ Receiving(s, j)'
         /\ Receiving(s, j) => Receiving(s, j)' \/ Replying(s, j)'
         /\ Replying(s, j) => Replying(s, j)' \/ Replied(j)'
         /\ Counting(s, j) /\ <<CallbackStep(s)>>_allVars => Receiving(s, j)'
         /\ Receiving(s, j) /\ <<CallbackStep(s)>>_allVars => Replying(s, j)'
         /\ Replying(s, j) /\ <<CallbackStep(s)>>_allVars => Replied(j)'
<1>0. EngineTypeOK /\ TypeOK /\ CallInv
  BY DEF EngineInv
<1>1. [Next]_vars
  BY <1>0, EngineStepIsPoolStep
<1>2. /\ Uncounted(j) => Uncounted(j)' \/ Receivable(j)'
      /\ Receivable(j) => Receivable(j)' \/ Returned(j)'
  BY <1>1, CallerStages
<1>3. Returned(j) => Returned(j)'
  BY <1>1, CallerStages
<1>4. ASSUME InCall(s, j), Respond(s)
      PROVE  ~Counting(s, j) /\ ~Receiving(s, j) /\ Replied(j)'
  <2>1. Response(j) # "none"
    BY DEF Response
  <2>2. Over(j)
    BY <1>4 DEF Respond, InCall
  <2> QED
    BY <1>0, <1>4, <2>1, <2>2 DEF Respond, Publish, InCall, Counting, Receiving, Uncounted,
       Receivable, Replied, Over, EngineTypeOK
<1>5. ASSUME InCall(s, j), ~Respond(s)
      PROVE  InCall(s, j)'
  <2>1. taken[s] \in 1..Len(inbox[s]) /\ step[s] = "execute"
    BY <1>0, <1>5, CurrentIsReceived DEF InCall
  <2>2. ASSUME NEW t \in Subjects, NEW i \in Jobs, Receive(t, i)
        PROVE  InCall(s, j)'
    BY <1>0, <1>5, <2>1, <2>2 DEF Receive, InCall, Current, EngineTypeOK
  <2>3. ASSUME NEW t \in Subjects, StartCallback(t)
        PROVE  InCall(s, j)'
    BY <1>0, <1>5, <2>1, <2>3 DEF StartCallback, Begin, InCall, Current, EngineTypeOK
  <2>4. ASSUME NEW t \in Subjects, Execute(t)
        PROVE  InCall(s, j)'
    BY <1>5, <2>4 DEF Execute, engineVars, InCall, Current
  <2>5. ASSUME NEW t \in Subjects, Respond(t)
        PROVE  InCall(s, j)'
    BY <1>0, <1>5, <2>5 DEF Respond, Publish, InCall, Current, EngineTypeOK
  <2>6. CASE OtherSteps
    BY <1>5, <2>6, OthersLeaveCalls DEF InCall, Current
  <2> QED
    BY <2>2, <2>3, <2>4, <2>5, <2>6, EngineSteps
<1>6. ASSUME InCall(s, j), CallbackStep(s), ~Respond(s)
      PROVE  CallerStep(j)
  BY <1>6 DEF CallbackStep, StartCallback, Execute, InCall
<1>7. ASSUME CallerStep(j)
      PROVE  /\ Uncounted(j) => Receivable(j)'
             /\ Receivable(j) => Returned(j)'
             /\ ~Returned(j)
  BY <1>0, <1>7 DEF CallerStep, SubmitAccept, SubmitReject, CountJob, Return, TypeOK,
     Uncounted, Receivable, Returned, Delivered
<1>8. CASE Respond(s)
  BY <1>4, <1>8 DEF Counting, Receiving, Replying
<1>9. CASE ~Respond(s)
  BY <1>2, <1>3, <1>5, <1>6, <1>7, <1>9 DEF Counting, Receiving, Replying
<1> QED
  BY <1>8, <1>9

\* An answered job's callback publishes the answer, unless the process exits.
LEMMA CallEnds ==
  ASSUME NEW s \in Subjects, NEW j \in Jobs
  PROVE  EngineFairSpec /\ []NothingInEngineBlocks
         => (Counting(s, j) \/ Receiving(s, j) \/ Replying(s, j) ~> Replied(j) \/ exited)
<1>1. EngineFairness => CallbackFairness(s)
  BY DEF EngineFairness
<1>2. NothingInEngineBlocks => CallbackMoves(s)
  BY DEF NothingInEngineBlocks
<1>3. CallbackMoves(s) /\ ~exited /\ (Counting(s, j) \/ Receiving(s, j) \/ Replying(s, j))
      => ENABLED <<CallbackStep(s)>>_allVars
  <2>1. Counting(s, j) \/ Receiving(s, j) \/ Replying(s, j) => CallbackReady(s)
    BY DEF Counting, Receiving, Replying, CallbackReady, InCall, Uncounted, Receivable,
       Returned, Over, Delivered
  <2> QED
    BY <2>1 DEF CallbackMoves
<1>4. EngineInv /\ DockerInv /\ [EngineNext]_allVars
      => /\ Counting(s, j) => Counting(s, j)' \/ Receiving(s, j)'
         /\ Receiving(s, j) => Receiving(s, j)' \/ Replying(s, j)'
         /\ Replying(s, j) => Replying(s, j)' \/ Replied(j)'
         /\ Counting(s, j) /\ <<CallbackStep(s)>>_allVars => Receiving(s, j)'
         /\ Receiving(s, j) /\ <<CallbackStep(s)>>_allVars => Replying(s, j)'
         /\ Replying(s, j) /\ <<CallbackStep(s)>>_allVars => Replied(j)'
  BY CallStages
<1>5. EngineSpec => []EngineInv /\ []DockerInv
  BY EngineInvariant, EngineRunsThePool, DockerInvariant, PTL DEF UsesDockerPool
<1> QED
  BY <1>1, <1>2, <1>3, <1>4, <1>5, PTL DEF EngineFairSpec, EngineSpec, CallbackFairness

Sent(j) == Uncounted(j) \/ Receivable(j)
Answering(s, j) == Counting(s, j) \/ Receiving(s, j) \/ Replying(s, j)
Ended(j) == Replied(j) \/ exited

\* A result that was sent has a callback that will publish it.
LEMMA SentIsReplied ==
  ASSUME NEW j \in Jobs
  PROVE  EngineFairSpec /\ []NothingInEngineBlocks => (Sent(j) ~> Ended(j))
<1>1. ASSUME NEW s \in Subjects
      PROVE  EngineFairSpec /\ []NothingInEngineBlocks => [](Answering(s, j) => <>Ended(j))
  BY CallEnds, PTL DEF Answering, Ended
<1>2. EngineFairSpec /\ []NothingInEngineBlocks
      => \A s \in Subjects : [](Answering(s, j) => <>Ended(j))
  BY <1>1
<1>3. (\A s \in Subjects : [](Answering(s, j) => <>Ended(j)))
      => [](\A s \in Subjects : Answering(s, j) => <>Ended(j))
  OBVIOUS
<1>4. (\A s \in Subjects : Answering(s, j) => <>Ended(j))
      => ((\E s \in Subjects : Answering(s, j)) => <>Ended(j))
  OBVIOUS
<1>5. EngineInv /\ Sent(j) => (\E s \in Subjects : Answering(s, j)) \/ Ended(j)
  BY DEF EngineInv, CallInv, CalledBack, Sent, Answering, Ended, Counting, Receiving,
     InCall, Uncounted, Receivable, Replied
<1> QED
  BY <1>2, <1>3, <1>4, <1>5, EngineInvariant, PTL DEF EngineFairSpec

LEMMA WorkedOnIsReplied ==
  ASSUME NEW w \in Workers, NEW j \in Jobs
  PROVE  EngineFairSpec /\ []NothingInEngineBlocks => (Runs(w, j) \/ Sends(w, j) ~> Ended(j))
<1>1. EngineFairness => EngineWorkerFairness(w)
  BY DEF EngineFairness
<1>2. NothingInEngineBlocks => EngineWorkerMoves(w)
  BY DEF NothingInEngineBlocks
<1>3. DockerInv /\ EngineWorkerMoves(w) /\ (Runs(w, j) \/ Sends(w, j))
      => ENABLED <<EngineWorkerStep(w)>>_allVars
  BY SendersFindRoom DEF EngineWorkerMoves, WorkerReady, RoomToSend, Runs, Sends
<1>4. EngineInv /\ DockerInv /\ [EngineNext]_allVars
      => /\ Runs(w, j) => Runs(w, j)' \/ Sends(w, j)'
         /\ Sends(w, j) => Sends(w, j)' \/ Sent(j)'
         /\ Runs(w, j) /\ <<EngineWorkerStep(w)>>_allVars => ~Runs(w, j)'
         /\ Sends(w, j) /\ <<EngineWorkerStep(w)>>_allVars => ~Sends(w, j)'
  BY WorkerStages, EngineStepIsPoolStep DEF EngineInv, Sent
<1>5. EngineSpec => []EngineInv /\ []DockerInv
  BY EngineInvariant, EngineRunsThePool, DockerInvariant, PTL DEF UsesDockerPool
<1> QED
  BY <1>1, <1>2, <1>3, <1>4, <1>5, SentIsReplied, PTL
     DEF EngineFairSpec, EngineSpec, EngineWorkerFairness

\* A request a worker has taken is answered, signal or not and whatever the
\* daemon and the submitted program do, unless the process exits first.
THEOREM TakenRequestsAreReplied == EngineFairSpec /\ []NothingInEngineBlocks => TakenIsReplied
<1>1. ASSUME NEW j \in Jobs
      PROVE  EngineFairSpec /\ []NothingInEngineBlocks => (j \in Held ~> (reply[j] # "none" \/ exited))
  <2>1. ASSUME NEW w \in Workers
        PROVE  EngineFairSpec /\ []NothingInEngineBlocks
               => [](Runs(w, j) \/ Sends(w, j) => <>Ended(j))
    BY WorkedOnIsReplied, PTL
  <2>2. EngineFairSpec /\ []NothingInEngineBlocks
        => \A w \in Workers : [](Runs(w, j) \/ Sends(w, j) => <>Ended(j))
    BY <2>1
  <2>3. (\A w \in Workers : [](Runs(w, j) \/ Sends(w, j) => <>Ended(j)))
        => [](\A w \in Workers : Runs(w, j) \/ Sends(w, j) => <>Ended(j))
    OBVIOUS
  <2>4. (\A w \in Workers : Runs(w, j) \/ Sends(w, j) => <>Ended(j))
        => ((\E w \in Workers : Runs(w, j) \/ Sends(w, j)) => <>Ended(j))
    OBVIOUS
  <2>5. j \in Held => \E w \in Workers : Runs(w, j) \/ Sends(w, j)
    BY DEF Held, Runs, Sends
  <2> QED
    BY <2>2, <2>3, <2>4, <2>5, PTL DEF Ended, Replied
<1> QED
  BY <1>1 DEF TakenIsReplied

\* The pool's queue moves on within the engine.
LEMMA RequestsMoveUp ==
  ASSUME NEW j \in Jobs, NEW k \in Nat \ {0}
  PROVE  EngineFairSpec /\ []NothingInEngineBlocks => Advances(k, j)
<1> DEFINE w == 1
<1>1. w \in Workers
  BY Constants DEF Workers
<1> HIDE DEF w
<1>2. EngineFairness => EngineWorkerFairness(w)
  BY <1>1 DEF EngineFairness
<1>3. NothingInEngineBlocks => EngineWorkerMoves(w)
  BY <1>1 DEF NothingInEngineBlocks
<1>4. DockerInv /\ EngineWorkerMoves(w) /\ At(k, j)
        /\ (Is(w, "running") \/ Is(w, "sending") \/ Is(w, "select"))
      => ENABLED <<EngineWorkerStep(w)>>_allVars
  <2>1. DockerInv /\ At(k, j) => jobs # <<>>
    BY DEF At, DockerInv, TypeOK
  <2> QED
    BY <1>1, <2>1, SendersFindRoom DEF EngineWorkerMoves, WorkerReady, RoomToSend, Is
<1>5. shutdown => Advanced(k, j)
  BY DEF Advanced
<1>6. EngineInv /\ DockerInv /\ InLoop /\ At(k, j) /\ ~shutdown /\ [EngineNext]_allVars
      => /\ At(k, j)' \/ Advanced(k, j)'
         /\ Is(w, "running") \/ Is(w, "sending") \/ Is(w, "select")
         /\ Is(w, "running") => Is(w, "running")' \/ Is(w, "sending")'
         /\ Is(w, "sending") => Is(w, "sending")' \/ Is(w, "select")'
         /\ Is(w, "select") => Is(w, "select")' \/ Advanced(k, j)'
         /\ Is(w, "running") /\ <<EngineWorkerStep(w)>>_allVars => ~Is(w, "running")'
         /\ Is(w, "sending") /\ <<EngineWorkerStep(w)>>_allVars => ~Is(w, "sending")'
         /\ Is(w, "select") /\ <<EngineWorkerStep(w)>>_allVars => Advanced(k, j)'
  BY <1>1, QueueStages, EngineStepIsPoolStep DEF EngineInv
<1>7. EngineSpec => []EngineInv /\ []DockerInv /\ []InLoop
  BY EngineInvariant, EngineRunsThePool, DockerInvariant, LoopInvariant, PTL DEF
     UsesDockerPool
<1> QED
  BY <1>2, <1>3, <1>4, <1>5, <1>6, <1>7, PTL
     DEF EngineFairSpec, EngineSpec, EngineWorkerFairness, Advances

\* What a callback may wait for no longer than until a signal comes.
EndedOrStopped(j) == Replied(j) \/ shutdown

\* The process exits only after a signal.
LEMMA ExitAfterSignal == EngineSpec => [](exited => shutdown)
<1> DEFINE I == exited => stopped
<1>1. EngineInit => I
  BY DEF EngineInit
<1>2. EngineTypeOK /\ I /\ [EngineNext]_allVars => I'
  <2> SUFFICES ASSUME EngineTypeOK, I, [EngineNext]_allVars
               PROVE  I'
    OBVIOUS
  <2>1. exited' = exited \/ (Exit /\ stopped)
    <3>1. CASE OtherSteps
      BY <3>1 DEF OtherSteps, PoolStep, Signal, ShutdownPool, Exit, allVars, engineVars
    <3> QED
      BY <3>1, EngineSteps DEF Receive, StartCallback, Begin, Execute, Respond, Publish,
         engineVars
  <2>2. stopped => stopped'
    <3>1. [Next]_vars => (stopped => stopped')
      BY DEF Next, vars, CallerStep, SubmitAccept, SubmitReject, CountJob, Return,
         WorkerStep, TakeJob, ExitWorker, CommandDone, CommandFails, Timeout, EndRun,
         SendResult, DaemonStep, DockerCreate, DockerStart, ContainerStep, Ask, AskCreate,
         AskStart, ContainerExit, Stats, CloseShutdown, ShutdownReturns, stopVars
    <3> QED
      BY <3>1, EngineStepIsPoolStep
  <2> QED
    BY <2>1, <2>2 DEF Exit, vars
<1>3. DockerInv /\ InLoop => (stopped => shutdown)
  <2>1. 1 \in Workers
    BY Constants DEF Workers
  <2> QED
    BY <2>1 DEF DockerInv, WorkerInv, InLoop
<1>4. EngineSpec => []DockerInv /\ []InLoop
  BY EngineRunsThePool, DockerInvariant, LoopInvariant, PTL DEF UsesDockerPool
<1> QED
  BY <1>1, <1>2, <1>3, <1>4, EngineTypeCorrect, PTL DEF EngineSpec

\* A request the pool has accepted is answered, unless a signal comes: the queue
\* is never longer than there are subscriptions, whatever MaxWorkers is.
LEMMA AcceptedIsReplied ==
  ASSUME NEW j \in Jobs
  PROVE  EngineFairSpec /\ []NothingInEngineBlocks => (Waiting(j) ~> EndedOrStopped(j))
<1>1. EngineFairSpec /\ []NothingInEngineBlocks => QueueMoves(j)
  BY RequestsMoveUp DEF QueueMoves
<1>2. QueueMoves(j) => (Within(4096, j) ~> Left(j))
  BY QueueEmpties
<1>3. EngineInv /\ Waiting(j) => Within(4096, j) \/ j \in Held \/ Sent(j)
  <2> SUFFICES ASSUME EngineInv, Waiting(j)
               PROVE  Within(4096, j) \/ j \in Held \/ Sent(j)
    OBVIOUS
  <2>1. Queued(j) \/ HeldBy(j) # {} \/ Delivered(j)
    BY DEF EngineInv, JobConservation, OnePlace
  <2>2. CASE Queued(j)
    <3>1. Len(jobs) \in Nat /\ Len(jobs) <= 4096
      <4>1. Subjects \in SUBSET Subjects
        OBVIOUS
      <4>2. Cardinality(Subjects) \in Nat /\ Len(jobs) <= Cardinality(Subjects)
        BY <4>1, QueueWithinSubjects
      <4> QED
        BY <4>2, EngineAssumption DEF EngineInv, TypeOK
    <3>2. ASSUME NEW m \in Nat, Len(jobs) <= m
          PROVE  Within(m, j)
      BY <2>2, <3>1, <3>2 DEF Queued, Within, At
    <3> QED
      BY <3>1, <3>2
  <2>3. CASE HeldBy(j) # {}
    <3>1. PICK w \in Workers : wjob[w] = j
      BY <2>3 DEF HeldBy
    <3>2. pc[w] \in {"running", "sending"}
      BY <3>1, DockerPoolAssumption DEF EngineInv, JobConservation, BusyHolds
    <3> QED
      BY <3>1, <3>2 DEF Held
  <2>4. CASE Delivered(j)
    BY <2>4 DEF Waiting, Sent, Uncounted, Receivable
  <2> QED
    BY <2>1, <2>2, <2>3, <2>4
<1>4. EngineFairSpec /\ []NothingInEngineBlocks => (j \in Held ~> Ended(j))
  BY TakenRequestsAreReplied DEF TakenIsReplied, Ended, Replied
<1> QED
  BY <1>1, <1>2, <1>3, <1>4, SentIsReplied, ExitAfterSignal, EngineInvariant, PTL
     DEF EngineFairSpec, Left, Ended, EndedOrStopped

\* The callback of s runs for its n-th message, the request j: it is about to call
\* ExecuteJob, or to respond to a request it has turned down itself.
Calling(s, j) == InCall(s, j) /\ caller[j] = "idle"
Refusing(s, j) == step[s] = "respond" /\ Current(s) = j

\* Nobody but the callback itself takes it from there.
LEMMA CallbackStages ==
  ASSUME NEW s \in Subjects, NEW j \in Jobs, EngineInv, NoRequestRefused, NoRequestRefused',
         [EngineNext]_allVars
  PROVE  /\ Calling(s, j) => Calling(s, j)' \/ Waiting(j)'
         /\ Refusing(s, j) => Refusing(s, j)' \/ Replied(j)'
         /\ Calling(s, j) /\ <<CallbackStep(s)>>_allVars => Waiting(j)'
         /\ Refusing(s, j) /\ <<CallbackStep(s)>>_allVars => Replied(j)'
<1>0. EngineTypeOK /\ TypeOK
  BY DEF EngineInv
<1>1. ASSUME step[s] # "idle", Current(s) = j, ~CallbackStep(s)
      PROVE  step'[s] = step[s] /\ Current(s)' = j
  <2>1. taken[s] \in 1..Len(inbox[s])
    BY <1>0, <1>1, CurrentIsReceived
  <2>2. ASSUME NEW t \in Subjects, NEW i \in Jobs, Receive(t, i)
        PROVE  step'[s] = step[s] /\ Current(s)' = j
    BY <1>0, <1>1, <2>1, <2>2 DEF Receive, Current, EngineTypeOK
  <2>3. ASSUME NEW t \in Subjects, t # s, StartCallback(t) \/ Execute(t) \/ Respond(t)
        PROVE  step'[s] = step[s] /\ Current(s)' = j
    BY <1>0, <1>1, <2>3 DEF StartCallback, Begin, Execute, Respond, Publish, engineVars,
       Current, EngineTypeOK
  <2>4. CASE OtherSteps
    BY <1>1, <2>4, OthersLeaveCalls DEF Current
  <2> QED
    BY <1>1, <2>2, <2>3, <2>4, EngineSteps DEF CallbackStep
<1>2. ASSUME Calling(s, j), CallbackStep(s)
      PROVE  Waiting(j)'
  <2>1. Execute(s) /\ CallerStep(j)
    <3>1. ~StartCallback(s)
      BY <1>2 DEF Calling, InCall, StartCallback
    <3>2. ~Respond(s)
      BY <1>2 DEF Calling, InCall, Respond, Over
    <3> QED
      BY <1>2, <3>1, <3>2 DEF CallbackStep, Execute, Calling, InCall
  <2>2. caller'[j] \in {"sent", "rejected"}
    BY <1>0, <1>2, <2>1 DEF CallerStep, SubmitAccept, SubmitReject, CountJob, Return,
       Calling, TypeOK
  <2> QED
    BY <2>2 DEF Waiting, NoRequestRefused
<1>3. ASSUME Refusing(s, j), CallbackStep(s)
      PROVE  Replied(j)'
  <2>1. Respond(s)
    BY <1>3 DEF Refusing, CallbackStep, StartCallback, Execute
  <2>2. Response(j) # "none"
    BY DEF Response
  <2> QED
    BY <1>0, <1>3, <2>1, <2>2 DEF Refusing, Respond, Publish, Replied, EngineTypeOK
<1>4. ASSUME Calling(s, j), ~CallbackStep(s)
      PROVE  Calling(s, j)' \/ Waiting(j)'
  <2>1. InCall(s, j)'
    BY <1>1, <1>4 DEF Calling, InCall
  <2>2. caller'[j] \in {"idle", "sent", "rejected"}
    <3>1. CASE UNCHANGED caller
      BY <1>4, <3>1 DEF Calling
    <3>2. ASSUME NEW t \in Subjects, Execute(t)
          PROVE  caller'[j] \in {"idle", "sent", "rejected"}
      BY <1>0, <1>4, <3>2 DEF Execute, CallerStep, SubmitAccept, SubmitReject, CountJob,
         Return, Calling, TypeOK
    <3>3. ASSUME NEW t \in Subjects, StartCallback(t) \/ Respond(t) \/ \E i \in Jobs : Receive(t, i)
          PROVE  UNCHANGED caller
      BY <3>3 DEF StartCallback, Begin, Respond, Receive, vars
    <3> QED
      BY <3>1, <3>2, <3>3, OthersLeaveCalls, EngineSteps
  <2> QED
    BY <2>1, <2>2 DEF Calling, Waiting, NoRequestRefused
<1>5. ASSUME Refusing(s, j), ~CallbackStep(s)
      PROVE  Refusing(s, j)'
  BY <1>1, <1>5 DEF Refusing
<1> QED
  BY <1>2, <1>3, <1>4, <1>5

Busy(s, j) == step[s] # "idle" /\ Current(s) = j

\* The request a callback is called with is answered, unless a signal comes:
\* whatever MaxWorkers is, and however many requests there are.
LEMMA CalledIsReplied ==
  ASSUME NEW s \in Subjects, NEW j \in Jobs
  PROVE  EngineFairSpec /\ []NothingInEngineBlocks => (Busy(s, j) ~> EndedOrStopped(j))
<1>1. EngineFairness => CallbackFairness(s)
  BY DEF EngineFairness
<1>2. NothingInEngineBlocks => CallbackMoves(s)
  BY DEF NothingInEngineBlocks
<1>3. CallbackMoves(s) /\ ~exited /\ (Calling(s, j) \/ Refusing(s, j))
      => ENABLED <<CallbackStep(s)>>_allVars
  BY DEF CallbackMoves, CallbackReady, Calling, Refusing, InCall
<1>4. EngineInv /\ NoRequestRefused /\ NoRequestRefused' /\ [EngineNext]_allVars
      => /\ Calling(s, j) => Calling(s, j)' \/ Waiting(j)'
         /\ Refusing(s, j) => Refusing(s, j)' \/ Replied(j)'
         /\ Calling(s, j) /\ <<CallbackStep(s)>>_allVars => Waiting(j)'
         /\ Refusing(s, j) /\ <<CallbackStep(s)>>_allVars => Replied(j)'
  BY CallbackStages
<1>5. EngineInv /\ NoRequestRefused /\ Busy(s, j)
      => Refusing(s, j) \/ Calling(s, j) \/ Waiting(j) \/ Replying(s, j)
  BY DEF EngineInv, EngineTypeOK, TypeOK, NoRequestRefused, Busy, Refusing, Calling,
     Waiting, Replying, Returned, InCall
<1>6. EngineFairSpec /\ []NothingInEngineBlocks
      => (Counting(s, j) \/ Receiving(s, j) \/ Replying(s, j) ~> Replied(j) \/ exited)
  BY CallEnds
<1> QED
  BY <1>1, <1>2, <1>3, <1>4, <1>5, <1>6, AcceptedIsReplied, ExitAfterSignal,
     EngineInvariant, NeverRefused, PTL DEF EngineFairSpec, EngineSpec, CallbackFairness,
     EndedOrStopped

-----------------------------------------------------------------------------
(* The messages of a subscription, one after the other.                    *)

\* The callback of s was called with n messages, and there is another one.
AtMessage(s, n) == taken[s] = n /\ n < Len(inbox[s])
Idle(s, n) == AtMessage(s, n) /\ step[s] = "idle"
Occupied(s, n, j) == AtMessage(s, n) /\ Busy(s, j)
TakenNext(s, n) == taken[s] = n + 1

LEMMA MessageStages ==
  ASSUME NEW s \in Subjects, NEW n \in Nat, NEW j \in Jobs, EngineInv, [EngineNext]_allVars
  PROVE  /\ Idle(s, n) => Idle(s, n)' \/ TakenNext(s, n)'
         /\ Idle(s, n) /\ <<CallbackStep(s)>>_allVars => TakenNext(s, n)'
         /\ Occupied(s, n, j) => Occupied(s, n, j)' \/ Idle(s, n)'
         /\ Occupied(s, n, j) => ~Replied(j)
<1>0. EngineTypeOK
  BY DEF EngineInv
<1>1. ASSUME Idle(s, n), CallbackStep(s)
      PROVE  TakenNext(s, n)'
  <2>1. StartCallback(s)
    BY <1>1 DEF Idle, CallbackStep, Execute, Respond
  <2> QED
    BY <1>0, <1>1, <2>1 DEF StartCallback, Begin, Idle, AtMessage, TakenNext, EngineTypeOK
<1>2. ASSUME AtMessage(s, n), ~CallbackStep(s)
      PROVE  AtMessage(s, n)' /\ step'[s] = step[s] /\ (n > 0 => Current(s)' = Current(s))
  <2>1. ASSUME NEW t \in Subjects, NEW i \in Jobs, Receive(t, i)
        PROVE  AtMessage(s, n)' /\ step'[s] = step[s] /\ (n > 0 => Current(s)' = Current(s))
    BY <1>0, <1>2, <2>1 DEF Receive, AtMessage, Current, EngineTypeOK
  <2>2. ASSUME NEW t \in Subjects, t # s, StartCallback(t) \/ Execute(t) \/ Respond(t)
        PROVE  AtMessage(s, n)' /\ step'[s] = step[s] /\ (n > 0 => Current(s)' = Current(s))
    BY <1>0, <1>2, <2>2 DEF StartCallback, Begin, Execute, Respond, Publish, engineVars,
       AtMessage, Current, EngineTypeOK
  <2>3. CASE OtherSteps
    BY <1>2, <2>3, OthersLeaveCalls DEF AtMessage, Current
  <2> QED
    BY <1>2, <2>1, <2>2, <2>3, EngineSteps DEF CallbackStep
<1>3. ASSUME Occupied(s, n, j), CallbackStep(s)
      PROVE  Occupied(s, n, j)' \/ Idle(s, n)'
  <2>1. CASE Execute(s)
    BY <1>3, <2>1 DEF Execute, engineVars, Occupied, AtMessage, Busy, Current
  <2>2. CASE Respond(s)
    BY <1>0, <1>3, <2>2 DEF Respond, Publish, Occupied, Idle, AtMessage, EngineTypeOK
  <2>3. ~StartCallback(s)
    BY <1>3 DEF StartCallback, Occupied, Busy
  <2> QED
    BY <1>3, <2>1, <2>2, <2>3 DEF CallbackStep
<1>4. Occupied(s, n, j) => n > 0 /\ ~Replied(j)
  <2> SUFFICES ASSUME Occupied(s, n, j)
               PROVE  n > 0 /\ ~Replied(j)
    OBVIOUS
  <2>1. taken[s] \in 1..Len(inbox[s])
    BY <1>0, CurrentIsReceived DEF Occupied, Busy
  <2> QED
    BY <2>1 DEF EngineInv, CallInv, NotYetAnswered, Occupied, AtMessage, Busy, Current,
       Replied
<1>5. Idle(s, n) /\ ~CallbackStep(s) => Idle(s, n)'
  BY <1>2 DEF Idle
<1>6. Occupied(s, n, j) /\ ~CallbackStep(s) => Occupied(s, n, j)'
  BY <1>2, <1>4 DEF Occupied, Busy
<1> QED
  BY <1>1, <1>3, <1>4, <1>5, <1>6

\* No subscription is stuck at a message: the callback returns from it and is
\* called with the next one, unless a signal comes first.
MessageTaken(s, n) == AtMessage(s, n) ~> (TakenNext(s, n) \/ shutdown)

THEOREM NobodyIsStuckInTheInbox ==
  ASSUME NEW s \in Subjects, NEW n \in Nat
  PROVE  EngineFairSpec /\ []NothingInEngineBlocks => MessageTaken(s, n)
<1>1. EngineFairness => CallbackFairness(s)
  BY DEF EngineFairness
<1>2. NothingInEngineBlocks => CallbackMoves(s)
  BY DEF NothingInEngineBlocks
<1>3. CallbackMoves(s) /\ ~exited /\ Idle(s, n) => ENABLED <<CallbackStep(s)>>_allVars
  BY DEF CallbackMoves, CallbackReady, Idle, AtMessage
<1>4. EngineInv /\ [EngineNext]_allVars
      => /\ Idle(s, n) => Idle(s, n)' \/ TakenNext(s, n)'
         /\ Idle(s, n) /\ <<CallbackStep(s)>>_allVars => TakenNext(s, n)'
  <2>1. \A j \in Jobs : EngineInv /\ [EngineNext]_allVars
        => /\ Idle(s, n) => Idle(s, n)' \/ TakenNext(s, n)'
           /\ Idle(s, n) /\ <<CallbackStep(s)>>_allVars => TakenNext(s, n)'
    BY MessageStages
  <2>2. Jobs = {} => (EngineInv => ~AtMessage(s, n))
    BY DEF EngineInv, EngineTypeOK, AtMessage
  <2> QED
    BY <2>1, <2>2 DEF Idle
<1>5. EngineFairSpec /\ []NothingInEngineBlocks
      => (Idle(s, n) ~> (TakenNext(s, n) \/ shutdown))
  BY <1>1, <1>2, <1>3, <1>4, EngineInvariant, ExitAfterSignal, PTL
     DEF EngineFairSpec, EngineSpec, CallbackFairness
<1>6. ASSUME NEW j \in Jobs
      PROVE  EngineFairSpec /\ []NothingInEngineBlocks
             => [](Occupied(s, n, j) => <>(Idle(s, n) \/ shutdown))
  <2>1. EngineInv /\ [EngineNext]_allVars
        => /\ Occupied(s, n, j) => Occupied(s, n, j)' \/ Idle(s, n)'
           /\ Occupied(s, n, j) => ~Replied(j)
    BY MessageStages
  <2>2. Occupied(s, n, j) => Busy(s, j)
    BY DEF Occupied
  <2> QED
    BY <2>1, <2>2, CalledIsReplied, EngineInvariant, PTL
       DEF EngineFairSpec, EngineSpec, EndedOrStopped
<1>7. EngineFairSpec /\ []NothingInEngineBlocks
      => \A j \in Jobs : [](Occupied(s, n, j) => <>(Idle(s, n) \/ shutdown))
  BY <1>6
<1>8. (\A j \in Jobs : [](Occupied(s, n, j) => <>(Idle(s, n) \/ shutdown)))
      => [](\A j \in Jobs : Occupied(s, n, j) => <>(Idle(s, n) \/ shutdown))
  OBVIOUS
<1>9. (\A j \in Jobs : Occupied(s, n, j) => <>(Idle(s, n) \/ shutdown))
      => ((\E j \in Jobs : Occupied(s, n, j)) => <>(Idle(s, n) \/ shutdown))
  OBVIOUS
<1>10. EngineInv /\ AtMessage(s, n) => Idle(s, n) \/ \E j \in Jobs : Occupied(s, n, j)
  BY CurrentIsReceived DEF EngineInv, Idle, Occupied, Busy
<1> QED
  BY <1>5, <1>7, <1>8, <1>9, <1>10, EngineInvariant, PTL DEF EngineFairSpec, MessageTaken

\* The request j is the i-th message of s, and at most d behind the callback's.
Placed(s, i, j) == i \in 1..Len(inbox[s]) /\ inbox[s][i] = j
Behind(s, i, d) == i <= taken[s] + d
Near(s, i, j, d) == Placed(s, i, j) /\ Behind(s, i, d)
Comes(s, i, j, from, to) == Near(s, i, j, from) ~> (Near(s, i, j, to) \/ shutdown)
Hops(s, i, j, d) == \A n \in Nat : Comes(s, i, j, n + d, n)

LEMMA PlacesStay ==
  ASSUME NEW s \in Subjects, NEW i \in Nat \ {0}, NEW j \in Jobs, EngineInv,
         Placed(s, i, j), [EngineNext]_allVars
  PROVE  Placed(s, i, j)'
<1>1. ASSUME NEW t \in Subjects, NEW k \in Jobs, Receive(t, k)
      PROVE  Placed(s, i, j)'
  BY <1>1 DEF Receive, Placed, EngineInv, EngineTypeOK
<1>2. ASSUME NEW t \in Subjects, StartCallback(t) \/ Execute(t) \/ Respond(t)
      PROVE  inbox' = inbox
  BY <1>2 DEF StartCallback, Begin, Execute, Respond, Publish, engineVars
<1>3. CASE inbox' = inbox
  BY <1>3 DEF Placed
<1> QED
  BY <1>1, <1>2, <1>3, OthersLeaveCalls, EngineSteps

LEMMA OneHop ==
  ASSUME NEW s \in Subjects, NEW i \in Nat \ {0}, NEW j \in Jobs
  PROVE  EngineFairSpec /\ []NothingInEngineBlocks => Hops(s, i, j, 1)
<1>1. ASSUME NEW d \in Nat
      PROVE  EngineFairSpec /\ []NothingInEngineBlocks => Comes(s, i, j, d + 1, d)
  <2>1. EngineInv /\ Placed(s, i, j) /\ [EngineNext]_allVars => Placed(s, i, j)'
    BY PlacesStay
  <2>2. CASE i - (d + 1) \in Nat
    <3>0. PICK n \in Nat : n = i - (d + 1)
      BY <2>2
    <3>1. EngineFairSpec /\ []NothingInEngineBlocks => MessageTaken(s, n)
      BY NobodyIsStuckInTheInbox
    <3>2. EngineInv /\ Near(s, i, j, d + 1) => Near(s, i, j, d) \/ (AtMessage(s, n) /\ Placed(s, i, j))
      BY <3>0 DEF EngineInv, EngineTypeOK, Near, Placed, Behind, AtMessage
    <3>3. TakenNext(s, n) /\ Placed(s, i, j) => Near(s, i, j, d)
      BY <3>0 DEF TakenNext, Near, Placed, Behind
    <3> QED
      BY <2>1, <3>1, <3>2, <3>3, EngineInvariant, PTL
         DEF EngineFairSpec, EngineSpec, MessageTaken, Comes
  <2>3. CASE i - (d + 1) \notin Nat
    <3>1. EngineInv /\ Near(s, i, j, d + 1) => Near(s, i, j, d)
      BY <2>3 DEF EngineInv, EngineTypeOK, Near, Placed, Behind
    <3> QED
      BY <3>1, EngineInvariant, PTL DEF EngineFairSpec, Comes
  <2> QED
    BY <2>2, <2>3
<1> QED
  BY <1>1 DEF Hops

LEMMA LongerHops ==
  ASSUME NEW s \in Subjects, NEW i \in Nat \ {0}, NEW j \in Jobs, NEW d \in Nat
  PROVE  Hops(s, i, j, d) => Hops(s, i, j, 2 * d)
<1>1. ASSUME NEW n \in Nat, NEW k \in Nat, NEW m \in Nat
      PROVE  Comes(s, i, j, m, k) /\ Comes(s, i, j, k, n) => Comes(s, i, j, m, n)
  BY PTL DEF Comes
<1>2. ASSUME NEW n \in Nat
      PROVE  Hops(s, i, j, d) => Comes(s, i, j, n + 2 * d, n)
  <2>1. n + d \in Nat /\ n + 2 * d \in Nat /\ (n + d) + d = n + 2 * d
    OBVIOUS
  <2> QED
    BY <1>1, <2>1 DEF Hops
<1> QED
  BY <1>2 DEF Hops

LEMMA InboxEmpties ==
  ASSUME NEW s \in Subjects, NEW i \in Nat \ {0}, NEW j \in Jobs
  PROVE  EngineFairSpec /\ []NothingInEngineBlocks => Comes(s, i, j, 524288, 0)
<1>1. Hops(s, i, j, 1) => Hops(s, i, j, 32)
  <2>1. 2 * 1 = 2 /\ 2 * 2 = 4 /\ 2 * 4 = 8 /\ 2 * 8 = 16 /\ 2 * 16 = 32
    OBVIOUS
  <2> QED
    BY <2>1, LongerHops
<1>2. Hops(s, i, j, 32) => Hops(s, i, j, 1024)
  <2>1. 2 * 32 = 64 /\ 2 * 64 = 128 /\ 2 * 128 = 256 /\ 2 * 256 = 512 /\ 2 * 512 = 1024
    OBVIOUS
  <2> QED
    BY <2>1, LongerHops
<1>3. Hops(s, i, j, 1024) => Hops(s, i, j, 32768)
  <2>1. /\ 2 * 1024 = 2048 /\ 2 * 2048 = 4096 /\ 2 * 4096 = 8192
        /\ 2 * 8192 = 16384 /\ 2 * 16384 = 32768
    OBVIOUS
  <2> QED
    BY <2>1, LongerHops
<1>4. Hops(s, i, j, 32768) => Hops(s, i, j, 524288)
  <2>1. /\ 2 * 32768 = 65536 /\ 2 * 65536 = 131072
        /\ 2 * 131072 = 262144 /\ 2 * 262144 = 524288
    OBVIOUS
  <2> QED
    BY <2>1, LongerHops
<1>5. Hops(s, i, j, 524288) => Comes(s, i, j, 524288, 0)
  <2>1. 0 \in Nat /\ 0 + 524288 = 524288
    OBVIOUS
  <2> QED
    BY <2>1 DEF Hops
<1> QED
  BY <1>1, <1>2, <1>3, <1>4, <1>5, OneHop

\* The messages the NATS client keeps for a subscription whose callback is busy:
\* it drops those beyond its limit, which is 2^19 unless a program sets another.
WithinPendingLimit == \A s \in Subjects : Len(inbox[s]) - taken[s] <= 524288

\* A request that can be parsed is answered unless a signal comes first, for any
\* number of workers, of jobs and of requests that are received over time.
THEOREM ReceivedRequestsAreReplied ==
  EngineFairSpec /\ []NothingInEngineBlocks /\ []WithinPendingLimit => ReceivedIsReplied
<1>1. ASSUME NEW s \in Subjects, NEW j \in Jobs \ Malformed
      PROVE  EngineFairSpec /\ []NothingInEngineBlocks /\ []WithinPendingLimit
             => (j \in Received(s) ~> (reply[j] # "none" \/ shutdown))
  <2>1. ASSUME NEW i \in Nat \ {0}
        PROVE  EngineFairSpec /\ []NothingInEngineBlocks /\ []WithinPendingLimit
               => [](Placed(s, i, j) => <>EndedOrStopped(j))
    <3>1. EngineFairSpec /\ []NothingInEngineBlocks => Comes(s, i, j, 524288, 0)
      BY InboxEmpties
    <3>2. EngineInv /\ WithinPendingLimit /\ Placed(s, i, j) => Near(s, i, j, 524288)
      BY DEF EngineInv, EngineTypeOK, WithinPendingLimit, Placed, Near, Behind
    <3>3. EngineInv /\ Near(s, i, j, 0) => Replied(j) \/ Busy(s, j)
      BY DEF EngineInv, EngineTypeOK, CallInv, EarlierAnswered, Near, Placed, Behind,
         Replied, Busy, Current
    <3>4. EngineFairSpec /\ []NothingInEngineBlocks => (Busy(s, j) ~> EndedOrStopped(j))
      BY CalledIsReplied
    <3> QED
      BY <3>1, <3>2, <3>3, <3>4, EngineInvariant, PTL
         DEF EngineFairSpec, Comes, EndedOrStopped
  <2>2. EngineFairSpec /\ []NothingInEngineBlocks /\ []WithinPendingLimit
        => \A i \in Nat \ {0} : [](Placed(s, i, j) => <>EndedOrStopped(j))
    BY <2>1
  <2>3. (\A i \in Nat \ {0} : [](Placed(s, i, j) => <>EndedOrStopped(j)))
        => [](\A i \in Nat \ {0} : Placed(s, i, j) => <>EndedOrStopped(j))
    OBVIOUS
  <2>4. (\A i \in Nat \ {0} : Placed(s, i, j) => <>EndedOrStopped(j))
        => ((\E i \in Nat \ {0} : Placed(s, i, j)) => <>EndedOrStopped(j))
    OBVIOUS
  <2>5. EngineInv /\ j \in Received(s) => \E i \in Nat \ {0} : Placed(s, i, j)
    BY DEF EngineInv, EngineTypeOK, Received, Placed
  <2> QED
    BY <2>2, <2>3, <2>4, <2>5, EngineInvariant, PTL DEF EngineFairSpec, EndedOrStopped,
       Replied
<1> QED
  BY <1>1 DEF ReceivedIsReplied

-----------------------------------------------------------------------------
(* The way out.                                                            *)

LEMMA EveryEngineWorkerLeaves ==
  ASSUME NEW w \in Workers
  PROVE  EngineFairSpec /\ EngineSelectIsFair /\ []NothingInEngineBlocks => Leaves(w)
<1>1. EngineFairness => EngineWorkerFairness(w)
  BY DEF EngineFairness
<1>2. EngineSelectIsFair => EngineSelectFairness(w)
  BY DEF EngineSelectIsFair
<1>3. NothingInEngineBlocks => EngineWorkerMoves(w)
  BY DEF NothingInEngineBlocks
<1>4. DockerInv /\ EngineWorkerMoves(w)
      => /\ Is(w, "running") \/ Is(w, "sending") => ENABLED <<EngineWorkerStep(w)>>_allVars
         /\ Is(w, "select") /\ shutdown => ENABLED <<EngineExitWorker(w)>>_allVars
  BY SendersFindRoom DEF EngineWorkerMoves, WorkerReady, RoomToSend, Is
<1>5. EngineInv /\ DockerInv /\ [EngineNext]_allVars
      => /\ Is(w, "select") \/ Is(w, "running") \/ Is(w, "sending") \/ Is(w, "exited")
         /\ Is(w, "running") => Is(w, "running")' \/ Is(w, "sending")'
         /\ Is(w, "sending") => Is(w, "sending")' \/ Is(w, "select")'
         /\ Is(w, "exited") => Is(w, "exited")'
         /\ Is(w, "running") /\ <<EngineWorkerStep(w)>>_allVars => ~Is(w, "running")'
         /\ Is(w, "sending") /\ <<EngineWorkerStep(w)>>_allVars => ~Is(w, "sending")'
         /\ <<EngineExitWorker(w)>>_allVars => Is(w, "exited")'
         /\ shutdown => shutdown'
  <2>1. <<EngineExitWorker(w)>>_allVars /\ TypeOK => Is(w, "exited")'
    BY DEF EngineExitWorker, ExitWorker, TypeOK, Is
  <2> QED
    BY <2>1, LoopStages, EngineStepIsPoolStep DEF EngineInv
<1>6. EngineSpec => []EngineInv /\ []DockerInv
  BY EngineInvariant, EngineRunsThePool, DockerInvariant, PTL DEF UsesDockerPool
<1> QED
  BY <1>1, <1>2, <1>3, <1>4, <1>5, <1>6, PTL
     DEF EngineFairSpec, EngineSpec, EngineWorkerFairness, EngineSelectFairness, Leaves

\* A signal ends the process, whatever the callbacks are waiting for and however
\* many requests keep coming, for at most 1024 workers.
THEOREM SignalsEndTheProcess ==
  ASSUME MaxWorkers <= 1024
  PROVE  EngineFairSpec /\ EngineSelectIsFair /\ []NothingInEngineBlocks => SignalExits
<1>1. EngineFairSpec /\ EngineSelectIsFair /\ []NothingInEngineBlocks => WorkersLeave
  BY EveryEngineWorkerLeaves DEF WorkersLeave
<1>2. EngineSpec /\ WorkersLeave => (shutdown ~> Gone(1024))
  BY AllGo, EngineRunsThePool DEF UsesDockerPool
<1>3. Gone(1024) => shutdown /\ \A w \in Workers : pc[w] = "exited"
  BY Constants DEF Gone, Workers, Is
<1>4. NothingInEngineBlocks => EngineMainMoves
  BY DEF NothingInEngineBlocks
<1>5. EngineMainMoves
      => /\ Gone(1024) /\ ~stopped => ENABLED <<ShutdownPool>>_allVars
         /\ stopped /\ ~exited => ENABLED <<Exit>>_allVars
  BY <1>3 DEF EngineMainMoves
<1>6. EngineInv /\ DockerInv /\ [EngineNext]_allVars
      => /\ Gone(1024) => Gone(1024)'
         /\ <<ShutdownPool>>_allVars => stopped'
         /\ <<Exit>>_allVars => exited'
         /\ stopped => stopped'
  <2>1. [Next]_vars => (stopped => stopped')
    BY DEF Next, vars, CallerStep, SubmitAccept, SubmitReject, CountJob, Return, WorkerStep,
       TakeJob, ExitWorker, CommandDone, CommandFails, Timeout, EndRun, SendResult,
       DaemonStep, DockerCreate, DockerStart, ContainerStep, Ask, AskCreate, AskStart,
       ContainerExit, Stats, CloseShutdown, ShutdownReturns, stopVars
  <2> QED
    BY <2>1, GoneStays, EngineStepIsPoolStep DEF EngineInv, ShutdownPool, ShutdownReturns,
       Exit
<1>7. EngineSpec => []EngineInv /\ []DockerInv
  BY EngineInvariant, EngineRunsThePool, DockerInvariant, PTL DEF UsesDockerPool
<1>8. EngineFairness => ExitFairness
  BY DEF EngineFairness
<1> QED
  BY <1>1, <1>2, <1>4, <1>5, <1>6, <1>7, <1>8, PTL
     DEF EngineFairSpec, EngineSpec, ExitFairness, SignalExits

=============================================================================
