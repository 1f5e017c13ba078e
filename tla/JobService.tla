----------------------------- MODULE JobService -----------------------------
(***************************************************************************)
(* What the interface worker.WorkerPool (worker/worker.go) promises of     *)
(* every execution backend: ExecuteJob takes a job or refuses it at once;  *)
(* accepted jobs are executed in the order of their acceptance, each one   *)
(* exactly once, by at most MaxWorkers executions at a time; an execution  *)
(* yields exactly one answer; Shutdown returns only when nothing is being  *)
(* executed, and nothing is executed after it.                             *)
(*                                                                         *)
(* The backends implement this module through a refinement mapping.        *)
(***************************************************************************)
EXTENDS Integers, Sequences, FiniteSets

CONSTANTS
  Jobs,        \* the calls of ExecuteJob, each with a result channel of its own
  MaxWorkers,  \* Config.MaxWorkers
  Capacity     \* capacity of the channel the jobs wait in

VARIABLES
  pending,     \* accepted jobs nobody has taken yet, oldest first
  running,     \* jobs being executed
  answered,    \* jobs whose result was sent
  refused,     \* jobs turned down because the queue was full
  open         \* FALSE once Shutdown has returned

vars == <<pending, running, answered, refused, open>>

\* The jobs ExecuteJob has been called with.
Seen == {pending[i] : i \in 1..Len(pending)} \cup running \cup answered \cup refused

Init ==
  /\ pending = <<>>
  /\ running = {}
  /\ answered = {}
  /\ refused = {}
  /\ open = TRUE

Accept(j) ==
  /\ j \notin Seen
  /\ Len(pending) < Capacity
  /\ pending' = Append(pending, j)
  /\ UNCHANGED <<running, answered, refused, open>>

\* A job is refused only when Capacity jobs are waiting.
Refuse(j) ==
  /\ j \notin Seen
  /\ Len(pending) = Capacity
  /\ refused' = refused \cup {j}
  /\ UNCHANGED <<pending, running, answered, open>>

Dispatch ==
  /\ open
  /\ pending # <<>>
  /\ Cardinality(running) < MaxWorkers
  /\ running' = running \cup {Head(pending)}
  /\ pending' = Tail(pending)
  /\ UNCHANGED <<answered, refused, open>>

Answer(j) ==
  /\ j \in running
  /\ running' = running \ {j}
  /\ answered' = answered \cup {j}
  /\ UNCHANGED <<pending, refused, open>>

Stop ==
  /\ open
  /\ running = {}
  /\ open' = FALSE
  /\ UNCHANGED <<pending, running, answered, refused>>

Next ==
  \/ \E j \in Jobs : Accept(j) \/ Refuse(j) \/ Answer(j)
  \/ Dispatch
  \/ Stop

Spec == Init /\ [][Next]_vars

-----------------------------------------------------------------------------
(* What it promises amounts to, for a caller of ExecuteJob.                *)

Pending == {pending[i] : i \in 1..Len(pending)}

\* A call is at one stage at a time, and waits only once: no job is answered
\* while it runs, runs again, or is answered and refused.
OneStage ==
  /\ Pending \cap (running \cup answered \cup refused) = {}
  /\ running \cap (answered \cup refused) = {}
  /\ answered \cap refused = {}
  /\ \A i, k \in 1..Len(pending) : pending[i] = pending[k] => i = k

\* The queue and the executions stay within the configuration, and nothing runs
\* once Shutdown has returned.
WithinLimits ==
  /\ Len(pending) <= Capacity
  /\ Cardinality(running) <= MaxWorkers
  /\ ~open => running = {}

\* A verdict is final.
VerdictsKept == answered \subseteq answered' /\ refused \subseteq refused'

VerdictsAreFinal == [][VerdictsKept]_vars

\* First come, first served: a waiting job never moves back, and leaves the
\* queue from the front only, to be executed.
InTurn ==
  \A k \in 1..Len(pending) :
    \/ k = 1 /\ pending[1] \in running'
    \/ \E i \in 1..k : i <= Len(pending') /\ pending'[i] = pending[k]

FirstComeFirstServed == [][InTurn]_vars
=============================================================================
