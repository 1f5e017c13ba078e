--------------------------- MODULE ContainerLeases ---------------------------
(***************************************************************************)
(* What ContainerManager (executor/container_manager.go) promises the      *)
(* goroutines that execute jobs: a pool of at most MaxWorkers containers,  *)
(* from which each of them is lent one nobody else has, until it gives it  *)
(* back.  A container may leave the pool at any time, lent or not, and     *)
(* never comes back to it.                                                 *)
(*                                                                         *)
(* ContainerManager implements this module through a refinement mapping.   *)
(***************************************************************************)
EXTENDS Integers, FiniteSets

CONSTANTS Ids, Workers, MaxWorkers, NoId

VARIABLES
  pool,   \* the containers that are, or may be, lent
  fresh,  \* the ids that may still join the pool
  lease   \* the container each worker was lent

vars == <<pool, fresh, lease>>

Lent == {lease[w] : w \in Workers} \ {NoId}

Init ==
  /\ pool = {}
  /\ fresh = Ids
  /\ lease = [w \in Workers |-> NoId]

\* New containers join the pool; ids may be used up without.
Provide(S) ==
  /\ S \subseteq fresh
  /\ Cardinality(pool \cup S) <= MaxWorkers
  /\ pool' = pool \cup S
  /\ fresh' \in SUBSET (fresh \ S)
  /\ UNCHANGED lease

\* Containers leave it, those that are lent included.
Retire(S) ==
  /\ pool' = pool \ S
  /\ UNCHANGED <<fresh, lease>>

Lend(w, id) ==
  /\ lease[w] = NoId
  /\ id \in pool \ Lent
  /\ lease' = [lease EXCEPT ![w] = id]
  /\ UNCHANGED <<pool, fresh>>

\* A container that has left the pool is not in it when it is given back.
GiveBack(w) ==
  /\ lease[w] # NoId
  /\ lease' = [lease EXCEPT ![w] = NoId]
  /\ UNCHANGED <<pool, fresh>>

Next ==
  \/ \E S \in SUBSET Ids : Provide(S) \/ Retire(S)
  \/ \E w \in Workers, id \in Ids : Lend(w, id)
  \/ \E w \in Workers : GiveBack(w)

Spec == Init /\ [][Next]_vars

=============================================================================
