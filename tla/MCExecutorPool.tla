--------------------------- MODULE MCExecutorPool ---------------------------
(***************************************************************************)
(* Instances of ExecutorPool for TLC.                                      *)
(***************************************************************************)
EXTENDS ExecutorPool, TLC

\* No container is left over in the instances that use the symmetry.
PoolSymmetry ==
  Permutations(Ids) \cup Permutations(Workers)
    \cup Permutations(Supported) \cup Permutations(Jobs \ Supported)

CONSTANT MaxLost  \* bound: the containers that may be lost other than by a removal

FewLost == Cardinality({id \in Ids : docker[id] \in {"created", "exited"}}) <= MaxLost

\* Bound: a behaviour ends when the last call of ExecuteJob has returned, or when the
\* command of every job was killed before its process had ended.
CallsLeft == (\E j \in Jobs : caller[j] # "returned") /\ orphans # Jobs

\* Bound: the watchers remove one container.
FewRemovals == Cardinality({j \in Jobs : watch[j] = "removed"}) <= 1

\* Bound: the behaviours without Shutdown.
StaysUp == down' = "up"

=============================================================================
