------------------------- MODULE MCContainerManager -------------------------
(***************************************************************************)
(* Instances of ContainerManager for TLC.                                  *)
(***************************************************************************)
EXTENDS ContainerManager, TLC

\* All containers may be left over in the instances that use the symmetry, so
\* the ids are interchangeable.
PoolSymmetry == Permutations(Ids) \cup Permutations(Workers) \cup Permutations(Removers)

=============================================================================
