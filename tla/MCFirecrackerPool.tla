------------------------- MODULE MCFirecrackerPool -------------------------
(***************************************************************************)
(* Instances of FirecrackerPool for TLC.                                   *)
(***************************************************************************)
EXTENDS FirecrackerPool, TLC

\* /tmp/fc-snap.vsock of README.md's manual snapshot.
CONSTANT OtherPath

JobSymmetry == Permutations(Jobs)

=============================================================================
