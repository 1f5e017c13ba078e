---------------------------- MODULE MCDockerPool ----------------------------
(***************************************************************************)
(* Instances of DockerPool for TLC.                                        *)
(***************************************************************************)
EXTENDS DockerPool, TLC

\* Jobs of the same kind are interchangeable: a language is supported or not.
\* Used in the runs without liveness only.
JobSymmetry == Permutations(Supported) \cup Permutations(Jobs \ Supported)

=============================================================================
