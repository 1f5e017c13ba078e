------------------------------ MODULE MCEngine ------------------------------
(***************************************************************************)
(* Instances of Engine for TLC.                                            *)
(***************************************************************************)
EXTENDS Engine, TLC

\* Requests for the one subject and for the other, and one that may come on both.
CONSTANTS compiler, problems, s1, s2, m1, u1
MCPublishable == [s \in Subjects |-> IF s = compiler THEN {s1, s2, u1} ELSE {s2, m1}]

=============================================================================
