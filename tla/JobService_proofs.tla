-------------------------- MODULE JobService_proofs --------------------------
(***************************************************************************)
(* What the promises of JobService amount to for a caller of ExecuteJob.   *)
(* Each theorem holds of every module that implements JobService: the      *)
(* proof modules of the backends and of the engine inherit it through      *)
(* their refinement theorems.                                              *)
(***************************************************************************)
EXTENDS JobService, FiniteSetTheorems, TLAPS

StageInv ==
  /\ pending \in Seq(Jobs)
  /\ IsFiniteSet(running)
  /\ OneStage
  /\ WithinLimits

LEMMA StageInvInit ==
  ASSUME MaxWorkers \in Nat, Capacity \in Nat
  PROVE  Init => StageInv
BY FS_EmptySet DEF Init, StageInv, OneStage, WithinLimits, Pending

\* Dispatch moves the oldest job, and every other one up by one place.
LEMMA DispatchMoves ==
  ASSUME pending \in Seq(Jobs), Dispatch
  PROVE  /\ pending' \in Seq(Jobs)
         /\ Len(pending) \in Nat /\ Len(pending) >= 1
         /\ Len(pending') = Len(pending) - 1
         /\ \A i \in 1..Len(pending') : pending'[i] = pending[i + 1]
         /\ running' = running \cup {pending[1]}
         /\ Pending' \subseteq Pending
<1>1. /\ Len(pending) \in Nat /\ Len(pending) >= 1
      /\ Len(pending') = Len(pending) - 1
      /\ pending' \in Seq(Jobs)
  BY DEF Dispatch
<1>2. \A i \in 1..Len(pending') : pending'[i] = pending[i + 1]
  BY <1>1 DEF Dispatch
<1>3. running' = running \cup {pending[1]}
  BY DEF Dispatch
<1> QED
  BY <1>1, <1>2, <1>3 DEF Pending

\* Accept adds a job behind all others.
LEMMA AcceptAdds ==
  ASSUME pending \in Seq(Jobs), NEW j \in Jobs, Accept(j)
  PROVE  /\ pending' \in Seq(Jobs)
         /\ Len(pending) \in Nat
         /\ Len(pending') = Len(pending) + 1
         /\ \A i \in 1..Len(pending) : pending'[i] = pending[i]
         /\ pending'[Len(pending) + 1] = j
         /\ Pending' = Pending \cup {j}
<1>1. /\ pending' \in Seq(Jobs)
      /\ Len(pending) \in Nat
      /\ Len(pending') = Len(pending) + 1
      /\ \A i \in 1..Len(pending) : pending'[i] = pending[i]
      /\ pending'[Len(pending) + 1] = j
  BY DEF Accept
<1> QED
  BY <1>1 DEF Pending

LEMMA StageInvNext ==
  ASSUME MaxWorkers \in Nat, Capacity \in Nat
  PROVE  StageInv /\ [Next]_vars => StageInv'
<1> SUFFICES ASSUME StageInv, [Next]_vars
             PROVE  StageInv'
  OBVIOUS
<1>0. /\ pending \in Seq(Jobs) /\ IsFiniteSet(running) /\ Cardinality(running) \in Nat
      /\ OneStage /\ WithinLimits
  BY FS_CardinalityType DEF StageInv
<1>1. ASSUME NEW j \in Jobs, Accept(j)
      PROVE  StageInv'
  <2>1. j \notin Pending /\ j \notin running \cup answered \cup refused
    BY <1>1 DEF Accept, Seen, Pending
  <2>2. OneStage'
    BY <1>0, <1>1, <2>1, AcceptAdds DEF OneStage, Accept, Pending
  <2>3. WithinLimits'
    BY <1>0, <1>1, AcceptAdds DEF WithinLimits, Accept
  <2> QED
    BY <1>0, <1>1, <2>2, <2>3, AcceptAdds DEF StageInv, Accept
<1>2. ASSUME NEW j \in Jobs, Refuse(j)
      PROVE  StageInv'
  <2>1. j \notin Pending /\ j \notin running \cup answered \cup refused
    BY <1>2 DEF Refuse, Seen, Pending
  <2> QED
    BY <1>0, <1>2, <2>1 DEF Refuse, StageInv, OneStage, WithinLimits, Pending
<1>3. ASSUME NEW j \in Jobs, Answer(j)
      PROVE  StageInv'
  <2>1. /\ IsFiniteSet(running \ {j})
        /\ Cardinality(running \ {j}) = Cardinality(running) - 1
    BY <1>0, <1>3, FS_RemoveElement DEF Answer
  <2>2. j \in running /\ j \notin answered \cup refused \cup Pending
    BY <1>0, <1>3 DEF Answer, OneStage
  <2>3. OneStage'
    BY <1>0, <1>3, <2>2 DEF Answer, OneStage, Pending
  <2> QED
    BY <1>0, <1>3, <2>1, <2>2, <2>3 DEF Answer, StageInv, WithinLimits
<1>4. CASE Dispatch
  <2>1. /\ pending[1] \in Pending /\ pending[1] \notin running \cup answered \cup refused
        /\ pending[1] \notin Pending'
    BY <1>0, <1>4, DispatchMoves DEF OneStage, Pending
  <2>2. /\ IsFiniteSet(running')
        /\ Cardinality(running') = Cardinality(running) + 1
    BY <1>0, <1>4, <2>1, DispatchMoves, FS_AddElement
  <2>3. /\ answered' = answered /\ refused' = refused /\ open /\ open'
        /\ Cardinality(running) < MaxWorkers
    BY <1>4 DEF Dispatch
  <2>4. \A i, k \in 1..Len(pending') : pending'[i] = pending'[k] => i = k
    BY <1>0, <1>4, DispatchMoves DEF OneStage
  <2>5. OneStage'
    BY <1>0, <1>4, <2>1, <2>3, <2>4, DispatchMoves DEF OneStage
  <2>6. WithinLimits'
    BY <1>0, <1>4, <2>2, <2>3, DispatchMoves DEF WithinLimits
  <2> QED
    BY <1>0, <1>4, <2>2, <2>5, <2>6, DispatchMoves DEF StageInv
<1>5. CASE Stop
  BY <1>0, <1>5 DEF Stop, StageInv, OneStage, WithinLimits, Pending
<1>6. CASE UNCHANGED vars
  BY <1>0, <1>6 DEF vars, StageInv, OneStage, WithinLimits, Pending
<1> QED
  BY <1>1, <1>2, <1>3, <1>4, <1>5, <1>6 DEF Next

LEMMA StageInvariant ==
  ASSUME MaxWorkers \in Nat, Capacity \in Nat
  PROVE  Spec => []StageInv
<1>1. Init => StageInv
  BY StageInvInit
<1>2. StageInv /\ [Next]_vars => StageInv'
  BY StageInvNext
<1> QED
  BY <1>1, <1>2, PTL DEF Spec

\* A call of ExecuteJob is at one stage at a time, and waits only once: no job
\* is answered while it runs, runs again, or is answered and refused.
THEOREM CallsAreAtOneStage ==
  ASSUME MaxWorkers \in Nat, Capacity \in Nat
  PROVE  Spec => []OneStage
BY StageInvariant, PTL DEF StageInv

\* The queue and the workers stay within the configuration, and nothing runs
\* once Shutdown has returned.
THEOREM LimitsAreKept ==
  ASSUME MaxWorkers \in Nat, Capacity \in Nat
  PROVE  Spec => []WithinLimits
BY StageInvariant, PTL DEF StageInv

LEMMA VerdictStep == [Next]_vars => VerdictsKept
BY DEF VerdictsKept, Next, vars, Accept, Refuse, Dispatch, Answer, Stop

\* What ExecuteJob was told, it is never told otherwise.
THEOREM VerdictsStay == Spec => VerdictsAreFinal
BY VerdictStep, PTL DEF Spec, VerdictsAreFinal

LEMMA QueueStep == pending \in Seq(Jobs) /\ [Next]_vars => InTurn
<1> SUFFICES ASSUME pending \in Seq(Jobs), [Next]_vars,
                    NEW k \in 1..Len(pending)
             PROVE  \/ k = 1 /\ pending[1] \in running'
                    \/ \E i \in 1..k : i <= Len(pending') /\ pending'[i] = pending[k]
  BY DEF InTurn
<1>1. ASSUME NEW j \in Jobs, Accept(j)
      PROVE  k <= Len(pending') /\ pending'[k] = pending[k]
  BY <1>1, AcceptAdds
<1>2. ASSUME Dispatch, k # 1
      PROVE  k - 1 \in 1..k /\ k - 1 <= Len(pending') /\ pending'[k - 1] = pending[k]
  BY <1>2, DispatchMoves
<1>3. CASE Dispatch
  BY <1>2, <1>3, DispatchMoves
<1>4. CASE pending' = pending
  BY <1>4
<1> QED
  BY <1>1, <1>3, <1>4 DEF Next, vars, Refuse, Answer, Stop

\* First come, first served: a waiting job never moves back, and leaves the
\* queue from the front only, to be executed.
THEOREM QueueInTurn ==
  ASSUME MaxWorkers \in Nat, Capacity \in Nat
  PROVE  Spec => FirstComeFirstServed
<1>1. StageInv /\ [Next]_vars => InTurn
  BY QueueStep DEF StageInv
<1> QED
  BY <1>1, StageInvariant, PTL DEF Spec, FirstComeFirstServed

=============================================================================
