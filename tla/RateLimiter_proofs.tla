------------------------- MODULE RateLimiter_proofs -------------------------
(***************************************************************************)
(* What holds of RateLimiter for any number of clients, any limit, window  *)
(* and ban.                                                                *)
(***************************************************************************)
EXTENDS RateLimiter, FiniteSetTheorems, TLAPS

\* The requests on record are few enough to be counted.
LEMMA RecordsFinite ==
  ASSUME TypeOK, NEW ip \in Ips
  PROVE  /\ Valid(ip) \subseteq requests[ip]
         /\ IsFiniteSet(requests[ip]) /\ IsFiniteSet(Valid(ip))
         /\ Cardinality(requests[ip]) \in Nat /\ Cardinality(Valid(ip)) \in Nat
         /\ Cardinality(Valid(ip)) <= Cardinality(requests[ip])
<1>1. Len(accepted[ip]) \in Nat /\ requests[ip] \subseteq 1..Len(accepted[ip])
  BY DEF TypeOK
<1>2. IsFiniteSet(1..Len(accepted[ip]))
  BY <1>1, FS_Interval
<1>3. Valid(ip) \subseteq requests[ip]
  BY DEF Valid
<1> QED
  BY <1>1, <1>2, <1>3, FS_Subset, FS_CardinalityType

-----------------------------------------------------------------------------
\* The clients were served in the order of the clock.
InOrder ==
  \A ip \in Ips : \A i \in 1..Len(accepted[ip]) :
    /\ accepted[ip][i] <= now
    /\ \A k \in 1..i : accepted[ip][k] <= accepted[ip][i]

\* A ban on record is the last one, and one that is not has come to its end.
BanRecord ==
  \A ip \in Ips :
    IF banned[ip] = NoBan THEN banEnd[ip] <= now ELSE banned[ip] = banEnd[ip]

\* Of the requests since the last ban, those in the window are on record.
WindowRecord ==
  \A ip \in Ips :
    /\ since[ip] <= Len(accepted[ip])
    /\ requests[ip] \subseteq (since[ip] + 1)..Len(accepted[ip])
    /\ \A i \in (since[ip] + 1)..Len(accepted[ip]) :
         accepted[ip][i] > now - WindowDur => i \in requests[ip]

\* A ban that is not shorter than the window outlasts what is deleted with it.
BanOutlastsWindow ==
  BanDur >= WindowDur =>
    \A ip \in Ips : \A i \in 1..since[ip] : accepted[ip][i] + WindowDur <= banEnd[ip]

RateInv ==
  /\ TypeOK
  /\ InOrder
  /\ BanRecord
  /\ WindowRecord
  /\ BanOutlastsWindow
  /\ SlidingWindow

LEMMA RateInvInit == Init => RateInv
<1> SUFFICES ASSUME Init PROVE RateInv
  OBVIOUS
<1>1. Cardinality({}) = 0
  BY FS_EmptySet
<1>2. TypeOK
  BY <1>1, RateLimiterAssumption DEF Init, TypeOK
<1> QED
  BY <1>2, RateLimiterAssumption
     DEF Init, RateInv, InOrder, BanRecord, WindowRecord, BanOutlastsWindow, SlidingWindow

-----------------------------------------------------------------------------
\* The accepted request is the only change of the history.
LEMMA AcceptEffect ==
  ASSUME TypeOK, NEW ip \in Ips, Accept(ip)
  PROVE  /\ accepted'[ip] \in Seq(Nat)
         /\ Len(accepted[ip]) \in Nat /\ Len(accepted'[ip]) = Len(accepted[ip]) + 1
         /\ \A i \in 1..Len(accepted[ip]) : accepted'[ip][i] = accepted[ip][i]
         /\ accepted'[ip][Len(accepted[ip]) + 1] = now
         /\ requests'[ip] = Valid(ip) \cup {Len(accepted[ip]) + 1}
         /\ banned'[ip] = NoBan
         /\ \A q \in Ips \ {ip} : /\ accepted'[q] = accepted[q] /\ requests'[q] = requests[q]
                                  /\ banned'[q] = banned[q]
         /\ UNCHANGED <<now, banEnd, since, loop>>
<1>1. accepted[ip] \in Seq(Nat) /\ now \in Nat
  BY DEF TypeOK
<1>2. accepted'[ip] = Append(accepted[ip], now)
  BY DEF Accept, TypeOK
<1> QED
  BY <1>1, <1>2 DEF Accept, TypeOK

LEMMA AcceptType == ASSUME TypeOK, NEW ip \in Ips, Accept(ip) PROVE TypeOK'
<1> USE RateLimiterAssumption
<1> DEFINE n == Len(accepted[ip]) + 1
<1>1. n \notin Valid(ip) /\ n \in Nat
  BY AcceptEffect DEF Valid, TypeOK
<1>2. Cardinality(Valid(ip) \cup {n}) = Cardinality(Valid(ip)) + 1
  BY <1>1, RecordsFinite, FS_AddElement
<1>a. requests'[ip] = Valid(ip) \cup {n} /\ Len(accepted'[ip]) = n
  BY AcceptEffect
<1>b. Cardinality(Valid(ip)) < MaxRequests /\ Cardinality(Valid(ip)) \in Nat
  BY RecordsFinite DEF Accept
<1>c. Valid(ip) \subseteq 1..Len(accepted[ip]) /\ Len(accepted[ip]) \in Nat
  BY RecordsFinite DEF TypeOK
<1> HIDE DEF n
<1>3. Cardinality(requests'[ip]) <= MaxRequests
  BY <1>2, <1>a, <1>b
<1>4. requests'[ip] \subseteq 1..Len(accepted'[ip])
  BY <1>a, <1>c DEF n
<1>5. \A q \in Ips : /\ requests'[q] \subseteq 1..Len(accepted'[q])
                     /\ Cardinality(requests'[q]) <= MaxRequests
  <2> SUFFICES ASSUME NEW q \in Ips, q # ip
               PROVE  /\ requests'[q] \subseteq 1..Len(accepted'[q])
                      /\ Cardinality(requests'[q]) <= MaxRequests
    BY <1>3, <1>4
  <2>1. requests'[q] = requests[q] /\ accepted'[q] = accepted[q]
    BY AcceptEffect
  <2> QED
    BY <2>1 DEF TypeOK
<1>6. accepted' \in [Ips -> Seq(Nat)]
  BY AcceptEffect DEF TypeOK, Accept
<1>7. requests' \in [Ips -> SUBSET Nat]
  BY <1>1, RecordsFinite DEF TypeOK, Accept
<1> QED
  BY <1>5, <1>6, <1>7 DEF TypeOK, Accept

\* The request MaxRequests before the accepted one is not in the window any more:
\* else all those from it on would be, and be on record, and fill the window.
LEMMA AcceptWindow ==
  ASSUME RateInv, NEW ip \in Ips, Accept(ip), BanDur >= WindowDur,
         NEW i \in 1..Len(accepted[ip]), i + MaxRequests = Len(accepted[ip]) + 1
  PROVE  accepted[ip][i] + WindowDur <= now
<1> USE RateLimiterAssumption
<1> DEFINE n == Len(accepted[ip])
<1>1. TypeOK /\ n \in Nat /\ now \in Nat /\ accepted[ip] \in Seq(Nat)
  BY DEF RateInv, TypeOK
<1>2. banEnd[ip] <= now /\ banEnd[ip] \in Nat
  BY DEF RateInv, TypeOK, BanRecord, Accept
<1>3. CASE i <= since[ip]
  <2>1. i \in 1..since[ip]
    BY <1>1, <1>3 DEF TypeOK
  <2>2. accepted[ip][i] + WindowDur <= banEnd[ip]
    BY <2>1 DEF RateInv, BanOutlastsWindow
  <2> QED
    BY <1>1, <1>2, <2>2
<1>4. CASE i > since[ip]
  <2> SUFFICES ASSUME accepted[ip][i] > now - WindowDur
               PROVE  FALSE
    BY <1>1
  <2>1. ASSUME NEW k \in i..n
        PROVE  k \in Valid(ip)
    <3>1. k \in 1..n /\ i \in 1..k /\ k \in (since[ip] + 1)..n
      BY <1>1, <1>4, <2>1 DEF TypeOK
    <3>2. accepted[ip][i] <= accepted[ip][k]
      BY <3>1 DEF RateInv, InOrder
    <3>3. accepted[ip][k] > now - WindowDur
      BY <1>1, <3>1, <3>2
    <3> QED
      BY <3>1, <3>3 DEF RateInv, WindowRecord, Valid
  <2>2. i..n \subseteq Valid(ip)
    BY <2>1
  <2>3. Cardinality(i..n) = MaxRequests
    <3>1. i \in Int /\ n \in Int /\ i <= n /\ n - i + 1 = MaxRequests
      BY <1>1
    <3> HIDE DEF n
    <3>2. Cardinality(i..n) = n - i + 1
      BY <3>1, FS_Interval
    <3> QED
      BY <3>1, <3>2
  <2>4. Cardinality(i..n) <= Cardinality(Valid(ip))
    BY <1>1, <2>2, RecordsFinite, FS_Subset
  <2> QED
    BY <1>1, <2>3, <2>4, RecordsFinite DEF Accept
<1> QED
  BY <1>1, <1>3, <1>4 DEF TypeOK

LEMMA RateInvAccept == ASSUME RateInv, NEW ip \in Ips, Accept(ip) PROVE RateInv'
<1> USE RateLimiterAssumption
<1> DEFINE n == Len(accepted[ip])
<1>1. TypeOK /\ TypeOK'
  BY AcceptType DEF RateInv
<1>a. /\ n \in Nat /\ Len(accepted'[ip]) = n + 1 /\ now' = now /\ since' = since
      /\ \A i \in 1..n : accepted'[ip][i] = accepted[ip][i]
      /\ accepted'[ip][n + 1] = now
      /\ requests'[ip] = Valid(ip) \cup {n + 1}
      /\ \A q \in Ips \ {ip} : accepted'[q] = accepted[q] /\ requests'[q] = requests[q]
  BY <1>1, AcceptEffect
<1>b. /\ now \in Nat /\ accepted[ip] \in Seq(Nat)
      /\ \A q \in Ips : since[q] \in Nat /\ Len(accepted[q]) \in Nat
  BY <1>1 DEF TypeOK
<1>c. \A i \in 1..n : accepted[ip][i] <= now /\ accepted[ip][i] \in Nat
  BY <1>b DEF RateInv, InOrder
<1>2. InOrder'
  <2>1. ASSUME NEW i \in 1..(n + 1), NEW k \in 1..i
        PROVE  accepted'[ip][i] <= now /\ accepted'[ip][k] <= accepted'[ip][i]
    <3>1. CASE i = n + 1
      <4>1. k = n + 1 \/ k \in 1..n
        BY <1>a, <3>1
      <4> QED
        <5>1. accepted'[ip][i] = now
          BY <1>a, <3>1
        <5>2. accepted'[ip][k] = now \/ (accepted'[ip][k] <= now /\ accepted'[ip][k] \in Nat)
          BY <1>a, <1>c, <4>1
        <5> QED
          BY <1>b, <5>1, <5>2
    <3>2. CASE i # n + 1
      <4>1. i \in 1..n /\ k \in 1..n
        BY <1>a, <3>2
      <4> QED
        BY <1>a, <4>1 DEF RateInv, InOrder
    <3> QED
      BY <3>1, <3>2
  <2> QED
    BY <1>a, <2>1 DEF RateInv, InOrder
<1>3. BanRecord'
  BY <1>1, AcceptEffect DEF RateInv, BanRecord, TypeOK, Accept
<1>4. WindowRecord'
  <2>1. since[ip] <= n /\ requests[ip] \subseteq (since[ip] + 1)..n
    BY DEF RateInv, WindowRecord
  <2>2. since[ip] <= n + 1 /\ requests'[ip] \subseteq (since[ip] + 1)..(n + 1)
    BY <1>a, <1>b, <2>1 DEF Valid
  <2>3. ASSUME NEW i \in (since[ip] + 1)..(n + 1), accepted'[ip][i] > now - WindowDur
        PROVE  i \in requests'[ip]
    <3>1. CASE i = n + 1
      BY <1>a, <3>1
    <3>2. CASE i # n + 1
      <4>1. i \in (since[ip] + 1)..n /\ i \in 1..n
        BY <1>a, <1>b, <3>2
      <4>2. i \in requests[ip] /\ accepted[ip][i] > now - WindowDur
        BY <1>a, <2>3, <4>1 DEF RateInv, WindowRecord
      <4> QED
        BY <1>a, <4>2 DEF Valid
    <3> QED
      BY <3>1, <3>2
  <2> QED
    BY <1>a, <2>2, <2>3 DEF RateInv, WindowRecord
<1>5. BanOutlastsWindow'
  <2> SUFFICES ASSUME BanDur >= WindowDur, NEW q \in Ips, NEW i \in 1..since[q]
               PROVE  accepted'[q][i] + WindowDur <= banEnd[q]
    BY AcceptEffect, <1>1 DEF BanOutlastsWindow
  <2>1. i \in 1..Len(accepted[q])
    BY <1>b DEF RateInv, WindowRecord
  <2>2. accepted'[q][i] = accepted[q][i]
    BY <1>a, <2>1
  <2> QED
    BY <2>2 DEF RateInv, BanOutlastsWindow
<1>6. SlidingWindow'
  <2> SUFFICES ASSUME BanDur >= WindowDur, NEW q \in Ips, NEW i \in 1..Len(accepted'[q]),
                      i + MaxRequests <= Len(accepted'[q])
               PROVE  accepted'[q][i] + WindowDur <= accepted'[q][i + MaxRequests]
    BY DEF SlidingWindow
  <2>1. CASE q # ip
    BY <1>a, <2>1 DEF RateInv, SlidingWindow
  <2>2. CASE q = ip /\ i + MaxRequests <= n
    <3>1. i \in 1..n /\ i + MaxRequests \in 1..n
      BY <1>a, <2>2
    <3> QED
      BY <1>a, <2>2, <3>1 DEF RateInv, SlidingWindow
  <2>3. CASE q = ip /\ i + MaxRequests = n + 1
    <3>1. Cardinality(Valid(ip)) < MaxRequests /\ Cardinality(Valid(ip)) \in Nat
      BY <1>1, RecordsFinite DEF Accept
    <3>2. i \in 1..n
      BY <1>a, <2>3, <3>1
    <3>3. accepted[ip][i] + WindowDur <= now
      BY <2>3, <3>2, AcceptWindow
    <3> QED
      BY <1>a, <2>3, <3>2, <3>3
  <2>4. ASSUME q = ip
        PROVE  i + MaxRequests <= n \/ i + MaxRequests = n + 1
    <3>1. i \in 1..(n + 1) /\ i + MaxRequests <= n + 1
      BY <1>a, <2>4
    <3> HIDE DEF n
    <3> QED
      BY <1>a, <3>1
  <2> QED
    BY <2>1, <2>2, <2>3, <2>4
<1> QED
  BY <1>1, <1>2, <1>3, <1>4, <1>5, <1>6 DEF RateInv

-----------------------------------------------------------------------------
LEMMA RateInvBan == ASSUME RateInv, NEW ip \in Ips, Ban(ip) PROVE RateInv'
<1> USE RateLimiterAssumption
<1>1. /\ now \in Nat /\ now + BanDur \in Nat /\ Len(accepted[ip]) \in Nat
      /\ accepted[ip] \in Seq(Nat)
  BY DEF RateInv, TypeOK
<1>2. /\ now' = now /\ accepted' = accepted
      /\ banned'[ip] = now + BanDur /\ banEnd'[ip] = now + BanDur
      /\ requests'[ip] = {} /\ since'[ip] = Len(accepted[ip])
      /\ \A q \in Ips \ {ip} : /\ banned'[q] = banned[q] /\ banEnd'[q] = banEnd[q]
                               /\ requests'[q] = requests[q] /\ since'[q] = since[q]
  BY DEF Ban, RateInv, TypeOK
<1>3. TypeOK'
  <2>1. Cardinality({}) = 0
    BY FS_EmptySet
  <2> QED
    BY <1>1, <2>1 DEF RateInv, TypeOK, Ban
<1>4. InOrder' /\ SlidingWindow'
  BY <1>2 DEF RateInv, InOrder, SlidingWindow
<1>5. BanRecord'
  BY <1>1, <1>2 DEF RateInv, BanRecord, NoBan
<1>6. WindowRecord'
  <2>1. requests'[ip] = {} /\ since'[ip] = Len(accepted[ip]) /\ Len(accepted[ip]) \in Nat
    BY <1>1, <1>2
  <2>2. (since'[ip] + 1)..Len(accepted[ip]) = {}
    BY <2>1
  <2> QED
    BY <1>1, <1>2, <2>1, <2>2 DEF RateInv, WindowRecord
<1>7. BanOutlastsWindow'
  <2>1. \A i \in 1..Len(accepted[ip]) : accepted[ip][i] <= now /\ accepted[ip][i] \in Nat
    BY <1>1 DEF RateInv, InOrder
  <2>2. BanDur >= WindowDur =>
          \A i \in 1..Len(accepted[ip]) : accepted[ip][i] + WindowDur <= now + BanDur
    BY <1>1, <2>1
  <2> QED
    BY <1>2, <2>2 DEF RateInv, BanOutlastsWindow
<1> QED
  BY <1>3, <1>4, <1>5, <1>6, <1>7 DEF RateInv

\* What is in the window of a later time has been in it before.
LEMMA WindowMoves ==
  ASSUME NEW a \in Nat, NEW t \in Nat, NEW u \in Nat, NEW w \in Nat,
         u >= t, a > u - w
  PROVE  a > t - w
OBVIOUS

\* The other steps: the clock goes on, or records are dropped.
LEMMA RateInvDrop ==
  ASSUME RateInv, TypeOK', UNCHANGED history,
         now' >= now,
         \A ip \in Ips : \/ banned'[ip] = banned[ip]
                         \/ banned'[ip] = NoBan /\ now >= banned[ip],
         \A ip \in Ips : \/ requests'[ip] = requests[ip]
                         \/ requests'[ip] = Valid(ip) /\ now' = now
  PROVE  RateInv'
<1> USE RateLimiterAssumption
<1>1. /\ now \in Nat /\ now' \in Nat
      /\ \A ip \in Ips : /\ accepted[ip] \in Seq(Nat) /\ banEnd[ip] \in Nat
                         /\ banned[ip] \in Nat \cup {NoBan} /\ since[ip] \in Nat
  BY DEF RateInv, TypeOK
<1>2. InOrder'
  BY <1>1 DEF RateInv, InOrder, history
<1>3. BanRecord'
  BY <1>1 DEF RateInv, BanRecord, history, NoBan
<1>4. WindowRecord'
  <2> SUFFICES ASSUME NEW ip \in Ips
               PROVE  /\ since[ip] <= Len(accepted[ip])
                      /\ requests'[ip] \subseteq (since[ip] + 1)..Len(accepted[ip])
                      /\ \A i \in (since[ip] + 1)..Len(accepted[ip]) :
                           accepted[ip][i] > now' - WindowDur => i \in requests'[ip]
    BY DEF WindowRecord, history
  <2>1. \A i \in (since[ip] + 1)..Len(accepted[ip]) : accepted[ip][i] \in Nat
    BY <1>1
  <2>2. \A i \in (since[ip] + 1)..Len(accepted[ip]) :
          accepted[ip][i] > now' - WindowDur => accepted[ip][i] > now - WindowDur
    BY <1>1, <2>1, WindowMoves
  <2> QED
    BY <2>2 DEF RateInv, WindowRecord, Valid
<1>5. BanOutlastsWindow' /\ SlidingWindow'
  BY DEF RateInv, BanOutlastsWindow, SlidingWindow, history
<1> QED
  BY <1>2, <1>3, <1>4, <1>5 DEF RateInv

LEMMA RateInvNext == RateInv /\ [Next]_vars => RateInv'
<1> SUFFICES ASSUME RateInv, [Next]_vars PROVE RateInv'
  OBVIOUS
<1> USE RateLimiterAssumption
<1>0. TypeOK
  BY DEF RateInv
<1>1. ASSUME NEW ip \in Ips, Allow(ip)
      PROVE  RateInv'
  <2>1. CASE Refuse(ip)
    BY <1>0, <2>1, RateInvDrop DEF Refuse, vars, history, TypeOK
  <2> QED
    BY <1>1, <2>1, RateInvAccept, RateInvBan DEF Allow
<1>2. ASSUME NEW ip \in Ips, IsBlocked(ip) \/ CooldownRemaining(ip)
      PROVE  RateInv'
  <2>1. TypeOK'
    BY <1>0, <1>2 DEF IsBlocked, CooldownRemaining, TypeOK, history
  <2>2. \A q \in Ips : \/ banned'[q] = banned[q]
                       \/ banned'[q] = NoBan /\ now >= banned[q]
    BY <1>0, <1>2 DEF IsBlocked, CooldownRemaining, TypeOK, NoBan
  <2> QED
    BY <1>0, <1>2, <2>1, <2>2, RateInvDrop DEF IsBlocked, CooldownRemaining, history, TypeOK
<1>3. CASE Cleanup
  <2>1. TypeOK'
    <3>1. \A ip \in Ips : /\ Valid(ip) \subseteq 1..Len(accepted[ip]) /\ Valid(ip) \subseteq Nat
                          /\ Cardinality(Valid(ip)) <= MaxRequests
      BY <1>0, RecordsFinite DEF TypeOK
    <3> QED
      BY <1>0, <1>3, <3>1 DEF Cleanup, TypeOK, history
  <2>2. \A q \in Ips : \/ banned'[q] = banned[q]
                       \/ banned'[q] = NoBan /\ now >= banned[q]
    BY <1>0, <1>3 DEF Cleanup, TypeOK, NoBan
  <2> QED
    BY <1>0, <1>3, <2>1, <2>2, RateInvDrop DEF Cleanup, TypeOK
<1>4. CASE Stop \/ LoopEnds \/ Tick
  <2>1. TypeOK'
    BY <1>0, <1>4 DEF Stop, LoopEnds, Tick, TypeOK, history, records
  <2> QED
    BY <1>0, <1>4, <2>1, RateInvDrop DEF Stop, LoopEnds, Tick, TypeOK, records
<1>5. CASE UNCHANGED vars
  BY <1>0, <1>5, RateInvDrop DEF vars, history, TypeOK
<1> QED
  BY <1>1, <1>2, <1>3, <1>4, <1>5 DEF Next

LEMMA RateInvariant == Spec => []RateInv
BY RateInvInit, RateInvNext, PTL DEF Spec

-----------------------------------------------------------------------------
\* Every variable keeps its type: no client has more than MaxRequests on record.
THEOREM RateTypeCorrect == Spec => []TypeOK
<1>1. RateInv => TypeOK
  BY DEF RateInv
<1> QED
  BY <1>1, RateInvariant, PTL

\* With bans not shorter than the window, no window ever has more accepted
\* requests of a client than MaxRequests.
THEOREM WindowIsRespected == Spec => []SlidingWindow
<1>1. RateInv => SlidingWindow
  BY DEF RateInv
<1> QED
  BY <1>1, RateInvariant, PTL

\* Dropping expired records, lazily or by the cleanup loop, is invisible.
THEOREM DroppingRecordsIsInvisible == Spec => []DroppingIsInvisible
<1>1. RateInv => DroppingIsInvisible
  <2> SUFFICES ASSUME RateInv, NEW ip \in Ips
               PROVE  /\ now < banned[ip] <=> now < banEnd[ip]
                      /\ Valid(ip) = {i \in (since[ip] + 1)..Len(accepted[ip]) :
                                        accepted[ip][i] > now - WindowDur}
    BY DEF DroppingIsInvisible
  <2>1. now \in Nat /\ banned[ip] \in Nat \cup {-1} /\ banEnd[ip] \in Nat
    BY DEF RateInv, TypeOK, NoBan
  <2>2. now < banned[ip] <=> now < banEnd[ip]
    BY <2>1 DEF RateInv, BanRecord, NoBan
  <2> QED
    BY <2>2 DEF RateInv, WindowRecord, Valid
<1> QED
  BY <1>1, RateInvariant, PTL

\* Who changes the history of a client, and when.
LEMMA HistorySteps ==
  ASSUME [Next]_vars, NEW ip \in Ips, TypeOK
  PROVE  /\ accepted'[ip] # accepted[ip] => Accept(ip)
         /\ banEnd'[ip] # banEnd[ip] => Ban(ip)
<1>1. ASSUME NEW q \in Ips, Allow(q)
      PROVE  /\ accepted'[ip] # accepted[ip] => Accept(ip)
             /\ banEnd'[ip] # banEnd[ip] => Ban(ip)
  BY <1>1 DEF Allow, Accept, Ban, Refuse, vars, TypeOK
<1> QED
  BY <1>1 DEF Next, IsBlocked, CooldownRemaining, Cleanup, Stop, LoopEnds, Tick, history, vars

\* A ban ends neither early nor late, and none is extended while it lasts.
THEOREM BansDoLast == Spec => BansLast
<1>1. RateInv /\ [Next]_vars =>
        [\A ip \in Ips :
           accepted'[ip] # accepted[ip] \/ banEnd'[ip] # banEnd[ip] => now >= banEnd[ip]]_vars
  <2> SUFFICES ASSUME RateInv, [Next]_vars, NEW ip \in Ips,
                      accepted'[ip] # accepted[ip] \/ banEnd'[ip] # banEnd[ip]
               PROVE  now >= banEnd[ip]
    OBVIOUS
  <2>1. now >= banned[ip]
    BY HistorySteps DEF RateInv, Accept, Ban
  <2> QED
    BY <2>1 DEF RateInv, TypeOK, BanRecord, NoBan
<1> QED
  BY <1>1, RateInvariant, PTL DEF Spec, BansLast

\* The elements of a sequence of times are times.
LEMMA ElementsType ==
  ASSUME NEW s \in Seq(Nat), NEW i \in 1..Len(s)
  PROVE  s[i] \in Nat
OBVIOUS

\* Of a client with a full window at least MaxRequests requests are newer than
\* its last ban, and the last MaxRequests ones are in the window.
LEMMA FullWindow ==
  ASSUME RateInv, NEW ip \in Ips, Cardinality(Valid(ip)) >= MaxRequests
  PROVE  /\ Len(accepted[ip]) >= since[ip] + MaxRequests
         /\ \A i \in 1..Len(accepted[ip]) :
              i + MaxRequests > Len(accepted[ip]) => accepted[ip][i] > now - WindowDur
<1> USE RateLimiterAssumption
<1> DEFINE n == Len(accepted[ip])
<1>1. /\ TypeOK /\ n \in Nat /\ since[ip] \in Nat /\ now \in Nat /\ accepted[ip] \in Seq(Nat)
      /\ since[ip] <= n
  BY DEF RateInv, TypeOK, WindowRecord
<1>2. Valid(ip) \subseteq (since[ip] + 1)..n
  BY DEF RateInv, WindowRecord, Valid
<1>3. Cardinality(Valid(ip)) \in Nat
  BY <1>1, RecordsFinite
<1>4. ASSUME NEW m \in Nat, m <= n, Valid(ip) \subseteq (m + 1)..n
      PROVE  n - m >= MaxRequests
  <2> HIDE DEF n
  <2>1. IsFiniteSet((m + 1)..n) /\ Cardinality((m + 1)..n) = n - m
    <3> DEFINE k == m + 1
    <3>1. k \in Int /\ n \in Int /\ (IF k > n THEN 0 ELSE n - k + 1) = n - m
      BY <1>1, <1>4
    <3> HIDE DEF k
    <3>2. IsFiniteSet(k..n) /\ Cardinality(k..n) = (IF k > n THEN 0 ELSE n - k + 1)
      BY <3>1, FS_Interval
    <3> QED
      BY <3>1, <3>2 DEF k
  <2>2. Cardinality(Valid(ip)) <= Cardinality((m + 1)..n)
    BY <1>4, <2>1, FS_Subset
  <2> QED
    BY <1>1, <1>3, <2>1, <2>2
<1>5. n - since[ip] >= MaxRequests
  BY <1>1, <1>2, <1>4
<1>6. ASSUME NEW i \in 1..n, i + MaxRequests > n, ~(accepted[ip][i] > now - WindowDur)
      PROVE  FALSE
  <2>1. ASSUME NEW k \in Valid(ip)
        PROVE  k \in (i + 1)..n
    <3>1. k \in 1..n /\ accepted[ip][k] > now - WindowDur
      BY <1>1, <1>2, <2>1 DEF Valid
    <3>0. k \in Nat /\ i \in Nat /\ k <= n
      BY <1>1, <3>1
    <3>2. ~(k \in 1..i)
      <4> SUFFICES ASSUME k \in 1..i PROVE FALSE
        OBVIOUS
      <4>1. accepted[ip][k] <= accepted[ip][i]
        BY DEF RateInv, InOrder
      <4>2. accepted[ip][k] \in Nat /\ accepted[ip][i] \in Nat
        BY <1>1, <3>1, ElementsType
      <4>3. now - WindowDur \in Int
        BY <1>1
      <4> QED
        BY <1>6, <3>1, <4>1, <4>2, <4>3
    <3>3. k > i
      BY <3>0, <3>1, <3>2
    <3> HIDE DEF n
    <3> QED
      BY <1>1, <3>0, <3>3
  <2>2. Valid(ip) \subseteq (i + 1)..n /\ i \in Nat /\ i <= n
    BY <1>1, <2>1
  <2>3. n - i >= MaxRequests
    BY <1>4, <2>2
  <2> HIDE DEF n
  <2> QED
    BY <1>1, <1>6, <2>3
<1> HIDE DEF n
<1>7. n >= since[ip] + MaxRequests
  BY <1>1, <1>5
<1> USE DEF n
<1> QED
  BY <1>6, <1>7

\* Only a client with MaxRequests accepted requests in the window, all after
\* its last ban, is banned.
THEOREM BansAreDeserved == Spec => BansAreJust
<1>1. RateInv /\ [Next]_vars =>
        [\A ip \in Ips : banEnd'[ip] # banEnd[ip] =>
           /\ Len(accepted[ip]) >= since[ip] + MaxRequests
           /\ \A i \in 1..Len(accepted[ip]) :
                i + MaxRequests > Len(accepted[ip]) => accepted[ip][i] > now - WindowDur]_vars
  <2> SUFFICES ASSUME RateInv, [Next]_vars, NEW ip \in Ips, banEnd'[ip] # banEnd[ip]
               PROVE  /\ Len(accepted[ip]) >= since[ip] + MaxRequests
                      /\ \A i \in 1..Len(accepted[ip]) :
                           i + MaxRequests > Len(accepted[ip]) => accepted[ip][i] > now - WindowDur
    OBVIOUS
  <2>1. Cardinality(Valid(ip)) >= MaxRequests
    BY HistorySteps DEF RateInv, Ban
  <2> QED
    BY <2>1, FullWindow
<1> QED
  BY <1>1, RateInvariant, PTL DEF Spec, BansAreJust

=============================================================================
