---------------------------- MODULE RateLimiter ----------------------------
(***************************************************************************)
(* executor/ratelimiter.go: a sliding window of accepted requests per      *)
(* client, and a ban for a client that exceeds it.  Every operation runs   *)
(* under rl.mu and is one step.  What happens between them is the clock,   *)
(* the cleanup loop, and that each operation drops expired bans in its own *)
(* way and at its own time.                                                *)
(*                                                                         *)
(* now is the monotonic clock.  Allow reads it twice; as the first reading *)
(* only finds out whether a ban has expired, and it then still has at the  *)
(* second, one reading stands for both.  The empty ip, which is never      *)
(* limited nor recorded, is not among the clients.                         *)
(***************************************************************************)
EXTENDS Integers, Sequences, FiniteSets

CONSTANTS
  Ips,          \* the clients
  MaxRequests,  \* accepted per window
  WindowDur,
  BanDur,
  MaxTime       \* bound: the clock stops there

ASSUME RateLimiterAssumption ==
  /\ MaxRequests \in Nat /\ WindowDur \in Nat /\ BanDur \in Nat
  /\ MaxTime \in Nat

VARIABLES
  now,
  accepted,  \* the times of all requests of a client that were allowed
  requests,  \* rl.requests: those (by their index in accepted) on record
  banned,    \* rl.banned: until when the client is banned, or NoBan
  banEnd,    \* until when it was last banned, whatever is still on record
  since,     \* the number of requests accepted before that
  loop       \* cleanupLoop: running, told to stop, ended

records == <<requests, banned>>
history == <<accepted, banEnd, since>>
vars == <<now, accepted, requests, banned, banEnd, since, loop>>

NoBan == -1

Init ==
  /\ now = 0
  /\ accepted = [ip \in Ips |-> <<>>]
  /\ requests = [ip \in Ips |-> {}]
  /\ banned = [ip \in Ips |-> NoBan]
  /\ banEnd = [ip \in Ips |-> 0]
  /\ since = [ip \in Ips |-> 0]
  /\ loop = "running"

-----------------------------------------------------------------------------
\* Mutant: requests that have left the window count.
ValidAll(ip) == requests[ip]

\* The requests on record that were made after windowStart.
Valid(ip) == {i \in requests[ip] : accepted[ip][i] > now - WindowDur}

\* Mutant: one request too many.
AcceptOver(ip) ==
  /\ now >= banned[ip]
  /\ Cardinality(Valid(ip)) <= MaxRequests
  /\ accepted' = [accepted EXCEPT ![ip] = Append(@, now)]
  /\ requests' = [requests EXCEPT ![ip] = Valid(ip) \cup {Len(accepted[ip]) + 1}]
  /\ banned' = [banned EXCEPT ![ip] = NoBan]
  /\ UNCHANGED <<now, banEnd, since, loop>>

\* Allow, for a client that is not banned or no longer, with the window not full:
\* the request is recorded,
Accept(ip) ==
  /\ now >= banned[ip]
  /\ Cardinality(Valid(ip)) < MaxRequests
  /\ accepted' = [accepted EXCEPT ![ip] = Append(@, now)]
  /\ requests' = [requests EXCEPT ![ip] = Valid(ip) \cup {Len(accepted[ip]) + 1}]
  /\ banned' = [banned EXCEPT ![ip] = NoBan]
  /\ UNCHANGED <<now, banEnd, since, loop>>

\* ... or with the window full: the client is banned and its record deleted.
Ban(ip) ==
  /\ now >= banned[ip]
  /\ Cardinality(Valid(ip)) >= MaxRequests
  /\ banned' = [banned EXCEPT ![ip] = now + BanDur]
  /\ requests' = [requests EXCEPT ![ip] = {}]
  /\ banEnd' = [banEnd EXCEPT ![ip] = now + BanDur]
  /\ since' = [since EXCEPT ![ip] = Len(accepted[ip])]
  /\ UNCHANGED <<now, accepted, loop>>

\* A banned client is refused, which changes nothing.
Refuse(ip) == now < banned[ip] /\ UNCHANGED vars

\* Mutant: the ban is dropped before its end.
IsBlockedForgets(ip) ==
  /\ banned' = [banned EXCEPT ![ip] = NoBan]
  /\ UNCHANGED <<now, requests, history, loop>>

\* IsBlocked drops a ban that has come to its end,
IsBlocked(ip) ==
  /\ banned' = [banned EXCEPT ![ip] = IF now < @ THEN @ ELSE NoBan]
  /\ UNCHANGED <<now, requests, history, loop>>

\* ... CooldownRemaining one that is past it.
CooldownRemaining(ip) ==
  /\ banned' = [banned EXCEPT ![ip] = IF @ < now THEN NoBan ELSE @]
  /\ UNCHANGED <<now, requests, history, loop>>

\* Mutant: all records of requests are dropped.
CleanupForgets ==
  /\ loop # "ended"
  /\ banned' = [ip \in Ips |-> IF now > banned[ip] THEN NoBan ELSE banned[ip]]
  /\ requests' = [ip \in Ips |-> {}]
  /\ UNCHANGED <<now, history, loop>>

\* One tick of cleanupLoop.  A tick that is due may come before stopCh is seen.
Cleanup ==
  /\ loop # "ended"
  /\ banned' = [ip \in Ips |-> IF now > banned[ip] THEN NoBan ELSE banned[ip]]
  /\ requests' = [ip \in Ips |-> Valid(ip)]
  /\ UNCHANGED <<now, history, loop>>

\* Stop closes stopCh, which may be done once.
Stop ==
  /\ loop = "running"
  /\ loop' = "told"
  /\ UNCHANGED <<now, records, history>>

LoopEnds ==
  /\ loop = "told"
  /\ loop' = "ended"
  /\ UNCHANGED <<now, records, history>>

Tick ==
  /\ now < MaxTime
  /\ now' = now + 1
  /\ UNCHANGED <<records, history, loop>>

Allow(ip) == Accept(ip) \/ Ban(ip) \/ Refuse(ip)

Next ==
  \/ \E ip \in Ips : Allow(ip) \/ IsBlocked(ip) \/ CooldownRemaining(ip)
  \/ Cleanup \/ Stop \/ LoopEnds
  \/ Tick

Spec == Init /\ [][Next]_vars

-----------------------------------------------------------------------------
TypeOK ==
  /\ now \in Nat
  /\ accepted \in [Ips -> Seq(Nat)]
  /\ requests \in [Ips -> SUBSET Nat]
  /\ \A ip \in Ips : /\ requests[ip] \subseteq 1..Len(accepted[ip])
                     /\ Cardinality(requests[ip]) <= MaxRequests
  /\ banned \in [Ips -> Nat \cup {NoBan}]
  /\ banEnd \in [Ips -> Nat]
  /\ since \in [Ips -> Nat]
  /\ loop \in {"running", "told", "ended"}

\* No window of length WindowDur has more than MaxRequests accepted requests of
\* a client, although a ban deletes the record of the requests before it: if the
\* ban is not shorter than the window, they have left the window when it ends.
SlidingWindow ==
  BanDur >= WindowDur =>
    \A ip \in Ips : \A i \in 1..Len(accepted[ip]) :
      i + MaxRequests <= Len(accepted[ip])
        => accepted[ip][i] + WindowDur <= accepted[ip][i + MaxRequests]

\* When and by which operation expired records are dropped makes no difference
\* to what Allow answers: a client is banned exactly until the end of its last
\* ban, and else has those accepted requests in the window that came after it.
DroppingIsInvisible ==
  \A ip \in Ips :
    /\ now < banned[ip] <=> now < banEnd[ip]
    /\ now >= banEnd[ip] =>
         Valid(ip) = {i \in (since[ip] + 1)..Len(accepted[ip]) : accepted[ip][i] > now - WindowDur}

\* A ban lasts for BanDur, whatever is asked and cleaned up in the meantime.
BansLast ==
  [][\A ip \in Ips :
       accepted'[ip] # accepted[ip] \/ banEnd'[ip] # banEnd[ip] => now >= banEnd[ip]]_vars

\* Only a client that had MaxRequests requests accepted within the window, after
\* its last ban, is banned.
BansAreJust ==
  [][\A ip \in Ips : banEnd'[ip] # banEnd[ip] =>
       /\ Len(accepted[ip]) >= since[ip] + MaxRequests
       /\ \A i \in 1..Len(accepted[ip]) :
            i + MaxRequests > Len(accepted[ip]) => accepted[ip][i] > now - WindowDur]_vars

=============================================================================
