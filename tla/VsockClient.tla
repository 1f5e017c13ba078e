----------------------------- MODULE VsockClient -----------------------------
(***************************************************************************)
(* One call of the client worker/firecracker/vsock: CONNECT and the        *)
(* response to it, a line of text; then, on the same stream and with       *)
(* nothing in between, the request and the response, each of them a length *)
(* in four bytes and a text of that length.                                *)
(*                                                                         *)
(* The other side is external: Firecracker answers the CONNECT with a line *)
(* that begins with OK or with another, and the guest the request with a   *)
(* length and a text.  What they write arrives in pieces cut anywhere, and *)
(* they may stop writing or close the connection.                          *)
(***************************************************************************)
EXTENDS Integers, Sequences

CONSTANTS
  Lines,    \* responses to CONNECT, each a sequence of bytes
  Lengths,  \* lengths of the guest's response
  Cuts      \* the places where the stream may be cut

Text == 10..127
Byte == 0..255
K == 256
MaxResponse == 1024 * 1024

ASSUME VsockClientAssumption ==
  /\ Lines \subseteq Seq(Text)
  /\ \A l \in Lines : Len(l) \in 2..127
  /\ \A n \in Lengths : n \in Nat /\ n \div (K * K * K) < K
  /\ Cuts \subseteq Nat

VARIABLES
  op,        \* "Execute" or "Ping"
  line,      \* the response to CONNECT this call gets
  length,    \* the length of the guest's response,
  answer,    \* and what it is to json.Unmarshal and by the exit code in it
  stage,     \* progress of the call
  arrived,   \* how many bytes of the stream have arrived,
  consumed,  \* and how many of them the client has read
  respLen,   \* the length it has read
  closed     \* the other side has closed the connection

guestVars == <<op, line, length, answer>>
vsockVars == <<guestVars, stage, arrived, consumed, respLen, closed>>

\* Values of answer.
Outcomes == {"success", "failure", "malformed"}

OK == <<79, 75>>
Accepts(l) == SubSeq(l, 1, 2) = OK

\* binary.BigEndian.PutUint32 of the guest, and Uint32 of the client.
BigEndian(n) == <<n \div (K * K * K), (n \div (K * K)) % K, (n \div K) % K, n % K>>
Uint32(a, b, c, d) == a * (K * K * K) + b * (K * K) + c * K + d

\* Byte number i of the stream, up to the end of the length.
StreamByte(i) == IF i <= Len(line) THEN line[i] ELSE BigEndian(length)[i - Len(line)]
\* Where the text of the response begins, and where it ends.
BodyStart == Len(line) + 4
StreamEnd == BodyStart + length

Open == {"handshake", "request", "length", "body"}
Ended == {"done", "failed"}

-----------------------------------------------------------------------------
VsockInit ==
  /\ op \in {"Execute", "Ping"}
  /\ line \in Lines
  /\ length \in Lengths
  /\ answer \in Outcomes
  /\ length = 0 => answer = "malformed"
  /\ stage = "dial"
  /\ arrived = 0 /\ consumed = 0 /\ respLen = 0
  /\ closed = FALSE

-----------------------------------------------------------------------------
(* connect.                                                                *)

Goto(s) == stage' = s /\ UNCHANGED <<guestVars, arrived, closed>>

Connect ==
  /\ stage = "dial"
  /\ Goto("handshake")
  /\ UNCHANGED <<consumed, respLen>>

ConnectFails ==
  /\ stage \in {"dial", "handshake"}
  /\ stage = "handshake" => closed /\ arrived = 0
  /\ Goto("failed")
  /\ UNCHANGED <<consumed, respLen>>

\* One Read, which takes what has arrived for the response to CONNECT: the rest
\* of the line, if there is one, stays in the stream.  There is no deadline.
ReadHandshake ==
  /\ stage = "handshake"
  /\ arrived > 0
  /\ consumed' = arrived
  /\ IF arrived < 2 \/ ~Accepts(line) THEN Goto("failed")
     ELSE Goto(IF op = "Ping" THEN "done" ELSE "request")
  /\ UNCHANGED respLen

-----------------------------------------------------------------------------
(* Execute, after the handshake.                                           *)

\* SetDeadline, and the two writes.
SendRequest ==
  /\ stage = "request"
  /\ Goto("length")
  /\ UNCHANGED <<consumed, respLen>>

\* Mutant: no sanity cap.
ReadLengthUncapped ==
  /\ stage = "length"
  /\ arrived - consumed >= 4
  /\ respLen' = Uint32(StreamByte(consumed + 1), StreamByte(consumed + 2),
                       StreamByte(consumed + 3), StreamByte(consumed + 4))
  /\ consumed' = consumed + 4
  /\ Goto("body")

\* io.ReadFull of four bytes, and the cap.
ReadLength ==
  /\ stage = "length"
  /\ arrived - consumed >= 4
  /\ respLen' = Uint32(StreamByte(consumed + 1), StreamByte(consumed + 2),
                       StreamByte(consumed + 3), StreamByte(consumed + 4))
  /\ consumed' = consumed + 4
  /\ Goto(IF respLen' > MaxResponse THEN "failed" ELSE "body")

\* Mutant: conn.Read instead of io.ReadFull.
ReadBodyOnce ==
  /\ stage = "body"
  /\ arrived > consumed \/ respLen = 0
  /\ consumed' = IF arrived - consumed < respLen THEN arrived ELSE consumed + respLen
  /\ Goto(IF answer = "malformed" THEN "failed" ELSE "done")
  /\ UNCHANGED respLen

\* io.ReadFull of the text, and json.Unmarshal.
ReadBody ==
  /\ stage = "body"
  /\ arrived - consumed >= respLen
  /\ consumed' = consumed + respLen
  /\ Goto(IF answer = "malformed" THEN "failed" ELSE "done")
  /\ UNCHANGED respLen

\* A write or a read fails because the other side has closed the connection.
ExchangeFails ==
  /\ stage \in {"request", "length", "body"}
  /\ closed
  /\ stage = "length" => arrived - consumed < 4
  /\ stage = "body" => arrived - consumed < respLen
  /\ Goto("failed")
  /\ UNCHANGED <<consumed, respLen>>

\* Mutant: SetDeadline is not called.
NoDeadline == ExchangeFails

\* The deadline set before the request.
Deadline ==
  /\ stage \in {"request", "length", "body"}
  /\ Goto("failed")
  /\ UNCHANGED <<consumed, respLen>>

ClientStep ==
  \/ Connect \/ ConnectFails \/ ReadHandshake
  \/ SendRequest \/ ReadLength \/ ReadBody
  \/ ExchangeFails \/ Deadline

-----------------------------------------------------------------------------
(* The other side.                                                         *)

\* The guest answers a request only, and only if Firecracker has let it through.
Written == IF stage \in {"length", "body"} /\ Accepts(line) THEN StreamEnd ELSE Len(line)

Arrive(n) ==
  /\ stage \in Open
  /\ ~closed
  /\ arrived < n /\ n <= Written
  /\ arrived' = n
  /\ UNCHANGED <<guestVars, stage, consumed, respLen, closed>>

Close ==
  /\ stage \in Open
  /\ ~closed
  /\ closed' = TRUE
  /\ UNCHANGED <<guestVars, stage, arrived, consumed, respLen>>

PeerStep == Close \/ \E n \in Cuts : Arrive(n)

-----------------------------------------------------------------------------
VsockNext == ClientStep \/ PeerStep

VsockSpec == VsockInit /\ [][VsockNext]_vsockVars

-----------------------------------------------------------------------------
VsockTypeOK ==
  /\ op \in {"Execute", "Ping"}
  /\ line \in Lines
  /\ length \in Lengths
  /\ answer \in Outcomes
  /\ stage \in {"dial"} \cup Open \cup Ended
  /\ arrived \in Nat
  /\ consumed \in Nat
  /\ respLen \in Nat
  /\ closed \in BOOLEAN

\* What is read as the length of the response is the length the guest has sent,
\* wherever the stream was cut: if the Read of the handshake left a part of the
\* line behind, the cap refuses what that part gives as a length, since no byte
\* of a line is 0.
FramingIsRight == stage = "body" => consumed = BodyStart /\ respLen = length

\* A response that Execute returns is the guest's, from its first byte to its last.
GenuineResponse ==
  stage = "done" /\ op = "Execute" =>
    consumed = StreamEnd /\ arrived = StreamEnd /\ respLen = length /\ Accepts(line)

=============================================================================
