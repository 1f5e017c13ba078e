----------------------- MODULE CompilerService_proofs -----------------------
(***************************************************************************)
(* What holds of CompilerService and of VsockClient for any languages,     *)
(* codes and responses, wherever the stream is cut.                        *)
(***************************************************************************)
EXTENDS CompilerService, SequenceTheorems, TLAPS

\* What the client has read, by stage: of the line of the handshake at least two
\* bytes and maybe not all; then, if that was all of it, the length.
Handshaken ==
  stage \in {"dial", "handshake"} => consumed = 0 /\ arrived <= Len(line)
Accepted ==
  stage \in {"request", "length", "body"} => op = "Execute" /\ Accepts(line)
Requesting ==
  stage \in {"request", "length"} => 2 <= consumed /\ consumed <= Len(line)
Bounded ==
  /\ stage = "request" => arrived <= Len(line)
  /\ stage \in {"length", "body"} => arrived <= StreamEnd

StreamInv ==
  /\ consumed <= arrived
  /\ Handshaken /\ Accepted /\ Requesting /\ Bounded
  /\ FramingIsRight
  /\ GenuineResponse

VsockInv == VsockTypeOK /\ StreamInv

-----------------------------------------------------------------------------
(* The length in four bytes.                                               *)

LEMMA Division ==
  ASSUME NEW n \in Nat
  PROVE  \E m \in Nat, r \in Nat : n = 256 * m + r /\ r < 256
<1>1. n \div 256 \in Nat /\ n % 256 \in Nat /\ n = 256 * (n \div 256) + (n % 256) /\ n % 256 < 256
  OBVIOUS
<1> QED
  BY <1>1

LEMMA Quotient ==
  ASSUME NEW n \in Nat, NEW m \in Nat, NEW r \in Nat
  PROVE  /\ n = 256 * m + r /\ r < 256 => n \div 256 = m /\ n % 256 = r
         /\ n = 65536 * m + r /\ r < 65536 => n \div 65536 = m
         /\ n = 16777216 * m + r /\ r < 16777216 => n \div 16777216 = m
OBVIOUS

LEMMA TwoDigits ==
  ASSUME NEW n \in Nat, NEW q \in Nat, NEW p \in Nat, NEW a \in Nat, NEW b \in Nat,
         n = 256 * q + a, q = 256 * p + b, a < 256, b < 256
  PROVE  /\ n = 65536 * p + (256 * b + a)
         /\ 256 * b + a < 65536 /\ 256 * b + a \in Nat
OBVIOUS

LEMMA ThreeDigits ==
  ASSUME NEW n \in Nat, NEW p \in Nat, NEW o \in Nat, NEW a \in Nat, NEW c \in Nat,
         n = 65536 * p + a, p = 256 * o + c, a < 65536, c < 256
  PROVE  /\ n = 16777216 * o + (65536 * c + a)
         /\ 65536 * c + a < 16777216 /\ 65536 * c + a \in Nat
OBVIOUS

LEMMA Digits ==
  ASSUME NEW n \in Nat
  PROVE  n = (n \div 16777216) * 16777216 + ((n \div 65536) % 256) * 65536
               + ((n \div 256) % 256) * 256 + (n % 256)
<1>1. PICK q \in Nat, a \in Nat : n = 256 * q + a /\ a < 256
  BY Division
<1>2. PICK p \in Nat, b \in Nat : q = 256 * p + b /\ b < 256
  BY Division
<1>3. PICK o \in Nat, c \in Nat : p = 256 * o + c /\ c < 256
  BY Division
<1> DEFINE ab == 256 * b + a
           abc == 65536 * c + ab
<1>4. n = 65536 * p + ab /\ ab < 65536 /\ ab \in Nat
  BY <1>1, <1>2, TwoDigits
<1>5. n = 16777216 * o + abc /\ abc < 16777216 /\ abc \in Nat
  <2> HIDE DEF ab
  <2> QED
    BY <1>3, <1>4, ThreeDigits
<1>6. n \div 256 = q /\ n % 256 = a
  BY <1>1, Quotient
<1>7. q % 256 = b /\ p % 256 = c
  BY <1>2, <1>3, Quotient
<1>8. n \div 65536 = p
  <2> HIDE DEF ab
  <2> QED
    BY <1>4, Quotient
<1>9. n \div 16777216 = o
  <2> HIDE DEF abc
  <2> QED
    BY <1>5, Quotient
<1>10. n = o * 16777216 + c * 65536 + b * 256 + a
  BY <1>1, <1>2, <1>3
<1> QED
  BY <1>6, <1>7, <1>8, <1>9, <1>10

\* What the client reads as the length is what the guest has written as it.
LEMMA LengthRoundTrip ==
  ASSUME NEW n \in Nat
  PROVE  LET b == BigEndian(n) IN Uint32(b[1], b[2], b[3], b[4]) = n
<1>1. K = 256 /\ K * K = 65536 /\ K * K * K = 16777216
  BY DEF K
<1> QED
  BY <1>1, Digits DEF BigEndian, Uint32

LEMMA LengthBytes ==
  ASSUME NEW n \in Nat
  PROVE  \A i \in 1..4 : BigEndian(n)[i] \in Nat
<1>1. K = 256 /\ K * K = 65536 /\ K * K * K = 16777216
  BY DEF K
<1>2. /\ n \div 16777216 \in Nat
      /\ (n \div 65536) % 256 \in Nat /\ (n \div 256) % 256 \in Nat /\ n % 256 \in Nat
  OBVIOUS
<1> QED
  BY <1>1, <1>2 DEF BigEndian

\* A byte of text in front makes a length the cap refuses.
LEMMA TextIsNoLength ==
  ASSUME NEW a \in Text, NEW b \in Nat, NEW c \in Nat, NEW d \in Nat
  PROVE  Uint32(a, b, c, d) > MaxResponse
BY DEF Uint32, K, Text, MaxResponse

\* The types of what the other side is going to write.
LEMMA GuestTypes ==
  ASSUME VsockTypeOK
  PROVE  /\ line \in Seq(Text) /\ Len(line) \in Nat /\ Len(line) >= 2
         /\ length \in Nat
         /\ \A i \in 1..Len(line) : line[i] \in Text
<1>1. line \in Seq(Text) /\ length \in Nat
  BY VsockClientAssumption DEF VsockTypeOK
<1>2. \A i \in 1..Len(line) : line[i] \in Text
  BY <1>1, ElementOfSeq
<1>3. Len(line) \in Nat /\ Len(line) >= 2
  <2>1. PICK n \in 2..127 : n = Len(line)
    BY VsockClientAssumption DEF VsockTypeOK
  <2>2. n \in Nat /\ n >= 2
    OBVIOUS
  <2> QED
    BY <2>1, <2>2
<1> QED
  BY <1>1, <1>2, <1>3, Zenon

\* ReadLength reads the length or something the cap refuses.
LEMMA ReadLengthIsRight ==
  ASSUME VsockInv, ReadLength
  PROVE  /\ stage' \in {"failed", "body"}
         /\ stage' = "body" => consumed' = BodyStart /\ respLen' = length
         /\ consumed' \in Nat /\ consumed' <= arrived /\ respLen' \in Nat
<1> DEFINE B(i) == StreamByte(consumed + i)
<1>1. /\ stage = "length" /\ consumed \in Nat /\ arrived \in Nat
      /\ 2 <= consumed /\ consumed <= Len(line) /\ arrived - consumed >= 4
      /\ consumed' = consumed + 4
      /\ respLen' = Uint32(B(1), B(2), B(3), B(4))
      /\ stage' = IF respLen' > MaxResponse THEN "failed" ELSE "body"
  BY DEF VsockInv, StreamInv, Requesting, VsockTypeOK, ReadLength, Goto
<1>2. /\ line \in Seq(Text) /\ Len(line) \in Nat /\ length \in Nat
      /\ \A i \in 1..Len(line) : line[i] \in Text
  BY GuestTypes DEF VsockInv
<1>3. \A i \in 1..4 : B(i) \in Nat
  <2> SUFFICES ASSUME NEW i \in 1..4
               PROVE  B(i) \in Nat
    OBVIOUS
  <2>1. CASE consumed + i <= Len(line)
    <3>1. consumed + i \in 1..Len(line)
      BY <1>1, <1>2, <2>1
    <3>2. line[consumed + i] \in Text
      BY <1>2, <3>1
    <3>3. B(i) = line[consumed + i]
      BY <2>1 DEF StreamByte
    <3>4. \A t \in Text : t \in Nat
      BY DEF Text
    <3> QED
      BY <3>2, <3>3, <3>4
  <2>2. CASE consumed + i > Len(line)
    <3>1. consumed + i - Len(line) \in 1..4
      BY <1>1, <1>2, <2>2
    <3>2. B(i) = BigEndian(length)[consumed + i - Len(line)]
      BY <1>1, <1>2, <2>2 DEF StreamByte
    <3> QED
      BY <1>2, <3>1, <3>2, LengthBytes
  <2> QED
    BY <1>1, <1>2, <2>1, <2>2
<1>4. respLen' \in Nat
  <2>1. ASSUME NEW a \in Nat, NEW b \in Nat, NEW c \in Nat, NEW d \in Nat
        PROVE  Uint32(a, b, c, d) \in Nat
    BY DEF Uint32, K
  <2>2. B(1) \in Nat /\ B(2) \in Nat /\ B(3) \in Nat /\ B(4) \in Nat
    BY <1>3
  <2> HIDE DEF B
  <2> QED
    BY <1>1, <2>1, <2>2
<1>5. CASE consumed < Len(line)
  <2>1. B(1) \in Text
    BY <1>1, <1>2, <1>5 DEF StreamByte
  <2>2. respLen' > MaxResponse
    BY <1>1, <1>3, <2>1, TextIsNoLength
  <2> QED
    BY <1>1, <1>4, <2>2
<1>6. CASE consumed = Len(line)
  <2>1. \A i \in 1..4 : B(i) = BigEndian(length)[i]
    BY <1>1, <1>2, <1>6 DEF StreamByte
  <2>2. respLen' = length
    <3> HIDE DEF B
    <3>1. respLen' = Uint32(BigEndian(length)[1], BigEndian(length)[2],
                            BigEndian(length)[3], BigEndian(length)[4])
      BY <1>1, <2>1
    <3> QED
      BY <1>2, <3>1, LengthRoundTrip
  <2> QED
    BY <1>1, <1>4, <1>6, <2>2 DEF BodyStart
<1> QED
  BY <1>1, <1>2, <1>5, <1>6

-----------------------------------------------------------------------------
(* The call of the client.                                                 *)

LEMMA InitVsock == VsockInit => VsockInv
<1> SUFFICES ASSUME VsockInit
             PROVE  VsockInv
  OBVIOUS
<1>1. VsockTypeOK
  BY DEF VsockInit, VsockTypeOK
<1> QED
  BY <1>1, GuestTypes
     DEF VsockInit, VsockInv, StreamInv, Handshaken, Accepted, Requesting, Bounded,
        FramingIsRight, GenuineResponse

LEMMA NextVsock == VsockInv /\ [VsockNext]_vsockVars => VsockInv'
<1> SUFFICES ASSUME VsockInv, [VsockNext]_vsockVars
             PROVE  VsockInv'
  OBVIOUS
<1> USE DEF Open, Ended
<1>1. VsockTypeOK /\ Len(line) \in Nat /\ Len(line) >= 2 /\ length \in Nat
      /\ arrived \in Nat /\ consumed \in Nat /\ respLen \in Nat
  BY GuestTypes DEF VsockInv, VsockTypeOK
<1>2. /\ consumed <= arrived
      /\ Handshaken /\ Accepted /\ Requesting /\ Bounded /\ FramingIsRight /\ GenuineResponse
  BY DEF VsockInv, StreamInv
<1>3. guestVars' = guestVars
  BY DEF VsockNext, ClientStep, PeerStep, Connect, ConnectFails, ReadHandshake, SendRequest,
         ReadLength, ReadBody, ExchangeFails, Deadline, Goto, Arrive, Close, vsockVars
<1>4. /\ op' = op /\ line' = line /\ length' = length /\ answer' = answer
      /\ Accepts(line)' = Accepts(line)
      /\ BodyStart' = BodyStart /\ StreamEnd' = StreamEnd
      /\ Len(line') = Len(line)
  BY <1>3 DEF guestVars, Accepts, BodyStart, StreamEnd
<1>5. ASSUME stage' = "failed", UNCHANGED <<arrived, closed>>,
             consumed' \in Nat, respLen' \in Nat, consumed' <= arrived
      PROVE  VsockInv'
  BY <1>1, <1>4, <1>5
     DEF VsockInv, VsockTypeOK, StreamInv, Handshaken, Accepted, Requesting, Bounded,
        FramingIsRight, GenuineResponse
<1>6. CASE ConnectFails \/ ExchangeFails \/ Deadline
  BY <1>1, <1>2, <1>5, <1>6 DEF ConnectFails, ExchangeFails, Deadline, Goto
<1>7. CASE Connect
  BY <1>1, <1>2, <1>4, <1>7
     DEF Connect, Goto, VsockInv, VsockTypeOK, StreamInv, Handshaken, Accepted,
        Requesting, Bounded, FramingIsRight, GenuineResponse
<1>8. CASE ReadHandshake
  <2>1. /\ stage = "handshake" /\ arrived <= Len(line) /\ consumed' = arrived
        /\ UNCHANGED <<arrived, closed, respLen>>
        /\ stage' = IF arrived < 2 \/ ~Accepts(line) THEN "failed"
                    ELSE IF op = "Ping" THEN "done" ELSE "request"
    BY <1>2, <1>8 DEF ReadHandshake, Goto, Handshaken
  <2>2. CASE arrived < 2 \/ ~Accepts(line)
    BY <1>1, <1>5, <2>1, <2>2
  <2>3. CASE ~(arrived < 2 \/ ~Accepts(line))
    BY <1>1, <1>4, <2>1, <2>3
       DEF VsockInv, VsockTypeOK, StreamInv, Handshaken, Accepted, Requesting, Bounded,
           FramingIsRight, GenuineResponse
  <2> QED
    BY <2>2, <2>3
<1>9. CASE SendRequest
  <2>1. arrived <= StreamEnd
    BY <1>1, <1>2, <1>9 DEF SendRequest, Bounded, StreamEnd, BodyStart
  <2> QED
    BY <1>1, <1>2, <1>4, <1>9, <2>1
       DEF SendRequest, Goto, VsockInv, VsockTypeOK, StreamInv, Handshaken, Accepted,
          Requesting, Bounded, FramingIsRight, GenuineResponse
<1>10. CASE ReadLength
  <2>1. /\ stage' \in {"failed", "body"}
        /\ stage' = "body" => consumed' = BodyStart /\ respLen' = length
        /\ consumed' \in Nat /\ consumed' <= arrived /\ respLen' \in Nat
    BY <1>10, ReadLengthIsRight
  <2>2. stage = "length" /\ UNCHANGED <<arrived, closed>>
    BY <1>10 DEF ReadLength, Goto
  <2>3. op = "Execute" /\ Accepts(line) /\ arrived <= StreamEnd
    BY <1>2, <2>2 DEF Accepted, Bounded
  <2> QED
    BY <1>1, <1>4, <1>5, <2>1, <2>2, <2>3
       DEF VsockInv, VsockTypeOK, StreamInv, Handshaken, Accepted, Requesting, Bounded,
           FramingIsRight, GenuineResponse
<1>11. CASE ReadBody
  <2>1. /\ stage = "body" /\ stage' \in {"failed", "done"}
        /\ arrived - consumed >= respLen /\ consumed' = consumed + respLen
        /\ UNCHANGED <<arrived, closed, respLen>>
    BY <1>11 DEF ReadBody, Goto
  <2>2. /\ consumed = BodyStart /\ respLen = length /\ arrived <= StreamEnd
        /\ op = "Execute" /\ Accepts(line)
    BY <1>2, <2>1 DEF FramingIsRight, Bounded, Accepted
  <2>3. consumed' = StreamEnd /\ arrived = StreamEnd /\ StreamEnd \in Nat
    BY <1>1, <2>1, <2>2 DEF StreamEnd, BodyStart
  <2> QED
    BY <1>1, <1>4, <2>1, <2>2, <2>3
       DEF VsockInv, VsockTypeOK, StreamInv, Handshaken, Accepted, Requesting, Bounded,
           FramingIsRight, GenuineResponse
<1>12. CASE \E n \in Cuts : Arrive(n)
  <2>1. PICK n \in Cuts : Arrive(n)
    BY <1>12
  <2>2. /\ n \in Nat /\ arrived < n /\ arrived' = n /\ n <= Written
        /\ stage \in Open /\ UNCHANGED <<stage, consumed, respLen, closed>>
    BY <2>1, VsockClientAssumption DEF Arrive
  <2>3. /\ Written \in Nat /\ StreamEnd \in Nat /\ Written <= StreamEnd
        /\ stage \in {"handshake", "request"} => Written = Len(line)
    BY <1>1 DEF Written, StreamEnd, BodyStart
  <2>4. /\ n <= StreamEnd /\ StreamEnd \in Nat
        /\ stage \in {"handshake", "request"} => n <= Len(line)
    BY <1>1, <2>2, <2>3 DEF StreamEnd, BodyStart
  <2> QED
    BY <1>1, <1>2, <1>4, <2>2, <2>4
       DEF VsockInv, VsockTypeOK, StreamInv, Handshaken, Accepted, Requesting, Bounded,
           FramingIsRight, GenuineResponse
<1>13. CASE Close \/ UNCHANGED vsockVars
  BY <1>1, <1>2, <1>4, <1>13
     DEF Close, vsockVars, VsockInv, VsockTypeOK, StreamInv, Handshaken, Accepted,
        Requesting, Bounded, FramingIsRight, GenuineResponse
<1> QED
  BY <1>6, <1>7, <1>8, <1>9, <1>10, <1>11, <1>12, <1>13 DEF VsockNext, ClientStep, PeerStep

\* The client, by itself: it never takes a part of the line for a length, and what
\* it returns is what the guest has written.
THEOREM FramingHolds == VsockSpec => []FramingIsRight
<1>1. VsockInv => FramingIsRight
  BY DEF VsockInv, StreamInv
<1> QED
  BY <1>1, InitVsock, NextVsock, PTL DEF VsockSpec

THEOREM ResponsesAreGenuine == VsockSpec => []GenuineResponse
<1>1. VsockInv => GenuineResponse
  BY DEF VsockInv, StreamInv
<1> QED
  BY <1>1, InitVsock, NextVsock, PTL DEF VsockSpec

-----------------------------------------------------------------------------
(* The service.                                                            *)

\* A request is executed only as a language the sanitizer has let its code pass in.
Vetted ==
  executed # NoLanguage => executed \in Languages /\ SanitizeCode(code, executed) = "fine"

Progress ==
  /\ step \in {"received", "queued", "executing", "responded", "pinging"}
  /\ op = "Execute" <=> step # "pinging"
  /\ step \in {"queued", "executing"} => executed # NoLanguage
  /\ code \in Codes
  /\ length = 0 => answer = "malformed"
  /\ step # "responded" => ~response.Success

ServiceInv == VsockInv /\ Vetted /\ Progress /\ SuccessIsGenuine

LEMMA InitService == ServiceInit => ServiceInv
<1> SUFFICES ASSUME ServiceInit
             PROVE  ServiceInv
  OBVIOUS
<1>1. VsockInv
  BY InitVsock DEF ServiceInit
<1>2. Vetted
  BY DEF ServiceInit, Vetted
<1>3. Progress /\ SuccessIsGenuine
  BY DEF ServiceInit, VsockInit, Progress, NoResponse, SuccessIsGenuine
<1> QED
  BY <1>1, <1>2, <1>3 DEF ServiceInv

\* A response that does not report a success.
LEMMA RespondFailure ==
  ASSUME ServiceInv, step # "pinging", NEW message, Respond(FALSE, message)
  PROVE  ServiceInv'
<1>1. VsockInv'
  BY NextVsock DEF ServiceInv, Respond
<1>2. UNCHANGED <<name, code, executed, vsockVars>> /\ step' = "responded" /\ ~response'.Success
  BY DEF Respond
<1>3. Vetted'
  BY <1>2 DEF ServiceInv, Vetted, SanitizeCode, hasMatchingPattern
<1>4. Progress' /\ SuccessIsGenuine'
  BY <1>2 DEF ServiceInv, Progress, SuccessIsGenuine, vsockVars, guestVars
<1> QED
  BY <1>1, <1>3, <1>4 DEF ServiceInv

LEMMA NextService == ServiceInv /\ [ServiceNext]_serviceVars => ServiceInv'
<1> SUFFICES ASSUME ServiceInv, [ServiceNext]_serviceVars
             PROVE  ServiceInv'
  OBVIOUS
<1>1. CASE DecodeFails \/ Refuse \/ QueueFull \/ ExecuteJobFails
  BY <1>1, RespondFailure DEF DecodeFails, Refuse, QueueFull, ExecuteJobFails
<1>2. CASE Submit
  <2>1. /\ step = "received" /\ step' = "queued" /\ executed' = normalizeLanguage(name)
        /\ SanitizeCode(code, normalizeLanguage(name)) = "fine"
        /\ UNCHANGED <<name, code, response, vsockVars>>
    BY <1>2 DEF Submit
  <2>2. normalizeLanguage(name) \in Languages
    BY <2>1 DEF SanitizeCode
  <2>3. NoLanguage \notin Languages
    BY DEF NoLanguage, Languages, DangerousPatterns
  <2>4. VsockInv'
    BY <2>1, NextVsock DEF ServiceInv
  <2>5. Vetted'
    BY <2>1, <2>2 DEF Vetted, SanitizeCode, hasMatchingPattern
  <2>6. Progress' /\ SuccessIsGenuine'
    BY <2>1, <2>2, <2>3 DEF ServiceInv, Progress, SuccessIsGenuine, vsockVars, guestVars
  <2> QED
    BY <2>4, <2>5, <2>6 DEF ServiceInv
<1>3. CASE Exchange
  <2>1. step \in {"executing", "pinging"} /\ UNCHANGED requestVars
    BY <1>3 DEF Exchange
  <2>2. VsockInv'
    BY <1>3, NextVsock DEF ServiceInv, Exchange
  <2>3. UNCHANGED guestVars
    BY <1>3
       DEF Exchange, VsockNext, ClientStep, PeerStep, Connect, ConnectFails, ReadHandshake,
           SendRequest, ReadLength, ReadBody, ExchangeFails, Deadline, Goto, Arrive, Close
  <2>4. Vetted'
    BY <2>1 DEF ServiceInv, Vetted, SanitizeCode, hasMatchingPattern, requestVars
  <2>5. Progress' /\ SuccessIsGenuine'
    BY <2>1, <2>3 DEF ServiceInv, Progress, SuccessIsGenuine, requestVars, guestVars
  <2> QED
    BY <2>2, <2>4, <2>5 DEF ServiceInv
<1>4. CASE ExecuteJobReturns
  <2>1. CASE ~(stage = "done" /\ answer = "success")
    BY <1>4, <2>1, RespondFailure DEF ExecuteJobReturns
  <2>2. CASE stage = "done" /\ answer = "success"
    <3>1. /\ step = "executing" /\ step' = "responded" /\ response'.Success
          /\ UNCHANGED <<name, code, executed, vsockVars>>
      BY <1>4, <2>2 DEF ExecuteJobReturns, Respond
    <3>2. VsockInv'
      BY <3>1, NextVsock DEF ServiceInv
    <3>3. Vetted'
      BY <3>1 DEF ServiceInv, Vetted, SanitizeCode, hasMatchingPattern
    <3>4. length \in Nat /\ length # 0 /\ consumed = StreamEnd /\ executed # NoLanguage
      <4>1. length \in Nat
        BY GuestTypes DEF ServiceInv, VsockInv
      <4>2. op = "Execute" /\ length # 0 /\ executed # NoLanguage
        BY <2>2, <3>1 DEF ServiceInv, Progress
      <4> QED
        BY <2>2, <4>1, <4>2 DEF ServiceInv, VsockInv, StreamInv, GenuineResponse
    <3>5. StreamEnd' = StreamEnd /\ UNCHANGED <<consumed, length, answer, executed>>
      BY <3>1 DEF StreamEnd, BodyStart, vsockVars, guestVars
    <3>6. SuccessIsGenuine'
      BY <2>2, <3>4, <3>5 DEF SuccessIsGenuine
    <3>7. Progress'
      BY <3>1 DEF ServiceInv, Progress, vsockVars, guestVars
    <3> QED
      BY <3>2, <3>3, <3>6, <3>7 DEF ServiceInv
  <2> QED
    BY <2>1, <2>2
<1>5. CASE UNCHANGED serviceVars
  <2>1. UNCHANGED <<requestVars, vsockVars>>
    BY <1>5 DEF serviceVars
  <2>2. VsockInv'
    BY <2>1, NextVsock DEF ServiceInv
  <2>3. Vetted' /\ Progress' /\ SuccessIsGenuine'
    BY <2>1
       DEF ServiceInv, Vetted, Progress, SuccessIsGenuine, SanitizeCode, hasMatchingPattern,
           StreamEnd, BodyStart, requestVars, vsockVars, guestVars
  <2> QED
    BY <2>2, <2>3 DEF ServiceInv
<1>6. CASE TakeJob
  <2>1. /\ step = "queued" /\ step' = "executing"
        /\ UNCHANGED <<name, code, executed, response, vsockVars>>
    BY <1>6 DEF TakeJob
  <2>2. VsockInv'
    BY <2>1, NextVsock DEF ServiceInv
  <2>3. Vetted' /\ Progress' /\ SuccessIsGenuine'
    BY <2>1
       DEF ServiceInv, Vetted, Progress, SuccessIsGenuine, SanitizeCode, hasMatchingPattern,
           vsockVars, guestVars
  <2> QED
    BY <2>2, <2>3 DEF ServiceInv
<1> QED
  BY <1>1, <1>2, <1>3, <1>4, <1>5, <1>6 DEF ServiceNext, ServiceStep

LEMMA ServiceInvariant == ServiceSpec => []ServiceInv
BY InitService, NextService, PTL DEF ServiceSpec

\* The same within a request.
THEOREM RequestFraming == ServiceSpec => []FramingIsRight
<1>1. ServiceInv => FramingIsRight
  BY DEF ServiceInv, VsockInv, StreamInv
<1> QED
  BY <1>1, ServiceInvariant, PTL

\* A success is reported only of a request that was vetted and answered in full.
THEOREM SuccessesAreGenuine == ServiceSpec => []SuccessIsGenuine
<1>1. ServiceInv => SuccessIsGenuine
  BY DEF ServiceInv
<1> QED
  BY <1>1, ServiceInvariant, PTL

\* Code that is executed has passed the patterns of the language it is executed
\* as, for any names of languages and whatever substrings they contain.
THEOREM ExecutedCodeIsVetted == ServiceSpec => []VettedAsExecuted
<1>1. ASSUME ServiceInv
      PROVE  VettedAsExecuted
  <2> SUFFICES ASSUME executed # NoLanguage
               PROVE  /\ executed \in DOMAIN languageConfigs
                      /\ code.length <= MaxCodeLength
                      /\ \A t \in {"common", executed}, c \in code.matches : c[1] # t
    BY DEF VettedAsExecuted
  <2>1. executed \in Languages /\ SanitizeCode(code, executed) = "fine" /\ code \in Code
    BY <1>1, CompilerServiceAssumption DEF ServiceInv, Vetted, Progress
  <2>2. executed \in DOMAIN languageConfigs
    BY <2>1 DEF Languages, DangerousPatterns, languageConfigs
  <2>3. code.length <= MaxCodeLength
    BY <2>1 DEF SanitizeCode, Code, MaxCodeLength
  <2>4. ~hasMatchingPattern(code, "common") /\ ~hasMatchingPattern(code, executed)
    BY <2>1 DEF SanitizeCode
  <2>5. ASSUME NEW c \in code.matches
        PROVE  /\ c[1] \in DOMAIN DangerousPatterns
               /\ \E category \in DangerousPatterns[c[1]] : c = <<c[1], category>>
    <3>1. c \in Categories
      BY <2>1 DEF Code
    <3>2. PICK t \in DOMAIN DangerousPatterns : c \in {t} \X DangerousPatterns[t]
      BY <3>1 DEF Categories
    <3> HIDE DEF DangerousPatterns
    <3> QED
      BY <3>2
  <2>6. ASSUME NEW t \in {"common", executed}, NEW c \in code.matches
        PROVE  c[1] # t
    BY <2>4, <2>5, <2>6 DEF hasMatchingPattern
  <2> QED
    BY <2>2, <2>3, <2>6
<1> QED
  BY <1>1, ServiceInvariant, PTL

-----------------------------------------------------------------------------
(* What ends up happening, with RequestMoves, which TLC checks, as an      *)
(* assumption: the provers do not know what ENABLED means.                 *)

Received == step = "received"
Queued == step = "queued"
Responded == step = "responded"
Executing(s) == step = "executing" /\ stage = s

\* The client goes forward from stage to stage, and does not stay where it is.
LEMMA ClientStages ==
  ASSUME ServiceInv, Exchange, step = "executing"
  PROVE  /\ step' = "executing"
         /\ stage = "dial" => stage' \in {"dial", "handshake", "failed"}
         /\ stage = "handshake" => stage' \in {"handshake", "request", "failed"}
         /\ stage = "request" => stage' \in {"request", "length", "failed"}
         /\ stage = "length" => stage' \in {"length", "body", "failed"}
         /\ stage = "body" => stage' \in {"body", "done", "failed"}
         /\ stage \in Ended => stage' = stage
         /\ ClientStep => stage' # stage
<1>1. op = "Execute" /\ UNCHANGED requestVars /\ (ClientStep \/ PeerStep)
  BY DEF Exchange, VsockNext, ServiceInv, Progress
<1>2. CASE ClientStep
  BY <1>1, <1>2 DEF ClientStep, Connect, ConnectFails, ReadHandshake, SendRequest,
     ReadLength, ReadBody, ExchangeFails, Deadline, Goto, Ended, requestVars
<1>3. CASE PeerStep
  <2>1. stage' = stage /\ stage \in Open
    BY <1>3 DEF PeerStep, Close, Arrive
  <2>2. ~ClientStep
    BY <1>3, <2>1 DEF ClientStep, Connect, ConnectFails, ReadHandshake, SendRequest,
       ReadLength, ReadBody, ExchangeFails, Deadline, Goto
  <2> QED
    BY <1>1, <2>1, <2>2 DEF Open, Ended, requestVars
<1> QED
  BY <1>1, <1>2, <1>3

\* So does the request.
LEMMA RequestStages ==
  ASSUME ServiceInv, [ServiceNext]_serviceVars
  PROVE  /\ Received => Received' \/ Responded' \/ Queued'
         /\ Queued => Queued' \/ (step = "executing")'
         /\ Executing("dial") => \/ Executing("dial")' \/ Executing("handshake")'
                                \/ Executing("failed")' \/ Responded'
         /\ Executing("handshake") => \/ Executing("handshake")' \/ Executing("request")'
                                     \/ Executing("failed")'
         /\ Executing("request") => \/ Executing("request")' \/ Executing("length")'
                                   \/ Executing("failed")'
         /\ Executing("length") => \/ Executing("length")' \/ Executing("body")'
                                  \/ Executing("failed")'
         /\ Executing("body") => \/ Executing("body")' \/ Executing("done")'
                                \/ Executing("failed")'
         /\ Executing("done") => Executing("done")' \/ Responded'
         /\ Executing("failed") => Executing("failed")' \/ Responded'
<1>1. CASE ServiceStep
  BY <1>1 DEF ServiceStep, DecodeFails, Refuse, Submit, QueueFull, ExecuteJobFails,
     ExecuteJobReturns, Respond, Received, Queued, Responded, Executing, Ended
<1>2. CASE Exchange /\ step = "executing"
  BY <1>2, ClientStages DEF Executing, Received, Queued, Ended
<1>3. CASE Exchange /\ step # "executing"
  BY <1>3 DEF Exchange, Executing, Received, Queued
<1>4. CASE UNCHANGED serviceVars
  BY <1>4 DEF serviceVars, requestVars, vsockVars, Received, Queued, Responded, Executing
<1>5. CASE TakeJob
  BY <1>5 DEF TakeJob, Received, Queued, Executing
<1> QED
  BY <1>1, <1>2, <1>3, <1>4, <1>5 DEF ServiceNext

LEMMA RequestProgress ==
  /\ Received /\ <<ServiceStep>>_serviceVars => ~Received'
  /\ \A s \in Ended : Executing(s) /\ <<ServiceStep>>_serviceVars => Responded'
  /\ \A s \in {"dial", "request", "length", "body"} :
       ServiceInv /\ Executing(s) /\ <<ClientExchange>>_serviceVars => ~Executing(s)'
<1>1. Received /\ ServiceStep => ~Received'
  BY DEF ServiceStep, DecodeFails, Refuse, Submit, QueueFull, ExecuteJobFails,
     ExecuteJobReturns, Respond, Received
<1>2. ASSUME NEW s \in Ended, Executing(s), ServiceStep
      PROVE  Responded'
  BY <1>2 DEF ServiceStep, DecodeFails, Refuse, Submit, QueueFull, ExecuteJobFails,
     ExecuteJobReturns, Respond, Responded, Executing, Ended
<1>3. ASSUME NEW s \in {"dial", "request", "length", "body"}, ServiceInv, Executing(s), ClientExchange
      PROVE  ~Executing(s)'
  BY <1>3, ClientStages DEF ClientExchange, Executing
<1> QED
  BY <1>1, <1>2, <1>3

\* A request is responded to, whatever the other side does, unless no worker ever
\* takes its job or the response to CONNECT never comes.
THEOREM RequestsEndOrHang == ServiceFairSpec /\ []RequestMoves => RequestEndsOrHangs
<1>1. RequestMoves
      => /\ Received => ENABLED <<ServiceStep>>_serviceVars
         /\ Executing("done") \/ Executing("failed") => ENABLED <<ServiceStep>>_serviceVars
         /\ Executing("dial") \/ Executing("request") \/ Executing("length") \/ Executing("body")
              => ENABLED <<ClientExchange>>_serviceVars
  BY DEF RequestMoves, Received, Executing, Ended
<1>2. ServiceInv /\ [ServiceNext]_serviceVars
      => /\ Received => Received' \/ Responded' \/ Queued'
         /\ Queued => Queued' \/ (step = "executing")'
         /\ Executing("dial") => \/ Executing("dial")' \/ Executing("handshake")'
                                \/ Executing("failed")' \/ Responded'
         /\ Executing("handshake") => \/ Executing("handshake")' \/ Executing("request")'
                                     \/ Executing("failed")'
         /\ Executing("request") => \/ Executing("request")' \/ Executing("length")'
                                   \/ Executing("failed")'
         /\ Executing("length") => \/ Executing("length")' \/ Executing("body")'
                                  \/ Executing("failed")'
         /\ Executing("body") => \/ Executing("body")' \/ Executing("done")'
                                \/ Executing("failed")'
         /\ Executing("done") => Executing("done")' \/ Responded'
         /\ Executing("failed") => Executing("failed")' \/ Responded'
  BY RequestStages
<1>3. /\ Received /\ <<ServiceStep>>_serviceVars => ~Received'
      /\ Executing("done") /\ <<ServiceStep>>_serviceVars => Responded'
      /\ Executing("failed") /\ <<ServiceStep>>_serviceVars => Responded'
      /\ ServiceInv /\ Executing("dial") /\ <<ClientExchange>>_serviceVars => ~Executing("dial")'
      /\ ServiceInv /\ Executing("request") /\ <<ClientExchange>>_serviceVars => ~Executing("request")'
      /\ ServiceInv /\ Executing("length") /\ <<ClientExchange>>_serviceVars => ~Executing("length")'
      /\ ServiceInv /\ Executing("body") /\ <<ClientExchange>>_serviceVars => ~Executing("body")'
  BY RequestProgress DEF Ended
<1>4. ServiceInv /\ step = "executing"
      => \/ Executing("dial") \/ Executing("handshake") \/ Executing("request")
         \/ Executing("length") \/ Executing("body") \/ Executing("done") \/ Executing("failed")
  BY DEF ServiceInv, VsockInv, VsockTypeOK, Open, Ended, Executing
<1>5. Executing("handshake") => stage = "handshake"
  BY DEF Executing
<1> QED
  BY <1>1, <1>2, <1>3, <1>4, <1>5, ServiceInvariant, PTL
     DEF ServiceFairSpec, ServiceSpec, ServiceFairness, RequestEndsOrHangs, Received,
        Queued, Responded

=============================================================================
