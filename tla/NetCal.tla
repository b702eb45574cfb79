------------------------------- MODULE NetCal -------------------------------
(***************************************************************************)
(* One connection of the network calculator src/NetCal: the framing of     *)
(* requests and responses over a byte stream (Protocol.hpp), the server's  *)
(* loop GetRequest, the calculation (NetCal.hpp), and the client's round   *)
(* of TcpClient.cc with GetResponse.                                       *)
(*                                                                         *)
(* The stream delivers what was sent in pieces of any size, one piece per  *)
(* Recv.  The peer is either the project's client, which waits for the     *)
(* answer to one request before it sends the next, or a foreign one that   *)
(* sends when it likes: requests whose operator is no char, bodies that    *)
(* are no requests, and a packet whose header is no length.                *)
(*                                                                         *)
(* A header that is a negative number is left out; one that is too large   *)
(* for stoi ends the server like one that is no number.                    *)
(***************************************************************************)
EXTENDS Integers, Sequences, SequencesExt, FiniteSetsExt

CONSTANTS Half,       \* half the number of ints: 2^31
          Radix,      \* base of the length in a header: 10
          Requests,   \* the requests that may be sent
          Garbage,    \* bodies that Deserialize rejects
          Mistyped,   \* JSON in which x, y or oper is no int
          BadHeaders, \* headers from which stoi reads no number
          MaxAsked    \* bound: number of messages a peer sends

IntMin == -Half
IntMax == Half - 1
Ints   == IntMin..IntMax

(* Characters.  A digit of a length is its value, which is less than LF.   *)
LF == 10
CR == 13
Percent == 37
Times == 42
Plus == 43
Minus == 45
Slash == 47

Chars == 256    \* the number of values of a char

(* stoi finds a number at the beginning of digits.                         *)
IsNumeral(digits) == digits # <<>> /\ digits[1] < Radix

ASSUME NetCalAssumption ==
    /\ Half \in Nat \ {0} /\ Radix \in 2..LF /\ MaxAsked \in Nat
    /\ Requests \subseteq [x : Ints, y : Ints, oper : Nat]
    /\ Garbage \subseteq Seq(Nat) /\ Mistyped \subseteq Seq(Nat)
    /\ BadHeaders \subseteq Seq(Nat)
    /\ \A h \in BadHeaders : ~IsNumeral(h) /\ \A i \in 1..Len(h) : h[i] # CR

VARIABLES
    foreign,    \* whether the peer is not the project's client
    cpc,        \* where the peer is: at its input, in GetResponse, gone
    up,         \* bytes on their way to the server
    down,       \* bytes on their way to the peer
    resp_buff,  \* resp_buff of TcpClient's main
    spc,        \* where the server is: in Recv, in the Decode loop, closed
    inbuffer,   \* inbuffer of GetRequest
    broken,     \* the packet with a bad header, once it is sent behind the others
    asked,      \* history: bodies sent by the peer
    taken,      \* history: how many of them the server has dealt with
    answered,   \* history: responses sent by the server
    shown       \* history: responses shown to the user

peerVars   == <<foreign, cpc, resp_buff, broken, shown>>
serverVars == <<spc, inbuffer, taken, answered>>
vars == <<foreign, cpc, up, down, resp_buff, spc, inbuffer, broken, asked, taken,
          answered, shown>>

-----------------------------------------------------------------------------
(* Serialization.  A number takes one place, and one more for its sign;    *)
(* what stands for its digits is no character.                             *)
Digits(n) == n + 256
Number(n) == IF n < 0 THEN <<Minus, Digits(-n)>> ELSE <<Digits(n)>>

RequestBody(r)  == <<r.oper>> \o Number(r.x) \o Number(r.y) \o <<LF>>
ResponseBody(a) == Number(a.result) \o Number(a.code) \o <<LF>>

Responses == [result : Ints, code : 0..3]

(* Deserialize keeps the low bits of the operator, which is a char.        *)
ParseRequest(body) ==
    LET r == CHOOSE q \in Requests : body = RequestBody(q)
    IN  [r EXCEPT !.oper = @ % Chars]

RequestBodies       == {RequestBody(r) : r \in Requests}
IsRequest(body)     == body \in RequestBodies
ParseResponse(body) == CHOOSE a \in Responses : body = ResponseBody(a)

-----------------------------------------------------------------------------
(* Protocol::Encode and Protocol::Decode.                                  *)
sep == <<CR, LF>>

to_string[n \in Nat] ==
    IF n < Radix THEN <<n>> ELSE Append(to_string[n \div Radix], n % Radix)
stoi(digits) ==
    LET value[i \in 0..Len(digits)] ==
            IF i = 0 THEN 0 ELSE value[i - 1] * Radix + digits[i]
    IN  value[Len(digits)]

Encode(body) == to_string[Len(body)] \o sep \o body \o sep

Separators(buffer) == {i \in 1..(Len(buffer) - 1) : buffer[i] = CR /\ buffer[i + 1] = LF}
HeaderSize(buffer) == Min(Separators(buffer)) - 1
Header(buffer)     == SubSeq(buffer, 1, HeaderSize(buffer))
BodySize(buffer)   == stoi(Header(buffer))

(* A header that is no number: stoi throws, and nobody catches.            *)
StoiThrows(buffer) == Separators(buffer) # {} /\ ~IsNumeral(Header(buffer))

TargetLenOneSep(buffer) == HeaderSize(buffer) + BodySize(buffer) + Len(sep)
target_len(buffer) == HeaderSize(buffer) + BodySize(buffer) + 2 * Len(sep)

(* Decode returns true, and then moves Package out of the buffer.          *)
CompleteIfLonger(buffer) ==
    /\ Separators(buffer) # {} /\ IsNumeral(Header(buffer))
    /\ Len(buffer) > target_len(buffer)
Complete(buffer) ==
    /\ Separators(buffer) # {} /\ IsNumeral(Header(buffer))
    /\ Len(buffer) >= target_len(buffer)
Package(buffer)  == SubSeq(buffer, HeaderSize(buffer) + Len(sep) + 1,
                           HeaderSize(buffer) + Len(sep) + BodySize(buffer))
Erased(buffer)   == SubSeq(buffer, target_len(buffer) + 1, Len(buffer))

-----------------------------------------------------------------------------
(* Cal::Execute.  The build keeps the low bits of a sum, a difference or a *)
(* product; the quotient and the remainder of the least int by -1 trap.    *)
Unwrapped(n) == n
Wrap(n) == ((n - IntMin) % (2 * Half)) + IntMin
Magnitude(n) == IF n < 0 THEN -n ELSE n
FlooredQuotient(x, y) == IF y < 0 THEN (-x) \div (-y) ELSE x \div y
Quotient(x, y) == LET q == Magnitude(x) \div Magnitude(y)
                  IN  IF (x < 0) = (y < 0) THEN q ELSE -q

Traps(r) == r.oper \in {Slash, Percent} /\ r.x = IntMin /\ r.y = -1

Success(n) == [result |-> n, code |-> 0]
Failure(c) == [result |-> 0, code |-> c]

Execute(r) ==
    CASE r.oper = Plus    -> Success(Wrap(r.x + r.y))
      [] r.oper = Minus   -> Success(Wrap(r.x - r.y))
      [] r.oper = Times   -> Success(Wrap(r.x * r.y))
      [] r.oper = Slash   -> IF r.y = 0 THEN Failure(1) ELSE Success(Quotient(r.x, r.y))
      [] r.oper = Percent -> IF r.y = 0 THEN Failure(2)
                             ELSE Success(r.x - r.y * Quotient(r.x, r.y))
      [] OTHER            -> Failure(3)

-----------------------------------------------------------------------------
Init == /\ foreign \in BOOLEAN
        /\ cpc = "input"
        /\ up = <<>>
        /\ down = <<>>
        /\ resp_buff = <<>>
        /\ spc = "recv"
        /\ inbuffer = <<>>
        /\ broken = <<>>
        /\ asked = <<>>
        /\ taken = 0
        /\ answered = <<>>
        /\ shown = <<>>

(* A Recv takes some of the bytes that have arrived.                       *)
Piece(stream, n) == SubSeq(stream, 1, n)
Rest(stream, n)  == SubSeq(stream, n + 1, Len(stream))

(* The peer.  What it sends to a connection that the server has closed     *)
(* reaches nobody and is left out.                                         *)
Send(body) ==
    /\ cpc = "input" /\ spc # "closed" /\ broken = <<>>
    /\ Len(asked) < MaxAsked
    /\ up' = up \o Encode(body)
    /\ asked' = Append(asked, body)

(* TcpClient: a line of input, BuildRequestString, Send.  At the end of    *)
(* the input the variables are not set, and any request may be sent.       *)
SendRequest ==
    /\ ~foreign
    /\ \E r \in Requests : r.oper < Chars /\ Send(RequestBody(r))
    /\ cpc' = "wait"
    /\ UNCHANGED <<foreign, resp_buff, broken, shown, down, serverVars>>

(* GetResponse: one Recv, then one Decode.  The server's headers are       *)
(* numbers, and stoi does not throw here.                                  *)
GetResponse ==
    /\ ~foreign /\ cpc = "wait"
    /\ \E n \in 1..Len(down) :
         LET buffer == resp_buff \o Piece(down, n)
         IN  /\ down' = Rest(down, n)
             /\ \/ /\ ~Complete(buffer)
                   /\ resp_buff' = buffer
                   /\ UNCHANGED <<cpc, shown>>
                \/ /\ Complete(buffer)
                   /\ resp_buff' = Erased(buffer)
                   /\ shown' = Append(shown, ParseResponse(Package(buffer)))
                   /\ cpc' = "input"
    /\ UNCHANGED <<foreign, up, broken, asked, serverVars>>

(* GetResponse sees the end of the stream, and main leaves its loop.       *)
ServerQuit ==
    /\ ~foreign /\ cpc = "wait"
    /\ spc = "closed" /\ down = <<>>
    /\ cpc' = "gone"
    /\ UNCHANGED <<foreign, up, down, resp_buff, broken, asked, shown, serverVars>>

ForeignSend ==
    /\ foreign
    /\ \E r \in Requests : Send(RequestBody(r))
       \/ \E body \in Garbage \cup Mistyped : Send(body)
    /\ UNCHANGED <<peerVars, down, serverVars>>

(* A packet with a bad header.  What a peer sends behind it is not looked  *)
(* at any more, and is left out.                                           *)
ForeignBreak ==
    /\ foreign /\ cpc = "input" /\ spc # "closed"
    /\ broken = <<>> /\ Len(asked) < MaxAsked
    /\ \E h \in BadHeaders : broken' = h \o sep /\ up' = up \o broken'
    /\ UNCHANGED <<foreign, cpc, resp_buff, shown, down, asked, serverVars>>

ForeignReceive ==
    /\ foreign /\ down # <<>>
    /\ down' = <<>>
    /\ UNCHANGED <<peerVars, up, asked, serverVars>>

(* The peer's process ends, at any moment.                                 *)
Leave ==
    /\ cpc # "gone"
    /\ cpc' = "gone"
    /\ UNCHANGED <<foreign, up, down, resp_buff, broken, asked, shown, serverVars>>

-----------------------------------------------------------------------------
(* The server: GetRequest.                                                 *)
Recv ==
    /\ spc = "recv"
    /\ \E n \in 1..Len(up) : /\ inbuffer' = inbuffer \o Piece(up, n)
                             /\ up' = Rest(up, n)
    /\ spc' = "decode"
    /\ UNCHANGED <<peerVars, down, asked, taken, answered>>

(* Recv returns 0, or an error when the connection was reset, in which     *)
(* case bytes may be lost.                                                 *)
RecvEnd ==
    /\ spc = "recv" /\ cpc = "gone"
    /\ spc' = "closed"
    /\ UNCHANGED <<peerVars, up, down, asked, inbuffer, taken, answered>>

DecodeFails ==
    /\ spc = "decode" /\ ~Complete(inbuffer) /\ ~StoiThrows(inbuffer)
    /\ spc' = "recv"
    /\ UNCHANGED <<peerVars, up, down, asked, inbuffer, taken, answered>>

(* Deserialize returns false: the package is skipped.                      *)
Skip ==
    /\ spc = "decode" /\ Complete(inbuffer)
    /\ ~IsRequest(Package(inbuffer)) /\ Package(inbuffer) \notin Mistyped
    /\ inbuffer' = Erased(inbuffer)
    /\ taken' = taken + 1
    /\ UNCHANGED <<peerVars, up, down, asked, spc, answered>>

(* The request is executed and the response sent.  If the peer is gone the *)
(* bytes go nowhere, or SIGPIPE kills the process.                         *)
Answer ==
    /\ spc = "decode" /\ Complete(inbuffer) /\ IsRequest(Package(inbuffer))
    /\ LET r == ParseRequest(Package(inbuffer))
       IN  /\ ~Traps(r)
           /\ \/ /\ answered' = Append(answered, Execute(r))
                 /\ down' = down \o Encode(ResponseBody(Execute(r)))
                 /\ taken' = taken + 1
                 /\ spc' = "decode"
              \/ /\ cpc = "gone"
                 /\ spc' = "closed"
                 /\ UNCHANGED <<taken, answered, down>>
    /\ inbuffer' = Erased(inbuffer)
    /\ UNCHANGED <<peerVars, up, asked>>

(* The calculation raises SIGFPE, which ends the process.                  *)
Trap ==
    /\ spc = "decode" /\ Complete(inbuffer) /\ IsRequest(Package(inbuffer))
    /\ Traps(ParseRequest(Package(inbuffer)))
    /\ spc' = "closed"
    /\ UNCHANGED <<peerVars, up, down, asked, inbuffer, taken, answered>>

(* An exception that nobody catches: stoi's, or asInt's of a member that   *)
(* is no int.                                                              *)
Throw ==
    /\ spc = "decode"
    /\ \/ StoiThrows(inbuffer)
       \/ Complete(inbuffer) /\ Package(inbuffer) \in Mistyped
    /\ spc' = "closed"
    /\ UNCHANGED <<peerVars, up, down, asked, inbuffer, taken, answered>>

GetRequest == Recv \/ RecvEnd \/ DecodeFails \/ Skip \/ Answer \/ Trap \/ Throw

-----------------------------------------------------------------------------
Terminated == cpc = "gone" /\ spc = "closed" /\ UNCHANGED vars

Next == \/ SendRequest \/ GetResponse \/ ServerQuit
        \/ ForeignSend \/ ForeignBreak \/ ForeignReceive \/ Leave
        \/ GetRequest \/ Terminated

(* Both processes run and the connection delivers.  Nobody has to send.    *)
Fairness == WF_vars(GetRequest) /\ WF_vars(GetResponse) /\ WF_vars(ServerQuit)

Safety == Init /\ [][Next]_vars
Spec   == Safety /\ Fairness

-----------------------------------------------------------------------------
(* Properties.                                                             *)

Bodies == RequestBodies \cup Garbage \cup Mistyped
Broken == {h \o sep : h \in BadHeaders}

TypeOK ==
    /\ foreign \in BOOLEAN
    /\ cpc \in {"input", "wait", "gone"}
    /\ up \in Seq(Nat) /\ down \in Seq(Nat)
    /\ resp_buff \in Seq(Nat) /\ inbuffer \in Seq(Nat)
    /\ spc \in {"recv", "decode", "closed"}
    /\ broken \in Broken \cup {<<>>}
    /\ asked \in Seq(Bodies) /\ taken \in 0..Len(asked)
    /\ answered \in Seq(Responses) /\ shown \in Seq(Responses)

Packets(bodies) == FlattenSeq([i \in 1..Len(bodies) |-> Encode(bodies[i])])
From(s, k) == SubSeq(s, k + 1, Len(s))
ResponseBodies(answers) == [i \in 1..Len(answers) |-> ResponseBody(answers[i])]

(* However the stream is cut, the server's buffer and the bytes under way  *)
(* are exactly the packets it has not taken out yet, the one with a bad    *)
(* header last, and it has answered exactly the requests among those it    *)
(* has; and the same for the client's buffer and the responses it has not  *)
(* shown.                                                                  *)
Framing ==
    /\ spc # "closed" => inbuffer \o up = Packets(From(asked, taken)) \o broken
    /\ Len(answered) = Cardinality({i \in 1..taken : IsRequest(asked[i])})
    /\ ~foreign /\ cpc # "gone" =>
           resp_buff \o down = Packets(From(ResponseBodies(answered), Len(shown)))

(* While its peer is there the server ends only where the peer has sent    *)
(* something that ends it, and only after everything before that: however  *)
(* the stream is cut, no piece of a good packet is taken for a header, and *)
(* none of what it can answer or skip is lost.                             *)
Kills(body) == \/ body \in Mistyped
               \/ IsRequest(body) /\ Traps(ParseRequest(body))
EndsForCause ==
    spc = "closed" /\ cpc # "gone" =>
        IF taken < Len(asked) THEN Kills(asked[taken + 1]) ELSE broken # <<>>

(* Every request of the project's client is answered, or the connection    *)
(* ends.                                                                   *)
RoundTrip == cpc = "wait" ~> cpc # "wait"

(* The right answer to what Deserialize reads, the operator being the low  *)
(* bits of the number in the message: the mathematical one where it is an  *)
(* int, otherwise one that agrees in the low bits; truncating division,    *)
(* the remainder having the sign of x; a code for what has no answer.      *)
Correct(body, a) ==
    LET r == ParseRequest(body)
        agrees(n) == a.code = 0 /\ (a.result - n) % (2 * Half) = 0
        division(q, m) == /\ r.x = q * r.y + m
                          /\ Magnitude(m) < Magnitude(r.y)
                          /\ m = 0 \/ (m < 0) = (r.x < 0)
    IN  \/ r.oper = Plus /\ agrees(r.x + r.y)
        \/ r.oper = Minus /\ agrees(r.x - r.y)
        \/ r.oper = Times /\ agrees(r.x * r.y)
        \/ r.oper = Slash /\ r.y = 0 /\ a.code = 1
        \/ r.oper = Slash /\ a.code = 0 /\ \E m \in Ints : division(a.result, m)
        \/ r.oper = Percent /\ r.y = 0 /\ a.code = 2
        \/ r.oper = Percent /\ a.code = 0 /\ \E q \in Ints : division(q, a.result)
        \/ r.oper \notin {Plus, Minus, Times, Slash, Percent} /\ a.code = 3

(* The connection is a calculator: each request is answered once, in order *)
(* and correctly, whatever else the peer sends, and shown in that order.   *)
Service == INSTANCE Calculator
    WITH Messages <- Bodies, Answers <- Responses, heard <- taken
ImplementsCalculator == Service!Spec
=============================================================================
