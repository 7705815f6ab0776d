---------------------------------- MODULE Calculator ----------------------------------
(***************************************************************************)
(* What the two calculator servers say: Request, Response and Protocol of     *)
(* test_04_16 ("netcal": a process serves the connection) and of test_06_18   *)
(* ("reactor": Main.cc's handler), with Cal.  One connection; a stream is a   *)
(* sequence of units and is cut anywhere.  The digits of a length are of base *)
(* Base, and a text is longer by a unit for every minus sign in it.  Requests  *)
(* are what the clients' Serialize and Encode make: texts on which stoi or    *)
(* asInt throws are the reactor module's "fatal" pieces.                      *)
(***************************************************************************)
EXTENDS Integers, Sequences, FiniteSets

CONSTANTS
    Width,      \* bits of an int
    Batches,    \* what a client asks: sequences of requests
    Base,       \* of the digits; 10 in the code
    RecvSize    \* units one recv takes at most

VARIABLES
    kind,
    batch,      \* what the client is going to ask
    asked,      \* how many it has sent
    spc, inbuffer, response_str,    \* the server
    cpc, resp_buffer,               \* the client
    toServer, toClient,             \* the streams
    shown       \* history: the responses the client has shown

vars == <<kind, batch, asked, spc, inbuffer, response_str, cpc, resp_buffer, toServer,
          toClient, shown>>

IntMin == -(2 ^ (Width - 1))
IntMax == 2 ^ (Width - 1) - 1
Ints == IntMin..IntMax
Opers == {"+", "-", "*", "/", "%", "?"}

Request == [x : Ints, y : Ints, oper : Opers]
Response == [result : Ints, code : 0..3]

\* Response's defaults.
NoResponse == [result |-> 0, code |-> 0]

-----------------------------------------------------------------------------
(* Cal::Execute. *)

\* Overflow wraps.
Wrap(n) == ((n - IntMin) % (2 ^ Width)) + IntMin

Magnitude(n) == IF n < 0 THEN -n ELSE n

\* C++ cuts the quotient towards zero.
Quotient(x, y) ==
    LET q == Magnitude(x) \div Magnitude(y) IN IF (x < 0) = (y < 0) THEN q ELSE -q

\* The processor has no result for either, and the program gets SIGFPE.
Traps(r) == r.oper \in {"/", "%"} /\ r.x = IntMin /\ r.y = -1

Code(r) ==
    CASE r.oper = "/" /\ r.y = 0 -> 1
      [] r.oper = "%" /\ r.y = 0 -> 2
      [] r.oper = "?" -> 3
      [] OTHER -> 0

Execute(r) ==
    [code |-> Code(r),
     result |-> CASE Code(r) # 0 -> 0
                  [] r.oper = "+" -> Wrap(r.x + r.y)
                  [] r.oper = "-" -> Wrap(r.x - r.y)
                  [] r.oper = "*" -> Wrap(r.x * r.y)
                  [] r.oper = "/" /\ r.y # 0 -> Quotient(r.x, r.y)
                  [] OTHER -> r.x - r.y * Quotient(r.x, r.y)]

-----------------------------------------------------------------------------
(* Protocol. *)

sep == <<<<"\r">>, <<"\n">>>>

Sign(n) == IF n < 0 THEN 1 ELSE 0

Text(message, length) == [i \in 1..length |-> <<"text", message, i, length>>]
RequestText(r) == Text(r, 2 + Sign(r.x) + Sign(r.y))
ResponseText(r) == Text(r, 1 + Sign(r.result))

\* Json::Reader: a text from its first unit to its last, and nothing else.
Reads(text) == text # <<>> /\ \A i \in DOMAIN text : text[i] = <<"text", text[1][2], i, Len(text)>>
Deserialize(text) == text[1][2]

Digits(n) ==
    LET w == CHOOSE k \in 1..n : n < Base ^ k /\ \A j \in 1..(k - 1) : n >= Base ^ j
    IN  [i \in 1..w |-> <<"digit", (n \div Base ^ (w - i)) % Base>>]

\* std::stoi
Number(digits) ==
    LET read[n \in 0..Len(digits)] == IF n = 0 THEN 0 ELSE Base * read[n - 1] + digits[n][2]
    IN  read[Len(digits)]

Encode(text) == Digits(Len(text)) \o sep \o text \o sep

\* Decode looks for the first separator, whose place is that of its first unit.
Seps(buffer) == {i \in 1..(Len(buffer) - 1) : buffer[i] = sep[1] /\ buffer[i + 1] = sep[2]}
FirstSep(buffer) == CHOOSE i \in Seps(buffer) : \A j \in Seps(buffer) : i <= j
Header(buffer) == SubSeq(buffer, 1, FirstSep(buffer) - 1)

\* The second separator left out.
TargetLenMutant(buffer) == Len(Header(buffer)) + Number(Header(buffer)) + Len(sep)

TargetLen(buffer) == Len(Header(buffer)) + Number(Header(buffer)) + 2 * Len(sep)

Decodable(buffer) == Seps(buffer) # {} /\ Len(buffer) >= TargetLen(buffer)

Package(buffer) ==
    LET first == Len(Header(buffer)) + Len(sep)
    IN  SubSeq(buffer, first + 1, first + Number(Header(buffer)))

Rest(buffer) == SubSeq(buffer, TargetLen(buffer) + 1, Len(buffer))

-----------------------------------------------------------------------------
(* The client. *)

Init ==
    /\ kind \in {"netcal", "reactor"}
    /\ batch \in Batches
    /\ asked = 0
    /\ spc = "recv" /\ inbuffer = <<>> /\ response_str = <<>>
    /\ cpc = "input" /\ resp_buffer = <<>>
    /\ toServer = <<>> /\ toClient = <<>>
    /\ shown = <<>>

BuildRequestString(r) == Encode(RequestText(r))

\* TcpClient.cc has one request under way, the reactor's clients may have more.
Ask ==
    /\ asked < Len(batch)
    /\ cpc = "input" \/ kind = "reactor"
    /\ asked' = asked + 1
    /\ toServer' = toServer \o BuildRequestString(batch[asked + 1])
    /\ cpc' = "recv"
    /\ UNCHANGED <<kind, batch, spc, inbuffer, response_str, resp_buffer, toClient, shown>>

Chunks(stream) == {k \in 1..RecvSize : k <= Len(stream)}

\* What GetResponse does with its buffer: a package that is not whole by then has
\* it decode for ever.
Shows(buffer) ==
    IF Decodable(buffer)
    THEN /\ resp_buffer' = Rest(buffer)
         /\ shown' = Append(shown, IF Reads(Package(buffer)) THEN Deserialize(Package(buffer))
                                   ELSE NoResponse)
         /\ cpc' = "input"
    ELSE resp_buffer' = buffer /\ cpc' = "spin" /\ UNCHANGED shown

\* One Recv; the end of the stream counts as an answer, an error ends the client.
GetResponse ==
    /\ kind = "netcal" /\ cpc = "recv"
    /\ \/ \E k \in Chunks(toClient) :
             /\ Shows(resp_buffer \o SubSeq(toClient, 1, k))
             /\ toClient' = SubSeq(toClient, k + 1, Len(toClient))
       \/ /\ toClient = <<>> /\ spc = "trapped"
          /\ shown' = Append(shown, NoResponse) /\ cpc' = "input"
          /\ UNCHANGED <<toClient, resp_buffer>>
       \/ /\ spc = "trapped" /\ cpc' = "left" /\ toClient' = <<>>
          /\ UNCHANGED <<shown, resp_buffer>>
    /\ UNCHANGED <<kind, batch, asked, spc, inbuffer, response_str, toServer>>

\* A client of the reactor reads on until a package is whole.
ClientReads ==
    /\ kind = "reactor" /\ cpc = "recv"
    /\ \/ \E k \in Chunks(toClient) :
             /\ resp_buffer' = resp_buffer \o SubSeq(toClient, 1, k)
             /\ toClient' = SubSeq(toClient, k + 1, Len(toClient))
             /\ UNCHANGED shown
       \/ /\ Decodable(resp_buffer)
          /\ shown' = Append(shown, Deserialize(Package(resp_buffer)))
          /\ resp_buffer' = Rest(resp_buffer)
          /\ UNCHANGED toClient
    /\ UNCHANGED <<kind, batch, asked, spc, inbuffer, response_str, cpc, toServer>>

-----------------------------------------------------------------------------
(* The server. *)

ServerRecv ==
    /\ spc = "recv"
    /\ \E k \in Chunks(toServer) :
          /\ inbuffer' = inbuffer \o SubSeq(toServer, 1, k)
          /\ toServer' = SubSeq(toServer, k + 1, Len(toServer))
    /\ spc' = "decode"
    /\ UNCHANGED <<kind, batch, asked, response_str, cpc, resp_buffer, toClient, shown>>

\* GetRequest sends every response, the handler collects them; what cannot be read
\* is passed over.
Excute ==
    LET text == Package(inbuffer)
        answer == IF Reads(text) THEN Encode(ResponseText(Execute(Deserialize(text)))) ELSE <<>>
    IN  /\ spc = "decode" /\ Decodable(inbuffer)
        /\ inbuffer' = Rest(inbuffer)
        /\ IF Reads(text) /\ Traps(Deserialize(text))
           THEN spc' = "trapped" /\ UNCHANGED <<toClient, response_str>>
           ELSE /\ toClient' = IF kind = "netcal" THEN toClient \o answer ELSE toClient
                /\ response_str' = IF kind = "netcal" THEN <<>> ELSE response_str \o answer
                /\ UNCHANGED spc
        /\ UNCHANGED <<kind, batch, asked, cpc, resp_buffer, toServer, shown>>

\* The handler returns what it has.
HandlerDone ==
    /\ spc = "decode" /\ ~Decodable(inbuffer)
    /\ toClient' = toClient \o response_str
    /\ response_str' = <<>>
    /\ spc' = "recv"
    /\ UNCHANGED <<kind, batch, asked, inbuffer, cpc, resp_buffer, toServer, shown>>

Next == Ask \/ GetResponse \/ ClientReads \/ ServerRecv \/ Excute \/ HandlerDone

-----------------------------------------------------------------------------
(* Properties. *)

TypeOK ==
    /\ batch \in Seq(Request) /\ asked \in 0..Len(batch)
    /\ spc \in {"recv", "decode", "trapped"}
    /\ cpc \in {"input", "recv", "spin", "left"}
    /\ shown \in Seq(Response)

\* Arithmetic says `a' for r, if that is an int.
Right(r, a) ==
    \/ a.code = 0 /\ r.oper \in {"+", "-", "*"}
       /\ LET exact == CASE r.oper = "+" -> r.x + r.y [] r.oper = "-" -> r.x - r.y
                         [] OTHER -> r.x * r.y
          IN  exact \in Ints => a.result = exact
    \/ a.code = 0 /\ r.oper \in {"/", "%"} /\ r.y # 0
       /\ \E q, m \in Ints :
             /\ q * r.y + m = r.x /\ Magnitude(m) < Magnitude(r.y)
             /\ m = 0 \/ (m < 0) = (r.x < 0)
             /\ a.result = IF r.oper = "/" THEN q ELSE m
    \/ a.code # 0 /\ <<a.code, r.oper>> \in {<<1, "/">>, <<2, "%">>, <<3, "?">>}
       /\ (a.code < 3 => r.y = 0)

(* However the streams are cut, the i-th response shown is the right one for the *)
(* i-th request (Encode, Decode, Execute); the server is stopped by nothing but *)
(* the smallest int divided by -1, and only then TcpClient.cc shows a result    *)
(* that nobody sent, for the request that stopped it or one after it.           *)
ResultsRight ==
    /\ \A i \in DOMAIN shown :
          \/ Right(batch[i], shown[i])
          \/ /\ kind = "netcal" /\ spc = "trapped" /\ shown[i] = NoResponse
             /\ \E j \in 1..i : Traps(batch[j])
    /\ Len(shown) <= asked
    /\ spc = "trapped" => \E i \in 1..asked : Traps(batch[i])

\* What streams are made of.
Messages == Request \cup Response
TextUnits == {"text"} \X Messages \X Nat \X Nat
Units == {<<"\r">>, <<"\n">>} \cup ({"digit"} \X Nat) \cup TextUnits

StreamsTyped ==
    /\ inbuffer \in Seq(Units) /\ toServer \in Seq(Units)
    /\ resp_buffer \in Seq(Units) /\ toClient \in Seq(Units) /\ response_str \in Seq(Units)

\* Requests a + 1..b on the wire, one after the other, and the answers to them.
Asks(requests, a, b) ==
    LET wire[n \in a..b] ==
            IF n = a THEN <<>> ELSE wire[n - 1] \o BuildRequestString(requests[n])
    IN  wire[b]
Answer(r) == Encode(ResponseText(Execute(r)))
Answers(requests, a, b) ==
    LET wire[n \in a..b] == IF n = a THEN <<>> ELSE wire[n - 1] \o Answer(requests[n])
    IN  wire[b]

\* The server has answered `done' requests, and taken the one it trapped at.
ServerSide(done) ==
    LET taken == IF spc = "trapped" THEN done + 1 ELSE done IN
    /\ taken <= asked /\ inbuffer \o toServer = Asks(batch, taken, asked)
    /\ \A i \in 1..done : ~Traps(batch[i])
    /\ spc = "trapped" => Traps(batch[done + 1])

\* The client has shown `got' answers.
ClientSide(got, done) ==
    /\ got <= done /\ got <= Len(shown)
    /\ \A i \in 1..got : shown[i] = Execute(batch[i])
    /\ cpc # "left" => (resp_buffer \o toClient) \o response_str = Answers(batch, got, done)

\* TcpClient.cc has at most one request under way, and may go on after the trap.
OneUnderWay(got, done) ==
    /\ response_str = <<>> /\ Len(shown) <= asked
    /\ Len(shown) = got \/ (spc = "trapped" /\ got = done)
    /\ \A i \in (got + 1)..Len(shown) : shown[i] = NoResponse
    /\ cpc = "input" => asked = Len(shown) /\ resp_buffer = <<>>
    /\ cpc = "recv" => asked = Len(shown) + 1 /\ resp_buffer = <<>>

ClientReader(got) == Len(shown) = got /\ cpc \in {"input", "recv"}

\* What makes ResultsRight inductive.
CalcInv ==
    /\ TypeOK /\ batch \in Batches /\ kind \in {"netcal", "reactor"} /\ StreamsTyped
    /\ \E got, done \in 0..asked :
          /\ ServerSide(done) /\ ClientSide(got, done)
          /\ kind = "netcal" => OneUnderWay(got, done)
          /\ kind = "reactor" => ClientReader(got)
=============================================================================
