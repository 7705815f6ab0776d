-------------------------------- MODULE NetCal --------------------------------
(***************************************************************************)
(* The network calculator of test_04_16/NetCal on one connection: the        *)
(* client's main loop with Protocol::GetResponse, the serving process with    *)
(* Protocol::GetRequest, and the two byte streams between them.  A package    *)
(* (`len\r\n{json}\r\n') travels as PackageLen units; the k-th unit of the    *)
(* package for request r is <<r, k>>, so a package can arrive in pieces and   *)
(* packages can arrive together.                                              *)
(***************************************************************************)
EXTENDS Integers, Sequences

CONSTANTS
    Calls,       \* requests the user types in
    PackageLen,  \* units of a package
    RecvSize,    \* units one Recv takes at most; sizeof(buffer) - 1 in the code
    MayQuit      \* TRUE: the serving process may be killed

Call == 1..Calls

VARIABLES
    cpc,        \* where the client is
    call,       \* the number of the request it is at
    n,          \* what its last Recv returned
    respBuffer, \* resp_buffer, which outlives the call
    shown,      \* the results shown; 0 for a Response nobody filled in
    spc,        \* where the server is
    inbuffer,   \* inbuffer of GetRequest
    req,        \* the request being computed
    toServer, toClient   \* the streams

client == <<cpc, call, n, respBuffer, shown>>
server == <<spc, inbuffer, req>>
vars == <<client, server, toServer, toClient>>

TypeOK ==
    /\ cpc \in {"input", "send", "recv", "test", "decode", "exit"}
    /\ call \in 0..Calls
    /\ n \in -1..RecvSize
    /\ respBuffer \in Seq(Call \X (1..PackageLen))
    /\ shown \in Seq(Call \cup {0})
    /\ spc \in {"recv", "decode", "send", "gone"}
    /\ inbuffer \in Seq(Call \X (1..PackageLen))
    /\ req \in Call \cup {0}
    /\ toServer \in Seq(Call \X (1..PackageLen))
    /\ toClient \in Seq(Call \X (1..PackageLen))

Init ==
    /\ cpc = "input"
    /\ call = 0
    /\ n = 0
    /\ respBuffer = <<>>
    /\ shown = <<>>
    /\ spc = "recv"
    /\ inbuffer = <<>>
    /\ req = 0
    /\ toServer = <<>>
    /\ toClient = <<>>

-----------------------------------------------------------------------------
(* The protocol. *)

Encode(r) == [k \in 1..PackageLen |-> <<r, k>>]

\* A buffer starts with a package, for only whole packages are taken out of it.
Decodable(buffer) == Len(buffer) >= PackageLen

Package(buffer) == Head(buffer)[1]

Rest(buffer) == SubSeq(buffer, PackageLen + 1, Len(buffer))

\* What one Recv may take out of a stream.
Chunks(stream) == {k \in 1..RecvSize : k <= Len(stream)}

-----------------------------------------------------------------------------
(* The client. *)

Input ==
    /\ cpc = "input"
    /\ call < Calls
    /\ call' = call + 1
    /\ cpc' = "send"
    /\ UNCHANGED <<n, respBuffer, shown, server, toServer, toClient>>

Send ==
    /\ cpc = "send"
    /\ toServer' = toServer \o Encode(call)
    /\ cpc' = "recv"
    /\ UNCHANGED <<call, n, respBuffer, shown, server, toClient>>

\* A send to a server that is gone ends the client: SIGPIPE.
SendFails ==
    /\ cpc = "send"
    /\ spc = "gone"
    /\ cpc' = "exit"
    /\ UNCHANGED <<call, n, respBuffer, shown, server, toServer, toClient>>

\* The one Recv of GetResponse, before its loop.
Recv ==
    /\ cpc = "recv"
    /\ \/ \E k \in Chunks(toClient) :
            /\ n' = k
            /\ respBuffer' = respBuffer \o SubSeq(toClient, 1, k)
            /\ toClient' = SubSeq(toClient, k + 1, Len(toClient))
       \/ /\ toClient = <<>>
          /\ spc = "gone"
          /\ n' = 0
          /\ UNCHANGED <<respBuffer, toClient>>
       \/ /\ spc = "gone"                \* the connection was reset
          /\ n' = -1
          /\ toClient' = <<>>
          /\ UNCHANGED respBuffer
    /\ cpc' = "test"
    /\ UNCHANGED <<call, shown, server, toServer>>

\* The head of the loop: at the end of the stream the call succeeds without a
\* response, and main shows an empty one; on an error main leaves its loop.
Test ==
    /\ cpc = "test"
    /\ \/ n > 0 /\ cpc' = "decode" /\ shown' = shown
       \/ n = 0 /\ cpc' = "input" /\ shown' = Append(shown, 0)
       \/ n < 0 /\ cpc' = "exit" /\ shown' = shown
    /\ UNCHANGED <<call, n, respBuffer, server, toServer, toClient>>

Decode ==
    /\ cpc = "decode"
    /\ IF Decodable(respBuffer)
       THEN /\ shown' = Append(shown, Package(respBuffer))
            /\ respBuffer' = Rest(respBuffer)
            /\ cpc' = "input"
       ELSE /\ cpc' = "test"
            /\ UNCHANGED <<respBuffer, shown>>
    /\ UNCHANGED <<call, n, server, toServer, toClient>>

GetResponse == Recv \/ Test \/ Decode

Client == Input \/ Send \/ SendFails \/ GetResponse

-----------------------------------------------------------------------------
(* The serving process: GetRequest. *)

\* It reads on until the client ends, which closes the connection.
ServerRecv ==
    /\ spc = "recv"
    /\ \/ \E k \in Chunks(toServer) :
            /\ inbuffer' = inbuffer \o SubSeq(toServer, 1, k)
            /\ toServer' = SubSeq(toServer, k + 1, Len(toServer))
            /\ spc' = "decode"
       \/ /\ toServer = <<>>
          /\ cpc = "exit"
          /\ spc' = "gone"
          /\ UNCHANGED <<inbuffer, toServer>>
    /\ UNCHANGED <<client, req, toClient>>

\* Every package of this client parses, so Deserialize never fails here.
ServerDecode ==
    /\ spc = "decode"
    /\ IF Decodable(inbuffer)
       THEN /\ req' = Package(inbuffer)
            /\ inbuffer' = Rest(inbuffer)
            /\ spc' = "send"
       ELSE /\ spc' = "recv"
            /\ UNCHANGED <<req, inbuffer>>
    /\ UNCHANGED <<client, toServer, toClient>>

\* Execute, Serialize, Encode and Send.
ServerSend ==
    /\ spc = "send"
    /\ toClient' = toClient \o Encode(req)
    /\ req' = 0
    /\ spc' = "decode"
    /\ UNCHANGED <<client, inbuffer, toServer>>

GetRequest == ServerRecv \/ ServerDecode \/ ServerSend

ServerQuits ==
    /\ MayQuit
    /\ spc # "gone"
    /\ spc' = "gone"
    /\ UNCHANGED <<client, inbuffer, req, toServer, toClient>>

Next == Client \/ GetRequest \/ ServerQuits

Spec == Init /\ [][Next]_vars

\* Both processes are scheduled.
FairSpec == Spec /\ WF_vars(Client) /\ WF_vars(GetRequest)

-----------------------------------------------------------------------------
(* Properties. *)

\* The comment on Decode (line 166): told that the package is not complete,
\* the caller goes on reading.  So a call of GetResponse that has found part
\* of a package comes back, since the server has sent or will send the rest.
IncompleteReadsOn == cpc = "decode" ~> cpc \in {"recv", "input"}
===============================================================================
