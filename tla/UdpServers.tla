--------------------------------- MODULE UdpServers ---------------------------------
(***************************************************************************)
(* The dictionary server of test_04_03 and the echo server of                 *)
(* Test/NetWork/udp, each with its client, which sends a line and waits for   *)
(* one datagram.  The network loses, reorders and duplicates.  (UdpServer.cc  *)
(* calls Translate without the client it wants; the call is taken as meant.)  *)
(***************************************************************************)
EXTENDS Naturals, Sequences

CONSTANTS
    Clients,
    Words,          \* what users type, beside nothing
    DictFiles,      \* what dictionary.txt may hold: sequences of <<word, meaning>>
    MaxAsks,        \* lines a user types (a bound of the model)
    MaxDups         \* datagrams the network duplicates (a bound of the model)

VARIABLES
    kind,       \* dict, echo
    lines,      \* the dictionary's file
    dict,       \* _dict, by word
    server,     \* "init", "recv", "answer"; "exit", "crashed"
    request,    \* buffer and peer
    net,        \* datagrams on their way
    dups,       \* history: duplicates made
    cpc,        \* of each client: "input", "recv", "left"
    asked,      \* history: the lines each client has sent
    shown       \* history: the answers it has shown

vars == <<kind, lines, dict, server, request, net, dups, cpc, asked, shown>>

NoText == "nothing"    \* the empty line, the missing half of a dictionary line
NoWord == "noword"

Datagram == [to : {"server"} \cup Clients, from : {"server"} \cup Clients,
             word : Words, number : 1..MaxAsks, copy : 0..MaxDups]

-----------------------------------------------------------------------------
(* The dictionary. *)

\* LoadDict's line of the file: without a separator, a word or a meaning it is left out.
Valid(l) == Len(l) = 2 /\ l[1] # NoText /\ l[2] # NoText

\* insert keeps the first meaning of a word.
LoadDict(file) ==
    {file[i] : i \in {i \in DOMAIN file :
        Valid(file[i]) /\ \A j \in 1..(i - 1) : Valid(file[j]) => file[j][1] # file[i][1]}}

Known(w) == \E e \in dict : e[1] = w

\* find, a line of log with the meaning, and back goes the word, not the meaning.
Translate(w) == w

\* What _fun returns and the question behind it; the echo as it is.
Answer(w) == IF kind = "dict" THEN <<Translate(w), w>> ELSE <<w>>

-----------------------------------------------------------------------------
(* The server: one thread. *)

Init ==
    /\ kind \in {"dict", "echo"}
    /\ lines \in DictFiles
    /\ dict = {}
    /\ server = "init"
    /\ request = [from |-> "server", word |-> NoWord, number |-> 0]
    /\ net = {} /\ dups = 0
    /\ cpc = [c \in Clients |-> "input"]
    /\ asked = [c \in Clients |-> <<>>]
    /\ shown = [c \in Clients |-> <<>>]

\* socket or bind may fail, which ends the program.
ServerInit(works) ==
    /\ server = "init"
    /\ server' = IF works THEN "recv" ELSE "exit"
    /\ dict' = IF kind = "dict" THEN LoadDict(lines) ELSE {}
    /\ UNCHANGED <<kind, lines, request, net, dups, cpc, asked, shown>>

Receive(d) ==
    /\ server = "recv" /\ d.to = "server"
    /\ net' = net \ {d}
    /\ request' = [from |-> d.from, word |-> d.word, number |-> d.number]
    /\ server' = "answer"
    /\ UNCHANGED <<kind, lines, dict, dups, cpc, asked, shown>>

\* The peer of the buffer is the one that is answered.
ReplyMutant == [to |-> CHOOSE c \in Clients : TRUE, from |-> "server", word |-> request.word,
                number |-> request.number, copy |-> 0]

Reply == [to |-> request.from, from |-> "server", word |-> request.word,
          number |-> request.number, copy |-> 0]

\* Translate's log line looks behind the end of the map for a word it lacks.
Send ==
    /\ server = "answer"
    /\ IF kind = "dict" /\ ~Known(request.word)
       THEN server' = "crashed" /\ UNCHANGED net
       ELSE server' = "recv" /\ net' = net \cup {Reply}
    /\ UNCHANGED <<kind, lines, dict, request, dups, cpc, asked, shown>>

-----------------------------------------------------------------------------
(* The clients. *)

\* sendto, and on to recvfrom whatever it returned.
DictClient(c, w) ==
    /\ kind = "dict" /\ cpc[c] = "input" /\ Len(asked[c]) < MaxAsks
    /\ asked' = [asked EXCEPT ![c] = Append(@, w)]
    /\ net' = IF w = NoText THEN net
              ELSE net \cup {[to |-> "server", from |-> c, word |-> w,
                              number |-> Len(asked[c]) + 1, copy |-> 0]}
    /\ cpc' = [cpc EXCEPT ![c] = "recv"]
    /\ UNCHANGED <<kind, lines, dict, server, request, dups, shown>>

\* The echo client leaves when nothing was sent: an empty line, the end of the
\* input, an error.
EchoClient(c, w, sent) ==
    /\ kind = "echo" /\ cpc[c] = "input" /\ Len(asked[c]) < MaxAsks
    /\ sent => w # NoText
    /\ asked' = [asked EXCEPT ![c] = Append(@, w)]
    /\ net' = IF sent THEN net \cup {[to |-> "server", from |-> c, word |-> w,
                                      number |-> Len(asked[c]) + 1, copy |-> 0]}
              ELSE net
    /\ cpc' = [cpc EXCEPT ![c] = IF sent THEN "recv" ELSE "left"]
    /\ UNCHANGED <<kind, lines, dict, server, request, dups, shown>>

\* An empty line has reached the server as nothing: it answers nobody, and the
\* client waits on.
ClientReceive(c, d) ==
    /\ cpc[c] = "recv" /\ d.to = c
    /\ net' = net \ {d}
    /\ shown' = [shown EXCEPT ![c] = Append(@, [text |-> Answer(d.word), number |-> d.number])]
    /\ cpc' = [cpc EXCEPT ![c] = "input"]
    /\ UNCHANGED <<kind, lines, dict, server, request, dups, asked>>

-----------------------------------------------------------------------------
(* UDP. *)

Lose(d) ==
    /\ net' = net \ {d}
    /\ UNCHANGED <<kind, lines, dict, server, request, dups, cpc, asked, shown>>

Duplicate(d) ==
    /\ dups < MaxDups
    /\ net' = net \cup {[d EXCEPT !.copy = dups + 1]}
    /\ dups' = dups + 1
    /\ UNCHANGED <<kind, lines, dict, server, request, cpc, asked, shown>>

Next ==
    \/ Send
    \/ \E works \in BOOLEAN : ServerInit(works)
    \/ \E d \in net : Receive(d) \/ Lose(d) \/ Duplicate(d)
    \/ \E c \in Clients, d \in net : ClientReceive(c, d)
    \/ \E c \in Clients, w \in Words \cup {NoText} :
          DictClient(c, w) \/ \E sent \in BOOLEAN : EchoClient(c, w, sent)

-----------------------------------------------------------------------------
(* Properties. *)

TypeOK ==
    /\ server \in {"init", "recv", "answer", "exit", "crashed"}
    /\ net \subseteq Datagram
    /\ cpc \in [Clients -> {"input", "recv", "left"}]
    /\ asked \in [Clients -> Seq(Words \cup {NoText})]

\* Questions and answers on their way, the one in the server's hands among them, and
\* whose they are.
UnderWay == net \cup (IF server = "answer" THEN {Reply} ELSE {})
Asker(d) == IF d.to = "server" THEN d.from ELSE d.to

QuestionsKept ==
    \A d \in UnderWay :
        /\ d \in Datagram /\ Asker(d) \in Clients
        /\ d.number \in 1..Len(asked[Asker(d)]) /\ d.word = asked[Asker(d)][d.number]

\* A network that repeats nothing has one of them for each client that waits.
OneUnderWay ==
    dups = 0 =>
        \A d \in UnderWay :
            /\ cpc[Asker(d)] = "recv" /\ d.number = Len(asked[Asker(d)])
            /\ \A e \in UnderWay : Asker(e) = Asker(d) => e = d

\* The answer in the server's hands is not on its way as well.
ReplyOnce == dups = 0 /\ server = "answer" => Reply \notin net

AskedInTurn ==
    \A c \in Clients : IF cpc[c] = "input" THEN Len(asked[c]) = Len(shown[c])
                       ELSE Len(asked[c]) = Len(shown[c]) + 1

DictLoaded ==
    /\ server # "init" /\ kind = "dict" => dict = LoadDict(lines)
    /\ server = "crashed" => kind = "dict" /\ ~Known(request.word)

AnswersKept ==
    \A c \in Clients : \A i \in DOMAIN shown[c] :
        /\ shown[c][i].number <= i
        /\ shown[c][i].text = Answer(asked[c][shown[c][i].number])
        /\ dups = 0 => shown[c][i].number = i

\* What makes OwnAnswers inductive.
UdpInv ==
    /\ TypeOK /\ lines \in DictFiles /\ dups \in 0..MaxDups
    /\ shown \in [Clients -> Seq([text : {Answer(w) : w \in Words}, number : 1..MaxAsks])]
    /\ QuestionsKept /\ OneUnderWay /\ ReplyOnce /\ AskedInTurn /\ DictLoaded /\ AnswersKept

(* A client is never shown the answer to another's question, or to one it has   *)
(* not asked yet, though the network loses, duplicates and reorders; without   *)
(* duplicates the answer is the one to the question just asked.  (The answer is *)
(* what the code makes of the question: the dictionary's has no meaning in it.) *)
(* The server dies for no word of its file (Start, Translate), and has for      *)
(* each its first whole line (LoadDict).                                      *)
OwnAnswers ==
    /\ \A c \in Clients : \A i \in DOMAIN shown[c] :
          /\ shown[c][i].number <= i
          /\ shown[c][i].text = Answer(asked[c][shown[c][i].number])
          /\ dups = 0 => shown[c][i].number = i
    /\ server = "crashed" => \A i \in DOMAIN lines : Valid(lines[i]) => lines[i][1] # request.word
    /\ server # "init" /\ kind = "dict" => \A i \in DOMAIN lines :
          (Valid(lines[i]) /\ \A j \in 1..(i - 1) : Valid(lines[j]) => lines[j][1] # lines[i][1])
              <=> (lines[i] \in dict /\ \A j \in 1..(i - 1) : lines[j] # lines[i])
=============================================================================
