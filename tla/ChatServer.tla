------------------------------ MODULE ChatServer ------------------------------
(***************************************************************************)
(* The chat server of test_04_03/3.Chatserver: a thread that receives         *)
(* datagrams hands each of them as a task to a thread pool, whose workers run *)
(* Route::MessageRoute on the one list _online_user, without a lock.          *)
(*                                                                            *)
(* An access to the list has a begin and an end.  Two accesses at the same    *)
(* time, one of them a change, are a data race: the server may crash, and of  *)
(* two changes an insertion may be lost.                                      *)
(***************************************************************************)
EXTENDS Naturals, Sequences, FiniteSets

CONSTANTS
    Peers,      \* clients, each of them an address
    Workers,    \* threads of the pool; gnum = 5 in the code
    MaxTexts,   \* texts a client sends before it quits
    None

Message == [peer : Peers, text : {"inline", "text", "QUIT"}]

VARIABLES
    texts,     \* texts[p]: how many messages client p has still to send
    network,   \* datagrams on their way
    tasks,     \* the pool's queue
    wpc,       \* where worker w is in MessageRoute
    task,      \* the message it routes
    inside,    \* the workers between the begin and the end of an access
    online,    \* _online_user
    crashed,
    \* history: two tasks of one peer were routed at once; two accesses raced;
    \* somebody was taken off the list
    overlapped, raced, erased

clients == <<texts, network>>
pool == <<tasks, task>>
history == <<overlapped, raced, erased>>
vars == <<clients, pool, wpc, inside, online, crashed, history>>

TypeOK ==
    /\ texts \in [Peers -> 0..(MaxTexts + 2)]
    /\ IsFiniteSet(network) /\ network \subseteq Message \X (0..(MaxTexts + 2))
    /\ tasks \in Seq(Message)
    /\ wpc \in [Workers -> {"idle", "exist", "add", "send", "quit"}]
    /\ task \in [Workers -> Message \cup {None}]
    /\ inside \subseteq Workers
    /\ online \in Seq(Peers)
    /\ crashed \in BOOLEAN

Init ==
    /\ texts = [p \in Peers |-> MaxTexts + 2]
    /\ network = {}
    /\ tasks = <<>>
    /\ wpc = [w \in Workers |-> "idle"]
    /\ task = [w \in Workers |-> None]
    /\ inside = {}
    /\ online = <<>>
    /\ crashed = FALSE
    /\ overlapped = FALSE /\ raced = FALSE /\ erased = FALSE

-----------------------------------------------------------------------------
(* The clients, and the datagrams: lost and reordered as UDP may. *)

\* "inline" first, then what the user types, "QUIT" last.
Text(left) ==
    CASE left = MaxTexts + 2 -> "inline"
      [] left = 1 -> "QUIT"
      [] OTHER -> "text"

Send(p) ==
    /\ texts[p] > 0
    /\ network' = network \cup {<<[peer |-> p, text |-> Text(texts[p])], texts[p]>>}
    /\ texts' = [texts EXCEPT ![p] = @ - 1]
    /\ UNCHANGED <<pool, wpc, inside, online, crashed, history>>

Lose(d) ==
    /\ network' = network \ {d}
    /\ UNCHANGED <<texts, pool, wpc, inside, online, crashed, history>>

\* UdpServer::Start: recvfrom, and the handler that makes a task of it.
Receive(d) ==
    /\ network' = network \ {d}
    /\ tasks' = Append(tasks, d[1])
    /\ UNCHANGED <<texts, wpc, task, inside, online, crashed, history>>

-----------------------------------------------------------------------------
(* The workers. *)

\* A worker has a message of p.
Routed(p) == \E v \in Workers : task[v] # None /\ task[v].peer = p

TakeTask(w) ==
    /\ wpc[w] = "idle"
    /\ tasks # <<>>
    /\ task' = [task EXCEPT ![w] = Head(tasks)]
    /\ tasks' = Tail(tasks)
    /\ wpc' = [wpc EXCEPT ![w] = "exist"]
    /\ overlapped' = (overlapped \/ Routed(Head(tasks).peer))
    /\ UNCHANGED <<clients, inside, online, crashed, raced, erased>>

Changes(w) == wpc[w] \in {"add", "quit"}

\* Another access overlaps w's, and one of the two is a change.
Races(w) == \E v \in inside \ {w} : Changes(v) \/ Changes(w)

Begin(w) ==
    /\ wpc[w] # "idle"
    /\ w \notin inside
    /\ inside' = inside \cup {w}
    /\ raced' = (raced \/ Races(w))
    /\ UNCHANGED <<clients, pool, wpc, online, crashed, overlapped, erased>>

Crash(w) ==
    /\ w \in inside
    /\ Races(w)
    /\ crashed' = TRUE
    /\ UNCHANGED <<clients, pool, wpc, inside, online, history>>

Peer(w) == task[w].peer
Users == {online[i] : i \in DOMAIN online}

End(w, at, next) ==
    /\ wpc[w] = at
    /\ w \in inside
    /\ inside' = inside \ {w}
    /\ wpc' = [wpc EXCEPT ![w] = next]
    /\ UNCHANGED <<clients, tasks, crashed, overlapped, raced>>

IsExist(w) ==
    /\ End(w, "exist", IF Peer(w) \in Users THEN "send" ELSE "add")
    /\ UNCHANGED <<task, online, erased>>

\* push_back's write can be lost to another change under way, not to a reader.
Overwritten(w) == \E v \in inside \ {w} : Changes(v)

AddUser(w) ==
    /\ End(w, "add", "send")
    /\ \/ online' = Append(online, Peer(w))
       \/ Overwritten(w) /\ UNCHANGED online
    /\ UNCHANGED <<task, erased>>

\* sendto for each user; then a QUIT goes on, anything else is done.
Broadcast(w) ==
    LET quits == task[w].text = "QUIT" IN
    /\ End(w, "send", IF quits THEN "quit" ELSE "idle")
    /\ task' = IF quits THEN task ELSE [task EXCEPT ![w] = None]
    /\ UNCHANGED <<online, erased>>

\* The loop breaks after its first round, whoever the first user is.
DeleteUser(w) ==
    /\ End(w, "quit", "idle")
    /\ online' = IF online = <<>> THEN online ELSE Tail(online)
    /\ erased' = (erased \/ online # <<>>)
    /\ task' = [task EXCEPT ![w] = None]

MessageRoute(w) ==
    Begin(w) \/ IsExist(w) \/ AddUser(w) \/ Broadcast(w) \/ DeleteUser(w) \/ Crash(w)

Next ==
    \/ \E p \in Peers : Send(p)
    \/ /\ ~crashed
       /\ \/ \E d \in network : Lose(d) \/ Receive(d)
          \/ \E w \in Workers : TakeTask(w) \/ MessageRoute(w)

Spec == Init /\ [][Next]_vars

-----------------------------------------------------------------------------
(* Properties. *)

\* "This user is certainly online now", says line 60, once a message was sent round:
\* whoever else sends, and quits, meanwhile, its sender is on the list.  Two messages
\* of one peer at once, and accesses that race, do not count.
CertainlyOnline ==
    [][\A w \in Workers :
          Broadcast(w) /\ ~overlapped /\ ~raced => Peer(w) \in Users]_vars

(* A user is on the list once, unless two of its messages were routed at once   *)
(* (IsExist, AddUser), and, as line 60 says, for certain when a message of its  *)
(* is sent round, unless accesses raced or a QUIT took somebody off.           *)
ListRight ==
    /\ ~overlapped => \A i, j \in DOMAIN online : online[i] = online[j] => i = j
    /\ ~raced /\ ~erased =>
           \A w \in Workers : wpc[w] \in {"send", "quit"} => Peer(w) \in Users

\* A worker has a message or nothing to do, and is in the list for a message only.
Employed ==
    /\ \A w \in Workers : wpc[w] = "idle" <=> task[w] = None
    /\ \A w \in inside : wpc[w] # "idle"

\* As long as no two messages of one peer are routed at once, only its worker puts a
\* peer on the list.
OwnMessages ==
    ~overlapped =>
        /\ \A v, w \in Workers : v # w /\ wpc[v] # "idle" /\ wpc[w] # "idle" => Peer(v) # Peer(w)
        /\ \A w \in Workers : wpc[w] = "add" => Peer(w) \notin Users

\* As long as no two accesses race, whoever changes the list is alone in it.
ChangesAlone == ~raced => \A v, w \in inside : v # w => ~Changes(v) /\ ~Changes(w)

\* What makes ListRight inductive.
RouteInv == TypeOK /\ Employed /\ OwnMessages /\ ChangesAlone /\ ListRight
===============================================================================
