------------------------------ MODULE EventServers ------------------------------
(***************************************************************************)
(* The three single-threaded servers that came before the reactor: select   *)
(* (test_06_05), poll (test_06_06) and level-triggered epoll (test_06_12).  *)
(* They have the same loop -- wait, dispatch, accept or receive -- on        *)
(* blocking sockets, and differ in what they remember: a table of            *)
(* descriptors, a table of pollfd, or the kernel's interest set.             *)
(*                                                                          *)
(* Descriptors are small numbers given out lowest first, and there are only *)
(* `limit' of them (RLIMIT_NOFILE), which each server meets in its own way.  *)
(***************************************************************************)
EXTENDS Integers, Sequences, FiniteSets

CONSTANTS
    Kinds,      \* which servers: a subset of {"select", "poll", "epoll"}
    Clients,
    Sends,      \* Sends[c]: what client c may send (a bound of the model)
    RecvSize,   \* what one recv returns at most (sizeof(buffer) - 1)
    Size,       \* slots of the table (1024 select, 4096 poll)
    SetSize,    \* FD_SETSIZE, 1024
    MaxEvents,  \* entries of _recvs (64)
    Limits,     \* the values of RLIMIT_NOFILE to look at
    StdFds,     \* descriptors open before the listener's (3)
    None        \* no client

ASSUME ServersAssumption ==
    /\ Kinds \subseteq {"select", "poll", "epoll"}
    /\ IsFiniteSet(Clients) /\ None \notin Clients
    /\ Limits \subseteq Nat
    /\ StdFds \in Nat /\ \A n \in Limits : n > StdFds
    /\ Sends \in [Clients -> Nat]
    /\ {RecvSize, Size, SetSize, MaxEvents} \subseteq Nat \ {0}

VARIABLES
    kind, limit,    \* chosen before the start
    \* the kernel
    owner,          \* the client at the other end of a descriptor
    backlog,        \* connections not accepted yet
    inbox,          \* bytes to receive from a client
    rdlist,         \* epoll's ready list
    watched,        \* epoll's interest set
    \* the clients
    up, gone,       \* connected; shut down or reset
    sent, heard,    \* bytes a client sent, and the server received
    refused,        \* clients turned away because the table was full
    stranded,       \* clients whose EPOLL_CTL_ADD failed
    \* the server
    table,          \* _fd_arr, or the fd field of _fds
    result,         \* rfds (descriptors), or the slots with revents
    events,         \* _recvs, the entries not looked at yet
    slot,           \* the Dispatcher's index
    pc

clientVars == <<up, gone, sent>>
choice == <<kind, limit>>
kernel == <<owner, backlog, inbox, rdlist, watched>>
vars == <<choice, kernel, clientVars, heard, refused, stranded, table, result,
          events, slot, pc>>

defaultfd == -1
Listen == StdFds
EpFd == StdFds + 1
Slots == 0..(Size - 1)
AllFds == UNION {0..(n - 1) : n \in Limits}

\* epoll_create fails if the listener took the last descriptor; the
\* constructor logs it and goes on.
EpollMade == limit > EpFd

\* Open before the first connection.
Opened == 0..(IF kind = "epoll" THEN EpFd ELSE Listen)

FreeFds == {f \in 0..(limit - 1) : f \notin Opened /\ owner[f] = None}
LowestFree == CHOOSE f \in FreeFds : \A g \in FreeFds : f <= g

\* A table with no descriptor in it; the listener gets slot 0.
Unused == [i \in Slots |-> defaultfd]

Init ==
    /\ kind \in Kinds
    /\ limit \in Limits
    /\ owner = [f \in AllFds |-> None]
    /\ backlog = <<>>
    /\ inbox = [c \in Clients |-> 0]
    /\ rdlist = <<>>
    /\ watched = IF kind = "epoll" /\ EpollMade THEN {Listen} ELSE {}
    /\ up = {} /\ gone = {}
    /\ sent = [c \in Clients |-> 0]
    /\ heard = [c \in Clients |-> 0]
    /\ refused = {}
    /\ stranded = {}
    /\ table = IF kind = "epoll" THEN Unused ELSE [Unused EXCEPT ![0] = Listen]
    /\ result = {}
    /\ events = <<>>
    /\ slot = 0
    /\ pc = "wait"

-----------------------------------------------------------------------------
(* The kernel's view, and the clients. *)

Readable(f) ==
    IF f = Listen THEN backlog # <<>>
    ELSE owner[f] # None /\ (inbox[owner[f]] > 0 \/ owner[f] \in gone)

FdOf(c) == {f \in AllFds : owner[f] = c}

Elements(s) == {s[i] : i \in DOMAIN s}

\* An arrival puts a watched descriptor on epoll's list.
Arrives(fs) ==
    rdlist' = LET new == (fs \cap watched) \ Elements(rdlist) IN
              IF new = {} THEN rdlist ELSE Append(rdlist, CHOOSE f \in new : TRUE)

Connect(c) ==
    /\ c \notin up
    /\ up' = up \cup {c}
    /\ backlog' = Append(backlog, c)
    /\ Arrives({Listen})
    /\ UNCHANGED <<choice, owner, inbox, watched, gone, sent, heard, refused,
                   stranded, table, result, events, slot, pc>>

Alive(c) == c \in up \ (gone \cup refused)

Send(c) ==
    /\ Alive(c)
    /\ sent[c] < Sends[c]
    /\ sent' = [sent EXCEPT ![c] = @ + 1]
    /\ inbox' = [inbox EXCEPT ![c] = @ + 1]
    /\ Arrives(FdOf(c))
    /\ UNCHANGED <<choice, owner, backlog, watched, up, gone, heard, refused,
                   stranded, table, result, events, slot, pc>>

\* The client shuts the connection down or resets it: recv returns 0 or -1,
\* and the code does the same for both.
Leave(c) ==
    /\ Alive(c)
    /\ gone' = gone \cup {c}
    /\ Arrives(FdOf(c))
    /\ UNCHANGED <<choice, owner, backlog, inbox, watched, up, sent, heard, refused,
                   stranded, table, result, events, slot, pc>>

-----------------------------------------------------------------------------
(* Start: the wait for events.  There is no timeout. *)

TableFds == {table[i] : i \in Slots} \ {defaultfd}

\* rfds is a local set: FD_SET of SetSize or more writes beside it.
SelectOverflows ==
    /\ kind = "select" /\ pc = "wait"
    /\ \E f \in TableFds : f >= SetSize
    /\ pc' = "undefined"
    /\ UNCHANGED <<choice, kernel, clientVars, heard, refused, stranded, table,
                   result, events, slot>>

SelectWait ==
    /\ kind = "select" /\ pc = "wait"
    /\ \A f \in TableFds : f < SetSize
    /\ result' = {f \in TableFds : Readable(f)}
    /\ result' # {}
    /\ slot' = 0
    /\ pc' = "dispatch"
    /\ UNCHANGED <<choice, kernel, clientVars, heard, refused, stranded, table, events>>

\* poll refuses more entries than the process may have descriptors: EINVAL,
\* a log line and the next turn.
PollFails ==
    /\ kind = "poll" /\ pc = "wait"
    /\ Size > limit
    /\ UNCHANGED vars

PollWait ==
    /\ kind = "poll" /\ pc = "wait"
    /\ Size <= limit
    /\ result' = {i \in Slots : table[i] # defaultfd /\ Readable(table[i])}
    /\ result' # {}
    /\ slot' = 0
    /\ pc' = "dispatch"
    /\ UNCHANGED <<choice, kernel, clientVars, heard, refused, stranded, table, events>>

\* EPOLLET would not.
RelistMutant(shown) == <<>>

\* Without EPOLLET what was reported goes back to the end of the list.
Relist(shown) == shown

\* What is still ready of the list, in its order.
StillReady ==
    LET at == {j \in DOMAIN rdlist : Readable(rdlist[j])}
        inOrder == {p \in [1..Cardinality(at) -> at] :
                       \A a, b \in DOMAIN p : a < b => p[a] < p[b]} IN
    {[k \in 1..Cardinality(at) |-> rdlist[p[k]]] : p \in inOrder}

\* epoll_wait looks at the list until _recvs is full and drops what is not
\* ready any more.
EpollWait ==
    /\ kind = "epoll" /\ pc = "wait"
    /\ EpollMade
    /\ \E live \in StillReady :
          LET n == IF Len(live) < MaxEvents THEN Len(live) ELSE MaxEvents IN
          /\ live # <<>>
          /\ events' = SubSeq(live, 1, n)
          /\ rdlist' = SubSeq(live, n + 1, Len(live)) \o Relist(SubSeq(live, 1, n))
    /\ pc' = "dispatch"
    /\ UNCHANGED <<choice, owner, backlog, inbox, watched, clientVars, heard, refused,
                   stranded, table, result, slot>>

EpollWaitFails ==
    /\ kind = "epoll" /\ pc = "wait"
    /\ ~EpollMade
    /\ UNCHANGED vars

-----------------------------------------------------------------------------
(* Dispatcher: the entries in order.  Slots without an event are passed over *)
(* with the next one that has one.                                           *)

\* Every slot in use, with or without an event.
ReadyAtMutant(i) == table[i] # defaultfd

\* FD_ISSET, or revents & POLLIN.
ReadyAt(i) ==
    /\ table[i] # defaultfd
    /\ (IF kind = "select" THEN table[i] ELSE i) \in result

Pending == {i \in Slots : i >= slot /\ ReadyAt(i)}
NextSlot == CHOOSE i \in Pending : \A j \in Pending : i <= j

DispatchDone ==
    /\ pc = "dispatch"
    /\ IF kind = "epoll" THEN events = <<>> ELSE Pending = {}
    /\ pc' = "wait"
    /\ UNCHANGED <<choice, kernel, clientVars, heard, refused, stranded, table,
                   result, events, slot>>

\* The entry the Dispatcher is at, for the two kinds of list.
AtSlot(k) == kind = k /\ pc = "dispatch" /\ Pending # {}
AtEvent == kind = "epoll" /\ pc = "dispatch" /\ events # <<>>

-----------------------------------------------------------------------------
(* Accepter. *)

\* TcpSocket::Accept: without a descriptor it fails and the connection stays.
AcceptFails ==
    /\ FreeFds = {}
    /\ UNCHANGED <<owner, backlog, refused, table, result>>

\* The first unused slot, or none and the connection is closed.
FreeSlots == {i \in Slots : table[i] = defaultfd}

ServerFull ==
    /\ FreeFds # {} /\ backlog # <<>>
    /\ FreeSlots = {}
    /\ refused' = refused \cup {Head(backlog)}
    /\ backlog' = Tail(backlog)
    /\ UNCHANGED <<owner, table, result>>

Enter ==
    LET pos == CHOOSE i \in FreeSlots : \A j \in FreeSlots : i <= j IN
    /\ FreeFds # {} /\ backlog # <<>>
    /\ FreeSlots # {}
    /\ owner' = [owner EXCEPT ![LowestFree] = Head(backlog)]
    /\ backlog' = Tail(backlog)
    /\ table' = [table EXCEPT ![pos] = LowestFree]
    /\ result' = IF kind = "poll" THEN result \ {pos} ELSE result
    /\ UNCHANGED refused

TableAccepter(k) ==
    /\ AtSlot(k)
    /\ table[NextSlot] = Listen
    /\ AcceptFails \/ ServerFull \/ Enter
    /\ slot' = NextSlot + 1
    /\ UNCHANGED <<choice, inbox, rdlist, watched, clientVars, heard, stranded,
                   events, pc>>

SelectAccepter == TableAccepter("select")
PollAccepter == TableAccepter("poll")

\* EPOLL_CTL_ADD may fail; the descriptor then stays open and unwatched.
EpollAccepter ==
    /\ AtEvent
    /\ Head(events) = Listen
    /\ \/ /\ AcceptFails
          /\ UNCHANGED <<rdlist, watched, stranded>>
       \/ /\ FreeFds # {} /\ backlog # <<>>
          /\ owner' = [owner EXCEPT ![LowestFree] = Head(backlog)]
          /\ backlog' = Tail(backlog)
          /\ \/ /\ watched' = watched \cup {LowestFree}
                /\ rdlist' = IF inbox[Head(backlog)] > 0 \/ Head(backlog) \in gone
                             THEN Append(rdlist, LowestFree) ELSE rdlist
                /\ UNCHANGED stranded
             \/ /\ stranded' = stranded \cup {Head(backlog)}
                /\ UNCHANGED <<watched, rdlist>>
          /\ UNCHANGED <<refused, table, result>>
    /\ events' = Tail(events)
    /\ UNCHANGED <<choice, inbox, clientVars, heard, slot, pc>>

-----------------------------------------------------------------------------
(* Recver: one recv. *)

\* recv with MSG_PEEK: the bytes stay in the socket.
ReceiveMutant(f) ==
    /\ inbox[owner[f]] > 0
    /\ heard' = [heard EXCEPT ![owner[f]] = @ + 1]
    /\ UNCHANGED <<owner, inbox>>

\* n > 0: the bytes are printed.
Receive(f) ==
    LET c == owner[f]
        n == IF inbox[c] < RecvSize THEN inbox[c] ELSE RecvSize IN
    /\ inbox[c] > 0
    /\ inbox' = [inbox EXCEPT ![c] = @ - n]
    /\ heard' = [heard EXCEPT ![c] = @ + n]
    /\ UNCHANGED owner

\* n = 0, or n < 0: the client has gone.
Quits(f) ==
    /\ inbox[owner[f]] = 0
    /\ owner[f] \in gone
    /\ owner' = [owner EXCEPT ![f] = None]
    /\ UNCHANGED <<inbox, heard>>

\* The slot keeps the closed descriptor.
ForgetMutant(f) == UNCHANGED <<table, result>>

\* The slot is given back.
Forget(f) ==
    /\ table' = [i \in Slots |-> IF table[i] = f THEN defaultfd ELSE table[i]]
    /\ result' = IF kind = "poll" THEN result \ {NextSlot} ELSE result

TableRecver(k) ==
    /\ AtSlot(k)
    /\ table[NextSlot] # Listen
    /\ owner[table[NextSlot]] # None
    /\ \/ Receive(table[NextSlot]) /\ UNCHANGED <<table, result>>
       \/ Quits(table[NextSlot]) /\ Forget(table[NextSlot])
    /\ slot' = NextSlot + 1
    /\ UNCHANGED <<choice, backlog, rdlist, watched, clientVars, refused, stranded,
                   events, pc>>

SelectRecver == TableRecver("select")
PollRecver == TableRecver("poll")

\* A descriptor is on the list once, if at all.
Without(f) ==
    LET at == CHOOSE j \in DOMAIN rdlist : rdlist[j] = f IN
    IF f \notin Elements(rdlist) THEN rdlist
    ELSE SubSeq(rdlist, 1, at - 1) \o SubSeq(rdlist, at + 1, Len(rdlist))

\* EPOLL_CTL_DEL, then close.
EpollRecver ==
    LET f == Head(events) IN
    /\ AtEvent
    /\ f # Listen
    /\ owner[f] # None
    /\ \/ Receive(f) /\ UNCHANGED <<watched, rdlist>>
       \/ /\ Quits(f)
          /\ watched' = watched \ {f}
          /\ rdlist' = Without(f)
    /\ events' = Tail(events)
    /\ UNCHANGED <<choice, backlog, clientVars, refused, stranded, table, result,
                   slot, pc>>

-----------------------------------------------------------------------------
Accepter == SelectAccepter \/ PollAccepter \/ EpollAccepter
Recver == SelectRecver \/ PollRecver \/ EpollRecver

Server ==
    \/ SelectOverflows \/ SelectWait \/ PollFails \/ PollWait
    \/ EpollWait \/ EpollWaitFails \/ DispatchDone
    \/ Accepter \/ Recver

Next ==
    \/ \E c \in Clients : Connect(c) \/ Send(c) \/ Leave(c)
    \/ Server

\* The process is scheduled; nothing is asked of the clients.
Spec == Init /\ [][Next]_vars /\ WF_vars(Server)

-----------------------------------------------------------------------------
(* Properties. *)

(* Types.  Descriptors and slots stay in range, and what a client sent is   *)
(* what the server heard and what is still in the socket.                   *)
TypeOK ==
    /\ kind \in Kinds /\ limit \in Limits
    /\ owner \in [AllFds -> Clients \cup {None}]
    /\ backlog \in Seq(Clients)
    /\ rdlist \in Seq(AllFds) /\ watched \subseteq AllFds
    /\ gone \subseteq up /\ up \subseteq Clients
    /\ refused \subseteq up /\ stranded \subseteq up
    /\ table \in [Slots -> AllFds \cup {defaultfd}]
    /\ events \in Seq(AllFds)
    /\ slot \in 0..Size
    /\ pc \in {"wait", "dispatch", "undefined"}
    /\ \A c \in Clients : sent[c] = heard[c] + inbox[c]

Watching == IF kind = "epoll" THEN watched ELSE TableFds

Open == {f \in AllFds : owner[f] # None}

(* What the server watches is the listener and every open connection, each   *)
(* once: a descriptor that is closed and watched, or open and not watched,   *)
(* would fail every later wait or never be served (Accepter and Recver of    *)
(* the three servers).  Only a failed EPOLL_CTL_ADD leaves one out.           *)
WatchesTheOpen ==
    /\ Watching \ {Listen} = {f \in Open : owner[f] \notin stranded}
    /\ kind # "epoll" => Listen \in Watching
    /\ \A i, j \in Slots : table[i] = table[j] /\ table[i] # defaultfd => i = j

(* The sockets block, so one accept or recv too many stops the server for    *)
(* everybody: every entry the Dispatcher has still to look at, whatever the   *)
(* entries before it did, is for a descriptor that is ready now.             *)
NeverBlocks ==
    pc = "dispatch" =>
        /\ kind = "epoll" => \A i \in DOMAIN events : Readable(events[i])
        /\ kind # "epoll" => \A i \in Pending : Readable(table[i])

\* Where each server can work at all: select's set holds every descriptor
\* there may be, poll takes the whole table, epoll got its descriptor.
Works ==
    CASE kind = "select" -> limit <= SetSize
      [] kind = "poll" -> Size <= limit
      [] kind = "epoll" -> EpollMade

Served(c) == \E f \in Open \cap Watching : owner[f] = c

(* A server that works accepts every connection unless it is out of          *)
(* descriptors, hears every byte of the clients it watches although one turn *)
(* handles MaxEvents descriptors and reads RecvSize bytes of each, and closes *)
(* its end when they leave.                                                  *)
EveryoneHeard ==
    Works =>
        \A c \in Clients :
            /\ c \in Elements(backlog) ~> c \notin Elements(backlog) \/ FreeFds = {}
            /\ \A n \in 1..Sends[c] :
                   Served(c) /\ sent[c] >= n ~> heard[c] >= n
            /\ Served(c) /\ c \in gone ~> ~Served(c)
=============================================================================
