-------------------------------- MODULE Reactor --------------------------------
(***************************************************************************)
(* The single-threaded epoll server of test_06_18/Server: Reactor with its  *)
(* Epoller, one Listener, one Channel per client, and the calculator        *)
(* protocol behind the handler of Main.cc.  Every descriptor is watched     *)
(* edge-triggered, so a readiness the code does not act upon is announced    *)
(* once and then no more; and the clients run between any two system calls  *)
(* of the reactor.                                                          *)
(*                                                                         *)
(* A client's bytes are a sequence of pieces: "part" does not complete a    *)
(* package, "good" completes one whose JSON Deserialize accepts, "bad"      *)
(* completes one it refuses, and "fatal" is where the handler ends the      *)
(* process: a header std::stoi throws on, JSON of another type than asInt   *)
(* converts, or INT_MIN / -1.  (A header with a negative length, which       *)
(* Decode cuts as no client meant it, is not written here.)  A piece is      *)
(* named by its place in the stream, a reply by the piece it answers.       *)
(***************************************************************************)
EXTENDS Integers, Sequences, FiniteSets

CONSTANTS
    Clients,        \* each connects at most once (a bound of the model)
    Readers,        \* the clients that keep reading their replies
    Stream,         \* Stream[c]: the pieces client c may write
    Listen, Fds,    \* the listening descriptor; the others a process may open
    RecvSize,       \* pieces one recv returns at most (SIZE - 1 bytes)
    SndCap,         \* pieces a socket's send buffer holds
    RecvsSize,      \* recvs_size, events one epoll_wait returns at most
    None,           \* no client, no descriptor
    Inherited       \* a file that was open before main

ASSUME ReactorAssumption ==
    /\ IsFiniteSet(Clients)
    /\ Readers \subseteq Clients
    /\ Stream \in [Clients -> Seq({"part", "good", "bad", "fatal"})]
    /\ Fds \subseteq Nat
    /\ Listen \in Nat \ Fds
    /\ RecvSize \in Nat \ {0}
    /\ SndCap \in Nat \ {0}
    /\ RecvsSize \in Nat \ {0}
    /\ None \notin Clients \cup Nat
    /\ Inherited \notin Clients \cup {None}

VARIABLES
    \* the kernel
    file,       \* the client whose socket a descriptor is
    interest,   \* the events epoll watches on a descriptor; {}: not in epoll
    ready,      \* epoll's ready list
    backlog,    \* connections not accepted yet
    rcvq, sndq, \* receive and send buffer of each client's socket at the server
    \* the clients
    up,         \* clients that have connected
    fin, rst,   \* clients that have shut down; that have reset the connection
    wrote,      \* pieces each client has written
    replies,    \* replies each client has read
    \* the reactor
    conns,      \* keys of _connections
    events,     \* Connection::_events
    inb, outb,  \* Channel::_inbuffer, _outbuffer
    recvs,      \* the events of the last epoll_wait still to dispatch; the
                \* first is the current one, less the bits already handled
    newfd,      \* the descriptor accept returned, before AddConnection
    pc,         \* where the reactor thread is
    emfile,     \* history: accept has failed for want of a descriptor
    refused     \* history: clients whose socket epoll_ctl would not watch

kernel == <<file, interest, ready, backlog, rcvq, sndq>>
peers == <<up, fin, rst, wrote, replies>>
server == <<conns, events, inb, outb, recvs, newfd, pc, emfile, refused>>
vars == <<kernel, peers, server>>

All == Fds \cup {Listen}
Mask == {"IN", "OUT"}

PC == {"wait", "dispatch", "accept", "add", "recv", "send", "enable", "lost"}

TypeOK ==
    /\ file \in [Fds -> Clients \cup {None, Inherited}]
    /\ interest \in [All -> SUBSET Mask]
    /\ ready \in Seq(All)
    /\ backlog \in Seq(Clients)
    /\ rcvq \in [Clients -> Seq(Nat)]
    /\ sndq \in [Clients -> Seq(Nat)]
    /\ up \subseteq Clients
    /\ fin \subseteq up
    /\ rst \subseteq up
    /\ wrote \in [Clients -> Nat]
    /\ replies \in [Clients -> Seq(Nat)]
    /\ conns \subseteq All
    /\ events \in [All -> SUBSET Mask]
    /\ inb \in [Fds -> Seq(Nat)]
    /\ outb \in [Fds -> Seq(Nat)]
    /\ recvs \in Seq([fd : All, events : SUBSET (Mask \cup {"ERR"})])
    /\ newfd \in Fds \cup {None}
    /\ pc \in PC
    /\ emfile \in BOOLEAN
    /\ refused \subseteq Clients
    /\ pc \in {"recv", "send", "enable"} => recvs # <<>> /\ recvs[1].fd \in Fds

\* Main.cc: the listener is the first connection, then Loop.
Init ==
    /\ file \in [Fds -> {None, Inherited}]
    /\ interest = [f \in All |-> IF f = Listen THEN {"IN"} ELSE {}]
    /\ ready = <<>>
    /\ backlog = <<>>
    /\ rcvq = [c \in Clients |-> <<>>]
    /\ sndq = [c \in Clients |-> <<>>]
    /\ up = {}
    /\ fin = {}
    /\ rst = {}
    /\ wrote = [c \in Clients |-> 0]
    /\ replies = [c \in Clients |-> <<>>]
    /\ conns = {Listen}
    /\ events = interest
    /\ inb = [f \in Fds |-> <<>>]
    /\ outb = [f \in Fds |-> <<>>]
    /\ recvs = <<>>
    /\ newfd = None
    /\ pc = "wait"
    /\ emfile = FALSE
    /\ refused = {}

-----------------------------------------------------------------------------
(* The kernel's side of epoll. *)

Elements(s) == {s[i] : i \in DOMAIN s}

\* The entries of s at the places `at', in their order.
Picked(s, at) ==
    [k \in 1..Cardinality(at) |->
        s[CHOOSE j \in at : Cardinality({i \in at : i <= j}) = k]]

\* What poll reports of a descriptor.  A reset is EPOLLERR | EPOLLHUP; the
\* code treats the two alike, and "ERR" is both.
Poll(f) ==
    IF f = Listen
    THEN {e \in {"IN"} : backlog # <<>>}
    ELSE LET c == file[f] IN
         {e \in {"IN"} : rcvq[c] # <<>> \/ c \in fin \cup rst}
         \cup {e \in {"OUT"} : Len(sndq[c]) < SndCap \/ c \in rst}
         \cup {e \in {"ERR"} : c \in rst}

\* ERR is reported whether it was asked for or not.
Reported(f) ==
    IF interest[f] = {} THEN {} ELSE Poll(f) \cap (interest[f] \cup {"ERR"})

Listed(f) == IF f \in Elements(ready) THEN ready ELSE Append(ready, f)

\* An edge with the event bits es at descriptor f.
Edge(f, es) ==
    ready' = IF interest[f] \cap es # {} THEN Listed(f) ELSE ready

\* The same at the socket of client c, which may not be accepted yet.
EdgeAt(c, es) ==
    IF \E f \in Fds : file[f] = c
    THEN Edge(CHOOSE f \in Fds : file[f] = c, es)
    ELSE ready' = ready

-----------------------------------------------------------------------------
(* The clients. *)

Connect(c) ==
    /\ c \notin up
    /\ up' = up \cup {c}
    /\ backlog' = Append(backlog, c)
    /\ Edge(Listen, {"IN"})
    /\ UNCHANGED <<file, interest, rcvq, sndq, fin, rst, wrote, replies,
                   server>>

Write(c) ==
    /\ c \in up \ (fin \cup rst)
    /\ wrote[c] < Len(Stream[c])
    /\ wrote' = [wrote EXCEPT ![c] = @ + 1]
    /\ rcvq' = [rcvq EXCEPT ![c] = Append(@, wrote[c] + 1)]
    /\ EdgeAt(c, {"IN"})
    /\ UNCHANGED <<file, interest, backlog, sndq, up, fin, rst, replies,
                   server>>

Shut(c) ==
    /\ c \in up \ (fin \cup rst)
    /\ fin' = fin \cup {c}
    /\ EdgeAt(c, {"IN"})
    /\ UNCHANGED <<file, interest, backlog, rcvq, sndq, up, rst, wrote, replies,
                   server>>

Reset(c) ==
    /\ c \in up \ rst
    /\ rst' = rst \cup {c}
    /\ EdgeAt(c, Mask)
    /\ UNCHANGED <<file, interest, backlog, rcvq, sndq, up, fin, wrote, replies,
                   server>>

\* The client reads a reply.  The edge is the one from full to writable.
Read(c) ==
    /\ c \notin rst
    /\ sndq[c] # <<>>
    /\ replies' = [replies EXCEPT ![c] = Append(@, Head(sndq[c]))]
    /\ sndq' = [sndq EXCEPT ![c] = Tail(@)]
    /\ IF Len(sndq[c]) = SndCap THEN EdgeAt(c, {"OUT"}) ELSE ready' = ready
    /\ UNCHANGED <<file, interest, backlog, rcvq, up, fin, rst, wrote, server>>

-----------------------------------------------------------------------------
(* Reactor::Loop and Dispatcher. *)

\* Epoller::WaitEvents: the ready list is polled in order until the array is
\* full; what was looked at leaves the list (edge-triggered).
WaitEvents ==
    LET live == Picked(ready, {i \in DOMAIN ready : Reported(ready[i]) # {}})
        n == IF Len(live) < RecvsSize THEN Len(live) ELSE RecvsSize IN
    /\ pc = "wait"
    /\ live # <<>>
    /\ recvs' = [i \in 1..n |-> [fd |-> live[i], events |-> Reported(live[i])]]
    /\ ready' = SubSeq(live, n + 1, Len(live))
    /\ pc' = "dispatch"
    /\ UNCHANGED <<file, interest, backlog, rcvq, sndq, peers, conns, events, inb,
                   outb, newfd, emfile, refused>>

\* The bits of the current event still to handle, errors turned into I/O.
Due == IF "ERR" \in recvs[1].events THEN Mask ELSE recvs[1].events

Handled(bits) == recvs' = [recvs EXCEPT ![1].events = Due \ bits]

Cur == recvs[1].fd

\* One Recver for every connection, as if it were not virtual.
DispatchInMutant ==
    /\ pc = "dispatch"
    /\ recvs # <<>>
    /\ "IN" \in Due
    /\ Handled({"IN"})
    /\ pc' = IF Cur \in conns THEN "recv" ELSE "dispatch"
    /\ UNCHANGED <<kernel, peers, conns, events, inb, outb, newfd, emfile,
                   refused>>

DispatchIn ==
    /\ pc = "dispatch"
    /\ recvs # <<>>
    /\ "IN" \in Due
    /\ Handled({"IN"})
    /\ pc' = CASE Cur \notin conns -> "dispatch"
               [] Cur = Listen -> "accept"
               [] OTHER -> "recv"
    /\ UNCHANGED <<kernel, peers, conns, events, inb, outb, newfd, emfile,
                   refused>>

\* Listener::Sender does nothing.
DispatchOut ==
    /\ pc = "dispatch"
    /\ recvs # <<>>
    /\ "IN" \notin Due
    /\ "OUT" \in Due
    /\ Handled({"OUT"})
    /\ pc' = IF Cur \in conns \ {Listen} THEN "send" ELSE "dispatch"
    /\ UNCHANGED <<kernel, peers, conns, events, inb, outb, newfd, emfile,
                   refused>>

DispatchNext ==
    /\ pc = "dispatch"
    /\ recvs # <<>> => Due = {}
    /\ recvs' = IF recvs = <<>> THEN recvs ELSE Tail(recvs)
    /\ pc' = IF recvs' = <<>> THEN "wait" ELSE "dispatch"
    /\ UNCHANGED <<kernel, peers, conns, events, inb, outb, newfd, emfile,
                   refused>>

\* The descriptor stays open.
DelConnectionMutant(f) ==
    /\ interest' = [interest EXCEPT ![f] = {}]
    /\ ready' = Picked(ready, {i \in DOMAIN ready : ready[i] # f})
    /\ conns' = conns \ {f}
    /\ events' = [events EXCEPT ![f] = {}]
    /\ inb' = [inb EXCEPT ![f] = <<>>]
    /\ outb' = [outb EXCEPT ![f] = <<>>]
    /\ file' = file

\* Excepter: Reactor::DelConnection, and the Channel goes with its map entry.
DelConnection(f) ==
    /\ interest' = [interest EXCEPT ![f] = {}]
    /\ ready' = Picked(ready, {i \in DOMAIN ready : ready[i] # f})
    /\ conns' = conns \ {f}
    /\ events' = [events EXCEPT ![f] = {}]
    /\ inb' = [inb EXCEPT ![f] = <<>>]
    /\ outb' = [outb EXCEPT ![f] = <<>>]
    /\ file' = [file EXCEPT ![f] = None]

-----------------------------------------------------------------------------
(* Listener::Recver: accept until there is nothing left.  EINTR (the code   *)
(* tries again, here and in recv and send) needs a signal handler, and the  *)
(* program installs none.                                                   *)

FreeFds == {f \in Fds : file[f] = None}
LowestFree == CHOOSE f \in FreeFds : \A g \in FreeFds : f <= g

Accept ==
    /\ pc = "accept"
    /\ FreeFds # {}
    /\ backlog # <<>>
    /\ newfd' = LowestFree
    /\ file' = [file EXCEPT ![LowestFree] = Head(backlog)]
    /\ backlog' = Tail(backlog)
    /\ pc' = "add"
    /\ UNCHANGED <<interest, ready, rcvq, sndq, peers, conns, events, inb, outb,
                   recvs, emfile, refused>>

\* ACCEPT_DONE
AcceptDone ==
    /\ pc = "accept"
    /\ FreeFds # {}
    /\ backlog = <<>>
    /\ pc' = "dispatch"
    /\ UNCHANGED <<kernel, peers, conns, events, inb, outb, recvs, newfd,
                   emfile, refused>>

\* Another connection is given up to make room.
AcceptFailsMutant ==
    /\ pc = "accept"
    /\ FreeFds = {}
    /\ emfile' = (emfile \/ backlog # <<>>)
    /\ IF conns = {Listen}
       THEN UNCHANGED <<file, interest, ready, conns, events, inb, outb>>
       ELSE \E f \in conns \ {Listen} : DelConnection(f)
    /\ pc' = "dispatch"
    /\ UNCHANGED <<backlog, rcvq, sndq, peers, recvs, newfd, refused>>

\* ACCEPT_ERR: accept looks for a descriptor before it looks for a
\* connection.  The loop ends, and with it this edge of the listener.
AcceptFails ==
    /\ pc = "accept"
    /\ FreeFds = {}
    /\ emfile' = (emfile \/ backlog # <<>>)
    /\ pc' = "dispatch"
    /\ UNCHANGED <<kernel, peers, conns, events, inb, outb, recvs, newfd,
                   refused>>

\* Reactor::AddConnection of a new Channel, whose buffers are empty.
\* EPOLL_CTL_ADD lists the descriptor at once when it is ready already.  When
\* it fails (ENOMEM, ENOSPC) ModEventHelper logs that and the connection is
\* kept all the same.
AddConnection(works) ==
    /\ pc = "add"
    /\ IF newfd \in conns
       THEN UNCHANGED <<interest, ready, conns, events, inb, outb, refused>>
       ELSE /\ IF works
               THEN /\ interest' = [interest EXCEPT ![newfd] = {"IN"}]
                    /\ ready' = IF Poll(newfd) \cap {"IN", "ERR"} # {}
                                THEN Listed(newfd) ELSE ready
                    /\ refused' = refused
               ELSE /\ refused' = refused \cup {file[newfd]}
                    /\ UNCHANGED <<interest, ready>>
            /\ conns' = conns \cup {newfd}
            /\ events' = [events EXCEPT ![newfd] = {"IN"}]
            /\ inb' = [inb EXCEPT ![newfd] = <<>>]
            /\ outb' = [outb EXCEPT ![newfd] = <<>>]
    /\ newfd' = None
    /\ pc' = "accept"
    /\ UNCHANGED <<file, backlog, rcvq, sndq, peers, recvs, emfile>>

-----------------------------------------------------------------------------
(* Channel::Recver. *)

Min2(m, n) == IF m < n THEN m ELSE n

Peer == file[Cur]

\* One recv per edge.
RecvDataMutant ==
    /\ pc = "recv"
    /\ rcvq[Peer] # <<>>
    /\ LET n == Min2(RecvSize, Len(rcvq[Peer])) IN
       /\ inb' = [inb EXCEPT ![Cur] = @ \o SubSeq(rcvq[Peer], 1, n)]
       /\ rcvq' = [rcvq EXCEPT ![Peer] = SubSeq(@, n + 1, Len(@))]
    /\ pc' = "dispatch"
    /\ UNCHANGED <<file, interest, ready, backlog, sndq, peers, conns, events,
                   outb, recvs, newfd, emfile, refused>>

RecvData ==
    /\ pc = "recv"
    /\ rcvq[Peer] # <<>>
    /\ LET n == Min2(RecvSize, Len(rcvq[Peer])) IN
       /\ inb' = [inb EXCEPT ![Cur] = @ \o SubSeq(rcvq[Peer], 1, n)]
       /\ rcvq' = [rcvq EXCEPT ![Peer] = SubSeq(@, n + 1, Len(@))]
    /\ UNCHANGED <<file, interest, ready, backlog, sndq, peers, conns, events,
                   outb, recvs, newfd, pc, emfile, refused>>

\* recv returns 0: whatever the buffers hold is dropped with the Channel.
RecvClosed ==
    /\ pc = "recv"
    /\ rcvq[Peer] = <<>>
    /\ Peer \in fin
    /\ DelConnection(Cur)
    /\ pc' = "dispatch"
    /\ UNCHANGED <<backlog, rcvq, sndq, peers, recvs, newfd, emfile, refused>>

\* Any other error (ECONNRESET): Excepter has destroyed the Channel and the
\* loop goes on, with recv on a closed descriptor of a freed object.  Whether
\* it loops for ever on EBADF or crashes, the reactor serves nobody again.
RecvError ==
    /\ pc = "recv"
    /\ rcvq[Peer] = <<>>
    /\ Peer \in rst \ fin
    /\ DelConnection(Cur)
    /\ pc' = "lost"
    /\ UNCHANGED <<backlog, rcvq, sndq, peers, recvs, newfd, emfile, refused>>

\* The handler of Main.cc on _inbuffer: Decode takes complete packages off the
\* front, Excute answers each whose JSON is accepted.
Kind(c, i) == Stream[c][i]

Decoded(c, s) ==
    LET done == {i \in DOMAIN s : Kind(c, s[i]) # "part"} IN
    IF done = {} THEN 0 ELSE CHOOSE i \in done : \A j \in done : j <= i

Answers(c, s) == Picked(s, {i \in DOMAIN s : Kind(c, s[i]) = "good"})

Fatal(c, s) == \E i \in DOMAIN s : Kind(c, s[i]) = "fatal"

\* EAGAIN, and the handler comes to a fatal piece: nothing catches what is
\* thrown, and the process ends with every connection.  The answers to the
\* packages before it, still in the handler's string, go with it.
HandlerDies ==
    /\ pc = "recv"
    /\ rcvq[Peer] = <<>>
    /\ Peer \notin fin \cup rst
    /\ Fatal(Peer, inb[Cur])
    /\ pc' = "lost"
    /\ UNCHANGED <<kernel, peers, conns, events, inb, outb, recvs, newfd, emfile,
                   refused>>

\* EAGAIN, then the handler, then Sender if there is something to send.
RecvBlocks ==
    /\ pc = "recv"
    /\ rcvq[Peer] = <<>>
    /\ Peer \notin fin \cup rst
    /\ ~Fatal(Peer, inb[Cur])
    /\ LET n == Decoded(Peer, inb[Cur]) IN
       /\ inb' = [inb EXCEPT ![Cur] = SubSeq(@, n + 1, Len(@))]
       /\ outb' = [outb EXCEPT ![Cur] = @ \o Answers(Peer, SubSeq(inb[Cur], 1, n))]
    /\ pc' = IF outb'[Cur] # <<>> THEN "send" ELSE "dispatch"
    /\ UNCHANGED <<kernel, peers, conns, events, recvs, newfd, emfile, refused>>

-----------------------------------------------------------------------------
(* Channel::Sender and Reactor::EnableReadWrite. *)

\* What was not sent is dropped with what was.
SendSomeMutant ==
    /\ pc = "send"
    /\ Peer \notin rst
    /\ outb[Cur] # <<>>
    /\ Len(sndq[Peer]) < SndCap
    /\ LET n == Min2(SndCap - Len(sndq[Peer]), Len(outb[Cur])) IN
       /\ sndq' = [sndq EXCEPT ![Peer] = @ \o SubSeq(outb[Cur], 1, n)]
       /\ outb' = [outb EXCEPT ![Cur] = <<>>]
    /\ pc' = IF outb'[Cur] = <<>> THEN "enable" ELSE "send"
    /\ UNCHANGED <<file, interest, ready, backlog, rcvq, peers, conns, events, inb,
                   recvs, newfd, emfile, refused>>

\* send returns n > 0; the loop ends when the buffer is empty.
SendSome ==
    /\ pc = "send"
    /\ Peer \notin rst
    /\ outb[Cur] # <<>>
    /\ Len(sndq[Peer]) < SndCap
    /\ LET n == Min2(SndCap - Len(sndq[Peer]), Len(outb[Cur])) IN
       /\ sndq' = [sndq EXCEPT ![Peer] = @ \o SubSeq(outb[Cur], 1, n)]
       /\ outb' = [outb EXCEPT ![Cur] = SubSeq(@, n + 1, Len(@))]
    /\ pc' = IF outb'[Cur] = <<>> THEN "enable" ELSE "send"
    /\ UNCHANGED <<file, interest, ready, backlog, rcvq, peers, conns, events, inb,
                   recvs, newfd, emfile, refused>>

\* send returns 0 for an empty buffer, or EAGAIN.
SendStops ==
    /\ pc = "send"
    /\ Peer \notin rst
    /\ outb[Cur] = <<>> \/ Len(sndq[Peer]) >= SndCap
    /\ pc' = "enable"
    /\ UNCHANGED <<kernel, peers, conns, events, inb, outb, recvs, newfd,
                   emfile, refused>>

\* Any other error: the loop has no way out but SIGPIPE, which ends the process.
SendError ==
    /\ pc = "send"
    /\ Peer \in rst
    /\ pc' = "lost"
    /\ UNCHANGED <<kernel, peers, conns, events, inb, outb, recvs, newfd,
                   emfile, refused>>

\* EPOLLOUT is never asked for.
EnableReadWriteMutant ==
    /\ pc = "enable"
    /\ events' = [events EXCEPT ![Cur] = {"IN"}]
    /\ interest' = [interest EXCEPT ![Cur] = {"IN"}]
    /\ ready' = IF Poll(Cur) \cap (interest'[Cur] \cup {"ERR"}) # {}
                THEN Listed(Cur) ELSE ready
    /\ pc' = "dispatch"
    /\ UNCHANGED <<file, backlog, rcvq, sndq, peers, conns, inb, outb, recvs,
                   newfd, emfile, refused>>

\* EnableReadWrite(_sockfd, true, !_outbuffer.empty()).  EPOLL_CTL_MOD lists
\* the descriptor at once when it is ready for the new mask; of a descriptor
\* that was never added it fails, which is logged.
EnableReadWrite ==
    /\ pc = "enable"
    /\ LET mask == {"IN"} \cup {e \in {"OUT"} : outb[Cur] # <<>>} IN
       IF Cur \notin conns
       THEN UNCHANGED <<events, interest, ready>>
       ELSE /\ events' = [events EXCEPT ![Cur] = mask]
            /\ IF interest[Cur] = {}
               THEN UNCHANGED <<interest, ready>>
               ELSE /\ interest' = [interest EXCEPT ![Cur] = mask]
                    /\ ready' = IF Poll(Cur) \cap (mask \cup {"ERR"}) # {}
                                THEN Listed(Cur) ELSE ready
    /\ pc' = "dispatch"
    /\ UNCHANGED <<file, backlog, rcvq, sndq, peers, conns, inb, outb, recvs,
                   newfd, emfile, refused>>

Loop ==
    \/ WaitEvents \/ DispatchIn \/ DispatchOut \/ DispatchNext
    \/ Accept \/ AcceptDone \/ AcceptFails
    \/ \E works \in BOOLEAN : AddConnection(works)
    \/ RecvData \/ RecvClosed \/ RecvError \/ HandlerDies \/ RecvBlocks
    \/ SendSome \/ SendStops \/ SendError \/ EnableReadWrite

Client(c) == Connect(c) \/ Write(c) \/ Shut(c) \/ Reset(c) \/ Read(c)

Next == Loop \/ \E c \in Clients : Client(c)

Spec == Init /\ [][Next]_vars

\* The one thread of the reactor keeps running; readers keep reading.
FairSpec ==
    /\ Spec
    /\ WF_vars(Loop)
    /\ \A c \in Readers : WF_vars(Read(c))

-----------------------------------------------------------------------------
(* Properties. *)

Announced(f, e) ==
    \/ f \in Elements(ready)
    \/ \E i \in DOMAIN recvs : recvs[i].fd = f /\ recvs[i].events \cap {e, "ERR"} # {}

\* With edge triggering, bytes, an end of stream or a connection the reactor
\* has not taken are taken only if the descriptor is still listed, or its event
\* still to dispatch, or its Recver still in its loop.  (Channel.hpp:36-67 and
\* Listener.hpp:36-62 loop for this; the exceptions are a failed accept, and a
\* socket that was never watched, Epoller.hpp:29-35.)
NoInputForgotten ==
    pc # "lost" =>
        /\ \A f \in conns \cap Fds :
              "IN" \in Poll(f) /\ file[f] \notin refused =>
                  Announced(f, "IN") \/ (pc = "recv" /\ Cur = f)
        /\ backlog # <<>> =>
              emfile \/ Announced(Listen, "IN") \/ pc \in {"accept", "add"}

\* Replies that did not fit are sent later only if epoll watches for room; and
\* room that is there already must be announced, although it came between the
\* EAGAIN of send and the epoll_ctl.  (Channel.hpp:117-128, Reactor.hpp:136-151.)
NoOutputForgotten ==
    pc # "lost" =>
        \A f \in conns \cap Fds :
            outb[f] # <<>> =>
                \/ pc \in {"send", "enable"} /\ Cur = f
                \/ /\ "OUT" \in interest[f]
                   /\ "OUT" \in Poll(f) => Announced(f, "OUT")

\* What a client has read, what is on its way to it and what the Channel still
\* holds for it are, in order, exactly the answers to the packages decoded so
\* far: nothing lost, doubled, reordered or left over from the descriptor's
\* last owner.  (Channel.hpp:34-115, Main.cc:38-55.)
RepliesMatchRequests ==
    \A f \in conns \cap Fds :
        LET c == file[f]
            n == wrote[c] - Len(rcvq[c]) - Len(inb[f])
        IN replies[c] \o sndq[c] \o outb[f] = Answers(c, [i \in 1..n |-> i])

\* Nothing of the i-th event of the batch has been dispatched.
Waits(i) == i > 1 \/ recvs[i].events \cap {"IN", "ERR"} # {}

\* A result of epoll_wait is acted upon after the connections before it in the
\* batch have been read, answered, closed and accepted: an event that waits its
\* turn must still name an open connection and still be true of its socket, or
\* Dispatcher reads a stranger's.  (Reactor.hpp:46-77 checks only that the
\* number is a key of _connections.)
BatchCurrent ==
    \A i \in DOMAIN recvs :
        Waits(i) => /\ recvs[i].fd \in conns
                    /\ recvs[i].events \subseteq Poll(recvs[i].fd)

\* The server of all is down through one client: it has reset its connection,
\* or the reactor has read a fatal piece of it.
LostToClient ==
    /\ pc = "lost"
    /\ \E c \in Clients :
          \/ c \in rst
          \/ \E i \in 1..(wrote[c] - Len(rcvq[c])) : Kind(c, i) = "fatal"

\* A client in the backlog that no edge announces any more.
NotAccepted(c) == emfile /\ c \in Elements(backlog)

\* A complete request with valid JSON is answered, whatever the other clients
\* do short of taking the server down, as long as its client stays, was
\* accepted and is watched.
RequestsAnswered ==
    \A c \in Readers : \A i \in DOMAIN Stream[c] :
        (Kind(c, i) = "good" /\ wrote[c] >= i)
            ~> (i \in Elements(replies[c]) \/ c \in fin \cup rst \cup refused
                \/ LostToClient \/ NotAccepted(c))

\* The descriptor of a client that has closed is closed too; but for one epoll
\* never watched, the number of which is gone for good.
GoneForgotten ==
    \A c \in Clients :
        c \in fin ~> (\/ c \notin Elements(backlog) /\ \A f \in Fds : file[f] # c
                      \/ c \in refused \/ LostToClient \/ NotAccepted(c))
===============================================================================
