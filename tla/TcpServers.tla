-------------------------------- MODULE TcpServers --------------------------------
(***************************************************************************)
(* Who holds which socket, and for how long, in the servers that give each    *)
(* connection a process, a thread or a task:                                  *)
(*   netcal   test_04_16/NetCal: a child forks a grandchild, the father waits *)
(*   http     test_04_20: the same, one request to a connection               *)
(*   echo     test_04_15/TcpEchoServer: a detached thread, which runs commands *)
(*   rewrite  Test/NetWork/tcp: a detached thread                             *)
(*   stub     Test/Protocol: a thread that does nothing yet                   *)
(*   session  test_05_03: tasks for a pool of threads, one request each       *)
(*   hello    Test/HTTP: the accepting thread itself, one request each        *)
(* A connection ends for its client when the last process that has the socket *)
(* closed it, and SIGPIPE ends a whole process.                               *)
(***************************************************************************)
EXTENDS Naturals, Sequences, FiniteSets

CONSTANTS
    Kinds,          \* the servers to look at
    Peers,          \* connections, one to a client
    MaxAsks,        \* requests of a client (a bound of the model)
    FdLimits,       \* how many sockets a process may have (RLIMIT_NOFILE)
    PoolThreads     \* defaultnum

VARIABLES
    kind,
    maxfds,         \* one of FdLimits
    lpc, cur,       \* the accepting thread's place, and the socket it has in hand
    status,         \* how it exited: an ExitCode, or a signal
    held,           \* the sockets of every process
    backlog,        \* connections made and not accepted
    first,          \* the place of the child forked for a connection
    worker,         \* the place of who serves a connection
    tasks, pool,    \* session's _q; its threads, NoPool before GetInstance
    client,         \* the client's end
    asked, inbox,   \* requests sent, and those not read yet
    answers         \* responses the client has not read

server == <<kind, maxfds>>
listener == <<lpc, cur, status>>
works == <<first, worker, tasks, pool>>
net == <<backlog, inbox, answers, client, asked>>
vars == <<server, listener, held, works, net>>

Forking == {"netcal", "http"}
Threaded == {"echo", "rewrite", "stub"}
OneRequest == {"http", "session"}

Main == <<"main", "main">>
Listener == "listener"
Child(c) == <<c, "child">>
Grandchild(c) == <<c, "grandchild">>
Command(c) == <<c, "command">>
Procs == {Main} \cup (Peers \X {"child", "grandchild", "command"})
NoPool == PoolThreads + 1
NoOne == "no one"
SIGPIPE == 141

\* The two names are nobody's.
ASSUME ServersAssumption ==
    /\ Listener \notin Peers /\ NoOne \notin Peers
    /\ MaxAsks \in Nat /\ PoolThreads \in Nat

Serving == {"read", "run", "popen", "write", "close"}
ProcessOf(c) ==
    IF kind \notin Forking THEN Main
    ELSE IF first[c] = "serve" THEN Child(c) ELSE Grandchild(c)

Init ==
    /\ kind \in Kinds
    /\ maxfds \in FdLimits
    /\ lpc = "init" /\ cur = NoOne /\ status = 0
    /\ held = [p \in Procs |-> {}]
    /\ backlog = <<>>
    /\ first = [c \in Peers |-> "none"]
    /\ worker = [c \in Peers |-> "none"]
    /\ tasks = <<>> /\ pool = NoPool
    /\ client = [c \in Peers |-> "off"]
    /\ asked = [c \in Peers |-> 0]
    /\ inbox = [c \in Peers |-> 0]
    /\ answers = [c \in Peers |-> 0]

HeldSomewhere(s) == \E p \in Procs : s \in held[p]
Pending(c) == \E i \in DOMAIN backlog : backlog[i] = c

\* The other end of the connection has not been closed.
Connected(c) == HeldSomewhere(c) \/ (Pending(c) /\ HeldSomewhere(Listener))

WorkerAt(c, place) == worker' = [worker EXCEPT ![c] = place]

-----------------------------------------------------------------------------
(* Making the listening socket: socket, bind and listen exit if they fail,    *)
(* each with its code.                                                       *)

BringUp(codes) ==
    /\ lpc = "init"
    /\ \/ lpc' = "accept" /\ held' = [held EXCEPT ![Main] = {Listener}] /\ UNCHANGED status
       \/ \E code \in codes : lpc' = "exited" /\ status' = code /\ UNCHANGED held
    /\ UNCHANGED <<server, cur, first, worker, tasks, pool, net>>

BuildListenSocketMethod == kind \in Forking /\ BringUp({2, 3, 4})
EchoInit == kind = "echo" /\ BringUp({2, 3, 4})
RewriteInit == kind = "rewrite" /\ BringUp({1, 2, 3})
StubInit == kind = "stub" /\ BringUp({2, 3, 4})
SessionInit == kind = "session" /\ BringUp({1, 2, 3})
HelloInit == kind = "hello" /\ BringUp({1})

\* Main ends: its threads go with it.
ExitMain(code) ==
    /\ lpc' = "exited"
    /\ status' = code
    /\ held' = [held EXCEPT ![Main] = {}]
    /\ worker' = [c \in Peers |->
                    IF worker[c] \in Serving \cup {"queued", "lost"} /\ ProcessOf(c) = Main
                    THEN "killed" ELSE worker[c]]
    /\ UNCHANGED cur

-----------------------------------------------------------------------------
(* accept, and who gets the socket. *)

\* With a full table accept fails, and every server calls it again.
Accept(c) ==
    /\ lpc = "accept"
    /\ backlog # <<>> /\ c = Head(backlog)
    /\ Cardinality(held[Main]) < maxfds
    /\ backlog' = Tail(backlog)
    /\ held' = [held EXCEPT ![Main] = @ \cup {c}]
    /\ cur' = c
    /\ lpc' = "spawn"
    /\ UNCHANGED <<server, status, first, worker, tasks, pool, client, asked, inbox, answers>>

\* hello does not set the length it passes: accept may take the connection,
\* refuse the length and drop the connection.
AcceptDrops(c) ==
    /\ kind = "hello"
    /\ lpc = "accept"
    /\ backlog # <<>> /\ c = Head(backlog)
    /\ backlog' = Tail(backlog)
    /\ UNCHANGED <<server, listener, held, works, client, asked, inbox, answers>>

Fork ==
    /\ kind \in Forking
    /\ lpc = "spawn"
    /\ \/ /\ held' = [held EXCEPT ![Child(cur)] = held[Main]]
          /\ first' = [first EXCEPT ![cur] = "listen"]
          /\ lpc' = "close"
          /\ UNCHANGED <<cur, status, worker>>
       \/ ExitMain(6) /\ UNCHANGED first
    /\ UNCHANGED <<server, tasks, pool, net>>

\* Only the child closes its copy.
FatherClosesMutant == held[Main]

\* What the father keeps.
FatherCloses == held[Main] \ {cur}

FatherCloseSock ==
    /\ lpc = "close"
    /\ held' = [held EXCEPT ![Main] = FatherCloses]
    /\ lpc' = "wait"
    /\ UNCHANGED <<server, cur, status, first, worker, tasks, pool, net>>

FatherWait ==
    /\ lpc = "wait"
    /\ first[cur] = "ended"
    /\ lpc' = "accept"
    /\ cur' = NoOne
    /\ UNCHANGED <<server, status, held, works, net>>

ChildClosesListener(c) ==
    /\ first[c] = "listen"
    /\ held' = [held EXCEPT ![Child(c)] = @ \ {Listener}]
    /\ first' = [first EXCEPT ![c] = "fork"]
    /\ UNCHANGED <<server, listener, worker, tasks, pool, net>>

\* `fork() > 0': if it fails the child serves, and the father waits for it.
SecondFork(c) ==
    /\ WorkerAt(c, "read")
    /\ \/ /\ held' = [held EXCEPT ![Grandchild(c)] = held[Child(c)]]
          /\ first' = [first EXCEPT ![c] = "exit"]
       \/ first' = [first EXCEPT ![c] = "serve"] /\ UNCHANGED held

ChildForks(c) ==
    /\ first[c] = "fork"
    /\ SecondFork(c)
    /\ UNCHANGED <<server, listener, tasks, pool, net>>

\* Without exit: the child serves beside the grandchild.
LeavesMutant(c) == first[c] = "exit" /\ worker[c] \in {"done", "killed"}

\* When the child is through.
Leaves(c) == first[c] = "exit"

ChildExits(c) ==
    /\ Leaves(c)
    /\ held' = [held EXCEPT ![Child(c)] = {}]
    /\ first' = [first EXCEPT ![c] = "ended"]
    /\ UNCHANGED <<server, listener, worker, tasks, pool, net>>

\* Nobody looks at what pthread_create returns.
CreateThread ==
    /\ lpc = "spawn"
    /\ WorkerAt(cur, "read") \/ WorkerAt(cur, "lost")
    /\ lpc' = "accept"
    /\ cur' = NoOne
    /\ UNCHANGED <<server, status, held, first, tasks, pool, net>>

EchoRun == kind = "echo" /\ CreateThread
RewriteStart == kind = "rewrite" /\ CreateThread
StubMain == kind = "stub" /\ CreateThread

\* GetInstance makes the pool at the first connection; threads that do not
\* start are not missed.
GetInstance == pool' \in IF pool = NoPool THEN 0..PoolThreads ELSE {pool}

SessionStart ==
    /\ kind = "session"
    /\ lpc = "spawn"
    /\ GetInstance
    /\ tasks' = Append(tasks, cur)
    /\ WorkerAt(cur, "queued")
    /\ lpc' = "accept"
    /\ cur' = NoOne
    /\ UNCHANGED <<server, status, held, first, net>>

\* ThreadRun.
TakeTask(c) ==
    /\ lpc # "exited"
    /\ tasks # <<>> /\ c = Head(tasks)
    /\ Cardinality({d \in Peers : worker[d] \in Serving}) < pool
    /\ tasks' = Tail(tasks)
    /\ WorkerAt(c, "read")
    /\ UNCHANGED <<server, listener, held, first, pool, net>>

HelloServes ==
    /\ kind = "hello"
    /\ lpc = "spawn"
    /\ WorkerAt(cur, "read")
    /\ lpc' = "serve"
    /\ UNCHANGED <<server, cur, status, held, first, tasks, pool, net>>

-----------------------------------------------------------------------------
(* Serving a connection.  read returns what has arrived; then 0 after the      *)
(* client closed, with a reset behind it or not, or an error after a reset     *)
(* that nobody was told of yet.                                               *)

Got(c) == inbox[c] > 0 /\ inbox' = [inbox EXCEPT ![c] = @ - 1]
AtEnd(c) == client[c] \in {"left", "gone"} /\ inbox[c] = 0 /\ UNCHANGED inbox
Failed(c) == client[c] = "reset" /\ inbox[c] = 0 /\ UNCHANGED inbox

Reading(c, k) ==
    /\ kind = k /\ worker[c] = "read"
    /\ UNCHANGED <<server, first, tasks, pool, backlog, answers, client, asked>>

Goes(c, place) == WorkerAt(c, place) /\ UNCHANGED <<listener, held>>

\* Protocol::GetRequest: until read does not return data.
NetCalService(c) ==
    /\ Reading(c, "netcal")
    /\ \/ Got(c) /\ Goes(c, "write")
       \/ (AtEnd(c) \/ Failed(c)) /\ Goes(c, "close")

\* HandlerHttpRequest: some requests have no answer.
HttpService(c) ==
    /\ Reading(c, "http")
    /\ \/ Got(c) /\ (Goes(c, "write") \/ Goes(c, "close"))
       \/ (AtEnd(c) \/ Failed(c)) /\ Goes(c, "close")

EchoService(c) ==
    /\ Reading(c, "echo")
    /\ \/ Got(c) /\ Goes(c, "run")
       \/ (AtEnd(c) \/ Failed(c)) /\ Goes(c, "close")

\* Command::Excute: a command off the list, or one that popen cannot start, is
\* answered at once; the other gets a copy of every socket of the server.
Excute(c) ==
    /\ worker[c] = "run"
    /\ \/ Goes(c, "write")
       \/ /\ held' = [held EXCEPT ![Command(c)] = held[Main]]
          /\ WorkerAt(c, "popen")
          /\ UNCHANGED listener
    /\ UNCHANGED <<server, first, tasks, pool, net>>

\* The command ends, and its output with it; it may have outlived the server.
CommandEnds(c) ==
    /\ held[Command(c)] # {}
    /\ held' = [held EXCEPT ![Command(c)] = {}]
    /\ worker' = IF worker[c] = "popen" THEN [worker EXCEPT ![c] = "write"] ELSE worker
    /\ UNCHANGED <<server, listener, first, tasks, pool, net>>

\* A read error ends the server.
RewriteService(c) ==
    /\ Reading(c, "rewrite")
    /\ \/ Got(c) /\ Goes(c, "write")
       \/ AtEnd(c) /\ Goes(c, "close")
       \/ Failed(c) /\ ExitMain(4)

\* The thread returns, and its socket stays.
StubRoutine(c) ==
    /\ Reading(c, "stub")
    /\ UNCHANGED inbox
    /\ Goes(c, "lost")

\* ProcessConnection closes the socket only if there was a request.
SessionService(c) ==
    /\ Reading(c, "session")
    /\ \/ Got(c) /\ Goes(c, "write")
       \/ (AtEnd(c) \/ Failed(c)) /\ Goes(c, "lost")

\* The end of the stream is answered too.
HelloService(c) ==
    /\ Reading(c, "hello")
    /\ \/ (Got(c) \/ AtEnd(c)) /\ Goes(c, "write")
       \/ Failed(c) /\ ExitMain(1)

\* A process killed by SIGPIPE.
Killed(c) ==
    IF ProcessOf(c) = Main THEN ExitMain(SIGPIPE) /\ UNCHANGED first
    ELSE /\ held' = [held EXCEPT ![ProcessOf(c)] = {}]
         /\ WorkerAt(c, "killed")
         /\ first' = [first EXCEPT ![c] = IF @ = "serve" THEN "ended" ELSE @]
         /\ UNCHANGED listener

\* What follows an answer; hello never closes.
AfterWrite(c) ==
    IF kind = "hello"
    THEN /\ WorkerAt(c, "lost")
         /\ lpc' = "accept" /\ cur' = NoOne
         /\ UNCHANGED <<held, status>>
    ELSE Goes(c, IF kind \in OneRequest THEN "close" ELSE "read")

\* write, send, the results of which nobody looks at: the first after the client
\* closed is answered by a reset, the first after a reset returns its error, and
\* the one after either is SIGPIPE.
Write(c) ==
    /\ worker[c] = "write"
    /\ \/ /\ client[c] # "gone"
          /\ AfterWrite(c)
          /\ answers' = [answers EXCEPT ![c] = IF client[c] = "reset" THEN @ ELSE @ + 1]
          /\ client' = [client EXCEPT ![c] = IF @ \in {"left", "reset"} THEN "gone" ELSE @]
          /\ UNCHANGED first
       \/ client[c] = "gone" /\ Killed(c) /\ UNCHANGED <<answers, client>>
    /\ UNCHANGED <<server, tasks, pool, backlog, asked, inbox>>

\* The process made for the connection ends with it.
CloseSocket(c) ==
    /\ worker[c] = "close"
    /\ held' = [held EXCEPT ![ProcessOf(c)] = @ \ {c}]
    /\ WorkerAt(c, "done")
    /\ first' = [first EXCEPT ![c] = IF @ = "serve" THEN "ended" ELSE @]
    /\ UNCHANGED <<server, listener, tasks, pool, net>>

-----------------------------------------------------------------------------
(* Clients: write a line, read the answer, again; they may leave, with a reset *)
(* if an answer is unread or their host goes down.  A line that is too long for *)
(* one read, and a client that does not wait, ask again before the answer.      *)

Connect(c) ==
    /\ client[c] = "off"
    /\ IF HeldSomewhere(Listener)
       THEN /\ backlog' = Append(backlog, c)
            /\ client' = [client EXCEPT ![c] = "open"]
       ELSE client' = [client EXCEPT ![c] = "refused"] /\ UNCHANGED backlog
    /\ UNCHANGED <<server, listener, held, works, asked, inbox, answers>>

Ask(c) ==
    /\ client[c] \in {"open", "waiting"} /\ asked[c] < MaxAsks
    /\ Connected(c)
    /\ asked' = [asked EXCEPT ![c] = @ + 1]
    /\ inbox' = [inbox EXCEPT ![c] = @ + 1]
    /\ client' = [client EXCEPT ![c] = "waiting"]
    /\ UNCHANGED <<server, listener, held, works, backlog, answers>>

Answered(c) ==
    /\ client[c] = "waiting" /\ answers[c] > 0
    /\ answers' = [answers EXCEPT ![c] = @ - 1]
    /\ client' = [client EXCEPT ![c] = "open"]
    /\ UNCHANGED <<server, listener, held, works, backlog, asked, inbox>>

\* read returns 0: the client of Test ends, the other one's next line ends it.
SeesEnd(c) ==
    /\ client[c] \in {"open", "waiting"} /\ answers[c] = 0
    /\ ~Connected(c)
    /\ client' = [client EXCEPT ![c] = "ended"]
    /\ UNCHANGED <<server, listener, held, works, backlog, asked, inbox, answers>>

Leave(c) ==
    /\ client[c] \in {"open", "waiting"}
    /\ \E how \in {"left", "reset"} :
          /\ answers[c] > 0 => how = "reset"
          /\ client' = [client EXCEPT ![c] = how]
    /\ UNCHANGED <<server, listener, held, works, backlog, asked, inbox, answers>>

ForkServer ==
    \/ BuildListenSocketMethod \/ Fork \/ FatherCloseSock \/ FatherWait
    \/ \E c \in Peers : Accept(c)

EchoClient(c) == Connect(c) \/ Ask(c) \/ Answered(c)
RewriteClient(c) == SeesEnd(c) \/ Leave(c)

Listening ==
    \/ ForkServer
    \/ EchoInit \/ RewriteInit \/ StubInit \/ SessionInit \/ HelloInit
    \/ EchoRun \/ RewriteStart \/ StubMain \/ SessionStart \/ HelloServes

Processes(c) == ChildClosesListener(c) \/ ChildForks(c) \/ ChildExits(c) \/ CommandEnds(c)

Service(c) ==
    \/ NetCalService(c) \/ HttpService(c) \/ EchoService(c) \/ Excute(c)
    \/ RewriteService(c) \/ StubRoutine(c) \/ SessionService(c) \/ HelloService(c)
    \/ Write(c) \/ CloseSocket(c)

Next ==
    \/ Listening
    \/ \E c \in Peers :
          AcceptDrops(c) \/ Processes(c) \/ TakeTask(c) \/ Service(c)
          \/ EchoClient(c) \/ RewriteClient(c)

(* Every thread and process is scheduled, commands end, and a client reads    *)
(* what comes.  Nobody has to connect, ask or leave.                          *)
Fairness ==
    /\ WF_vars(Listening)
    /\ \A c \in Peers :
          /\ WF_vars(Processes(c)) /\ WF_vars(Service(c))
          /\ WF_vars(Answered(c)) /\ WF_vars(SeesEnd(c))

Spec == Init /\ [][Next]_vars /\ Fairness

-----------------------------------------------------------------------------
(* Properties. *)

Places == Serving \cup {"none", "queued", "lost", "done", "killed"}

TypeOK ==
    /\ kind \in Kinds /\ maxfds \in FdLimits
    /\ lpc \in {"init", "accept", "spawn", "close", "wait", "serve", "exited"}
    /\ cur \in Peers \cup {NoOne}
    /\ status \in 0..6 \cup {SIGPIPE}
    /\ held \in [Procs -> SUBSET (Peers \cup {Listener})]
    /\ first \in [Peers -> {"none", "listen", "fork", "exit", "serve", "ended"}]
    /\ worker \in [Peers -> Places]
    /\ pool \in 0..NoPool
    /\ client \in [Peers -> {"off", "open", "waiting", "left", "reset", "gone", "ended",
                         "refused"}]
    /\ asked \in [Peers -> 0..MaxAsks] /\ inbox \in [Peers -> 0..MaxAsks]

(* Sockets have the owners they should, whatever fails and dies: who serves a *)
(* connection has it open; a grandchild has nothing else, and no child keeps  *)
(* the listening socket; a forking server that is back at accept has no       *)
(* client's socket, and a server of threads exactly those it serves, has      *)
(* queued, or has lost (a thread that was not created, a session that Recv    *)
(* found closed, Test's unfinished servers).                                  *)
SocketsOwned ==
    /\ TypeOK
    /\ \A c \in Peers :
          /\ worker[c] \in Serving => c \in held[ProcessOf(c)]
          /\ held[Grandchild(c)] \subseteq {c}
          /\ first[c] # "listen" => held[Child(c)] \subseteq {c}
          /\ first[c] = "ended" => held[Child(c)] = {}
    /\ lpc = "accept" =>
          held[Main] = {Listener} \cup
              IF kind \in Forking THEN {}
              ELSE {c \in Peers : worker[c] \in Serving \cup {"queued", "lost"}}

(* A forking server comes back to accept after each connection, for the child *)
(* it waits for leaves its work to a grandchild; not so when the second fork   *)
(* failed, and hello comes back when its client has asked or left.            *)
AcceptsAgain ==
    lpc \in {"spawn", "close", "wait", "serve"} ~>
        \/ lpc \in {"accept", "exited"}
        \/ \E c \in Peers : first[c] = "serve"
        \/ kind = "hello" /\ \E c \in Peers : cur = c /\ client[c] = "open"

(* A client that waits for somebody who took its connection gets an answer or *)
(* the end of the connection: nobody goes on holding a socket that was closed *)
(* for good, neither the father nor a command of another client.  Not for the  *)
(* stub, and not for hello's second request: they lose the socket.            *)
WaitingEnds ==
    \A c \in Peers :
        client[c] = "waiting" /\ worker[c] \in Serving \cup {"done", "killed"}
            ~> client[c] # "waiting" \/ worker[c] = "lost"
=============================================================================
