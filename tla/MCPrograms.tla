------------------------------ MODULE MCPrograms ------------------------------
(***************************************************************************)
(* The programs of one or two processes, checked in one run: they have        *)
(* nothing to do with each other, so the initial state chooses one, and its   *)
(* variables are the first of r1, r2, ... in the order in which its module    *)
(* declares them.                                                             *)
(***************************************************************************)
EXTENDS Services

CONSTANTS
    LogServers, LogClients, Lines, ExitLine, QueueMax, MaxLine, MaxIds, MaxTime,
    Rounds, ShmServers, ShmClients, Alphabet, Memory, PipeKinds,
    PipeWriters, Texts, PipeSize, ReadSize,
    MaxCalls, MaxInputs, MaxDatagrams, Tickets, MaxSignals, \* threads
    MaxSent, UnblockRound, MaxRings, NUM, Registered, MaxChars

ASSUME ProgramsAssumption ==
    /\ QueueMax \in Nat /\ MaxIds \in Nat /\ MaxTime \in Nat
    /\ Nothing \notin 0..(MaxTime + 1)
    /\ \A lines \in SUBSET Lines : lines # Nothing
    /\ Rounds \in Nat \ {0}
    /\ ShmServers \cap ShmClients = {}
    /\ Memory \in Nat /\ Alphabet \in 0..(Memory - 1)
    /\ Texts \in Nat /\ PipeSize \in Nat /\ ReadSize \in Nat \ {0}
    /\ MaxCalls \in Nat /\ Tickets \in Nat
    /\ NUM \in Nat /\ Registered \in 1..(NUM - 1)

VARIABLE program        \* the one that runs

-----------------------------------------------------------------------------
(* The programs that are not among the Services. *)

Log == INSTANCE LogChain WITH
    qid <- r1, queue <- r2, lastid <- r3, fd <- r4, spc <- r5, text <- r6,
    ofs <- r7, cpc <- r8, archiver <- r9, log <- r10, backups <- r11,
    archives <- r12, now <- r13, accepted <- r14, lost <- r15, named <- r16
Sem == INSTANCE SemWriters WITH
    wpc <- r1, root <- r2, sem <- r3, semid <- r4, undo <- r5, round <- r6,
    half <- r7
Shm == INSTANCE SharedMemory WITH
    asroot <- r1, seg <- r2, mem <- r3, ppc <- r4, at <- r5, shown <- r6
Pipe == INSTANCE NamedPipe WITH
    style <- r1, fifo <- r2, pipe <- r3, rpc <- r4, wrpc <- r5, wrote <- r6,
    read <- r7, late <- r8

Class == INSTANCE ThreadClass WITH
    class <- r1, isdetach <- r2, isrunning <- r3, tid <- r4, threads <- r5,
    failed <- r6, calls <- r7, undefined <- r8
Chat == INSTANCE ChatClient WITH
    mpc <- r1, rpc <- r2, sendpc <- r3, id <- r4, cancelled <- r5,
    inputs <- r6, arrived <- r7, shown <- r8, failed <- r9, early <- r10,
    crashed <- r11
Lock == INSTANCE ThreadExercises WITH
    Threads <- {1, 2, 3}, kind <- r1, made <- r2, tids <- r3, joined <- r4,
    pc <- r5, holder <- r6, count <- r7, out <- r8, wakeups <- r9,
    signals <- r10, overrun <- r11
Sig == INSTANCE SignalExercises WITH
    Rounds <- UnblockRound, kind <- r1, ppc <- r2, inside <- r3, mask <- r4,
    pending <- r5, sent <- r6, handled <- r7, rounds <- r8, shown <- r9,
    armed <- r10, ran <- r11, child <- r12
Kids == INSTANCE ChildExercises WITH
    MaxWrites <- MaxChars, kind <- r1, fpc <- r2, cpc <- r3, ran <- r4,
    stream <- r5, written <- r6, printed <- r7, dropped <- r8, flag <- r9,
    seg <- r10

vars == <<program, r1, r2, r3, r4, r5, r6, r7, r8, r9,
          r10, r11, r12, r13, r14, r15, r16, r17>>

\* The variables a program does not use, from r7 on.
After6 == <<r7, r8, r9, r10, r11, r12, r13, r14, r15, r16, r17>>
After7 == <<r8, r9, r10, r11, r12, r13, r14, r15, r16, r17>>
After8 == <<r9, r10, r11, r12, r13, r14, r15, r16, r17>>
After10 == <<r11, r12, r13, r14, r15, r16, r17>>
After11 == <<r12, r13, r14, r15, r16, r17>>
After12 == <<r13, r14, r15, r16, r17>>
After14 == <<r15, r16, r17>>
After16 == <<r17>>

Zero17 == r17 = 0
Zero16 == r16 = 0 /\ Zero17
Zero15 == r15 = 0 /\ Zero16
Zero14 == r14 = 0 /\ Zero15
Zero13 == r13 = 0 /\ Zero14
Zero12 == r12 = 0 /\ Zero13
Zero11 == r11 = 0 /\ Zero12
Zero10 == r10 = 0 /\ Zero11
Zero9 == r9 = 0 /\ Zero10
Zero8 == r8 = 0 /\ Zero9
Zero7 == r7 = 0 /\ Zero8

Init ==
    \/ program = "log" /\ Log!Init /\ Zero17
    \/ program = "sem" /\ Sem!Init /\ Zero8
    \/ program = "shm" /\ Shm!Init /\ Zero7
    \/ program = "pipe" /\ Pipe!Init /\ Zero9
    \/ program = "http" /\ Page!Init /\ Zero8
    \/ program = "session" /\ Session!Init
    \/ program = "calculator" /\ Calc!Init /\ Zero12
    \/ program = "udp" /\ Udp!Init /\ Zero11
    \/ program = "chatserver" /\ Route!Init /\ Zero12
    \/ program = "shell" /\ Myshell!Init /\ Zero15
    \/ program = "plainshell" /\ PlainShell!Init /\ Zero15
    \/ program = "stdio" /\ Stdio!Init /\ Zero9
    \/ program = "logger" /\ Logs!Init /\ Zero15
    \/ program = "thread" /\ Class!Init /\ Zero9
    \/ program = "chatclient" /\ Chat!Init /\ Zero12
    \/ program = "threads" /\ Lock!Init /\ Zero12
    \/ program = "signals" /\ Sig!Init /\ Zero13
    \/ program = "children" /\ Kids!Init /\ Zero11

Next ==
    /\ UNCHANGED <<program>>
    /\ \/ program = "log" /\ Log!Next /\ UNCHANGED After16
       \/ program = "sem" /\ Sem!Next /\ UNCHANGED After7
       \/ program = "shm" /\ Shm!Next /\ UNCHANGED After6
       \/ program = "pipe" /\ Pipe!Next /\ UNCHANGED After8
       \/ program = "http" /\ Page!Next /\ UNCHANGED After7
       \/ program = "session" /\ Session!Next
       \/ program = "calculator" /\ Calc!Next /\ UNCHANGED After11
       \/ program = "udp" /\ Udp!Next /\ UNCHANGED After10
       \/ program = "chatserver" /\ Route!Next /\ UNCHANGED After11
       \/ program = "shell" /\ Myshell!Next /\ UNCHANGED After14
       \/ program = "plainshell" /\ PlainShell!Next /\ UNCHANGED After14
       \/ program = "stdio" /\ Stdio!Next /\ UNCHANGED After8
       \/ program = "logger" /\ Logs!Next /\ UNCHANGED After14
       \/ program = "thread" /\ Class!Next /\ UNCHANGED After8
       \/ program = "chatclient" /\ Chat!Next /\ UNCHANGED After11
       \/ program = "threads" /\ Lock!Next /\ UNCHANGED After11
       \/ program = "signals" /\ Sig!Next /\ UNCHANGED After12
       \/ program = "children" /\ Kids!Next /\ UNCHANGED After10

logVars == Log!vars
semVars == Sem!vars
pipeVars == Pipe!vars
chatVars == Chat!vars

(* Processes and threads are scheduled.  The father of the semaphore gets it if  *)
(* it is free again and again.  Nothing is asked of users, clients, kills, the  *)
(* network or the clock.                                                        *)
Fairness ==
    /\ \A s \in LogServers : WF_logVars(program = "log" /\ Log!ServerStep(s))
    /\ \A s \in LogServers : WF_logVars(program = "log" /\ Log!ChildStep(s))
    /\ SF_semVars(program = "sem" /\ Sem!FatherStep)
    /\ WF_semVars(program = "sem" /\ Sem!ChildStep)
    /\ WF_pipeVars(program = "pipe" /\ Pipe!Reader)
    /\ WF_chatVars(program = "chatclient" /\ Chat!RecvStep)
    /\ WF_chatVars(program = "chatclient" /\ Chat!SendStep)
    /\ WF_chatVars(program = "chatclient" /\ Chat!MainStep)

Spec == Init /\ [][Next]_vars /\ Fairness

-----------------------------------------------------------------------------
(* What a process finds in the kernel's object is what another put there:     *)
(* letters of the semaphore's two processes come in pairs (Writer.cc), what   *)
(* the server prints of the shared memory is a beginning of the client's      *)
(* alphabet (shm/server.cc), the reader of the pipe leaves with everything    *)
(* that was written before (fifo_OOP), and all of it has its type.            *)
SharedDataWhole ==
    CASE program = "log" -> Log!TypeOK
      [] program = "sem" -> Sem!TypeOK /\ Sem!PairsTogether
      [] program = "shm" -> Shm!TypeOK /\ Shm!PrintsABeginning /\ Shm!OneCreator
      [] program = "pipe" -> Pipe!TypeOK /\ Pipe!AllReadAtTheEnd
      [] OTHER -> TRUE

(* One log server at a time has the queue, and no line it was sent is missing *)
(* from the queue, its hands and the files (Server, HandlerTextBackup).        *)
LinesKept == program = "log" => Log!OneServer /\ Log!LinesKept

(* The father of the semaphore ends although the child may be killed between   *)
(* its P and V (SEM_UNDO); a line sent is taken from the queue by a server     *)
(* that goes on, whatever its handlers and their child run into; and what is   *)
(* written to a pipe is read, unless the reader had seen the end by then.  The *)
(* chat's client ends after a QUIT that finds the receiver's id.               *)
Ends ==
    /\ program = "chatclient" /\ Chat!QuitTyped ~> program = "chatclient" /\ Chat!ClientOver
    /\ program = "sem" ~> program = "sem" /\ Sem!FatherEnds
    /\ \A m \in Lines :
          program = "log" /\ m \in Log!Queued ~> program = "log" /\ Log!LineTaken(m)
    /\ \A w \in PipeWriters, n \in 1..Texts :
          program = "pipe" /\ Pipe!Written(w, n) ~> program = "pipe" /\ Pipe!MessageRead(w, n)

(* Whoever asks a server gets the answer to what was asked, whole: pages of the *)
(* length that is announced (MakeResponse), the result of each calculation     *)
(* however the streams are cut (Decode, Execute), the answer to one's own       *)
(* question whatever the network does (UdpServer; the dictionary's is the       *)
(* question twice, for Dict.hpp:62 returns the word), a session of one's own    *)
(* (HandlerHttp), and what is said by those on the list (MessageRoute), each up *)
(* to what its module says.                                                     *)
AnswersWhole ==
    CASE program = "http" -> Page!TypeOK /\ Page!AnswersWhole
      [] program = "session" -> Session!TypeOK /\ Session!SessionsOwned
      [] program = "calculator" -> Calc!TypeOK /\ Calc!ResultsRight
      [] program = "udp" -> Udp!TypeOK /\ Udp!OwnAnswers
      [] program = "chatserver" -> Route!TypeOK /\ Route!ListRight
      [] OTHER -> TRUE

(* What programs write gets where it was sent, once, in order and nowhere else: *)
(* the output of the shells' commands (RedirCheck, Excute), the texts in a      *)
(* MYFILE's buffer (MyFwrite, MyFFlush), the lines of the loggers' threads and  *)
(* processes (SyncLog, WriteLog).                                               *)
OutputKept ==
    CASE program = "shell" -> Myshell!TypeOK /\ Myshell!OrdersObeyed /\ Myshell!KnownEnds
      [] program = "plainshell" ->
             PlainShell!TypeOK /\ PlainShell!OrdersObeyed /\ PlainShell!KnownEnds
      [] program = "stdio" -> Stdio!TypeOK /\ Stdio!WrittenKept
      [] program = "logger" -> Logs!TypeOK /\ Logs!LinesWhole
      [] OTHER -> TRUE

(* Threads, handlers and children do what they were made for in their order and *)
(* nothing undefined, unless a call failed or came in the wrong order: the      *)
(* tickets, the Thread classes, the chat's client, signals, SIGCHLD and         *)
(* waitpid.                                                                     *)
ThreadsOrdered ==
    CASE program = "thread" -> Class!TypeOK /\ Class!CallsDefined
      [] program = "chatclient" -> Chat!TypeOK /\ Chat!CrashKnown
      [] program = "threads" -> Lock!TypeOK /\ Lock!CountsOrdered
      [] program = "signals" -> Sig!TypeOK /\ Sig!SignalsKept
      [] program = "children" -> Kids!TypeOK /\ Kids!ChildrenSeen
      [] OTHER -> TRUE
=============================================================================
