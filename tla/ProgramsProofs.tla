---------------------------- MODULE ProgramsProofs ----------------------------
(***************************************************************************)
(* The five invariants of MCPrograms for every value of its constants:        *)
(* LinesKept and SharedDataWhole, that is, the log server's chain, the       *)
(* semaphore's writers, the shared memory and the named pipe; ThreadsOrdered, *)
(* that is, the Thread classes, the chat's client, and the exercises of       *)
(* threads, signals and processes; OutputKept, that is, the buffered files,   *)
(* the loggers and the shells; and AnswersWhole, that is, the pages, the      *)
(* sessions, the chat's server, the servers of datagrams and the calculators. *)
(*                                                                           *)
(* Each program has an inductive invariant of its own in its module           *)
(* (ChainInv, WritersInv, SegmentInv, PipeInv, ObjectInv, ClientInv,         *)
(* ThreadsInv, SignalsInv, ChildrenInv, FileInv, LogInv, ShellInv, PageInv,   *)
(* SessionInv, RouteInv, UdpInv, CalcInv); a behaviour is of one program, and *)
(* the last section puts them together.  As in MCPrograms, r1, r2, ... are    *)
(* the variables of the program that runs: for the log,                       *)
(*   r1 qid, r2 queue, r3 lastid, r4 fd, r5 spc, r6 text, r7 ofs, r8 cpc,     *)
(*   r9 archiver, r10 log, r11 backups, r12 archives, r13 now, r14 accepted,  *)
(*   r15 lost, r16 named.                                                     *)
(***************************************************************************)
EXTENDS MCPrograms, ServicesProofs, SequenceTheorems, FiniteSetTheorems, TLAPS

-----------------------------------------------------------------------------
(* The log server's chain. *)

(* Where a line of the log can be: the queue, the server's hands, the log, a   *)
(* backup, an archive.                                                        *)
InQueue(m) == \E i \in DOMAIN r2 : r2[i] = m
InHands(m) == \E s \in LogServers : r5[s] \in {"save", "write"} /\ r6[s] = m
InLog(m) == r10 # Nothing /\ m \in r10
InBackups(m) == \E t \in Log!Times : r11[t] # Nothing /\ m \in r11[t]
InArchives(m) == \E t \in Log!Times : r12[t] # Nothing /\ m \in r12[t]
HasLine(m) == InQueue(m) \/ InHands(m) \/ InLog(m) \/ InBackups(m) \/ InArchives(m)

EveryLine == ~r16.twice => \A m \in r14 : m \in r15 \/ m = ExitLine \/ HasLine(m)

(* What is behind the head of a queue is in its tail.                          *)
LEMMA TailHas ==
  ASSUME NEW S, NEW q \in Seq(S), q # <<>>, NEW i \in DOMAIN q, i # 1
  PROVE  i - 1 \in DOMAIN Tail(q) /\ Tail(q)[i - 1] = q[i]
<1>1. /\ i \in 1..Len(q) /\ Len(q) \in Nat
      /\ Tail(q) \in Seq(S) /\ Len(Tail(q)) = Len(q) - 1
      /\ DOMAIN Tail(q) = 1..Len(Tail(q))
      /\ \A j \in 1..Len(Tail(q)) : Tail(q)[j] = q[j + 1]
  BY HeadTailProperties, LenProperties
<1>2. i - 1 \in 1..Len(Tail(q)) /\ (i - 1) + 1 = i
  BY <1>1
<1> QED BY <1>1, <1>2

(* The invariant says of places what LinesKept says of sets.                   *)
LEMMA LinesKeptIs == Log!LinesKept <=> EveryLine
<1>1. \A m : m \in Log!Queued \cup Log!InHand \cup Log!Stored <=> HasLine(m)
  BY DEF HasLine, InQueue, InHands, InLog, InBackups, InArchives,
         Log!Queued, Log!InHand, Log!Stored
<1> QED BY <1>1 DEF Log!LinesKept, EveryLine

(* What has to hold with EveryLine: it is ChainInv.                            *)
LogInv ==
    /\ Log!TypeOK
    /\ Log!QueueKnown
    /\ Log!OneServer
    /\ Log!HandsFull
    /\ Log!BackupsApart
    /\ EveryLine

(* LogInv is ChainInv, with places for sets.                                   *)
LEMMA ChainInvIs == Log!ChainInv <=> LogInv
BY LinesKeptIs DEF Log!ChainInv, LogInv

(* No queue, no server, no file and no line.                                   *)
LEMMA LogInit ==
  ASSUME Log!Init
  PROVE  LogInv
<1> USE ProgramsAssumption DEF Log!Init, Log!Idle, Log!Times, Log!TestLog
<1>1. Log!TypeOK
  BY DEF Log!TypeOK, Log!Places, Log!Messages, Log!File, Log!Queued
<1>2. Log!HandsFull
  BY DEF Log!HandsFull
<1>3. Log!BackupsApart
  BY DEF Log!BackupsApart, Log!Archiving, Log!RemovalDue
<1>4. Log!OneServer /\ Log!QueueKnown /\ EveryLine
  BY DEF Log!OneServer, Log!QueueKnown, EveryLine, Log!Running
<1> QED BY <1>1, <1>2, <1>3, <1>4 DEF LogInv

(* A step takes no line away from where it is without giving it up.            *)
LEMMA LinesStay ==
  ASSUME EveryLine, r14' = r14, r15 \subseteq r15', r16.twice => r16'.twice,
         ~r16.twice' => \A m \in r14 : HasLine(m) => HasLine(m)' \/ m \in r15'
  PROVE  EveryLine'
BY DEF EveryLine

(* The backups are not touched, and no other one is to be removed.             *)
LEMMA BackupsStay ==
  ASSUME Log!BackupsApart, UNCHANGED <<r9, r11, r12, r16>>,
         \A s \in LogServers : r5'[s] = "wait" => r5[s] = "wait"
  PROVE  Log!BackupsApart'
BY DEF Log!BackupsApart, Log!Archiving, Log!RemovalDue

(* A server starts only when there is no queue, so that no other one runs.    *)
LEMMA StartServerKeeps ==
  ASSUME LogInv, NEW s \in LogServers, Log!StartServer(s)
  PROVE  LogInv'
<1> USE ProgramsAssumption DEF LogInv, Log!TypeOK, Log!Places, Log!Messages, Log!File,
        Log!Idle, Log!Times, Log!TestLog, Log!Running
<1>1. CASE r1 = 0
  <2>1. /\ r5[s] = "off"
        /\ r3 < MaxIds
        /\ r3' = r3 + 1
        /\ r1' = r3 + 1
        /\ r2' = <<>>
        /\ r4' = [r4 EXCEPT ![s] = r3 + 1]
        /\ r5' = [r5 EXCEPT ![s] = "recv"]
        /\ UNCHANGED <<r6, r7, r8, r9, r10, r11, r12, r13, r14, r15, r16>>
    BY <1>1 DEF Log!StartServer, Log!Create, Log!NewQueue, Log!ipc, Log!server, Log!files
  <2>2. Log!TypeOK'
    BY <1>1, <2>1 DEF Log!Queued, Log!HandsFull, Log!OneServer
  <2>3. Log!OneServer' /\ Log!QueueKnown'
    BY <1>1, <2>1 DEF Log!OneServer, Log!QueueKnown
  <2>4. Log!HandsFull'
    BY <1>1, <2>1 DEF Log!HandsFull, Log!OneServer
  <2>5. Log!BackupsApart'
    BY <1>1, <2>1, BackupsStay
  <2>6. EveryLine'
    <3>1. ASSUME ~r16.twice', NEW l, InQueue(l) PROVE HasLine(l)' \/ l \in r15'
      BY <1>1, <2>1, <3>1 DEF InQueue, Log!QueueKnown
    <3>2. ASSUME ~r16.twice', NEW l, InHands(l) PROVE HasLine(l)' \/ l \in r15'
      BY <2>1, <3>2 DEF InHands, HasLine
    <3>3. ASSUME ~r16.twice', NEW l, InLog(l) PROVE HasLine(l)' \/ l \in r15'
      BY <2>1, <3>3 DEF InLog, HasLine
    <3>4. ASSUME ~r16.twice', NEW l, InBackups(l) PROVE HasLine(l)' \/ l \in r15'
      BY <2>1, <3>4 DEF InBackups, HasLine
    <3>5. ASSUME ~r16.twice', NEW l, InArchives(l) PROVE HasLine(l)' \/ l \in r15'
      BY <2>1, <3>5 DEF InArchives, HasLine
    <3> QED BY <2>1, <3>1, <3>2, <3>3, <3>4, <3>5, LinesStay DEF HasLine
  <2> QED BY <2>2, <2>3, <2>4, <2>5, <2>6
<1>2. CASE r1 # 0
  <2>1. /\ r5[s] = "off"
        /\ r5' = [r5 EXCEPT ![s] = "exited"]
        /\ UNCHANGED <<r1, r2, r3, r4, r6, r7, r8, r9, r10, r11, r12, r13, r14, r15, r16>>
    BY <1>2 DEF Log!StartServer, Log!Create, Log!NewQueue, Log!ipc, Log!server, Log!files
  <2>2. Log!TypeOK'
    BY <1>2, <2>1 DEF Log!Queued, Log!HandsFull, Log!OneServer
  <2>3. Log!OneServer' /\ Log!QueueKnown'
    BY <1>2, <2>1 DEF Log!OneServer, Log!QueueKnown
  <2>4. Log!HandsFull'
    BY <1>2, <2>1 DEF Log!HandsFull, Log!OneServer
  <2>5. Log!BackupsApart'
    BY <1>2, <2>1, BackupsStay
  <2>6. EveryLine'
    BY <1>2, <2>1, LinesStay DEF HasLine, InQueue, InHands, InLog, InBackups, InArchives
  <2> QED BY <2>2, <2>3, <2>4, <2>5, <2>6
<1> QED BY <1>1, <1>2

(* A client too may make the queue.                                           *)
LEMMA StartClientKeeps ==
  ASSUME LogInv, NEW c \in LogClients, Log!StartClient(c)
  PROVE  LogInv'
<1> USE ProgramsAssumption DEF LogInv, Log!TypeOK, Log!Places, Log!Messages, Log!File,
        Log!Idle, Log!Times, Log!TestLog, Log!Running
<1>1. CASE r1 = 0
  <2>1. /\ r3 < MaxIds
        /\ r3' = r3 + 1
        /\ r1' = r3 + 1
        /\ r2' = <<>>
        /\ r4' = [r4 EXCEPT ![c] = r3 + 1]
        /\ r8' = [r8 EXCEPT ![c] = "input"]
        /\ UNCHANGED <<r5, r6, r7, r9, r10, r11, r12, r13, r14, r15, r16>>
    BY <1>1 DEF Log!StartClient, Log!NewQueue, Log!ipc, Log!server, Log!files
  <2>2. Log!TypeOK'
    BY <1>1, <2>1 DEF Log!Queued, Log!HandsFull, Log!OneServer
  <2>3. Log!OneServer' /\ Log!QueueKnown'
    BY <1>1, <2>1 DEF Log!OneServer, Log!QueueKnown
  <2>4. Log!HandsFull'
    BY <1>1, <2>1 DEF Log!HandsFull, Log!OneServer
  <2>5. Log!BackupsApart'
    BY <1>1, <2>1, BackupsStay
  <2>6. EveryLine'
    <3>1. ASSUME ~r16.twice', NEW l, InQueue(l) PROVE HasLine(l)' \/ l \in r15'
      BY <1>1, <2>1, <3>1 DEF InQueue, Log!QueueKnown
    <3>2. ASSUME ~r16.twice', NEW l, InHands(l) PROVE HasLine(l)' \/ l \in r15'
      BY <2>1, <3>2 DEF InHands, HasLine
    <3>3. ASSUME ~r16.twice', NEW l, InLog(l) PROVE HasLine(l)' \/ l \in r15'
      BY <2>1, <3>3 DEF InLog, HasLine
    <3>4. ASSUME ~r16.twice', NEW l, InBackups(l) PROVE HasLine(l)' \/ l \in r15'
      BY <2>1, <3>4 DEF InBackups, HasLine
    <3>5. ASSUME ~r16.twice', NEW l, InArchives(l) PROVE HasLine(l)' \/ l \in r15'
      BY <2>1, <3>5 DEF InArchives, HasLine
    <3> QED BY <2>1, <3>1, <3>2, <3>3, <3>4, <3>5, LinesStay DEF HasLine
  <2> QED BY <2>2, <2>3, <2>4, <2>5, <2>6
<1>2. CASE r1 # 0
  <2>1. /\ r4' = [r4 EXCEPT ![c] = r1]
        /\ r8' = [r8 EXCEPT ![c] = "input"]
        /\ UNCHANGED <<r1, r2, r3, r5, r6, r7, r9, r10, r11, r12, r13, r14, r15, r16>>
    BY <1>2 DEF Log!StartClient, Log!NewQueue, Log!ipc, Log!server, Log!files
  <2>2. Log!TypeOK'
    BY <1>2, <2>1 DEF Log!Queued, Log!HandsFull, Log!OneServer
  <2>3. Log!OneServer' /\ Log!QueueKnown'
    BY <1>2, <2>1 DEF Log!OneServer, Log!QueueKnown
  <2>4. Log!HandsFull'
    BY <1>2, <2>1 DEF Log!HandsFull, Log!OneServer
  <2>5. Log!BackupsApart'
    BY <1>2, <2>1, BackupsStay
  <2>6. EveryLine'
    BY <1>2, <2>1, LinesStay DEF HasLine, InQueue, InHands, InLog, InBackups, InArchives
  <2> QED BY <2>2, <2>3, <2>4, <2>5, <2>6
<1> QED BY <1>1, <1>2

(* A queue that gets a line has it, and what it had.                           *)
LEMMA AppendHas ==
  ASSUME NEW S, NEW q \in Seq(S), NEW x \in S
  PROVE  /\ Len(Append(q, x)) \in DOMAIN Append(q, x)
         /\ Append(q, x)[Len(Append(q, x))] = x
         /\ \A i \in DOMAIN q : i \in DOMAIN Append(q, x) /\ Append(q, x)[i] = q[i]
OBVIOUS

(* What a client sends to a queue that was removed is lost.                    *)
LEMMA Refused ==
  ASSUME NEW c \in LogClients, NEW m, Log!Send(c, m), r1 # r4[c]
  PROVE  /\ r8[c] = "input"
         /\ r8' = [r8 EXCEPT ![c] = IF m = ExitLine THEN "done" ELSE "input"]
         /\ r15' = r15 \cup {m}
         /\ UNCHANGED <<r1, r2, r3, r4, r5, r6, r7, r9, r10, r11, r12, r13, r14, r16>>
BY DEF Log!Send, Log!server, Log!files

(* A line the queue takes is in it.                                           *)
LEMMA SendKeeps ==
  ASSUME LogInv, NEW c \in LogClients, NEW m \in Lines \cup {ExitLine},
         Log!Send(c, m)
  PROVE  LogInv'
<1> USE ProgramsAssumption DEF LogInv, Log!TypeOK, Log!Places, Log!Messages, Log!File,
        Log!Idle, Log!Times, Log!TestLog, Log!Running
<1>1. CASE r1 = r4[c]
  <2>1. /\ r8[c] = "input"
        /\ r8' = [r8 EXCEPT ![c] = IF m = ExitLine THEN "done" ELSE "input"]
        /\ Len(r2) < QueueMax
        /\ r2' = Append(r2, m)
        /\ r14' = r14 \cup {m}
        /\ UNCHANGED <<r1, r3, r4, r5, r6, r7, r9, r10, r11, r12, r13, r15, r16>>
    BY <1>1 DEF Log!Send, Log!Typed, Log!ipc, Log!server, Log!files
  <2>2. Log!TypeOK'
    BY <1>1, <2>1 DEF Log!Queued, Log!HandsFull, Log!OneServer
  <2>3. Log!OneServer' /\ Log!QueueKnown'
    BY <1>1, <2>1 DEF Log!OneServer, Log!QueueKnown
  <2>4. Log!HandsFull'
    BY <1>1, <2>1 DEF Log!HandsFull, Log!OneServer
  <2>5. Log!BackupsApart'
    BY <1>1, <2>1, BackupsStay
  <2>6. EveryLine'
    <3>0. /\ Len(r2') \in DOMAIN r2' /\ r2'[Len(r2')] = m
          /\ \A i \in DOMAIN r2 : i \in DOMAIN r2' /\ r2'[i] = r2[i]
      <4>1. r2 \in Seq(Lines \cup {ExitLine}) /\ r2' = Append(r2, m)
        BY <2>1
      <4> QED BY <4>1, AppendHas
    <3>1. InQueue(m)'
      BY <3>0 DEF InQueue
    <3>2. ASSUME NEW l, InQueue(l) PROVE InQueue(l)'
      BY <3>0, <3>2 DEF InQueue
    <3>3. ASSUME NEW l, HasLine(l) PROVE HasLine(l)'
      BY <2>1, <3>2, <3>3 DEF HasLine, InHands, InLog, InBackups, InArchives
    <3> QED BY <2>1, <3>1, <3>3 DEF EveryLine, HasLine
  <2> QED BY <2>2, <2>3, <2>4, <2>5, <2>6
<1>2. CASE r1 # r4[c]
  <2>1. /\ r8[c] = "input"
        /\ r8' = [r8 EXCEPT ![c] = IF m = ExitLine THEN "done" ELSE "input"]
        /\ r15' = r15 \cup {m}
        /\ UNCHANGED <<r1, r2, r3, r4, r5, r6, r7, r9, r10, r11, r12, r13, r14, r16>>
    BY <1>2, Refused
  <2>2. Log!TypeOK'
    BY <1>2, <2>1 DEF Log!Queued, Log!HandsFull, Log!OneServer
  <2>3. Log!OneServer' /\ Log!QueueKnown'
    BY <1>2, <2>1 DEF Log!OneServer, Log!QueueKnown
  <2>4. Log!HandsFull'
    BY <1>2, <2>1 DEF Log!HandsFull, Log!OneServer
  <2>5. Log!BackupsApart'
    BY <1>2, <2>1, BackupsStay
  <2>6. EveryLine'
    BY <1>2, <2>1, LinesStay DEF HasLine, InQueue, InHands, InLog, InBackups, InArchives
  <2> QED BY <2>2, <2>3, <2>4, <2>5, <2>6
<1> QED BY <1>1, <1>2

(* The head of the queue goes into the server's hands.                        *)
LEMMA RecvKeeps ==
  ASSUME LogInv, NEW s \in LogServers, Log!Recv(s)
  PROVE  LogInv'
<1> USE ProgramsAssumption DEF LogInv, Log!TypeOK, Log!Places, Log!Messages, Log!File,
        Log!Idle, Log!Times, Log!TestLog, Log!Running
<1>1. /\ r5[s] = "recv"
      /\ r2 # <<>>
      /\ r6' = [r6 EXCEPT ![s] = Head(r2)]
      /\ r2' = Tail(r2)
      /\ r5' = [r5 EXCEPT ![s] = IF Head(r2) = ExitLine THEN "destroy" ELSE "save"]
      /\ UNCHANGED <<r1, r3, r4, r7, r8, r9, r10, r11, r12, r13, r14, r15, r16>>
  BY DEF Log!Recv, Log!ipc, Log!server, Log!files
<1>2. Log!TypeOK'
  <2>1. /\ r2' \in Seq(Lines \cup {ExitLine}) /\ Len(r2') <= QueueMax
        /\ Head(r2) \in Log!Queued
    <3>1. 1 \in DOMAIN r2 /\ Head(r2) = r2[1]
      BY <1>1
    <3>2. r2' \in Seq(Lines \cup {ExitLine}) /\ Len(r2') = Len(r2) - 1 /\ Len(r2) \in Nat
      BY <1>1, HeadTailProperties, LenProperties
    <3> QED BY <3>1, <3>2 DEF Log!Queued
  <2>2. Log!Queued' \subseteq Log!Queued
    <3>1. ASSUME NEW i \in DOMAIN r2' PROVE r2'[i] \in Log!Queued
      <4>1. i + 1 \in DOMAIN r2 /\ r2'[i] = r2[i + 1]
        BY <1>1, <3>1
      <4> QED BY <4>1 DEF Log!Queued
    <3> QED BY <3>1 DEF Log!Queued
  <2>3. /\ r5' \in [LogServers -> Log!Places]
        /\ r6' \in [LogServers -> r14' \cup {Nothing}]
    BY <1>1, <2>1
  <2> QED BY <1>1, <2>1, <2>2, <2>3
<1>3. Log!OneServer' /\ Log!QueueKnown'
  BY <1>1 DEF Log!OneServer, Log!QueueKnown
<1>4. Log!HandsFull'
  BY <1>1 DEF Log!HandsFull, Log!OneServer
<1>5. Log!BackupsApart'
  BY <1>1, BackupsStay
<1>6. EveryLine'
  <2>0. ASSUME NEW l, l = Head(r2), l # ExitLine PROVE InHands(l)'
    <3>1. r5'[s] = "save" /\ r6'[s] = l
      BY <1>1, <2>0
    <3> QED BY <3>1 DEF InHands
  <2>1. ASSUME NEW l, InQueue(l), l # ExitLine PROVE HasLine(l)'
    <3>1. PICK i \in DOMAIN r2 : r2[i] = l
      BY <2>1 DEF InQueue
    <3>2. CASE i = 1
      <4>1. l = Head(r2)
        BY <3>1, <3>2
      <4> QED BY <2>0, <2>1, <4>1 DEF HasLine
    <3>3. CASE i # 1
      <4>1. i - 1 \in DOMAIN r2' /\ r2'[i - 1] = l
        <5>1. r2 \in Seq(Lines \cup {ExitLine}) /\ r2 # <<>> /\ r2' = Tail(r2)
          BY <1>1
        <5> QED BY <3>1, <3>3, <5>1, TailHas
      <4> QED BY <4>1 DEF HasLine, InQueue
    <3> QED BY <3>2, <3>3
  <2>2. ASSUME NEW l, InHands(l) PROVE HasLine(l)'
    BY <1>1, <2>2 DEF HasLine, InHands
  <2>3. ASSUME NEW l, InLog(l) \/ InBackups(l) \/ InArchives(l) PROVE HasLine(l)'
    BY <1>1, <2>3 DEF HasLine, InLog, InBackups, InArchives
  <2> QED BY <1>1, <2>1, <2>2, <2>3 DEF EveryLine, HasLine
<1> QED BY <1>2, <1>3, <1>4, <1>5, <1>6

(* The queue that the server removes is its own, and nobody else's.           *)
LEMMA DestroyKeeps ==
  ASSUME LogInv, NEW s \in LogServers, Log!Destroy(s)
  PROVE  LogInv'
<1> USE ProgramsAssumption DEF LogInv, Log!TypeOK, Log!Places, Log!Messages, Log!File,
        Log!Idle, Log!Times, Log!TestLog, Log!Running
<1>1. /\ r5[s] = "destroy"
      /\ r1' = 0
      /\ r2' = <<>>
      /\ r15' = r15 \cup Log!Queued
      /\ r5' = [r5 EXCEPT ![s] = "exited"]
      /\ UNCHANGED <<r3, r4, r6, r7, r8, r9, r10, r11, r12, r13, r14, r16>>
  BY DEF Log!Destroy, Log!ipc, Log!server, Log!files, Log!OneServer
<1>2. Log!TypeOK'
  BY <1>1 DEF Log!Queued, Log!HandsFull, Log!OneServer
<1>3. Log!OneServer' /\ Log!QueueKnown'
  <2>1. Log!OneServer'
    BY <1>1, ZenonT(40) DEF Log!OneServer
  <2>2. Log!QueueKnown'
    BY <1>1 DEF Log!OneServer, Log!QueueKnown
  <2> QED BY <2>1, <2>2
<1>4. Log!HandsFull'
  BY <1>1 DEF Log!HandsFull, Log!OneServer
<1>5. Log!BackupsApart'
  BY <1>1, BackupsStay
<1>6. EveryLine'
  <2>1. ASSUME ~r16.twice', NEW l, InQueue(l) PROVE HasLine(l)' \/ l \in r15'
    BY <1>1, <2>1 DEF InQueue, Log!Queued
  <2>2. ASSUME ~r16.twice', NEW l, InHands(l) PROVE HasLine(l)' \/ l \in r15'
    BY <1>1, <2>2 DEF InHands, HasLine
  <2>3. ASSUME ~r16.twice', NEW l, InLog(l) PROVE HasLine(l)' \/ l \in r15'
    BY <1>1, <2>3 DEF InLog, HasLine
  <2>4. ASSUME ~r16.twice', NEW l, InBackups(l) PROVE HasLine(l)' \/ l \in r15'
    BY <1>1, <2>4 DEF InBackups, HasLine
  <2>5. ASSUME ~r16.twice', NEW l, InArchives(l) PROVE HasLine(l)' \/ l \in r15'
    BY <1>1, <2>5 DEF InArchives, HasLine
  <2> QED BY <1>1, <2>1, <2>2, <2>3, <2>4, <2>5, LinesStay DEF HasLine
<1> QED BY <1>2, <1>3, <1>4, <1>5, <1>6

(* The line stays in hand while the log is opened.                            *)
LEMMA SaveOpenKeeps ==
  ASSUME LogInv, NEW s \in LogServers, Log!SaveOpen(s)
  PROVE  LogInv'
<1> USE ProgramsAssumption DEF LogInv, Log!TypeOK, Log!Places, Log!Messages, Log!File,
        Log!Idle, Log!Times, Log!TestLog, Log!Running
<1>1. CASE r5'[s] = "write"
  <2>1. /\ r5[s] = "save"
        /\ r10' = IF r10 = Nothing THEN {} ELSE r10
        /\ r7' = [r7 EXCEPT ![s] = Log!TestLog]
        /\ r5' = [r5 EXCEPT ![s] = "write"]
        /\ UNCHANGED <<r1, r2, r3, r4, r6, r8, r9, r11, r12, r13, r14, r15, r16>>
    BY <1>1 DEF Log!SaveOpen, Log!ipc, Log!server, Log!files
  <2>2. Log!TypeOK'
    BY <1>1, <2>1 DEF Log!Queued, Log!HandsFull, Log!OneServer
  <2>3. Log!OneServer' /\ Log!QueueKnown'
    BY <1>1, <2>1 DEF Log!OneServer, Log!QueueKnown
  <2>4. Log!HandsFull'
    BY <1>1, <2>1 DEF Log!HandsFull, Log!OneServer
  <2>5. Log!BackupsApart'
    BY <1>1, <2>1, BackupsStay
  <2>6. EveryLine'
    BY <1>1, <2>1, LinesStay DEF HasLine, InQueue, InHands, InLog, InBackups, InArchives
  <2> QED BY <2>2, <2>3, <2>4, <2>5, <2>6
<1>2. CASE r5'[s] # "write"
  <2>1. /\ r5[s] = "save"
        /\ r15' = r15 \cup {r6[s]}
        /\ r6' = [r6 EXCEPT ![s] = Nothing]
        /\ r5' = [r5 EXCEPT ![s] = "recv"]
        /\ UNCHANGED <<r1, r2, r3, r4, r7, r8, r9, r10, r11, r12, r13, r14, r16>>
    BY <1>2 DEF Log!SaveOpen, Log!ipc, Log!server, Log!files
  <2>2. Log!TypeOK'
    BY <1>2, <2>1 DEF Log!Queued, Log!HandsFull, Log!OneServer
  <2>3. Log!OneServer' /\ Log!QueueKnown'
    BY <1>2, <2>1 DEF Log!OneServer, Log!QueueKnown
  <2>4. Log!HandsFull'
    BY <1>2, <2>1 DEF Log!HandsFull, Log!OneServer
  <2>5. Log!BackupsApart'
    BY <1>2, <2>1, BackupsStay
  <2>6. EveryLine'
    BY <1>2, <2>1, LinesStay DEF HasLine, InQueue, InHands, InLog, InBackups, InArchives
  <2> QED BY <2>2, <2>3, <2>4, <2>5, <2>6
<1> QED BY <1>1, <1>2

(* The line goes to the log, or to the backup that the log was renamed to.    *)
LEMMA SaveWriteKeeps ==
  ASSUME LogInv, NEW s \in LogServers, Log!SaveWrite(s)
  PROVE  LogInv'
<1> USE ProgramsAssumption DEF LogInv, Log!TypeOK, Log!Places, Log!Messages, Log!File,
        Log!Idle, Log!Times, Log!TestLog, Log!Running
<1>1. CASE r7[s] = Log!TestLog
  <2>1. /\ r5[s] = "write"
        /\ r10' = r10 \cup {r6[s]}
        /\ r7' = [r7 EXCEPT ![s] = Nothing]
        /\ r6' = [r6 EXCEPT ![s] = Nothing]
        /\ r5' = [r5 EXCEPT ![s] = "check"]
        /\ UNCHANGED <<r1, r2, r3, r4, r8, r9, r11, r12, r13, r14, r15, r16>>
    BY <1>1 DEF Log!SaveWrite, Log!ipc, Log!server, Log!files
  <2>2. Log!TypeOK'
    <3>1. r6[s] \in Lines /\ r10 # Nothing /\ r10 \in SUBSET Lines
      BY <1>1, <2>1 DEF Log!HandsFull
    <3>2. /\ r5' \in [LogServers -> Log!Places]
          /\ r6' \in [LogServers -> r14' \cup {Nothing}]
          /\ r7' \in [LogServers -> {Nothing, Log!TestLog} \cup Log!Times]
          /\ r10' \in Log!File
      BY <2>1, <3>1
    <3>3. Log!Queued' = Log!Queued
      BY <2>1 DEF Log!Queued
    <3> QED BY <2>1, <3>2, <3>3
  <2>3. Log!OneServer' /\ Log!QueueKnown'
    <3>1. Log!OneServer'
      BY <2>1 DEF Log!OneServer
    <3>2. Log!QueueKnown'
      BY <2>1 DEF Log!QueueKnown
    <3> QED BY <3>1, <3>2
  <2>4. Log!HandsFull'
    <3>1. ASSUME NEW q \in LogServers, q # s
          PROVE  r5'[q] = r5[q] /\ r6'[q] = r6[q] /\ r7'[q] = Nothing /\ r5[q] # "write"
      <4>1. r5[q] # "write"
        BY <2>1, <3>1 DEF Log!OneServer
      <4>2. r7[q] = Nothing
        BY <4>1 DEF Log!HandsFull
      <4> QED BY <2>1, <3>1, <4>1, <4>2
    <3>2. r5'[s] = "check" /\ r7'[s] = Nothing
      BY <2>1
    <3>3. \A q \in LogServers : r5[q] \in {"save", "write"} => r6[q] \in Lines
      BY DEF Log!HandsFull
    <3>4. Nothing # Log!TestLog /\ Nothing \notin Log!Times
      OBVIOUS
    <3> QED BY ONLY <3>1, <3>2, <3>3, <3>4 DEF Log!HandsFull
  <2>5. Log!BackupsApart'
    BY <1>1, <2>1, ZenonT(40)
       DEF Log!BackupsApart, Log!Archiving, Log!RemovalDue, Log!HandsFull, Log!OneServer
  <2>6. EveryLine'
    <3>1. ASSUME ~r16.twice', NEW l, InQueue(l) PROVE HasLine(l)' \/ l \in r15'
      BY <2>1, <3>1 DEF InQueue, HasLine
    <3>2. ASSUME ~r16.twice', NEW l, InHands(l) PROVE HasLine(l)' \/ l \in r15'
      <4>1. r10' # Nothing
        BY <1>1, <2>1 DEF Log!HandsFull
      <4>2. CASE r6[s] = l
        BY <2>1, <4>1, <4>2 DEF HasLine, InLog
      <4>3. CASE r6[s] # l
        BY <2>1, <3>2, <4>3 DEF HasLine, InHands
      <4> QED BY <4>2, <4>3
    <3>3. ASSUME ~r16.twice', NEW l, InLog(l) PROVE HasLine(l)' \/ l \in r15'
      <4>1. r10' # Nothing
        BY <1>1, <2>1 DEF Log!HandsFull
      <4> QED BY <2>1, <3>3, <4>1 DEF HasLine, InLog
    <3>4. ASSUME ~r16.twice', NEW l, InBackups(l) PROVE HasLine(l)' \/ l \in r15'
      BY <2>1, <3>4 DEF InBackups, HasLine
    <3>5. ASSUME ~r16.twice', NEW l, InArchives(l) PROVE HasLine(l)' \/ l \in r15'
      BY <2>1, <3>5 DEF InArchives, HasLine
    <3> QED BY <2>1, <3>1, <3>2, <3>3, <3>4, <3>5, LinesStay DEF HasLine
  <2> QED BY <2>2, <2>3, <2>4, <2>5, <2>6
<1>2. CASE r7[s] # Log!TestLog
  <2>1. /\ r5[s] = "write"
        /\ r11' = [r11 EXCEPT ![r7[s]] = @ \cup {r6[s]}]
        /\ r7' = [r7 EXCEPT ![s] = Nothing]
        /\ r6' = [r6 EXCEPT ![s] = Nothing]
        /\ r5' = [r5 EXCEPT ![s] = "check"]
        /\ UNCHANGED <<r1, r2, r3, r4, r8, r9, r10, r12, r13, r14, r15, r16>>
    BY <1>2 DEF Log!SaveWrite, Log!ipc, Log!server, Log!files
  <2>2. Log!TypeOK'
    <3>1. r7[s] \in Log!Times /\ r6[s] \in Lines
      BY <1>2, <2>1 DEF Log!HandsFull
    <3>2. r11[r7[s]] # Nothing /\ r11[r7[s]] \in SUBSET Lines
      BY <3>1 DEF Log!HandsFull
    <3>3. r11' \in [Log!Times -> Log!File]
      BY <2>1, <3>1, <3>2
    <3>4. /\ r5' \in [LogServers -> Log!Places]
          /\ r6' \in [LogServers -> r14 \cup {Nothing}]
          /\ r7' \in [LogServers -> {Nothing, Log!TestLog} \cup Log!Times]
      BY <2>1
    <3>5. Log!Queued' = Log!Queued
      BY <2>1 DEF Log!Queued
    <3>6. /\ r1' \in {0, r3'} /\ r3' \in 0..MaxIds
          /\ r2' \in Seq(Lines \cup {ExitLine}) /\ Len(r2') <= QueueMax
          /\ r14' \subseteq Lines \cup {ExitLine} /\ Log!Queued' \subseteq r14'
          /\ r4' \in [LogServers \cup LogClients -> 0..r3']
      BY <2>1, <3>5
    <3>7. /\ r9' \in [LogServers -> [step : {"none", "rename", "tar", "packed", "failed"},
                                      suffix : 0..MaxTime]]
          /\ r10' \in Log!File /\ r12' \in [0..MaxTime -> Log!File]
          /\ r8' \in [LogClients -> {"off", "input", "done"}]
          /\ r13' \in 0..MaxTime
          /\ r16' \in [used : SUBSET (0..MaxTime), twice : BOOLEAN]
      BY <2>1
    <3> QED BY <2>1, <3>3, <3>4, <3>6, <3>7
  <2>3. Log!OneServer' /\ Log!QueueKnown'
    <3>1. Log!OneServer'
      BY <2>1 DEF Log!OneServer
    <3>2. Log!QueueKnown'
      BY <2>1 DEF Log!QueueKnown
    <3> QED BY <3>1, <3>2
  <2>4. Log!HandsFull'
    <3>1. ASSUME NEW q \in LogServers, q # s
          PROVE  r5'[q] = r5[q] /\ r6'[q] = r6[q] /\ r7'[q] = Nothing /\ r5[q] # "write"
      <4>1. r5[q] # "write"
        BY <2>1, <3>1 DEF Log!OneServer
      <4>2. r7[q] = Nothing
        BY <4>1 DEF Log!HandsFull
      <4> QED BY <2>1, <3>1, <4>1, <4>2
    <3>2. r5'[s] = "check" /\ r7'[s] = Nothing
      BY <2>1
    <3>3. \A q \in LogServers : r5[q] \in {"save", "write"} => r6[q] \in Lines
      BY DEF Log!HandsFull
    <3>4. Nothing # Log!TestLog /\ Nothing \notin Log!Times
      OBVIOUS
    <3> QED BY ONLY <3>1, <3>2, <3>3, <3>4 DEF Log!HandsFull
  <2>5. Log!BackupsApart'
    <3>1. r7[s] \in Log!Times /\ r6[s] \in Lines
      BY <1>2, <2>1 DEF Log!HandsFull
    <3>2. r11[r7[s]] # Nothing /\ r11[r7[s]] \in SUBSET Lines
      BY <3>1 DEF Log!HandsFull
    <3>3. \A t \in Log!Times : r11[t] = Nothing => r11'[t] = Nothing
      BY <2>1, <3>1, <3>2
    <3>4. \A q \in LogServers : ~Log!RemovalDue(q) /\ ~Log!RemovalDue(q)'
      BY <2>1 DEF Log!RemovalDue, Log!OneServer
    <3>5. ASSUME ~r16.twice, NEW q \in Log!Archiving, r9[q].step = "rename"
          PROVE  r11'[r9[q].suffix] = Nothing
      BY <3>3, <3>5 DEF Log!BackupsApart, Log!Archiving
    <3> QED BY <2>1, <3>3, <3>4, <3>5 DEF Log!BackupsApart, Log!Archiving
  <2>6. EveryLine'
    <3>1. r7[s] \in Log!Times /\ r6[s] \in Lines
      BY <1>2, <2>1 DEF Log!HandsFull
    <3>2. r11[r7[s]] # Nothing /\ r11[r7[s]] \in SUBSET Lines
      BY <3>1 DEF Log!HandsFull
    <3>3. \A t \in Log!Times : r11[t] # Nothing => r11'[t] # Nothing /\ r11[t] \subseteq r11'[t]
      BY <2>1, <3>1, <3>2
    <3>4. r11'[r7[s]] # Nothing /\ r6[s] \in r11'[r7[s]]
      BY <2>1, <3>1, <3>2, <3>3
    <3>5. ASSUME NEW l, InHands(l) PROVE HasLine(l)'
      <4>1. CASE r6[s] = l
        BY <3>1, <3>4, <4>1 DEF HasLine, InBackups
      <4>2. CASE r6[s] # l
        BY <2>1, <3>5, <4>2 DEF HasLine, InHands
      <4> QED BY <4>1, <4>2
    <3>6. ASSUME NEW l, InBackups(l) PROVE HasLine(l)'
      BY <3>3, <3>6 DEF HasLine, InBackups
    <3>7. ASSUME NEW l, InQueue(l) \/ InLog(l) \/ InArchives(l) PROVE HasLine(l)'
      BY <2>1, <3>7 DEF HasLine, InQueue, InLog, InArchives
    <3> QED BY <2>1, <3>5, <3>6, <3>7, LinesStay DEF HasLine
  <2> QED BY <2>2, <2>3, <2>4, <2>5, <2>6
<1> QED BY <1>1, <1>2

(* Nothing moves while the length is looked at.                               *)
LEMMA IsOutOfRangeKeeps ==
  ASSUME LogInv, NEW s \in LogServers, Log!IsOutOfRange(s)
  PROVE  LogInv'
<1> USE ProgramsAssumption DEF LogInv, Log!TypeOK, Log!Places, Log!Messages, Log!File,
        Log!Idle, Log!Times, Log!TestLog, Log!Running
<1>1. /\ r5[s] = "check"
      /\ r5' = [r5 EXCEPT ![s] = r5'[s]]
      /\ r5'[s] \in {"exited", "fork", "recv"}
      /\ UNCHANGED <<r1, r2, r3, r4, r6, r7, r8, r9, r10, r11, r12, r13, r14, r15, r16>>
  BY DEF Log!IsOutOfRange, Log!ipc, Log!server, Log!files
<1>2. Log!TypeOK'
  <2>1. r5' \in [LogServers -> Log!Places]
    BY <1>1
  <2> QED BY <1>1, <2>1 DEF Log!Queued
<1>3. Log!OneServer' /\ Log!QueueKnown'
  <2>1. Log!OneServer'
    BY <1>1, ZenonT(40) DEF Log!OneServer
  <2>2. Log!QueueKnown'
    BY <1>1, ZenonT(40) DEF Log!OneServer, Log!QueueKnown
  <2> QED BY <2>1, <2>2
<1>4. Log!HandsFull'
  BY <1>1 DEF Log!HandsFull, Log!OneServer
<1>5. Log!BackupsApart'
  BY <1>1, BackupsStay
<1>6. EveryLine'
  BY <1>1, LinesStay DEF HasLine, InQueue, InHands, InLog, InBackups, InArchives
<1> QED BY <1>2, <1>3, <1>4, <1>5, <1>6

(* A new child has a suffix of its own, or a second has two backups.          *)
LEMMA BackupKeeps ==
  ASSUME LogInv, NEW s \in LogServers, Log!Backup(s)
  PROVE  LogInv'
<1> USE ProgramsAssumption DEF LogInv, Log!TypeOK, Log!Places, Log!Messages, Log!File,
        Log!Idle, Log!Times, Log!TestLog, Log!Running
<1>1. CASE r5'[s] = "wait"
  <2>1. /\ r5[s] = "fork"
        /\ r9' = [r9 EXCEPT ![s] = [step |-> "rename", suffix |-> r13]]
        /\ r16' = [used |-> r16.used \cup {r13}, twice |-> r16.twice \/ r13 \in r16.used]
        /\ r5' = [r5 EXCEPT ![s] = "wait"]
        /\ UNCHANGED <<r1, r2, r3, r4, r6, r7, r8, r10, r11, r12, r13, r14, r15>>
    BY <1>1 DEF Log!Backup, Log!ipc, Log!server, Log!files
  <2>2. Log!TypeOK'
    BY <1>1, <2>1 DEF Log!Queued, Log!HandsFull, Log!OneServer
  <2>3. Log!OneServer' /\ Log!QueueKnown'
    BY <1>1, <2>1 DEF Log!OneServer, Log!QueueKnown
  <2>4. Log!HandsFull'
    BY <1>1, <2>1 DEF Log!HandsFull, Log!OneServer
  <2>5. Log!BackupsApart'
    <3> SUFFICES ASSUME ~r16.twice' PROVE Log!BackupsApart'
      BY DEF Log!BackupsApart
    <3>1. ~r16.twice /\ r13 \notin r16.used /\ r16'.used = r16.used \cup {r13}
      BY <2>1
    <3>2. Log!Archiving' = Log!Archiving \cup {s} /\ r9'[s].suffix = r13 /\ r9'[s].step = "rename"
      BY <2>1 DEF Log!Archiving
    <3>3. r11[r13] = Nothing /\ r12[r13] = Nothing
      BY <3>1 DEF Log!BackupsApart
    <3>4. \A q \in LogServers \ {s} : r9'[q] = r9[q] /\ (Log!RemovalDue(q)' <=> Log!RemovalDue(q))
      BY <2>1 DEF Log!RemovalDue
    <3>5. \A q \in Log!Archiving : r9[q].suffix \in r16.used
      BY <3>1 DEF Log!BackupsApart
    <3>6. ASSUME NEW q \in Log!Archiving', NEW r \in Log!Archiving', r9'[q].suffix = r9'[r].suffix
          PROVE  q = r
      <4>1. CASE q = s \/ r = s
        BY <3>1, <3>2, <3>4, <3>5, <3>6, <4>1 DEF Log!Archiving
      <4>2. CASE q # s /\ r # s
        BY <3>1, <3>2, <3>4, <3>6, <4>2 DEF Log!BackupsApart, Log!Archiving
      <4> QED BY <4>1, <4>2
    <3>7. ASSUME NEW q \in Log!Archiving', q # s
          PROVE  LET t == r9'[q].suffix IN
                 /\ r9'[q].step = "rename" => r11'[t] = Nothing
                 /\ r9'[q].step \in {"rename", "tar"} => r12'[t] = Nothing
                 /\ Log!RemovalDue(q)' => r11'[t] = r12'[t]
      BY <2>1, <3>1, <3>2, <3>4, <3>7 DEF Log!BackupsApart, Log!Archiving
    <3>8. ~Log!RemovalDue(s)'
      BY <3>2 DEF Log!RemovalDue
    <3>9. /\ \A q \in Log!Archiving' : r9'[q].suffix \in r16'.used
          /\ \A t \in Log!Times \ r16'.used : r11'[t] = Nothing /\ r12'[t] = Nothing
      BY <2>1, <3>1, <3>2, <3>4, <3>5 DEF Log!BackupsApart, Log!Archiving
    <3> QED BY <2>1, <3>2, <3>3, <3>6, <3>7, <3>8, <3>9 DEF Log!BackupsApart
  <2>6. EveryLine'
    BY <1>1, <2>1, LinesStay DEF HasLine, InQueue, InHands, InLog, InBackups, InArchives
  <2> QED BY <2>2, <2>3, <2>4, <2>5, <2>6
<1>2. CASE r5'[s] # "wait"
  <2>1. /\ r5[s] = "fork"
        /\ r5' = [r5 EXCEPT ![s] = "recv"]
        /\ UNCHANGED <<r1, r2, r3, r4, r6, r7, r8, r9, r10, r11, r12, r13, r14, r15, r16>>
    BY <1>2 DEF Log!Backup, Log!ipc, Log!server, Log!files
  <2>2. Log!TypeOK'
    BY <1>2, <2>1 DEF Log!Queued, Log!HandsFull, Log!OneServer
  <2>3. Log!OneServer' /\ Log!QueueKnown'
    BY <1>2, <2>1 DEF Log!OneServer, Log!QueueKnown
  <2>4. Log!HandsFull'
    BY <1>2, <2>1 DEF Log!HandsFull, Log!OneServer
  <2>5. Log!BackupsApart'
    BY <1>2, <2>1
       DEF Log!BackupsApart, Log!Archiving, Log!RemovalDue, Log!HandsFull, Log!OneServer
  <2>6. EveryLine'
    BY <1>2, <2>1, LinesStay DEF HasLine, InQueue, InHands, InLog, InBackups, InArchives
  <2> QED BY <2>2, <2>3, <2>4, <2>5, <2>6
<1> QED BY <1>1, <1>2

(* A backup is removed when its lines are in the archive.                     *)
LEMMA WaitedKeeps ==
  ASSUME LogInv, NEW s \in LogServers, Log!Waited(s)
  PROVE  LogInv'
<1> USE ProgramsAssumption DEF LogInv, Log!TypeOK, Log!Places, Log!Messages, Log!File,
        Log!Idle, Log!Times, Log!TestLog, Log!Running
<1>1. CASE r9[s].step = "packed"
  <2>1. /\ r5[s] = "wait"
        /\ r11' = [r11 EXCEPT ![r9[s].suffix] = Nothing]
        /\ r9' = [r9 EXCEPT ![s] = Log!Idle]
        /\ r5' = [r5 EXCEPT ![s] = "recv"]
        /\ UNCHANGED <<r1, r2, r3, r4, r6, r7, r8, r10, r12, r13, r14, r15, r16>>
    BY <1>1 DEF Log!Waited, Log!Removable, Log!ipc, Log!server, Log!files
  <2>2. Log!TypeOK'
    BY <1>1, <2>1 DEF Log!Queued, Log!HandsFull, Log!OneServer
  <2>3. Log!OneServer' /\ Log!QueueKnown'
    BY <1>1, <2>1 DEF Log!OneServer, Log!QueueKnown
  <2>4. Log!HandsFull'
    <3>1. \A q \in LogServers : r5'[q] # "write" /\ r7[q] = Nothing
      BY <2>1, ZenonT(40) DEF Log!HandsFull, Log!OneServer
    <3>2. \A q \in LogServers : r5'[q] \in {"save", "write"} => r5[q] \in {"save", "write"}
      BY <2>1
    <3> QED BY <2>1, <3>1, <3>2 DEF Log!HandsFull
  <2>5. Log!BackupsApart'
    BY <1>1, <2>1
       DEF Log!BackupsApart, Log!Archiving, Log!RemovalDue, Log!HandsFull, Log!OneServer
  <2>6. EveryLine'
    <3>1. ASSUME ~r16.twice', NEW l, InQueue(l) PROVE HasLine(l)' \/ l \in r15'
      BY <2>1, <3>1 DEF InQueue, HasLine
    <3>2. ASSUME ~r16.twice', NEW l, InHands(l) PROVE HasLine(l)' \/ l \in r15'
      BY <2>1, <3>2 DEF InHands, HasLine
    <3>3. ASSUME ~r16.twice', NEW l, InLog(l) PROVE HasLine(l)' \/ l \in r15'
      BY <2>1, <3>3 DEF InLog, HasLine
    <3>4. ASSUME ~r16.twice', NEW l, InBackups(l) PROVE HasLine(l)' \/ l \in r15'
      <4>1. PICK t \in Log!Times : r11[t] # Nothing /\ l \in r11[t]
        BY <3>4 DEF InBackups
      <4>2. CASE t = r9[s].suffix
        <5>1. Log!RemovalDue(s) /\ s \in Log!Archiving /\ ~r16.twice
          BY <1>1, <2>1, <3>4 DEF Log!RemovalDue, Log!Archiving
        <5>2. r12[t] = r11[t]
          BY <4>2, <5>1 DEF Log!BackupsApart
        <5> QED BY <2>1, <4>1, <5>2 DEF HasLine, InArchives
      <4>3. CASE t # r9[s].suffix
        BY <2>1, <4>1, <4>3 DEF HasLine, InBackups
      <4> QED BY <4>2, <4>3
    <3>5. ASSUME ~r16.twice', NEW l, InArchives(l) PROVE HasLine(l)' \/ l \in r15'
      BY <2>1, <3>5 DEF InArchives, HasLine
    <3> QED BY <2>1, <3>1, <3>2, <3>3, <3>4, <3>5, LinesStay DEF HasLine
  <2> QED BY <2>2, <2>3, <2>4, <2>5, <2>6
<1>2. CASE r9[s].step # "packed"
  <2>1. /\ r5[s] = "wait"
        /\ r9' = [r9 EXCEPT ![s] = Log!Idle]
        /\ r5' = [r5 EXCEPT ![s] = "recv"]
        /\ UNCHANGED <<r1, r2, r3, r4, r6, r7, r8, r10, r11, r12, r13, r14, r15, r16>>
    BY <1>2 DEF Log!Waited, Log!Removable, Log!ipc, Log!server, Log!files
  <2>2. Log!TypeOK'
    BY <1>2, <2>1 DEF Log!Queued, Log!HandsFull, Log!OneServer
  <2>3. Log!OneServer' /\ Log!QueueKnown'
    BY <1>2, <2>1 DEF Log!OneServer, Log!QueueKnown
  <2>4. Log!HandsFull'
    BY <1>2, <2>1 DEF Log!HandsFull, Log!OneServer
  <2>5. Log!BackupsApart'
    BY <1>2, <2>1
       DEF Log!BackupsApart, Log!Archiving, Log!RemovalDue, Log!HandsFull, Log!OneServer
  <2>6. EveryLine'
    BY <1>2, <2>1, LinesStay DEF HasLine, InQueue, InHands, InLog, InBackups, InArchives
  <2> QED BY <2>2, <2>3, <2>4, <2>5, <2>6
<1> QED BY <1>1, <1>2

(* rename() fails where there is no log.                                      *)
LEMMA NotRenamed ==
  ASSUME NEW s \in LogServers, Log!Rename(s), r10 = Nothing,
         r9[s] \in [step : {"none", "rename", "tar", "packed", "failed"}, suffix : 0..MaxTime]
  PROVE  /\ r9[s].step = "rename"
         /\ r9' = [r9 EXCEPT ![s] = [step |-> "failed", suffix |-> r9[s].suffix]]
         /\ UNCHANGED <<r1, r2, r3, r4, r5, r6, r7, r8, r10, r11, r12, r13, r14, r15, r16>>
BY DEF Log!Rename, Log!ipc

(* A log that is there is renamed, also for who has it open.                   *)
LEMMA Renamed ==
  ASSUME NEW s \in LogServers, Log!Rename(s), r10 # Nothing,
         r9[s] \in [step : {"none", "rename", "tar", "packed", "failed"}, suffix : 0..MaxTime]
  PROVE  /\ r9[s].step = "rename"
         /\ r9' = [r9 EXCEPT ![s] = [step |-> "tar", suffix |-> r9[s].suffix]]
         /\ r11' = [r11 EXCEPT ![r9[s].suffix] = r10]
         /\ r10' = Nothing
         /\ r7' = [r \in LogServers |-> IF r7[r] = Log!TestLog THEN r9[s].suffix ELSE r7[r]]
         /\ UNCHANGED <<r1, r2, r3, r4, r5, r6, r8, r12, r13, r14, r15, r16>>
BY DEF Log!Rename, Log!ipc

(* The log becomes the backup, under a name that is free.                     *)
LEMMA RenameKeeps ==
  ASSUME LogInv, NEW s \in LogServers, Log!Rename(s)
  PROVE  LogInv'
<1> USE ProgramsAssumption DEF LogInv, Log!TypeOK, Log!Places, Log!Messages, Log!File,
        Log!Idle, Log!Times, Log!TestLog, Log!Running
<1>1. CASE r10 = Nothing
  <2>1. /\ r9[s].step = "rename"
        /\ r9' = [r9 EXCEPT ![s] = [step |-> "failed", suffix |-> r9[s].suffix]]
        /\ UNCHANGED <<r1, r2, r3, r4, r5, r6, r7, r8, r10, r11, r12, r13, r14, r15, r16>>
    <3>1. r9[s] \in [step : {"none", "rename", "tar", "packed", "failed"}, suffix : 0..MaxTime]
      OBVIOUS
    <3> QED BY <1>1, <3>1, NotRenamed
  <2>2. Log!TypeOK'
    BY <1>1, <2>1, SMTT(30) DEF Log!Queued, Log!HandsFull, Log!OneServer
  <2>3. Log!OneServer' /\ Log!QueueKnown'
    BY <1>1, <2>1 DEF Log!OneServer, Log!QueueKnown
  <2>4. Log!HandsFull'
    BY <1>1, <2>1 DEF Log!HandsFull, Log!OneServer
  <2>5. Log!BackupsApart'
    BY <1>1, <2>1
       DEF Log!BackupsApart, Log!Archiving, Log!RemovalDue, Log!HandsFull, Log!OneServer
  <2>6. EveryLine'
    BY <1>1, <2>1, LinesStay DEF HasLine, InQueue, InHands, InLog, InBackups, InArchives
  <2> QED BY <2>2, <2>3, <2>4, <2>5, <2>6
<1>2. CASE r10 # Nothing
  <2>1. /\ r9[s].step = "rename"
        /\ r9' = [r9 EXCEPT ![s] = [step |-> "tar", suffix |-> r9[s].suffix]]
        /\ r11' = [r11 EXCEPT ![r9[s].suffix] = r10]
        /\ r10' = Nothing
        /\ r7' = [r \in LogServers |-> IF r7[r] = Log!TestLog THEN r9[s].suffix ELSE r7[r]]
        /\ UNCHANGED <<r1, r2, r3, r4, r5, r6, r8, r12, r13, r14, r15, r16>>
    <3>1. r9[s] \in [step : {"none", "rename", "tar", "packed", "failed"}, suffix : 0..MaxTime]
      OBVIOUS
    <3> QED BY <1>2, <3>1, Renamed
  <2>2. Log!TypeOK'
    BY <1>2, <2>1 DEF Log!Queued, Log!HandsFull, Log!OneServer
  <2>3. Log!OneServer' /\ Log!QueueKnown'
    BY <1>2, <2>1 DEF Log!OneServer, Log!QueueKnown
  <2>4. Log!HandsFull'
    BY <1>2, <2>1 DEF Log!HandsFull, Log!OneServer
  <2>5. Log!BackupsApart'
    BY <1>2, <2>1
       DEF Log!BackupsApart, Log!Archiving, Log!RemovalDue, Log!HandsFull, Log!OneServer
  <2>6. EveryLine'
    <3>1. ASSUME ~r16.twice', NEW l, InQueue(l) PROVE HasLine(l)' \/ l \in r15'
      BY <2>1, <3>1 DEF InQueue, HasLine
    <3>2. ASSUME ~r16.twice', NEW l, InHands(l) PROVE HasLine(l)' \/ l \in r15'
      BY <2>1, <3>2 DEF InHands, HasLine
    <3>3. ASSUME ~r16.twice', NEW l, InLog(l) PROVE HasLine(l)' \/ l \in r15'
      <4>1. r9[s].suffix \in Log!Times /\ r11'[r9[s].suffix] = r10
        BY <2>1
      <4> QED BY <1>2, <3>3, <4>1 DEF HasLine, InLog, InBackups
    <3>4. ASSUME ~r16.twice', NEW l, InBackups(l) PROVE HasLine(l)' \/ l \in r15'
      <4>1. r11[r9[s].suffix] = Nothing
        BY <2>1, <3>4 DEF Log!BackupsApart, Log!Archiving
      <4>2. \A t \in Log!Times : t # r9[s].suffix => r11'[t] = r11[t]
        BY <2>1
      <4> QED BY <3>4, <4>1, <4>2 DEF HasLine, InBackups
    <3>5. ASSUME ~r16.twice', NEW l, InArchives(l) PROVE HasLine(l)' \/ l \in r15'
      BY <2>1, <3>5 DEF InArchives, HasLine
    <3> QED BY <2>1, <3>1, <3>2, <3>3, <3>4, <3>5, LinesStay DEF HasLine
  <2> QED BY <2>2, <2>3, <2>4, <2>5, <2>6
<1> QED BY <1>1, <1>2

(* tar archives a backup that is there ...                                     *)
LEMMA Packed ==
  ASSUME NEW s \in LogServers, Log!Tar(s), r9'[s].step = "packed",
         r9 \in [LogServers -> [step : {"none", "rename", "tar", "packed", "failed"},
                               suffix : 0..MaxTime]]
  PROVE  /\ r9[s].step = "tar"
         /\ r11[r9[s].suffix] # Nothing
         /\ r12' = [r12 EXCEPT ![r9[s].suffix] = r11[r9[s].suffix]]
         /\ r9' = [r9 EXCEPT ![s] = [step |-> "packed", suffix |-> r9[s].suffix]]
         /\ UNCHANGED <<r1, r2, r3, r4, r5, r6, r7, r8, r10, r11, r13, r14, r15, r16>>
BY DEF Log!Tar, Log!ipc, Log!server

(* ... or fails.                                                              *)
LEMMA NotPacked ==
  ASSUME NEW s \in LogServers, Log!Tar(s), r9'[s].step # "packed",
         r9 \in [LogServers -> [step : {"none", "rename", "tar", "packed", "failed"},
                               suffix : 0..MaxTime]]
  PROVE  /\ r9[s].step = "tar"
         /\ r9' = [r9 EXCEPT ![s] = [step |-> "failed", suffix |-> r9[s].suffix]]
         /\ UNCHANGED <<r1, r2, r3, r4, r5, r6, r7, r8, r10, r11, r12, r13, r14, r15, r16>>
BY DEF Log!Tar, Log!ipc, Log!server

(* The archive is a copy of the backup.                                       *)
LEMMA TarKeeps ==
  ASSUME LogInv, NEW s \in LogServers, Log!Tar(s)
  PROVE  LogInv'
<1> USE ProgramsAssumption DEF LogInv, Log!TypeOK, Log!Places, Log!Messages, Log!File,
        Log!Idle, Log!Times, Log!TestLog, Log!Running
<1>1. CASE r9'[s].step = "packed"
  <2>1. /\ r9[s].step = "tar"
        /\ r11[r9[s].suffix] # Nothing
        /\ r12' = [r12 EXCEPT ![r9[s].suffix] = r11[r9[s].suffix]]
        /\ r9' = [r9 EXCEPT ![s] = [step |-> "packed", suffix |-> r9[s].suffix]]
        /\ UNCHANGED <<r1, r2, r3, r4, r5, r6, r7, r8, r10, r11, r13, r14, r15, r16>>
    <3>1. r9 \in [LogServers -> [step : {"none", "rename", "tar", "packed", "failed"},
                              suffix : 0..MaxTime]]
      OBVIOUS
    <3> QED BY <1>1, <3>1, Packed
  <2>2. Log!TypeOK'
    BY <1>1, <2>1, SMTT(30) DEF Log!Queued, Log!HandsFull, Log!OneServer
  <2>3. Log!OneServer' /\ Log!QueueKnown'
    BY <1>1, <2>1 DEF Log!OneServer, Log!QueueKnown
  <2>4. Log!HandsFull'
    BY <1>1, <2>1 DEF Log!HandsFull, Log!OneServer
  <2>5. Log!BackupsApart'
    BY <1>1, <2>1
       DEF Log!BackupsApart, Log!Archiving, Log!RemovalDue, Log!HandsFull, Log!OneServer
  <2>6. EveryLine'
    <3>1. ASSUME ~r16.twice', NEW l, InQueue(l) PROVE HasLine(l)' \/ l \in r15'
      BY <2>1, <3>1 DEF InQueue, HasLine
    <3>2. ASSUME ~r16.twice', NEW l, InHands(l) PROVE HasLine(l)' \/ l \in r15'
      BY <2>1, <3>2 DEF InHands, HasLine
    <3>3. ASSUME ~r16.twice', NEW l, InLog(l) PROVE HasLine(l)' \/ l \in r15'
      BY <2>1, <3>3 DEF InLog, HasLine
    <3>4. ASSUME ~r16.twice', NEW l, InBackups(l) PROVE HasLine(l)' \/ l \in r15'
      BY <2>1, <3>4 DEF InBackups, HasLine
    <3>5. ASSUME ~r16.twice', NEW l, InArchives(l) PROVE HasLine(l)' \/ l \in r15'
      <4>1. r12[r9[s].suffix] = Nothing
        BY <2>1, <3>5 DEF Log!BackupsApart, Log!Archiving
      <4>2. \A t \in Log!Times : t # r9[s].suffix => r12'[t] = r12[t]
        BY <2>1
      <4> QED BY <3>5, <4>1, <4>2 DEF HasLine, InArchives
    <3> QED BY <2>1, <3>1, <3>2, <3>3, <3>4, <3>5, LinesStay DEF HasLine
  <2> QED BY <2>2, <2>3, <2>4, <2>5, <2>6
<1>2. CASE r9'[s].step # "packed"
  <2>1. /\ r9[s].step = "tar"
        /\ r9' = [r9 EXCEPT ![s] = [step |-> "failed", suffix |-> r9[s].suffix]]
        /\ UNCHANGED <<r1, r2, r3, r4, r5, r6, r7, r8, r10, r11, r12, r13, r14, r15, r16>>
    <3>1. r9 \in [LogServers -> [step : {"none", "rename", "tar", "packed", "failed"},
                              suffix : 0..MaxTime]]
      OBVIOUS
    <3> QED BY <1>2, <3>1, NotPacked
  <2>2. Log!TypeOK'
    BY <1>2, <2>1 DEF Log!Queued, Log!HandsFull, Log!OneServer
  <2>3. Log!OneServer' /\ Log!QueueKnown'
    BY <1>2, <2>1 DEF Log!OneServer, Log!QueueKnown
  <2>4. Log!HandsFull'
    BY <1>2, <2>1 DEF Log!HandsFull, Log!OneServer
  <2>5. Log!BackupsApart'
    BY <1>2, <2>1
       DEF Log!BackupsApart, Log!Archiving, Log!RemovalDue, Log!HandsFull, Log!OneServer
  <2>6. EveryLine'
    BY <1>2, <2>1, LinesStay DEF HasLine, InQueue, InHands, InLog, InBackups, InArchives
  <2> QED BY <2>2, <2>3, <2>4, <2>5, <2>6
<1> QED BY <1>1, <1>2

(* Time passes.                                                               *)
LEMMA TickKeeps ==
  ASSUME LogInv, Log!Tick
  PROVE  LogInv'
<1> USE ProgramsAssumption DEF LogInv, Log!TypeOK, Log!Places, Log!Messages, Log!File,
        Log!Idle, Log!Times, Log!TestLog, Log!Running
<1>1. /\ r13' = r13 + 1
      /\ r13 < MaxTime
      /\ UNCHANGED <<r1, r2, r3, r4, r5, r6, r7, r8, r9, r10, r11, r12, r14, r15, r16>>
  BY DEF Log!Tick, Log!ipc, Log!server, Log!files
<1>2. Log!TypeOK'
  BY <1>1 DEF Log!Queued, Log!HandsFull, Log!OneServer
<1>3. Log!OneServer' /\ Log!QueueKnown'
  BY <1>1 DEF Log!OneServer, Log!QueueKnown
<1>4. Log!HandsFull'
  BY <1>1 DEF Log!HandsFull, Log!OneServer
<1>5. Log!BackupsApart'
  BY <1>1, BackupsStay
<1>6. EveryLine'
  BY <1>1, LinesStay DEF HasLine, InQueue, InHands, InLog, InBackups, InArchives
<1> QED BY <1>2, <1>3, <1>4, <1>5, <1>6

(* A kill gives up the line in hand and leaves the child.                     *)
LEMMA KillKeeps ==
  ASSUME LogInv, NEW s \in LogServers, Log!Kill(s)
  PROVE  LogInv'
<1> USE ProgramsAssumption DEF LogInv, Log!TypeOK, Log!Places, Log!Messages, Log!File,
        Log!Idle, Log!Times, Log!TestLog, Log!Running
<1>1. /\ Log!Running(s)
      /\ r5' = [r5 EXCEPT ![s] = "killed"]
      /\ r15' = IF r5[s] \in {"save", "write"} THEN r15 \cup {r6[s]} ELSE r15
      /\ r6' = [r6 EXCEPT ![s] = Nothing]
      /\ r7' = [r7 EXCEPT ![s] = Nothing]
      /\ UNCHANGED <<r1, r2, r3, r4, r8, r9, r10, r11, r12, r13, r14, r16>>
  BY DEF Log!Kill, Log!ipc, Log!server, Log!files
<1>2. Log!TypeOK'
  BY <1>1 DEF Log!Queued, Log!HandsFull, Log!OneServer
<1>3. Log!OneServer' /\ Log!QueueKnown'
  BY <1>1 DEF Log!OneServer, Log!QueueKnown
<1>4. Log!HandsFull'
  BY <1>1 DEF Log!HandsFull, Log!OneServer
<1>5. Log!BackupsApart'
  BY <1>1, BackupsStay
<1>6. EveryLine'
  BY <1>1, LinesStay DEF HasLine, InQueue, InHands, InLog, InBackups, InArchives
<1> QED BY <1>2, <1>3, <1>4, <1>5, <1>6

(* The user removes the queue when no server has it.                          *)
LEMMA IpcrmKeeps ==
  ASSUME LogInv, Log!Ipcrm
  PROVE  LogInv'
<1> USE ProgramsAssumption DEF LogInv, Log!TypeOK, Log!Places, Log!Messages, Log!File,
        Log!Idle, Log!Times, Log!TestLog, Log!Running
<1>1. /\ \A s \in LogServers : ~Log!Running(s)
      /\ r1' = 0
      /\ r2' = <<>>
      /\ r15' = r15 \cup Log!Queued
      /\ UNCHANGED <<r3, r4, r5, r6, r7, r8, r9, r10, r11, r12, r13, r14, r16>>
  BY DEF Log!Ipcrm, Log!ipc, Log!server, Log!files
<1>2. Log!TypeOK'
  BY <1>1 DEF Log!Queued, Log!HandsFull, Log!OneServer
<1>3. Log!OneServer' /\ Log!QueueKnown'
  BY <1>1 DEF Log!OneServer, Log!QueueKnown
<1>4. Log!HandsFull'
  BY <1>1 DEF Log!HandsFull, Log!OneServer
<1>5. Log!BackupsApart'
  BY <1>1, BackupsStay
<1>6. EveryLine'
  <2>1. ASSUME ~r16.twice', NEW l, InQueue(l) PROVE HasLine(l)' \/ l \in r15'
    BY <1>1, <2>1 DEF InQueue, Log!Queued
  <2>2. ASSUME ~r16.twice', NEW l, InHands(l) PROVE HasLine(l)' \/ l \in r15'
    BY <1>1, <2>2 DEF InHands, HasLine
  <2>3. ASSUME ~r16.twice', NEW l, InLog(l) PROVE HasLine(l)' \/ l \in r15'
    BY <1>1, <2>3 DEF InLog, HasLine
  <2>4. ASSUME ~r16.twice', NEW l, InBackups(l) PROVE HasLine(l)' \/ l \in r15'
    BY <1>1, <2>4 DEF InBackups, HasLine
  <2>5. ASSUME ~r16.twice', NEW l, InArchives(l) PROVE HasLine(l)' \/ l \in r15'
    BY <1>1, <2>5 DEF InArchives, HasLine
  <2> QED BY <1>1, <2>1, <2>2, <2>3, <2>4, <2>5, LinesStay DEF HasLine
<1> QED BY <1>2, <1>3, <1>4, <1>5, <1>6

(* Every step of servers, children, clients and the world keeps the invariant. *)
LEMMA LogStep ==
  ASSUME Log!ChainInv, Log!Next
  PROVE  Log!ChainInv'
<1>0. LogInv
  BY ChainInvIs
<1>1. LogInv'
  <2>1. ASSUME NEW s \in LogServers,
               Log!StartServer(s) \/ Log!ServerStep(s) \/ Log!ChildStep(s) \/ Log!Kill(s)
        PROVE  LogInv'
    BY <1>0, <2>1, StartServerKeeps, RecvKeeps, DestroyKeeps, SaveOpenKeeps, SaveWriteKeeps,
       IsOutOfRangeKeeps, BackupKeeps, WaitedKeeps, RenameKeeps, TarKeeps, KillKeeps
       DEF Log!ServerStep, Log!ChildStep
  <2>2. ASSUME NEW c \in LogClients, Log!ClientStep(c)
        PROVE  LogInv'
    BY <1>0, <2>2, StartClientKeeps, SendKeeps DEF Log!ClientStep
  <2> QED BY <1>0, <2>1, <2>2, TickKeeps, IpcrmKeeps DEF Log!Next
<1>2. Log!LinesKept' <=> EveryLine'
  BY LinesKeptIs, PTL
<1> QED BY <1>1, <1>2 DEF Log!ChainInv, LogInv

-----------------------------------------------------------------------------
(* The writers of the semaphore. *)

LEMMA SemInit ==
  ASSUME Sem!Init
  PROVE  Sem!WritersInv
<1> USE DEF Sem!Init, Sem!Writers, Sem!Father, Sem!Child, Sem!None, Sem!Letters, Sem!Letter,
            Sem!Places, Sem!Taken, Sem!Inside
<1>1. Sem!TypeOK
  BY ProgramsAssumption DEF Sem!TypeOK
<1>2. Sem!SetKept
  BY DEF Sem!SetKept
<1>3. Sem!UnitsKept
  BY DEF Sem!UnitsKept
<1>4. Sem!PairsTogether
  BY DEF Sem!PairsTogether
<1> QED BY <1>1, <1>2, <1>3, <1>4, ProgramsAssumption DEF Sem!WritersInv

(* The steps of father and child, and what ends them.                          *)
LEMMA SemStep ==
  ASSUME Sem!WritersInv, Sem!Next
  PROVE  Sem!WritersInv'
<1> USE ProgramsAssumption DEF Sem!WritersInv, Sem!TypeOK, Sem!SetKept, Sem!UnitsKept,
            Sem!PairsTogether, Sem!Writers, Sem!Father, Sem!Child, Sem!None, Sem!Letters,
            Sem!Letter, Sem!Places, Sem!Taken, Sem!Inside, Sem!Goto
<1>1. CASE Sem!FatherBuild
  <2>1. CASE r3 = Sem!None
    BY <1>1, <2>1 DEF Sem!FatherBuild
  <2>2. CASE r3 # Sem!None
    BY <1>1, <2>2 DEF Sem!FatherBuild
  <2> QED BY <2>1, <2>2
<1>2. CASE Sem!SetVal
  BY <1>2 DEF Sem!SetVal, Sem!Units
<1>3. CASE Sem!Fork
  BY <1>3 DEF Sem!Fork
<1>4. CASE Sem!ChildBuild
  <2>1. CASE r3 = Sem!None
    BY <1>4, <2>1 DEF Sem!ChildBuild
  <2>2. CASE r3 # Sem!None
    BY <1>4, <2>2 DEF Sem!ChildBuild
  <2> QED BY <2>1, <2>2
<1>5. ASSUME NEW p \in Sem!Writers, Sem!Crash(p) PROVE Sem!WritersInv'
  BY <1>5 DEF Sem!Crash
<1>6. ASSUME NEW p \in Sem!Writers, Sem!OpFails(p) PROVE Sem!WritersInv'
  BY <1>6 DEF Sem!OpFails, Sem!Usable
<1>7. ASSUME NEW p \in Sem!Writers, Sem!P(p) PROVE Sem!WritersInv'
  BY <1>7 DEF Sem!P, Sem!Usable
<1>8. ASSUME NEW p \in Sem!Writers, Sem!PrintLetters(p) PROVE Sem!WritersInv'
  BY <1>8 DEF Sem!PrintLetters
<1>9. ASSUME NEW p \in Sem!Writers, Sem!V(p) PROVE Sem!WritersInv'
  BY <1>9 DEF Sem!V, Sem!Usable
<1>10. CASE Sem!Remove
  BY <1>10 DEF Sem!Remove
<1>11. ASSUME NEW p \in Sem!Writers, Sem!Kill(p) PROVE Sem!WritersInv'
  BY <1>11 DEF Sem!Kill, Sem!GiveBack
<1> QED BY <1>1, <1>2, <1>3, <1>4, <1>5, <1>6, <1>7, <1>8, <1>9, <1>10, <1>11
       DEF Sem!Next, Sem!FatherStep, Sem!ChildStep, Sem!Step

-----------------------------------------------------------------------------
(* The shared memory. *)

(* The segment, the memory and what is shown of it.                           *)
LEMMA ShmInit ==
  ASSUME Shm!Init
  PROVE  Shm!SegmentInv
<1> USE ProgramsAssumption DEF Shm!Init, Shm!NoSegment, Shm!Zero, Shm!Processes
<1>1. Shm!TypeOK
  BY DEF Shm!TypeOK
<1>2. Shm!PrintsABeginning
  BY DEF Shm!PrintsABeginning
<1> QED BY <1>1, <1>2 DEF Shm!SegmentInv

(* A server has shown what it has passed, and passes a letter at a time.       *)
LEMMA ShmStep ==
  ASSUME Shm!SegmentInv, Shm!Next
  PROVE  Shm!SegmentInv'
<1> USE ProgramsAssumption DEF Shm!SegmentInv, Shm!TypeOK, Shm!PrintsABeginning,
        Shm!Processes, Shm!Goto, Shm!NoSegment, Shm!NewSegment, Shm!Zero
<1>1. ASSUME NEW p \in Shm!Processes, Shm!Create(p) PROVE Shm!SegmentInv'
  <2>1. CASE r2.made
    <3>1. r4' = [r4 EXCEPT ![p] = "exited"] /\ UNCHANGED <<r1, r2, r3, r5, r6>>
      BY <1>1, <2>1 DEF Shm!Create
    <3> QED BY <3>1
  <2>2. CASE ~r2.made
    <3>1. /\ r2' = [made |-> TRUE, mode |-> 6, users |-> {}]
          /\ r4' = [r4 EXCEPT ![p] = "attach"] /\ p \in ShmServers
          /\ UNCHANGED <<r1, r3, r5, r6>>
      BY <1>1, <2>2 DEF Shm!Create
    <3>2. \A r \in Shm!Processes : r4[r] \notin {"attach", "use"}
      BY <2>2
    <3> QED BY <3>1, <3>2
  <2> QED BY <2>1, <2>2
<1>2. ASSUME NEW p \in Shm!Processes, Shm!Get(p) PROVE Shm!SegmentInv'
  BY <1>2 DEF Shm!Get
<1>3. ASSUME NEW p \in Shm!Processes, Shm!Attach(p) PROVE Shm!SegmentInv'
  <2>1. CASE r2.made /\ (r2.mode = 6 \/ r1)
    <3>1. /\ r2' = [r2 EXCEPT !.users = @ \cup {p}]
          /\ r4' = [r4 EXCEPT ![p] = "use"] /\ r4[p] = "attach"
          /\ UNCHANGED <<r1, r3, r5, r6>>
      BY <1>3, <2>1 DEF Shm!Attach
    <3> QED BY <2>1, <3>1
  <2>2. CASE ~(r2.made /\ (r2.mode = 6 \/ r1))
    <3>1. r4' = [r4 EXCEPT ![p] = "exited"] /\ UNCHANGED <<r1, r2, r3, r5, r6>>
      BY <1>3, <2>2 DEF Shm!Attach
    <3> QED BY <3>1
  <2> QED BY <2>1, <2>2
<1>4. ASSUME NEW p \in Shm!Processes, Shm!Write(p) PROVE Shm!SegmentInv'
  <2>1. /\ p \in ShmClients /\ r5[p] \in 1..Memory /\ r5[p] <= Alphabet
        /\ r3' = [r3 EXCEPT ![r5[p]] = r5[p]] /\ r5' = [r5 EXCEPT ![p] = @ + 1]
        /\ UNCHANGED <<r1, r2, r4, r6>>
    BY <1>4 DEF Shm!Write
  <2>2. r3' \in [1..Memory -> 0..Alphabet]
    BY <2>1
  <2>3. \A j \in 1..Memory : r3'[j] \in {0, j}
    BY <2>1
  <2>4. r5' \in [Shm!Processes -> 1..Memory] /\ \A q \in ShmServers : r5'[q] = r5[q]
    BY <2>1
  <2> QED BY <2>1, <2>2, <2>3, <2>4
<1>5. ASSUME NEW p \in Shm!Processes, Shm!ClientEnds(p) PROVE Shm!SegmentInv'
  BY <1>5 DEF Shm!ClientEnds
<1>6. ASSUME NEW p \in Shm!Processes, Shm!PrintByte(p) PROVE Shm!SegmentInv'
  <2>0. p \in ShmServers /\ r5[p] \in 1..Memory /\ r5[p] = Len(r6[p]) + 1
        /\ r6[p] \in Seq(Nat) /\ r3[r5[p]] \in {0, r5[p]}
        /\ UNCHANGED <<r1, r2, r3, r4>>
    BY <1>6 DEF Shm!PrintByte
  <2>1. CASE r3[r5[p]] = 0 \/ r5[p] = Memory
    <3>1. /\ r6' = [r6 EXCEPT ![p] = <<>>]
          /\ r5' = [r5 EXCEPT ![p] = 1]
      BY <1>6, <2>1 DEF Shm!PrintByte
    <3>2. /\ r5' \in [Shm!Processes -> 1..Memory]
          /\ r6' \in [ShmServers -> Seq(Nat)]
          /\ \A q \in ShmServers : r5'[q] = Len(r6'[q]) + 1
          /\ \A q \in ShmServers : \A j \in DOMAIN r6'[q] : r6'[q][j] = j
      BY <2>0, <3>1
    <3> QED BY <2>0, <3>2
  <2>2. CASE ~(r3[r5[p]] = 0 \/ r5[p] = Memory)
    <3>1. /\ r6' = [r6 EXCEPT ![p] = Append(@, r5[p])]
          /\ r5' = [r5 EXCEPT ![p] = @ + 1]
      BY <1>6, <2>0, <2>2 DEF Shm!PrintByte
    <3>2. /\ r6'[p] = Append(r6[p], r5[p]) /\ r6'[p] \in Seq(Nat) /\ r5'[p] = Len(r6'[p]) + 1
          /\ \A j \in DOMAIN r6'[p] : r6'[p][j] = j
      <4>1. r6'[p] = Append(r6[p], r5[p]) /\ r5'[p] = r5[p] + 1
        BY <2>0, <3>1
      <4>2. /\ r6'[p] \in Seq(Nat) /\ Len(r6'[p]) = Len(r6[p]) + 1
            /\ DOMAIN r6'[p] = 1..(Len(r6[p]) + 1)
            /\ r6'[p][Len(r6[p]) + 1] = r5[p]
            /\ \A j \in 1..Len(r6[p]) : r6'[p][j] = r6[p][j]
        BY <2>0, <4>1
      <4>3. \A j \in 1..Len(r6[p]) : r6[p][j] = j
        BY <2>0
      <4> QED BY <2>0, <4>1, <4>2, <4>3
    <3>3. r5' \in [Shm!Processes -> 1..Memory]
      BY <2>0, <2>2, <3>1
    <3>4. r6' \in [ShmServers -> Seq(Nat)]
      BY <2>0, <3>1
    <3>5. \A q \in ShmServers : q # p => r5'[q] = r5[q] /\ r6'[q] = r6[q]
      BY <2>0, <3>1
    <3> QED BY <2>0, <3>2, <3>3, <3>4, <3>5
  <2> QED BY <2>1, <2>2
<1>7. ASSUME NEW p \in Shm!Processes, Shm!Kill(p) PROVE Shm!SegmentInv'
  BY <1>7 DEF Shm!Kill
<1>8. CASE Shm!Remove
  BY <1>8 DEF Shm!Remove
<1> QED BY <1>1, <1>2, <1>3, <1>4, <1>5, <1>6, <1>7, <1>8 DEF Shm!Next

-----------------------------------------------------------------------------
(* The named pipe. *)

(* What was read followed by what is in the pipe.                             *)
LEMMA Joined ==
  ASSUME NEW s \in Seq(Pipe!Message), NEW t \in Seq(Pipe!Message)
  PROVE  /\ s \o t \in Seq(Pipe!Message)
         /\ Len(s \o t) = Len(s) + Len(t) /\ Len(s) \in Nat /\ Len(t) \in Nat
         /\ \A i \in 1..Len(s) : (s \o t)[i] = s[i]
         /\ \A i \in 1..Len(t) : (s \o t)[Len(s) + i] = t[i]
         /\ \A i \in (Len(s) + 1)..(Len(s) + Len(t)) : (s \o t)[i] = t[i - Len(s)]
         /\ DOMAIN s = 1..Len(s) /\ DOMAIN t = 1..Len(t)
OBVIOUS

(* A read takes the first n entries, and all of them stay in their order.       *)
LEMMA ReadMoves ==
  ASSUME NEW S, NEW s \in Seq(S), NEW t \in Seq(S), NEW n \in 1..Len(t)
  PROVE  /\ s \o SubSeq(t, 1, n) \in Seq(S)
         /\ SubSeq(t, n + 1, Len(t)) \in Seq(S)
         /\ Len(SubSeq(t, n + 1, Len(t))) <= Len(t)
         /\ (s \o SubSeq(t, 1, n)) \o SubSeq(t, n + 1, Len(t)) = s \o t
<1> DEFINE a == SubSeq(t, 1, n)
           b == SubSeq(t, n + 1, Len(t))
<1>1. a \in Seq(S) /\ b \in Seq(S) /\ Len(b) = Len(t) - n
  OBVIOUS
<1>2. a \o b = t
  <2>1. /\ 1 \in 1..(Len(t) + 1) /\ n \in (1 - 1)..Len(t) /\ Len(t) \in n..Len(t)
    OBVIOUS
  <2>2. SubSeq(t, 1, n) \o SubSeq(t, n + 1, Len(t)) = SubSeq(t, 1, Len(t))
    BY <2>1, ConcatAdjacentSubSeq, Zenon
  <2>3. SubSeq(t, 1, Len(t)) = t
    OBVIOUS
  <2> QED BY <2>2, <2>3
<1> HIDE DEF a, b
<1>3. (s \o a) \o b = s \o t
  <2>1. \A x, y, z \in Seq(S) : (x \o y) \o z = x \o (y \o z)
    OBVIOUS
  <2>2. (s \o a) \o b = s \o (a \o b)
    BY <1>1, <2>1
  <2> QED BY <1>2, <2>2
<1>4. s \o a \in Seq(S)
  BY <1>1, ConcatProperties, Zenon
<1>5. Len(b) <= Len(t)
  BY <1>1, LenProperties
<1> QED BY <1>1, <1>3, <1>4, <1>5 DEF a, b

(* What the reader of the pipe reads.                                           *)
LEMMA MessagesRead ==
  ASSUME r7 \in Seq(Pipe!Message), r3 \in Seq(Pipe!Message), NEW n \in 1..Len(r3),
         r7' = r7 \o SubSeq(r3, 1, n), r3' = SubSeq(r3, n + 1, Len(r3))
  PROVE  /\ r7' \in Seq(Pipe!Message) /\ r3' \in Seq(Pipe!Message)
         /\ Len(r3') <= Len(r3) /\ r7' \o r3' = r7 \o r3
<1>1. /\ r7 \o SubSeq(r3, 1, n) \in Seq(Pipe!Message)
      /\ SubSeq(r3, n + 1, Len(r3)) \in Seq(Pipe!Message)
      /\ Len(SubSeq(r3, n + 1, Len(r3))) <= Len(r3)
      /\ (r7 \o SubSeq(r3, 1, n)) \o SubSeq(r3, n + 1, Len(r3)) = r7 \o r3
  BY ReadMoves, ZenonT(40)
<1> QED BY <1>1

(* A message written is the last of what was read and what is in the pipe.     *)
LEMMA WriteMoves ==
  ASSUME NEW s \in Seq(Pipe!Message), NEW t \in Seq(Pipe!Message), NEW m \in Pipe!Message
  PROVE  s \o Append(t, m) = Append(s \o t, m)
OBVIOUS

(* What comes later does not change what was before.                          *)
LEMMA BeforeStays ==
  ASSUME NEW s \in Seq(Pipe!Message), NEW t \in Seq(Pipe!Message), NEW w,
         NEW i \in 1..(Len(s) + 1)
  PROVE  Pipe!Before(s \o t, w, i) = Pipe!Before(s, w, i)
<1>1. \A j \in 1..(i - 1) : (s \o t)[j] = s[j]
  BY Joined
<1> QED BY <1>1 DEF Pipe!Before

(* What others wrote does not count for a writer.                              *)
LEMMA BeforeOthers ==
  ASSUME NEW s \in Seq(Pipe!Message), NEW t \in Seq(Pipe!Message), NEW w,
         \A i \in DOMAIN t : t[i].from # w
  PROVE  Pipe!Before(s \o t, w, Len(s \o t) + 1) = Pipe!Before(s, w, Len(s) + 1)
<1>1. {k \in 1..Len(s \o t) : (s \o t)[k].from = w} = {k \in 1..Len(s) : s[k].from = w}
  <2>1. ASSUME NEW k \in 1..Len(s \o t), (s \o t)[k].from = w
        PROVE  k \in 1..Len(s) /\ s[k].from = w
    BY <2>1, Joined
  <2>2. ASSUME NEW k \in 1..Len(s), s[k].from = w
        PROVE  k \in 1..Len(s \o t) /\ (s \o t)[k].from = w
    BY <2>2, Joined
  <2> QED BY <2>1, <2>2
<1>2. \A k \in 1..Len(s) : (s \o t)[k] = s[k]
  BY Joined
<1>3. Len(s \o t) + 1 - 1 = Len(s \o t) /\ Len(s) + 1 - 1 = Len(s)
  BY Joined
<1> QED BY <1>1, <1>2, <1>3 DEF Pipe!Before

(* What came before a message, and what is there with one more.                *)
LEMMA BeforeAppend ==
  ASSUME NEW s \in Seq(Pipe!Message), NEW m \in Pipe!Message
  PROVE  /\ \A w, i : i \in 1..(Len(s) + 1) =>
               Pipe!Before(Append(s, m), w, i) = Pipe!Before(s, w, i)
         /\ Pipe!Before(Append(s, m), m.from, Len(s) + 2) =
               Pipe!Before(s, m.from, Len(s) + 1) \cup {m.nr}
         /\ \A w : w # m.from =>
               Pipe!Before(Append(s, m), w, Len(s) + 2) = Pipe!Before(s, w, Len(s) + 1)
<1> DEFINE a == Append(s, m)
<1>1. /\ a \in Seq(Pipe!Message) /\ Len(a) = Len(s) + 1 /\ Len(s) \in Nat
      /\ \A i \in 1..Len(s) : a[i] = s[i]
      /\ a[Len(s) + 1] = m
  OBVIOUS
<1> HIDE DEF a
<1>2. ASSUME NEW w, NEW i \in 1..(Len(s) + 1)
      PROVE  Pipe!Before(a, w, i) = Pipe!Before(s, w, i)
  BY <1>1 DEF Pipe!Before
<1>3. 1..(Len(s) + 2 - 1) = 1..Len(s) \cup {Len(s) + 1} /\ 1..(Len(s) + 1 - 1) = 1..Len(s)
  BY <1>1
<1>4. ASSUME NEW w
      PROVE  {k \in 1..(Len(s) + 2 - 1) : a[k].from = w} =
                {k \in 1..Len(s) : s[k].from = w}
                \cup (IF m.from = w THEN {Len(s) + 1} ELSE {})
  BY <1>1, <1>3
<1>5. ASSUME NEW w, w # m.from
      PROVE  Pipe!Before(a, w, Len(s) + 2) = Pipe!Before(s, w, Len(s) + 1)
  BY <1>1, <1>3, <1>4, <1>5 DEF Pipe!Before
<1>6. Pipe!Before(a, m.from, Len(s) + 2) = Pipe!Before(s, m.from, Len(s) + 1) \cup {m.nr}
  BY <1>1, <1>3, <1>4 DEF Pipe!Before
<1> QED BY <1>2, <1>5, <1>6 DEF a

(* What a writer wrote and the reader has not read is in the pipe: without it  *)
(* there, everything is read.                                                 *)
LEMMA NothingLeft ==
  ASSUME Pipe!PipeInv, NEW w \in PipeWriters \ r8
  PROVE  /\ \A i \in DOMAIN r7 : r7[i].from = w =>
               Pipe!Before(r7, w, i) = 1..(r7[i].nr - 1)
         /\ (\A i \in DOMAIN r3 : r3[i].from # w) =>
               Pipe!Before(r7, w, Len(r7) + 1) = 1..r6[w]
<1>1. r7 \in Seq(Pipe!Message) /\ r3 \in Seq(Pipe!Message) /\ Pipe!Ordered(r7 \o r3, w, r6[w])
  BY DEF Pipe!PipeInv, Pipe!TypeOK, Pipe!InOrder
<1>2. ASSUME NEW i \in DOMAIN r7, r7[i].from = w
      PROVE  Pipe!Before(r7, w, i) = 1..(r7[i].nr - 1)
  <2>1. i \in 1..(Len(r7) + 1) /\ i \in DOMAIN (r7 \o r3) /\ (r7 \o r3)[i] = r7[i]
    BY <1>1, <1>2, Joined
  <2>2. Pipe!Before(r7 \o r3, w, i) = 1..(r7[i].nr - 1)
    BY <1>1, <1>2, <2>1 DEF Pipe!Ordered
  <2> QED BY <1>1, <2>1, <2>2, BeforeStays
<1>3. ASSUME \A i \in DOMAIN r3 : r3[i].from # w
      PROVE  Pipe!Before(r7, w, Len(r7) + 1) = 1..r6[w]
  BY <1>1, <1>3, BeforeOthers DEF Pipe!Ordered
<1> QED BY <1>2, <1>3

(* A message follows those its writer wrote before.                           *)
LEMMA MessageFollows ==
  ASSUME NEW s \in Seq(Pipe!Message), NEW m \in Pipe!Message, NEW w, NEW n \in Nat,
         Pipe!Ordered(s, w, n)
  PROVE  /\ w # m.from => Pipe!Ordered(Append(s, m), w, n)
         /\ w = m.from /\ m.nr = n + 1 => Pipe!Ordered(Append(s, m), w, n + 1)
<1> DEFINE a == Append(s, m)
<1>1. /\ Len(a) = Len(s) + 1 /\ Len(s) \in Nat /\ DOMAIN a = 1..(Len(s) + 1)
      /\ DOMAIN s = 1..Len(s)
      /\ \A i \in 1..Len(s) : a[i] = s[i]
      /\ a[Len(s) + 1] = m
      /\ Len(a) + 1 = Len(s) + 2
  OBVIOUS
<1>2. \A i \in DOMAIN a : Pipe!Before(a, w, i) = Pipe!Before(s, w, i)
  BY <1>1, BeforeAppend
<1>3. /\ \A i \in DOMAIN s : s[i].from = w => Pipe!Before(s, w, i) = 1..(s[i].nr - 1)
      /\ Pipe!Before(s, w, Len(s) + 1) = 1..n
  BY DEF Pipe!Ordered
<1>4. /\ w = m.from => Pipe!Before(a, w, Len(s) + 2) = 1..n \cup {m.nr}
      /\ w # m.from => Pipe!Before(a, w, Len(s) + 2) = 1..n
  <2>1. w = m.from =>
            Pipe!Before(a, w, Len(s) + 2) = Pipe!Before(s, w, Len(s) + 1) \cup {m.nr}
    BY BeforeAppend
  <2>2. w # m.from => Pipe!Before(a, w, Len(s) + 2) = Pipe!Before(s, w, Len(s) + 1)
    BY BeforeAppend
  <2> QED BY <1>3, <2>1, <2>2
<1> HIDE DEF a
<1>5. ASSUME w # m.from \/ m.nr = n + 1, NEW i \in DOMAIN a, a[i].from = w
      PROVE  Pipe!Before(a, w, i) = 1..(a[i].nr - 1)
  <2>1. CASE i \in DOMAIN s
    BY <1>1, <1>2, <1>3, <1>5, <2>1
  <2>2. CASE i = Len(s) + 1
    <3>1. a[i] = m /\ m.nr - 1 = n
      BY <1>1, <1>5, <2>2
    <3> QED BY <1>2, <1>3, <1>5, <2>2, <3>1
  <2> QED BY <1>1, <1>5, <2>1, <2>2
<1>6. 1..(n + 1) = 1..n \cup {n + 1}
  OBVIOUS
<1>7. ASSUME w # m.from
      PROVE  Pipe!Ordered(a, w, n)
  BY <1>1, <1>4, <1>5, <1>7 DEF Pipe!Ordered
<1>8. ASSUME w = m.from, m.nr = n + 1
      PROVE  Pipe!Ordered(a, w, n + 1)
  <2>1. Pipe!Before(a, w, Len(a) + 1) = 1..(n + 1)
    BY <1>1, <1>4, <1>6, <1>8
  <2>2. \A i \in DOMAIN a : a[i].from = w => Pipe!Before(a, w, i) = 1..(a[i].nr - 1)
    BY <1>5, <1>8
  <2> QED BY <2>1, <2>2 DEF Pipe!Ordered
<1> QED BY <1>7, <1>8 DEF a

(* No fifo, and nobody has written.                                            *)
LEMMA PipeInit ==
  ASSUME Pipe!Init
  PROVE  Pipe!PipeInv
<1>1. r7 = <<>> /\ r3 = <<>> /\ r7 \o r3 = <<>> /\ r3 \in Seq(Pipe!Message)
  BY DEF Pipe!Init
<1>2. Pipe!TypeOK
  BY <1>1, ProgramsAssumption DEF Pipe!Init, Pipe!TypeOK
<1>3. Pipe!InOrder
  <2>1. ASSUME NEW w \in PipeWriters
        PROVE  Pipe!Before(<<>>, w, 0 + 1) = 1..r6[w]
    BY <2>1 DEF Pipe!Init, Pipe!Before
  <2> QED BY <1>1, <2>1 DEF Pipe!InOrder, Pipe!Ordered
<1>4. r7 \in Seq(Pipe!Message) /\ r8 \subseteq PipeWriters
      /\ r4 # "close" /\ r4 # "unlink"
  BY DEF Pipe!Init
<1> QED BY <1>1, <1>2, <1>3, <1>4 DEF Pipe!PipeInv

(* The steps that neither read nor write.                                     *)
LEMMA PipeQuiet ==
  ASSUME Pipe!PipeInv, r3' = r3, r6' = r6, r7' = r7, r8 \subseteq r8'
  PROVE  Pipe!InOrder'
BY DEF Pipe!PipeInv, Pipe!InOrder

(* The reader leaves once it has seen the end, and then only late writers have *)
(* something in the pipe.                                                      *)
LEMMA ReaderKeeps ==
  ASSUME Pipe!PipeInv, Pipe!Reader
  PROVE  Pipe!PipeInv'
<1> USE ProgramsAssumption DEF Pipe!PipeInv, Pipe!TypeOK
<1>1. CASE Pipe!MakeFifo
  BY <1>1, PipeQuiet DEF Pipe!MakeFifo
<1>2. CASE Pipe!OpenForRead
  BY <1>2, PipeQuiet DEF Pipe!OpenForRead
<1>3. CASE Pipe!Read
  <2> DEFINE n == IF Len(r3) < ReadSize THEN Len(r3) ELSE ReadSize
  <2>1. /\ r4 = "read" /\ r3 # <<>>
        /\ r7' = r7 \o SubSeq(r3, 1, n)
        /\ r3' = SubSeq(r3, n + 1, Len(r3))
        /\ UNCHANGED <<r1, r2, r4, r5, r6, r8>>
    BY <1>3 DEF Pipe!Read
  <2>2. n \in 1..Len(r3)
    BY <2>1
  <2> HIDE DEF n
  <2>3. r7' \in Seq(Pipe!Message) /\ r3' \in Seq(Pipe!Message)
        /\ Len(r3') <= Len(r3) /\ r7' \o r3' = r7 \o r3
    <3>1. r7 \in Seq(Pipe!Message) /\ r3 \in Seq(Pipe!Message)
      BY DEF Pipe!PipeInv, Pipe!TypeOK
    <3> QED BY <2>1, <2>2, <3>1, MessagesRead
  <2>4. Pipe!InOrder'
    BY <2>1, <2>3 DEF Pipe!InOrder
  <2>5. Pipe!TypeOK'
    <3>1. Len(r3') \in Nat /\ Len(r3) \in Nat
      BY <2>3, LenProperties
    <3>2. Len(r3') <= PipeSize /\ r3' \in Seq(Pipe!Message)
      BY <2>3, <3>1
    <3> QED BY <2>1, <3>2
  <2> QED BY <2>1, <2>3, <2>4, <2>5
<1>4. CASE Pipe!ReadEnd
  <2>1. /\ r4 = "read" /\ r4' \in {"read", "close"} /\ r3 = <<>> /\ Pipe!Writing = {}
        /\ UNCHANGED <<r1, r2, r3, r5, r6, r7, r8>>
    BY <1>4 DEF Pipe!ReadEnd, Pipe!AtEnd
  <2>2. Pipe!InOrder'
    BY <2>1, PipeQuiet
  <2>3. Pipe!Writing' = {}
    BY <2>1 DEF Pipe!Writing
  <2> QED BY <2>1, <2>2, <2>3
<1>5. CASE Pipe!CloseReader
  <2>1. /\ r4 = "close" /\ r4' = "unlink" /\ r3' = <<>>
        /\ UNCHANGED <<r1, r2, r5, r6, r7, r8>>
    BY <1>5 DEF Pipe!CloseReader
  <2>2. r7' \o r3' = r7
    BY <2>1
  <2>3. ASSUME NEW w \in PipeWriters \ r8
        PROVE  /\ \A i \in DOMAIN r7 : r7[i].from = w =>
                     Pipe!Before(r7, w, i) = 1..(r7[i].nr - 1)
               /\ Pipe!Before(r7, w, Len(r7) + 1) = 1..r6[w]
    BY <2>1, <2>3, NothingLeft
  <2>4. Pipe!InOrder'
    BY <2>1, <2>2, <2>3 DEF Pipe!InOrder, Pipe!Ordered
  <2>5. Pipe!TypeOK'
    BY <2>1
  <2> QED BY <2>1, <2>4, <2>5
<1>6. CASE Pipe!Unlink
  BY <1>6, PipeQuiet DEF Pipe!Unlink
<1> QED BY <1>1, <1>2, <1>3, <1>4, <1>5, <1>6 DEF Pipe!Reader

(* A writer adds its next message, and is late when the reader has seen the end. *)
LEMMA WriterKeeps ==
  ASSUME Pipe!PipeInv, NEW w \in PipeWriters, Pipe!Writer(w)
  PROVE  Pipe!PipeInv'
<1> USE ProgramsAssumption DEF Pipe!PipeInv, Pipe!TypeOK
<1>1. CASE Pipe!OpenForWrite(w)
  <2>1. /\ r5' \in [PipeWriters -> {"off", "open", "write", "nowhere", "ended"}]
        /\ \A v \in PipeWriters : v # w => r5'[v] = r5[v]
        /\ r8' = IF r4 = "close" THEN r8 \cup {w} ELSE r8
        /\ UNCHANGED <<r1, r2, r3, r4, r6, r7>>
    BY <1>1 DEF Pipe!OpenForWrite
  <2>2. Pipe!InOrder'
    BY <2>1, PipeQuiet
  <2> QED BY <2>1, <2>2 DEF Pipe!Writing
<1>2. CASE Pipe!Write(w)
  <2> DEFINE m == [from |-> w, nr |-> r6[w] + 1]
  <2>1. CASE Pipe!ReaderHasIt
    <3>1. /\ r5[w] = "write" /\ r6[w] < Texts /\ Len(r3) < PipeSize
          /\ r3' = Append(r3, m) /\ r6' = [r6 EXCEPT ![w] = @ + 1]
          /\ r4 \in {"open", "read", "close"}
          /\ UNCHANGED <<r1, r2, r4, r5, r7, r8>>
      BY <1>2, <2>1 DEF Pipe!Write, Pipe!ReaderHasIt
    <3>2. m \in Pipe!Message /\ m.from = w /\ m.nr = r6[w] + 1 /\ r6[w] \in Nat
      BY <3>1 DEF Pipe!Message
    <3> HIDE DEF m
    <3>3. r7' \o r3' = Append(r7 \o r3, m) /\ r7 \o r3 \in Seq(Pipe!Message)
      <4>1. r7 \o Append(r3, m) = Append(r7 \o r3, m)
        BY <3>2, WriteMoves
      <4>2. r7 \o r3 \in Seq(Pipe!Message)
        BY Joined
      <4> QED BY <3>1, <4>1, <4>2
    <3>4. Pipe!InOrder'
      <4>1. ASSUME NEW v \in PipeWriters \ r8
            PROVE  Pipe!Ordered(Append(r7 \o r3, m), v, r6'[v])
        <5>1. r6[v] \in Nat /\ Pipe!Ordered(r7 \o r3, v, r6[v])
          BY DEF Pipe!InOrder
        <5>2. r6'[v] = IF v = w THEN r6[v] + 1 ELSE r6[v]
          BY <3>1
        <5> QED BY <3>2, <3>3, <5>1, <5>2, MessageFollows
      <4> QED BY <3>1, <3>3, <4>1 DEF Pipe!InOrder
    <3>5. Pipe!TypeOK'
      BY <3>1, <3>2
    <3>6. r4 = "close" => w \in r8 /\ \A i \in DOMAIN r3' : r3'[i].from \in r8
      BY <3>1, <3>2 DEF Pipe!Writing
    <3> QED BY <3>1, <3>4, <3>5, <3>6 DEF Pipe!Writing
  <2>2. CASE ~Pipe!ReaderHasIt
    BY <1>2, <2>2, PipeQuiet DEF Pipe!Write, Pipe!ReaderHasIt, Pipe!Writing
  <2> QED BY <2>1, <2>2
<1>3. CASE Pipe!EndWriter(w)
  BY <1>3, PipeQuiet DEF Pipe!EndWriter, Pipe!Writing
<1> QED BY <1>1, <1>2, <1>3 DEF Pipe!Writer

-----------------------------------------------------------------------------
(* The Thread classes: r1 class, r2 isdetach, r3 isrunning, r4 tid, r5 threads,
   r6 failed, r7 calls, r8 undefined. *)

Methods == {"Start", "Detach", "Stop", "Join"}

(* A call at the end comes after those there were.                              *)
LEMMA CallsGrow ==
  ASSUME r7 \in Seq(Methods), NEW m \in Methods, r7' = Append(r7, m)
  PROVE  /\ r7' \in Seq(Methods) /\ Len(r7') = Len(r7) + 1
         /\ \A a : Class!Called(a)' <=> Class!Called(a) \/ a = m
         /\ \A a, b : Class!Before(a, b)' <=> Class!Before(a, b) \/ (b = m /\ Class!Called(a))
         /\ Class!JoinsFirst => Class!JoinsFirst'
         /\ m = "Join" /\ ~Class!Called("Start") => Class!JoinsFirst'
<1>1. /\ r7' \in Seq(Methods) /\ Len(r7') = Len(r7) + 1 /\ Len(r7) \in Nat
      /\ DOMAIN r7 = 1..Len(r7) /\ DOMAIN r7' = 1..(Len(r7) + 1)
      /\ \A i \in 1..Len(r7) : r7'[i] = r7[i]
      /\ r7'[Len(r7) + 1] = m
  BY AppendProperties, LenProperties
<1>2. ASSUME NEW a PROVE Class!Called(a)' <=> Class!Called(a) \/ a = m
  <2>1. ASSUME Class!Called(a) PROVE Class!Called(a)'
    <3>1. PICK i \in 1..Len(r7) : r7[i] = a
      BY <1>1, <2>1 DEF Class!Called
    <3>2. i \in 1..(Len(r7) + 1) /\ r7'[i] = a
      BY <1>1, <3>1
    <3> QED BY <1>1, <3>2 DEF Class!Called
  <2>2. ASSUME a = m PROVE Class!Called(a)'
    <3>1. Len(r7) + 1 \in 1..(Len(r7) + 1) /\ r7'[Len(r7) + 1] = a
      BY <1>1, <2>2
    <3> QED BY <1>1, <3>1 DEF Class!Called
  <2>3. ASSUME Class!Called(a)', a # m PROVE Class!Called(a)
    <3>1. PICK i \in 1..(Len(r7) + 1) : r7'[i] = a
      BY <1>1, <2>3 DEF Class!Called
    <3>2. i # Len(r7) + 1
      BY <1>1, <2>3, <3>1
    <3>3. i \in 1..Len(r7)
      BY <1>1, <3>1, <3>2
    <3> QED BY <1>1, <3>1, <3>3 DEF Class!Called
  <2> QED BY <2>1, <2>2, <2>3
<1>3. ASSUME NEW a, NEW b
      PROVE  Class!Before(a, b)' <=> Class!Before(a, b) \/ (b = m /\ Class!Called(a))
  <2>1. ASSUME Class!Before(a, b) PROVE Class!Before(a, b)'
    <3>1. PICK i, j \in 1..Len(r7) : i < j /\ r7[i] = a /\ r7[j] = b
      BY <1>1, <2>1 DEF Class!Before
    <3>2. i \in DOMAIN r7' /\ j \in DOMAIN r7' /\ r7'[i] = a /\ r7'[j] = b
      BY <1>1, <3>1
    <3> QED BY <3>1, <3>2 DEF Class!Before
  <2>2. ASSUME b = m, Class!Called(a) PROVE Class!Before(a, b)'
    <3>1. PICK i \in 1..Len(r7) : r7[i] = a
      BY <1>1, <2>2 DEF Class!Called
    <3>2. i \in DOMAIN r7' /\ Len(r7) + 1 \in DOMAIN r7' /\ i < Len(r7) + 1
      BY <1>1
    <3> QED BY <1>1, <2>2, <3>1, <3>2 DEF Class!Before
  <2>3. ASSUME Class!Before(a, b)', ~Class!Before(a, b) PROVE b = m /\ Class!Called(a)
    <3>1. PICK i, j \in 1..(Len(r7) + 1) : i < j /\ r7'[i] = a /\ r7'[j] = b
      BY <1>1, <2>3 DEF Class!Before
    <3>2. i \in 1..Len(r7)
      BY <1>1, <3>1
    <3>3. j = Len(r7) + 1
      <4>1. CASE j # Len(r7) + 1
        <5>1. j \in 1..Len(r7) /\ r7[i] = a /\ r7[j] = b
          BY <1>1, <3>1, <3>2, <4>1
        <5> QED BY <1>1, <2>3, <3>1, <3>2, <5>1 DEF Class!Before
      <4> QED BY <4>1
    <3>4. b = m /\ r7[i] = a
      BY <1>1, <3>1, <3>2, <3>3
    <3> QED BY <1>1, <3>2, <3>4 DEF Class!Called
  <2> QED BY <2>1, <2>2, <2>3
<1>4. Class!JoinsFirst => Class!JoinsFirst'
  BY <1>1 DEF Class!JoinsFirst
<1>5. ASSUME m = "Join", ~Class!Called("Start") PROVE Class!JoinsFirst'
  <2>1. \A i \in 1..((Len(r7) + 1) - 1) : r7'[i] # "Start"
    BY <1>1, <1>5 DEF Class!Called
  <2>2. Len(r7) + 1 \in DOMAIN r7'
    BY <1>1
  <2> QED BY <1>1, <1>5, <2>1, <2>2 DEF Class!JoinsFirst
<1> QED BY <1>1, <1>2, <1>3, <1>4, <1>5

(* What an owner's call does to the history.                                    *)
LEMMA CallAdds ==
  ASSUME Class!ObjectInv, NEW m \in Methods, Class!Call(m)
  PROVE  /\ r8 = FALSE /\ Len(r7) < MaxCalls /\ r1' = r1
         /\ r7' \in Seq(Methods) /\ Len(r7') = Len(r7) + 1
         /\ \A a : Class!Called(a)' <=> Class!Called(a) \/ a = m
         /\ \A a, b : Class!Before(a, b)' <=> Class!Before(a, b) \/ (b = m /\ Class!Called(a))
         /\ Class!JoinsFirst => Class!JoinsFirst'
         /\ m = "Join" /\ ~Class!Called("Start") => Class!JoinsFirst'
<1>1. r7 \in Seq(Methods) /\ r7' = Append(r7, m) /\ r1' = r1 /\ Len(r7) < MaxCalls
  BY DEF Methods, Class!ObjectInv, Class!ObjectTypes, Class!Call
<1>2. r8 = FALSE
  BY Zenon DEF Class!ObjectInv, Class!ObjectTypes, Class!Call
<1> QED BY <1>1, <1>2, CallsGrow

(* An object that nothing was called for.                                      *)
LEMMA ClassInit ==
  ASSUME Class!Init
  PROVE  Class!ObjectInv
<1>1. /\ r1 \in {"Thread", "session"} /\ r4 = 0 /\ r5 = <<>> /\ r7 = <<>>
  BY DEF Class!Init
<1>2. r2 = FALSE /\ r3 = FALSE /\ r6 = FALSE /\ r8 = FALSE
  BY Zenon DEF Class!Init
<1>3. Class!ObjectTypes
  <2>1. r4 \in 0..(MaxCalls + 1) /\ Len(r5) <= Len(r7) /\ Len(r7) <= MaxCalls
    BY ProgramsAssumption, <1>1
  <2>2. r5 \in Seq([state : {"alive", "over", "gone"}, detached : BOOLEAN])
        /\ r7 \in Seq(Methods)
    BY <1>1 DEF Methods
  <2> QED BY <1>1, <1>2, <2>1, <2>2, Zenon DEF Class!ObjectTypes, Class!TypeOK, Class!Dangling, Methods
<1>4. Class!Beginning
  BY <1>1, <1>2 DEF Class!Beginning
<1>5. Class!IdNames
  BY <1>1, <1>2 DEF Class!IdNames, Class!NoneDetached, Class!Called
<1>6. Class!CallsDefined
  BY <1>2, Zenon DEF Class!CallsDefined
<1> QED BY <1>3, <1>4, <1>5, <1>6 DEF Class!ObjectInv

Thread == [state : {"alive", "over", "gone"}, detached : BOOLEAN]

(* A thread that is made has an id, and takes nothing from the others.           *)
LEMMA CreateAdds ==
  ASSUME Class!ObjectInv, r5' = Append(r5, [state |-> "alive", detached |-> FALSE]),
         r4' = Len(r5) + 1
  PROVE  /\ r5' \in Seq(Thread) /\ Len(r5') = Len(r5) + 1
         /\ Class!NoneDetached => Class!NoneDetached'
         /\ Class!Names(r4)'
<1>1. r5 \in Seq(Thread) /\ [state |-> "alive", detached |-> FALSE] \in Thread
  BY DEF Class!ObjectInv, Class!ObjectTypes, Class!TypeOK, Thread
<1>2. /\ r5' \in Seq(Thread) /\ Len(r5') = Len(r5) + 1 /\ Len(r5) \in Nat
      /\ DOMAIN r5 = 1..Len(r5) /\ DOMAIN r5' = 1..(Len(r5) + 1)
      /\ \A i \in 1..Len(r5) : r5'[i] = r5[i]
      /\ r5'[Len(r5) + 1] = [state |-> "alive", detached |-> FALSE]
  BY <1>1, AppendProperties, LenProperties
<1>3. ASSUME Class!NoneDetached, NEW i \in DOMAIN r5' PROVE ~r5'[i].detached
  <2>1. CASE i = Len(r5) + 1
    <3>1. r5'[i].detached = FALSE
      BY <1>2, <2>1
    <3> QED BY <3>1, Zenon
  <2>2. CASE i # Len(r5) + 1
    <3>1. i \in DOMAIN r5 /\ r5'[i] = r5[i]
      BY <1>2, <2>2
    <3> QED BY <1>3, <3>1, Zenon DEF Class!NoneDetached
  <2> QED BY <2>1, <2>2
<1>4. Class!Names(r4)'
  <2>1. r4' \in DOMAIN r5' /\ r5'[r4'] = [state |-> "alive", detached |-> FALSE]
    BY <1>2
  <2> QED BY <2>1 DEF Class!Names
<1> QED BY <1>2, <1>3, <1>4 DEF Class!NoneDetached

(* One thread that changes and is not gone keeps the names.                       *)
LEMMA OneChanges ==
  ASSUME Class!ObjectInv, NEW i \in DOMAIN r5, NEW u \in Thread, r5' = [r5 EXCEPT ![i] = u]
  PROVE  /\ r5' \in Seq(Thread) /\ Len(r5') = Len(r5) /\ DOMAIN r5' = DOMAIN r5
         /\ r5'[i] = u /\ \A j \in DOMAIN r5 : j # i => r5'[j] = r5[j]
         /\ Class!NoneDetached /\ u.detached = FALSE => Class!NoneDetached'
         /\ \A j \in 0..(MaxCalls + 1) : u.state # "gone" /\ Class!Names(j) => Class!Names(j)'
<1>1. r5 \in Seq(Thread)
  BY DEF Class!ObjectInv, Class!ObjectTypes, Class!TypeOK, Thread
<1>2. /\ r5' \in Seq(Thread) /\ Len(r5') = Len(r5) /\ DOMAIN r5' = DOMAIN r5
      /\ r5'[i] = u /\ \A j \in DOMAIN r5 : j # i => r5'[j] = r5[j]
  <2>1. /\ r5' \in Seq(Thread) /\ Len(r5') = Len(r5)
        /\ \A j \in 1..Len(r5') : r5'[j] = IF j = i THEN u ELSE r5[j]
    BY <1>1, ExceptSeq
  <2>2. DOMAIN r5' = 1..Len(r5') /\ DOMAIN r5 = 1..Len(r5)
    BY <1>1, <2>1, LenProperties
  <2> QED BY <2>1, <2>2
<1>3. ASSUME Class!NoneDetached, u.detached = FALSE, NEW j \in DOMAIN r5'
      PROVE  ~r5'[j].detached
  <2>1. r5'[j] = u \/ (j \in DOMAIN r5 /\ r5'[j] = r5[j])
    BY <1>2
  <2> QED BY <1>3, <2>1, Zenon DEF Class!NoneDetached
<1>4. ASSUME NEW j \in 0..(MaxCalls + 1), u.state # "gone", Class!Names(j) PROVE Class!Names(j)'
  BY <1>2, <1>4 DEF Class!Names
<1> QED BY <1>2, <1>3, <1>4 DEF Class!NoneDetached

(* What the invariant says of types, after a call.                                *)
LEMMA TypesKeep ==
  ASSUME Class!ObjectTypes, r1' = r1,
         r2' \in BOOLEAN, r3' \in BOOLEAN, r6' \in BOOLEAN, r8' \in BOOLEAN,
         r4' \in 0..(MaxCalls + 1), r5' \in Seq(Thread), r7' \in Seq(Methods),
         Len(r5') <= Len(r7'), Len(r7') <= MaxCalls
  PROVE  Class!ObjectTypes'
BY Zenon DEF Class!ObjectTypes, Class!TypeOK, Class!Dangling, Thread, Methods

LEMMA TypesSay ==
  ASSUME Class!ObjectTypes
  PROVE  /\ r2 \in BOOLEAN /\ r3 \in BOOLEAN /\ r6 \in BOOLEAN /\ r8 \in BOOLEAN
         /\ r4 \in 0..(MaxCalls + 1) /\ r5 \in Seq(Thread) /\ r7 \in Seq(Methods)
         /\ Len(r5) \in Nat /\ Len(r7) \in Nat /\ MaxCalls \in Nat
         /\ Len(r5) <= Len(r7) /\ Len(r7) <= MaxCalls
         /\ DOMAIN r5 = 1..Len(r5)
<1>1. /\ r4 \in 0..(MaxCalls + 1) /\ r5 \in Seq(Thread) /\ r7 \in Seq(Methods)
      /\ Len(r5) <= Len(r7) /\ Len(r7) <= MaxCalls
  BY DEF Class!ObjectTypes, Class!TypeOK, Class!Dangling, Thread, Methods
<1>2. r2 \in BOOLEAN /\ r3 \in BOOLEAN /\ r6 \in BOOLEAN /\ r8 \in BOOLEAN
  BY Zenon DEF Class!ObjectTypes, Class!TypeOK
<1>3. Len(r5) \in Nat /\ Len(r7) \in Nat /\ MaxCalls \in Nat /\ DOMAIN r5 = 1..Len(r5)
  BY <1>1, ProgramsAssumption, LenProperties
<1> QED BY <1>1, <1>2, <1>3, Zenon

LEMMA DetachKeeps ==
  ASSUME Class!ObjectInv, Class!Detach
  PROVE  Class!ObjectInv'
<1> USE DEF Class!ObjectInv
<1>0. Class!Call("Detach") /\ r1 = "Thread" /\ UNCHANGED <<r3, r4, r6>>
  BY DEF Class!Detach
<1>1. /\ r8 = FALSE /\ Len(r7) < MaxCalls /\ r1' = r1
      /\ r7' \in Seq(Methods) /\ Len(r7') = Len(r7) + 1
      /\ \A a : Class!Called(a)' <=> Class!Called(a) \/ a = "Detach"
      /\ \A a, b : Class!Before(a, b)' <=> Class!Before(a, b) \/ (b = "Detach" /\ Class!Called(a))
      /\ Class!JoinsFirst => Class!JoinsFirst'
  <2>1. "Detach" \in Methods
    BY DEF Methods
  <2> QED BY <1>0, <2>1, CallAdds
<1>2. CASE r2 \/ ~r3
  <2>1. r2' = TRUE /\ UNCHANGED <<r5, r8>>
    BY <1>2, Zenon DEF Class!Detach
  <2>2. Class!ObjectTypes'
    <3>1. Len(r5') <= Len(r7') /\ Len(r7') <= MaxCalls
      BY <1>1, <2>1, TypesSay
    <3> QED BY <1>0, <1>1, <2>1, <3>1, TypesSay, TypesKeep, Zenon
  <2>3. Class!Beginning'
    BY <1>0, <1>1, <2>1 DEF Class!Beginning
  <2>4. Class!IdNames'
    BY <1>0, <1>1, <2>1 DEF Class!IdNames, Class!NoneDetached, Class!Names
  <2>5. Class!CallsDefined'
    <3>1. ~Class!Before("Start", "Detach")' => r5' = <<>>
      BY <1>1, <2>1 DEF Class!Beginning
    <3> QED BY <1>1, <2>1, <3>1 DEF Class!CallsDefined
  <2> QED BY <2>2, <2>3, <2>4, <2>5
<1>3. CASE ~(r2 \/ ~r3)
  <2>1. r2' = FALSE /\ Class!Called("Start")
    BY <1>3, Zenon DEF Class!Detach, Class!Beginning
  <2>2. Class!Before("Start", "Detach")'
    BY <1>1, <2>1
  <2>3. /\ r5' \in Seq(Thread) /\ Len(r5') = Len(r5)
        /\ r8' \in BOOLEAN
    <3>1. CASE ~Class!Names(r4)
      BY <1>1, <1>3, <3>1 DEF Class!Detach, Class!ObjectTypes, Class!TypeOK, Thread
    <3>2. CASE Class!Names(r4)
      <4>1. r4 \in DOMAIN r5 /\ r8' = r8
            /\ r5' = [r5 EXCEPT ![r4] = Class!Detached(@)]
        BY <1>3, <3>2 DEF Class!Detach, Class!Names
      <4>2. r5[r4] \in Thread
        BY <4>1, TypesSay
      <4>3. Class!Detached(r5[r4]) \in Thread
        BY <4>2 DEF Thread, Class!Detached
      <4>4. r5' = [r5 EXCEPT ![r4] = Class!Detached(r5[r4])]
        BY <4>1
      <4> QED BY <1>1, <4>1, <4>3, <4>4, OneChanges
    <3> QED BY <3>1, <3>2
  <2>4. Class!ObjectTypes'
    <3>1. Len(r5') <= Len(r7') /\ Len(r7') <= MaxCalls
      BY <1>1, <2>3, TypesSay
    <3> QED BY <1>0, <1>1, <2>1, <2>3, <3>1, TypesSay, TypesKeep, Zenon
  <2>5. Class!Beginning'
    BY <1>0, <1>1, <2>1 DEF Class!Beginning
  <2>6. Class!IdNames'
    BY <1>0, <1>1, <2>2 DEF Class!IdNames
  <2>7. Class!CallsDefined'
    BY <1>0, <1>1, <2>2 DEF Class!CallsDefined
  <2> QED BY <2>4, <2>5, <2>6, <2>7
<1> QED BY <1>2, <1>3

(* pthread_create leaves what there was.                                        *)
LEMMA CreateKeeps ==
  ASSUME Class!ObjectInv, NEW works \in BOOLEAN, Class!Create(works)
  PROVE  /\ r5' \in Seq(Thread) /\ Len(r5') <= Len(r5) + 1 /\ r6' \in BOOLEAN
         /\ Class!NoneDetached => Class!NoneDetached'
         /\ Len(r5) < MaxCalls => r4' \in 0..(MaxCalls + 1)
         /\ works => Class!Names(r4)'
         /\ ~works => r6' = TRUE
         /\ r6 => r6'
<1> USE DEF Class!ObjectInv
<1>1. CASE works = TRUE
  <2>1. r5' = Append(r5, [state |-> "alive", detached |-> FALSE]) /\ r4' = Len(r5) + 1
    BY <1>1 DEF Class!Create
  <2>2. r6' = r6
    BY <1>1, Zenon DEF Class!Create
  <2>3. /\ r5' \in Seq(Thread) /\ Len(r5') = Len(r5) + 1
        /\ Class!NoneDetached => Class!NoneDetached'
        /\ Class!Names(r4)'
    BY <2>1, CreateAdds
  <2>4. Len(r5') <= Len(r5) + 1 /\ (Len(r5) < MaxCalls => r4' \in 0..(MaxCalls + 1))
    BY <2>1, <2>3, TypesSay
  <2> QED BY <1>1, <2>2, <2>3, <2>4, TypesSay, Zenon
<1>2. CASE works = FALSE
  <2>1. r4' \in {r4, MaxCalls + 1} /\ r5' = r5
    BY <1>2 DEF Class!Create, Class!Dangling
  <2>2. r6' = TRUE
    BY <1>2, Zenon DEF Class!Create
  <2>3. r5' \in Seq(Thread) /\ Len(r5') <= Len(r5) + 1 /\ r4' \in 0..(MaxCalls + 1)
    BY <2>1, TypesSay
  <2>4. Class!NoneDetached => Class!NoneDetached'
    BY <2>1 DEF Class!NoneDetached
  <2> QED BY <1>2, <2>2, <2>3, <2>4, Zenon
<1> QED BY <1>1, <1>2

(* A thread is made, or the call has failed.                                    *)
LEMMA StartKeeps ==
  ASSUME Class!ObjectInv, NEW works \in BOOLEAN, Class!Start(works)
  PROVE  Class!ObjectInv'
<1> USE DEF Class!ObjectInv
<1>0. Class!Call("Start") /\ r1 = "Thread" /\ r3' = TRUE /\ UNCHANGED <<r2, r8>>
  BY Zenon DEF Class!Start
<1>1. /\ r8 = FALSE /\ Len(r7) < MaxCalls /\ r1' = r1
      /\ r7' \in Seq(Methods) /\ Len(r7') = Len(r7) + 1
      /\ \A a : Class!Called(a)' <=> Class!Called(a) \/ a = "Start"
      /\ \A a, b : Class!Before(a, b)' <=> Class!Before(a, b) \/ (b = "Start" /\ Class!Called(a))
      /\ Class!JoinsFirst => Class!JoinsFirst'
  <2>1. "Start" \in Methods
    BY DEF Methods
  <2> QED BY <1>0, <2>1, CallAdds
<1>2. CASE r3 = TRUE
  <2>1. UNCHANGED <<r4, r5, r6>>
    BY <1>2 DEF Class!Start
  <2>2. Class!ObjectTypes'
    <3>1. Len(r5') <= Len(r7') /\ Len(r7') <= MaxCalls
      BY <1>1, <2>1, TypesSay
    <3> QED BY <1>0, <1>1, <2>1, <3>1, TypesSay, TypesKeep, Zenon
  <2>3. Class!Beginning'
    BY <1>0, <1>1, <1>2, <2>1 DEF Class!Beginning
  <2>4. Class!IdNames'
    BY <1>0, <1>1, <1>2, <2>1 DEF Class!IdNames, Class!NoneDetached, Class!Names, Class!Beginning
  <2>5. Class!CallsDefined'
    BY <1>0, <1>1, <2>1, Zenon DEF Class!CallsDefined
  <2> QED BY <2>2, <2>3, <2>4, <2>5
<1>3. CASE r3 = FALSE
  <2>1. Class!Create(works)
    BY <1>3 DEF Class!Start
  <2>2. Class!ObjectTypes'
    <3>1. Len(r5') <= Len(r7') /\ Len(r7') <= MaxCalls /\ Len(r5) < MaxCalls
      <4>1. r5' \in Seq(Thread) /\ Len(r5') <= Len(r5) + 1
        BY <2>1, CreateKeeps
      <4>2. Len(r5') \in Nat
        BY <4>1, LenProperties
      <4> QED BY <1>1, <4>1, <4>2, TypesSay
    <3> QED BY <1>0, <1>1, <2>1, <3>1, CreateKeeps, TypesSay, TypesKeep, Zenon
  <2>3. Class!Beginning'
    BY <1>0, <1>1, Zenon DEF Class!Beginning
  <2>4. Class!IdNames'
    BY <1>0, <1>1, <2>1, CreateKeeps DEF Class!IdNames
  <2>5. Class!CallsDefined'
    <3>1. ASSUME r2, ~Class!Before("Start", "Detach"), NEW i \in DOMAIN r5'
          PROVE  ~r5'[i].detached /\ r5'[i].state # "gone"
      <4>1. CASE works = TRUE
        <5>1. r5' = Append(r5, [state |-> "alive", detached |-> FALSE])
          BY <2>1, <4>1 DEF Class!Create
        <5>2. CASE i = Len(r5) + 1
          <6>1. r5'[i] = [state |-> "alive", detached |-> FALSE]
            BY <5>1, <5>2, TypesSay
          <6>2. r5'[i].state = "alive" /\ r5'[i].detached = FALSE
            BY <6>1
          <6> QED BY <6>2
        <5>3. CASE i # Len(r5) + 1
          <6>1. i \in DOMAIN r5 /\ r5'[i] = r5[i]
            BY <5>1, <5>3, TypesSay
          <6> QED BY <3>1, <6>1, Zenon DEF Class!CallsDefined
        <5> QED BY <5>2, <5>3
      <4>2. CASE works = FALSE
        <5>1. r5' = r5
          BY <2>1, <4>2 DEF Class!Create
        <5> QED BY <3>1, <5>1, Zenon DEF Class!CallsDefined
      <4> QED BY <4>1, <4>2
    <3> QED BY <1>0, <1>1, <3>1, Zenon DEF Class!CallsDefined
  <2> QED BY <2>2, <2>3, <2>4, <2>5
<1> QED BY <1>2, <1>3, TypesSay

(* A thread that is cancelled is over, or gone if it was detached.               *)
LEMMA StopKeeps ==
  ASSUME Class!ObjectInv, NEW works \in BOOLEAN, Class!Stop(works)
  PROVE  Class!ObjectInv'
<1> USE DEF Class!ObjectInv
<1>0. Class!Call("Stop") /\ r1 = "Thread" /\ UNCHANGED <<r2, r4, r6>>
  BY DEF Class!Stop
<1>1. /\ r8 = FALSE /\ Len(r7) < MaxCalls /\ r1' = r1
      /\ r7' \in Seq(Methods) /\ Len(r7') = Len(r7) + 1
      /\ \A a : Class!Called(a)' <=> Class!Called(a) \/ a = "Stop"
      /\ \A a, b : Class!Before(a, b)' <=> Class!Before(a, b) \/ (b = "Stop" /\ Class!Called(a))
      /\ Class!JoinsFirst => Class!JoinsFirst'
  <2>1. "Stop" \in Methods
    BY DEF Methods
  <2> QED BY <1>0, <2>1, CallAdds
<1>2. ASSUME r5' \in Seq(Thread), Len(r5') = Len(r5), r3' \in BOOLEAN, r3' => r3,
             r8' \in BOOLEAN
      PROVE  Class!ObjectTypes' /\ (r5' = r5 \/ Class!Called("Start") => Class!Beginning')
  <2>1. Len(r5') <= Len(r7') /\ Len(r7') <= MaxCalls
    BY <1>1, <1>2, TypesSay
  <2>2. Class!ObjectTypes'
    BY <1>0, <1>1, <1>2, <2>1, TypesSay, TypesKeep, Zenon
  <2>3. r5' = r5 \/ Class!Called("Start") => Class!Beginning'
    BY <1>0, <1>1, <1>2, Zenon DEF Class!Beginning
  <2> QED BY <2>2, <2>3
<1>3. CASE r3 = FALSE
  <2>1. UNCHANGED <<r3, r5, r8>>
    BY <1>3 DEF Class!Stop
  <2>2. Class!ObjectTypes' /\ Class!Beginning'
    BY <1>2, <2>1, TypesSay
  <2>3. Class!IdNames'
    BY <1>0, <1>1, <2>1 DEF Class!IdNames, Class!NoneDetached, Class!Names
  <2>4. Class!CallsDefined'
    BY <1>0, <1>1, <2>1, Zenon DEF Class!CallsDefined
  <2> QED BY <2>2, <2>3, <2>4
<1>4. CASE r3 = TRUE /\ ~Class!Names(r4)
  <2>1. UNCHANGED <<r3, r5>> /\ r8' = TRUE
    BY <1>4, Zenon DEF Class!Stop
  <2>2. Class!ObjectTypes' /\ Class!Beginning'
    BY <1>2, <2>1, TypesSay
  <2>3. Class!IdNames'
    BY <1>0, <1>1, <2>1 DEF Class!IdNames, Class!NoneDetached, Class!Names
  <2>4. r6 \/ Class!Before("Start", "Detach") \/ Class!Called("Join")
    BY <1>0, <1>4, Zenon DEF Class!IdNames, Class!Beginning
  <2>5. Class!CallsDefined'
    BY <1>0, <1>1, <2>1, <2>4, Zenon DEF Class!CallsDefined
  <2> QED BY <2>2, <2>3, <2>5
<1>5. CASE r3 = TRUE /\ Class!Names(r4)
  <2> DEFINE u == IF r5[r4].state = "alive" THEN Class!Leaves(r5[r4]) ELSE r5[r4]
  <2>1. /\ r4 \in DOMAIN r5 /\ r5[r4].state # "gone"
        /\ r5' = [r5 EXCEPT ![r4] = u]
    BY <1>5 DEF Class!Stop, Class!Names
  <2>2. r8' = r8 /\ r3' \in BOOLEAN
    BY <1>5, Zenon DEF Class!Stop
  <2>3. r5[r4] \in Thread
    BY <2>1, TypesSay
  <2>4. u \in Thread /\ u.detached = r5[r4].detached
    BY <2>3 DEF Thread, Class!Leaves
  <2>5. r5[r4].detached = FALSE => u.state # "gone"
    BY <2>1, <2>3 DEF Thread, Class!Leaves
  <2> HIDE DEF u
  <2>6. /\ r5' \in Seq(Thread) /\ Len(r5') = Len(r5) /\ DOMAIN r5' = DOMAIN r5
        /\ r5'[r4] = u /\ \A j \in DOMAIN r5 : j # r4 => r5'[j] = r5[j]
        /\ Class!NoneDetached /\ u.detached = FALSE => Class!NoneDetached'
        /\ \A j \in 0..(MaxCalls + 1) : u.state # "gone" /\ Class!Names(j) => Class!Names(j)'
    BY <2>1, <2>4, OneChanges
  <2>7. Class!NoneDetached => u.detached = FALSE /\ u.state # "gone"
    <3>1. Class!NoneDetached => ~r5[r4].detached
      BY <2>1 DEF Class!NoneDetached
    <3>2. r5[r4].detached \in BOOLEAN
      BY <2>3 DEF Thread
    <3> QED BY <2>4, <2>5, <3>1, <3>2, Zenon
  <2>8. Class!NoneDetached => Class!NoneDetached' /\ Class!Names(r4)'
    <3>1. r4 \in 0..(MaxCalls + 1)
      BY TypesSay
    <3>2. Class!NoneDetached => Class!Names(r4)'
      BY <1>0, <2>1, <2>6, <2>7, <3>1 DEF Class!Names
    <3> QED BY <2>6, <2>7, <3>2, Zenon
  <2>9. Class!ObjectTypes' /\ Class!Beginning'
    BY <1>2, <1>5, <2>2, <2>6, TypesSay, Zenon DEF Class!Beginning
  <2>10. Class!IdNames'
    BY <1>0, <1>1, <2>8, Zenon DEF Class!IdNames
  <2>11. Class!CallsDefined'
    <3>1. ASSUME r2, ~Class!Before("Start", "Detach"), NEW i \in DOMAIN r5'
          PROVE  ~r5'[i].detached /\ r5'[i].state # "gone"
      <4>1. Class!NoneDetached
        BY <1>0, <3>1, Zenon DEF Class!IdNames
      <4>2. r5'[i] = u \/ (r5'[i] = r5[i] /\ i \in DOMAIN r5)
        BY <2>6
      <4>3. ~u.detached /\ u.state # "gone"
        BY <2>7, <4>1, Zenon
      <4> QED BY <3>1, <4>2, <4>3, Zenon DEF Class!CallsDefined
    <3> QED BY <1>0, <1>1, <2>2, <3>1, Zenon DEF Class!CallsDefined
  <2> QED BY <2>9, <2>10, <2>11
<1> QED BY <1>3, <1>4, <1>5, TypesSay, Zenon

(* A thread that ends by itself.                                                *)
LEMMA EndsKeeps ==
  ASSUME Class!ObjectInv, NEW i \in DOMAIN r5, Class!ThreadEnds(i)
  PROVE  Class!ObjectInv'
<1> USE DEF Class!ObjectInv
<1> DEFINE u == Class!Leaves(r5[i])
<1>1. r5' = [r5 EXCEPT ![i] = u] /\ r5[i].state = "alive" /\ UNCHANGED <<r1, r2, r3, r4, r6, r7, r8>>
  BY DEF Class!ThreadEnds
<1>2. r5[i] \in Thread
  BY TypesSay
<1>3. u \in Thread /\ u.detached = r5[i].detached /\ (r5[i].detached = FALSE => u.state # "gone")
  BY <1>2 DEF Thread, Class!Leaves
<1> HIDE DEF u
<1>4. /\ r5' \in Seq(Thread) /\ Len(r5') = Len(r5) /\ DOMAIN r5' = DOMAIN r5
      /\ r5'[i] = u /\ \A j \in DOMAIN r5 : j # i => r5'[j] = r5[j]
      /\ Class!NoneDetached /\ u.detached = FALSE => Class!NoneDetached'
      /\ \A j \in 0..(MaxCalls + 1) : u.state # "gone" /\ Class!Names(j) => Class!Names(j)'
  BY <1>1, <1>3, OneChanges
<1>5. Class!NoneDetached => u.detached = FALSE /\ u.state # "gone"
  <2>1. Class!NoneDetached => ~r5[i].detached
    BY DEF Class!NoneDetached
  <2>2. r5[i].detached \in BOOLEAN
    BY <1>2 DEF Thread
  <2> QED BY <1>3, <2>1, <2>2, Zenon
<1>6. Class!NoneDetached => Class!NoneDetached' /\ (Class!Names(r4) => Class!Names(r4)')
  <2>1. r4 \in 0..(MaxCalls + 1) /\ r4' = r4
    BY <1>1, TypesSay
  <2>2. Class!NoneDetached /\ Class!Names(r4) => Class!Names(r4)'
    <3>1. \A j \in 0..(MaxCalls + 1) : Class!NoneDetached /\ Class!Names(j) => j \in DOMAIN r5' /\ r5'[j].state # "gone"
      BY <1>4, <1>5 DEF Class!Names
    <3> QED BY <2>1, <3>1 DEF Class!Names
  <2> QED BY <1>4, <1>5, <2>2, Zenon
<1>7. Class!ObjectTypes'
  BY <1>1, <1>4, TypesSay, TypesKeep
<1>8. UNCHANGED <<r7>>
  BY <1>1
<1>9. /\ \A a : Class!Called(a)' <=> Class!Called(a)
      /\ \A a, b : Class!Before(a, b)' <=> Class!Before(a, b)
      /\ Class!JoinsFirst' <=> Class!JoinsFirst
  BY <1>8 DEF Class!Called, Class!Before, Class!JoinsFirst
<1>10. Class!Beginning'
  BY <1>1, <1>9 DEF Class!Beginning
<1>11. Class!IdNames'
  BY <1>1, <1>6, <1>9, Zenon DEF Class!IdNames
<1>12. Class!CallsDefined'
  <2>1. ASSUME r2, ~Class!Before("Start", "Detach"), NEW j \in DOMAIN r5'
        PROVE  ~r5'[j].detached /\ r5'[j].state # "gone"
    <3>1. Class!NoneDetached
      BY <2>1, Zenon DEF Class!CallsDefined, Class!NoneDetached
    <3>2. r5'[j] = u \/ (r5'[j] = r5[j] /\ j \in DOMAIN r5)
      BY <1>4
    <3>3. ~u.detached /\ u.state # "gone"
      BY <1>5, <3>1, Zenon
    <3> QED BY <2>1, <3>2, <3>3, Zenon DEF Class!CallsDefined
  <2> QED BY <1>1, <1>9, <2>1, Zenon DEF Class!CallsDefined
<1> QED BY <1>7, <1>10, <1>11, <1>12

(* pthread_join of an id that names no thread is undefined; of one that does, it *)
(* leaves the thread gone or, detached, as it was.                              *)
LEMMA JoinDoes ==
  ASSUME Class!ObjectInv, Class!JoinPthread
  PROVE  /\ r5' \in Seq(Thread) /\ Len(r5') = Len(r5)
         /\ Class!NoneDetached => Class!NoneDetached'
         /\ \/ ~Class!Names(r4) /\ r8' = TRUE /\ r5' = r5
            \/ /\ Class!Names(r4) /\ r8' = r8 /\ r4 \in DOMAIN r5
               /\ Class!NoneDetached => r5' # r5
<1> USE DEF Class!ObjectInv
<1>1. CASE ~Class!Names(r4)
  <2>1. r8' = TRUE /\ r5' = r5
    BY <1>1, Zenon DEF Class!JoinPthread
  <2> QED BY <1>1, <2>1, TypesSay DEF Class!NoneDetached
<1>2. CASE Class!Names(r4) /\ r5[r4].detached
  <2>1. r8' = r8 /\ r5' = r5 /\ r4 \in DOMAIN r5
    BY <1>2, Zenon DEF Class!JoinPthread, Class!Names
  <2>2. ~Class!NoneDetached
    BY <1>2, <2>1, Zenon DEF Class!NoneDetached
  <2> QED BY <1>2, <2>1, <2>2, TypesSay, Zenon
<1>3. CASE Class!Names(r4) /\ ~r5[r4].detached
  <2> DEFINE u == [r5[r4] EXCEPT !.state = "gone"]
  <2>1. r8' = r8
    BY <1>3, Zenon DEF Class!JoinPthread
  <2>2. r5[r4].state = "over" /\ r4 \in DOMAIN r5 /\ r5' = [r5 EXCEPT ![r4] = u]
    BY <1>3 DEF Class!JoinPthread, Class!Names
  <2>3. r5[r4] \in Thread
    BY <2>2, TypesSay
  <2>4. u \in Thread /\ u.detached = r5[r4].detached /\ u.state = "gone"
    BY <2>3 DEF Thread
  <2>5. r5[r4].detached = FALSE
    BY <1>3, <2>3 DEF Thread
  <2> HIDE DEF u
  <2>6. /\ r5' \in Seq(Thread) /\ Len(r5') = Len(r5) /\ r5'[r4] = u
        /\ Class!NoneDetached => Class!NoneDetached'
    BY <2>2, <2>4, <2>5, OneChanges
  <2>7. r5' # r5
    BY <2>2, <2>4, <2>6
  <2> QED BY <1>3, <2>1, <2>2, <2>6, <2>7, Zenon
<1> QED BY <1>1, <1>2, <1>3, Zenon

(* Join of an object that is not detached joins the thread that its id names.     *)
LEMMA JoinKeeps ==
  ASSUME Class!ObjectInv, Class!Join
  PROVE  Class!ObjectInv'
<1> USE DEF Class!ObjectInv
<1>0. Class!Call("Join") /\ r1 = "Thread" /\ UNCHANGED <<r2, r3, r4, r6>>
  BY DEF Class!Join
<1>1. /\ r8 = FALSE /\ Len(r7) < MaxCalls /\ r1' = r1
      /\ r7' \in Seq(Methods) /\ Len(r7') = Len(r7) + 1
      /\ \A a : Class!Called(a)' <=> Class!Called(a) \/ a = "Join"
      /\ \A a, b : Class!Before(a, b)' <=> Class!Before(a, b) \/ (b = "Join" /\ Class!Called(a))
      /\ Class!JoinsFirst => Class!JoinsFirst'
      /\ ~Class!Called("Start") => Class!JoinsFirst'
  <2>1. "Join" \in Methods
    BY DEF Methods
  <2> QED BY <1>0, <2>1, CallAdds
<1>2. CASE r2 = TRUE
  <2>1. UNCHANGED <<r5, r8>>
    BY <1>2 DEF Class!Join
  <2>2. Class!ObjectTypes'
    <3>1. Len(r5') <= Len(r7') /\ Len(r7') <= MaxCalls
      BY <1>1, <2>1, TypesSay
    <3> QED BY <1>0, <1>1, <2>1, <3>1, TypesSay, TypesKeep, Zenon
  <2>3. Class!Beginning'
    BY <1>0, <1>1, <2>1 DEF Class!Beginning
  <2>4. Class!IdNames'
    BY <1>0, <1>1, <2>1 DEF Class!IdNames, Class!NoneDetached, Class!Names
  <2>5. Class!CallsDefined'
    BY <1>0, <1>1, <2>1, Zenon DEF Class!CallsDefined
  <2> QED BY <2>2, <2>3, <2>4, <2>5
<1>3. CASE r2 = FALSE
  <2>1. Class!JoinPthread
    BY <1>3 DEF Class!Join
  <2>2. /\ r5' \in Seq(Thread) /\ Len(r5') = Len(r5)
        /\ Class!NoneDetached => Class!NoneDetached'
        /\ \/ ~Class!Names(r4) /\ r8' = TRUE /\ r5' = r5
           \/ Class!Names(r4) /\ r8' = r8 /\ r4 \in DOMAIN r5
    BY <2>1, JoinDoes
  <2>3. Class!ObjectTypes'
    <3>1. Len(r5') <= Len(r7') /\ Len(r7') <= MaxCalls
      BY <1>1, <2>2, TypesSay
    <3> QED BY <1>0, <1>1, <2>2, <3>1, TypesSay, TypesKeep, Zenon
  <2>4. Class!Beginning'
    <3>1. ~Class!Called("Start") => r5' = <<>>
      <4>1. r5 = <<>> => DOMAIN r5 = {}
        OBVIOUS
      <4> QED BY <2>2, <4>1 DEF Class!Beginning
    <3> QED BY <1>0, <1>1, <3>1 DEF Class!Beginning
  <2>5. Class!IdNames'
    BY <1>0, <1>1, <2>2, Zenon DEF Class!IdNames
  <2>6. Class!CallsDefined'
    <3>1. ~Class!Names(r4) =>
             r6 \/ Class!Before("Start", "Detach") \/ Class!Called("Join") \/ ~Class!Called("Start")
      BY <1>0, Zenon DEF Class!IdNames
    <3> QED BY <1>0, <1>1, <1>3, <2>2, <3>1, Zenon DEF Class!CallsDefined
  <2> QED BY <2>3, <2>4, <2>5, <2>6
<1> QED BY <1>2, <1>3, TypesSay

(* Thread<T> makes its thread and knows from then on that there is one.           *)
LEMMA SessionStartKeeps ==
  ASSUME Class!ObjectInv, NEW works \in BOOLEAN, Class!SessionStart(works)
  PROVE  Class!ObjectInv'
<1> USE DEF Class!ObjectInv
<1>0. Class!Call("Start") /\ r1 = "session" /\ Class!Create(works) /\ UNCHANGED <<r2, r8>>
  BY DEF Class!SessionStart
<1>1. /\ r8 = FALSE /\ Len(r7) < MaxCalls /\ r1' = r1
      /\ r7' \in Seq(Methods) /\ Len(r7') = Len(r7) + 1
      /\ \A a : Class!Called(a)' <=> Class!Called(a) \/ a = "Start"
      /\ \A a, b : Class!Before(a, b)' <=> Class!Before(a, b) \/ (b = "Start" /\ Class!Called(a))
      /\ Class!JoinsFirst => Class!JoinsFirst'
  <2>1. "Start" \in Methods
    BY DEF Methods
  <2> QED BY <1>0, <2>1, CallAdds
<1>2. r3' \in BOOLEAN /\ (r3' => r3 \/ works)
  <2>1. (r3 \/ works) \in BOOLEAN
    BY Zenon, TypesSay
  <2> QED BY <2>1, Zenon DEF Class!SessionStart
<1>3. Class!ObjectTypes'
  <2>1. r5' \in Seq(Thread) /\ Len(r5') <= Len(r5) + 1
    BY <1>0, CreateKeeps
  <2>2. Len(r5') \in Nat
    BY <2>1, LenProperties
  <2>3. Len(r5') <= Len(r7') /\ Len(r7') <= MaxCalls /\ Len(r5) < MaxCalls
    BY <1>1, <2>1, <2>2, TypesSay
  <2> QED BY <1>0, <1>1, <1>2, <2>1, <2>3, CreateKeeps, TypesSay, TypesKeep, Zenon
<1>4. Class!Beginning'
  BY <1>0, <1>1, Zenon DEF Class!Beginning
<1>5. Class!IdNames'
  <2>1. Class!NoneDetached'
    BY <1>0, CreateKeeps, Zenon DEF Class!IdNames
  <2>2. r3' /\ ~Class!Before("Start", "Start")' => Class!Names(r4)'
    BY <1>0, <1>1, <1>2, CreateKeeps, Zenon DEF Class!Beginning
  <2>3. r1' = "session" /\ "session" # "Thread"
    BY <1>0, <1>1
  <2> QED BY <2>1, <2>2, <2>3, Zenon DEF Class!IdNames
<1>6. Class!CallsDefined'
  <2>1. ~r2
    BY <1>0 DEF Class!Beginning
  <2> QED BY <1>0, <1>1, <2>1, Zenon DEF Class!CallsDefined
<1> QED BY <1>3, <1>4, <1>5, <1>6

(* ... and joins it only then, and once.                                        *)
LEMMA SessionJoinKeeps ==
  ASSUME Class!ObjectInv, Class!SessionJoin
  PROVE  Class!ObjectInv'
<1> USE DEF Class!ObjectInv
<1>0. Class!Call("Join") /\ r1 = "session" /\ UNCHANGED <<r2, r4, r6>>
  BY DEF Class!SessionJoin
<1>1. /\ r8 = FALSE /\ Len(r7) < MaxCalls /\ r1' = r1
      /\ r7' \in Seq(Methods) /\ Len(r7') = Len(r7) + 1
      /\ \A a : Class!Called(a)' <=> Class!Called(a) \/ a = "Join"
      /\ \A a, b : Class!Before(a, b)' <=> Class!Before(a, b) \/ (b = "Join" /\ Class!Called(a))
      /\ Class!JoinsFirst => Class!JoinsFirst'
      /\ ~Class!Called("Start") => Class!JoinsFirst'
  <2>1. "Join" \in Methods
    BY DEF Methods
  <2> QED BY <1>0, <2>1, CallAdds
<1>2. ~r2 /\ Class!NoneDetached /\ r1' = "session" /\ "session" # "Thread"
  BY <1>0, <1>1 DEF Class!Beginning, Class!IdNames
<1>3. CASE r3 = FALSE
  <2>1. UNCHANGED <<r3, r5, r8>>
    BY <1>3 DEF Class!SessionJoin, Class!Joinable
  <2>2. Class!ObjectTypes'
    <3>1. Len(r5') <= Len(r7') /\ Len(r7') <= MaxCalls
      BY <1>1, <2>1, TypesSay
    <3> QED BY <1>0, <1>1, <2>1, <3>1, TypesSay, TypesKeep, Zenon
  <2>3. Class!Beginning'
    BY <1>0, <1>1, <2>1 DEF Class!Beginning
  <2>4. Class!IdNames'
    BY <1>0, <1>1, <2>1 DEF Class!IdNames, Class!NoneDetached, Class!Names
  <2>5. Class!CallsDefined'
    BY <1>0, <1>1, <2>1, Zenon DEF Class!CallsDefined
  <2> QED BY <2>2, <2>3, <2>4, <2>5
<1>4. CASE r3 = TRUE
  <2>1. Class!JoinPthread /\ r3' = (r5' = r5)
    BY <1>4, Zenon DEF Class!SessionJoin, Class!Joinable
  <2>2. /\ r5' \in Seq(Thread) /\ Len(r5') = Len(r5)
        /\ Class!NoneDetached'
        /\ \/ ~Class!Names(r4) /\ r8' = TRUE /\ r5' = r5
           \/ Class!Names(r4) /\ r8' = r8 /\ r5' # r5
    BY <1>2, <2>1, JoinDoes, Zenon
  <2>3. r3' \in BOOLEAN
    BY <2>1, Zenon
  <2>4. Class!ObjectTypes'
    <3>1. Len(r5') <= Len(r7') /\ Len(r7') <= MaxCalls
      BY <1>1, <2>2, TypesSay
    <3> QED BY <1>0, <1>1, <2>2, <2>3, <3>1, TypesSay, TypesKeep, Zenon
  <2>5. Class!Beginning'
    BY <1>0, <1>1, <1>2, <1>4, Zenon DEF Class!Beginning
  <2>6. ~Class!Names(r4) => Class!Before("Start", "Start")
    BY <1>0, <1>4, Zenon DEF Class!IdNames
  <2>7. Class!IdNames'
    <3>1. r3' => Class!Before("Start", "Start")'
      BY <1>1, <2>1, <2>2, <2>6, Zenon
    <3> QED BY <1>2, <2>2, <3>1, Zenon DEF Class!IdNames
  <2>8. Class!CallsDefined'
    BY <1>0, <1>1, <1>2, <2>2, <2>6, Zenon DEF Class!CallsDefined
  <2> QED BY <2>4, <2>5, <2>7, <2>8
<1> QED BY <1>3, <1>4, TypesSay

(* Whatever is called, in whatever order.                                        *)
LEMMA ClassStep ==
  ASSUME Class!ObjectInv, Class!Next
  PROVE  Class!ObjectInv'
BY DetachKeeps, JoinKeeps, SessionJoinKeeps, StartKeeps, StopKeeps, SessionStartKeeps, EndsKeeps
   DEF Class!Next

-----------------------------------------------------------------------------
(* The chat's client: r1 mpc, r2 rpc, r3 sendpc, r4 id, r5 cancelled, r6 inputs,
   r7 arrived, r8 shown, r9 failed, r10 early, r11 crashed. *)

LEMMA ChatInit ==
  ASSUME Chat!Init
  PROVE  Chat!ClientInv
<1> USE DEF Chat!Init
<1>1. Chat!ClientTypes
  <2>1. Chat!TypeOK /\ r7 \in Nat
    BY DEF Chat!TypeOK
  <2>2. r4 = FALSE /\ r5 = FALSE /\ r9 = FALSE /\ r10 = FALSE /\ r11 = FALSE
    BY Zenon
  <2> QED BY <2>1, <2>2 DEF Chat!ClientTypes
<1>2. Chat!Made
  <2>1. r1 = "recver" /\ r2 = "none" /\ r3 = "none" /\ ~r11
    BY Zenon
  <2> QED BY <2>1, Zenon DEF Chat!Made
<1>3. Chat!Left /\ Chat!CrashKnown
  BY Zenon DEF Chat!Left, Chat!CrashKnown
<1> QED BY <1>1, <1>2, <1>3 DEF Chat!ClientInv

(* Each step of main and of its threads, and a datagram's arrival.               *)
LEMMA ChatStep ==
  ASSUME Chat!ClientInv, Chat!Next
  PROVE  Chat!ClientInv'
<1> USE DEF Chat!ClientInv, Chat!ClientTypes, Chat!Made, Chat!Left, Chat!TypeOK, Chat!CrashKnown
<1>1. CASE Chat!RecvStep
  BY <1>1 DEF Chat!RecvStep, Chat!Recv, Chat!ShowText, Chat!EndRecv
<1>2. CASE Chat!Inline
  BY <1>2 DEF Chat!Inline
<1>3. CASE Chat!EndSend
  <2>1. CASE r4 = TRUE
    <3>1. r5' = TRUE /\ r11' = FALSE /\ r10' = FALSE
      BY <1>3, <2>1, Zenon DEF Chat!EndSend, Chat!Cancel
    <3> QED BY <1>3, <2>1, <3>1 DEF Chat!EndSend
  <2>2. CASE r4 = FALSE
    <3>1. r5' = FALSE /\ r11' = TRUE /\ r10' = TRUE
      BY <1>3, <2>2, Zenon DEF Chat!EndSend, Chat!Cancel
    <3> QED BY <1>3, <2>2, <3>1 DEF Chat!EndSend
  <2> QED BY <2>1, <2>2
<1>4. CASE Chat!StoreId
  BY <1>4 DEF Chat!StoreId
<1>5. CASE Chat!JoinRecver
  BY <1>5 DEF Chat!JoinRecver
<1>6. CASE Chat!JoinSender
  BY <1>6 DEF Chat!JoinSender
<1>7. ASSUME NEW works \in BOOLEAN, Chat!StartRecver(works) \/ Chat!StartSender(works)
      PROVE  Chat!ClientInv'
  <2>1. CASE Chat!StartRecver(works)
    <3>1. \/ r2' = "recv" /\ r9' = FALSE
          \/ r2' = "none" /\ r9' = TRUE
      BY <2>1, Zenon DEF Chat!StartRecver
    <3>2. ~r11 /\ r1 = "recver" /\ r1' = "sender"
          /\ UNCHANGED <<r3, r4, r5, r6, r7, r8, r10, r11>>
      BY <2>1 DEF Chat!StartRecver
    <3> QED BY <3>1, <3>2
  <2>2. CASE Chat!StartSender(works)
    <3>1. \/ r3' = "inline" /\ (r9 => r9' = TRUE) /\ (~r9 => r9' = FALSE)
          \/ r3' = "none" /\ r9' = TRUE
      BY <2>2, Zenon DEF Chat!StartSender
    <3>2. ~r11 /\ r1 = "sender" /\ r1' = "id"
          /\ UNCHANGED <<r2, r4, r5, r6, r7, r8, r10, r11>>
      BY <2>2 DEF Chat!StartSender
    <3> QED BY <3>1, <3>2
  <2> QED BY <1>7, <2>1, <2>2
<1>8. CASE Chat!Arrive
  BY <1>8 DEF Chat!Arrive
<1>9. ASSUME NEW quits \in BOOLEAN, Chat!Input(quits)
      PROVE  Chat!ClientInv'
  BY <1>9 DEF Chat!Input
<1> QED BY <1>1, <1>2, <1>3, <1>4, <1>5, <1>6, <1>7, <1>8, <1>9
        DEF Chat!Next, Chat!SendStep, Chat!MainStep

-----------------------------------------------------------------------------
(* The threads under one mutex: r1 kind, r2 made, r3 tids, r4 joined, r5 pc,
   r6 holder, r7 count, r8 out, r9 wakeups, r10 signals, r11 overrun. *)

(* Every module has the same Cardinality.                                       *)
LEMMA LockCardinality == \A S : Lock!Cardinality(S) = Cardinality(S)
BY DEF Lock!Cardinality, Cardinality

(* The counter has one thread and the others have three.                        *)
LEMMA ThreeThreads == IsFiniteSet({1, 2, 3}) /\ Cardinality({1, 2, 3}) = 3
<1>1. {1, 2, 3} = 1..3 /\ 1 \in Int /\ 3 \in Int /\ ~(1 > 3) /\ 3 - 1 + 1 = 3
  OBVIOUS
<1>2. IsFiniteSet(1..3) /\ Cardinality(1..3) = IF 1 > 3 THEN 0 ELSE 3 - 1 + 1
  BY <1>1, FS_Interval, Zenon
<1> QED BY <1>1, <1>2, Zenon

LEMMA NumberIs ==
  /\ Lock!Number \in Nat /\ Lock!Number > 0
  /\ Lock!Number = IF r1 = "flag" THEN 1 ELSE 3
  /\ 1..Lock!Number \subseteq {1, 2, 3}
<1>1. Lock!Number = IF r1 = "flag" THEN 1 ELSE 3
  BY ThreeThreads, LockCardinality, Zenon DEF Lock!Number
<1>2. 1..1 \subseteq {1, 2, 3} /\ 1..3 \subseteq {1, 2, 3}
      /\ 1 \in Nat /\ 3 \in Nat /\ 1 > 0 /\ 3 > 0
  OBVIOUS
<1>3. CASE r1 = "flag"
  BY <1>1, <1>2, <1>3, Zenon
<1>4. CASE r1 # "flag"
  BY <1>1, <1>2, <1>4, Zenon
<1> QED BY <1>3, <1>4

(* No thread, and nothing counted.                                              *)
LEMMA LockInit ==
  ASSUME Lock!Init
  PROVE  Lock!ThreadsInv
<1>1. /\ r1 \in {"tickets", "cond", "vector", "flag"}
      /\ r2 = 0 /\ r3 = <<>> /\ r4 = 0 /\ r5 = [t \in {1, 2, 3} |-> "none"]
      /\ r6 = 0 /\ r7 = Lock!First /\ r8 = <<>> /\ r9 = 0
  BY DEF Lock!Init, Lock!Nobody
<1>2. r11 = FALSE
  BY Zenon DEF Lock!Init
<1>3. Lock!First \in Nat /\ (r1 = "tickets" => Lock!First = Tickets)
      /\ (r1 # "tickets" => Lock!First = 100)
  BY ProgramsAssumption DEF Lock!First
<1>4. Lock!ThreadTypes
  <2>1. Lock!TypeOK
    BY <1>1 DEF Lock!TypeOK, Lock!Nobody
  <2>2. r2 \in 0..Lock!Number /\ r3 \in Seq(1..r2) /\ Len(r3) <= r2
        /\ r7 \in Nat /\ r8 \in Seq(Nat) /\ r9 \in Nat
    BY <1>1, <1>3, NumberIs
  <2> QED BY <1>1, <1>2, <2>1, <2>2, Zenon DEF Lock!ThreadTypes
<1>5. Lock!Located
  BY <1>1 DEF Lock!Located, Lock!Places
<1>6. Lock!MutexHeld
  BY <1>1 DEF Lock!MutexHeld
<1>7. Lock!IdsKnown
  BY <1>1, <1>2 DEF Lock!IdsKnown
<1>8. Lock!Changing = 0 /\ Lock!Owed = {}
  BY <1>1 DEF Lock!Changing, Lock!Owed
<1>9. r1 = "tickets" => Lock!TicketsInv
  BY <1>1, <1>3, <1>8 DEF Lock!TicketsInv
<1>10. r1 = "cond" => Lock!CondInv
  <2>1. Cardinality(Lock!Owed) = 0
    BY <1>8, FS_EmptySet
  <2>2. DOMAIN r8 = {} /\ Len(r8) = 0
    BY <1>1
  <2> QED BY <1>1, <1>3, <1>8, <2>1, <2>2, LockCardinality DEF Lock!CondInv
<1>11. r1 = "flag" => Lock!FlagInv
  <2>1. r7 <= Lock!First + Tickets
    BY <1>1, <1>3, ProgramsAssumption
  <2>2. DOMAIN r8 = {} /\ \A t \in {1, 2, 3} : r5[t] = "none"
    BY <1>1
  <2> QED BY <2>1, <2>2 DEF Lock!FlagInv
<1> QED BY <1>4, <1>5, <1>6, <1>7, <1>9, <1>10, <1>11 DEF Lock!ThreadsInv

LEMMA OwedFinite == IsFiniteSet(Lock!Owed)
<1>1. Lock!Owed \in SUBSET {1, 2, 3}
  BY DEF Lock!Owed
<1> QED BY <1>1, ThreeThreads, FS_Subset

(* The threads' invariant says what main and the users of the counts may expect.  *)
LEMMA LockSays ==
  ASSUME Lock!ThreadsInv
  PROVE  Lock!TypeOK /\ Lock!CountsOrdered
<1> USE DEF Lock!ThreadsInv
<1>1. Lock!TypeOK
  BY DEF Lock!ThreadTypes
<1>2. ASSUME r1 = "tickets"
      PROVE  r8 = [i \in DOMAIN r8 |-> Tickets + 1 - i] /\ Len(r8) <= Tickets
  <2>1. \A i \in DOMAIN r8 : r8[i] = Tickets + 1 - i
    BY <1>2 DEF Lock!TicketsInv
  <2>2. r8 = [i \in DOMAIN r8 |-> r8[i]]
    BY DEF Lock!ThreadTypes
  <2>3. Len(r8) + r7 = Tickets + Lock!Changing /\ r7 \in Nat /\ Len(r8) \in Nat
    BY <1>2, LenProperties DEF Lock!TicketsInv, Lock!ThreadTypes
  <2>4. Lock!Changing = 0 \/ (Lock!Changing = 1 /\ r7 > 0)
    BY <1>2 DEF Lock!TicketsInv, Lock!Changing
  <2> QED BY <2>1, <2>2, <2>3, <2>4, ProgramsAssumption, SMTT(30)
<1>3. ASSUME r1 = "cond"
      PROVE  r8 = [i \in DOMAIN r8 |-> 99 + i] /\ Len(r8) <= r9
  <2>1. \A i \in DOMAIN r8 : r8[i] = 99 + i
    BY <1>3 DEF Lock!CondInv
  <2>2. r8 = [i \in DOMAIN r8 |-> r8[i]]
    BY DEF Lock!ThreadTypes
  <2>3. Cardinality(Lock!Owed) \in Nat
    BY OwedFinite, FS_CardinalityType
  <2>4. Len(r8) + Cardinality(Lock!Owed) <= r9 /\ r9 \in Nat /\ Len(r8) \in Nat
    <3>1. r9 \in Nat /\ Len(r8) \in Nat
      BY LenProperties DEF Lock!ThreadTypes
    <3> QED BY <1>3, <3>1, LockCardinality, Zenon DEF Lock!CondInv
  <2> QED BY <2>1, <2>2, <2>3, <2>4
<1>4. r1 = "flag" => \A i \in DOMAIN r8 : i > 1 => r8[i - 1] <= r8[i]
  BY DEF Lock!FlagInv
<1>5. ASSUME r4 = Lock!Number
      PROVE  /\ \A t \in 1..r2 : r5[t] = "over"
             /\ r1 = "tickets" => Len(r8) = Tickets
             /\ r1 = "flag" => r7 = Lock!First + Tickets
  <2>1. r2 = Lock!Number /\ Len(r3) = r2
    <3>1. r4 \in 0..Len(r3) /\ r2 \in 0..Lock!Number /\ Len(r3) <= r2 /\ Len(r3) \in Nat
      BY LenProperties DEF Lock!ThreadTypes, Lock!TypeOK
    <3>2. r4 > 0
      BY <1>5, <3>1, NumberIs
    <3>3. r2 = Lock!Number
      BY <3>2 DEF Lock!IdsKnown
    <3>4. Lock!Number \in Nat
      BY NumberIs
    <3> QED BY <1>5, <3>1, <3>3, <3>4
  <2>2. \A t \in 1..r2 : r5[t] = "over"
    <3>1. \A i \in 1..r2 : r3[i] = i
      BY <2>1 DEF Lock!IdsKnown
    <3>2. \A i \in 1..r2 : r5[r3[i]] = "over"
      BY <1>5, <2>1 DEF Lock!IdsKnown
    <3> QED BY <3>1, <3>2, Zenon
  <2>3. 1 \in 1..r2 /\ 1 \in {1, 2, 3} /\ r5[1] = "over"
    BY <2>1, <2>2, NumberIs
  <2>4. r1 = "tickets" => Len(r8) = Tickets
    <3>1. r1 = "tickets" => r7 = 0 /\ r2 = 3 /\ Len(r8) + r7 = Tickets + Lock!Changing
      BY <2>1, <2>3, NumberIs DEF Lock!TicketsInv
    <3>2. r2 = 3 => Lock!Changing = 0
      BY <2>2 DEF Lock!Changing
    <3>3. Len(r8) \in Nat
      BY LenProperties DEF Lock!ThreadTypes
    <3> QED BY <3>1, <3>2, <3>3, ProgramsAssumption
  <2>5. r1 = "flag" => r7 = Lock!First + Tickets
    BY <2>3 DEF Lock!FlagInv
  <2> QED BY <2>2, <2>4, <2>5
<1>6. r11 => \E t \in 1..Lock!Number : r5[t] = "none"
  BY DEF Lock!IdsKnown
<1> QED BY <1>1, <1>2, <1>3, <1>4, <1>5, <1>6 DEF Lock!CountsOrdered

Held(at) == at \in {"test", "print", "change"}

(* A thread that goes from one place to another with or without the mutex.       *)
LEMMA MoveKeeps ==
  ASSUME Lock!ThreadsInv, NEW t \in {1, 2, 3}, NEW at \in Lock!Places,
         r5[t] \notin {"none", "over"}, at # "none", r5' = [r5 EXCEPT ![t] = at],
         UNCHANGED <<r1, r2, r3, r4, r11>>,
         \/ r6' = r6 /\ (Held(r5[t]) <=> Held(at))
         \/ r6 = 0 /\ r6' = t /\ Held(at)
         \/ r6' = 0 /\ Held(r5[t]) /\ ~Held(at),
         r7' \in Nat, r8' \in Seq(Nat), r9' \in Nat
  PROVE  Lock!ThreadTypes' /\ Lock!Located' /\ Lock!MutexHeld' /\ Lock!IdsKnown'
<1> USE DEF Lock!ThreadsInv
<1>1. /\ r5'[t] = at /\ \A u \in {1, 2, 3} : u # t => r5'[u] = r5[u]
      /\ r5' \in [{1, 2, 3} -> {"none", "lock", "test", "wait", "relock", "print", "change",
                                "add", "run", "over"}]
  BY DEF Lock!ThreadTypes, Lock!TypeOK, Lock!Places
<1>2. Lock!Places' = Lock!Places /\ Lock!Number' = Lock!Number
  BY DEF Lock!Places, Lock!Number
<1>3. Lock!ThreadTypes'
  <2>1. r6' \in {1, 2, 3} \cup {0} /\ r4' \in 0..Len(r3')
    BY DEF Lock!ThreadTypes, Lock!TypeOK, Lock!Nobody
  <2>2. Lock!TypeOK'
    BY <1>1, <2>1 DEF Lock!TypeOK, Lock!Nobody
  <2> QED BY <1>2, <2>2 DEF Lock!ThreadTypes
<1>4. Lock!Located'
  BY <1>1, <1>2 DEF Lock!Located
<1>5. Lock!MutexHeld'
  <2>1. ASSUME NEW u \in {1, 2, 3}
        PROVE  r6' = u <=> Held(r5'[u])
    <3>1. r6 = u <=> Held(r5[u])
      BY DEF Lock!MutexHeld, Held
    <3>2. r6 = t <=> Held(r5[t])
      BY DEF Lock!MutexHeld, Held
    <3>3. CASE u = t
      BY <1>1, <3>1, <3>3
    <3>4. CASE u # t
      BY <1>1, <3>1, <3>2, <3>4
    <3> QED BY <3>3, <3>4
  <2> QED BY <2>1 DEF Lock!MutexHeld, Held
<1>6. Lock!IdsKnown'
  <2>1. ASSUME NEW u \in 1..Lock!Number PROVE r5[u] \in {"none", "over"} => r5'[u] = r5[u]
    BY <1>1, NumberIs
  <2>2. r2 \in 0..Lock!Number /\ r4 \in 0..Len(r3) /\ r3 \in Seq(1..r2) /\ Lock!Number \in Nat
        /\ Len(r3) \in Nat
    BY NumberIs, LenProperties DEF Lock!ThreadTypes, Lock!TypeOK
  <2>3. ASSUME NEW i \in 1..r4 PROVE r5'[r3[i]] = "over"
    <3>1. r3[i] \in 1..Lock!Number /\ r5[r3[i]] = "over"
      BY <2>2 DEF Lock!IdsKnown
    <3> QED BY <2>1, <3>1
  <2>4. ASSUME Len(r3) < r2 PROVE \E u \in 1..r2 : r5'[u] = "none"
    BY <2>1, <2>2, <2>4 DEF Lock!IdsKnown
  <2>5. ASSUME r11 PROVE \E u \in 1..Lock!Number : r5'[u] = "none"
    BY <2>1, <2>5 DEF Lock!IdsKnown
  <2> QED BY <1>2, <2>3, <2>4, <2>5 DEF Lock!IdsKnown
<1> QED BY <1>3, <1>4, <1>5, <1>6

(* Where a thread is tells which program it is of.                              *)
LEMMA PlaceTells ==
  ASSUME Lock!ThreadsInv, NEW t \in {1, 2, 3}
  PROVE  /\ r5[t] \in {"test", "over"} => r1 # "cond"
         /\ r5[t] = "test" => r1 = "tickets"
         /\ r5[t] \in {"print", "change"} => r1 \in {"tickets", "cond"}
         /\ r5[t] \in {"wait", "relock"} => r1 = "cond"
         /\ r5[t] = "add" => r1 = "flag"
         /\ r5[t] = "run" => r1 = "vector"
         /\ r1 \in {"tickets", "cond", "vector", "flag"}
         /\ r7 \in Nat /\ r8 \in Seq(Nat) /\ r9 \in Nat /\ Len(r8) \in Nat
         /\ r5 \in [{1, 2, 3} -> {"none", "lock", "test", "wait", "relock", "print", "change",
                                "add", "run", "over"}]
<1>1. r5[t] \in Lock!Places /\ r1 \in {"tickets", "cond", "vector", "flag"}
  BY DEF Lock!ThreadsInv, Lock!Located, Lock!ThreadTypes
<1>2. r7 \in Nat /\ r8 \in Seq(Nat) /\ r9 \in Nat /\ Len(r8) \in Nat
  BY LenProperties DEF Lock!ThreadsInv, Lock!ThreadTypes
<1>3. r5 \in [{1, 2, 3} -> {"none", "lock", "test", "wait", "relock", "print", "change",
                                "add", "run", "over"}]
  BY DEF Lock!ThreadsInv, Lock!ThreadTypes, Lock!TypeOK
<1> QED BY <1>1, <1>2, <1>3 DEF Lock!Places

(* LockGuard's constructor, and the wait.                                       *)
LEMMA EnterKeeps ==
  ASSUME Lock!ThreadsInv, NEW t \in {1, 2, 3}, Lock!Enter(t)
  PROVE  Lock!ThreadsInv'
<1> USE DEF Lock!ThreadsInv
<1>1. CASE r1 = "tickets"
  <2>1. /\ r5[t] = "lock" /\ r6 = 0 /\ r6' = t /\ r5' = [r5 EXCEPT ![t] = "test"]
        /\ UNCHANGED <<r1, r2, r3, r4, r7, r8, r9, r11>>
    BY <1>1 DEF Lock!Enter, Lock!Lock, Lock!Free, Lock!To, Lock!Nobody
  <2>2. "test" \in Lock!Places
    BY <1>1 DEF Lock!Places
  <2>3. Lock!ThreadTypes' /\ Lock!Located' /\ Lock!MutexHeld' /\ Lock!IdsKnown'
    BY <2>1, <2>2, MoveKeeps, PlaceTells DEF Held
  <2>4. Lock!Changing' = Lock!Changing
    BY <2>1, PlaceTells DEF Lock!Changing
  <2>5. Lock!TicketsInv'
    BY <1>1, <2>1, <2>4, PlaceTells DEF Lock!TicketsInv
  <2> QED BY <1>1, <2>1, <2>3, <2>5
<1>2. CASE r1 = "cond"
  <2>1. /\ r5[t] = "lock" /\ r5' = [r5 EXCEPT ![t] = "wait"]
        /\ UNCHANGED <<r1, r2, r3, r4, r6, r7, r8, r9, r11>>
    BY <1>2 DEF Lock!Enter, Lock!To
  <2>2. "wait" \in Lock!Places
    BY <1>2 DEF Lock!Places
  <2>3. Lock!ThreadTypes' /\ Lock!Located' /\ Lock!MutexHeld' /\ Lock!IdsKnown'
    BY <2>1, <2>2, MoveKeeps, PlaceTells DEF Held
  <2>4. Lock!Changing' = Lock!Changing /\ Lock!Owed' = Lock!Owed /\ Lock!First' = Lock!First
    BY <2>1, PlaceTells DEF Lock!Changing, Lock!Owed, Lock!First
  <2>5. Lock!CondInv'
    BY <1>2, <2>1, <2>4 DEF Lock!CondInv
  <2> QED BY <1>2, <2>1, <2>3, <2>5
<1> QED BY <1>1, <1>2 DEF Lock!Enter

(* A thread that finds no ticket is over.                                       *)
LEMMA TestKeeps ==
  ASSUME Lock!ThreadsInv, NEW t \in {1, 2, 3}, Lock!Test(t)
  PROVE  Lock!ThreadsInv'
<1> USE DEF Lock!ThreadsInv
<1>0. r5[t] = "test" /\ r1 = "tickets" /\ UNCHANGED <<r1, r2, r3, r4, r7, r8, r9, r11>>
  BY PlaceTells DEF Lock!Test
<1>1. CASE r7 > 0
  <2>1. r5' = [r5 EXCEPT ![t] = "print"] /\ r6' = r6
    BY <1>1 DEF Lock!Test, Lock!To
  <2>2. "print" \in Lock!Places
    BY <1>0 DEF Lock!Places
  <2>3. Lock!ThreadTypes' /\ Lock!Located' /\ Lock!MutexHeld' /\ Lock!IdsKnown'
    BY <1>0, <2>1, <2>2, MoveKeeps, PlaceTells DEF Held
  <2>4. Lock!Changing' = Lock!Changing
    BY <1>0, <2>1, PlaceTells DEF Lock!Changing
  <2>5. Lock!TicketsInv'
    BY <1>0, <1>1, <2>1, <2>4, PlaceTells DEF Lock!TicketsInv
  <2> QED BY <1>0, <2>1, <2>3, <2>5
<1>2. CASE ~(r7 > 0)
  <2>1. r5' = [r5 EXCEPT ![t] = "over"] /\ r6' = 0 /\ r7 = 0
    BY <1>2, PlaceTells DEF Lock!Test, Lock!To, Lock!Unlock, Lock!Nobody
  <2>2. "over" \in Lock!Places
    BY <1>0 DEF Lock!Places
  <2>3. Lock!ThreadTypes' /\ Lock!Located' /\ Lock!MutexHeld' /\ Lock!IdsKnown'
    BY <1>0, <2>1, <2>2, MoveKeeps, PlaceTells DEF Held
  <2>4. Lock!Changing' = Lock!Changing
    BY <1>0, <2>1, PlaceTells DEF Lock!Changing
  <2>5. Lock!TicketsInv'
    BY <1>0, <2>1, <2>4, PlaceTells DEF Lock!TicketsInv
  <2> QED BY <1>0, <2>1, <2>3, <2>5
<1> QED BY <1>1, <1>2

(* Whoever is woken is owed a number.                                           *)
LEMMA WakeKeeps ==
  ASSUME Lock!ThreadsInv, NEW t \in {1, 2, 3}, r5[t] = "wait", r5' = [r5 EXCEPT ![t] = "relock"],
         r9' = r9 + 1, UNCHANGED <<r1, r2, r3, r4, r6, r7, r8, r11>>
  PROVE  Lock!ThreadsInv'
<1> USE DEF Lock!ThreadsInv
<1>1. r1 = "cond" /\ "relock" \in Lock!Places
  BY PlaceTells DEF Lock!Places
<1>2. Lock!ThreadTypes' /\ Lock!Located' /\ Lock!MutexHeld' /\ Lock!IdsKnown'
  <2>1. r7' \in Nat /\ r8' \in Seq(Nat) /\ r9' \in Nat
    BY PlaceTells
  <2> QED BY <1>1, <2>1, MoveKeeps DEF Held
<1>3. Lock!Changing' = Lock!Changing /\ Lock!First' = Lock!First
  BY PlaceTells DEF Lock!Changing, Lock!First
<1>4. Cardinality(Lock!Owed') = Cardinality(Lock!Owed) + 1 /\ Cardinality(Lock!Owed) \in Nat
  <2>1. Lock!Owed' = Lock!Owed \cup {t} /\ t \notin Lock!Owed
    BY PlaceTells DEF Lock!Owed
  <2> QED BY <2>1, OwedFinite, FS_AddElement, FS_CardinalityType
<1>5. Lock!CondInv'
  <2>1. Len(r8) + Cardinality(Lock!Owed') <= r9'
    BY <1>1, <1>4, PlaceTells, LockCardinality DEF Lock!CondInv
  <2> QED BY <1>1, <1>3, <2>1, LockCardinality DEF Lock!CondInv
<1> QED BY <1>1, <1>2, <1>5

LEMMA WokenKeeps ==
  ASSUME Lock!ThreadsInv, NEW t \in {1, 2, 3}, Lock!Woken(t)
  PROVE  Lock!ThreadsInv'
<1> USE DEF Lock!ThreadsInv
<1>1. /\ r5[t] = "relock" /\ r6 = 0 /\ r6' = t /\ r5' = [r5 EXCEPT ![t] = "print"]
      /\ UNCHANGED <<r1, r2, r3, r4, r7, r8, r9, r11>>
  BY DEF Lock!Woken, Lock!Lock, Lock!Free, Lock!To, Lock!Nobody
<1>2. r1 = "cond" /\ "print" \in Lock!Places
  BY <1>1, PlaceTells DEF Lock!Places
<1>3. Lock!ThreadTypes' /\ Lock!Located' /\ Lock!MutexHeld' /\ Lock!IdsKnown'
  BY <1>1, <1>2, MoveKeeps, PlaceTells DEF Held
<1>4. Lock!Changing' = Lock!Changing /\ Lock!First' = Lock!First /\ Lock!Owed' = Lock!Owed
  BY <1>1, PlaceTells DEF Lock!Changing, Lock!First, Lock!Owed
<1>5. Lock!CondInv'
  BY <1>1, <1>2, <1>4 DEF Lock!CondInv
<1> QED BY <1>1, <1>2, <1>3, <1>5

(* At most one thread has printed and not yet changed the count.                 *)
LEMMA OneChanging ==
  ASSUME Lock!ThreadsInv, NEW t \in {1, 2, 3}, r5[t] \in {"print", "change"}
  PROVE  \A u \in {1, 2, 3} : u # t => ~Held(r5[u])
BY DEF Lock!ThreadsInv, Lock!MutexHeld, Held

(* What is printed is the count.                                                *)
LEMMA PrintKeeps ==
  ASSUME Lock!ThreadsInv, NEW t \in {1, 2, 3}, Lock!PrintCount(t)
  PROVE  Lock!ThreadsInv'
<1> USE DEF Lock!ThreadsInv
<1>1. /\ r5[t] = "print" /\ r5' = [r5 EXCEPT ![t] = "change"] /\ r8' = Append(r8, r7)
      /\ UNCHANGED <<r1, r2, r3, r4, r6, r7, r9, r11>>
  BY DEF Lock!PrintCount, Lock!To
<1>2. r1 \in {"tickets", "cond"} /\ "change" \in Lock!Places
  BY <1>1, PlaceTells DEF Lock!Places
<1>3. /\ r8' \in Seq(Nat) /\ Len(r8') = Len(r8) + 1 /\ Len(r8) \in Nat /\ r7 \in Nat
      /\ DOMAIN r8 = 1..Len(r8) /\ DOMAIN r8' = 1..(Len(r8) + 1)
      /\ \A i \in 1..Len(r8) : r8'[i] = r8[i]
      /\ r8'[Len(r8) + 1] = r7
  BY <1>1, PlaceTells, AppendProperties, LenProperties
<1>4. Lock!ThreadTypes' /\ Lock!Located' /\ Lock!MutexHeld' /\ Lock!IdsKnown'
  BY <1>1, <1>2, <1>3, MoveKeeps, PlaceTells DEF Held
<1>5. Lock!Changing = 0 /\ Lock!Changing' = 1 /\ Lock!First' = Lock!First
  BY <1>1, OneChanging, PlaceTells DEF Lock!Changing, Lock!First, Held
<1>6. ASSUME r1 = "tickets" PROVE Lock!TicketsInv'
  <2>1. Len(r8) + r7 = Tickets /\ r7 > 0
    BY <1>1, <1>3, <1>5, <1>6, ProgramsAssumption DEF Lock!TicketsInv
  <2>2. \A i \in DOMAIN r8' : r8'[i] = Tickets + 1 - i
    <3>1. ASSUME NEW i \in 1..Len(r8) PROVE r8'[i] = Tickets + 1 - i
      BY <1>3, <1>6, <3>1 DEF Lock!TicketsInv
    <3>2. r8'[Len(r8) + 1] = Tickets + 1 - (Len(r8) + 1)
      BY <1>3, <2>1, ProgramsAssumption
    <3>3. \A i \in DOMAIN r8' : i \in 1..Len(r8) \/ i = Len(r8) + 1
      BY <1>3
    <3> QED BY <3>1, <3>2, <3>3, Zenon
  <2>3. Len(r8') + r7' = Tickets + Lock!Changing'
    BY <1>1, <1>3, <1>5, <2>1, ProgramsAssumption
  <2>4. \A u \in {1, 2, 3} : r5'[u] = "over" => r7' = 0
    BY <1>1, <1>6, PlaceTells DEF Lock!TicketsInv
  <2> QED BY <1>1, <2>1, <2>2, <2>3, <2>4 DEF Lock!TicketsInv
<1>7. ASSUME r1 = "cond" PROVE Lock!CondInv'
  <2>1. r7 = 100 + Len(r8) /\ Lock!First = 100
    BY <1>3, <1>5, <1>7 DEF Lock!CondInv, Lock!First
  <2>2. \A i \in DOMAIN r8' : r8'[i] = 99 + i
    <3>1. ASSUME NEW i \in 1..Len(r8) PROVE r8'[i] = 99 + i
      BY <1>3, <1>7, <3>1 DEF Lock!CondInv
    <3>2. r8'[Len(r8) + 1] = 99 + (Len(r8) + 1)
      BY <1>3, <2>1
    <3>3. \A i \in DOMAIN r8' : i \in 1..Len(r8) \/ i = Len(r8) + 1
      BY <1>3
    <3> QED BY <3>1, <3>2, <3>3, Zenon
  <2>3. Cardinality(Lock!Owed') = Cardinality(Lock!Owed) - 1 /\ Cardinality(Lock!Owed) \in Nat
    <3>1. Lock!Owed' = Lock!Owed \ {t} /\ t \in Lock!Owed
      BY <1>1, PlaceTells DEF Lock!Owed
    <3> QED BY <3>1, OwedFinite, FS_RemoveElement, FS_CardinalityType
  <2>4. Len(r8) + Cardinality(Lock!Owed) <= r9 /\ r9' = r9 /\ r9 \in Nat
    BY <1>1, <1>7, LockCardinality, PlaceTells DEF Lock!CondInv
  <2>5. Len(r8') + Cardinality(Lock!Owed') <= r9'
    BY <1>3, <2>3, <2>4
  <2>6. r7' + Lock!Changing' = Lock!First' + Len(r8')
    BY <1>1, <1>3, <1>5, <2>1
  <2> QED BY <2>2, <2>5, <2>6, LockCardinality DEF Lock!CondInv
<1> QED BY <1>1, <1>2, <1>4, <1>6, <1>7

(* The next finds another count.                                                *)
LEMMA ChangeKeeps ==
  ASSUME Lock!ThreadsInv, NEW t \in {1, 2, 3}, Lock!Change(t)
  PROVE  Lock!ThreadsInv'
<1> USE DEF Lock!ThreadsInv
<1>1. /\ r5[t] = "change" /\ r5' = [r5 EXCEPT ![t] = "lock"] /\ r6' = 0
      /\ r7' = IF r1 = "tickets" THEN r7 - 1 ELSE r7 + 1
      /\ UNCHANGED <<r1, r2, r3, r4, r8, r9, r11>>
  BY DEF Lock!Change, Lock!Unlock, Lock!To, Lock!Nobody
<1>2. r1 \in {"tickets", "cond"} /\ "lock" \in Lock!Places
  BY <1>1, PlaceTells DEF Lock!Places
<1>3. r1 = "tickets" => r7 > 0
  BY <1>1 DEF Lock!TicketsInv
<1>4. r7' \in Nat /\ r7 \in Nat /\ Len(r8) \in Nat
  BY <1>1, <1>3, PlaceTells
<1>5. Lock!ThreadTypes' /\ Lock!Located' /\ Lock!MutexHeld' /\ Lock!IdsKnown'
  BY <1>1, <1>2, <1>4, MoveKeeps, PlaceTells DEF Held
<1>6. Lock!Changing = 1 /\ Lock!Changing' = 0 /\ Lock!First' = Lock!First /\ Lock!Owed' = Lock!Owed
  BY <1>1, OneChanging, PlaceTells DEF Lock!Changing, Lock!First, Lock!Owed, Held
<1>7. ASSUME r1 = "tickets" PROVE Lock!TicketsInv'
  <2>1. Len(r8') + r7' = Tickets + Lock!Changing'
    BY <1>1, <1>4, <1>6, <1>7, ProgramsAssumption DEF Lock!TicketsInv
  <2>2. \A u \in {1, 2, 3} : ~Held(r5'[u]) /\ r5'[u] # "over"
    BY <1>1, <1>3, <1>7, OneChanging, PlaceTells DEF Lock!TicketsInv, Held
  <2> QED BY <1>1, <1>7, <2>1, <2>2 DEF Lock!TicketsInv, Held
<1>8. ASSUME r1 = "cond" PROVE Lock!CondInv'
  <2>1. r7' + Lock!Changing' = Lock!First' + Len(r8')
    BY <1>1, <1>4, <1>6, <1>8 DEF Lock!CondInv, Lock!First
  <2> QED BY <1>1, <1>6, <1>8, <2>1 DEF Lock!CondInv
<1> QED BY <1>1, <1>2, <1>5, <1>7, <1>8

(* The counter's thread, and the vector's.                                       *)
LEMMA AddKeeps ==
  ASSUME Lock!ThreadsInv, NEW t \in {1, 2, 3}, Lock!Add(t)
  PROVE  Lock!ThreadsInv'
<1> USE DEF Lock!ThreadsInv
<1>1. r5[t] = "add" /\ r1 = "flag" /\ UNCHANGED <<r1, r2, r3, r4, r6, r8, r9, r11>>
  BY PlaceTells DEF Lock!Add
<1>2. Lock!First = 100 /\ Lock!First' = 100 /\ r7 \in Nat /\ Lock!FlagInv
  BY <1>1, PlaceTells DEF Lock!First
<1>3. CASE r7 < Lock!First + Tickets
  <2>1. r7' = r7 + 1 /\ r5' = r5
    BY <1>3 DEF Lock!Add
  <2>2. Lock!Places' = Lock!Places /\ Lock!Number' = Lock!Number
    BY <1>1 DEF Lock!Places, Lock!Number
  <2>3. Lock!ThreadTypes' /\ Lock!Located' /\ Lock!MutexHeld' /\ Lock!IdsKnown'
    BY <1>1, <1>2, <2>1, <2>2
       DEF Lock!ThreadTypes, Lock!TypeOK, Lock!Located, Lock!MutexHeld, Lock!IdsKnown
  <2>4. \A i \in DOMAIN r8 : r8[i] \in Nat
    BY PlaceTells
  <2>5. r7' <= Lock!First' + Tickets /\ \A u \in {1, 2, 3} : r5'[u] # "over"
    BY <1>2, <1>3, <2>1, ProgramsAssumption DEF Lock!FlagInv
  <2>6. \A i \in DOMAIN r8' : r8'[i] <= r7' /\ (i > 1 => r8'[i - 1] <= r8'[i])
    BY <1>1, <1>2, <2>1, <2>4 DEF Lock!FlagInv
  <2> QED BY <1>1, <2>3, <2>5, <2>6 DEF Lock!FlagInv
<1>4. CASE ~(r7 < Lock!First + Tickets)
  <2>1. r7' = r7 /\ r5' = [r5 EXCEPT ![t] = "over"] /\ "over" \in Lock!Places
    BY <1>1, <1>4 DEF Lock!Add, Lock!To, Lock!Places
  <2>2. r7 = Lock!First + Tickets
    BY <1>2, <1>4, ProgramsAssumption DEF Lock!FlagInv
  <2>3. Lock!ThreadTypes' /\ Lock!Located' /\ Lock!MutexHeld' /\ Lock!IdsKnown'
    BY <1>1, <2>1, MoveKeeps, PlaceTells DEF Held
  <2>4. Lock!FlagInv'
    BY <1>1, <1>2, <2>1, <2>2 DEF Lock!FlagInv
  <2> QED BY <1>1, <2>3, <2>4
<1> QED BY <1>3, <1>4

LEMMA RunKeeps ==
  ASSUME Lock!ThreadsInv, NEW t \in {1, 2, 3}, Lock!Run(t)
  PROVE  Lock!ThreadsInv'
<1> USE DEF Lock!ThreadsInv
<1>1. /\ r5[t] = "run" /\ r5' = [r5 EXCEPT ![t] = "over"] /\ r1 = "vector"
      /\ UNCHANGED <<r1, r2, r3, r4, r6, r7, r8, r9, r11>>
  BY PlaceTells DEF Lock!Run, Lock!To
<1>2. "over" \in Lock!Places
  BY <1>1 DEF Lock!Places
<1>3. Lock!ThreadTypes' /\ Lock!Located' /\ Lock!MutexHeld' /\ Lock!IdsKnown'
  BY <1>1, <1>2, MoveKeeps, PlaceTells DEF Held
<1> QED BY <1>1, <1>3

(* What the counts say depends on nothing but what it reads.                     *)
LEMMA LockQuiet ==
  ASSUME Lock!ThreadsInv, UNCHANGED <<r1, r2, r3, r4, r5, r6, r7, r8, r9, r11>>
  PROVE  Lock!ThreadsInv'
<1>1. /\ Lock!Places' = Lock!Places /\ Lock!Number' = Lock!Number /\ Lock!First' = Lock!First
      /\ Lock!Changing' = Lock!Changing /\ Lock!Owed' = Lock!Owed
  BY DEF Lock!Places, Lock!Number, Lock!First, Lock!Changing, Lock!Owed
<1>2. Lock!ThreadTypes' /\ Lock!Located' /\ Lock!MutexHeld' /\ Lock!IdsKnown'
  BY <1>1 DEF Lock!ThreadsInv, Lock!ThreadTypes, Lock!TypeOK, Lock!Located, Lock!MutexHeld,
              Lock!IdsKnown
<1>3. /\ r1' = "tickets" => Lock!TicketsInv'
      /\ r1' = "cond" => Lock!CondInv'
      /\ r1' = "flag" => Lock!FlagInv'
  BY <1>1 DEF Lock!ThreadsInv, Lock!TicketsInv, Lock!CondInv, Lock!FlagInv
<1> QED BY <1>2, <1>3 DEF Lock!ThreadsInv

(* A signal wakes one thread that waits, or nobody.                             *)
LEMMA SignalKeeps ==
  ASSUME Lock!ThreadsInv, NEW t \in {1, 2, 3}, Lock!Signal(t) \/ Lock!Spurious(t)
  PROVE  Lock!ThreadsInv'
<1>1. CASE Lock!Signal(t) /\ Lock!Waiting = {}
  BY <1>1, LockQuiet DEF Lock!Signal
<1>2. CASE Lock!Signal(t) /\ Lock!Waiting # {}
  <2>1. /\ r5[t] = "wait" /\ r5' = [r5 EXCEPT ![t] = "relock"] /\ r9' = r9 + 1
        /\ UNCHANGED <<r1, r2, r3, r4, r6, r7, r8, r11>>
    BY <1>2 DEF Lock!Signal, Lock!Waiting, Lock!To
  <2> QED BY <2>1, WakeKeeps
<1>3. CASE Lock!Spurious(t)
  <2>1. /\ r5[t] = "wait" /\ r5' = [r5 EXCEPT ![t] = "relock"] /\ r9' = r9 + 1
        /\ UNCHANGED <<r1, r2, r3, r4, r6, r7, r8, r11>>
    BY <1>3 DEF Lock!Spurious, Lock!To
  <2> QED BY <2>1, WakeKeeps
<1> QED BY <1>1, <1>2, <1>3

(* Main sees the counter go up only.                                            *)
LEMMA LookKeeps ==
  ASSUME Lock!ThreadsInv, Lock!Look
  PROVE  Lock!ThreadsInv'
<1> USE DEF Lock!ThreadsInv
<1>1. /\ r1 = "flag" /\ r8' = Append(r8, r7)
      /\ UNCHANGED <<r1, r2, r3, r4, r5, r6, r7, r9, r11>>
  BY DEF Lock!Look
<1>2. /\ r8' \in Seq(Nat) /\ Len(r8') = Len(r8) + 1 /\ Len(r8) \in Nat /\ r7 \in Nat
      /\ DOMAIN r8 = 1..Len(r8) /\ DOMAIN r8' = 1..(Len(r8) + 1)
      /\ \A i \in 1..Len(r8) : r8'[i] = r8[i]
      /\ r8'[Len(r8) + 1] = r7
  <2>1. r8 \in Seq(Nat) /\ r7 \in Nat
    BY DEF Lock!ThreadTypes
  <2> QED BY <1>1, <2>1, AppendProperties, LenProperties
<1>3. Lock!Places' = Lock!Places /\ Lock!Number' = Lock!Number /\ Lock!First' = Lock!First
  BY <1>1 DEF Lock!Places, Lock!Number, Lock!First
<1>4. Lock!ThreadTypes' /\ Lock!Located' /\ Lock!MutexHeld' /\ Lock!IdsKnown'
  BY <1>1, <1>2, <1>3 DEF Lock!ThreadTypes, Lock!TypeOK, Lock!Located, Lock!MutexHeld,
              Lock!IdsKnown
<1>5. ASSUME NEW i \in DOMAIN r8' PROVE r8'[i] <= r7 /\ (i > 1 => r8'[i - 1] <= r8'[i])
  <2>1. \A j \in 1..Len(r8) : r8[j] <= r7 /\ (j > 1 => r8[j - 1] <= r8[j])
    BY <1>1, <1>2 DEF Lock!FlagInv
  <2>2. CASE i \in 1..Len(r8)
    <3>1. i > 1 => i - 1 \in 1..Len(r8)
      BY <1>2, <2>2
    <3> QED BY <1>2, <2>1, <2>2, <3>1
  <2>3. CASE i = Len(r8) + 1
    <3>1. r8'[i] = r7 /\ (i > 1 => i - 1 \in 1..Len(r8))
      BY <1>2, <2>3
    <3>2. i > 1 => r8'[i - 1] <= r7
      BY <1>2, <2>1, <3>1
    <3> QED BY <1>2, <3>1, <3>2
  <2> QED BY <1>2, <2>2, <2>3
<1>6. Lock!FlagInv'
  BY <1>1, <1>3, <1>5 DEF Lock!FlagInv
<1> QED BY <1>1, <1>4, <1>6

(* A join waits for the thread whose id it has, or has the id of none.           *)
LEMMA JoinNextKeeps ==
  ASSUME Lock!ThreadsInv, Lock!JoinNext
  PROVE  Lock!ThreadsInv'
<1> USE DEF Lock!ThreadsInv
<1> DEFINE i == r4 + 1
           bad == i > Len(r3) \/ r5[r3[i]] = "none"
<1>1. /\ r2 = Lock!Number /\ r4 < Lock!Number
      /\ UNCHANGED <<r1, r2, r3, r5, r6, r7, r8, r9>>
  BY DEF Lock!JoinNext
<1>2. /\ Lock!Places' = Lock!Places /\ Lock!Number' = Lock!Number /\ Lock!First' = Lock!First
      /\ Lock!Changing' = Lock!Changing /\ Lock!Owed' = Lock!Owed
  BY <1>1 DEF Lock!Places, Lock!Number, Lock!First, Lock!Changing, Lock!Owed
<1>3. Lock!Located' /\ Lock!MutexHeld'
  BY <1>1, <1>2 DEF Lock!Located, Lock!MutexHeld
<1>4. /\ r1' = "tickets" => Lock!TicketsInv'
      /\ r1' = "cond" => Lock!CondInv'
      /\ r1' = "flag" => Lock!FlagInv'
  BY <1>1, <1>2 DEF Lock!TicketsInv, Lock!CondInv, Lock!FlagInv
<1>5. r4 \in 0..Len(r3) /\ Len(r3) \in Nat /\ Len(r3) <= r2 /\ r2 \in Nat /\ r3 \in Seq(1..r2)
  BY <1>1, NumberIs, LenProperties DEF Lock!ThreadTypes, Lock!TypeOK
<1>6. CASE bad
  <2>1. r4' = r4
    BY <1>6 DEF Lock!JoinNext
  <2>2. r11' = TRUE
    BY <1>6, Zenon DEF Lock!JoinNext
  <2>3. Lock!ThreadTypes'
    BY <1>1, <1>2, <2>1, <2>2 DEF Lock!ThreadTypes, Lock!TypeOK
  <2>4. \E t \in 1..Lock!Number : r5[t] = "none"
    <3>1. CASE i > Len(r3)
      BY <1>1, <1>5, <3>1 DEF Lock!IdsKnown
    <3>2. CASE ~(i > Len(r3))
      <4>1. i \in 1..Len(r3) /\ r5[r3[i]] = "none"
        BY <1>5, <1>6, <3>2
      <4>2. r3[i] \in 1..Lock!Number
        BY <1>1, <1>5, <4>1
      <4> QED BY <4>1, <4>2
    <3> QED BY <3>1, <3>2
  <2>5. Lock!IdsKnown'
    BY <1>1, <1>2, <2>1, <2>4 DEF Lock!IdsKnown
  <2> QED BY <1>3, <1>4, <2>3, <2>5
<1>7. CASE ~bad
  <2>1. r4' = i /\ i \in 1..Len(r3) /\ r5[r3[i]] = "over"
    BY <1>5, <1>7 DEF Lock!JoinNext
  <2>2. r11' = FALSE
    BY <1>7, Zenon DEF Lock!JoinNext
  <2>3. Lock!ThreadTypes'
    <3>1. Lock!TypeOK'
      BY <1>1, <2>1 DEF Lock!ThreadTypes, Lock!TypeOK
    <3> QED BY <1>1, <1>2, <2>2, <3>1 DEF Lock!ThreadTypes
  <2>4. \A j \in 1..r4' : r5[r3[j]] = "over"
    <3>1. \A j \in 1..r4' : j \in 1..r4 \/ j = i
      BY <1>5, <2>1
    <3>2. \A j \in 1..r4 : r5[r3[j]] = "over"
      BY DEF Lock!IdsKnown
    <3> QED BY <2>1, <3>1, <3>2, Zenon
  <2>5. Lock!IdsKnown'
    BY <1>1, <1>2, <2>1, <2>2, <2>4 DEF Lock!IdsKnown
  <2> QED BY <1>3, <1>4, <2>3, <2>5
<1> QED BY <1>6, <1>7

(* A thread begins where its program has it begin, if it could be made.         *)
LEMMA CreateThreadKeeps ==
  ASSUME Lock!ThreadsInv, NEW works \in BOOLEAN, Lock!Create(works)
  PROVE  Lock!ThreadsInv'
<1> USE DEF Lock!ThreadsInv
<1> DEFINE t == r2 + 1
<1>1. /\ r2 < Lock!Number /\ r2' = t
      /\ UNCHANGED <<r1, r4, r6, r7, r8, r9, r11>>
  BY DEF Lock!Create
<1>2. r2 \in Nat /\ Len(r3) \in Nat /\ Len(r3) <= r2 /\ r3 \in Seq(1..r2) /\ Lock!Number \in Nat
  BY NumberIs, LenProperties DEF Lock!ThreadTypes
<1>3. t \in {1, 2, 3} /\ t \in 1..Lock!Number /\ r5[t] = "none"
  <2>1. t \in 1..Lock!Number
    BY <1>1, <1>2
  <2>2. t \in {1, 2, 3}
    BY <2>1, NumberIs
  <2> QED BY <1>2, <2>1, <2>2 DEF Lock!Located
<1>4. r4 = 0 /\ r11 = FALSE
  <2>1. r4 \in Nat /\ r11 \in BOOLEAN
    BY <1>2 DEF Lock!ThreadTypes, Lock!TypeOK
  <2>2. ~(r4 > 0 \/ r11)
    BY <1>1, <1>2 DEF Lock!IdsKnown
  <2> QED BY <2>1, <2>2
<1>5. /\ r5' \in [{1, 2, 3} -> {"none", "lock", "test", "wait", "relock", "print", "change",
                                "add", "run", "over"}]
      /\ r5'[t] \in {"none", Lock!Entry} /\ \A u \in {1, 2, 3} : u # t => r5'[u] = r5[u]
      /\ r5'[t] = "none" \/ r3' = Append(r3, t)
      /\ r3' \in {r3, Append(r3, t)}
      /\ Lock!Entry \in Lock!Places /\ Lock!Entry \in {"lock", "run", "add"}
  <2>1. Lock!Entry \in Lock!Places /\ Lock!Entry \in {"lock", "run", "add"}
    BY DEF Lock!Entry, Lock!Places, Lock!ThreadTypes
  <2>2. r5 \in [{1, 2, 3} -> {"none", "lock", "test", "wait", "relock", "print", "change",
                                "add", "run", "over"}]
    BY PlaceTells
  <2>3. CASE works = TRUE
    BY <1>3, <2>1, <2>2, <2>3 DEF Lock!Create
  <2>4. CASE works = FALSE
    BY <1>3, <2>1, <2>2, <2>4 DEF Lock!Create
  <2> QED BY <2>3, <2>4
<1> HIDE DEF t
<1>6. /\ Lock!Places' = Lock!Places /\ Lock!Number' = Lock!Number /\ Lock!First' = Lock!First
  BY <1>1 DEF Lock!Places, Lock!Number, Lock!First
<1>7. Lock!Changing' = Lock!Changing /\ Lock!Owed' = Lock!Owed
  <2>1. \A u \in {1, 2, 3} : \A at \in {"change", "relock", "print", "test", "over"} :
            r5'[u] = at <=> r5[u] = at
    BY <1>3, <1>5
  <2> QED BY <2>1 DEF Lock!Changing, Lock!Owed
<1>8. r3' \in Seq(1..r2') /\ Len(r3') \in Nat /\ (Len(r3') = Len(r3) + 1 \/ Len(r3') = Len(r3))
  <2>1. r3 \in Seq(1..r2') /\ t \in 1..r2'
    BY <1>1, <1>2, <1>3 DEF t
  <2>2. Append(r3, t) \in Seq(1..r2') /\ Len(Append(r3, t)) = Len(r3) + 1
    BY <2>1, AppendProperties
  <2>3. CASE r3' = r3
    BY <1>2, <2>1, <2>3
  <2>4. CASE r3' = Append(r3, t)
    BY <1>2, <2>2, <2>4
  <2> QED BY <1>5, <2>3, <2>4
<1>9. Lock!ThreadTypes'
  <2>1. Lock!TypeOK'
    BY <1>1, <1>4, <1>5, <1>8 DEF Lock!ThreadTypes, Lock!TypeOK
  <2>2. r2' \in 0..Lock!Number' /\ Len(r3') <= r2'
    BY <1>1, <1>2, <1>3, <1>6, <1>8 DEF t
  <2> QED BY <1>1, <1>8, <2>1, <2>2 DEF Lock!ThreadTypes
<1>10. Lock!Located'
  BY <1>1, <1>2, <1>3, <1>5, <1>6 DEF Lock!Located, t
<1>11. Lock!MutexHeld'
  BY <1>1, <1>3, <1>5 DEF Lock!MutexHeld
<1>12. Lock!IdsKnown'
  <2>1. ASSUME Len(r3') = r2', NEW j \in 1..r2' PROVE r3'[j] = j
    <3>1. Len(r3) = r2 /\ r3' = Append(r3, t)
      BY <1>1, <1>2, <1>5, <1>8, <2>1 DEF t
    <3>2. CASE j \in 1..r2
      BY <1>2, <3>1, <3>2 DEF Lock!IdsKnown
    <3>3. CASE j = t
      BY <1>2, <3>1, <3>3 DEF t
    <3> QED BY <1>1, <1>2, <3>2, <3>3 DEF t
  <2>2. ASSUME Len(r3') < r2' PROVE \E u \in 1..r2' : r5'[u] = "none"
    <3>1. CASE r3' = r3 /\ r5'[t] = "none"
      BY <1>1, <1>2, <3>1 DEF t
    <3>2. CASE r3' = Append(r3, t)
      <4>1. Len(r3) < r2
        BY <1>1, <1>2, <2>2, <3>2 DEF t
      <4>2. PICK u \in 1..r2 : r5[u] = "none"
        BY <4>1 DEF Lock!IdsKnown
      <4>3. u \in {1, 2, 3} /\ u # t /\ u \in 1..r2'
        BY <1>1, <1>2, <4>2, NumberIs DEF t
      <4> QED BY <1>5, <4>2, <4>3
    <3> QED BY <1>5, <3>1, <3>2
  <2> QED BY <1>1, <1>4, <2>1, <2>2 DEF Lock!IdsKnown
<1>13. /\ r1' = "tickets" => Lock!TicketsInv'
       /\ r1' = "cond" => Lock!CondInv'
       /\ r1' = "flag" => Lock!FlagInv'
  <2>1. \A u \in {1, 2, 3} : \A at \in {"change", "relock", "print", "test", "over"} :
            r5'[u] = at <=> r5[u] = at
    BY <1>3, <1>5
  <2> QED BY <1>1, <1>6, <1>7, <2>1 DEF Lock!TicketsInv, Lock!CondInv, Lock!FlagInv
<1> QED BY <1>9, <1>10, <1>11, <1>12, <1>13

(* Each step of main and of the threads.                                        *)
LEMMA LockStep ==
  ASSUME Lock!ThreadsInv, Lock!Next
  PROVE  Lock!ThreadsInv'
BY JoinNextKeeps, LookKeeps, CreateThreadKeeps, SignalKeeps, EnterKeeps, TestKeeps,
   WokenKeeps, PrintKeeps, ChangeKeeps, AddKeeps, RunKeeps DEF Lock!Next

-----------------------------------------------------------------------------
(* Signals: r1 kind, r2 ppc, r3 inside, r4 mask, r5 pending, r6 sent, r7 handled,
   r8 rounds, r9 shown, r10 armed, r11 ran, r12 child. *)

(* No signal yet.                                                               *)
LEMMA SigInit ==
  ASSUME Sig!Init
  PROVE  Sig!SignalsInv
<1> USE DEF Sig!Init, Sig!Signals, Sig!Zero, Sig!None
<1>1. Sig!SignalTypes
  <2>1. r10 = FALSE
    BY Zenon
  <2>2. Sig!TypeOK /\ r5 \in [Sig!Signals -> Nat] /\ r6 \in [Sig!Signals -> Nat]
        /\ r7 \in [Sig!Signals -> Nat]
    BY DEF Sig!TypeOK
  <2>3. r11 \in Seq({"sche", "MemManager", "Fflush"})
    OBVIOUS
  <2> QED BY <2>1, <2>2, <2>3 DEF Sig!SignalTypes
<1>2. Sig!OwnOnly /\ Sig!Accounted /\ Sig!Remembered
  BY DEF Sig!OwnOnly, Sig!Accounted, Sig!Remembered
<1>3. Sig!ChildCounted /\ Sig!Masked
  BY DEF Sig!ChildCounted, Sig!Masked
<1>4. Sig!Started
  BY DEF Sig!Started, Sig!block
<1>5. Sig!RanInOrder
  BY DEF Sig!RanInOrder
<1> QED BY <1>1, <1>2, <1>3, <1>4, <1>5 DEF Sig!SignalsInv

(* What a process may expect of its signals.                                    *)
LEMMA SigSays ==
  ASSUME Sig!SignalsInv
  PROVE  Sig!TypeOK /\ Sig!SignalsKept
<1> USE DEF Sig!SignalsInv
<1>1. Sig!TypeOK /\ r7 \in [Sig!Signals -> Nat] /\ r5 \in [Sig!Signals -> Nat]
      /\ r6 \in [Sig!Signals -> Nat]
  BY DEF Sig!SignalTypes
<1>2. ASSUME NEW s \in Sig!Signals
      PROVE  /\ r7[s] <= r6[s]
             /\ Sig!Running /\ r6[s] > 0 => r7[s] > 0 \/ r5[s] > 0 \/ r3 = s
  <2>1. CASE s = "CHLD"
    BY <2>1, <1>2 DEF Sig!ChildCounted, Sig!Remembered
  <2>2. CASE s # "CHLD"
    BY <1>1, <2>2, <1>2 DEF Sig!Accounted, Sig!Remembered
  <2> QED BY <2>1, <2>2
<1>3. r1 = "save" /\ r4 # {} => r3 = Sig!None
  BY DEF Sig!Masked
<1>4. r1 = "block" /\ r4 # {} => r5["RT40"] = r6["RT40"]
  BY DEF Sig!Masked, Sig!Running
<1>5. ASSUME r3 = "ALRM" PROVE r11 = SubSeq(Sig!funcs, 1, Len(r11))
  <2> DEFINE S == {"sche", "MemManager", "Fflush"}
  <2>1. r11 \in Seq(S) /\ Sig!funcs \in Seq(S) /\ Len(Sig!funcs) = 3
    BY DEF Sig!SignalTypes, Sig!funcs
  <2>2. Len(r11) \in 0..3 /\ \A i \in 1..Len(r11) : r11[i] = Sig!funcs[i]
    <3>1. Len(r11) \in Nat /\ DOMAIN r11 = 1..Len(r11)
      BY <2>1, LenProperties
    <3>2. Len(r11) <= 3 /\ \A i \in DOMAIN r11 : r11[i] = Sig!funcs[i]
      BY <1>5, <2>1 DEF Sig!RanInOrder
    <3> QED BY <3>1, <3>2
  <2>3. /\ SubSeq(Sig!funcs, 1, Len(r11)) \in Seq(S)
        /\ Len(SubSeq(Sig!funcs, 1, Len(r11))) = Len(r11)
        /\ \A i \in 1..Len(r11) : SubSeq(Sig!funcs, 1, Len(r11))[i] = Sig!funcs[i]
    BY <2>1, <2>2 DEF Sig!funcs
  <2> HIDE DEF S
  <2> QED BY <2>1, <2>2, <2>3, SeqEqual
<1>6. r12 = "reaped" => r3 = "CHLD"
  BY DEF Sig!ChildCounted
<1>7. /\ r1 = "alarm" /\ r2 = "loop" => r10 \/ r5["ALRM"] > 0 \/ r3 = "ALRM"
      /\ r2 = "killed" => r1 \in {"catch", "save", "block"}
  BY DEF Sig!Started, Sig!block
<1> QED BY <1>1, <1>2, <1>3, <1>4, <1>5, <1>6, <1>7 DEF Sig!SignalsKept

(* The types, and what a signal that is raised does.                             *)
LEMMA SigTypes ==
  ASSUME Sig!SignalsInv
  PROVE  /\ r1 \in {"catch", "save", "alarm", "block", "child"}
         /\ r2 \in {"setup", "mask", "arm", "loop", "killed"}
         /\ r3 \in Sig!Signals \cup {Sig!None} /\ r4 \subseteq Sig!Signals
         /\ r5 \in [Sig!Signals -> Nat] /\ r6 \in [Sig!Signals -> Nat]
         /\ r7 \in [Sig!Signals -> Nat]
         /\ r10 \in BOOLEAN /\ r11 \in Seq({"sche", "MemManager", "Fflush"})
         /\ Len(r11) \in Nat /\ DOMAIN r11 = 1..Len(r11)
         /\ r12 \in {"none", "alive", "zombie", "reaped"}
<1>1. r11 \in Seq({"sche", "MemManager", "Fflush"})
  BY DEF Sig!SignalsInv, Sig!SignalTypes
<1>2. Len(r11) \in Nat /\ DOMAIN r11 = 1..Len(r11)
  BY <1>1, LenProperties
<1> QED BY <1>1, <1>2 DEF Sig!SignalsInv, Sig!SignalTypes, Sig!TypeOK

LEMMA RaiseDoes ==
  ASSUME Sig!SignalsInv, NEW s \in Sig!Signals, Sig!Raise(s),
         r6' = [r6 EXCEPT ![s] = @ + 1]
  PROVE  /\ r5' \in [Sig!Signals -> Nat] /\ r6' \in [Sig!Signals -> Nat]
         /\ r5'[s] > 0 /\ r5'[s] <= r5[s] + 1 /\ r6'[s] = r6[s] + 1
         /\ s = "RT40" => r5'[s] = r5[s] + 1
         /\ \A t \in Sig!Signals : t # s => r5'[t] = r5[t] /\ r6'[t] = r6[t]
<1>1. /\ r5' = [r5 EXCEPT ![s] = IF s = "RT40" THEN r5[s] + 1 ELSE 1]
      /\ r5[s] \in Nat /\ r6[s] \in Nat
  BY SigTypes DEF Sig!Raise, Sig!RealTime
<1>2. r5'[s] = IF s = "RT40" THEN r5[s] + 1 ELSE 1
  BY <1>1, SigTypes
<1>3. \A t \in Sig!Signals : t # s => r5'[t] = r5[t] /\ r6'[t] = r6[t]
  BY <1>1, SigTypes
<1>4. r5' \in [Sig!Signals -> Nat] /\ r6' \in [Sig!Signals -> Nat] /\ r6'[s] = r6[s] + 1
  BY <1>1, SigTypes
<1> QED BY <1>1, <1>2, <1>3, <1>4

LEMMA RaiseAccounts ==
  ASSUME Sig!SignalsInv, NEW s \in Sig!Signals, Sig!Raise(s),
         r6' = [r6 EXCEPT ![s] = @ + 1], r3' = r3, r7' = r7
  PROVE  Sig!Accounted'
<1>1. /\ r5' \in [Sig!Signals -> Nat] /\ r6' \in [Sig!Signals -> Nat]
      /\ r5'[s] > 0 /\ r5'[s] <= r5[s] + 1 /\ r6'[s] = r6[s] + 1
      /\ \A t \in Sig!Signals : t # s => r5'[t] = r5[t] /\ r6'[t] = r6[t]
  BY RaiseDoes
<1>2. ASSUME NEW t \in Sig!Signals \ {"CHLD"}
      PROVE  r7[t] + r5'[t] + (IF r3 = t THEN 1 ELSE 0) <= r6'[t]
  <2> DEFINE in == IF r3 = t THEN 1 ELSE 0
  <2>1. r7[t] + r5[t] + in <= r6[t]
    BY DEF Sig!SignalsInv, Sig!Accounted
  <2>2. r7[t] \in Nat /\ r5[t] \in Nat /\ r6[t] \in Nat /\ in \in Nat
        /\ r5'[t] \in Nat /\ r6'[t] \in Nat
    BY <1>1, SigTypes
  <2> HIDE DEF in
  <2>3. r7[t] + r5'[t] + in <= r6'[t]
    <3>1. CASE t = s
      BY <1>1, <2>1, <2>2, <3>1
    <3>2. CASE t # s
      BY <1>1, <2>1, <2>2, <3>2
    <3> QED BY <3>1, <3>2
  <2> QED BY <2>3 DEF in
<1> QED BY <1>2 DEF Sig!Accounted

(* A signal that is sent waits.                                                 *)
LEMMA SendSignalKeeps ==
  ASSUME Sig!SignalsInv, NEW s \in Sig!Signals, Sig!Send(s)
  PROVE  Sig!SignalsInv'
<1> USE DEF Sig!SignalsInv
<1>1. /\ s \in Sig!Sendable /\ Sig!Running
      /\ UNCHANGED <<r1, r2, r3, r4, r7, r8, r9, r10, r11, r12>>
      /\ Sig!Raise(s) /\ r6' = [r6 EXCEPT ![s] = @ + 1]
  BY DEF Sig!Send
<1>2. /\ r5' \in [Sig!Signals -> Nat] /\ r6' \in [Sig!Signals -> Nat]
      /\ r5'[s] > 0 /\ r5'[s] <= r5[s] + 1 /\ r6'[s] = r6[s] + 1
      /\ s = "RT40" => r5'[s] = r5[s] + 1
      /\ \A t \in Sig!Signals : t # s => r5'[t] = r5[t] /\ r6'[t] = r6[t]
  BY <1>1, RaiseDoes
<1>3. s \in Sig!Own /\ s \in {"INT", "RT40"} /\ r1 \in {"save", "catch", "block"}
  BY <1>1 DEF Sig!Sendable, Sig!Own
<1>4. Sig!SignalTypes'
  BY <1>1, <1>2 DEF Sig!SignalTypes, Sig!TypeOK
<1>5. Sig!OwnOnly'
  BY <1>1, <1>2, <1>3 DEF Sig!OwnOnly, Sig!Own
<1>6. Sig!Accounted'
  BY <1>1, RaiseAccounts
<1>7. Sig!Remembered'
  BY <1>1, <1>2 DEF Sig!Remembered, Sig!Running
<1>8. Sig!ChildCounted'
  BY <1>1, <1>2, <1>3 DEF Sig!ChildCounted, Sig!Signals
<1>9. Sig!Masked'
  <2>1. r1 = "block" => r5'["RT40"] = r6'["RT40"]
    BY <1>1, <1>2, <1>3 DEF Sig!Masked, Sig!Signals
  <2> QED BY <1>1, <2>1 DEF Sig!Masked, Sig!block
<1>10. Sig!Started'
  BY <1>1, <1>3 DEF Sig!Started, Sig!block
<1>11. Sig!RanInOrder'
  BY <1>1 DEF Sig!RanInOrder, Sig!funcs
<1> QED BY <1>4, <1>5, <1>6, <1>7, <1>8, <1>9, <1>10, <1>11

(* ... until it is delivered to its handler, or ends the process.                *)
LEMMA DeliverKeeps ==
  ASSUME Sig!SignalsInv, NEW s \in Sig!Signals, Sig!Deliver(s)
  PROVE  Sig!SignalsInv'
<1> USE DEF Sig!SignalsInv
<1>1. /\ Sig!Running /\ r5[s] > 0 /\ s \notin r4 /\ r3 = Sig!None
      /\ r5' = [r5 EXCEPT ![s] = r5[s] - 1]
      /\ \/ s \in Sig!Handled /\ r2 # "setup" /\ r3' = s /\ r2' = r2
         \/ ~(s \in Sig!Handled /\ r2 # "setup") /\ r2' = "killed" /\ r3' = r3
      /\ r11' = IF s = "ALRM" THEN <<>> ELSE r11
      /\ UNCHANGED <<r1, r4, r6, r7, r8, r9, r10, r12>>
  BY DEF Sig!Deliver
<1>2. /\ r5' \in [Sig!Signals -> Nat] /\ r5'[s] = r5[s] - 1 /\ r5[s] \in Nat
      /\ \A t \in Sig!Signals : t # s => r5'[t] = r5[t]
      /\ Sig!None \notin Sig!Signals
  BY <1>1, SigTypes, SMTT(30) DEF Sig!Signals, Sig!None
<1>3. s \in Sig!Own
  BY <1>1 DEF Sig!OwnOnly
<1>4. r2' = "killed" => r1 \in {"catch", "save", "block"}
  BY <1>1, <1>3, SigTypes DEF Sig!Own, Sig!Handled, Sig!Started
<1>5. Sig!SignalTypes'
  BY <1>1, <1>2, SigTypes DEF Sig!SignalTypes, Sig!TypeOK
<1>6. Sig!OwnOnly'
  <2>1. Sig!Own' = Sig!Own
    BY <1>1 DEF Sig!Own
  <2> QED BY <1>1, <1>2, <1>3, <2>1 DEF Sig!OwnOnly
<1>7. Sig!Accounted'
  <2>1. ASSUME NEW t \in Sig!Signals \ {"CHLD"}
        PROVE  r7'[t] + r5'[t] + (IF r3' = t THEN 1 ELSE 0) <= r6'[t]
    <3>1. r7[t] + r5[t] + 0 <= r6[t] /\ r7[t] \in Nat /\ r5[t] \in Nat /\ r6[t] \in Nat
      BY <1>1, <1>2, <2>1, SigTypes DEF Sig!Accounted
    <3>2. CASE t = s
      BY <1>1, <1>2, <3>1, <3>2
    <3>3. CASE t # s
      BY <1>1, <1>2, <3>1, <3>3
    <3> QED BY <3>2, <3>3
  <2> QED BY <2>1 DEF Sig!Accounted
<1>8. Sig!Remembered'
  BY <1>1, <1>2 DEF Sig!Remembered, Sig!Running
<1>9. Sig!ChildCounted'
  <2>1. s = "CHLD" => r12 \in {"zombie", "reaped"}
    BY <1>1 DEF Sig!ChildCounted
  <2>2. r12 # "reaped"
    BY <1>1, <1>2 DEF Sig!ChildCounted, Sig!Signals
  <2>3. r5'["CHLD"] > 0 => r5["CHLD"] > 0
    BY <1>2 DEF Sig!Signals
  <2>4. r3' = "CHLD" => s = "CHLD"
    BY <1>1, <1>2 DEF Sig!Signals
  <2> QED BY <1>1, <2>1, <2>2, <2>3, <2>4 DEF Sig!ChildCounted
<1>10. Sig!Masked'
  <2>1. r1 = "block" => r2' = "killed"
    BY <1>1 DEF Sig!Handled
  <2>2. r4 # {} => s \notin Sig!Handled
    BY <1>1, <1>3 DEF Sig!Masked, Sig!block, Sig!Handled, Sig!Own
  <2>3. r4 # {} => r1 # "save"
    BY <1>1, <1>3 DEF Sig!Masked, Sig!block, Sig!Own
  <2>4. r4 # {} => r1 # "block"
    BY <1>1, <1>3 DEF Sig!Masked, Sig!block, Sig!Own
  <2>5. r4 = {}
    BY <2>3, <2>4 DEF Sig!Masked, Sig!block
  <2> QED BY <1>1, <2>1, <2>5 DEF Sig!Masked, Sig!Running, Sig!block
<1>11. Sig!Started'
  <2>1. r1 \in {"alarm", "child"} => r2' = r2 /\ r2 = "loop" /\ r3' = s
    BY <1>1, <1>4 DEF Sig!Started, Sig!block
  <2>2. r1 = "alarm" => s = "ALRM"
    BY <1>3 DEF Sig!Own
  <2> QED BY <1>1, <1>4, <2>1, <2>2 DEF Sig!Started, Sig!block
<1>12. Sig!RanInOrder'
  <2>1. r3' = "ALRM" => r11' = <<>>
    BY <1>1, <1>2 DEF Sig!Signals
  <2>2. Len(<<>>) <= Len(Sig!funcs) /\ DOMAIN <<>> = {}
    BY DEF Sig!funcs
  <2>3. Sig!funcs' = Sig!funcs
    BY DEF Sig!funcs
  <2> QED BY <2>1, <2>2, <2>3 DEF Sig!RanInOrder
<1> QED BY <1>5, <1>6, <1>7, <1>8, <1>9, <1>10, <1>11, <1>12

(* The alarm's time, and the child's end.                                       *)
LEMMA RingKeeps ==
  ASSUME Sig!SignalsInv, Sig!Ring
  PROVE  Sig!SignalsInv'
<1> USE DEF Sig!SignalsInv
<1> DEFINE s == "ALRM"
<1>1. /\ Sig!Running /\ r10 /\ s \in Sig!Signals
      /\ UNCHANGED <<r1, r2, r3, r4, r7, r8, r9, r11, r12>>
      /\ Sig!Raise(s) /\ r6' = [r6 EXCEPT ![s] = @ + 1]
  BY DEF Sig!Ring, Sig!Signals
<1>2. r10' = FALSE
  BY Zenon DEF Sig!Ring
<1>3. /\ r5' \in [Sig!Signals -> Nat] /\ r6' \in [Sig!Signals -> Nat]
      /\ r5'[s] > 0 /\ r5'[s] <= r5[s] + 1 /\ r6'[s] = r6[s] + 1
      /\ \A t \in Sig!Signals : t # s => r5'[t] = r5[t] /\ r6'[t] = r6[t]
  BY <1>1, RaiseDoes
<1>4. r1 = "alarm" /\ s \in Sig!Own /\ r2 = "loop"
  BY <1>1 DEF Sig!Started, Sig!Own
<1>5. Sig!SignalTypes'
  BY <1>1, <1>2, <1>3 DEF Sig!SignalTypes, Sig!TypeOK
<1>6. Sig!OwnOnly'
  BY <1>1, <1>3, <1>4 DEF Sig!OwnOnly, Sig!Own
<1>7. Sig!Accounted'
  BY <1>1, RaiseAccounts
<1>8. Sig!Remembered'
  BY <1>1, <1>3 DEF Sig!Remembered, Sig!Running
<1>9. Sig!ChildCounted'
  BY <1>1, <1>3, <1>4 DEF Sig!ChildCounted, Sig!Signals
<1>10. Sig!Masked'
  BY <1>1, <1>4 DEF Sig!Masked, Sig!block
<1>11. Sig!Started'
  BY <1>1, <1>2, <1>3, <1>4 DEF Sig!Started, Sig!block
<1>12. Sig!RanInOrder'
  BY <1>1 DEF Sig!RanInOrder, Sig!funcs
<1> QED BY <1>5, <1>6, <1>7, <1>8, <1>9, <1>10, <1>11, <1>12

LEMMA ChildEndsKeeps ==
  ASSUME Sig!SignalsInv, Sig!ChildEnds
  PROVE  Sig!SignalsInv'
<1> USE DEF Sig!SignalsInv
<1> DEFINE s == "CHLD"
<1>1. /\ Sig!Running /\ r12 = "alive" /\ r12' = "zombie" /\ s \in Sig!Signals
      /\ UNCHANGED <<r1, r2, r3, r4, r7, r8, r9, r10, r11>>
      /\ Sig!Raise(s) /\ r6' = [r6 EXCEPT ![s] = @ + 1]
  BY DEF Sig!ChildEnds, Sig!Signals
<1>2. /\ r5' \in [Sig!Signals -> Nat] /\ r6' \in [Sig!Signals -> Nat]
      /\ r5'[s] > 0 /\ r5'[s] <= r5[s] + 1 /\ r6'[s] = r6[s] + 1
      /\ \A t \in Sig!Signals : t # s => r5'[t] = r5[t] /\ r6'[t] = r6[t]
  BY <1>1, RaiseDoes
<1>3. r1 = "child" /\ s \in Sig!Own /\ r2 = "loop"
  BY <1>1 DEF Sig!ChildCounted, Sig!Started, Sig!Own
<1>4. Sig!SignalTypes'
  BY <1>1, <1>2 DEF Sig!SignalTypes, Sig!TypeOK
<1>5. Sig!OwnOnly'
  BY <1>1, <1>2, <1>3 DEF Sig!OwnOnly, Sig!Own
<1>6. Sig!Accounted'
  BY <1>1, RaiseAccounts
<1>7. Sig!Remembered'
  BY <1>1, <1>2 DEF Sig!Remembered, Sig!Running
<1>8. Sig!ChildCounted'
  BY <1>1, <1>2, <1>3 DEF Sig!ChildCounted, Sig!Signals
<1>9. Sig!Masked'
  BY <1>1, <1>3 DEF Sig!Masked, Sig!block
<1>10. Sig!Started'
  BY <1>1, <1>3 DEF Sig!Started, Sig!block
<1>11. Sig!RanInOrder'
  BY <1>1 DEF Sig!RanInOrder, Sig!funcs
<1> QED BY <1>4, <1>5, <1>6, <1>7, <1>8, <1>9, <1>10, <1>11

(* Steps of main and of handlers in which no signal comes or goes.                *)
LEMMA SignalsStay ==
  ASSUME Sig!SignalsInv, UNCHANGED <<r1, r3, r5, r6, r7>>, r2 # "killed", r2' # "killed"
  PROVE  Sig!OwnOnly' /\ Sig!Accounted' /\ Sig!Remembered'
BY DEF Sig!SignalsInv, Sig!OwnOnly, Sig!Own, Sig!Accounted, Sig!Remembered, Sig!Running

LEMMA MainSignalKeeps ==
  ASSUME Sig!SignalsInv, Sig!Setup \/ Sig!Block \/ Sig!Arm \/ Sig!Printpending
  PROVE  Sig!SignalsInv'
<1> USE DEF Sig!SignalsInv
<1>1. CASE Sig!Setup
  <2>1. /\ r2 = "setup" /\ r2' = IF Sig!block = {} THEN "arm" ELSE "mask"
        /\ UNCHANGED <<r1, r3, r4, r5, r6, r7, r8, r9, r10, r11, r12>>
    BY <1>1 DEF Sig!Setup
  <2>2. Sig!OwnOnly' /\ Sig!Accounted' /\ Sig!Remembered'
    BY <2>1, SignalsStay
  <2>3. Sig!SignalTypes' /\ Sig!ChildCounted' /\ Sig!RanInOrder'
    BY <2>1 DEF Sig!SignalTypes, Sig!TypeOK, Sig!ChildCounted, Sig!RanInOrder, Sig!funcs
  <2>4. Sig!Masked'
    BY <2>1 DEF Sig!Masked, Sig!block, Sig!Running
  <2>5. Sig!Started'
    BY <2>1 DEF Sig!Started, Sig!block
  <2> QED BY <2>2, <2>3, <2>4, <2>5
<1>2. CASE Sig!Block
  <2>1. /\ r2 = "mask" /\ r2' = "loop" /\ r3 = Sig!None /\ r4' = Sig!block
        /\ UNCHANGED <<r1, r3, r5, r6, r7, r8, r9, r10, r11, r12>>
    BY <1>2 DEF Sig!Block
  <2>2. Sig!OwnOnly' /\ Sig!Accounted' /\ Sig!Remembered'
    BY <2>1, SignalsStay
  <2>3. Sig!block \subseteq Sig!Signals
    BY DEF Sig!block, Sig!Signals
  <2>4. Sig!SignalTypes' /\ Sig!ChildCounted' /\ Sig!RanInOrder'
    BY <2>1, <2>3 DEF Sig!SignalTypes, Sig!TypeOK, Sig!ChildCounted, Sig!RanInOrder, Sig!funcs
  <2>5. Sig!Masked'
    BY <2>1 DEF Sig!Masked, Sig!block, Sig!Running
  <2>6. Sig!Started'
    BY <2>1, SigTypes DEF Sig!Started, Sig!block
  <2> QED BY <2>2, <2>4, <2>5, <2>6
<1>3. CASE Sig!Arm
  <2>1. /\ r2 = "arm" /\ r2' = "loop" /\ r3 = Sig!None
        /\ r12' = IF r1 = "child" THEN "alive" ELSE "none"
        /\ UNCHANGED <<r1, r3, r4, r5, r6, r7, r8, r9, r11>>
    BY <1>3 DEF Sig!Arm
  <2>2. \/ r1 = "alarm" /\ r10' = TRUE
        \/ r1 # "alarm" /\ r10' = FALSE
    BY <1>3, Zenon DEF Sig!Arm
  <2>3. Sig!OwnOnly' /\ Sig!Accounted' /\ Sig!Remembered'
    BY <2>1, SignalsStay
  <2>4. Sig!SignalTypes' /\ Sig!RanInOrder'
    BY <2>1, <2>2 DEF Sig!SignalTypes, Sig!TypeOK, Sig!RanInOrder, Sig!funcs
  <2>5. Sig!ChildCounted'
    <3>1. r12 = "none"
      BY <2>1, SigTypes DEF Sig!ChildCounted, Sig!Started
    <3> QED BY <2>1, <3>1 DEF Sig!ChildCounted
  <2>6. Sig!Masked'
    BY <2>1 DEF Sig!Masked, Sig!block, Sig!Running
  <2>7. Sig!Started'
    BY <2>1, <2>2 DEF Sig!Started, Sig!block
  <2> QED BY <2>3, <2>4, <2>5, <2>6, <2>7
<1>4. CASE Sig!Printpending
  <2>1. /\ r2 = "loop" /\ r1 = "save" /\ r4' \in {{}, r4}
        /\ UNCHANGED <<r1, r2, r3, r5, r6, r7, r10, r11, r12>>
    BY <1>4 DEF Sig!Printpending
  <2>2. Sig!OwnOnly' /\ Sig!Accounted' /\ Sig!Remembered'
    BY <2>1, SignalsStay
  <2>3. Sig!SignalTypes' /\ Sig!ChildCounted' /\ Sig!RanInOrder'
    BY <2>1 DEF Sig!SignalTypes, Sig!TypeOK, Sig!ChildCounted, Sig!RanInOrder, Sig!funcs
  <2>4. Sig!Masked'
    BY <2>1 DEF Sig!Masked, Sig!block, Sig!Running
  <2>5. Sig!Started'
    BY <2>1 DEF Sig!Started, Sig!block
  <2> QED BY <2>2, <2>3, <2>4, <2>5
<1> QED BY <1>1, <1>2, <1>3, <1>4

(* A handler that is through has handled its signal.                             *)
LEMMA HandledAccounts ==
  ASSUME Sig!SignalsInv, NEW s \in {"INT", "ALRM"}, r3 = s, r3' = Sig!None,
         r7' = [r7 EXCEPT ![s] = @ + 1], UNCHANGED <<r1, r2, r5, r6>>
  PROVE  /\ r7' \in [Sig!Signals -> Nat] /\ r7'["CHLD"] = r7["CHLD"]
         /\ Sig!OwnOnly' /\ Sig!Accounted' /\ Sig!Remembered'
<1> USE DEF Sig!SignalsInv
<1>1. /\ s \in Sig!Signals /\ s # "CHLD" /\ Sig!None \notin Sig!Signals
      /\ "CHLD" \in Sig!Signals
  BY DEF Sig!Signals, Sig!None
<1>2. /\ r7' \in [Sig!Signals -> Nat] /\ r7'[s] = r7[s] + 1
      /\ \A t \in Sig!Signals : t # s => r7'[t] = r7[t]
  BY <1>1, SigTypes
<1>3. Sig!OwnOnly'
  BY <1>1 DEF Sig!OwnOnly, Sig!Own
<1>4. ASSUME NEW t \in Sig!Signals \ {"CHLD"}
      PROVE  r7'[t] + r5[t] + (IF r3' = t THEN 1 ELSE 0) <= r6[t]
  <2>1. r7[t] \in Nat /\ r5[t] \in Nat /\ r6[t] \in Nat /\ r3' # t
    BY <1>1, SigTypes
  <2>2. CASE t = s
    <3>1. r7[t] + r5[t] + 1 <= r6[t]
      BY <1>1, <2>2 DEF Sig!Accounted
    <3> QED BY <1>2, <2>1, <2>2, <3>1
  <2>3. CASE t # s
    <3>1. r7[t] + r5[t] + 0 <= r6[t]
      BY <1>1, <2>3 DEF Sig!Accounted
    <3> QED BY <1>2, <2>1, <2>3, <3>1
  <2> QED BY <2>2, <2>3
<1>5. Sig!Remembered'
  BY <1>1, <1>2, SigTypes DEF Sig!Remembered, Sig!Running
<1> QED BY <1>1, <1>2, <1>3, <1>4, <1>5 DEF Sig!Accounted

LEMMA HandlerKeeps ==
  ASSUME Sig!SignalsInv, Sig!handler \/ Sig!Rearm
  PROVE  Sig!SignalsInv'
<1> USE DEF Sig!SignalsInv
<1>1. CASE Sig!handler
  <2>1. /\ r3 = "INT" /\ r3' = Sig!None /\ r7' = [r7 EXCEPT !["INT"] = @ + 1]
        /\ UNCHANGED <<r1, r2, r4, r5, r6, r10, r11, r12>>
    BY <1>1 DEF Sig!handler
  <2>2. /\ r7' \in [Sig!Signals -> Nat] /\ r7'["CHLD"] = r7["CHLD"]
        /\ Sig!OwnOnly' /\ Sig!Accounted' /\ Sig!Remembered'
    BY <2>1, HandledAccounts
  <2>3. Sig!SignalTypes' /\ Sig!ChildCounted' /\ Sig!RanInOrder'
    BY <2>1, <2>2 DEF Sig!SignalTypes, Sig!TypeOK, Sig!ChildCounted, Sig!RanInOrder, Sig!funcs,
                      Sig!None
  <2>4. Sig!Masked' /\ Sig!Started'
    BY <2>1 DEF Sig!Masked, Sig!block, Sig!Running, Sig!Started
  <2> QED BY <2>2, <2>3, <2>4
<1>2. CASE Sig!Rearm
  <2>1. /\ r3 = "ALRM" /\ r3' = Sig!None /\ r7' = [r7 EXCEPT !["ALRM"] = @ + 1]
        /\ UNCHANGED <<r1, r2, r4, r5, r6, r11, r12>>
    BY <1>2 DEF Sig!Rearm
  <2>2. r10' = TRUE
    BY <1>2, Zenon DEF Sig!Rearm
  <2>3. /\ r7' \in [Sig!Signals -> Nat] /\ r7'["CHLD"] = r7["CHLD"]
        /\ Sig!OwnOnly' /\ Sig!Accounted' /\ Sig!Remembered'
    BY <2>1, HandledAccounts
  <2>4. Sig!SignalTypes' /\ Sig!ChildCounted' /\ Sig!RanInOrder'
    BY <2>1, <2>2, <2>3 DEF Sig!SignalTypes, Sig!TypeOK, Sig!ChildCounted, Sig!RanInOrder,
                            Sig!funcs, Sig!None
  <2>5. Sig!Masked'
    BY <2>1 DEF Sig!Masked, Sig!block, Sig!Running
  <2>6. r1 = "alarm"
    BY <2>1, SigTypes DEF Sig!OwnOnly, Sig!Own, Sig!Signals
  <2>7. Sig!Started'
    BY <2>1, <2>2, <2>6 DEF Sig!Started, Sig!None, Sig!block
  <2> QED BY <2>3, <2>4, <2>5, <2>7
<1> QED BY <1>1, <1>2

(* The functions of the alarm, one after the other.                             *)
LEMMA CallFuncKeeps ==
  ASSUME Sig!SignalsInv, Sig!CallFunc
  PROVE  Sig!SignalsInv'
<1> USE DEF Sig!SignalsInv
<1>1. /\ r3 = "ALRM" /\ Len(r11) < Len(Sig!funcs)
      /\ r11' = Append(r11, Sig!funcs[Len(r11) + 1])
      /\ UNCHANGED <<r1, r2, r3, r4, r5, r6, r7, r10, r12>>
  BY DEF Sig!CallFunc
<1>2. Len(Sig!funcs) = 3 /\ Sig!funcs' = Sig!funcs
      /\ \A i \in 1..3 : Sig!funcs[i] \in {"sche", "MemManager", "Fflush"}
  BY DEF Sig!funcs
<1>3. Len(r11) + 1 \in 1..3
  BY <1>1, <1>2, SigTypes
<1>4. /\ r11' \in Seq({"sche", "MemManager", "Fflush"}) /\ Len(r11') = Len(r11) + 1
      /\ DOMAIN r11' = 1..(Len(r11) + 1)
      /\ \A i \in 1..Len(r11) : r11'[i] = r11[i]
      /\ r11'[Len(r11) + 1] = Sig!funcs[Len(r11) + 1]
  BY <1>1, <1>2, <1>3, SigTypes, AppendProperties, LenProperties
<1>5. Sig!OwnOnly' /\ Sig!Accounted' /\ Sig!Remembered'
  BY <1>1 DEF Sig!OwnOnly, Sig!Own, Sig!Accounted, Sig!Remembered, Sig!Running
<1>6. Sig!SignalTypes' /\ Sig!ChildCounted'
  BY <1>1, <1>4 DEF Sig!SignalTypes, Sig!TypeOK, Sig!ChildCounted
<1>7. Sig!Masked' /\ Sig!Started'
  BY <1>1 DEF Sig!Masked, Sig!block, Sig!Running, Sig!Started
<1>8. Sig!RanInOrder'
  <2>1. \A i \in DOMAIN r11' : i \in 1..Len(r11) \/ i = Len(r11) + 1
    BY <1>4, SigTypes
  <2>2. \A i \in 1..Len(r11) : r11[i] = Sig!funcs[i]
    BY <1>1, SigTypes DEF Sig!RanInOrder
  <2>3. \A i \in DOMAIN r11' : r11'[i] = Sig!funcs[i]
    BY <1>4, <2>1, <2>2, Zenon
  <2>4. Len(r11') <= Len(Sig!funcs)
    BY <1>2, <1>3, <1>4
  <2> QED BY <1>2, <2>3, <2>4 DEF Sig!RanInOrder
<1> QED BY <1>5, <1>6, <1>7, <1>8

(* The one child is reaped, and waitpid fails from then on.                      *)
LEMMA WaitAllKeeps ==
  ASSUME Sig!SignalsInv, Sig!WaitAll
  PROVE  Sig!SignalsInv'
<1> USE DEF Sig!SignalsInv
<1>1. /\ r3 = "CHLD" /\ r12 = "zombie" /\ r12' = "reaped" /\ r7' = [r7 EXCEPT !["CHLD"] = @ + 1]
      /\ UNCHANGED <<r1, r2, r3, r4, r5, r6, r10, r11>>
  BY DEF Sig!WaitAll, Sig!ChildCounted
<1>2. /\ r7' \in [Sig!Signals -> Nat] /\ r7'["CHLD"] = r7["CHLD"] + 1
      /\ \A t \in Sig!Signals : t # "CHLD" => r7'[t] = r7[t]
  BY <1>1, SigTypes DEF Sig!Signals
<1>3. Sig!OwnOnly'
  BY <1>1 DEF Sig!OwnOnly, Sig!Own
<1>4. Sig!Accounted'
  BY <1>1, <1>2 DEF Sig!Accounted
<1>5. Sig!Remembered'
  BY <1>1, <1>2 DEF Sig!Remembered, Sig!Running
<1>6. Sig!SignalTypes' /\ Sig!RanInOrder'
  BY <1>1, <1>2 DEF Sig!SignalTypes, Sig!TypeOK, Sig!RanInOrder, Sig!funcs
<1>7. Sig!ChildCounted'
  BY <1>1, <1>2 DEF Sig!ChildCounted
<1>8. Sig!Masked' /\ Sig!Started'
  BY <1>1 DEF Sig!Masked, Sig!block, Sig!Running, Sig!Started
<1> QED BY <1>3, <1>4, <1>5, <1>6, <1>7, <1>8

LEMMA SigStep ==
  ASSUME Sig!SignalsInv, Sig!Next
  PROVE  Sig!SignalsInv'
BY SendSignalKeeps, DeliverKeeps, RingKeeps, ChildEndsKeeps, MainSignalKeeps, HandlerKeeps,
   CallFuncKeeps, WaitAllKeeps DEF Sig!Next

-----------------------------------------------------------------------------
(* Processes: r1 kind, r2 fpc, r3 cpc, r4 ran, r5 stream, r6 written, r7 printed,
   r8 dropped, r9 flag, r10 seg. *)

(* What is in hand of the four programs of processes.                           *)
LEMMA KidsTypes ==
  ASSUME Kids!ChildTypes
  PROVE  /\ r2 \in {"start", "loop", "print", "done", "crashed"}
         /\ r3 \in {"none", "running", "zombie", "reaped", "write", "done", "crashed"}
         /\ r4 \in 0..Registered /\ Len(r5) <= r6 /\ Len(r5) \in Nat
         /\ r6 \in Nat /\ r9 \in BOOLEAN
         /\ r5 \in Seq(Nat) /\ r7 \in Seq(Nat) /\ r8 \in Seq(Nat)
         /\ Registered \in Nat /\ 1 <= Registered /\ Registered < NUM /\ NUM \in Nat
BY ProgramsAssumption DEF Kids!ChildTypes, Kids!TypeOK

LEMMA KidsCardinality == \A S : Kids!Cardinality(S) = Cardinality(S)
BY DEF Kids!Cardinality, Cardinality

LEMMA KidsInit ==
  ASSUME Kids!Init
  PROVE  Kids!ChildrenInv
<1>1. /\ r1 \in {"proc", "pipe", "nonblock", "shm"} /\ r2 = "start" /\ r3 = "none" /\ r4 = 0
      /\ r5 = <<>> /\ r6 = 0 /\ r7 = <<>> /\ r8 = <<>> /\ r10 = "none"
  BY DEF Kids!Init
<1>2. r9 = FALSE
  BY Zenon DEF Kids!Init
<1>3. Kids!ChildTypes
  <2>1. Registered \in Nat /\ 0 \in 0..Registered /\ Len(<<>>) <= 0
        /\ <<>> \in Seq(Nat) /\ 0 \in Nat
    BY ProgramsAssumption
  <2> QED BY <1>1, <1>2, <2>1 DEF Kids!ChildTypes, Kids!TypeOK
<1>4. Kids!ProcInv
  BY <1>1 DEF Kids!ProcInv
<1>5. Kids!ReaderInv
  BY <1>1 DEF Kids!ReaderInv
<1>6. Kids!TerminalInv
  BY <1>1 DEF Kids!TerminalInv
<1>7. Kids!TextsInv
  <2>1. Kids!TextsShown = {}
    BY <1>1 DEF Kids!TextsShown
  <2>2. Kids!Cardinality(Kids!TextsShown) = 0
    BY <2>1, KidsCardinality, FS_EmptySet, Zenon
  <2> QED BY <1>1, <1>2, <2>2 DEF Kids!TextsInv
<1> QED BY <1>3, <1>4, <1>5, <1>6, <1>7 DEF Kids!ChildrenInv

(* How often ProcessB printed a text.                                            *)
LEMMA TextsCount ==
  ASSUME Kids!ChildTypes
  PROVE  Kids!Cardinality(Kids!TextsShown) \in Nat
<1>1. Len(r7) \in Nat /\ DOMAIN r7 = 1..Len(r7)
  BY KidsTypes, LenProperties
<1>2. IsFiniteSet(1..Len(r7)) /\ Kids!TextsShown \subseteq 1..Len(r7)
  BY <1>1, FS_Interval DEF Kids!TextsShown
<1>3. IsFiniteSet(Kids!TextsShown)
  BY <1>2, FS_Subset
<1> QED BY <1>3, KidsCardinality, FS_CardinalityType

(* What the run checks.                                                         *)
LEMMA KidsSay == Kids!ChildrenInv => Kids!TypeOK /\ Kids!ChildrenSeen
<1> SUFFICES ASSUME Kids!ChildrenInv PROVE Kids!TypeOK /\ Kids!ChildrenSeen
  OBVIOUS
<1> USE DEF Kids!ChildrenInv
<1>1. Kids!TypeOK
  BY DEF Kids!ChildTypes
<1>2. /\ r1 = "proc" /\ r2 = "done" => r3 \in {"reaped", "none"} /\ r4 = 0
      /\ r1 = "proc" => r2 # "crashed"
  BY DEF Kids!ProcInv
<1>3. r1 = "pipe" => r7 \o r5 = [i \in 1..r6 |-> i] /\ r3 # "reaped"
  BY DEF Kids!ReaderInv
<1>4. /\ r1 = "nonblock" /\ (\E i \in DOMAIN r8 : r8[i] # Kids!Newline) => r6 >= ReadSize
      /\ r1 = "nonblock" => Len(r7) + Len(r8) + Len(r5) = r6
  BY DEF Kids!TerminalInv
<1>5. r1 = "shm" => /\ Kids!Cardinality(Kids!TextsShown) <= r6
                    /\ r3 = "crashed" => r6 > 1 \/ r2 # "start"
  <2> SUFFICES ASSUME r1 = "shm"
               PROVE  /\ Kids!Cardinality(Kids!TextsShown) <= r6
                      /\ r3 = "crashed" => r6 > 1 \/ r2 # "start"
    OBVIOUS
  <2>1. Kids!Cardinality(Kids!TextsShown) \in Nat
    BY TextsCount
  <2> QED BY <2>1, KidsTypes DEF Kids!TextsInv
<1> QED BY <1>1, <1>2, <1>3, <1>4, <1>5 DEF Kids!ChildrenSeen

-----------------------------------------------------------------------------
(* proc and pipe. *)

LEMMA ProcKeeps ==
  ASSUME Kids!ChildrenInv,
         (\E b \in BOOLEAN : Kids!Fork(b)) \/ Kids!ChildKilled \/ Kids!Poll \/ Kids!RunHandler
  PROVE  Kids!ChildrenInv'
<1> USE DEF Kids!ChildrenInv
<1>1. UNCHANGED <<r1, r5, r6, r7, r8, r9, r10>> /\ r1 \in {"proc", "pipe"}
  BY DEF Kids!Fork, Kids!ChildKilled, Kids!Poll, Kids!RunHandler
<1>2. \/ r2 = "start" /\ r3' \in {"none", "running"} /\ r4' = r4 /\ r2' = "loop"
      \/ r3 = "running" /\ r3' = "zombie" /\ r2' = r2 /\ r4' = r4
      \/ r1 = "proc" /\ r2 = "loop" /\ r3 = "running" /\ r4' = 1 /\ r3' = r3 /\ r2' = r2
      \/ /\ r1 = "proc" /\ r2 = "loop" /\ r3 # "running" /\ r4 = 0 /\ r4' = r4 /\ r2' = "done"
         /\ r3' = IF r3 = "zombie" THEN "reaped" ELSE r3
      \/ /\ r1 = "proc" /\ r2 = "loop" /\ r4 > 0 /\ UNCHANGED <<r2, r3>>
         /\ r4' = IF r4 = Registered THEN 0 ELSE r4 + 1
  <2>1. Kids!registerHandlers = "loop"
    BY KidsTypes DEF Kids!registerHandlers
  <2>2. ASSUME NEW b \in BOOLEAN, Kids!Fork(b)
        PROVE  r2 = "start" /\ r3' \in {"none", "running"} /\ r4' = r4 /\ r2' = "loop"
    BY <2>1, <2>2 DEF Kids!Fork
  <2>3. CASE Kids!ChildKilled
    BY <2>3 DEF Kids!ChildKilled
  <2>4. CASE Kids!Poll
    BY <2>4 DEF Kids!Poll
  <2>5. CASE Kids!RunHandler
    BY <2>5 DEF Kids!RunHandler
  <2> QED BY <2>2, <2>3, <2>4, <2>5
<1>3. Kids!ChildTypes'
  BY <1>1, <1>2, KidsTypes DEF Kids!ChildTypes, Kids!TypeOK
<1>4. r1 = "proc" => Kids!ProcInv'
  BY <1>1, <1>2 DEF Kids!ProcInv
<1>5. r1 = "pipe" => Kids!ReaderInv'
  BY <1>1, <1>2 DEF Kids!ReaderInv
<1> QED BY <1>1, <1>3, <1>4, <1>5

(* What the father reads.                                                       *)
LEMMA CharsRead ==
  ASSUME r7 \in Seq(Nat), r5 \in Seq(Nat), NEW n \in 1..Len(r5),
         r7' = r7 \o SubSeq(r5, 1, n), r5' = SubSeq(r5, n + 1, Len(r5))
  PROVE  r7' \in Seq(Nat) /\ r5' \in Seq(Nat) /\ Len(r5') <= Len(r5) /\ r7' \o r5' = r7 \o r5
<1>1. /\ r7 \o SubSeq(r5, 1, n) \in Seq(Nat) /\ SubSeq(r5, n + 1, Len(r5)) \in Seq(Nat)
      /\ Len(SubSeq(r5, n + 1, Len(r5))) <= Len(r5)
      /\ (r7 \o SubSeq(r5, 1, n)) \o SubSeq(r5, n + 1, Len(r5)) = r7 \o r5
  BY ReadMoves, ZenonT(40)
<1> QED BY <1>1

LEMMA ReaderMoves ==
  ASSUME Kids!ChildrenInv,
         Kids!ChildWrite \/ \E n \in 1..ReadSize : Kids!FatherRead(n)
  PROVE  Kids!ChildrenInv'
<1> USE DEF Kids!ChildrenInv
<1>1. r1 = "pipe" /\ UNCHANGED <<r1, r2, r3, r4, r8, r9, r10>>
  BY DEF Kids!ChildWrite, Kids!FatherRead
<1>2. r7 \o r5 = [i \in 1..r6 |-> i] /\ r3 # "reaped"
  BY <1>1 DEF Kids!ReaderInv
<1>3. CASE Kids!ChildWrite
  <2>1. r5' = Append(r5, r6 + 1) /\ r6' = r6 + 1 /\ r7' = r7
    BY <1>3 DEF Kids!ChildWrite
  <2>2. r5' \in Seq(Nat) /\ Len(r5') = Len(r5) + 1 /\ r6' \in Nat
    BY <2>1, KidsTypes, AppendProperties
  <2>3. Kids!ChildTypes'
    BY <1>1, <2>1, <2>2, KidsTypes DEF Kids!ChildTypes, Kids!TypeOK
  <2>4. r7 \o Append(r5, r6 + 1) = Append(r7 \o r5, r6 + 1)
    BY KidsTypes
  <2>5. Append([i \in 1..r6 |-> i], r6 + 1) = [i \in 1..(r6 + 1) |-> i]
    BY KidsTypes
  <2>6. Kids!ReaderInv'
    BY <1>1, <1>2, <2>1, <2>4, <2>5 DEF Kids!ReaderInv
  <2> QED BY <1>1, <2>3, <2>6
<1>4. ASSUME NEW n \in 1..ReadSize, Kids!FatherRead(n)
      PROVE  Kids!ChildrenInv'
  <2>1. /\ n \in 1..Len(r5) /\ r6' = r6
        /\ r7' = r7 \o SubSeq(r5, 1, n) /\ r5' = SubSeq(r5, n + 1, Len(r5))
    BY <1>4, KidsTypes, ProgramsAssumption DEF Kids!FatherRead, Kids!Taken, Kids!Left
  <2>2. r7' \in Seq(Nat) /\ r5' \in Seq(Nat) /\ Len(r5') <= Len(r5) /\ r7' \o r5' = r7 \o r5
    <3>1. r7 \in Seq(Nat) /\ r5 \in Seq(Nat)
      BY KidsTypes
    <3> QED BY <2>1, <3>1, CharsRead
  <2>3. Len(r5') \in Nat
    BY <2>2, LenProperties
  <2>4. Kids!ChildTypes'
    <3>1. Len(r5') <= r6'
      BY <2>1, <2>2, <2>3, KidsTypes
    <3> QED BY <1>1, <2>1, <2>2, <3>1, Zenon DEF Kids!ChildTypes, Kids!TypeOK
  <2>5. Kids!ReaderInv'
    BY <1>1, <1>2, <2>1, <2>2 DEF Kids!ReaderInv
  <2> QED BY <1>1, <2>4, <2>5
<1> QED BY <1>3, <1>4

-----------------------------------------------------------------------------
(* The terminal. *)

LEMMA TerminalKeeps ==
  ASSUME Kids!ChildrenInv,
         Kids!EndOfInput \/ \E b \in BOOLEAN : Kids!SetNonBlock(b) \/ Kids!Type(b)
  PROVE  Kids!ChildrenInv'
<1> USE DEF Kids!ChildrenInv
<1>1. r1 = "nonblock" /\ UNCHANGED <<r1, r3, r4, r7, r8, r10>>
  BY DEF Kids!EndOfInput, Kids!SetNonBlock, Kids!Type
<1>2. r2' \in {r2, "loop", "done"} /\ r9' \in BOOLEAN
  <2>1. CASE Kids!EndOfInput
    BY <2>1, KidsTypes DEF Kids!EndOfInput
  <2>2. ASSUME NEW b \in BOOLEAN, Kids!SetNonBlock(b) PROVE r2' = "loop" /\ r9' \in BOOLEAN
    BY <2>2, Zenon DEF Kids!SetNonBlock
  <2>3. ASSUME NEW b \in BOOLEAN, Kids!Type(b) PROVE r2' = r2 /\ r9' = r9
    BY <2>3, Zenon DEF Kids!Type
  <2> QED BY <2>1, <2>2, <2>3, KidsTypes
<1>3. \/ r5' = r5 /\ r6' = r6
      \/ \E c \in {Kids!Newline, r6 + 1} : r5' = Append(r5, c) /\ r6' = r6 + 1
  BY DEF Kids!EndOfInput, Kids!SetNonBlock, Kids!Type
<1>4. /\ r5' \in Seq(Nat) /\ r6' \in Nat /\ r6' >= r6
      /\ Len(r5') \in Nat /\ Len(r5) \in Nat /\ Len(r5') - Len(r5) = r6' - r6
  <2>1. ASSUME NEW c \in {Kids!Newline, r6 + 1}, r5' = Append(r5, c), r6' = r6 + 1
        PROVE  r5' \in Seq(Nat) /\ Len(r5') = Len(r5) + 1
    <3>1. c \in Nat
      BY KidsTypes DEF Kids!Newline
    <3> QED BY <2>1, <3>1, KidsTypes, AppendProperties
  <2>2. CASE r5' = r5 /\ r6' = r6
    BY <2>2, KidsTypes
  <2>3. CASE \E c \in {Kids!Newline, r6 + 1} : r5' = Append(r5, c) /\ r6' = r6 + 1
    <3>1. r5' \in Seq(Nat) /\ Len(r5') = Len(r5) + 1 /\ r6' = r6 + 1
      BY <2>1, <2>3
    <3> QED BY <3>1, KidsTypes
  <2> QED BY <1>3, <2>2, <2>3
<1>5. Kids!ChildTypes'
  BY <1>1, <1>2, <1>4, KidsTypes DEF Kids!ChildTypes, Kids!TypeOK
<1>6. Kids!TerminalInv'
  <2>1. Len(r7) \in Nat /\ Len(r8) \in Nat
    BY KidsTypes, LenProperties
  <2>2. ReadSize \in Nat
    BY ProgramsAssumption
  <2>3. Len(r7) + Len(r8) + Len(r5) = r6
        /\ ((\E i \in DOMAIN r8 : r8[i] # Kids!Newline) => r6 >= ReadSize)
    BY <1>1 DEF Kids!TerminalInv
  <2>4. Len(r7') + Len(r8') + Len(r5') = r6'
    BY <1>1, <1>4, <2>1, <2>3, KidsTypes, SMTT(30)
  <2>5. r6 >= ReadSize => r6' >= ReadSize
    BY <1>4, <2>2, KidsTypes
  <2>6. (\E i \in DOMAIN r8' : r8'[i] # Kids!Newline) => r6' >= ReadSize
    BY <1>1, <2>3, <2>5
  <2> QED BY <2>4, <2>6 DEF Kids!TerminalInv, Kids!Newline
<1> QED BY <1>1, <1>5, <1>6

(* Of the n characters read the last is dropped; it is no newline only where the *)
(* buffer was full.                                                             *)
LEMMA ReadTerminalKeeps ==
  ASSUME Kids!ChildrenInv, NEW n \in 1..ReadSize, Kids!ReadTerminal(n)
  PROVE  Kids!ChildrenInv'
<1> USE DEF Kids!ChildrenInv
<1>1. /\ r1 = "nonblock" /\ UNCHANGED <<r1, r2, r3, r4, r6, r9, r10>>
      /\ n <= Len(r5) /\ (n = ReadSize \/ r5[n] = Kids!Newline)
      /\ r7' = r7 \o SubSeq(r5, 1, n - 1)
      /\ r8' = Append(r8, r5[n])
      /\ r5' = SubSeq(r5, n + 1, Len(r5))
  BY DEF Kids!ReadTerminal, Kids!Taken, Kids!Left
<1>2. n \in 1..Len(r5) /\ n \in Nat /\ n >= 1
  BY <1>1, KidsTypes, ProgramsAssumption
<1>3. SubSeq(r5, 1, n - 1) \in Seq(Nat) /\ Len(SubSeq(r5, 1, n - 1)) = n - 1
  BY <1>2, KidsTypes
<1>4. r5' \in Seq(Nat) /\ Len(r5') = Len(r5) - n
  BY <1>1, <1>2, KidsTypes, SMTT(30)
<1>5. r5[n] \in Nat
  BY <1>2, KidsTypes
<1>6. r7' \in Seq(Nat) /\ Len(r7') = Len(r7) + (n - 1) /\ Len(r7) \in Nat
  BY <1>1, <1>3, KidsTypes, ConcatProperties, LenProperties
<1>7. /\ r8' \in Seq(Nat) /\ Len(r8') = Len(r8) + 1 /\ Len(r8) \in Nat
      /\ DOMAIN r8' = 1..(Len(r8) + 1) /\ DOMAIN r8 = 1..Len(r8)
      /\ \A i \in 1..Len(r8) : r8'[i] = r8[i]
      /\ r8'[Len(r8) + 1] = r5[n]
  BY <1>1, <1>5, KidsTypes, AppendProperties, LenProperties
<1>8. Kids!ChildTypes'
  BY <1>1, <1>2, <1>4, <1>6, <1>7, KidsTypes, SMTT(30) DEF Kids!ChildTypes, Kids!TypeOK
<1>9. Len(r7') + Len(r8') + Len(r5') = r6'
  <2>1. Len(r7) + Len(r8) + Len(r5) = r6
    BY <1>1 DEF Kids!TerminalInv
  <2>2. Len(r5) \in Nat /\ r6' = r6
    BY <1>1, KidsTypes
  <2> QED BY <1>2, <1>4, <1>6, <1>7, <2>1, <2>2
<1>10. ASSUME NEW i \in DOMAIN r8', r8'[i] # Kids!Newline
       PROVE  r6' >= ReadSize
  <2>1. i \in 1..Len(r8) \/ i = Len(r8) + 1
    BY <1>7
  <2>2. CASE i \in 1..Len(r8)
    BY <1>1, <1>7, <1>10, <2>2 DEF Kids!TerminalInv
  <2>3. CASE i = Len(r8) + 1
    <3>1. n = ReadSize
      BY <1>1, <1>7, <1>10, <2>3
    <3> QED BY <1>1, <1>2, <3>1, KidsTypes
  <2> QED BY <2>1, <2>2, <2>3
<1>11. Kids!TerminalInv'
  BY <1>9, <1>10 DEF Kids!TerminalInv, Kids!Newline
<1> QED BY <1>1, <1>8, <1>11

-----------------------------------------------------------------------------
(* ProcessA and ProcessB. *)

(* One text more, or none.                                                      *)
LEMMA TextAdds ==
  ASSUME Kids!ChildTypes, NEW v \in {0, 1}, r7' = Append(r7, v)
  PROVE  /\ r7' \in Seq(Nat)
         /\ Kids!Cardinality(Kids!TextsShown) \in Nat
         /\ Kids!Cardinality(Kids!TextsShown') = Kids!Cardinality(Kids!TextsShown) + v
<1> DEFINE n == Len(r7)
           T == Kids!TextsShown
<1>1. v \in Nat
  OBVIOUS
<1>2. /\ r7' \in Seq(Nat) /\ n \in Nat /\ DOMAIN r7 = 1..n /\ DOMAIN r7' = 1..(n + 1)
      /\ \A i \in 1..n : r7'[i] = r7[i]
      /\ r7'[n + 1] = v
  BY <1>1, KidsTypes, AppendProperties, LenProperties
<1>3. IsFiniteSet(1..n)
  BY <1>2, FS_Interval
<1>4. IsFiniteSet(T) /\ T \subseteq 1..n /\ n + 1 \notin T
  <2>1. T \subseteq 1..n
    BY <1>2 DEF Kids!TextsShown
  <2>2. n + 1 \notin 1..n
    BY <1>2
  <2> QED BY <1>3, <2>1, <2>2, FS_Subset, Zenon
<1>5. Kids!TextsShown' = IF v = 1 THEN T \cup {n + 1} ELSE T
  <2> HIDE DEF n
  <2>1. 1..(n + 1) = (1..n) \cup {n + 1}
    BY <1>2
  <2> QED BY <1>2, <2>1 DEF Kids!TextsShown
<1>6. Cardinality(T) \in Nat
  BY <1>4, FS_CardinalityType, Zenon
<1>7. Cardinality(Kids!TextsShown') = Cardinality(T) + v
  <2> HIDE DEF T, n
  <2>1. CASE v = 1
    <3>1. Cardinality(T \cup {n + 1}) = Cardinality(T) + 1
      BY <1>4, FS_AddElement, Zenon
    <3> QED BY <1>5, <2>1, <3>1
  <2>2. CASE v = 0
    BY <1>5, <1>6, <2>2
  <2> QED BY <2>1, <2>2
<1> QED BY <1>2, <1>6, <1>7, KidsCardinality DEF T

LEMMA SegmentKeeps ==
  ASSUME Kids!ChildrenInv,
         Kids!ProcessA \/ Kids!WriteText \/ \E root \in BOOLEAN : Kids!ProcessB(root)
  PROVE  Kids!ChildrenInv'
<1> USE DEF Kids!ChildrenInv
<1> DEFINE C == Kids!Cardinality(Kids!TextsShown)
<1>1. /\ r1 = "shm" /\ UNCHANGED <<r1, r4, r5, r7, r8>> /\ r5 = <<>>
      /\ C \in Nat /\ Kids!Cardinality(Kids!TextsShown)' = C
  <2>1. r1 = "shm" /\ UNCHANGED <<r1, r4, r5, r7, r8>>
    BY DEF Kids!ProcessA, Kids!WriteText, Kids!ProcessB
  <2>2. Kids!TextsShown' = Kids!TextsShown
    BY <2>1 DEF Kids!TextsShown
  <2> QED BY <2>1, <2>2, TextsCount, KidsCardinality DEF Kids!TextsInv
<1>2. /\ C + (IF r9 \/ r3 = "write" THEN 1 ELSE 0) <= r6
      /\ (r9 => r3 # "write") /\ (r10 = "a" => r6 > 0) /\ (r10 = "b" => r2 # "start")
      /\ (r3 = "crashed" => r6 > 1 \/ r2 # "start")
  BY <1>1 DEF Kids!TextsInv
<1> HIDE DEF C
<1>3. CASE Kids!ProcessA
  <2>1. r3 \in {"none", "done"} /\ r6' = r6 + 1 /\ r2' = r2
    BY <1>3 DEF Kids!ProcessA
  <2>2. \/ r10' = "a" /\ r3' = "write" /\ r9' = FALSE
        \/ r10 \notin {"none", "gone"} /\ r3' = "crashed" /\ r10' = r10 /\ r9' = r9
    BY <1>3, Zenon DEF Kids!ProcessA
  <2>3. r10 \notin {"none", "gone"} => r10 \in {"a", "b"}
    BY DEF Kids!ChildTypes
  <2>4. Kids!ChildTypes'
    <3>1. /\ r10' \in {"none", "a", "b", "gone"} /\ r3' \in {"write", "crashed"}
          /\ r9' \in BOOLEAN
      BY <2>2, Zenon DEF Kids!ChildTypes
    <3>2. r6' \in Nat /\ Len(r5') <= r6'
      BY <1>1, <2>1, KidsTypes
    <3> QED BY <1>1, <2>1, <3>1, <3>2 DEF Kids!ChildTypes, Kids!TypeOK
  <2>5. Kids!TextsInv'
    <3>1. CASE r10' = "a" /\ r3' = "write" /\ r9' = FALSE
      BY <1>1, <1>2, <2>1, <3>1, KidsTypes DEF Kids!TextsInv, C
    <3>2. CASE r10 \in {"a", "b"} /\ r3' = "crashed" /\ r10' = r10 /\ r9' = r9
      BY <1>1, <1>2, <2>1, <3>2, KidsTypes DEF Kids!TextsInv, C
    <3> QED BY <2>2, <2>3, <3>1, <3>2
  <2> QED BY <1>1, <2>4, <2>5
<1>4. CASE Kids!WriteText
  <2>1. r3 = "write" /\ r3' = "done" /\ UNCHANGED <<r2, r6, r10>>
    BY <1>4 DEF Kids!WriteText
  <2>2. r9' \in BOOLEAN
    BY <1>4, Zenon DEF Kids!WriteText
  <2>3. Kids!ChildTypes'
    BY <1>1, <2>1, <2>2, KidsTypes DEF Kids!ChildTypes, Kids!TypeOK
  <2>4. Kids!TextsInv'
    BY <1>1, <1>2, <2>1, <2>2, KidsTypes DEF Kids!TextsInv, C
  <2> QED BY <1>1, <2>3, <2>4
<1>5. ASSUME NEW root \in BOOLEAN, Kids!ProcessB(root)
      PROVE  Kids!ChildrenInv'
  <2>1. /\ r10' \in {r10, "b"} /\ r2' \in {"print", "crashed"} /\ UNCHANGED <<r3, r6>>
    BY <1>5 DEF Kids!ProcessB
  <2>2. r9' \in BOOLEAN /\ (r9' => r9)
    BY <1>5, Zenon DEF Kids!ProcessB
  <2>3. Kids!ChildTypes'
    BY <1>1, <2>1, <2>2, KidsTypes DEF Kids!ChildTypes, Kids!TypeOK
  <2>4. Kids!TextsInv'
    BY <1>1, <1>2, <2>1, <2>2, KidsTypes DEF Kids!TextsInv, C
  <2> QED BY <1>1, <2>3, <2>4
<1> QED BY <1>3, <1>4, <1>5

LEMMA PrintTextKeeps ==
  ASSUME Kids!ChildrenInv, Kids!PrintText
  PROVE  Kids!ChildrenInv'
<1> USE DEF Kids!ChildrenInv
<1> DEFINE C == Kids!Cardinality(Kids!TextsShown)
           v == IF r9 THEN 1 ELSE 0
<1>1. /\ r1 = "shm" /\ r2 = "print" /\ r2' = "done" /\ r7' = Append(r7, v)
      /\ r10' \in {"gone", "none"} /\ UNCHANGED <<r1, r3, r4, r5, r6, r8>>
  BY DEF Kids!PrintText
<1>2. r9' = FALSE
  BY Zenon DEF Kids!PrintText
<1>3. v \in {0, 1}
  OBVIOUS
<1>4. r7' \in Seq(Nat) /\ C \in Nat /\ Kids!Cardinality(Kids!TextsShown') = C + v
  <2> HIDE DEF v
  <2> QED BY <1>1, <1>3, TextAdds
<1>5. /\ C + (IF r9 \/ r3 = "write" THEN 1 ELSE 0) <= r6
      /\ (r9 => r3 # "write") /\ r5 = <<>>
  BY <1>1 DEF Kids!TextsInv
<1>6. Kids!ChildTypes'
  BY <1>1, <1>2, <1>4, KidsTypes DEF Kids!ChildTypes, Kids!TypeOK
<1>7. Kids!Cardinality(Kids!TextsShown)' = C + v
  BY <1>4, KidsCardinality
<1> HIDE DEF C
<1>8. Kids!TextsInv'
  BY <1>1, <1>2, <1>4, <1>5, <1>7, KidsTypes DEF Kids!TextsInv
<1> QED BY <1>1, <1>6, <1>8

(* Each step of the four.                                                       *)
LEMMA KidsStep ==
  ASSUME Kids!ChildrenInv, Kids!Next
  PROVE  Kids!ChildrenInv'
BY ProcKeeps, ReaderMoves, TerminalKeeps, ReadTerminalKeeps, SegmentKeeps, PrintTextKeeps
   DEF Kids!Next

-----------------------------------------------------------------------------
(* The programs together. *)

ProgramsInv ==
    /\ program = "log" => Log!ChainInv
    /\ program = "sem" => Sem!WritersInv
    /\ program = "shm" => Shm!SegmentInv
    /\ program = "pipe" => Pipe!PipeInv
    /\ program = "thread" => Class!ObjectInv
    /\ program = "chatclient" => Chat!ClientInv
    /\ program = "threads" => Lock!ThreadsInv
    /\ program = "signals" => Sig!SignalsInv
    /\ program = "children" => Kids!ChildrenInv
    /\ program = "stdio" => Stdio!FileInv
    /\ program = "logger" => Logs!LogInv
    /\ program = "shell" => Myshell!ShellInv
    /\ program = "plainshell" => PlainShell!ShellInv
    /\ program = "http" => Page!PageInv
    /\ program = "chatserver" => Route!RouteInv
    /\ program = "udp" => Udp!UdpInv
    /\ program = "session" => Session!SessionInv
    /\ program = "calculator" => Calc!CalcInv

(* A behaviour begins as one of the programs does.                             *)
LEMMA ProgramsInit ==
  ASSUME Init
  PROVE  ProgramsInv
<1>1. program = "log" => Log!ChainInv
  BY LogInit, ChainInvIs DEF Init
<1>2. program = "sem" => Sem!WritersInv
  BY SemInit DEF Init
<1>3. program = "shm" => Shm!SegmentInv
  BY ShmInit DEF Init
<1>4. program = "pipe" => Pipe!PipeInv
  BY PipeInit DEF Init
<1>5. program = "thread" => Class!ObjectInv
  BY ClassInit DEF Init
<1>6. program = "chatclient" => Chat!ClientInv
  BY ChatInit DEF Init
<1>7. program = "threads" => Lock!ThreadsInv
  BY LockInit DEF Init
<1>8. program = "signals" => Sig!SignalsInv
  BY SigInit DEF Init
<1>9. program = "children" => Kids!ChildrenInv
  BY KidsInit DEF Init
<1>10. program = "stdio" => Stdio!FileInv
  BY StdioInit DEF Init
<1>11. program = "logger" => Logs!LogInv
  BY LoggerInit DEF Init
<1>12. program = "shell" => Myshell!ShellInv
  BY ShellInit DEF Init
<1>13. program = "plainshell" => PlainShell!ShellInv
  BY PlainInit DEF Init
<1>14. program = "http" => Page!PageInv
  BY PageInit DEF Init
<1>15. program = "chatserver" => Route!RouteInv
  BY RouteInit DEF Init
<1>16. program = "udp" => Udp!UdpInv
  BY UdpInit DEF Init
<1>17. program = "session" => Session!SessionInv
  BY SessionInit DEF Init
<1>18. program = "calculator" => Calc!CalcInv
  BY CalcInit DEF Init
<1> QED BY <1>1, <1>2, <1>3, <1>4, <1>5, <1>6, <1>7, <1>8, <1>9, <1>10, <1>11, <1>12, <1>13, <1>14,
           <1>15, <1>16, <1>17, <1>18
        DEF ProgramsInv

(* A step is one of the program that runs, and no step changes which it is.     *)
LEMMA ProgramsStep ==
  ASSUME ProgramsInv, Next
  PROVE  ProgramsInv'
<1>1. program' = program
  BY DEF Next
<1>2. ASSUME program = "log" PROVE Log!ChainInv'
  <2>1. Log!Next
    BY <1>2 DEF Next
  <2> QED BY <1>2, <2>1, LogStep DEF ProgramsInv
<1>3. ASSUME program = "sem" PROVE Sem!WritersInv'
  <2>1. Sem!Next
    BY <1>3 DEF Next
  <2> QED BY <1>3, <2>1, SemStep DEF ProgramsInv
<1>4. ASSUME program = "shm" PROVE Shm!SegmentInv'
  <2>1. Shm!Next
    BY <1>4 DEF Next
  <2> QED BY <1>4, <2>1, ShmStep DEF ProgramsInv
<1>5. ASSUME program = "pipe" PROVE Pipe!PipeInv'
  <2>1. Pipe!Next
    BY <1>5 DEF Next
  <2> QED BY <1>5, <2>1, ReaderKeeps, WriterKeeps DEF ProgramsInv, Pipe!Next
<1>6. ASSUME program = "thread" PROVE Class!ObjectInv'
  <2>1. Class!Next
    BY <1>6 DEF Next
  <2> QED BY <1>6, <2>1, ClassStep DEF ProgramsInv
<1>7. ASSUME program = "chatclient" PROVE Chat!ClientInv'
  <2>1. Chat!Next
    BY <1>7 DEF Next
  <2> QED BY <1>7, <2>1, ChatStep DEF ProgramsInv
<1>8. ASSUME program = "threads" PROVE Lock!ThreadsInv'
  <2>1. Lock!Next
    BY <1>8 DEF Next
  <2> QED BY <1>8, <2>1, LockStep DEF ProgramsInv
<1>9. ASSUME program = "signals" PROVE Sig!SignalsInv'
  <2>1. Sig!Next
    BY <1>9 DEF Next
  <2> QED BY <1>9, <2>1, SigStep DEF ProgramsInv
<1>10. ASSUME program = "children" PROVE Kids!ChildrenInv'
  <2>1. Kids!Next
    BY <1>10 DEF Next
  <2> QED BY <1>10, <2>1, KidsStep DEF ProgramsInv
<1>11. ASSUME program = "stdio" PROVE Stdio!FileInv'
  <2>1. Stdio!Next
    BY <1>11 DEF Next
  <2> QED BY <1>11, <2>1, StdioStep DEF ProgramsInv
<1>12. ASSUME program = "logger" PROVE Logs!LogInv'
  <2>1. Logs!Next
    BY <1>12 DEF Next
  <2> QED BY <1>12, <2>1, LoggerStep DEF ProgramsInv
<1>13. ASSUME program = "shell" PROVE Myshell!ShellInv'
  <2>1. Myshell!Next
    BY <1>13 DEF Next
  <2> QED BY <1>13, <2>1, ShellStep DEF ProgramsInv
<1>14. ASSUME program = "plainshell" PROVE PlainShell!ShellInv'
  <2>1. PlainShell!Next
    BY <1>14 DEF Next
  <2> QED BY <1>14, <2>1, PlainStep DEF ProgramsInv
<1>15. ASSUME program = "http" PROVE Page!PageInv'
  <2>1. Page!Next
    BY <1>15 DEF Next
  <2> QED BY <1>15, <2>1, PageStep DEF ProgramsInv
<1>16. ASSUME program = "chatserver" PROVE Route!RouteInv'
  <2>1. Route!Next
    BY <1>16 DEF Next
  <2> QED BY <1>16, <2>1, RouteStep DEF ProgramsInv
<1>17. ASSUME program = "udp" PROVE Udp!UdpInv'
  <2>1. Udp!Next
    BY <1>17 DEF Next
  <2> QED BY <1>17, <2>1, UdpStep DEF ProgramsInv
<1>18. ASSUME program = "session" PROVE Session!SessionInv'
  <2>1. Session!Next
    BY <1>18 DEF Next
  <2> QED BY <1>18, <2>1, SessionStep DEF ProgramsInv
<1>19. ASSUME program = "calculator" PROVE Calc!CalcInv'
  <2>1. Calc!Next
    BY <1>19 DEF Next
  <2> QED BY <1>19, <2>1, CalcStep DEF ProgramsInv
<1> QED BY <1>1, <1>2, <1>3, <1>4, <1>5, <1>6, <1>7, <1>8, <1>9, <1>10, <1>11, <1>12, <1>13, <1>14,
           <1>15, <1>16, <1>17, <1>18, <1>19
        DEF ProgramsInv

(* Every definition of the invariants reads the variables alone.            *)
LEMMA ProgramsStutter ==
  ASSUME ProgramsInv, UNCHANGED vars
  PROVE  ProgramsInv'
<1>1. UNCHANGED <<program, r1, r2, r3, r4, r5, r6, r7, r8, r9,
                 r10, r11, r12, r13, r14, r15, r16, r17>>
  BY DEF vars
<1>2. Log!ChainInv => Log!ChainInv'
  BY <1>1 DEF Log!ChainInv, Log!TypeOK, Log!Queued, Log!QueueKnown, Log!Running, Log!OneServer,
              Log!HandsFull, Log!BackupsApart, Log!Archiving, Log!RemovalDue, Log!LinesKept,
              Log!InHand, Log!Stored
<1>3. Sem!WritersInv => Sem!WritersInv'
  BY <1>1 DEF Sem!WritersInv, Sem!TypeOK, Sem!SetKept, Sem!UnitsKept, Sem!Taken,
              Sem!PairsTogether
<1>4. Shm!SegmentInv => Shm!SegmentInv'
  BY <1>1 DEF Shm!SegmentInv, Shm!TypeOK, Shm!PrintsABeginning
<1>5. Pipe!PipeInv => Pipe!PipeInv'
  BY <1>1 DEF Pipe!PipeInv, Pipe!TypeOK, Pipe!InOrder, Pipe!Writing
<1>6. Class!ObjectInv => Class!ObjectInv'
  BY <1>1 DEF Class!ObjectInv, Class!ObjectTypes, Class!TypeOK, Class!Beginning, Class!Called,
              Class!NoneDetached, Class!IdNames, Class!Before, Class!Names, Class!CallsDefined,
              Class!JoinsFirst
<1>7. Chat!ClientInv => Chat!ClientInv'
  BY <1>1 DEF Chat!ClientInv, Chat!ClientTypes, Chat!TypeOK, Chat!Made, Chat!Left,
              Chat!CrashKnown
<1>8. Lock!ThreadsInv => Lock!ThreadsInv'
  BY <1>1 DEF Lock!ThreadsInv, Lock!ThreadTypes, Lock!TypeOK, Lock!Located, Lock!Places,
              Lock!MutexHeld, Lock!IdsKnown, Lock!TicketsInv, Lock!CondInv, Lock!FlagInv,
              Lock!Number, Lock!First, Lock!Changing, Lock!Owed, Lock!Cardinality
<1>9. Sig!SignalsInv => Sig!SignalsInv'
  BY <1>1, ZenonT(40) DEF Sig!SignalsInv, Sig!SignalTypes, Sig!TypeOK, Sig!OwnOnly, Sig!Own, Sig!Accounted,
              Sig!Remembered, Sig!Running, Sig!ChildCounted, Sig!Masked, Sig!block,
              Sig!Started, Sig!RanInOrder, Sig!funcs
<1>10. Kids!ChildrenInv => Kids!ChildrenInv'
  BY <1>1 DEF Kids!ChildrenInv, Kids!ChildTypes, Kids!TypeOK, Kids!ProcInv, Kids!ReaderInv,
              Kids!TerminalInv, Kids!TextsInv, Kids!TextsShown, Kids!Cardinality
<1>11. Stdio!FileInv => Stdio!FileInv'
  BY <1>1 DEF Stdio!FileInv, Stdio!TypeOK, Stdio!Buffered, Stdio!Whole, Stdio!LineFlushed
<1>12. Logs!LogInv => Logs!LogInv'
  BY <1>1, LoggerStays
<1>13. Myshell!ShellInv => Myshell!ShellInv'
  BY <1>1, ShellStays
<1>14. PlainShell!ShellInv => PlainShell!ShellInv'
  BY <1>1, PlainStays
<1>15. Page!PageInv => Page!PageInv'
  BY <1>1 DEF Page!PageInv, Page!TypeOK, Page!RequestKnown, Page!Target, Page!isInteract,
              Page!PageSought, Page!SizesKept, Page!SizeOf, Page!AnswerMade
<1>16. Route!RouteInv => Route!RouteInv'
  BY <1>1 DEF Route!RouteInv, Route!TypeOK, Route!Message, Route!Employed,
              Route!OwnMessages, Route!Peer, Route!Users, Route!ChangesAlone, Route!Changes,
              Route!ListRight
<1>17. Udp!UdpInv => Udp!UdpInv'
  BY <1>1 DEF Udp!UdpInv, Udp!TypeOK, Udp!Datagram, Udp!Answer, Udp!QuestionsKept,
              Udp!UnderWay, Udp!Reply, Udp!Asker, Udp!OneUnderWay, Udp!ReplyOnce,
              Udp!AskedInTurn, Udp!DictLoaded, Udp!Known, Udp!AnswersKept
<1>18. Session!SessionInv => Session!SessionInv'
  BY <1>1, SessionStays
<1>19. Calc!CalcInv => Calc!CalcInv'
  BY <1>1, CalcStays
<1> QED BY <1>1, <1>2, <1>3, <1>4, <1>5, <1>6, <1>7, <1>8, <1>9, <1>10, <1>11, <1>12, <1>13, <1>14,
           <1>15, <1>16, <1>17, <1>18, <1>19
        DEF ProgramsInv

(* So each of the programs has its invariant always.                              *)
LEMMA ProgramsInvariant == Spec => []ProgramsInv
<1>1. Init => ProgramsInv
  BY ProgramsInit
<1>2. ProgramsInv /\ [Next]_vars => ProgramsInv'
  BY ProgramsStep, ProgramsStutter
<1> QED BY <1>1, <1>2, PTL DEF Spec

(* One server at a time has the queue, and no line the queue took is missing     *)
(* from the queue, the server's hands and the files, whatever fails and whoever  *)
(* is killed (LogChain's Create, Backup, Rename, Tar, Waited, Kill): for any     *)
(* number of servers, clients, lines and seconds.                                *)
THEOREM LinesKeptCorrect == Spec => []LinesKept
<1>1. ProgramsInv => LinesKept
  BY DEF ProgramsInv, LinesKept, Log!ChainInv
<1> QED BY <1>1, ProgramsInvariant, PTL

(* Pairs of letters stay together under the semaphore, a server shows a          *)
(* beginning of the alphabet, one server has the segment, and the reader of the  *)
(* pipe leaves with every message in order (SemWriters, SharedMemory, NamedPipe),*)
(* for every number of rounds, processes, letters and messages and every size of *)
(* the pipe and of what is read at once.                                         *)
THEOREM SharedDataWholeCorrect == Spec => []SharedDataWhole
<1>1. ASSUME ProgramsInv PROVE SharedDataWhole
  <2>1. program = "log" => Log!TypeOK
    BY <1>1 DEF ProgramsInv, Log!ChainInv
  <2>2. program = "sem" => Sem!TypeOK /\ Sem!PairsTogether
    BY <1>1 DEF ProgramsInv, Sem!WritersInv
  <2>3. program = "shm" => Shm!TypeOK /\ Shm!PrintsABeginning /\ Shm!OneCreator
    BY <1>1 DEF ProgramsInv, Shm!SegmentInv, Shm!OneCreator
  <2>4. program = "pipe" => Pipe!TypeOK /\ Pipe!AllReadAtTheEnd
    <3>1. ASSUME Pipe!PipeInv PROVE Pipe!AllReadAtTheEnd
      <4>1. ASSUME NEW w \in PipeWriters \ r8
            PROVE  /\ \A i \in DOMAIN r7 : r7[i].from = w =>
                         Pipe!Before(r7, w, i) = 1..(r7[i].nr - 1)
                   /\ r4 \in {"close", "unlink"} => Pipe!Before(r7, w, Len(r7) + 1) = 1..r6[w]
        BY <3>1, <4>1, NothingLeft DEF Pipe!PipeInv
      <4> QED BY <4>1 DEF Pipe!AllReadAtTheEnd
    <3> QED BY <1>1, <3>1 DEF ProgramsInv, Pipe!PipeInv
  <2> QED BY <2>1, <2>2, <2>3, <2>4 DEF SharedDataWhole
<1> QED BY <1>1, ProgramsInvariant, PTL

(* Threads, handlers and children act in their order (ThreadClass, ChatClient,    *)
(* ThreadExercises, SignalExercises, ChildExercises): a joined, detached or       *)
(* cancelled thread is one that was made unless the owner broke the order or a    *)
(* call failed, every ticket and number is printed once and in order under the    *)
(* mutex, no signal is forgotten, and a father has what his child wrote; for any  *)
(* number of calls, tickets, signals, handlers and characters.                   *)
THEOREM ThreadsOrderedCorrect == Spec => []ThreadsOrdered
<1>1. ASSUME ProgramsInv PROVE ThreadsOrdered
  <2>1. program = "thread" => Class!TypeOK /\ Class!CallsDefined
    BY <1>1 DEF ProgramsInv, Class!ObjectInv, Class!ObjectTypes
  <2>2. program = "chatclient" => Chat!TypeOK /\ Chat!CrashKnown
    BY <1>1 DEF ProgramsInv, Chat!ClientInv, Chat!ClientTypes
  <2>3. program = "threads" => Lock!TypeOK /\ Lock!CountsOrdered
    BY <1>1, LockSays DEF ProgramsInv
  <2>4. program = "signals" => Sig!TypeOK /\ Sig!SignalsKept
    BY <1>1, SigSays DEF ProgramsInv
  <2>5. program = "children" => Kids!TypeOK /\ Kids!ChildrenSeen
    BY <1>1, KidsSay DEF ProgramsInv
  <2> QED BY <2>1, <2>2, <2>3, <2>4, <2>5 DEF ThreadsOrdered
<1> QED BY <1>1, ProgramsInvariant, PTL

(* What programs write gets where it was sent, once, in order and nowhere else     *)
(* (Shell's RedirCheck and Excute, MyStdio's MyFwrite and MyFFlush, Logger's       *)
(* SyncLog and WriteLog): for every size of a buffer, any number of loggers, lines *)
(* and writes, and orders of any number.                                           *)
THEOREM OutputKeptCorrect == Spec => []OutputKept
<1>1. ASSUME ProgramsInv PROVE OutputKept
  <2>1. program = "shell" => Myshell!TypeOK /\ Myshell!OrdersObeyed /\ Myshell!KnownEnds
    BY <1>1, ShellSays DEF ProgramsInv
  <2>2. program = "plainshell" =>
          PlainShell!TypeOK /\ PlainShell!OrdersObeyed /\ PlainShell!KnownEnds
    BY <1>1, PlainSays DEF ProgramsInv
  <2>3. program = "stdio" => Stdio!TypeOK /\ Stdio!WrittenKept
    BY <1>1, StdioSays DEF ProgramsInv
  <2>4. program = "logger" => Logs!TypeOK /\ Logs!LinesWhole
    BY <1>1, LoggerSays DEF ProgramsInv, Logs!LogInv
  <2> QED BY <2>1, <2>2, <2>3, <2>4 DEF OutputKept
<1> QED BY <1>1, ProgramsInvariant, PTL

(* Whoever asks a server gets the whole answer to what was asked (Http's           *)
(* MakeResponse, HttpSession's HandlerHttp, Calculator's Decode and Execute,       *)
(* UdpServer's and Dict's answers, ChatServer's MessageRoute): for every width of  *)
(* an int and base of its digits, any sizes of files and pieces of a stream, and   *)
(* any number of clients, requests, repeated datagrams and workers.                *)
THEOREM AnswersWholeCorrect == Spec => []AnswersWhole
<1>1. ASSUME ProgramsInv PROVE AnswersWhole
  <2>1. program = "http" => Page!TypeOK /\ Page!AnswersWhole
    BY <1>1, PageSays DEF ProgramsInv
  <2>2. program = "session" => Session!TypeOK /\ Session!SessionsOwned
    BY <1>1 DEF ProgramsInv, Session!SessionInv
  <2>3. program = "calculator" => Calc!TypeOK /\ Calc!ResultsRight
    BY <1>1, CalcSays DEF ProgramsInv
  <2>4. program = "udp" => Udp!TypeOK /\ Udp!OwnAnswers
    BY <1>1, UdpSays DEF ProgramsInv, Udp!UdpInv
  <2>5. program = "chatserver" => Route!TypeOK /\ Route!ListRight
    BY <1>1 DEF ProgramsInv, Route!RouteInv
  <2> QED BY <2>1, <2>2, <2>3, <2>4, <2>5 DEF AnswersWhole
<1> QED BY <1>1, ProgramsInvariant, PTL
=============================================================================
