-------------------------------- MODULE LogChain --------------------------------
(***************************************************************************)
(* The log server of test_03_18: clients put lines into a System V message   *)
(* queue; a server takes them out and gives each to a chain of handlers that *)
(* format it, append it to ./tmp/test.log and, when the file has more than   *)
(* _maxline lines, have a child process rename and archive it.               *)
(*                                                                           *)
(* The queue and the files outlive their processes, any process may be       *)
(* killed, and a killed server leaves its archiving child behind.            *)
(***************************************************************************)
EXTENDS Naturals, Sequences, FiniteSets

CONSTANTS
    LogServers, LogClients, \* processes: a second server is a second start
    Lines,                  \* what clients may type, each line once
    ExitLine,               \* the text "exit"
    QueueMax,               \* messages the kernel's queue holds
    MaxLine,                \* _maxline
    MaxIds,                 \* queues made in a behaviour (a bound of the model)
    MaxTime,                \* seconds that pass in a behaviour (a bound of the model)
    Nothing                 \* no file, no text

VARIABLES
    qid, queue,     \* the kernel's queue: its id, 0 for none, and what it holds
    lastid,         \* the last id given out
    fd,             \* _msgfd of every process
    spc, text,      \* a server's place and its `text'
    ofs,            \* the file a server has open: TestLog, or the suffix it got
    cpc,            \* a client's place
    archiver,       \* a server's child: its step and the suffix it was given
    log,            \* lines of test.log
    backups,        \* backups[t]: lines of test.log.t
    archives,       \* archives[t]: lines in test.log.t.tgz
    now,            \* time(nullptr)
    \* history
    accepted,       \* lines msgsnd took
    lost,           \* lines given up where the code says so
    named           \* suffixes used, and whether one was used twice

ipc == <<qid, queue, lastid>>
files == <<log, backups, archives>>
server == <<spc, text, ofs>>
vars == <<ipc, fd, server, cpc, archiver, files, now, accepted, lost, named>>

Times == 0..MaxTime
TestLog == MaxTime + 1
Idle == [step |-> "none", suffix |-> 0]

Init ==
    /\ qid = 0 /\ queue = <<>> /\ lastid = 0
    /\ fd = [p \in LogServers \cup LogClients |-> 0]
    /\ spc = [s \in LogServers |-> "off"]
    /\ text = [s \in LogServers |-> Nothing]
    /\ ofs = [s \in LogServers |-> Nothing]
    /\ cpc = [c \in LogClients |-> "off"]
    /\ archiver = [s \in LogServers |-> Idle]
    /\ log = Nothing
    /\ backups = [t \in Times |-> Nothing]
    /\ archives = [t \in Times |-> Nothing]
    /\ now = 0
    /\ accepted = {} /\ lost = {}
    /\ named = [used |-> {}, twice |-> FALSE]

-----------------------------------------------------------------------------
(* MsgQueue: create, send, receive, destroy. *)

\* msgget makes a new queue.
NewQueue(p) ==
    /\ lastid < MaxIds
    /\ lastid' = lastid + 1
    /\ qid' = lastid + 1
    /\ queue' = <<>>
    /\ fd' = [fd EXCEPT ![p] = lastid + 1]

\* Without IPC_EXCL.
CreateMutant(s) ==
    \/ qid = 0 /\ NewQueue(s) /\ spc' = [spc EXCEPT ![s] = "recv"]
    \/ /\ qid # 0
       /\ fd' = [fd EXCEPT ![s] = qid]
       /\ spc' = [spc EXCEPT ![s] = "recv"]
       /\ UNCHANGED ipc

\* The server's Create: IPC_EXCL makes it exit if there is a queue, whoever
\* made it.
Create(s) ==
    \/ qid = 0 /\ NewQueue(s) /\ spc' = [spc EXCEPT ![s] = "recv"]
    \/ qid # 0 /\ spc' = [spc EXCEPT ![s] = "exited"] /\ UNCHANGED <<ipc, fd>>

StartServer(s) ==
    /\ spc[s] = "off"
    /\ Create(s)
    /\ UNCHANGED <<text, ofs, cpc, archiver, files, now, accepted, lost, named>>

\* A client takes the queue that is there, or makes one.
StartClient(c) ==
    /\ cpc[c] = "off"
    /\ \/ qid = 0 /\ NewQueue(c)
       \/ qid # 0 /\ fd' = [fd EXCEPT ![c] = qid] /\ UNCHANGED ipc
    /\ cpc' = [cpc EXCEPT ![c] = "input"]
    /\ UNCHANGED <<server, archiver, files, now, accepted, lost, named>>

Typed == accepted \cup lost

\* One turn of the client's loop.  msgsnd waits while the queue is full; for a
\* queue that was removed it fails, and the line is forgotten.
Send(c, m) ==
    /\ cpc[c] = "input"
    /\ m \in (Lines \ Typed) \cup {ExitLine}
    /\ \/ /\ qid = fd[c]
          /\ Len(queue) < QueueMax
          /\ queue' = Append(queue, m)
          /\ accepted' = accepted \cup {m}
          /\ UNCHANGED lost
       \/ /\ qid # fd[c]
          /\ lost' = lost \cup {m}
          /\ UNCHANGED <<queue, accepted>>
    /\ cpc' = [cpc EXCEPT ![c] = IF m = ExitLine THEN "done" ELSE "input"]
    /\ UNCHANGED <<qid, lastid, fd, server, archiver, files, now, named>>

\* msgrcv with type 1; it fails only for a queue removed under the server,
\* which OneServer excludes.  "exit" ends main's loop.
Recv(s) ==
    /\ spc[s] = "recv"
    /\ qid = fd[s]
    /\ queue # <<>>
    /\ text' = [text EXCEPT ![s] = Head(queue)]
    /\ queue' = Tail(queue)
    /\ spc' = [spc EXCEPT ![s] = IF Head(queue) = ExitLine THEN "destroy" ELSE "save"]
    /\ UNCHANGED <<qid, lastid, fd, ofs, cpc, archiver, files, now, accepted, lost, named>>

Queued == {queue[i] : i \in DOMAIN queue}

\* ~Server removes the queue with what is in it.
Destroy(s) ==
    /\ spc[s] = "destroy"
    /\ qid' = IF qid = fd[s] THEN 0 ELSE qid
    /\ queue' = IF qid = fd[s] THEN <<>> ELSE queue
    /\ lost' = IF qid = fd[s] THEN lost \cup Queued ELSE lost
    /\ spc' = [spc EXCEPT ![s] = "exited"]
    /\ UNCHANGED <<lastid, fd, text, ofs, cpc, archiver, files, now, accepted, named>>

-----------------------------------------------------------------------------
(* The chain: HandlerTextFormat has no state and is part of the next step.   *)

\* HandlerTextSaveFile: without the file the chain ends here.
SaveOpen(s) ==
    /\ spc[s] = "save"
    /\ \/ /\ log' = IF log = Nothing THEN {} ELSE log
          /\ ofs' = [ofs EXCEPT ![s] = TestLog]
          /\ spc' = [spc EXCEPT ![s] = "write"]
          /\ UNCHANGED lost
       \/ /\ lost' = lost \cup {text[s]}
          /\ spc' = [spc EXCEPT ![s] = "recv"]
          /\ UNCHANGED <<log, ofs>>
    /\ text' = IF spc'[s] = "write" THEN text ELSE [text EXCEPT ![s] = Nothing]
    /\ UNCHANGED <<ipc, fd, cpc, archiver, backups, archives, now, accepted, named>>

\* The line goes to the open file, whatever its name is by now.
SaveWrite(s) ==
    /\ spc[s] = "write"
    /\ IF ofs[s] = TestLog
       THEN log' = log \cup {text[s]} /\ UNCHANGED backups
       ELSE /\ backups' = [backups EXCEPT ![ofs[s]] = @ \cup {text[s]}]
            /\ UNCHANGED log
    /\ ofs' = [ofs EXCEPT ![s] = Nothing]
    /\ text' = [text EXCEPT ![s] = Nothing]
    /\ spc' = [spc EXCEPT ![s] = "check"]
    /\ UNCHANGED <<ipc, fd, cpc, archiver, archives, now, accepted, lost, named>>

\* HandlerTextBackup, IsOutOfRange: exits if the file is not there.
IsOutOfRange(s) ==
    /\ spc[s] = "check"
    /\ spc' = [spc EXCEPT ![s] =
                  IF log = Nothing THEN "exited"
                  ELSE IF Cardinality(log) > MaxLine THEN "fork" ELSE "recv"]
    /\ UNCHANGED <<ipc, fd, text, ofs, cpc, archiver, files, now, accepted, lost, named>>

\* Backup: the suffix is the second.  When fork fails waitpid fails too, and
\* the file goes on growing.
Backup(s) ==
    /\ spc[s] = "fork"
    /\ \/ /\ archiver' = [archiver EXCEPT ![s] = [step |-> "rename", suffix |-> now]]
          /\ named' = [used |-> named.used \cup {now},
                       twice |-> named.twice \/ now \in named.used]
          /\ spc' = [spc EXCEPT ![s] = "wait"]
       \/ /\ spc' = [spc EXCEPT ![s] = "recv"]
          /\ UNCHANGED <<archiver, named>>
    /\ UNCHANGED <<ipc, fd, text, ofs, cpc, files, now, accepted, lost>>

\* waitpid; the backup is removed once it is in the archive.
RemovableMutant(step) == step # "none"
Removable(step) == step = "packed"

Waited(s) ==
    LET a == archiver[s] IN
    /\ spc[s] = "wait"
    /\ a.step \in {"packed", "failed"}
    /\ backups' = IF Removable(a.step) THEN [backups EXCEPT ![a.suffix] = Nothing]
                  ELSE backups
    /\ archiver' = [archiver EXCEPT ![s] = Idle]
    /\ spc' = [spc EXCEPT ![s] = "recv"]
    /\ UNCHANGED <<ipc, fd, text, ofs, cpc, log, archives, now, accepted, lost, named>>

\* The child: rename throws if the file is gone, and replaces a backup of the
\* same name.  Who has the file open writes on under its new name.
Rename(s) ==
    LET t == archiver[s].suffix IN
    /\ archiver[s].step = "rename"
    /\ IF log = Nothing
       THEN /\ archiver' = [archiver EXCEPT ![s].step = "failed"]
            /\ UNCHANGED <<log, backups, ofs>>
       ELSE /\ archiver' = [archiver EXCEPT ![s].step = "tar"]
            /\ backups' = [backups EXCEPT ![t] = log]
            /\ log' = Nothing
            /\ ofs' = [r \in LogServers |-> IF ofs[r] = TestLog THEN t ELSE ofs[r]]
    /\ UNCHANGED <<ipc, fd, spc, text, cpc, archives, now, accepted, lost, named>>

\* tar, which may be missing or fail; the archive of that name is replaced.
Tar(s) ==
    LET t == archiver[s].suffix IN
    /\ archiver[s].step = "tar"
    /\ \/ /\ backups[t] # Nothing
          /\ archives' = [archives EXCEPT ![t] = backups[t]]
          /\ archiver' = [archiver EXCEPT ![s].step = "packed"]
       \/ /\ archiver' = [archiver EXCEPT ![s].step = "failed"]
          /\ UNCHANGED archives
    /\ UNCHANGED <<ipc, fd, server, cpc, log, backups, now, accepted, lost, named>>

-----------------------------------------------------------------------------
(* The world. *)

Tick ==
    /\ now < MaxTime
    /\ now' = now + 1
    /\ UNCHANGED <<ipc, fd, server, cpc, archiver, files, accepted, lost, named>>

Running(s) == spc[s] \notin {"off", "exited", "killed"}

\* SIGINT or SIGKILL: no destructor runs, and the child goes on.
Kill(s) ==
    /\ Running(s)
    /\ spc' = [spc EXCEPT ![s] = "killed"]
    /\ lost' = IF spc[s] \in {"save", "write"} THEN lost \cup {text[s]} ELSE lost
    /\ ofs' = [ofs EXCEPT ![s] = Nothing]
    /\ text' = [text EXCEPT ![s] = Nothing]
    /\ UNCHANGED <<ipc, fd, cpc, archiver, files, now, accepted, named>>

\* ipcrm: the only way on after a killed server.
Ipcrm ==
    /\ qid # 0
    /\ \A s \in LogServers : ~Running(s)
    /\ qid' = 0 /\ queue' = <<>>
    /\ lost' = lost \cup Queued
    /\ UNCHANGED <<lastid, fd, server, cpc, archiver, files, now, accepted, named>>

ServerStep(s) ==
    \/ Recv(s) \/ Destroy(s) \/ SaveOpen(s) \/ SaveWrite(s)
    \/ IsOutOfRange(s) \/ Backup(s) \/ Waited(s)

ChildStep(s) == Rename(s) \/ Tar(s)

ClientStep(c) == StartClient(c) \/ \E m \in Lines \cup {ExitLine} : Send(c, m)

Next ==
    \/ \E s \in LogServers : StartServer(s) \/ ServerStep(s) \/ ChildStep(s) \/ Kill(s)
    \/ \E c \in LogClients : ClientStep(c)
    \/ Tick \/ Ipcrm

-----------------------------------------------------------------------------
(* Properties. *)

Places == {"off", "recv", "destroy", "save", "write", "check", "fork", "wait",
           "exited", "killed"}
Messages == Lines \cup {ExitLine}
File == {Nothing} \cup SUBSET Lines

TypeOK ==
    /\ qid \in {0, lastid} /\ lastid \in 0..MaxIds
    /\ queue \in Seq(Messages) /\ Len(queue) <= QueueMax
    /\ accepted \subseteq Messages /\ Queued \subseteq accepted
    /\ fd \in [LogServers \cup LogClients -> 0..lastid]
    /\ spc \in [LogServers -> Places]
    /\ text \in [LogServers -> accepted \cup {Nothing}]
    /\ ofs \in [LogServers -> {Nothing, TestLog} \cup Times]
    /\ archiver \in [LogServers -> [step : {"none", "rename", "tar", "packed", "failed"},
                                    suffix : Times]]
    /\ log \in File
    /\ backups \in [Times -> File] /\ archives \in [Times -> File]
    /\ cpc \in [LogClients -> {"off", "input", "done"}]
    /\ now \in Times
    /\ named \in [used : SUBSET Times, twice : BOOLEAN]

(* IPC_EXCL (Create): whatever clients, kills and restarts came before, one   *)
(* server at a time is at work, and the queue it has is the one that exists: *)
(* nobody removes it under the server.                                       *)
OneServer ==
    \A s, r \in LogServers :
        Running(s) => qid = fd[s] /\ (Running(r) => r = s)

Stored ==
    LET Kept(f) == IF f = Nothing THEN {} ELSE f IN
    Kept(log) \cup UNION {Kept(backups[t]) \cup Kept(archives[t]) : t \in Times}

InHand == {text[s] : s \in {r \in LogServers : spc[r] \in {"save", "write"}}}

(* A line the queue took is in the queue, in the server's hands, or in the    *)
(* log, a backup or an archive, through rename, tar and removal, failures of *)
(* each, and kills that leave a child archiving beside the next server        *)
(* (SaveFile, Backup).  Premise: no two backups in one second, for the second *)
(* one replaces the first.                                                   *)
LinesKept ==
    ~named.twice =>
        accepted \ (lost \cup {ExitLine}) \subseteq Queued \cup InHand \cup Stored

-----------------------------------------------------------------------------
(* What keeps the lines: an inductive invariant of this module.               *)

(* Whoever uses the queue was given it, and no queue holds nothing.           *)
QueueKnown ==
    /\ qid = 0 => queue = <<>>
    /\ \A s \in LogServers : Running(s) => fd[s] # 0
    /\ \A c \in LogClients : cpc[c] = "input" => fd[c] # 0

(* A line in hand is to be saved, and an open file is there.                  *)
HandsFull ==
    \A s \in LogServers :
       /\ spc[s] \in {"save", "write"} => text[s] \in Lines
       /\ ofs[s] = Nothing <=> spc[s] # "write"
       /\ ofs[s] = TestLog => log # Nothing
       /\ ofs[s] \in Times => backups[ofs[s]] # Nothing

\* The children that are not done, and the one whose backup can be removed.
Archiving == {s \in LogServers : archiver[s].step # "none"}
RemovalDue(s) == spc[s] = "wait" /\ archiver[s].step = "packed"

(* Without two backups in one second, each child has a suffix of its own: its *)
(* backup and its archive are new, and what is removed is in the archive.     *)
BackupsApart ==
    ~named.twice =>
       /\ \A s \in Archiving : archiver[s].suffix \in named.used
       /\ \A s, r \in Archiving : archiver[s].suffix = archiver[r].suffix => s = r
       /\ \A t \in Times \ named.used : backups[t] = Nothing /\ archives[t] = Nothing
       /\ \A s \in Archiving :
            LET t == archiver[s].suffix IN
            /\ archiver[s].step = "rename" => backups[t] = Nothing
            /\ archiver[s].step \in {"rename", "tar"} => archives[t] = Nothing
            /\ RemovalDue(s) => backups[t] = archives[t]

ChainInv ==
    /\ TypeOK
    /\ QueueKnown
    /\ OneServer
    /\ HandsFull
    /\ BackupsApart
    /\ LinesKept

-----------------------------------------------------------------------------
(* A line in the queue of a server that goes on is saved or given up.        *)
LineTaken(m) == m \notin Queued \/ \A s \in LogServers : ~Running(s)
=============================================================================
