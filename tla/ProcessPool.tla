------------------------------ MODULE ProcessPool ------------------------------
(***************************************************************************)
(* The process pool of test_03_05/ProcessPool: the parent makes one pipe    *)
(* and forks one child at a time, hands out task codes in turn, and stops   *)
(* by closing its write ends and waiting for the children.  A child ends    *)
(* when its pipe is at end of file, which takes EVERY copy of the write end  *)
(* to be closed - those too that its younger brothers inherited at fork.    *)
(***************************************************************************)
EXTENDS Integers, Sequences, FiniteSets

CONSTANTS
    Num,        \* _process_num; gdefaultnum = 5 in the code
    Codes,      \* task codes
    Cnt,        \* the rounds of main
    PipeCap,    \* codes a pipe holds before write blocks
    MayFail,    \* TRUE: pipe or fork may fail
    Parent, None

Child == 0..(Num - 1)

ASSUME PoolAssumption ==
    /\ Num \in Nat \ {0}
    /\ Cnt \in Nat
    /\ PipeCap \in Nat \ {0}
    /\ MayFail \in BOOLEAN
    /\ Parent \notin Int
    /\ None \notin Codes

VARIABLES
    ppc,        \* where the parent is
    i,          \* the index of the parent's loop, in Start and in CloseAndWait
    size,       \* _channels.size(): channel c is child c's
    next,       \* _next
    cnt,        \* rounds left in main
    task,       \* the code being sent
    wends,      \* wends[c]: the processes that have the write end of pipe c open
    rends,      \* rends[c]: the same for the read end
    buf,        \* what is in pipe c
    cpc,        \* where child c is
    cur,        \* the code child c has read
    sent, ran   \* history: codes written to child c, codes it has executed

parent == <<ppc, i, size, next, cnt, task>>
pipes == <<wends, rends, buf>>
children == <<cpc, cur, ran>>
vars == <<parent, pipes, children, sent>>

TypeOK ==
    /\ ppc \in {"pipe", "fork", "insert", "run", "send", "close", "wait", "done",
                "crashed"}
    /\ i \in 0..Num
    /\ size \in 0..Num
    /\ next \in Child
    /\ cnt \in 0..Cnt
    /\ task \in Codes \cup {None}
    /\ wends \in [Child -> SUBSET (Child \cup {Parent})]
    /\ rends \in [Child -> SUBSET (Child \cup {Parent})]
    /\ buf \in [Child -> Seq(Codes)]
    /\ cpc \in [Child -> {"none", "closing", "read", "excute", "zombie", "reaped"}]
    /\ cur \in [Child -> Codes \cup {None}]
    /\ sent \in [Child -> Seq(Codes)]
    /\ ran \in [Child -> Seq(Codes)]

Init ==
    /\ ppc = "pipe"
    /\ i = 0
    /\ size = 0
    /\ next = 0
    /\ cnt = Cnt
    /\ task = None
    /\ wends = [c \in Child |-> {}]
    /\ rends = [c \in Child |-> {}]
    /\ buf = [c \in Child |-> <<>>]
    /\ cpc = [c \in Child |-> "none"]
    /\ cur = [c \in Child |-> None]
    /\ sent = [c \in Child |-> <<>>]
    /\ ran = [c \in Child |-> <<>>]

-----------------------------------------------------------------------------
(* The parent: Start. *)

Pipe ==
    /\ ppc = "pipe"
    /\ i < Num
    /\ wends' = [wends EXCEPT ![i] = {Parent}]
    /\ rends' = [rends EXCEPT ![i] = {Parent}]
    /\ ppc' = "fork"
    /\ UNCHANGED <<i, size, next, cnt, task, buf, children, sent>>

\* The child has whatever its parent has open.
Fork ==
    /\ ppc = "fork"
    /\ wends' = [c \in Child |->
                    IF Parent \in wends[c] THEN wends[c] \cup {i} ELSE wends[c]]
    /\ rends' = [c \in Child |->
                    IF Parent \in rends[c] THEN rends[c] \cup {i} ELSE rends[c]]
    /\ cpc' = [cpc EXCEPT ![i] = "closing"]
    /\ ppc' = "insert"
    /\ UNCHANGED <<i, size, next, cnt, task, buf, cur, ran, sent>>

\* pipe or fork fails: Start returns false, which main does not look at.
StartFails ==
    /\ ppc \in {"pipe", "fork"}
    /\ i < Num
    /\ MayFail
    /\ ppc' = "run"
    /\ UNCHANGED <<i, size, next, cnt, task, pipes, children, sent>>

InsertChannel ==
    /\ ppc = "insert"
    /\ rends' = [rends EXCEPT ![i] = @ \ {Parent}]
    /\ size' = size + 1
    /\ i' = i + 1
    /\ ppc' = "pipe"
    /\ UNCHANGED <<next, cnt, task, wends, buf, children, sent>>

StartDone ==
    /\ ppc = "pipe"
    /\ i = Num
    /\ ppc' = "run"
    /\ UNCHANGED <<i, size, next, cnt, task, pipes, children, sent>>

-----------------------------------------------------------------------------
(* The parent: the rounds of main, each a Run. *)

\* The turn passes from the last channel to the last channel.
TurnMutant == IF next + 1 < size THEN next + 1 ELSE next

\* _next++ alone.
TurnNoWrapMutant == next + 1

\* `_next++; _next %= _channels.size()'
Turn == (next + 1) % size

Select ==
    /\ ppc = "run"
    /\ cnt > 0
    /\ size > 0
    /\ task' \in Codes
    /\ cnt' = cnt - 1
    /\ ppc' = "send"
    /\ UNCHANGED <<i, size, next, pipes, children, sent>>

\* Without a channel, select divides by zero.
SelectFails ==
    /\ ppc = "run"
    /\ cnt > 0
    /\ size = 0
    /\ ppc' = "crashed"
    /\ UNCHANGED <<i, size, next, cnt, task, pipes, children, sent>>

\* Channel::Send blocks while the pipe is full.
Send ==
    /\ ppc = "send"
    /\ Len(buf[next]) < PipeCap
    /\ buf' = [buf EXCEPT ![next] = Append(@, task)]
    /\ sent' = [sent EXCEPT ![next] = Append(@, task)]
    /\ next' = Turn
    /\ task' = None
    /\ ppc' = "run"
    /\ UNCHANGED <<i, size, cnt, wends, rends, children>>

-----------------------------------------------------------------------------
(* The parent: Stop, that is CloseAndWait. *)

StopBegin ==
    /\ ppc = "run"
    /\ cnt = 0
    /\ i' = 0
    /\ ppc' = IF size = 0 THEN "done" ELSE "close"
    /\ UNCHANGED <<size, next, cnt, task, pipes, children, sent>>

Close ==
    /\ ppc = "close"
    /\ wends' = [wends EXCEPT ![i] = @ \ {Parent}]
    /\ ppc' = "wait"
    /\ UNCHANGED <<i, size, next, cnt, task, rends, buf, children, sent>>

\* waitpid
Wait ==
    /\ ppc = "wait"
    /\ cpc[i] = "zombie"
    /\ cpc' = [cpc EXCEPT ![i] = "reaped"]
    /\ i' = i + 1
    /\ ppc' = IF i + 1 = size THEN "done" ELSE "close"
    /\ UNCHANGED <<size, next, cnt, task, pipes, cur, ran, sent>>

-----------------------------------------------------------------------------
(* A child: CloseAll on its copy of the channels, then its own write end,    *)
(* then Work.                                                                *)

\* Only its own write end is closed.
CloseAllMutant(c) ==
    /\ cpc[c] = "closing"
    /\ wends' = [wends EXCEPT ![c] = @ \ {c}]
    /\ cpc' = [cpc EXCEPT ![c] = "read"]
    /\ UNCHANGED <<parent, rends, buf, cur, ran, sent>>

CloseAll(c) ==
    /\ cpc[c] = "closing"
    /\ LET held == {d \in 0..(c - 1) : c \in wends[d]} IN
       IF held # {}
       THEN /\ \E d \in held : /\ \A e \in held : d <= e
                               /\ wends' = [wends EXCEPT ![d] = @ \ {c}]
            /\ UNCHANGED cpc
       ELSE /\ wends' = [wends EXCEPT ![c] = @ \ {c}]
            /\ cpc' = [cpc EXCEPT ![c] = "read"]
    /\ UNCHANGED <<parent, rends, buf, cur, ran, sent>>

\* A code is four bytes, written and read whole.
Read(c) ==
    /\ cpc[c] = "read"
    /\ buf[c] # <<>>
    /\ cur' = [cur EXCEPT ![c] = Head(buf[c])]
    /\ buf' = [buf EXCEPT ![c] = Tail(@)]
    /\ cpc' = [cpc EXCEPT ![c] = "excute"]
    /\ UNCHANGED <<parent, wends, rends, ran, sent>>

\* TaskManager::Excute; every code that is sent names a task.
Excute(c) ==
    /\ cpc[c] = "excute"
    /\ ran' = [ran EXCEPT ![c] = Append(@, cur[c])]
    /\ cur' = [cur EXCEPT ![c] = None]
    /\ cpc' = [cpc EXCEPT ![c] = "read"]
    /\ UNCHANGED <<parent, pipes, sent>>

\* A read that takes an empty pipe for the end.
EndOfFileMutant(c) == buf[c] = <<>>

\* read returns 0.
EndOfFile(c) == buf[c] = <<>> /\ wends[c] = {}

\* The child exits, which closes whatever it has open.
Exit(c) ==
    /\ cpc[c] = "read"
    /\ EndOfFile(c)
    /\ cpc' = [cpc EXCEPT ![c] = "zombie"]
    /\ wends' = [d \in Child |-> wends[d] \ {c}]
    /\ rends' = [d \in Child |-> rends[d] \ {c}]
    /\ UNCHANGED <<parent, buf, cur, ran, sent>>

-----------------------------------------------------------------------------
Start == Pipe \/ Fork \/ StartFails \/ InsertChannel \/ StartDone
Run == Select \/ SelectFails \/ Send
Stop == StopBegin \/ Close \/ Wait
Work(c) == CloseAll(c) \/ Read(c) \/ Excute(c) \/ Exit(c)

Next == Start \/ Run \/ Stop \/ \E c \in Child : Work(c)

Spec == Init /\ [][Next]_vars

\* Every process is scheduled.
FairSpec ==
    /\ Spec
    /\ WF_vars(Start \/ Run \/ Stop)
    /\ \A c \in Child : WF_vars(Work(c))

-----------------------------------------------------------------------------
(* Properties. *)

Code(c) == IF cur[c] = None THEN <<>> ELSE <<cur[c]>>

\* A child executes what its channel was sent, in order, each code once; and
\* it leaves only when the parent has closed the channel and nothing is left
\* in it, whatever its brothers still have open.
RunsWhatWasSent ==
    \A c \in Child :
        /\ sent[c] = ran[c] \o Code(c) \o buf[c]
        /\ cpc[c] \in {"zombie", "reaped"} => ran[c] = sent[c] /\ ppc \notin {"run", "send"}

\* The comment on Run (line 220): the load is shared out evenly.
Balanced ==
    ppc \in {"run", "send"} =>
        \A c, d \in 0..(size - 1) : Len(sent[c]) <= Len(sent[d]) + 1

\* Stop comes to its end, and then every child that was made is reaped: no
\* child waits for an end of file that a brother holds back, and the parent
\* does not wait for that child.
StopReaps ==
    ppc = "close" ~> ppc = "done" /\ \A c \in Child : cpc[c] \in {"none", "reaped"}
===============================================================================
