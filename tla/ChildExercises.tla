-------------------------------- MODULE ChildExercises --------------------------------
(***************************************************************************)
(* Four small programs of processes that meet in a pipe, a terminal or a      *)
(* segment: the father that polls its child (test_02_11, "proc"), the father  *)
(* that reads what it writes (test_03_04, "pipe"), the reader of a terminal   *)
(* made non-blocking (test_06_04, "nonblock"), and ProcessA with ProcessB     *)
(* (Test/testCodes, "shm"), run once or more and in any order.                *)
(***************************************************************************)
EXTENDS Naturals, Sequences, FiniteSets

CONSTANTS
    NUM,            \* of the table of handlers
    Registered,     \* handlers registered; 3 in the code
    MaxWrites,      \* characters written or typed (a bound of the model)
    ReadSize        \* of the buffer read into

VARIABLES
    kind,
    fpc, cpc,   \* father, or the reader, or ProcessB; the child, or ProcessA
    ran,        \* handlers run in this round; 0 where no round is
    stream,     \* the pipe's, or the terminal's, characters
    written,    \* history: how many there were
    printed,    \* history: those printed
    dropped,    \* history: those that were read and not printed
    flag,       \* O_NONBLOCK is set; ProcessA's text is in the segment
    seg         \* the segment: none, a (mode 0666), b (mode 0); gone: still attached

vars == <<kind, fpc, cpc, ran, stream, written, printed, dropped, flag, seg>>

Newline == 0    \* characters are numbered from 1

Init ==
    /\ kind \in {"proc", "pipe", "nonblock", "shm"}
    /\ fpc = "start" /\ cpc = "none"
    /\ ran = 0
    /\ stream = <<>> /\ written = 0 /\ printed = <<>> /\ dropped = <<>>
    /\ flag = FALSE
    /\ seg = "none"

Gone == {"done", "crashed"}

-----------------------------------------------------------------------------
(* test_02_11/proc.c *)

\* h[i + 1] is behind the table for the last place.
registerHandlers == IF Registered >= NUM THEN "crashed" ELSE "loop"

\* fork, the handlers, and with a pipe the ends that are closed; fork may fail.
Fork(works) ==
    /\ kind \in {"proc", "pipe"} /\ fpc = "start"
    /\ cpc' = IF works THEN "running" ELSE "none"
    /\ fpc' = IF kind = "proc" THEN registerHandlers ELSE "loop"
    /\ UNCHANGED <<kind, ran, stream, written, printed, dropped, flag, seg>>

\* Somebody ends the child, or with the father ends what would read.
ChildKilled ==
    /\ kind \in {"proc", "pipe"} /\ cpc = "running"
    /\ cpc' = "zombie"
    /\ UNCHANGED <<kind, fpc, ran, stream, written, printed, dropped, flag, seg>>

\* waitpid with WNOHANG: the child is over, or lives, or there is none.
Poll ==
    /\ kind = "proc" /\ fpc = "loop" /\ ran = 0
    /\ IF cpc = "running" THEN ran' = 1 /\ UNCHANGED fpc
       ELSE fpc' = "done" /\ UNCHANGED ran
    /\ cpc' = IF cpc = "zombie" THEN "reaped" ELSE cpc
    /\ UNCHANGED <<kind, stream, written, printed, dropped, flag, seg>>

\* handlers[i]() until the first NULL.
RunHandler ==
    /\ kind = "proc" /\ fpc = "loop" /\ ran > 0
    /\ ran' = IF ran = Registered THEN 0 ELSE ran + 1
    /\ UNCHANGED <<kind, fpc, cpc, stream, written, printed, dropped, flag, seg>>

-----------------------------------------------------------------------------
(* test_03_04/testPipe.cc *)

ChildWrite ==
    /\ kind = "pipe" /\ cpc = "running" /\ written < MaxWrites
    /\ stream' = Append(stream, written + 1)
    /\ written' = written + 1
    /\ UNCHANGED <<kind, fpc, cpc, ran, printed, dropped, flag, seg>>

Taken(n) == SubSeq(stream, 1, n)
Left(n) == SubSeq(stream, n + 1, Len(stream))

\* At the end of the file read returns 0 for ever: waitpid is never reached.
FatherRead(n) ==
    /\ kind = "pipe" /\ fpc = "loop" /\ n <= Len(stream)
    /\ printed' = printed \o Taken(n)
    /\ stream' = Left(n)
    /\ UNCHANGED <<kind, fpc, cpc, ran, written, dropped, flag, seg>>

-----------------------------------------------------------------------------
(* test_06_04/test_NonBlock.cc *)

\* The flag belongs to the terminal: the shell that started the program has it too.
SetNonBlock(works) ==
    /\ kind = "nonblock" /\ fpc = "start"
    /\ flag' = works
    /\ fpc' = "loop"
    /\ UNCHANGED <<kind, cpc, ran, stream, written, printed, dropped, seg>>

\* A line has a newline at its end; what is read at once is at most a line.
Type(newline) ==
    /\ kind = "nonblock" /\ fpc # "done" /\ written < MaxWrites
    /\ newline => written > 0
    /\ stream' = Append(stream, IF newline THEN Newline ELSE written + 1)
    /\ written' = written + 1
    /\ UNCHANGED <<kind, fpc, cpc, ran, printed, dropped, flag, seg>>

\* A whole line is there, and its first n characters are read, or all of it.  The last
\* of them is overwritten, newline or not.
ReadTerminal(n) ==
    /\ kind = "nonblock" /\ fpc = "loop"
    /\ n <= Len(stream)
    /\ n = ReadSize \/ stream[n] = Newline
    /\ \A i \in 1..(n - 1) : stream[i] # Newline
    /\ \E i \in DOMAIN stream : stream[i] = Newline
    /\ printed' = printed \o Taken(n - 1)
    /\ dropped' = Append(dropped, stream[n])
    /\ stream' = Left(n)
    /\ UNCHANGED <<kind, fpc, cpc, ran, written, flag, seg>>

\* Ctrl-D on an empty line.
EndOfInput ==
    /\ kind = "nonblock" /\ fpc = "loop" /\ stream = <<>>
    /\ fpc' = "done"
    /\ UNCHANGED <<kind, cpc, ran, stream, written, printed, dropped, flag, seg>>

-----------------------------------------------------------------------------
(* ProcessA.cc and ProcessB.cc: neither looks at a result, and -1 is no address. *)

\* shmget with IPC_EXCL, and shmat.
ProcessA ==
    /\ kind = "shm" /\ cpc \in {"none", "done"} /\ written < MaxWrites
    /\ written' = written + 1
    /\ IF seg \in {"none", "gone"}
       THEN seg' = "a" /\ cpc' = "write" /\ flag' = FALSE
       ELSE cpc' = "crashed" /\ UNCHANGED <<seg, flag>>
    /\ UNCHANGED <<kind, fpc, ran, stream, printed, dropped>>

WriteText ==
    /\ kind = "shm" /\ cpc = "write"
    /\ flag' = (flag \/ seg = "a")
    /\ cpc' = "done"
    /\ UNCHANGED <<kind, fpc, ran, stream, written, printed, dropped, seg>>

\* shmget makes a segment that nobody but root may attach.
ProcessB(root) ==
    /\ kind = "shm" /\ fpc \in {"start", "done"} /\ Len(printed) < MaxWrites
    /\ seg' = IF seg \in {"none", "gone"} THEN "b" ELSE seg
    /\ flag' = (flag /\ seg = "a")
    /\ fpc' = IF root \/ seg = "a" THEN "print" ELSE "crashed"
    /\ UNCHANGED <<kind, cpc, ran, stream, written, printed, dropped>>

\* printf, and the segment is removed under whoever is still attached.
PrintText ==
    /\ kind = "shm" /\ fpc = "print"
    /\ printed' = Append(printed, IF flag THEN 1 ELSE 0)
    /\ seg' = IF cpc = "write" THEN "gone" ELSE "none"
    /\ flag' = FALSE
    /\ fpc' = "done"
    /\ UNCHANGED <<kind, cpc, ran, stream, written, dropped>>

Next ==
    \/ ChildKilled \/ Poll \/ RunHandler
    \/ ChildWrite \/ EndOfInput
    \/ \E n \in 1..ReadSize : FatherRead(n) \/ ReadTerminal(n)
    \/ ProcessA \/ WriteText \/ PrintText
    \/ \E b \in BOOLEAN : Fork(b) \/ SetNonBlock(b) \/ Type(b) \/ ProcessB(b)

-----------------------------------------------------------------------------
(* Properties. *)

TypeOK ==
    /\ fpc \in {"start", "loop", "print", "done", "crashed"}
    /\ cpc \in {"none", "running", "zombie", "reaped", "write", "done", "crashed"}
    /\ ran \in 0..Registered
    /\ Len(stream) <= written

\* The times ProcessB printed ProcessA's text.
TextsShown == {i \in DOMAIN printed : printed[i] = 1}

(* The father that polls leaves when its child is over or was never made, and     *)
(* with no handler half through the round; the one that reads has all that was   *)
(* written in its order, and never waits for the child.  The terminal's reader   *)
(* loses the newline of every line, and a character only of lines too long for   *)
(* its buffer.  ProcessB shows a text only after ProcessA had begun, and each    *)
(* time another run of it.                                                       *)
ChildrenSeen ==
    /\ kind = "proc" /\ fpc = "done" => cpc \in {"reaped", "none"} /\ ran = 0
    /\ kind = "proc" => fpc # "crashed"
    /\ kind = "pipe" => printed \o stream = [i \in 1..written |-> i] /\ cpc # "reaped"
    /\ kind = "nonblock" /\ (\E i \in DOMAIN dropped : dropped[i] # Newline) =>
          written >= ReadSize
    /\ kind = "nonblock" => Len(printed) + Len(dropped) + Len(stream) = written
    /\ kind = "shm" =>
          /\ Cardinality(TextsShown) <= written
          /\ cpc = "crashed" => written > 1 \/ fpc # "start"

ChildTypes ==
    /\ TypeOK
    /\ kind \in {"proc", "pipe", "nonblock", "shm"}
    /\ written \in Nat /\ flag \in BOOLEAN
    /\ stream \in Seq(Nat) /\ printed \in Seq(Nat) /\ dropped \in Seq(Nat)
    /\ seg \in {"none", "a", "b", "gone"}

ProcInv ==
    /\ stream = <<>>
    /\ cpc \in {"none", "running", "zombie", "reaped"} /\ fpc # "crashed"
    /\ fpc = "start" => ran = 0 /\ cpc = "none"
    /\ fpc = "done" => ran = 0 /\ cpc \in {"reaped", "none"}

ReaderInv == printed \o stream = [i \in 1..written |-> i] /\ cpc # "reaped"

TerminalInv ==
    /\ Len(printed) + Len(dropped) + Len(stream) = written
    /\ (\E i \in DOMAIN dropped : dropped[i] # Newline) => written >= ReadSize

TextsInv ==
    /\ stream = <<>>
    /\ Cardinality(TextsShown) + (IF flag \/ cpc = "write" THEN 1 ELSE 0) <= written
    /\ flag => cpc # "write"
    /\ seg = "a" => written > 0
    /\ seg = "b" => fpc # "start"
    /\ cpc = "crashed" => written > 1 \/ fpc # "start"

(* A round of handlers runs only while the father polls; ProcessA's text is      *)
(* still to be shown once at most for each run of it.                           *)
ChildrenInv ==
    /\ ChildTypes
    /\ kind = "proc" => ProcInv
    /\ kind = "pipe" => ReaderInv
    /\ kind = "nonblock" => TerminalInv
    /\ kind = "shm" => TextsInv
=============================================================================
