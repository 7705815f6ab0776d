-------------------------------- MODULE NamedPipe --------------------------------
(***************************************************************************)
(* One reader and several writers on a named pipe: test_03_07/fifo, where the *)
(* reader never ends, and test_03_07/fifo_OOP, where it ends when the writers *)
(* are gone and removes the pipe.                                             *)
(***************************************************************************)
EXTENDS Naturals, Sequences

CONSTANTS
    PipeKinds,      \* a subset of {"fifo", "fifo_OOP"}
    PipeWriters,    \* runs of client
    Texts,          \* messages each of them may write (a bound of the model)
    PipeSize,       \* messages the kernel holds
    ReadSize        \* messages one read returns at most

VARIABLES
    style,      \* which of the two programs
    fifo,       \* whether the file is there
    pipe,       \* messages written and not read
    rpc,        \* the reader's place
    wrpc,       \* each writer's place
    wrote,      \* how many messages each writer has written
    read,       \* history: messages read, in order
    late        \* history: writers that opened it after the reader saw the end

vars == <<style, fifo, pipe, rpc, wrpc, wrote, read, late>>

Message == [from : PipeWriters, nr : 1..Texts]

\* A file of an earlier run may be there.
Init ==
    /\ style \in PipeKinds
    /\ fifo \in BOOLEAN
    /\ pipe = <<>>
    /\ rpc = "make"
    /\ wrpc = [w \in PipeWriters |-> "off"]
    /\ wrote = [w \in PipeWriters |-> 0]
    /\ read = <<>>
    /\ late = {}

ReaderHasIt == rpc \in {"open", "read", "close"}
Opening == {w \in PipeWriters : wrpc[w] = "open"}
Writing == {w \in PipeWriters : wrpc[w] = "write"}

-----------------------------------------------------------------------------
(* The reader. *)

\* mkfifo: fifo_OOP reports a failure and goes on, fifo ends.
MakeFifo ==
    /\ rpc = "make"
    /\ fifo' = TRUE
    /\ rpc' = IF fifo /\ style = "fifo" THEN "exited" ELSE "open"
    /\ UNCHANGED <<style, pipe, wrpc, wrote, read, late>>

\* open blocks until a writer opens the other end, and the other way round.
OpenForRead ==
    /\ rpc = "open"
    /\ Opening # {}
    /\ rpc' = "read"
    /\ wrpc' = [w \in PipeWriters |-> IF w \in Opening THEN "write" ELSE wrpc[w]]
    /\ UNCHANGED <<style, fifo, pipe, wrote, read, late>>

\* read returns what there is, messages run together.
Read ==
    LET n == IF Len(pipe) < ReadSize THEN Len(pipe) ELSE ReadSize IN
    /\ rpc = "read"
    /\ pipe # <<>>
    /\ read' = read \o SubSeq(pipe, 1, n)
    /\ pipe' = SubSeq(pipe, n + 1, Len(pipe))
    /\ UNCHANGED <<style, fifo, rpc, wrpc, wrote, late>>

\* Ends when the pipe is empty, writers or not.
AtEndMutant == pipe = <<>>

\* read returns 0: nothing in the pipe, and no writer has it open.
AtEnd == pipe = <<>> /\ Writing = {}

\* fifo_OOP leaves the loop; fifo reads on, without blocking, until the next
\* writer comes.
ReadEnd ==
    /\ rpc = "read"
    /\ AtEnd
    /\ rpc' = IF style = "fifo_OOP" THEN "close" ELSE "read"
    /\ UNCHANGED <<style, fifo, pipe, wrpc, wrote, read, late>>

\* FileOper::Close, then ~NamedFifo: unlink.
CloseReader ==
    /\ rpc = "close"
    /\ rpc' = "unlink"
    /\ pipe' = <<>>
    /\ UNCHANGED <<style, fifo, wrpc, wrote, read, late>>

Unlink ==
    /\ rpc = "unlink"
    /\ fifo' = FALSE
    /\ rpc' = "exited"
    /\ UNCHANGED <<style, pipe, wrpc, wrote, read, late>>

-----------------------------------------------------------------------------
(* A writer. *)

\* Without the file open fails: fifo ends, fifo_OOP writes to -1 for ever.
OpenForWrite(w) ==
    /\ wrpc[w] = "off"
    /\ wrpc' = [wrpc EXCEPT ![w] =
                  CASE ~fifo -> IF style = "fifo" THEN "ended" ELSE "nowhere"
                    [] fifo /\ rpc \in {"read", "close"} -> "write"
                    [] OTHER -> "open"]
    /\ late' = IF rpc = "close" THEN late \cup {w} ELSE late
    /\ UNCHANGED <<style, fifo, pipe, rpc, wrote, read>>

\* write: with no reader SIGPIPE ends the program.
Write(w) ==
    LET m == [from |-> w, nr |-> wrote[w] + 1] IN
    /\ wrpc[w] = "write"
    /\ wrote[w] < Texts
    /\ \/ /\ ReaderHasIt
          /\ Len(pipe) < PipeSize
          /\ pipe' = Append(pipe, m)
          /\ wrote' = [wrote EXCEPT ![w] = @ + 1]
          /\ UNCHANGED wrpc
       \/ /\ ~ReaderHasIt
          /\ wrpc' = [wrpc EXCEPT ![w] = "ended"]
          /\ UNCHANGED <<pipe, wrote>>
    /\ UNCHANGED <<style, fifo, rpc, read, late>>

\* The user ends the client: its loop has no other end.
EndWriter(w) ==
    /\ wrpc[w] \in {"open", "write"}
    /\ wrpc' = [wrpc EXCEPT ![w] = "ended"]
    /\ UNCHANGED <<style, fifo, pipe, rpc, wrote, read, late>>

Reader == MakeFifo \/ OpenForRead \/ Read \/ ReadEnd \/ CloseReader \/ Unlink

Writer(w) == OpenForWrite(w) \/ Write(w) \/ EndWriter(w)

Next == Reader \/ \E w \in PipeWriters : Writer(w)

-----------------------------------------------------------------------------
(* Properties. *)

TypeOK ==
    /\ style \in PipeKinds /\ fifo \in BOOLEAN
    /\ pipe \in Seq(Message) /\ Len(pipe) <= PipeSize
    /\ rpc \in {"make", "open", "read", "close", "unlink", "exited"}
    /\ wrpc \in [PipeWriters -> {"off", "open", "write", "nowhere", "ended"}]
    /\ wrote \in [PipeWriters -> 0..Texts]

(* Each writer's messages are read in its order and none is missing when the  *)
(* reader leaves, but for those of a writer that came between the read that  *)
(* returned 0 and the close: they are written with success and lost.         *)
Before(s, w, i) == {s[j].nr : j \in {k \in 1..(i - 1) : s[k].from = w}}
AllReadAtTheEnd ==
    \A w \in PipeWriters \ late :
        /\ \A i \in DOMAIN read :
              read[i].from = w => Before(read, w, i) = 1..(read[i].nr - 1)
        /\ rpc \in {"close", "unlink"} =>
              Before(read, w, Len(read) + 1) = 1..wrote[w]

(* What makes it inductive: what is read and what is in the pipe are all that *)
(* a writer wrote, and when the reader has seen the end only late writers     *)
(* have something in the pipe or can put it there.                            *)
Ordered(s, w, n) ==
    /\ \A i \in DOMAIN s : s[i].from = w => Before(s, w, i) = 1..(s[i].nr - 1)
    /\ Before(s, w, Len(s) + 1) = 1..n

InOrder == \A w \in PipeWriters \ late : Ordered(read \o pipe, w, wrote[w])

PipeInv ==
    /\ TypeOK
    /\ read \in Seq(Message)
    /\ late \subseteq PipeWriters
    /\ InOrder
    /\ rpc = "close" =>
          /\ \A i \in DOMAIN pipe : pipe[i].from \in late
          /\ Writing \subseteq late
    /\ rpc = "unlink" => pipe = <<>>

(* What a writer wrote before the reader saw the end is read though other     *)
(* writers end before or after.                                              *)
Written(w, n) == wrote[w] >= n /\ w \notin late
MessageRead(w, n) == Len(SelectSeq(read, LAMBDA m : m.from = w)) >= n
=============================================================================
