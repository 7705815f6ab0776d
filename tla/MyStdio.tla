---------------------------------- MODULE MyStdio ----------------------------------
(***************************************************************************)
(* The buffered files of test_03_01/my_stdio: one MYFILE, a program that      *)
(* opens it, writes texts, flushes and closes, and may be killed in between.  *)
(* A file is a sequence of characters, of which only the newline matters.     *)
(***************************************************************************)
EXTENDS Naturals, Sequences

CONSTANTS
    Texts,          \* what the program writes: sequences of characters
    OldContent,     \* what the file holds before
    BufferSize,     \* MAX
    MaxWrites       \* a bound of the model

VARIABLES
    upc,        \* what the program is in
    mode, fileno,
    outbuffer,
    disk,       \* the file
    written,    \* history: what was given to MyFwrite
    writes,     \* history: how often
    short       \* history: a write() took less than it was given, or nothing

vars == <<upc, mode, fileno, outbuffer, disk, written, writes, short>>

Newline == "\n"
Modes == {"w", "a", "r"}

Init ==
    /\ upc = "start"
    /\ mode \in Modes
    /\ fileno = 0
    /\ outbuffer = <<>>
    /\ disk = OldContent
    /\ written = <<>> /\ writes = 0
    /\ short = FALSE

\* "a" truncates as "w" does; a program without a standard input gets descriptor 0.
MyFopen(fd) ==
    /\ upc = "start"
    /\ fileno' = fd
    /\ disk' = IF mode = "r" THEN disk ELSE <<>>
    /\ upc' = "open"
    /\ UNCHANGED <<mode, outbuffer, written, writes, short>>

\* open or malloc fails; after a failing malloc the file is truncated.
MyFopenFails ==
    /\ upc = "start"
    /\ upc' = "failed"
    /\ disk' \in {disk, IF mode = "r" THEN disk ELSE <<>>}
    /\ UNCHANGED <<mode, fileno, outbuffer, written, writes, short>>

\* A line is complete when the text that ends it has been copied.
LineEnds == outbuffer[Len(outbuffer)] = Newline

\* memcpy looks at no space; past the end it runs into bufferlen.
MyFwrite(text) ==
    /\ upc = "open" /\ writes < MaxWrites
    /\ outbuffer' = outbuffer \o text
    /\ written' = written \o text
    /\ writes' = writes + 1
    /\ upc' = IF Len(outbuffer) + Len(text) > BufferSize THEN "overrun" ELSE "written"
    /\ UNCHANGED <<mode, fileno, disk, short>>

EndOfWrite ==
    /\ upc = "written"
    /\ upc' = IF LineEnds THEN "flush" ELSE "open"
    /\ UNCHANGED <<mode, fileno, outbuffer, disk, written, writes, short>>

MyFFlush ==
    /\ upc = "open"
    /\ outbuffer # <<>>
    /\ upc' = "flush"
    /\ UNCHANGED <<mode, fileno, outbuffer, disk, written, writes, short>>

\* Where MyFFlush goes on: to the program, or to MyFclose's close.
AfterFlush(pc) == IF pc = "flush" THEN "open" ELSE "closed"

\* MyFFlush with the buffer not emptied.
EmptiedMutant(n) == outbuffer

\* The buffer is forgotten whatever write() took.
Emptied(n) == <<>>

\* write() takes n characters; nothing of a file opened for reading.
WriteBuffer(n) ==
    /\ upc \in {"flush", "close"}
    /\ n <= Len(outbuffer)
    /\ mode = "r" => n = 0
    /\ disk' = disk \o SubSeq(outbuffer, 1, n)
    /\ outbuffer' = Emptied(n)
    /\ short' = (short \/ n < Len(outbuffer))
    /\ upc' = AfterFlush(upc)
    /\ UNCHANGED <<mode, fileno, written, writes>>

\* Descriptor 0 is taken for a mistake: no flush, no close.
MyFclose ==
    /\ upc = "open"
    /\ upc' = CASE fileno = 0 -> "left"
                [] fileno > 0 /\ outbuffer = <<>> -> "closed"
                [] OTHER -> "close"
    /\ UNCHANGED <<mode, fileno, outbuffer, disk, written, writes, short>>

Killed ==
    /\ upc \in {"open", "written", "flush", "close"}
    /\ upc' = "killed"
    /\ UNCHANGED <<mode, fileno, outbuffer, disk, written, writes, short>>

Next ==
    \/ \E fd \in {0, 3} : MyFopen(fd)
    \/ MyFopenFails
    \/ \E text \in Texts : MyFwrite(text)
    \/ EndOfWrite \/ MyFFlush \/ MyFclose \/ Killed
    \/ \E n \in 0..BufferSize : WriteBuffer(n)

-----------------------------------------------------------------------------
(* Properties. *)

TypeOK ==
    /\ upc \in {"start", "open", "written", "flush", "close", "closed", "left", "killed",
                "failed", "overrun"}
    /\ fileno \in {0, 3}
    /\ upc # "overrun" => Len(outbuffer) <= BufferSize
    /\ writes \in 0..MaxWrites

Letters == UNION {{text[i] : i \in DOMAIN text} : text \in Texts \cup {OldContent}}

\* The buffer is empty before the first write and after the flush of a line.
Buffered ==
    /\ upc \in {"start", "closed"} => outbuffer = <<>>
    /\ upc = "start" => written = <<>>
    /\ upc = "written" => outbuffer # <<>>

\* Nothing was refused, by open or by a write().
Whole == mode # "r" /\ ~short /\ upc \notin {"start", "failed"}

LineFlushed ==
    Whole /\ upc = "open" /\ written # <<>> /\ written[Len(written)] = Newline =>
        outbuffer = <<>>

\* What makes WrittenKept inductive.
FileInv ==
    /\ TypeOK /\ mode \in Modes /\ short \in BOOLEAN
    /\ {outbuffer, disk, written} \subseteq Seq(Letters)
    /\ Buffered
    /\ Whole => disk \o outbuffer = written
    /\ LineFlushed

(* While every write() takes what it is given, the file and the buffer are what *)
(* the program wrote, in order and once (MyFwrite, MyFFlush); a text that ends *)
(* a line is in the file when MyFwrite returns, so that only an unfinished     *)
(* line, or lines before one, is lost with the program; and after MyFclose     *)
(* everything is there, unless the descriptor was 0.                          *)
WrittenKept ==
    mode # "r" /\ ~short /\ upc \notin {"start", "failed"} =>
        /\ disk \o outbuffer = written
        /\ upc = "open" /\ written # <<>> /\ written[Len(written)] = Newline => disk = written
        /\ upc = "closed" => disk = written
=============================================================================
