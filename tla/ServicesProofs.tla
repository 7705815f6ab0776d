---------------------------- MODULE ServicesProofs ----------------------------
(***************************************************************************)
(* The inductive invariants of the Services, for every value of their         *)
(* constants: the buffered files (FileInv), the loggers (LogInv), the shells  *)
(* (ShellInv), the pages (PageInv), the chat's server (RouteInv), the servers *)
(* of datagrams (UdpInv), the sessions (SessionInv) and the calculators       *)
(* (CalcInv).  Each section ends with the lemmas ...Init and ...Step of its   *)
(* program, and ...Says where the invariant implies a property; the theorems  *)
(* OutputKeptCorrect and AnswersWholeCorrect of ProgramsProofs rest on them.  *)
(***************************************************************************)
EXTENDS Services, SequenceTheorems, FiniteSetTheorems, WellFoundedInduction, TLAPS

-----------------------------------------------------------------------------
(* Induction over the natural numbers, as far as the prover allows it.          *)

(* A set of natural numbers has a smallest: the order of the numbers is         *)
(* well-founded.                                                              *)
LEMMA Smallest ==
  ASSUME NEW T, T \subseteq Nat, T # {}
  PROVE  \E x \in T : \A y \in T : x <= y
<1>1. IsWellFoundedOn({s \in Nat \X Nat : s[1] < s[2]}, Nat)
  BY NatLessThanWellFounded, Zenon DEF OpToRel
<1>2. \E x \in T : \A y \in T : ~ (<<y, x>> \in {s \in Nat \X Nat : s[1] < s[2]})
  BY <1>1, WFMin, Zenon
<1>3. PICK x \in T : \A y \in T : ~ (<<y, x>> \in {s \in Nat \X Nat : s[1] < s[2]})
  BY <1>2, Zenon
<1>4. ASSUME NEW y \in T
      PROVE  x <= y
  <2>1. ~ (<<y, x>> \in {s \in Nat \X Nat : s[1] < s[2]})
    BY <1>3, Zenon
  <2>2. x \in Nat /\ y \in Nat /\ <<y, x>>[1] = y /\ <<y, x>>[2] = x /\ <<y, x>> \in Nat \X Nat
    OBVIOUS
  <2>3. ~ (y < x)
    BY <2>1, <2>2
  <2> QED BY <2>2, <2>3
<1> QED BY <1>4

-----------------------------------------------------------------------------
(* The buffered files: r1 upc, r2 mode, r3 fileno, r4 outbuffer, r5 disk,       *)
(* r6 written, r7 writes, r8 short.                                            *)

(* A text is a line's end, a piece of a line, or both: it is never empty.       *)
LEMMA LettersAre ==
  /\ \A text \in Chars : text \in Seq(Stdio!Letters) /\ Len(text) \in Nat \ {0} /\ text # <<>>
  /\ <<"o">> \in Seq(Stdio!Letters)
<1>1. ASSUME NEW text \in Chars \cup {<<"o">>}
      PROVE  text \in Seq({"x", "\n", "y", "z", "o"}) /\ Len(text) \in Nat \ {0} /\ text # <<>>
  <2>1. \/ text = <<"x">> \/ text = <<"\n">> \/ text = <<"y", "\n">> \/ text = <<"\n", "z">>
        \/ text = <<"o">>
    BY DEF Chars
  <2>2. CASE text = <<"x">>
    BY <2>2
  <2>3. CASE text = <<"\n">>
    BY <2>3
  <2>4. CASE text = <<"y", "\n">>
    BY <2>4
  <2>5. CASE text = <<"\n", "z">>
    BY <2>5
  <2>6. CASE text = <<"o">>
    BY <2>6
  <2> QED BY <2>1, <2>2, <2>3, <2>4, <2>5, <2>6
<1>2. ASSUME NEW text \in Chars \cup {<<"o">>}
      PROVE  text \in Seq(Stdio!Letters)
  <2>1. \A i \in 1..Len(text) : text[i] \in Stdio!Letters
    BY <1>1 DEF Stdio!Letters
  <2> QED BY <1>1, <2>1
<1> QED BY <1>1, <1>2

LEMMA StdioInit ==
  ASSUME Stdio!Init
  PROVE  Stdio!FileInv
<1>1. {r4, r5, r6} \subseteq Seq(Stdio!Letters) /\ Len(r4) = 0
  BY LettersAre DEF Stdio!Init
<1>2. ~Stdio!Whole
  BY DEF Stdio!Init, Stdio!Whole
<1>3. Stdio!TypeOK /\ Stdio!Buffered
  BY <1>1, StdioAssumption DEF Stdio!Init, Stdio!TypeOK, Stdio!Buffered
<1>4. r2 \in Stdio!Modes /\ r8 \in BOOLEAN /\ r1 = "start"
  BY DEF Stdio!Init
<1> QED BY <1>1, <1>2, <1>3, <1>4
        DEF Stdio!FileInv, Stdio!LineFlushed

(* The last character of two sequences that are joined is that of the second.  *)
LEMMA CharsJoin ==
  ASSUME NEW x \in Seq(Stdio!Letters), NEW y \in Seq(Stdio!Letters)
  PROVE  /\ x \o y \in Seq(Stdio!Letters)
         /\ Len(x \o y) = Len(x) + Len(y)
         /\ x \o <<>> = x
         /\ y # <<>> => x \o y # <<>> /\ (x \o y)[Len(x \o y)] = y[Len(y)]
OBVIOUS

(* It does not matter which two of three sequences are joined first.           *)
LEMMA JoinAgain ==
  \A x, y, z \in Seq(Stdio!Letters) : (x \o y) \o z = x \o (y \o z)
BY ConcatAssociative

(* The program's calls, but write().                                           *)
LEMMA CallsKeep ==
  ASSUME Stdio!FileInv,
         \/ \E f \in {0, 3} : Stdio!MyFopen(f)
         \/ Stdio!MyFopenFails
         \/ \E text \in Chars : Stdio!MyFwrite(text)
         \/ Stdio!EndOfWrite \/ Stdio!MyFFlush \/ Stdio!MyFclose \/ Stdio!Killed
  PROVE  Stdio!FileInv'
<1> USE StdioAssumption
    DEF Stdio!FileInv, Stdio!TypeOK, Stdio!Modes, Stdio!Buffered, Stdio!Whole, Stdio!LineFlushed
<1>1. CASE \E f \in {0, 3} : Stdio!MyFopen(f)
  <2>1. PICK f \in {0, 3} : Stdio!MyFopen(f)
    BY <1>1
  <2>2. r4 = <<>> /\ r6 = <<>> /\ r4' = r4 /\ r6' = r6 /\ r5' \in Seq(Stdio!Letters)
        /\ (r2 # "r" => r5' = <<>>)
    BY <2>1 DEF Stdio!MyFopen
  <2> QED BY <2>1, <2>2 DEF Stdio!MyFopen
<1>2. CASE Stdio!MyFopenFails
  BY <1>2 DEF Stdio!MyFopenFails
<1>3. CASE \E text \in Chars : Stdio!MyFwrite(text)
  <2>1. PICK text \in Chars : Stdio!MyFwrite(text)
    BY <1>3
  <2>2. /\ r4' = r4 \o text /\ r6' = r6 \o text /\ r5' = r5 /\ r2' = r2 /\ r8' = r8
        /\ r1 = "open" /\ r1' \in {"overrun", "written"}
        /\ r1' # "overrun" => Len(r4) + Len(text) <= BufferSize
        /\ r7' \in 0..MaxWrites /\ r3' = r3
    BY <2>1, LettersAre DEF Stdio!MyFwrite
  <2>3. /\ r4' \in Seq(Stdio!Letters) /\ r6' \in Seq(Stdio!Letters) /\ r4' # <<>>
        /\ Len(r4') = Len(r4) + Len(text)
    BY <2>2, LettersAre, CharsJoin
  <2>4. ASSUME Stdio!Whole' PROVE r5' \o r4' = r6'
    <3>1. r5 \o r4 = r6
      BY <2>2, <2>4
    <3>2. (r5 \o r4) \o text = r5 \o (r4 \o text)
      <4>1. r5 \in Seq(Stdio!Letters) /\ r4 \in Seq(Stdio!Letters) /\ text \in Seq(Stdio!Letters)
        BY LettersAre
      <4> QED BY <4>1, JoinAgain, Zenon
    <3> QED BY <2>2, <3>1, <3>2
  <2> QED BY <2>2, <2>3, <2>4
<1>4. CASE Stdio!EndOfWrite
  <2>1. Stdio!Whole => r6 # <<>> /\ r6[Len(r6)] = r4[Len(r4)]
    <3>1. r5 \in Seq(Stdio!Letters) /\ r4 \in Seq(Stdio!Letters) /\ r4 # <<>>
      BY <1>4 DEF Stdio!EndOfWrite
    <3>2. r5 \o r4 # <<>> /\ (r5 \o r4)[Len(r5 \o r4)] = r4[Len(r4)]
      BY <3>1, CharsJoin, Zenon
    <3>3. Stdio!Whole => r5 \o r4 = r6
      OBVIOUS
    <3> QED BY <3>2, <3>3
  <2> QED BY <1>4, <2>1 DEF Stdio!EndOfWrite, Stdio!LineEnds
<1>5. CASE Stdio!MyFFlush
  BY <1>5 DEF Stdio!MyFFlush
<1>6. CASE Stdio!MyFclose
  BY <1>6 DEF Stdio!MyFclose
<1>7. CASE Stdio!Killed
  BY <1>7 DEF Stdio!Killed
<1> QED BY <1>1, <1>2, <1>3, <1>4, <1>5, <1>6, <1>7

(* Whatever write() takes leaves the buffer; a whole buffer goes to the file.    *)
LEMMA WriteKeeps ==
  ASSUME Stdio!FileInv, NEW n \in 0..BufferSize, Stdio!WriteBuffer(n)
  PROVE  Stdio!FileInv'
<1> USE StdioAssumption
    DEF Stdio!FileInv, Stdio!TypeOK, Stdio!Modes, Stdio!Buffered, Stdio!Whole, Stdio!LineFlushed
<1>1. /\ r1 \in {"flush", "close"} /\ n <= Len(r4)
      /\ r5' = r5 \o SubSeq(r4, 1, n) /\ r4' = <<>> /\ r6' = r6
      /\ r8' = (r8 \/ n < Len(r4)) /\ r1' \in {"open", "closed"}
      /\ r2' = r2 /\ r3' = r3 /\ r7' = r7
  BY DEF Stdio!WriteBuffer, Stdio!Emptied, Stdio!AfterFlush
<1>2. r5' \in Seq(Stdio!Letters) /\ r8' \in BOOLEAN
  BY <1>1
<1>3. ASSUME Stdio!Whole' PROVE r5' = r6
  <2>1. ~r8 /\ ~(n < Len(r4))
    <3>1. ~r8'
      BY <1>3
    <3> QED BY <1>1, <3>1, Zenon
  <2>2. SubSeq(r4, 1, Len(r4)) = r4
    OBVIOUS
  <2>3. n = Len(r4)
    BY <1>1, <2>1
  <2>4. r5 \o r4 = r6
    BY <1>1, <1>3, <2>1
  <2> QED BY <1>1, <2>2, <2>3, <2>4
<1>4. r5' \o r4' = r5'
  BY <1>1, <1>2
<1> QED BY <1>1, <1>2, <1>3, <1>4

LEMMA StdioStep ==
  ASSUME Stdio!FileInv, Stdio!Next
  PROVE  Stdio!FileInv'
BY CallsKeep, WriteKeeps DEF Stdio!Next

(* What is out of the buffer is in the file.                                  *)
LEMMA StdioSays == Stdio!FileInv => Stdio!TypeOK /\ Stdio!WrittenKept
BY CharsJoin DEF Stdio!FileInv, Stdio!Buffered, Stdio!Whole, Stdio!LineFlushed, Stdio!WrittenKept

-----------------------------------------------------------------------------
(* The loggers: r1 style, r2 forked, r3 dir, r4 now, r5 tm, r6 lpc, r7 level,   *)
(* r8 stamp, r9 lines, r10 lost, r11 holder, r12 buffer, r13 sinks, r14 overlap. *)

LEMMA ClockIs == Len(Clock) = 2 /\ \A n \in 1..2 : Clock[n] \in Logs!Time
BY DEF Clock, Logs!Time

LEMMA LoggerInit ==
  ASSUME Logs!Init
  PROVE  Logs!LogInv
<1>1. /\ r1 \in {"console", "file", "screen", "onefile", "classfile"} /\ r4 = 1
      /\ r5 = [p \in Loggers |-> Clock[1]] /\ r6 = [t \in Loggers |-> "idle"]
      /\ r7 \in [Loggers -> Levels] /\ r8 = [t \in Loggers |-> Clock[1]]
      /\ r9 = [t \in Loggers |-> 0] /\ r10 = [t \in Loggers |-> {}]
      /\ r11 = [p \in Loggers |-> "nobody"] /\ r12 = [p \in Loggers |-> <<>>]
      /\ r13 = [s \in Logs!Sinks |-> <<>>]
  BY DEF Logs!Init, Logs!Nobody
<1>2. Logs!TypeOK
  <2>1. 0 \in 0..MaxLines
    BY LoggersAssumption
  <2> QED BY <1>1, <2>1 DEF Logs!TypeOK, Logs!Nobody
<1>3. Logs!LogTypes
  <2>1. Clock[1] \in Logs!Time /\ 1 \in 1..Len(Clock) /\ <<>> \in Seq(Logs!Entry)
    BY ClockIs
  <2> QED BY <1>1, <2>1 DEF Logs!LogTypes
<1>4. \A t \in Loggers : /\ r6[t] = "idle" /\ r9[t] = 0 /\ r10[t] = {} /\ r12[t] = <<>>
  BY <1>1
<1>5. Logs!LineGuarded
  BY <1>4 DEF Logs!LineGuarded
<1>6. \A s \in Logs!Sinks : DOMAIN r13[s] = {} /\ Len(r13[s]) = 0
  BY <1>1
<1>7. Logs!LinesPaired
  <2>1. 0 % 2 = 0
    OBVIOUS
  <2> QED BY <1>6, <2>1 DEF Logs!LinesPaired
<1>8. Logs!LinesInTurn
  <2>1. \A t \in Loggers : Logs!SinkOf(t) \in Logs!Sinks
    BY <1>1 DEF Logs!SinkOf, Logs!Sinks
  <2>2. \A t \in Loggers : Logs!Places(t) = {}
    BY <1>6, <2>1 DEF Logs!Places
  <2>3. \A t \in Loggers : Logs!Done(t) = {}
    BY <1>4 DEF Logs!Done
  <2> QED BY <1>4, <2>2, <2>3 DEF Logs!LinesInTurn
<1>9. Logs!TimesShown
  BY <1>4, <1>6 DEF Logs!TimesShown, Logs!InLocaltime
<1> QED BY <1>2, <1>3, <1>5, <1>7, <1>8, <1>9 DEF Logs!LogInv

LEMMA LoggerTypes ==
  ASSUME Logs!LogInv
  PROVE  /\ r1 \in {"console", "file", "screen", "onefile", "classfile"}
         /\ r4 \in 1..2 /\ r7 \in [Loggers -> Levels]
         /\ r5 \in [Loggers -> Logs!Time] /\ r8 \in [Loggers -> Logs!Time]
         /\ r6 \in [Loggers -> {"idle", "lock", "localtime", "format", "open", "insert", "sep", "write"}]
         /\ r11 \in [Loggers -> Loggers \cup {"nobody"}] /\ r9 \in [Loggers -> 0..MaxLines]
         /\ r12 \in [Loggers -> Seq(Logs!Entry)] /\ r13 \in [Logs!Sinks -> Seq(Logs!Entry)]
BY ClockIs DEF Logs!LogInv, Logs!LogTypes, Logs!TypeOK, Logs!Nobody

(* Where a line goes is settled before the first.                              *)
LEMMA PlacesTyped ==
  ASSUME Logs!LogInv, NEW t \in Loggers
  PROVE  /\ Logs!Process(t) \in Loggers /\ Logs!Stream(t) \in Loggers
         /\ Logs!SinkOf(t) \in Logs!Sinks
BY LoggerTypes, LoggersAssumption DEF Logs!Process, Logs!Stream, Logs!SinkOf, Logs!Sinks

LEMMA NamesStay ==
  ASSUME UNCHANGED <<r1, r2, r7>>
  PROVE  \A t : /\ Logs!Process(t)' = Logs!Process(t) /\ Logs!Stream(t)' = Logs!Stream(t)
                /\ Logs!SinkOf(t)' = Logs!SinkOf(t)
BY DEF Logs!Process, Logs!Stream, Logs!SinkOf

LEMMA PlacesStay ==
  ASSUME UNCHANGED <<r1, r2, r7, r13>>
  PROVE  \A t : Logs!Places(t)' = Logs!Places(t)
BY NamesStay DEF Logs!Places

(* A step that writes nothing and ends no line.                                *)
LEMMA TurnStays ==
  ASSUME Logs!LinesInTurn, UNCHANGED <<r1, r2, r7, r9, r10, r13>>,
         \A t \in Loggers : r6'[t] = "idle" <=> r6[t] = "idle"
  PROVE  Logs!LinesInTurn'
<1>1. \A t \in Loggers : Logs!Places(t)' = Logs!Places(t) /\ Logs!SinkOf(t)' = Logs!SinkOf(t)
  BY NamesStay, PlacesStay
<1>2. \A t \in Loggers : Logs!Done(t)' = Logs!Done(t)
  BY DEF Logs!Done
<1> QED BY <1>1, <1>2 DEF Logs!LinesInTurn

(* A line begins: those done with are the same.                                *)
LEMMA TurnBegins ==
  ASSUME Logs!LogInv, UNCHANGED <<r1, r2, r7, r10, r13>>, NEW t \in Loggers,
         r6[t] = "idle", r9' = [r9 EXCEPT ![t] = @ + 1], r6'[t] # "idle",
         \A u \in Loggers : u # t => r6'[u] = r6[u]
  PROVE  Logs!LinesInTurn'
<1>1. \A u \in Loggers : Logs!Places(u)' = Logs!Places(u) /\ Logs!SinkOf(u)' = Logs!SinkOf(u)
  BY NamesStay, PlacesStay
<1>2. /\ r9'[t] = r9[t] + 1 /\ r9[t] \in Nat /\ \A u \in Loggers : u # t => r9'[u] = r9[u]
  BY LoggerTypes
<1>3. \A u \in Loggers : Logs!Done(u)' = Logs!Done(u)
  <2>1. Logs!Done(t)' = Logs!Done(t)
    BY <1>2 DEF Logs!Done
  <2>2. \A u \in Loggers : u # t => Logs!Done(u)' = Logs!Done(u)
    BY <1>2 DEF Logs!Done
  <2> QED BY <2>1, <2>2
<1>4. \A u \in Loggers : r6'[u] # "idle" => r9'[u] > 0
  BY <1>2 DEF Logs!LogInv, Logs!LinesInTurn
<1> QED BY <1>1, <1>3, <1>4 DEF Logs!LogInv, Logs!LinesInTurn

(* A line whose file could not be opened is lost, and its number with it.        *)
LEMMA TurnLost ==
  ASSUME Logs!LogInv, UNCHANGED <<r1, r2, r7, r9, r13>>, NEW t \in Loggers,
         r6[t] # "idle", r6' = [r6 EXCEPT ![t] = "idle"],
         r10' = [r10 EXCEPT ![t] = @ \cup {r9[t]}]
  PROVE  Logs!LinesInTurn'
<1>1. \A u \in Loggers : Logs!Places(u)' = Logs!Places(u) /\ Logs!SinkOf(u)' = Logs!SinkOf(u)
  BY NamesStay, PlacesStay
<1>2. r9[t] \in Nat /\ r9[t] > 0
  BY LoggerTypes DEF Logs!LogInv, Logs!LinesInTurn
<1>3. r6'[t] = "idle" /\ \A u \in Loggers : u # t => r6'[u] = r6[u]
  BY LoggerTypes
<1>4. /\ \A u \in Loggers : u # t => r10'[u] = r10[u]
      /\ r10'[t] = r10[t] \cup {r9[t]}
  BY DEF Logs!LogInv, Logs!LogTypes
<1>5. Logs!Done(t)' = 1..r9[t] /\ Logs!Done(t) = 1..(r9[t] - 1)
  BY <1>3 DEF Logs!Done
<1>6. Logs!Done(t)' \ r10'[t] = Logs!Done(t) \ r10[t] /\ r10'[t] \subseteq Logs!Done(t)'
  BY <1>2, <1>4, <1>5 DEF Logs!LogInv, Logs!LinesInTurn
<1>7. \A u \in Loggers : u # t => Logs!Done(u)' = Logs!Done(u)
  BY <1>3 DEF Logs!Done
<1> QED BY <1>1, <1>3, <1>4, <1>6, <1>7 DEF Logs!LogInv, Logs!LinesInTurn

(* The entry that a line is, and what follows it.                              *)
LEMMA LineTyped ==
  ASSUME Logs!LogInv, NEW t \in Loggers, r6[t] # "idle"
  PROVE  /\ Logs!LineOf(t) \in Logs!Entry /\ Logs!Sep \in Logs!Entry
         /\ Logs!IsLine(Logs!LineOf(t)) /\ ~ Logs!IsLine(Logs!Sep)
         /\ Logs!LineOf(t)[1] = t /\ Logs!LineOf(t)[2] = r9[t] /\ Logs!LineOf(t)[3] = r8[t]
<1>1. r9[t] \in 1..MaxLines
  <2>1. r9[t] \in 0..MaxLines
    BY LoggerTypes
  <2>2. r9[t] > 0
    BY DEF Logs!LogInv, Logs!LinesInTurn
  <2> QED BY <2>1, <2>2
<1>2. r8[t] \in Logs!Time
  BY LoggerTypes
<1> HIDE DEF Logs!Time
<1>3. Logs!LineOf(t) = <<t, r9[t], r8[t]>>
  BY DEF Logs!LineOf
<1>4. Len(<<t, r9[t], r8[t]>>) = 3 /\ Len(<<"gsep">>) = 1 /\ 1 # 3
  OBVIOUS
<1> QED BY <1>1, <1>2, <1>3, <1>4 DEF Logs!Entry, Logs!Sep, Logs!IsLine

LEMMA LineAppended ==
  ASSUME NEW E, NEW q \in Seq(E), NEW x \in E, NEW y \in E
  PROVE  /\ q \o <<x, y>> \in Seq(E) /\ Len(q \o <<x, y>>) = Len(q) + 2
         /\ \A i \in 1..Len(q) : (q \o <<x, y>>)[i] = q[i]
         /\ (q \o <<x, y>>)[Len(q) + 1] = x /\ (q \o <<x, y>>)[Len(q) + 2] = y
         /\ Append(<<x>>, y) = <<x, y>>
<1>1. <<x, y>> \in Seq(E) /\ Len(<<x, y>>) = 2 /\ <<x, y>>[1] = x /\ <<x, y>>[2] = y
  OBVIOUS
<1>2. Append(<<x>>, y) = <<x, y>>
  <2> DEFINE a == Append(<<x>>, y)
             b == <<x, y>>
  <2>1. <<x>> \in Seq(E) /\ Len(<<x>>) = 1 /\ <<x>>[1] = x
    OBVIOUS
  <2>2. a \in Seq(E) /\ Len(a) = 2 /\ a[1] = x /\ a[2] = y
    BY <2>1, AppendProperties
  <2>3. b \in Seq(E) /\ Len(b) = 2 /\ b[1] = x /\ b[2] = y
    BY <1>1
  <2> HIDE DEF a, b
  <2>4. \A i \in 1..Len(a) : a[i] = b[i]
    BY <2>2, <2>3
  <2>5. a = b
    BY <2>2, <2>3, <2>4, SeqEqual
  <2> QED BY <2>5 DEF a, b
<1> DEFINE z == <<x, y>>
<1> HIDE DEF z
<1>3. /\ q \o z \in Seq(E) /\ Len(q \o z) = Len(q) + 2
      /\ \A i \in 1..Len(q) : (q \o z)[i] = q[i]
      /\ (q \o z)[Len(q) + 1] = z[1] /\ (q \o z)[Len(q) + 2] = z[2]
  BY <1>1 DEF z
<1> QED BY <1>1, <1>2, <1>3 DEF z

(* A line and its separator reach the file: every file is whole as before, and  *)
(* the number is the next of its logger.                                      *)
LEMMA LineWritten ==
  ASSUME Logs!LogInv, UNCHANGED <<r1, r2, r7, r9, r10>>, NEW t \in Loggers,
         r6[t] # "idle", r6' = [r6 EXCEPT ![t] = "idle"],
         r13' = [r13 EXCEPT ![Logs!SinkOf(t)] = @ \o <<Logs!LineOf(t), Logs!Sep>>]
  PROVE  /\ r13' \in [Logs!Sinks -> Seq(Logs!Entry)]
         /\ Logs!LinesPaired' /\ Logs!LinesInTurn'
         /\ \A s \in Logs!Sinks : \A i \in DOMAIN r13'[s] : Logs!IsLine(r13'[s][i]) =>
                \/ i \in DOMAIN r13[s] /\ r13'[s][i] = r13[s][i]
                \/ r13'[s][i] = Logs!LineOf(t)
<1> DEFINE k == Logs!SinkOf(t)
           L == Logs!LineOf(t)
           n == Len(r13[k])
           q == r13[k] \o <<L, Logs!Sep>>
<1>1. k \in Logs!Sinks /\ r13 \in [Logs!Sinks -> Seq(Logs!Entry)] /\ r13[k] \in Seq(Logs!Entry)
  BY PlacesTyped, LoggerTypes
<1>2. /\ L \in Logs!Entry /\ Logs!Sep \in Logs!Entry
      /\ Logs!IsLine(L) /\ ~ Logs!IsLine(Logs!Sep)
      /\ L[1] = t /\ L[2] = r9[t]
  BY LineTyped
<1>3. r13' = [r13 EXCEPT ![k] = q]
  OBVIOUS
<1> HIDE DEF k, L
<1>4. /\ q \in Seq(Logs!Entry) /\ n \in Nat /\ Len(q) = n + 2
      /\ \A i \in 1..n : q[i] = r13[k][i]
      /\ q[n + 1] = L /\ q[n + 2] = Logs!Sep
  BY <1>1, <1>2, LineAppended
<1>5. DOMAIN q = 1..(n + 2) /\ DOMAIN r13[k] = 1..n
  BY <1>1, <1>4
<1> HIDE DEF q, n
<1>6. /\ r13'[k] = q /\ \A s \in Logs!Sinks : s # k => r13'[s] = r13[s]
      /\ r13' \in [Logs!Sinks -> Seq(Logs!Entry)]
  BY <1>1, <1>3, <1>4
<1>7. Logs!LinesPaired'
  <2>1. n % 2 = 0 /\ \A i \in 1..n : Logs!IsLine(r13[k][i]) <=> i % 2 = 1
    BY <1>1, <1>5 DEF Logs!LogInv, Logs!LinesPaired, n
  <2>2. (n + 2) % 2 = 0 /\ (n + 1) % 2 = 1 /\ ~ ((n + 2) % 2 = 1)
    BY <1>4, <2>1
  <2>3. \A i \in 1..(n + 2) : i \in 1..n \/ i = n + 1 \/ i = n + 2
    BY <1>4
  <2>4. \A i \in DOMAIN q : Logs!IsLine(q[i]) <=> i % 2 = 1
    BY <1>2, <1>4, <1>5, <2>1, <2>2, <2>3
  <2>5. Len(q) % 2 = 0
    BY <1>4, <2>2
  <2>6. \A s \in Logs!Sinks :
           Len(r13'[s]) % 2 = 0 /\ \A i \in DOMAIN r13'[s] : Logs!IsLine(r13'[s][i]) <=> i % 2 = 1
    BY <1>6, <2>4, <2>5 DEF Logs!LogInv, Logs!LinesPaired
  <2> QED BY <2>6 DEF Logs!LinesPaired, Logs!Sinks, Logs!IsLine
<1>8. \A s \in Logs!Sinks : \A i \in DOMAIN r13'[s] : Logs!IsLine(r13'[s][i]) =>
          \/ i \in DOMAIN r13[s] /\ r13'[s][i] = r13[s][i]
          \/ r13'[s][i] = L
  <2>1. \A i \in 1..(n + 2) : i \in 1..n \/ i = n + 1 \/ i = n + 2
    BY <1>4
  <2> QED BY <1>2, <1>4, <1>5, <1>6, <2>1
<1>9. r6'[t] = "idle" /\ \A u \in Loggers : u # t => r6'[u] = r6[u]
  BY LoggerTypes
<1>10. \A u \in Loggers : Logs!SinkOf(u)' = Logs!SinkOf(u) /\ Logs!SinkOf(u) \in Logs!Sinks
  BY NamesStay, PlacesTyped
<1>11. \A u \in Loggers : u # t => Logs!Places(u)' = Logs!Places(u) /\ Logs!Done(u)' = Logs!Done(u)
  <2> SUFFICES ASSUME NEW u \in Loggers, u # t
               PROVE  Logs!Places(u)' = Logs!Places(u) /\ Logs!Done(u)' = Logs!Done(u)
    OBVIOUS
  <2>1. Logs!Places(u)' = {i \in DOMAIN r13'[Logs!SinkOf(u)] :
            Logs!IsLine(r13'[Logs!SinkOf(u)][i]) /\ r13'[Logs!SinkOf(u)][i][1] = u}
    BY <1>10 DEF Logs!Places, Logs!IsLine
  <2>2. Logs!Places(u) = {i \in DOMAIN r13[Logs!SinkOf(u)] :
            Logs!IsLine(r13[Logs!SinkOf(u)][i]) /\ r13[Logs!SinkOf(u)][i][1] = u}
    BY DEF Logs!Places
  <2>3. {i \in DOMAIN q : Logs!IsLine(q[i]) /\ q[i][1] = u}
            = {i \in DOMAIN r13[k] : Logs!IsLine(r13[k][i]) /\ r13[k][i][1] = u}
    <3>1. \A i \in 1..(n + 2) : i \in 1..n \/ i = n + 1 \/ i = n + 2
      BY <1>4
    <3>2. \A i \in 1..n : i \in 1..(n + 2)
      BY <1>4
    <3> QED BY <1>2, <1>4, <1>5, <3>1, <3>2
  <2>4. Logs!Done(u)' = Logs!Done(u)
    BY <1>9 DEF Logs!Done
  <2> QED BY <1>6, <1>10, <2>1, <2>2, <2>3, <2>4
<1>12. \A u \in Loggers : u # t => \A i \in Logs!Places(u) : r13'[Logs!SinkOf(u)][i] = r13[Logs!SinkOf(u)][i]
  BY <1>4, <1>5, <1>6, <1>10 DEF Logs!Places
<1>13. Logs!Places(t)' = Logs!Places(t) \cup {n + 1} /\ \A i \in Logs!Places(t) : i \in 1..n
  <2>1. Logs!Places(t)' = {i \in DOMAIN q : Logs!IsLine(q[i]) /\ q[i][1] = t}
    BY <1>6, <1>10 DEF Logs!Places, Logs!IsLine, k
  <2>2. Logs!Places(t) = {i \in DOMAIN r13[k] : Logs!IsLine(r13[k][i]) /\ r13[k][i][1] = t}
    BY DEF Logs!Places, k
  <2>3. \A i \in 1..(n + 2) : i \in 1..n \/ i = n + 1 \/ i = n + 2
    BY <1>4
  <2>4. \A i \in 1..n : i \in 1..(n + 2)
    BY <1>4
  <2>5. n + 1 \in 1..(n + 2)
    BY <1>4
  <2> QED BY <1>2, <1>4, <1>5, <2>1, <2>2, <2>3, <2>4, <2>5
<1>14. r9[t] \in Nat /\ r9[t] > 0 /\ Logs!Done(t)' = 1..r9[t] /\ Logs!Done(t) = 1..(r9[t] - 1)
  BY <1>9, LoggerTypes DEF Logs!Done, Logs!LogInv, Logs!LinesInTurn
<1>15. /\ r10[t] \subseteq Logs!Done(t)
       /\ \A i, j \in Logs!Places(t) : i < j => r13[k][i][2] < r13[k][j][2]
       /\ {r13[k][i][2] : i \in Logs!Places(t)} = Logs!Done(t) \ r10[t]
  BY DEF Logs!LogInv, Logs!LinesInTurn, k
<1>16. /\ r10[t] \subseteq Logs!Done(t)'
       /\ \A i, j \in Logs!Places(t)' : i < j => r13'[k][i][2] < r13'[k][j][2]
       /\ {r13'[k][i][2] : i \in Logs!Places(t)'} = Logs!Done(t)' \ r10[t]
  <2>1. \A i \in Logs!Places(t) : r13'[k][i] = r13[k][i] /\ i < n + 1 /\ ~ (n + 1 < i)
    BY <1>4, <1>6, <1>13
  <2>2. r13'[k][n + 1][2] = r9[t]
    BY <1>2, <1>4, <1>6
  <2>3. \A i \in Logs!Places(t) : r13[k][i][2] \in 1..(r9[t] - 1)
    BY <1>14, <1>15
  <2>4. \A i, j \in Logs!Places(t)' : i < j => r13'[k][i][2] < r13'[k][j][2]
    <3> SUFFICES ASSUME NEW i \in Logs!Places(t)', NEW j \in Logs!Places(t)', i < j
                 PROVE  r13'[k][i][2] < r13'[k][j][2]
      OBVIOUS
    <3>1. i \in Logs!Places(t)
      BY <1>4, <1>13, <2>1
    <3>2. CASE j \in Logs!Places(t)
      BY <1>15, <2>1, <3>1, <3>2
    <3>3. CASE j = n + 1
      <4>1. r13'[k][i][2] = r13[k][i][2] /\ r13[k][i][2] \in 1..(r9[t] - 1)
        BY <2>1, <2>3, <3>1
      <4>2. r13'[k][j][2] = r9[t]
        BY <2>2, <3>3
      <4>3. r13[k][i][2] < r9[t]
        BY <1>14, <4>1
      <4> QED BY <4>1, <4>2, <4>3
    <3> QED BY <1>13, <3>2, <3>3
  <2>5. {r13'[k][i][2] : i \in Logs!Places(t)'} = {r13[k][i][2] : i \in Logs!Places(t)} \cup {r9[t]}
    BY <1>13, <2>1, <2>2, ZenonT(40)
  <2>6. r10[t] \subseteq Logs!Done(t)' /\ Logs!Done(t)' \ r10[t] = (Logs!Done(t) \ r10[t]) \cup {r9[t]}
    BY <1>14, <1>15
  <2> QED BY <1>15, <2>4, <2>5, <2>6
<1>17. Logs!LinesInTurn'
  <2>1. /\ r6'[t] # "idle" => r9[t] > 0
        /\ r10[t] \subseteq Logs!Done(t)'
        /\ \A i, j \in Logs!Places(t)' :
               i < j => r13'[Logs!SinkOf(t)][i][2] < r13'[Logs!SinkOf(t)][j][2]
        /\ {r13'[Logs!SinkOf(t)][i][2] : i \in Logs!Places(t)'} = Logs!Done(t)' \ r10[t]
    BY <1>9, <1>16 DEF k
  <2>2. ASSUME NEW u \in Loggers, u # t
        PROVE  /\ r6'[u] # "idle" => r9[u] > 0
               /\ r10[u] \subseteq Logs!Done(u)'
               /\ \A i, j \in Logs!Places(u)' :
                      i < j => r13'[Logs!SinkOf(u)][i][2] < r13'[Logs!SinkOf(u)][j][2]
               /\ {r13'[Logs!SinkOf(u)][i][2] : i \in Logs!Places(u)'} = Logs!Done(u)' \ r10[u]
    <3>1. /\ r6[u] # "idle" => r9[u] > 0
          /\ r10[u] \subseteq Logs!Done(u)
          /\ \A i, j \in Logs!Places(u) :
                 i < j => r13[Logs!SinkOf(u)][i][2] < r13[Logs!SinkOf(u)][j][2]
          /\ {r13[Logs!SinkOf(u)][i][2] : i \in Logs!Places(u)} = Logs!Done(u) \ r10[u]
      BY DEF Logs!LogInv, Logs!LinesInTurn
    <3>2. /\ Logs!Places(u)' = Logs!Places(u) /\ Logs!Done(u)' = Logs!Done(u)
          /\ r6'[u] = r6[u]
      BY <1>9, <1>11, <2>2
    <3>3. \A i \in Logs!Places(u) : r13'[Logs!SinkOf(u)][i] = r13[Logs!SinkOf(u)][i]
      BY <1>12, <2>2
    <3>4. {r13'[Logs!SinkOf(u)][i][2] : i \in Logs!Places(u)} = {r13[Logs!SinkOf(u)][i][2] : i \in Logs!Places(u)}
      BY <3>3
    <3> QED BY <3>1, <3>2, <3>3, <3>4
  <2> QED BY <1>10, <2>1, <2>2 DEF Logs!LinesInTurn
<1> QED BY <1>6, <1>7, <1>8, <1>17 DEF L

LEMMA GuardStays ==
  ASSUME Logs!LogInv, UNCHANGED <<r1, r2, r7, r11, r12>>, NEW t \in Loggers,
         r6[t] \notin {"open", "insert", "sep"}, r6'[t] \notin {"open", "insert", "sep"},
         \A u \in Loggers : u # t => r6'[u] = r6[u] /\ r8'[u] = r8[u] /\ r9'[u] = r9[u]
  PROVE  Logs!LineGuarded'
<1>1. \A u \in Loggers : u # t => Logs!LineOf(u)' = Logs!LineOf(u)
  BY DEF Logs!LineOf
<1> QED BY <1>1, NamesStay DEF Logs!LogInv, Logs!LineGuarded

(* A logger whose time is in its line has no more to do with the struct.        *)
LEMMA TimesStay ==
  ASSUME Logs!LogInv, Logs!TimesShown, UNCHANGED <<r1, r2, r4, r5, r7, r8>>,
         NEW t \in Loggers, r6[t] # "idle", r6'[t] \notin {"localtime", "format"},
         \A u \in Loggers : u # t => r6'[u] = r6[u],
         \A s \in Logs!Sinks : \A i \in DOMAIN r13'[s] : Logs!IsLine(r13'[s][i]) =>
             \/ i \in DOMAIN r13[s] /\ r13'[s][i] = r13[s][i]
             \/ r13'[s][i] = Logs!LineOf(t)
  PROVE  Logs!TimesShown'
<1>1. \A x : Logs!ClockHasShown(x) => Logs!ClockHasShown(x)'
  BY DEF Logs!ClockHasShown
<1>2. Logs!ClockHasShown(r8[t]) /\ Logs!LineOf(t)[3] = r8[t]
  BY LineTyped DEF Logs!TimesShown
<1>3. \A s \in Logs!Sinks : \A i \in DOMAIN r13'[s] :
          Logs!IsLine(r13'[s][i]) => Logs!ClockHasShown(r13'[s][i][3])
  BY <1>2 DEF Logs!TimesShown
<1>4. \A s \in Logs!Sinks : \A i \in DOMAIN r13'[s] :
          Logs!IsLine(r13'[s][i]) => \E n \in 1..r4 : r13'[s][i][3] = Clock[n]
  BY <1>3 DEF Logs!ClockHasShown
<1>5. \A u \in Loggers : r6'[u] # "idle" => \E n \in 1..r4 : r8[u] = Clock[n]
  BY <1>2 DEF Logs!TimesShown, Logs!ClockHasShown
<1>6. \A u \in Loggers : /\ r6'[u] = "localtime" => r5[Logs!Process(u)][1] = r8[u][1]
                         /\ r6'[u] = "format" => r5[Logs!Process(u)] = r8[u]
  BY DEF Logs!TimesShown
<1>7. \A u, v \in Loggers : u # v /\ r6'[u] \in {"localtime", "format"} /\ r6'[v] \in {"localtime", "format"}
                            => Logs!Process(u) # Logs!Process(v)
  BY DEF Logs!TimesShown, Logs!InLocaltime
<1>8. \A u : Logs!Process(u)' = Logs!Process(u)
  BY NamesStay
<1> QED BY <1>4, <1>5, <1>6, <1>7, <1>8
        DEF Logs!TimesShown, Logs!ClockHasShown, Logs!InLocaltime, Logs!IsLine, Logs!Sinks

LEMMA TickKeepsLog ==
  ASSUME Logs!LogInv, Logs!Tick
  PROVE  Logs!LogInv'
<1>1. /\ r4 < Len(Clock) /\ r4' = r4 + 1
      /\ UNCHANGED <<r1, r2, r3, r5, r6, r7, r8, r9, r10, r11, r12, r13, r14>>
  BY DEF Logs!Tick
<1>2. r4' \in 1..Len(Clock) /\ r4' \in Nat /\ r4 <= r4'
  BY <1>1, LoggerTypes, ClockIs
<1>3. Logs!TypeOK' /\ Logs!LogTypes'
  BY <1>1, <1>2 DEF Logs!LogInv, Logs!TypeOK, Logs!LogTypes
<1>4. Logs!LinesInTurn'
  BY <1>1, TurnStays DEF Logs!LogInv
<1>5. Logs!LineGuarded' /\ Logs!LinesPaired'
  <2>1. \A u \in Loggers : Logs!LineOf(u)' = Logs!LineOf(u)
    BY <1>1 DEF Logs!LineOf
  <2> QED BY <1>1, <2>1, NamesStay DEF Logs!LogInv, Logs!LineGuarded, Logs!LinesPaired
<1>6. Logs!TimesShown => Logs!TimesShown'
  <2>1. \A x : Logs!ClockHasShown(x) => \E n \in 1..r4' : x = Clock[n]
    BY <1>2, LoggerTypes DEF Logs!ClockHasShown
  <2>2. \A u : Logs!Process(u)' = Logs!Process(u) /\ (Logs!InLocaltime(u)' <=> Logs!InLocaltime(u))
    BY <1>1, NamesStay DEF Logs!InLocaltime
  <2> QED BY <1>1, <2>1, <2>2 DEF Logs!TimesShown, Logs!ClockHasShown
<1> QED BY <1>1, <1>3, <1>4, <1>5, <1>6 DEF Logs!LogInv

LEMMA NowShown ==
  ASSUME Logs!LogInv
  PROVE  Logs!ClockHasShown(Clock[r4])
<1>1. r4 \in 1..2
  BY LoggerTypes
<1>2. r4 \in 1..r4
  BY <1>1
<1> QED BY <1>2 DEF Logs!ClockHasShown

LEMMA LogMessageKeeps ==
  ASSUME Logs!LogInv, NEW t \in Loggers, Logs!LogMessage(t)
  PROVE  Logs!LogInv'
<1>1. /\ r6[t] = "idle" /\ r9[t] < MaxLines
      /\ r9' = [r9 EXCEPT ![t] = @ + 1] /\ r8' = [r8 EXCEPT ![t] = Clock[r4]]
      /\ r6' = [r6 EXCEPT ![t] = "lock"]
      /\ UNCHANGED <<r1, r2, r3, r4, r5, r7, r10, r11, r12, r13, r14>>
  BY DEF Logs!LogMessage, Logs!Go
<1>2. Clock[r4] \in Logs!Time
  BY LoggerTypes, ClockIs
<1>3. /\ r6' \in [Loggers -> {"idle", "lock", "localtime", "format", "open", "insert", "sep", "write"}]
      /\ r8' \in [Loggers -> Logs!Time]
      /\ r6'[t] = "lock" /\ r8'[t] = Clock[r4]
      /\ \A u \in Loggers : u # t => r6'[u] = r6[u] /\ r8'[u] = r8[u] /\ r9'[u] = r9[u]
  BY <1>1, <1>2, LoggerTypes
<1>4. r9' \in [Loggers -> 0..MaxLines]
  <2>1. r9[t] + 1 \in 0..MaxLines
    BY <1>1, LoggerTypes, LoggersAssumption
  <2> QED BY <1>1, <2>1, LoggerTypes
<1>5. Logs!TypeOK' /\ Logs!LogTypes'
  BY <1>1, <1>3, <1>4 DEF Logs!LogInv, Logs!TypeOK, Logs!LogTypes
<1>6. Logs!LinesInTurn'
  BY <1>1, <1>3, TurnBegins
<1>7. Logs!LineGuarded'
  BY <1>1, <1>3, GuardStays
<1>8. Logs!LinesPaired'
  BY <1>1 DEF Logs!LogInv, Logs!LinesPaired
<1>9. Logs!TimesShown => Logs!TimesShown'
  <2>1. Logs!ClockHasShown(Clock[r4])
    BY NowShown
  <2>2. \A u : Logs!Process(u)' = Logs!Process(u)
    BY <1>1, NamesStay
  <2>3. ~ Logs!InLocaltime(t)' /\ \A u \in Loggers : u # t => (Logs!InLocaltime(u)' <=> Logs!InLocaltime(u))
    BY <1>3 DEF Logs!InLocaltime
  <2> QED BY <1>1, <1>3, <2>1, <2>2, <2>3 DEF Logs!TimesShown, Logs!ClockHasShown
<1> QED BY <1>1, <1>5, <1>6, <1>7, <1>8, <1>9 DEF Logs!LogInv

(* localtime's struct has the minute of the line that begins, unless another     *)
(* thread was there.                                                          *)
LEMMA BeginLogMessageKeeps ==
  ASSUME Logs!LogInv, NEW t \in Loggers, Logs!BeginLogMessage(t)
  PROVE  Logs!LogInv'
<1> DEFINE p == Logs!Process(t)
<1>1. /\ r6[t] = "idle" /\ r9[t] < MaxLines
      /\ r9' = [r9 EXCEPT ![t] = @ + 1] /\ r8' = [r8 EXCEPT ![t] = Clock[r4]]
      /\ r5' = [r5 EXCEPT ![p] = [r5[p] EXCEPT ![1] = Clock[r4][1]]]
      /\ r6' = [r6 EXCEPT ![t] = "localtime"]
      /\ UNCHANGED <<r1, r2, r3, r4, r7, r10, r11, r12, r13>>
  BY DEF Logs!BeginLogMessage, Logs!Go
<1>2. ~ r14' => /\ ~ r14
                /\ \A u \in Loggers : u # t => ~ (Logs!InLocaltime(u) /\ Logs!Process(u) = p)
  BY Zenon DEF Logs!BeginLogMessage
<1>3. Clock[r4] \in Logs!Time /\ p \in Loggers /\ r5[p] \in Logs!Time
  BY LoggerTypes, ClockIs, PlacesTyped
<1> HIDE DEF p
<1>4. /\ r6' \in [Loggers -> {"idle", "lock", "localtime", "format", "open", "insert", "sep", "write"}]
      /\ r8' \in [Loggers -> Logs!Time]
      /\ r6'[t] = "localtime" /\ r8'[t] = Clock[r4]
      /\ \A u \in Loggers : u # t => r6'[u] = r6[u] /\ r8'[u] = r8[u] /\ r9'[u] = r9[u]
  BY <1>1, <1>3, LoggerTypes
<1>5. r9' \in [Loggers -> 0..MaxLines]
  <2>1. r9[t] + 1 \in 0..MaxLines
    BY <1>1, LoggerTypes, LoggersAssumption
  <2> QED BY <1>1, <2>1, LoggerTypes
<1>6. /\ r5' \in [Loggers -> Logs!Time] /\ r5'[p][1] = Clock[r4][1]
      /\ \A q \in Loggers : q # p => r5'[q] = r5[q]
  <2> DEFINE v == [r5[p] EXCEPT ![1] = Clock[r4][1]]
  <2>1. v = <<Clock[r4][1], r5[p][2]>> /\ v \in Logs!Time /\ v[1] = Clock[r4][1]
    BY <1>3 DEF Logs!Time
  <2>2. r5' = [r5 EXCEPT ![p] = v]
    BY <1>1
  <2> HIDE DEF v
  <2> QED BY <1>3, <2>1, <2>2, LoggerTypes
<1>7. Logs!TypeOK' /\ Logs!LogTypes'
  BY <1>1, <1>4, <1>5, <1>6 DEF Logs!LogInv, Logs!TypeOK, Logs!LogTypes
<1>8. Logs!LinesInTurn'
  BY <1>1, <1>4, TurnBegins
<1>9. Logs!LineGuarded'
  BY <1>1, <1>4, GuardStays
<1>10. Logs!LinesPaired'
  BY <1>1 DEF Logs!LogInv, Logs!LinesPaired
<1>11. ~ r14' => Logs!TimesShown'
  <2> SUFFICES ASSUME ~ r14'
               PROVE  Logs!TimesShown'
    OBVIOUS
  <2>1. /\ Logs!TimesShown
        /\ \A u \in Loggers : u # t => ~ (Logs!InLocaltime(u) /\ Logs!Process(u) = p)
    BY <1>2 DEF Logs!LogInv
  <2>2. Logs!ClockHasShown(Clock[r4])
    BY NowShown
  <2>3. \A u \in Loggers : Logs!Process(u)' = Logs!Process(u) /\ Logs!Process(u) \in Loggers
    BY <1>1, NamesStay, PlacesTyped
  <2>4. Logs!InLocaltime(t)' /\ \A u \in Loggers : u # t => (Logs!InLocaltime(u)' <=> Logs!InLocaltime(u))
    BY <1>4 DEF Logs!InLocaltime
  <2>5. \A u \in Loggers : u # t /\ Logs!InLocaltime(u) => r5'[Logs!Process(u)] = r5[Logs!Process(u)]
    BY <1>6, <2>1, <2>3
  <2>6. \A u \in Loggers : r6'[u] = "localtime" => r5'[Logs!Process(u)][1] = r8'[u][1]
    BY <1>4, <1>6, <2>1, <2>5 DEF Logs!TimesShown, Logs!InLocaltime, p
  <2>7. \A u \in Loggers : r6'[u] = "format" => r5'[Logs!Process(u)] = r8'[u]
    BY <1>4, <2>1, <2>5 DEF Logs!TimesShown, Logs!InLocaltime
  <2>8. \A u, v \in Loggers : u # v /\ Logs!InLocaltime(u)' /\ Logs!InLocaltime(v)' => Logs!Process(u) # Logs!Process(v)
    BY <2>1, <2>4 DEF Logs!TimesShown, p
  <2>9. \A u \in Loggers : r6'[u] # "idle" => \E n \in 1..r4 : r8'[u] = Clock[n]
    BY <1>4, <2>1, <2>2 DEF Logs!TimesShown, Logs!ClockHasShown
  <2>10. \A s \in Logs!Sinks : \A i \in DOMAIN r13[s] :
             Logs!IsLine(r13[s][i]) => \E n \in 1..r4 : r13[s][i][3] = Clock[n]
    BY <2>1 DEF Logs!TimesShown, Logs!ClockHasShown
  <2> QED BY <1>1, <2>3, <2>6, <2>7, <2>8, <2>9, <2>10 DEF Logs!TimesShown, Logs!ClockHasShown
<1> QED BY <1>7, <1>8, <1>9, <1>10, <1>11 DEF Logs!LogInv

LEMMA LocaltimeKeeps ==
  ASSUME Logs!LogInv, NEW t \in Loggers, Logs!Localtime(t)
  PROVE  Logs!LogInv'
<1> DEFINE p == Logs!Process(t)
<1>1. /\ r6[t] = "localtime"
      /\ r5' = [r5 EXCEPT ![p] = [r5[p] EXCEPT ![2] = r8[t][2]]]
      /\ r6' = [r6 EXCEPT ![t] = "format"]
      /\ UNCHANGED <<r1, r2, r3, r4, r7, r8, r9, r10, r11, r12, r13, r14>>
  BY DEF Logs!Localtime, Logs!Go
<1>2. r8[t] \in Logs!Time /\ p \in Loggers /\ r5[p] \in Logs!Time
  BY LoggerTypes, PlacesTyped
<1> HIDE DEF p
<1>3. /\ r6' \in [Loggers -> {"idle", "lock", "localtime", "format", "open", "insert", "sep", "write"}]
      /\ r6'[t] = "format" /\ \A u \in Loggers : u # t => r6'[u] = r6[u]
  BY <1>1, LoggerTypes
<1>4. /\ r5' \in [Loggers -> Logs!Time]
      /\ r5'[p] = <<r5[p][1], r8[t][2]>>
      /\ \A q \in Loggers : q # p => r5'[q] = r5[q]
  <2> DEFINE v == [r5[p] EXCEPT ![2] = r8[t][2]]
  <2>1. v = <<r5[p][1], r8[t][2]>> /\ v \in Logs!Time
    BY <1>2 DEF Logs!Time
  <2>2. r5' = [r5 EXCEPT ![p] = v]
    BY <1>1
  <2> HIDE DEF v
  <2> QED BY <1>2, <2>1, <2>2, LoggerTypes
<1>5. Logs!TypeOK' /\ Logs!LogTypes'
  BY <1>1, <1>3, <1>4 DEF Logs!LogInv, Logs!TypeOK, Logs!LogTypes
<1>6. Logs!LinesInTurn'
  BY <1>1, <1>3, TurnStays DEF Logs!LogInv
<1>7. Logs!LineGuarded'
  BY <1>1, <1>3, GuardStays
<1>8. Logs!LinesPaired'
  BY <1>1 DEF Logs!LogInv, Logs!LinesPaired
<1>9. ASSUME Logs!TimesShown
      PROVE  Logs!TimesShown'
  <2>1. r5[p][1] = r8[t][1] /\ r8[t] = <<r8[t][1], r8[t][2]>>
    BY <1>1, <1>2, <1>9 DEF Logs!TimesShown, Logs!Time, p
  <2>2. r5'[p] = r8[t]
    BY <1>4, <2>1
  <2>3. \A u \in Loggers : Logs!Process(u)' = Logs!Process(u) /\ Logs!Process(u) \in Loggers
    BY <1>1, NamesStay, PlacesTyped
  <2>4. \A u \in Loggers : Logs!InLocaltime(u)' <=> Logs!InLocaltime(u)
    BY <1>1, <1>3 DEF Logs!InLocaltime
  <2>5. \A u \in Loggers : u # t /\ Logs!InLocaltime(u) => r5'[Logs!Process(u)] = r5[Logs!Process(u)]
    BY <1>1, <1>4, <1>9, <2>3 DEF Logs!TimesShown, Logs!InLocaltime, p
  <2>6. \A u \in Loggers : r6'[u] = "localtime" => r5'[Logs!Process(u)][1] = r8[u][1]
    BY <1>3, <1>9, <2>5 DEF Logs!TimesShown, Logs!InLocaltime
  <2>7. \A u \in Loggers : r6'[u] = "format" => r5'[Logs!Process(u)] = r8[u]
    BY <1>3, <1>9, <2>2, <2>5 DEF Logs!TimesShown, Logs!InLocaltime, p
  <2>8. \A u, v \in Loggers : u # v /\ Logs!InLocaltime(u)' /\ Logs!InLocaltime(v)' => Logs!Process(u) # Logs!Process(v)
    BY <1>9, <2>4 DEF Logs!TimesShown
  <2>9. \A u \in Loggers : r6'[u] # "idle" => \E n \in 1..r4 : r8[u] = Clock[n]
    BY <1>1, <1>3, <1>9 DEF Logs!TimesShown, Logs!ClockHasShown
  <2>10. \A s \in Logs!Sinks : \A i \in DOMAIN r13[s] :
             Logs!IsLine(r13[s][i]) => \E n \in 1..r4 : r13[s][i][3] = Clock[n]
    BY <1>9 DEF Logs!TimesShown, Logs!ClockHasShown
  <2> QED BY <1>1, <2>3, <2>6, <2>7, <2>8, <2>9, <2>10 DEF Logs!TimesShown, Logs!ClockHasShown
<1> QED BY <1>1, <1>5, <1>6, <1>7, <1>8, <1>9 DEF Logs!LogInv

LEMMA FormatKeeps ==
  ASSUME Logs!LogInv, NEW t \in Loggers, Logs!Format(t)
  PROVE  Logs!LogInv'
<1> DEFINE p == Logs!Process(t)
<1>1. /\ r6[t] = "format" /\ r8' = [r8 EXCEPT ![t] = r5[p]]
      /\ r6' = [r6 EXCEPT ![t] = "write"]
      /\ UNCHANGED <<r1, r2, r3, r4, r5, r7, r9, r10, r11, r12, r13, r14>>
  BY DEF Logs!Format, Logs!Go
<1>2. p \in Loggers /\ r5[p] \in Logs!Time
  BY LoggerTypes, PlacesTyped
<1>3. /\ r6' \in [Loggers -> {"idle", "lock", "localtime", "format", "open", "insert", "sep", "write"}]
      /\ r8' \in [Loggers -> Logs!Time]
      /\ r6'[t] = "write" /\ r8'[t] = r5[p]
      /\ \A u \in Loggers : u # t => r6'[u] = r6[u] /\ r8'[u] = r8[u]
  BY <1>1, <1>2, LoggerTypes
<1>4. Logs!TypeOK' /\ Logs!LogTypes'
  BY <1>1, <1>3 DEF Logs!LogInv, Logs!TypeOK, Logs!LogTypes
<1>5. Logs!LinesInTurn'
  BY <1>1, <1>3, TurnStays DEF Logs!LogInv
<1>6. Logs!LineGuarded'
  BY <1>1, <1>3, GuardStays
<1>7. Logs!LinesPaired'
  BY <1>1 DEF Logs!LogInv, Logs!LinesPaired
<1>8. ASSUME Logs!TimesShown
      PROVE  Logs!TimesShown'
  <2>1. r8'[t] = r8[t]
    BY <1>1, <1>3, <1>8 DEF Logs!TimesShown
  <2>2. \A u \in Loggers : r8'[u] = r8[u]
    BY <1>3, <2>1
  <2>3. \A u \in Loggers : Logs!Process(u)' = Logs!Process(u)
    BY <1>1, NamesStay
  <2>4. ~ Logs!InLocaltime(t)' /\ \A u \in Loggers : u # t => (Logs!InLocaltime(u)' <=> Logs!InLocaltime(u))
    BY <1>3 DEF Logs!InLocaltime
  <2> QED BY <1>1, <1>3, <1>8, <2>2, <2>3, <2>4 DEF Logs!TimesShown, Logs!ClockHasShown
<1> QED BY <1>1, <1>4, <1>5, <1>6, <1>7, <1>8 DEF Logs!LogInv

(* The mutex is free: nobody of the process has a line under way.                *)
LEMMA SyncLogKeeps ==
  ASSUME Logs!LogInv, NEW t \in Loggers, Logs!SyncLog(t)
  PROVE  Logs!LogInv'
<1> DEFINE p == Logs!Process(t)
<1>1. /\ r6[t] = "lock" /\ r11[p] = "nobody" /\ r11' = [r11 EXCEPT ![p] = t]
      /\ \E pc \in {"open", "insert"} : r6' = [r6 EXCEPT ![t] = pc]
      /\ UNCHANGED <<r1, r2, r3, r4, r5, r7, r8, r9, r10, r12, r13, r14>>
  BY DEF Logs!SyncLog, Logs!Go, Logs!CanLock, Logs!Nobody
<1>2. PICK pc \in {"open", "insert"} : r6' = [r6 EXCEPT ![t] = pc]
  BY <1>1
<1>3. p \in Loggers
  BY PlacesTyped
<1> HIDE DEF p
<1>4. /\ r6' \in [Loggers -> {"idle", "lock", "localtime", "format", "open", "insert", "sep", "write"}]
      /\ r6'[t] = pc /\ \A u \in Loggers : u # t => r6'[u] = r6[u]
      /\ r11' \in [Loggers -> Loggers \cup {"nobody"}]
      /\ r11'[p] = t /\ \A q \in Loggers : q # p => r11'[q] = r11[q]
  BY <1>1, <1>2, <1>3, LoggerTypes
<1>5. Logs!TypeOK' /\ Logs!LogTypes'
  BY <1>1, <1>4 DEF Logs!LogInv, Logs!TypeOK, Logs!LogTypes, Logs!Nobody
<1>6. Logs!LinesInTurn'
  BY <1>1, <1>2, <1>4, TurnStays DEF Logs!LogInv
<1>7. Logs!LineGuarded'
  <2>1. \A u \in Loggers : r6[u] \in {"open", "insert", "sep"} => r11[Logs!Process(u)] = u /\ u # t
    BY <1>1 DEF Logs!LogInv, Logs!LineGuarded
  <2>2. \A u \in Loggers : r6[u] \in {"open", "insert", "sep"} => Logs!Process(u) # p /\ Logs!Process(u) \in Loggers
    BY <1>1, <2>1, PlacesTyped, LoggersAssumption
  <2>3. \A u \in Loggers : r6'[u] \in {"open", "insert", "sep"} => r11'[Logs!Process(u)] = u
    BY <1>4, <2>1, <2>2 DEF p
  <2>4. \A u : Logs!LineOf(u)' = Logs!LineOf(u)
    BY <1>1 DEF Logs!LineOf
  <2>5. \A u \in Loggers : r6'[u] = "sep" <=> r6[u] = "sep"
    BY <1>1, <1>4
  <2>6. \A u : Logs!Process(u)' = Logs!Process(u) /\ Logs!Stream(u)' = Logs!Stream(u)
    BY <1>1, NamesStay
  <2> QED BY <1>1, <2>3, <2>4, <2>5, <2>6 DEF Logs!LogInv, Logs!LineGuarded
<1>8. Logs!LinesPaired'
  BY <1>1 DEF Logs!LogInv, Logs!LinesPaired
<1>9. Logs!TimesShown => Logs!TimesShown'
  BY <1>1, <1>4, TimesStay
<1> QED BY <1>1, <1>5, <1>6, <1>7, <1>8, <1>9 DEF Logs!LogInv

LEMMA OpenKeeps ==
  ASSUME Logs!LogInv, NEW t \in Loggers, NEW works \in BOOLEAN, Logs!Open(t, works)
  PROVE  Logs!LogInv'
<1> DEFINE p == Logs!Process(t)
<1>1. /\ r6[t] = "open"
      /\ \/ r6' = [r6 EXCEPT ![t] = "insert"] /\ UNCHANGED <<r10, r11>>
         \/ /\ r6' = [r6 EXCEPT ![t] = "idle"]
            /\ r10' = [r10 EXCEPT ![t] = @ \cup {r9[t]}]
            /\ r11' = [r11 EXCEPT ![p] = "nobody"]
      /\ UNCHANGED <<r1, r2, r3, r4, r5, r7, r8, r9, r12, r13, r14>>
  BY DEF Logs!Open, Logs!Go, Logs!Nobody
<1>2. p \in Loggers
  BY PlacesTyped
<1> HIDE DEF p
<1>3. PICK pc \in {"insert", "idle"} : r6' = [r6 EXCEPT ![t] = pc]
  BY <1>1
<1>4. /\ r6' \in [Loggers -> {"idle", "lock", "localtime", "format", "open", "insert", "sep", "write"}]
      /\ r6'[t] = pc /\ \A u \in Loggers : u # t => r6'[u] = r6[u]
  BY <1>3, LoggerTypes
<1>5. r11' \in [Loggers -> Loggers \cup {"nobody"}]
  BY <1>1, LoggerTypes
<1>6. r10' \in [Loggers -> SUBSET Nat]
  <2>1. r9[t] \in Nat /\ r10 \in [Loggers -> SUBSET Nat]
    BY LoggerTypes DEF Logs!LogInv, Logs!LogTypes
  <2> QED BY <1>1, <2>1
<1>7. Logs!TypeOK' /\ Logs!LogTypes'
  BY <1>1, <1>4, <1>5, <1>6 DEF Logs!LogInv, Logs!TypeOK, Logs!LogTypes, Logs!Nobody
<1>8. Logs!LinesInTurn'
  <2>1. CASE r6' = [r6 EXCEPT ![t] = "insert"] /\ UNCHANGED <<r10, r11>>
    <3>1. \A u \in Loggers : r6'[u] = "idle" <=> r6[u] = "idle"
      BY <1>1, <2>1, LoggerTypes
    <3> QED BY <1>1, <2>1, <3>1, TurnStays DEF Logs!LogInv
  <2>2. CASE r6' = [r6 EXCEPT ![t] = "idle"] /\ r10' = [r10 EXCEPT ![t] = @ \cup {r9[t]}]
    BY <1>1, <2>2, TurnLost
  <2> QED BY <1>1, <2>1, <2>2
<1>9. Logs!LineGuarded'
  <2>1. \A u \in Loggers : u # t /\ r6[u] \in {"open", "insert", "sep"}
            => /\ r11[Logs!Process(u)] = u /\ Logs!Process(u) # p
               /\ Logs!Process(u) \in Loggers
    BY <1>1, PlacesTyped DEF Logs!LogInv, Logs!LineGuarded, p
  <2>2. \A u \in Loggers : u # t /\ r6[u] \in {"open", "insert", "sep"} => r11'[Logs!Process(u)] = u
    BY <1>1, <1>2, <2>1, LoggerTypes
  <2>3. r6'[t] \in {"open", "insert", "sep"} => r11'[p] = t
    BY <1>1, <1>4 DEF Logs!LogInv, Logs!LineGuarded, p
  <2>4. \A u \in Loggers : r6'[u] \in {"open", "insert", "sep"} => r11'[Logs!Process(u)] = u
    BY <1>4, <2>2, <2>3 DEF p
  <2>5. \A u : Logs!LineOf(u)' = Logs!LineOf(u)
    BY <1>1 DEF Logs!LineOf
  <2>6. \A u \in Loggers : r6'[u] = "sep" <=> r6[u] = "sep"
    BY <1>1, <1>4
  <2>7. \A u : Logs!Process(u)' = Logs!Process(u) /\ Logs!Stream(u)' = Logs!Stream(u)
    BY <1>1, NamesStay
  <2> QED BY <1>1, <2>4, <2>5, <2>6, <2>7 DEF Logs!LogInv, Logs!LineGuarded
<1>10. Logs!LinesPaired'
  BY <1>1 DEF Logs!LogInv, Logs!LinesPaired
<1>11. Logs!TimesShown => Logs!TimesShown'
  BY <1>1, <1>4, TimesStay
<1> QED BY <1>1, <1>7, <1>8, <1>9, <1>10, <1>11 DEF Logs!LogInv

(* Two lines under way are in two streams.                                     *)
LEMMA StreamsApart ==
  ASSUME Logs!LogInv, NEW t \in Loggers, NEW u \in Loggers, t # u,
         r6[t] \in {"open", "insert", "sep"}, r6[u] \in {"open", "insert", "sep"}
  PROVE  Logs!Stream(t) # Logs!Stream(u) /\ Logs!Process(t) # Logs!Process(u)
BY DEF Logs!LogInv, Logs!LineGuarded, Logs!Stream

LEMMA InsertLineKeeps ==
  ASSUME Logs!LogInv, NEW t \in Loggers, Logs!Insert(t)
  PROVE  Logs!LogInv'
<1> DEFINE k == Logs!Stream(t)
<1>1. /\ r6[t] = "insert" /\ r12' = [r12 EXCEPT ![k] = Append(r12[k], Logs!LineOf(t))]
      /\ r6' = [r6 EXCEPT ![t] = "sep"]
      /\ UNCHANGED <<r1, r2, r3, r4, r5, r7, r8, r9, r10, r11, r13, r14>>
  BY DEF Logs!Insert, Logs!Go
<1>2. /\ k \in Loggers
      /\ \A u \in Loggers : r6[u] \in {"open", "insert", "sep"} /\ u # t => Logs!Stream(u) # k
  BY <1>1, PlacesTyped, StreamsApart
<1> HIDE DEF k
<1>3. /\ r6' \in [Loggers -> {"idle", "lock", "localtime", "format", "open", "insert", "sep", "write"}]
      /\ r6'[t] = "sep" /\ \A u \in Loggers : u # t => r6'[u] = r6[u]
  BY <1>1, LoggerTypes
<1>4. r12[k] = <<>>
  BY <1>1, <1>2 DEF Logs!LogInv, Logs!LineGuarded
<1>5. Logs!LineOf(t) \in Logs!Entry
  BY <1>1, LineTyped
<1>6. Append(<<>>, Logs!LineOf(t)) = <<Logs!LineOf(t)>> /\ <<Logs!LineOf(t)>> \in Seq(Logs!Entry)
  BY <1>5
<1>7. /\ r12' \in [Loggers -> Seq(Logs!Entry)] /\ r12'[k] = <<Logs!LineOf(t)>>
      /\ \A q \in Loggers : q # k => r12'[q] = r12[q]
  <2>1. r12' = [r12 EXCEPT ![k] = <<Logs!LineOf(t)>>]
    BY <1>1, <1>4, <1>6
  <2> QED BY <1>2, <1>6, <2>1, LoggerTypes
<1>8. Logs!TypeOK' /\ Logs!LogTypes'
  BY <1>1, <1>3, <1>7 DEF Logs!LogInv, Logs!TypeOK, Logs!LogTypes
<1>9. Logs!LinesInTurn'
  BY <1>1, <1>3, TurnStays DEF Logs!LogInv
<1>10. Logs!LineGuarded'
  <2>1. \A u : Logs!LineOf(u)' = Logs!LineOf(u)
    BY <1>1 DEF Logs!LineOf
  <2>2. \A u \in Loggers : /\ Logs!Process(u)' = Logs!Process(u) /\ Logs!Stream(u)' = Logs!Stream(u)
                           /\ Logs!Stream(u) \in Loggers
    BY <1>1, NamesStay, PlacesTyped
  <2>3. \A u \in Loggers : r6'[u] = "sep" => r12'[Logs!Stream(u)] = <<Logs!LineOf(u)>>
    <3>1. \A u \in Loggers : u # t /\ r6[u] = "sep"
              => Logs!Stream(u) # k /\ r12[Logs!Stream(u)] = <<Logs!LineOf(u)>>
      BY <1>2 DEF Logs!LogInv, Logs!LineGuarded
    <3> QED BY <1>3, <1>7, <2>2, <3>1 DEF k
  <2>4. \A q \in Loggers : (\A u \in Loggers : r6'[u] = "sep" => Logs!Stream(u) # q) => r12'[q] = <<>>
    <3> SUFFICES ASSUME NEW q \in Loggers, \A u \in Loggers : r6'[u] = "sep" => Logs!Stream(u) # q
                 PROVE  r12'[q] = <<>>
      OBVIOUS
    <3>1. q # k
      BY <1>3 DEF k
    <3>2. \A u \in Loggers : r6[u] = "sep" => Logs!Stream(u) # q
      BY <1>1, <1>3
    <3> QED BY <1>7, <3>1, <3>2 DEF Logs!LogInv, Logs!LineGuarded
  <2>5. \A u \in Loggers : r6'[u] \in {"open", "insert", "sep"} => r11[Logs!Process(u)] = u
    BY <1>1, <1>3 DEF Logs!LogInv, Logs!LineGuarded
  <2> QED BY <1>1, <2>1, <2>2, <2>3, <2>4, <2>5 DEF Logs!LineGuarded
<1>11. Logs!LinesPaired'
  BY <1>1 DEF Logs!LogInv, Logs!LinesPaired
<1>12. Logs!TimesShown => Logs!TimesShown'
  BY <1>1, <1>3, TimesStay
<1> QED BY <1>1, <1>8, <1>9, <1>10, <1>11, <1>12 DEF Logs!LogInv

(* The separator: what leaves the stream is the one line.                       *)
LEMMA EndLineKeeps ==
  ASSUME Logs!LogInv, NEW t \in Loggers, Logs!EndLine(t)
  PROVE  Logs!LogInv'
<1> DEFINE k == Logs!Stream(t)
           p == Logs!Process(t)
<1>1. /\ r6[t] = "sep"
      /\ r13' = [r13 EXCEPT ![Logs!SinkOf(t)] = @ \o Append(r12[k], Logs!Sep)]
      /\ r12' = [r12 EXCEPT ![k] = <<>>] /\ r11' = [r11 EXCEPT ![p] = "nobody"]
      /\ r6' = [r6 EXCEPT ![t] = "idle"]
      /\ UNCHANGED <<r1, r2, r3, r4, r5, r7, r8, r9, r10, r14>>
  BY DEF Logs!EndLine, Logs!Go, Logs!Nobody
<1>2. /\ k \in Loggers /\ p \in Loggers /\ r12[k] = <<Logs!LineOf(t)>>
      /\ \A u \in Loggers : r6[u] \in {"open", "insert", "sep"} /\ u # t
             => Logs!Stream(u) # k /\ Logs!Process(u) # p
  <2>1. r12[k] = <<Logs!LineOf(t)>>
    BY <1>1 DEF Logs!LogInv, Logs!LineGuarded
  <2> QED BY <1>1, <2>1, PlacesTyped, StreamsApart
<1> HIDE DEF k, p
<1>3. /\ r6' \in [Loggers -> {"idle", "lock", "localtime", "format", "open", "insert", "sep", "write"}]
      /\ r6'[t] = "idle" /\ \A u \in Loggers : u # t => r6'[u] = r6[u]
      /\ r11' \in [Loggers -> Loggers \cup {"nobody"}]
      /\ \A q \in Loggers : q # p => r11'[q] = r11[q]
      /\ r12'[k] = <<>> /\ \A q \in Loggers : q # k => r12'[q] = r12[q]
  BY <1>1, <1>2, LoggerTypes
<1>4. r12' \in [Loggers -> Seq(Logs!Entry)]
  <2>1. <<>> \in Seq(Logs!Entry) /\ r12 \in [Loggers -> Seq(Logs!Entry)]
    BY LoggerTypes
  <2> QED BY <1>1, <2>1
<1>5. r13' = [r13 EXCEPT ![Logs!SinkOf(t)] = @ \o <<Logs!LineOf(t), Logs!Sep>>]
  <2>1. Logs!LineOf(t) \in Logs!Entry /\ Logs!Sep \in Logs!Entry /\ r12[k] \in Seq(Logs!Entry)
    BY <1>1, <1>2, LineTyped, LoggerTypes
  <2>2. Append(<<Logs!LineOf(t)>>, Logs!Sep) = <<Logs!LineOf(t), Logs!Sep>>
    BY <2>1, LineAppended
  <2> QED BY <1>1, <1>2, <2>2
<1>6. /\ r13' \in [Logs!Sinks -> Seq(Logs!Entry)] /\ Logs!LinesPaired' /\ Logs!LinesInTurn'
      /\ \A s \in Logs!Sinks : \A i \in DOMAIN r13'[s] : Logs!IsLine(r13'[s][i]) =>
             \/ i \in DOMAIN r13[s] /\ r13'[s][i] = r13[s][i]
             \/ r13'[s][i] = Logs!LineOf(t)
  <2>1. r6[t] # "idle" /\ r6' = [r6 EXCEPT ![t] = "idle"] /\ UNCHANGED <<r1, r2, r7, r9, r10>>
    BY <1>1
  <2> QED BY <1>5, <2>1, LineWritten
<1>7. Logs!TypeOK' /\ Logs!LogTypes'
  <2>1. Logs!Sinks' = Logs!Sinks /\ Logs!Entry' = Logs!Entry
    BY DEF Logs!Sinks, Logs!Entry
  <2> QED BY <1>1, <1>3, <1>4, <1>6 DEF Logs!LogInv, Logs!TypeOK, Logs!LogTypes, Logs!Nobody
<1>8. Logs!LineGuarded'
  <2>1. \A u : Logs!LineOf(u)' = Logs!LineOf(u)
    BY <1>1 DEF Logs!LineOf
  <2>2. \A u \in Loggers : /\ Logs!Process(u)' = Logs!Process(u) /\ Logs!Stream(u)' = Logs!Stream(u)
                           /\ Logs!Stream(u) \in Loggers /\ Logs!Process(u) \in Loggers
    BY <1>1, NamesStay, PlacesTyped
  <2>3. \A u \in Loggers : r6'[u] \in {"open", "insert", "sep"} => u # t /\ r6[u] \in {"open", "insert", "sep"}
    BY <1>3
  <2>4. \A u \in Loggers : r6'[u] \in {"open", "insert", "sep"} => r11'[Logs!Process(u)] = u
    <3>1. \A u \in Loggers : r6[u] \in {"open", "insert", "sep"} => r11[Logs!Process(u)] = u
      BY DEF Logs!LogInv, Logs!LineGuarded
    <3> QED BY <1>2, <1>3, <2>2, <2>3, <3>1
  <2>5. \A u \in Loggers : r6'[u] = "sep" => r12'[Logs!Stream(u)] = <<Logs!LineOf(u)>>
    <3>1. \A u \in Loggers : r6[u] = "sep" => r12[Logs!Stream(u)] = <<Logs!LineOf(u)>>
      BY DEF Logs!LogInv, Logs!LineGuarded
    <3> QED BY <1>2, <1>3, <2>2, <2>3, <3>1
  <2>6. \A q \in Loggers : (\A u \in Loggers : r6'[u] = "sep" => Logs!Stream(u) # q) => r12'[q] = <<>>
    <3> SUFFICES ASSUME NEW q \in Loggers, q # k, \A u \in Loggers : r6'[u] = "sep" => Logs!Stream(u) # q
                 PROVE  r12'[q] = <<>>
      BY <1>3
    <3>1. \A u \in Loggers : r6[u] = "sep" => Logs!Stream(u) # q
      BY <1>3 DEF k
    <3> QED BY <1>3, <3>1 DEF Logs!LogInv, Logs!LineGuarded
  <2> QED BY <1>1, <2>1, <2>2, <2>4, <2>5, <2>6 DEF Logs!LineGuarded
<1>9. Logs!TimesShown => Logs!TimesShown'
  BY <1>1, <1>3, <1>6, TimesStay
<1> QED BY <1>1, <1>6, <1>7, <1>8, <1>9 DEF Logs!LogInv

LEMMA WriteLogKeeps ==
  ASSUME Logs!LogInv, NEW t \in Loggers, NEW works \in BOOLEAN, Logs!WriteLog(t, works)
  PROVE  Logs!LogInv'
<1>1. /\ r6[t] = "write"
      /\ \/ /\ r13' = [r13 EXCEPT ![Logs!SinkOf(t)] = @ \o <<Logs!LineOf(t), Logs!Sep>>]
            /\ r10' = r10
         \/ r10' = [r10 EXCEPT ![t] = @ \cup {r9[t]}] /\ r13' = r13
      /\ r6' = [r6 EXCEPT ![t] = "idle"]
      /\ UNCHANGED <<r1, r2, r3, r4, r5, r7, r8, r9, r11, r12, r14>>
  BY DEF Logs!WriteLog, Logs!Go
<1>2. /\ r6' \in [Loggers -> {"idle", "lock", "localtime", "format", "open", "insert", "sep", "write"}]
      /\ r6'[t] = "idle" /\ \A u \in Loggers : u # t => r6'[u] = r6[u]
  BY <1>1, LoggerTypes
<1>3. r10' \in [Loggers -> SUBSET Nat]
  <2>1. r9[t] \in Nat /\ r10 \in [Loggers -> SUBSET Nat]
    BY LoggerTypes DEF Logs!LogInv, Logs!LogTypes
  <2> QED BY <1>1, <2>1
<1>4. /\ r13' \in [Logs!Sinks -> Seq(Logs!Entry)] /\ Logs!LinesPaired' /\ Logs!LinesInTurn'
      /\ \A s \in Logs!Sinks : \A i \in DOMAIN r13'[s] : Logs!IsLine(r13'[s][i]) =>
             \/ i \in DOMAIN r13[s] /\ r13'[s][i] = r13[s][i]
             \/ r13'[s][i] = Logs!LineOf(t)
  <2>1. r6[t] # "idle" /\ r6' = [r6 EXCEPT ![t] = "idle"] /\ UNCHANGED <<r1, r2, r7, r9>>
    BY <1>1
  <2>2. CASE /\ r13' = [r13 EXCEPT ![Logs!SinkOf(t)] = @ \o <<Logs!LineOf(t), Logs!Sep>>]
             /\ r10' = r10
    BY <2>1, <2>2, LineWritten
  <2>3. CASE r10' = [r10 EXCEPT ![t] = @ \cup {r9[t]}] /\ r13' = r13
    <3>1. Logs!LinesInTurn'
      BY <2>1, <2>3, TurnLost
    <3>2. Logs!LinesPaired'
      BY <2>3 DEF Logs!LogInv, Logs!LinesPaired
    <3> QED BY <2>3, <3>1, <3>2, LoggerTypes
  <2> QED BY <1>1, <2>2, <2>3
<1>5. Logs!TypeOK' /\ Logs!LogTypes'
  BY <1>1, <1>2, <1>3, <1>4 DEF Logs!LogInv, Logs!TypeOK, Logs!LogTypes
<1>6. Logs!LineGuarded'
  BY <1>1, <1>2, GuardStays
<1>7. Logs!TimesShown => Logs!TimesShown'
  BY <1>1, <1>2, <1>4, TimesStay
<1> QED BY <1>1, <1>4, <1>5, <1>6, <1>7 DEF Logs!LogInv

LEMMA LoggerStep ==
  ASSUME Logs!LogInv, Logs!Next
  PROVE  Logs!LogInv'
BY TickKeepsLog, LogMessageKeeps, BeginLogMessageKeeps, LocaltimeKeeps, FormatKeeps, SyncLogKeeps,
   OpenKeeps, InsertLineKeeps, EndLineKeeps, WriteLogKeeps
DEF Logs!Next

(* Whoever is idle is done with all its lines.                                  *)
LEMMA LoggerSays ==
  ASSUME Logs!LogInv
  PROVE  Logs!LinesWhole
<1>1. \A s \in Logs!Sinks : \A i \in DOMAIN r13[s] : Logs!IsLine(r13[s][i]) <=> i % 2 = 1
  BY DEF Logs!LogInv, Logs!LinesPaired
<1>2. \A s \in Logs!Sinks : \A i \in DOMAIN r13[s] :
          Logs!IsLine(r13[s][i]) /\ ~ r14 => \E n \in 1..r4 : r13[s][i][3] = Clock[n]
  BY DEF Logs!LogInv, Logs!TimesShown, Logs!ClockHasShown
<1>3. \A t \in Loggers :
         /\ \A i, j \in Logs!Places(t) :
                i < j => r13[Logs!SinkOf(t)][i][2] < r13[Logs!SinkOf(t)][j][2]
         /\ {r13[Logs!SinkOf(t)][i][2] : i \in Logs!Places(t)} = Logs!Done(t) \ r10[t]
  BY DEF Logs!LogInv, Logs!LinesInTurn
<1>4. \A t \in Loggers : r6[t] = "idle" => Logs!Done(t) = 1..r9[t]
  BY DEF Logs!Done
<1> QED BY <1>1, <1>2, <1>3, <1>4 DEF Logs!LinesWhole

(* A step that changes nothing keeps it.                                       *)
LEMMA LoggerStays ==
  ASSUME Logs!LogInv, UNCHANGED <<r1, r2, r3, r4, r5, r6, r7, r8, r9, r10, r11, r12, r13, r14, r15,
                     r16, r17>>
  PROVE  Logs!LogInv'
<1>1. Logs!TypeOK' <=> Logs!TypeOK
  BY DEF Logs!TypeOK
<1>2. Logs!LogTypes' <=> Logs!LogTypes
  BY DEF Logs!LogTypes
<1>3. Logs!LineGuarded' <=> Logs!LineGuarded
  BY DEF Logs!LineGuarded, Logs!Process, Logs!Stream, Logs!LineOf
<1>4. Logs!LinesPaired' <=> Logs!LinesPaired
  BY DEF Logs!LinesPaired
<1>5. Logs!LinesInTurn' <=> Logs!LinesInTurn
  BY DEF Logs!LinesInTurn, Logs!Done, Logs!Places, Logs!SinkOf
<1>6. Logs!TimesShown' <=> Logs!TimesShown
  BY DEF Logs!TimesShown, Logs!ClockHasShown, Logs!Process, Logs!InLocaltime
<1> QED BY <1>1, <1>2, <1>3, <1>4, <1>5, <1>6 DEF Logs!LogInv

-----------------------------------------------------------------------------
(* The shells: r1 spc, r2 line, r3 argv, r4 redir, r5 filename, r6 lastcode,     *)
(* r7 cwd, r8 dirs, r9 pwd, r10 files, r11 status, r12 order, r13 typed, r14 eof. *)

LEMMA LastOf ==
  ASSUME NEW n \in Nat, NEW T, T \subseteq 1..n, T # {}
  PROVE  \E x \in T : \A y \in T : y <= x
<1> DEFINE Gaps == {k \in 0..n : n - k \in T}
<1>1. Gaps \subseteq Nat
  OBVIOUS
<1>2. Gaps # {}
  <2>1. PICK y \in T : TRUE
    OBVIOUS
  <2>2. n - y \in 0..n /\ n - (n - y) = y
    BY <2>1
  <2> QED BY <2>1, <2>2
<1>3. PICK k \in Gaps : \A j \in Gaps : k <= j
  BY <1>1, <1>2, Smallest
<1>4. ASSUME NEW y \in T
      PROVE  y <= n - k
  <2>1. n - y \in 0..n /\ n - (n - y) = y
    OBVIOUS
  <2>2. n - y \in Gaps
    BY <2>1
  <2>3. k <= n - y /\ k \in 0..n /\ y \in 1..n
    BY <1>3, <2>2
  <2> QED BY <2>3
<1>5. n - k \in T
  BY <1>3
<1> QED BY <1>4, <1>5

Tokens == {"prog", "cd", "tmp", "echo", "$?", "nope", "x"}

LEMMA OrdersAre ==
  \A o \in Orders : /\ o.argv \in Seq(Tokens) /\ o.mode \in {"none", "in", "out", "app"}
                    /\ o.file = "f" /\ o.blank \in BOOLEAN /\ o.newline \in BOOLEAN
<1>1. /\ <<"prog">> \in Seq(Tokens) /\ <<>> \in Seq(Tokens) /\ <<"cd">> \in Seq(Tokens)
      /\ <<"cd", "tmp">> \in Seq(Tokens) /\ <<"echo">> \in Seq(Tokens)
      /\ <<"echo", "$?">> \in Seq(Tokens) /\ <<"nope">> \in Seq(Tokens)
      /\ <<"prog", "x", "x">> \in Seq(Tokens)
  BY DEF Tokens
<1>2. TRUE \in BOOLEAN /\ FALSE \in BOOLEAN
  OBVIOUS
<1> HIDE DEF Tokens
<1> SUFFICES ASSUME NEW o \in Orders
             PROVE  /\ o.argv \in Seq(Tokens) /\ o.mode \in {"none", "in", "out", "app"}
                    /\ o.file = "f" /\ o.blank \in BOOLEAN /\ o.newline \in BOOLEAN
  OBVIOUS
<1>3. PICK argv \in Seq(Tokens), mode \in {"none", "in", "out", "app"},
           blank \in BOOLEAN, newline \in BOOLEAN : o = Order(argv, mode, blank, newline)
  BY <1>1, <1>2 DEF Orders
<1>4. /\ o.argv = argv /\ o.mode = mode /\ o.file = "f" /\ o.blank = blank
      /\ o.newline = newline
  BY <1>3, Zenon DEF Order
<1> QED BY <1>4

LEMMA ShellWordsAre == /\ \A o \in Orders : o.argv \in Seq(Myshell!OrderWords)
                       /\ Myshell!OrderWords \subseteq Tokens
                       /\ \A w \in Myshell!OrderWords : w \notin {"<", ">", " "}
<1>1. Myshell!OrderWords \subseteq Tokens
  BY OrdersAre DEF Myshell!OrderWords
<1>2. \A o \in Orders : o.argv \in Seq(Myshell!OrderWords)
  <2> SUFFICES ASSUME NEW o \in Orders
               PROVE  o.argv \in Seq(Myshell!OrderWords)
    OBVIOUS
  <2>1. o.argv \in Seq(Tokens)
    BY OrdersAre
  <2>2. \A i \in DOMAIN o.argv : o.argv[i] \in Myshell!OrderWords
    BY DEF Myshell!OrderWords
  <2> QED BY <2>1, <2>2
<1>3. \A w \in Tokens : w \notin {"<", ">", " "}
  BY DEF Tokens
<1> QED BY <1>1, <1>2, <1>3

LEMMA ShellTextIs == /\ Myshell!OrderWords \subseteq Myshell!Text
                     /\ \A s \in {"<", ">", " ", "f", "cut", "garbage"} : s \in Myshell!Text
BY DEF Tokens, Myshell!Text, Myshell!Symbols, Myshell!Blank, Myshell!CutWord, Myshell!Garbage

LEMMA ShellBehindIs ==
  /\ Myshell!Behind("none", "f") = <<>> /\ Myshell!Behind("in", "f") = <<"<", "f">>
  /\ Myshell!Behind("out", "f") = <<">", "f">> /\ Myshell!Behind("app", "f") = <<">", ">", "f">>
BY DEF Myshell!Behind

LEMMA ShellBehindTyped ==
  ASSUME NEW mode \in {"none", "in", "out", "app"}
  PROVE  Myshell!Behind(mode, "f") \in Seq(Myshell!Text)
<1>1. "<" \in Myshell!Text /\ ">" \in Myshell!Text /\ "f" \in Myshell!Text
  BY ShellTextIs
<1>2. /\ <<>> \in Seq(Myshell!Text) /\ <<"<", "f">> \in Seq(Myshell!Text)
      /\ <<">", "f">> \in Seq(Myshell!Text) /\ <<">", ">", "f">> \in Seq(Myshell!Text)
  BY <1>1
<1> QED BY <1>2, ShellBehindIs

(* RedirCheck takes a line apart at its last symbol.                           *)
LEMMA ShellParts ==
  ASSUME NEW cmd \in Seq(Myshell!Text), NEW r, r = Myshell!Redirection(cmd)
  PROVE  /\ r.redir \in {"none", "in", "out", "app"} /\ r.filename \in Seq(Myshell!Text)
         /\ r.rest \in Seq(Myshell!Text) /\ Len(r.rest) <= Len(cmd)
<1> DEFINE at == {k \in DOMAIN cmd : cmd[k] \in Myshell!Symbols}
           i == CHOOSE k \in at : \A j \in at : j <= k
           append == i > 1 /\ cmd[i] = ">" /\ cmd[i - 1] = ">"
<1>1. CASE at = {}
  <2>1. r = Myshell!NoRedir(cmd)
    BY <1>1 DEF Myshell!Redirection
  <2> QED BY <2>1, EmptySeq DEF Myshell!NoRedir
<1>2. CASE at # {}
  <2>1. Len(cmd) \in Nat /\ DOMAIN cmd = 1..Len(cmd) /\ \A k \in 1..Len(cmd) : cmd[k] \in Myshell!Text
    BY LenProperties, ElementOfSeq
  <2>2. at \subseteq 1..Len(cmd)
    BY <2>1
  <2>3. \E k \in at : \A j \in at : j <= k
    BY <1>2, <2>1, <2>2, LastOf
  <2>4. i \in at
    BY <2>3
  <2>5. i \in 1..Len(cmd)
    BY <2>2, <2>4
  <2>6. /\ r.redir = CASE cmd[i] = "<" -> "in" [] append -> "app" [] OTHER -> "out"
        /\ r.filename = SubSeq(cmd, i + 1, Len(cmd))
        /\ r.rest = SubSeq(cmd, 1, IF append THEN i - 2 ELSE i - 1)
    BY <1>2 DEF Myshell!Redirection
  <2> HIDE DEF i
  <2>7. r.filename \in Seq(Myshell!Text)
    <3>1. \A k \in (i + 1)..Len(cmd) : cmd[k] \in Myshell!Text
      BY <2>1, <2>5
    <3> QED BY <2>1, <2>5, <2>6, <3>1, SubSeqProperties
  <2>8. PICK last \in Int : /\ last = (IF append THEN i - 2 ELSE i - 1)
                            /\ last >= 0 /\ last < Len(cmd)
    BY <2>1, <2>5
  <2>9. \A k \in 1..last : cmd[k] \in Myshell!Text
    BY <2>1, <2>8
  <2>10. r.rest = SubSeq(cmd, 1, last)
    BY <2>6, <2>8
  <2>11. /\ SubSeq(cmd, 1, last) \in Seq(Myshell!Text)
         /\ Len(SubSeq(cmd, 1, last)) = (IF 1 <= last THEN last - 1 + 1 ELSE 0)
    BY <2>8, <2>9, SubSeqProperties
  <2>12. r.redir \in {"none", "in", "out", "app"}
    BY <2>6
  <2> QED BY <2>1, <2>7, <2>8, <2>10, <2>11, <2>12
<1> QED BY <1>1, <1>2

LEMMA FirstPart ==
  ASSUME NEW S, NEW s \in Seq(S), NEW t \in Seq(S)
  PROVE  SubSeq(s \o t, 1, Len(s)) = s
<1>1. CASE s = <<>>
  BY <1>1, SubSeqEmpty, EmptySeq
<1>2. CASE s # <<>>
  <2>1. Len(s) \in Nat \ {0}
    BY <1>2, EmptySeq
  <2>2. 1 \in 1..Len(s) /\ Len(s) \in 1..Len(s)
    BY <2>1
  <2> QED BY <2>2, SubSeqOfConcat1, SubSeqFull
<1> QED BY <1>1, <1>2

(* A line of words, then at most one redirection, gives both back.             *)
LEMMA ShellTakenApart ==
  ASSUME NEW w \in Seq(Myshell!OrderWords), NEW mode \in {"none", "in", "out", "app"},
         NEW r, r = Myshell!Redirection(w \o Myshell!Behind(mode, "f"))
  PROVE  r.redir = mode /\ r.rest = w /\ (mode # "none" => r.filename = <<"f">>)
<1> DEFINE cmd == w \o Myshell!Behind(mode, "f")
           b == Myshell!Behind(mode, "f")
           n == Len(w)
           at == {k \in DOMAIN cmd : cmd[k] \in Myshell!Symbols}
           i == CHOOSE k \in at : \A j \in at : j <= k
           append == i > 1 /\ cmd[i] = ">" /\ cmd[i - 1] = ">"
<1>1. w \in Seq(Myshell!Text) /\ b \in Seq(Myshell!Text)
  <2>1. w \in Seq(Myshell!Text)
    <3>1. \A k \in 1..Len(w) : w[k] \in Myshell!Text
      BY ShellTextIs, ElementOfSeq
    <3> QED BY <3>1, LenProperties
  <2> QED BY <2>1, ShellBehindTyped
<1>2. /\ cmd \in Seq(Myshell!Text) /\ Len(cmd) = n + Len(b) /\ n \in Nat
      /\ DOMAIN cmd = 1..(n + Len(b))
      /\ \A k \in 1..(n + Len(b)) : cmd[k] = IF k <= n THEN w[k] ELSE b[k - n]
  BY <1>1, ConcatProperties, LenProperties
<1>3. \A k \in 1..n : w[k] \notin Myshell!Symbols
  <2>1. \A k \in 1..n : w[k] \in Myshell!OrderWords
    BY ElementOfSeq
  <2> QED BY <2>1, ShellWordsAre DEF Myshell!Symbols
<1> HIDE DEF cmd
<1>4. CASE mode = "none"
  <2>1. b = <<>> /\ Len(b) = 0
    BY <1>4, ShellBehindIs
  <2>2. cmd = w
    BY <2>1, <1>1, ConcatEmptySeq DEF cmd
  <2>3. at = {}
    BY <2>1, <1>2, <1>3
  <2>4. r = Myshell!NoRedir(cmd)
    BY <2>3 DEF Myshell!Redirection, cmd
  <2> QED BY <1>4, <2>2, <2>4 DEF Myshell!NoRedir
<1>5. ASSUME NEW m \in Nat, NEW last, last \in {"<", ">"}, mode # "none",
             m = n + Len(b) - 1, m > n, b[m - n] = last, b[m - n + 1] = "f"
      PROVE  /\ i = m /\ cmd[m] = last /\ m + 1 = Len(cmd) /\ cmd[m + 1] = "f" /\ m \in at
  <2>1. Len(b) \in Nat
    BY <1>1, LenProperties
  <2>2. m \in 1..(n + Len(b)) /\ m + 1 \in 1..(n + Len(b)) /\ m + 1 = n + Len(b)
    BY <1>2, <1>5, <2>1
  <2>3. cmd[m] = last /\ cmd[m + 1] = "f"
    <3>1. (m + 1) - n = m - n + 1
      BY <1>2, <1>5
    <3> QED BY <1>2, <1>5, <2>2, <3>1
  <2>4. m \in at
    BY <1>2, <1>5, <2>2, <2>3 DEF Myshell!Symbols
  <2>5. \A j \in at : j <= m
    <3>1. m + 1 \notin at
      BY <2>3 DEF Myshell!Symbols
    <3> QED BY <1>2, <2>1, <2>2, <3>1
  <2>6. \A k \in at : (\A j \in at : j <= k) => k = m
    <3>1. at \subseteq Nat
      BY <1>2, <2>1
    <3> QED BY <2>4, <2>5, <3>1
  <2>7. i = m
    BY <2>4, <2>5, <2>6, SMTT(30)
  <2> QED BY <1>2, <2>2, <2>3, <2>4, <2>7
<1>6. mode # "none" => /\ r.redir = CASE cmd[i] = "<" -> "in" [] append -> "app" [] OTHER -> "out"
                       /\ r.filename = SubSeq(cmd, i + 1, Len(cmd))
                       /\ r.rest = SubSeq(cmd, 1, IF append THEN i - 2 ELSE i - 1)
                       \/ at = {}
  BY DEF Myshell!Redirection, cmd
<1>7. SubSeq(cmd, 1, n) = w
  BY <1>1, FirstPart DEF cmd
<1>8. ASSUME NEW m \in Nat, m + 1 = Len(cmd), cmd[m + 1] = "f"
      PROVE  SubSeq(cmd, m + 1, Len(cmd)) = <<"f">>
  <2>1. Len(cmd) \in Int /\ m + 1 \in Int /\ m + 1 <= Len(cmd) /\ Len(cmd) - (m + 1) + 1 = 1
    BY <1>8
  <2>2. \A k \in (m + 1)..Len(cmd) : cmd[k] \in {"f"}
    BY <1>8, <2>1
  <2> DEFINE s == SubSeq(cmd, m + 1, Len(cmd))
  <2>3. s \in Seq({"f"}) /\ Len(s) = 1
    BY <2>1, <2>2, SubSeqProperties
  <2>4. s[1] = "f"
    BY <2>3, ElementOfSeq
  <2>5. <<"f">> \in Seq({"f"}) /\ Len(<<"f">>) = 1 /\ <<"f">>[1] = "f"
    OBVIOUS
  <2> HIDE DEF s
  <2>6. s = <<"f">>
    BY <2>3, <2>4, <2>5, SeqEqual
  <2> QED BY <2>6 DEF s
<1> HIDE DEF i, at
<1>9. CASE mode \in {"in", "out"}
  <2>1. Len(b) = 2 /\ b[1] = (IF mode = "in" THEN "<" ELSE ">") /\ b[2] = "f"
    BY <1>9, ShellBehindIs
  <2>2. n + 1 \in Nat /\ n + 1 = n + Len(b) - 1 /\ n + 1 > n /\ (n + 1) - n = 1
    BY <1>2, <2>1
  <2>3. /\ i = n + 1 /\ cmd[n + 1] = (IF mode = "in" THEN "<" ELSE ">")
        /\ (n + 1) + 1 = Len(cmd) /\ cmd[(n + 1) + 1] = "f" /\ n + 1 \in at
    BY <1>5, <1>9, <2>1, <2>2
  <2>4. ~append
    <3>1. CASE n = 0
      BY <2>3, <3>1
    <3>2. CASE n # 0
      <4>1. n \in 1..n /\ n \in 1..(n + Len(b)) /\ i - 1 = n
        BY <1>2, <2>1, <2>3, <3>2
      <4>2. cmd[n] = w[n]
        BY <1>2, <4>1
      <4> QED BY <1>3, <4>1, <4>2 DEF Myshell!Symbols
    <3> QED BY <3>1, <3>2
  <2>5. SubSeq(cmd, i + 1, Len(cmd)) = <<"f">>
    BY <1>8, <2>2, <2>3
  <2>6. i - 1 = n
    BY <1>2, <2>3
  <2>7. cmd[i] = (IF mode = "in" THEN "<" ELSE ">") /\ at # {} /\ mode # "none"
    BY <1>9, <2>3
  <2> QED BY <1>6, <1>7, <1>9, <2>4, <2>5, <2>6, <2>7
<1>10. CASE mode = "app"
  <2>1. Len(b) = 3 /\ b[1] = ">" /\ b[2] = ">" /\ b[3] = "f"
    BY <1>10, ShellBehindIs
  <2> HIDE DEF b, n
  <2>2. n + 2 \in Nat /\ n + 2 = n + Len(b) - 1 /\ n + 2 > n /\ (n + 2) - n = 2
    BY <1>2, <2>1
  <2>3. /\ i = n + 2 /\ cmd[n + 2] = ">" /\ (n + 2) + 1 = Len(cmd)
        /\ cmd[(n + 2) + 1] = "f" /\ n + 2 \in at
    BY <1>5, <1>10, <2>1, <2>2
  <2>4. append
    <3>1. n + 1 \in 1..(n + Len(b)) /\ ~ (n + 1 <= n) /\ (n + 1) - n = 1 /\ i - 1 = n + 1 /\ i > 1
      BY <1>2, <2>1, <2>3
    <3>2. cmd[n + 1] = b[1]
      BY <1>2, <3>1
    <3> QED BY <2>1, <2>3, <3>1, <3>2
  <2>5. SubSeq(cmd, i + 1, Len(cmd)) = <<"f">>
    BY <1>8, <2>2, <2>3
  <2>6. i - 2 = n
    BY <1>2, <2>3
  <2>7. cmd[i] = ">" /\ at # {} /\ mode # "none"
    BY <1>10, <2>3
  <2> QED BY <1>6, <1>7, <1>10, <2>4, <2>5, <2>6, <2>7
<1> QED BY <1>4, <1>9, <1>10

(* strtok keeps a line that no blank ends.                                     *)
LEMMA ShellWordsKept ==
  ASSUME NEW cmd \in Seq(Myshell!Text)
  PROVE  /\ Myshell!WordsOf(cmd) \in Seq(Myshell!Text) /\ Len(Myshell!WordsOf(cmd)) <= Len(cmd)
         /\ cmd \in Seq(Myshell!OrderWords) => Myshell!WordsOf(cmd) = cmd
<1>1. CASE cmd # <<>> /\ cmd[Len(cmd)] = " "
  <2>1. Len(cmd) \in Nat \ {0}
    BY <1>1, EmptySeq
  <2>2. Myshell!WordsOf(cmd) = SubSeq(cmd, 1, Len(cmd) - 1)
    BY <1>1 DEF Myshell!WordsOf, Myshell!Blank
  <2>3. \A k \in 1..(Len(cmd) - 1) : cmd[k] \in Myshell!Text
    BY <2>1, ElementOfSeq
  <2>4. /\ SubSeq(cmd, 1, Len(cmd) - 1) \in Seq(Myshell!Text)
        /\ Len(SubSeq(cmd, 1, Len(cmd) - 1)) = (IF 1 <= Len(cmd) - 1 THEN Len(cmd) - 1 - 1 + 1 ELSE 0)
    BY <2>1, <2>3, SubSeqProperties
  <2>5. cmd \notin Seq(Myshell!OrderWords)
    <3>1. Len(cmd) \in 1..Len(cmd)
      BY <2>1
    <3> QED BY <1>1, <3>1, ElementOfSeq, ShellWordsAre
  <2> QED BY <2>1, <2>2, <2>4, <2>5
<1>2. CASE ~ (cmd # <<>> /\ cmd[Len(cmd)] = " ")
  <2>1. Myshell!WordsOf(cmd) = cmd
    BY <1>2, Zenon DEF Myshell!WordsOf, Myshell!Blank
  <2> QED BY <2>1, LenProperties
<1> QED BY <1>1, <1>2

LEMMA OneIn ==
  ASSUME NEW S, NEW x \in S
  PROVE  <<x>> \in Seq(S) /\ Len(<<x>>) = 1
OBVIOUS

-----------------------------------------------------------------------------
LEMMA ShellTypes ==
  ASSUME Myshell!ShellInv
  PROVE  /\ r1 \in {"prompt", "read", "redir", "parse", "builtin", "fork", "open", "exec",
                    "wait", "overrun", "thrown"}
         /\ r2 \in Seq(Myshell!Text) /\ r3 \in Seq(Myshell!Text)
         /\ r4 \in {"none", "in", "out", "app"} /\ r6 \in 0..3
         /\ r11 \in [code : 0..3, ran : BOOLEAN]
BY DEF Myshell!ShellInv, Myshell!TypeOK, Myshell!LineTypes

LEMMA ShellInit ==
  ASSUME Myshell!Init
  PROVE  Myshell!ShellInv
<1>1. /\ r1 \in {"overrun", "prompt"} /\ r2 \in {<<>>, <<"garbage">>} /\ r3 = <<>>
      /\ r4 = "none" /\ r6 = 0 /\ r12.proper = FALSE /\ r14 = FALSE /\ r9 = r7
      /\ r11 = [code |-> 0, ran |-> FALSE]
  BY DEF Myshell!Init, Myshell!Garbage, Myshell!NoOrder, Myshell!NoStatus
<1>2. Myshell!TypeOK
  <2>1. /\ r7 \in {"home", "tmp"} /\ r8 = {"home", "tmp"} /\ r9 = r7
        /\ r10 \in [Myshell!Names -> {Myshell!Missing, <<>>}]
    BY DEF Myshell!Init
  <2>2. <<>> \in Seq({"prog"}) /\ 0 \in 0..3
    BY EmptySeq
  <2>3. \A f \in Myshell!Names : r10[f] \in {Myshell!Missing} \cup Seq({"prog"})
    BY <2>1, <2>2
  <2>4. r10 \in [Myshell!Names -> {Myshell!Missing} \cup Seq({"prog"})]
    BY <2>1, <2>3
  <2> QED BY <1>1, <2>1, <2>2, <2>4 DEF Myshell!TypeOK
<1>3. Myshell!LineTypes
  <2>1. "garbage" \in Myshell!Text
    BY ShellTextIs
  <2>2. <<"garbage">> \in Seq(Myshell!Text) /\ <<>> \in Seq(Myshell!Text)
    BY <2>1, OneIn, EmptySeq, Zenon
  <2>3. r2 \in Seq(Myshell!Text) /\ r3 \in Seq(Myshell!Text)
    BY <1>1, <2>2, Zenon
  <2>4. 0 \in 0..3 /\ FALSE \in BOOLEAN
    OBVIOUS
  <2>5. r11 \in [code : 0..3, ran : BOOLEAN]
    BY <1>1, <2>4
  <2> QED BY <1>1, <2>3, <2>5 DEF Myshell!LineTypes
<1>4. Myshell!LinesRun
  <2>1. Len(<<>>) <= 1 /\ Len(<<"garbage">>) <= 1
    OBVIOUS
  <2> QED BY <1>1, <2>1 DEF Myshell!LinesRun
<1>5. Myshell!KnownEnds
  BY <1>1 DEF Myshell!KnownEnds
<1> QED BY <1>1, <1>2, <1>3, <1>4, <1>5 DEF Myshell!ShellInv

LEMMA ShellPromptKeeps ==
  ASSUME Myshell!ShellInv, Myshell!PrintCommandPrompt
  PROVE  Myshell!ShellInv'
<1>1. /\ r1 = "prompt" /\ r1' = "read" /\ UNCHANGED <<r2, r3, r4, r5, r6, r7, r8, r10, r11, r12, r13, r14>>
      /\ r9' = IF r7 \in r8 THEN r7 ELSE r9
  BY DEF Myshell!PrintCommandPrompt
<1>2. Myshell!TypeOK'
  BY <1>1 DEF Myshell!ShellInv, Myshell!TypeOK
<1>3. Myshell!LineTypes'
  BY <1>1 DEF Myshell!ShellInv, Myshell!LineTypes
<1>4. Myshell!LinesRun' /\ Myshell!KnownEnds'
  BY <1>1 DEF Myshell!ShellInv, Myshell!LinesRun, Myshell!KnownEnds
<1>5. r12.proper => Myshell!OrderTyped'
  BY <1>1 DEF Myshell!ShellInv, Myshell!OrderTyped
<1>6. r12.proper => Myshell!OrderParsed' /\ Myshell!OrderRun'
  BY <1>1 DEF Myshell!OrderParsed, Myshell!OrderRun
<1> QED BY <1>1, <1>2, <1>3, <1>4, <1>5, <1>6 DEF Myshell!ShellInv

LEMMA ShellEndKeeps ==
  ASSUME Myshell!ShellInv, Myshell!EndOfInput
  PROVE  Myshell!ShellInv'
<1>1. /\ r1 = "read" /\ r1' = Myshell!Checked /\ r12'.proper = FALSE /\ r14' = TRUE
      /\ r11' = [code |-> 0, ran |-> FALSE]
      /\ UNCHANGED <<r2, r3, r4, r5, r6, r7, r8, r9, r10, r13>>
  BY DEF Myshell!EndOfInput, Myshell!NoOrder, Myshell!NoStatus
<1>2. r1' \in {"redir", "parse"} /\ r1' = Myshell!Checked
  BY <1>1 DEF Myshell!Checked
<1>3. Myshell!TypeOK'
  BY <1>1, <1>2 DEF Myshell!ShellInv, Myshell!TypeOK
<1>4. Myshell!LineTypes'
  BY <1>1, <1>2 DEF Myshell!ShellInv, Myshell!LineTypes, Myshell!Checked
<1>5. Myshell!LinesRun' /\ Myshell!KnownEnds'
  BY <1>1, <1>2 DEF Myshell!ShellInv, Myshell!LinesRun, Myshell!KnownEnds
<1> QED BY <1>1, <1>3, <1>4, <1>5 DEF Myshell!ShellInv

(* What GetCommandLine leaves of an order; a proper one is whole.              *)
LEMMA ShellTypedIs ==
  ASSUME NEW o \in Orders
  PROVE  /\ Myshell!Typed(o) \in Seq(Myshell!Text)
         /\ o.newline /\ ~o.blank => Myshell!Typed(o) = o.argv \o Myshell!Behind(o.mode, o.file)
<1> DEFINE cmd == o.argv \o Myshell!Behind(o.mode, o.file)
           end == IF o.blank THEN <<" ">> ELSE <<>>
           text == cmd \o end
           shorter == SubSeq(text, 1, Len(text) - 1)
<1>1. cmd \in Seq(Myshell!Text)
  <2>1. o.argv \in Seq(Myshell!Text)
    <3>1. o.argv \in Seq(Myshell!OrderWords)
      BY ShellWordsAre
    <3>2. \A k \in 1..Len(o.argv) : o.argv[k] \in Myshell!Text
      BY <3>1, ShellTextIs, ElementOfSeq
    <3> QED BY <3>1, <3>2, LenProperties
  <2>2. Myshell!Behind(o.mode, o.file) \in Seq(Myshell!Text)
    BY ShellBehindTyped, OrdersAre
  <2> QED BY <2>1, <2>2, ConcatProperties
<1> HIDE DEF cmd
<1>2. end \in Seq(Myshell!Text)
  <2>1. " " \in Myshell!Text
    BY ShellTextIs
  <2>2. <<" ">> \in Seq(Myshell!Text) /\ <<>> \in Seq(Myshell!Text)
    BY <2>1, OneIn, EmptySeq, Zenon
  <2> QED BY <2>2
<1>3. ~o.blank => text = cmd
  BY <1>1, ConcatEmptySeq
<1>4. text \in Seq(Myshell!Text)
  BY <1>1, <1>2, ConcatProperties
<1>5. Myshell!Typed(o) = CASE o.newline \/ text = <<>> -> text
        [] ~o.newline /\ text # <<>> /\ text[Len(text)] \in Myshell!Symbols \cup {Myshell!Blank} -> shorter
        [] OTHER -> Append(shorter, Myshell!CutWord)
  BY DEF Myshell!Typed, Myshell!Blank, cmd
<1> HIDE DEF text
<1>6. text # <<>> => shorter \in Seq(Myshell!Text)
  <2>1. text # <<>> => Len(text) \in Nat \ {0}
    BY <1>4, EmptySeq
  <2>2. text # <<>> => \A k \in 1..(Len(text) - 1) : text[k] \in Myshell!Text
    BY <1>4, <2>1, ElementOfSeq
  <2> QED BY <2>1, <2>2, SubSeqProperties
<1> HIDE DEF shorter
<1>7. text # <<>> => Append(shorter, Myshell!CutWord) \in Seq(Myshell!Text)
  <2>1. Myshell!CutWord \in Myshell!Text
    BY ShellTextIs DEF Myshell!CutWord
  <2> QED BY <1>6, <2>1
<1>8. Myshell!Typed(o) \in {text, shorter, Append(shorter, Myshell!CutWord)} /\ (text = <<>> => Myshell!Typed(o) = text)
  BY <1>5
<1>9. o.newline => Myshell!Typed(o) = text
  BY <1>5
<1> QED BY <1>3, <1>4, <1>6, <1>7, <1>8, <1>9 DEF cmd

LEMMA ShellGetKeeps ==
  ASSUME Myshell!ShellInv, NEW o \in Orders, Myshell!GetCommandLine(o)
  PROVE  Myshell!ShellInv'
<1>1. /\ r1 = "read" /\ r1' = Myshell!Checked /\ r2' = Myshell!Typed(o) /\ r12'.argv = o.argv
      /\ r12'.mode = o.mode /\ r12'.file = <<o.file>> /\ r12'.before = r10
      /\ r12'.proper = (o.newline /\ ~o.blank /\ (Myshell!Checked = "redir" \/ o.mode = "none"))
      /\ r11' = [code |-> 0, ran |-> FALSE]
      /\ UNCHANGED <<r3, r4, r5, r6, r7, r8, r9, r10>>
  BY DEF Myshell!GetCommandLine, Myshell!NoStatus, Myshell!Checked
<1>2. r1' \in {"redir", "parse"} /\ r1' = Myshell!Checked
  BY <1>1 DEF Myshell!Checked
<1>3. r12' # Myshell!NoOrder
  <2>1. Myshell!NoOrder.file = <<>> /\ <<o.file>> # <<>>
    BY DEF Myshell!NoOrder
  <2> QED BY <1>1, <2>1
<1>4. Myshell!TypeOK'
  BY <1>1, <1>2 DEF Myshell!ShellInv, Myshell!TypeOK
<1>5. Myshell!LineTypes'
  <2>1. r2' \in Seq(Myshell!Text)
    BY <1>1, ShellTypedIs
  <2> QED BY <1>1, <1>2, <2>1 DEF Myshell!ShellInv, Myshell!LineTypes, Myshell!Checked
<1>6. Myshell!NoOrder' = Myshell!NoOrder
  BY DEF Myshell!NoOrder
<1>7. Myshell!LinesRun' /\ Myshell!KnownEnds'
  BY <1>1, <1>2, <1>3, <1>6 DEF Myshell!ShellInv, Myshell!LinesRun, Myshell!KnownEnds
<1>8. ASSUME r12'.proper
      PROVE  Myshell!OrderTyped' /\ Myshell!OrderParsed' /\ Myshell!OrderRun'
  <2>1. o.newline /\ ~o.blank /\ (r1' = "redir" \/ o.mode = "none")
    BY <1>1, <1>2, <1>8
  <2>2. r2' = o.argv \o Myshell!Behind(o.mode, o.file)
    BY <1>1, <2>1, ShellTypedIs
  <2>3. o.mode = "none" => r2' = o.argv
    BY <2>2, OrdersAre, ShellBehindIs, ConcatEmptySeq
  <2>4. Myshell!OrderTyped'
    <3>1. /\ o.argv \in Seq(Myshell!OrderWords) /\ o.mode \in {"none", "in", "out", "app"}
          /\ o.file = "f" /\ r10 \in [Myshell!Names -> {Myshell!Missing} \cup Seq({"prog"})]
      BY ShellWordsAre, OrdersAre DEF Myshell!ShellInv, Myshell!TypeOK
    <3> QED BY <1>1, <2>2, <3>1 DEF Myshell!OrderTyped
  <2>5. Myshell!OrderParsed'
    <3>1. r1' = "parse" => r2' = o.argv /\ o.mode = "none" /\ r4 = "none"
      BY <1>1, <1>2, <2>1, <2>3 DEF Myshell!ShellInv, Myshell!LineTypes, Myshell!Checked
    <3> QED BY <1>1, <1>2, <3>1 DEF Myshell!OrderParsed
  <2>6. Myshell!OrderRun'
    <3>1. r10' = r12'.before /\ r11'.ran = FALSE
      BY <1>1
    <3>2. r1' \notin {"exec", "wait", "prompt"}
      BY <1>2
    <3> QED BY <3>1, <3>2, Zenon DEF Myshell!OrderRun
  <2> QED BY <2>4, <2>5, <2>6
<1> QED BY <1>4, <1>5, <1>7, <1>8 DEF Myshell!ShellInv

LEMMA ShellRedirKeeps ==
  ASSUME Myshell!ShellInv, Myshell!RedirCheck
  PROVE  Myshell!ShellInv'
<1> DEFINE r == Myshell!Redirection(r2)
<1>1. /\ r1 = "redir" /\ r1' = "parse" /\ r4' = r.redir /\ r5' = r.filename /\ r2' = r.rest
      /\ UNCHANGED <<r3, r6, r7, r8, r9, r10, r11, r12, r13, r14>>
  BY DEF Myshell!RedirCheck
<1>2. /\ r.redir \in {"none", "in", "out", "app"} /\ r.filename \in Seq(Myshell!Text)
      /\ r.rest \in Seq(Myshell!Text) /\ Len(r.rest) <= Len(r2)
  BY ShellTypes, ShellParts
<1>3. r12.proper => r.redir = r12.mode /\ r.rest = r12.argv /\ (r12.mode # "none" => r.filename = r12.file)
  <2> SUFFICES ASSUME r12.proper
               PROVE  r.redir = r12.mode /\ r.rest = r12.argv /\ (r12.mode # "none" => r.filename = r12.file)
    OBVIOUS
  <2>1. /\ r12.argv \in Seq(Myshell!OrderWords) /\ r12.mode \in {"none", "in", "out", "app"}
        /\ r12.file = <<"f">> /\ r2 = r12.argv \o Myshell!Behind(r12.mode, "f")
    BY <1>1 DEF Myshell!ShellInv, Myshell!OrderTyped
  <2> QED BY <2>1, ShellTakenApart
<1> HIDE DEF r
<1>4. Myshell!TypeOK'
  BY <1>1, <1>2 DEF Myshell!ShellInv, Myshell!TypeOK
<1>5. Myshell!LineTypes'
  BY <1>1, <1>2 DEF Myshell!ShellInv, Myshell!LineTypes
<1>6. Myshell!LinesRun' /\ Myshell!KnownEnds'
  <2>1. Len(r2) \in Nat /\ Len(r.rest) \in Nat
    BY <1>2, ShellTypes, LenProperties
  <2> QED BY <1>1, <1>2, <2>1 DEF Myshell!ShellInv, Myshell!LinesRun, Myshell!KnownEnds
<1>7. r12.proper => Myshell!OrderTyped'
  BY <1>1 DEF Myshell!ShellInv, Myshell!OrderTyped
<1>8. r12.proper => Myshell!OrderParsed' /\ Myshell!OrderRun'
  BY <1>1, <1>3 DEF Myshell!ShellInv, Myshell!OrderParsed, Myshell!OrderRun
<1> QED BY <1>1, <1>4, <1>5, <1>6, <1>7, <1>8 DEF Myshell!ShellInv

LEMMA ShellParseKeeps ==
  ASSUME Myshell!ShellInv, Myshell!CommandParse
  PROVE  Myshell!ShellInv'
<1>1. /\ r1 = "parse" /\ r3' = Myshell!WordsOf(r2) /\ r2' = (IF r3' = <<>> THEN <<>> ELSE <<Head(r3')>>)
      /\ r1' = (CASE Len(r3') + 1 > MaxArgv -> "overrun" [] r3' = <<>> -> "thrown" [] OTHER -> "builtin")
      /\ UNCHANGED <<r4, r5, r6, r7, r8, r9, r10, r11, r12, r13, r14>>
  BY DEF Myshell!CommandParse
<1>2. r3' \in Seq(Myshell!Text) /\ Len(r3') <= Len(r2)
  BY <1>1, ShellTypes, ShellWordsKept
<1>3. r12.proper => r3' = r12.argv /\ r4 = r12.mode /\ (r4 # "none" => r5 = r12.file)
  <2> SUFFICES ASSUME r12.proper
               PROVE  r3' = r12.argv /\ r4 = r12.mode /\ (r4 # "none" => r5 = r12.file)
    OBVIOUS
  <2>1. r2 = r12.argv /\ r12.argv \in Seq(Myshell!OrderWords) /\ r4 = r12.mode /\ (r4 # "none" => r5 = r12.file)
    BY <1>1 DEF Myshell!ShellInv, Myshell!OrderTyped, Myshell!OrderParsed
  <2> QED BY <1>1, <2>1, ShellTypes, ShellWordsKept
<1>4. /\ r1' \in {"overrun", "thrown", "builtin"} /\ (r1' = "thrown" => r3' = <<>>)
      /\ (r1' = "builtin" => r3' # <<>>) /\ (r1' = "overrun" => Len(r3') + 1 > MaxArgv)
  BY <1>1
<1>5. Myshell!TypeOK'
  BY <1>1, <1>4 DEF Myshell!ShellInv, Myshell!TypeOK
<1>6. r2' \in Seq(Myshell!Text) /\ Len(r2') <= 1
  <2>1. r3' # <<>> => Head(r3') \in Myshell!Text
    BY <1>2, HeadTailProperties
  <2> QED BY <1>1, <2>1
<1>7. Myshell!LineTypes'
  BY <1>1, <1>2, <1>4, <1>6 DEF Myshell!ShellInv, Myshell!LineTypes
<1>8. r12 = Myshell!NoOrder /\ r1' = "builtin" => Len(r3') = 1
  <2>1. r12 = Myshell!NoOrder => Len(r2) <= 1
    BY <1>1 DEF Myshell!ShellInv, Myshell!LinesRun
  <2>2. Len(r2) \in Nat /\ Len(r3') \in Nat /\ (r3' # <<>> => Len(r3') # 0)
    BY <1>2, ShellTypes, LenProperties, EmptySeq
  <2> SUFFICES ASSUME r12 = Myshell!NoOrder, r1' = "builtin"
               PROVE  Len(r3') = 1
    OBVIOUS
  <2>3. Len(r2) <= 1 /\ Len(r3') # 0
    BY <1>4, <2>1, <2>2
  <2>4. \A a, b \in Nat : b <= a /\ a <= 1 /\ b # 0 => b = 1
    OBVIOUS
  <2>5. Len(r3') <= Len(r2) /\ Len(r2) \in Nat /\ Len(r3') \in Nat
    BY <1>2, <2>2, Zenon
  <2> QED BY <2>3, <2>4, <2>5, Zenon
<1>9. Myshell!NoOrder' = Myshell!NoOrder
  BY DEF Myshell!NoOrder
<1>10. Myshell!LinesRun'
  BY <1>1, <1>4, <1>6, <1>8, <1>9 DEF Myshell!LinesRun
<1>11. Myshell!KnownEnds'
  BY <1>1, <1>3, <1>4, <1>8, <1>9 DEF Myshell!ShellInv, Myshell!KnownEnds
<1>12. r12.proper => Myshell!OrderTyped'
  BY <1>1, <1>4 DEF Myshell!ShellInv, Myshell!OrderTyped
<1>13. r12.proper => Myshell!OrderParsed' /\ Myshell!OrderRun'
  BY <1>1, <1>3, <1>4 DEF Myshell!ShellInv, Myshell!OrderParsed, Myshell!OrderRun
<1> QED BY <1>1, <1>5, <1>7, <1>10, <1>11, <1>12, <1>13 DEF Myshell!ShellInv

(* Before the child runs nothing has changed; what ends then has obeyed.       *)
LEMMA ShellQuiet ==
  ASSUME Myshell!ShellInv, r12.proper, r1 \in {"redir", "parse", "builtin", "fork", "open"},
         r1' # "exec", UNCHANGED <<r3, r10, r11, r12>>
  PROVE  Myshell!OrderRun'
<1>1. r10 = r12.before /\ ~r11.ran
  BY Zenon DEF Myshell!ShellInv, Myshell!OrderRun
<1>2. Myshell!Obeyed
  BY <1>1 DEF Myshell!Obeyed
<1>3. Myshell!Obeyed'
  BY <1>2 DEF Myshell!Obeyed, Myshell!Content
<1> QED BY <1>1, <1>3, Zenon DEF Myshell!OrderRun

LEMMA ShellCdKeeps ==
  ASSUME Myshell!ShellInv, Myshell!Cd
  PROVE  Myshell!ShellInv'
<1> DEFINE where == IF Len(r3) = 1 THEN "home" ELSE r3[2]
<1>1. /\ r1 = "builtin" /\ r1' = "prompt" /\ r7' = (IF where \in r8 THEN where ELSE r7)
      /\ UNCHANGED <<r2, r3, r4, r5, r6, r8, r9, r10, r11, r12, r13, r14>>
  BY DEF Myshell!Cd
<1> HIDE DEF where
<1>2. Myshell!TypeOK'
  BY <1>1 DEF Myshell!ShellInv, Myshell!TypeOK
<1>3. Myshell!LineTypes'
  BY <1>1 DEF Myshell!ShellInv, Myshell!LineTypes
<1>4. Myshell!LinesRun' /\ Myshell!KnownEnds'
  BY <1>1 DEF Myshell!ShellInv, Myshell!LinesRun, Myshell!KnownEnds
<1>5. r12.proper => Myshell!OrderTyped'
  BY <1>1 DEF Myshell!ShellInv, Myshell!OrderTyped
<1>6. r12.proper => Myshell!OrderParsed'
  BY <1>1 DEF Myshell!ShellInv, Myshell!OrderParsed
<1>7. r12.proper => Myshell!OrderRun'
  BY <1>1, ShellQuiet
<1> QED BY <1>1, <1>2, <1>3, <1>4, <1>5, <1>6, <1>7 DEF Myshell!ShellInv

LEMMA ShellEchoKeeps ==
  ASSUME Myshell!ShellInv, Myshell!Echo
  PROVE  Myshell!ShellInv'
<1>1. /\ r1 = "builtin" /\ r1' \in {"prompt", "thrown"} /\ (r1' = "thrown" => Len(r3) = 1)
      /\ r6' \in {r6, 0} /\ r3[1] = "echo"
      /\ UNCHANGED <<r2, r3, r4, r5, r7, r8, r9, r10, r11, r12, r13, r14>>
  BY DEF Myshell!Echo
<1>2. Myshell!TypeOK'
  BY <1>1 DEF Myshell!ShellInv, Myshell!TypeOK
<1>3. Myshell!LineTypes'
  BY <1>1 DEF Myshell!ShellInv, Myshell!LineTypes
<1>4. Myshell!LinesRun'
  BY <1>1 DEF Myshell!ShellInv, Myshell!LinesRun
<1>5. r1' = "thrown" => r3 = <<"echo">>
  BY <1>1, ShellTypes
<1>6. Myshell!KnownEnds'
  BY <1>1, <1>5 DEF Myshell!ShellInv, Myshell!KnownEnds
<1>7. r12.proper => Myshell!OrderTyped'
  BY <1>1 DEF Myshell!ShellInv, Myshell!OrderTyped
<1>8. r12.proper => Myshell!OrderParsed'
  BY <1>1 DEF Myshell!ShellInv, Myshell!OrderParsed
<1>9. r12.proper => Myshell!OrderRun'
  BY <1>1, ShellQuiet
<1> QED BY <1>1, <1>2, <1>3, <1>4, <1>6, <1>7, <1>8, <1>9 DEF Myshell!ShellInv

LEMMA ShellBuiltinKeeps ==
  ASSUME Myshell!ShellInv, Myshell!CheckAndExecBuiltin
  PROVE  Myshell!ShellInv'
<1>1. /\ r1 = "builtin" /\ r1' = "fork" /\ r3[1] \notin {"cd", "echo"}
      /\ UNCHANGED <<r2, r3, r4, r5, r6, r7, r8, r9, r10, r11, r12, r13, r14>>
  BY DEF Myshell!CheckAndExecBuiltin
<1>2. Myshell!TypeOK'
  BY <1>1 DEF Myshell!ShellInv, Myshell!TypeOK
<1>3. Myshell!LineTypes'
  BY <1>1 DEF Myshell!ShellInv, Myshell!LineTypes
<1>4. Myshell!LinesRun' /\ Myshell!KnownEnds'
  BY <1>1 DEF Myshell!ShellInv, Myshell!LinesRun, Myshell!KnownEnds
<1>5. r12.proper => Myshell!OrderTyped'
  BY <1>1 DEF Myshell!ShellInv, Myshell!OrderTyped
<1>6. r12.proper => Myshell!OrderParsed'
  BY <1>1 DEF Myshell!ShellInv, Myshell!OrderParsed
<1>7. r12.proper => Myshell!OrderRun'
  BY <1>1, ShellQuiet
<1> QED BY <1>1, <1>2, <1>3, <1>4, <1>5, <1>6, <1>7 DEF Myshell!ShellInv

LEMMA ShellForkKeeps ==
  ASSUME Myshell!ShellInv, Myshell!NoFork \/ Myshell!Excute
  PROVE  Myshell!ShellInv'
<1>1. /\ r1 = "fork" /\ r1' \in {"prompt", "open", "exec"}
      /\ UNCHANGED <<r2, r3, r4, r5, r6, r7, r8, r9, r10, r11, r12, r13, r14>>
  BY DEF Myshell!NoFork, Myshell!Excute, Myshell!PlainExcute, Myshell!Redirected
<1>2. (r1' = "exec" => r4 = "none") /\ (r1' = "open" => r4 # "none")
  BY DEF Myshell!NoFork, Myshell!Excute, Myshell!PlainExcute, Myshell!Redirected,
         Myshell!ShellInv, Myshell!LineTypes
<1>3. Myshell!TypeOK'
  BY <1>1 DEF Myshell!ShellInv, Myshell!TypeOK
<1>4. Myshell!LineTypes'
  BY <1>1, <1>2 DEF Myshell!ShellInv, Myshell!LineTypes
<1>5. Myshell!LinesRun' /\ Myshell!KnownEnds'
  BY <1>1 DEF Myshell!ShellInv, Myshell!LinesRun, Myshell!KnownEnds
<1>6. r12.proper => Myshell!OrderTyped'
  BY <1>1 DEF Myshell!ShellInv, Myshell!OrderTyped
<1>7. r12.proper => Myshell!OrderParsed'
  BY <1>1 DEF Myshell!ShellInv, Myshell!OrderParsed
<1>8. r12.proper => Myshell!OrderRun'
  <2>1. CASE r1' = "exec"
    <3> SUFFICES ASSUME r12.proper
                 PROVE  Myshell!OrderRun'
      OBVIOUS
    <3>1. r12.mode = "none" /\ r10 = r12.before /\ ~r11.ran
      BY <1>1, <1>2, <2>1, Zenon DEF Myshell!ShellInv, Myshell!OrderParsed, Myshell!OrderRun
    <3>2. Myshell!Opened'
      BY <1>1, <3>1 DEF Myshell!Opened
    <3> QED BY <1>1, <2>1, <3>1, <3>2, Zenon DEF Myshell!OrderRun
  <2>2. CASE r1' # "exec"
    BY <1>1, <2>2, ShellQuiet
  <2> QED BY <2>1, <2>2
<1> QED BY <1>1, <1>3, <1>4, <1>5, <1>6, <1>7, <1>8 DEF Myshell!ShellInv

LEMMA ShellFiles ==
  ASSUME Myshell!ShellInv
  PROVE  r10 \in [Myshell!Names -> {Myshell!Missing} \cup Seq({"prog"})]
BY DEF Myshell!ShellInv, Myshell!TypeOK

LEMMA ShellOrderFile ==
  ASSUME Myshell!ShellInv, r12.proper
  PROVE  /\ r12.file \in Myshell!Names /\ r12.mode \in {"none", "in", "out", "app"}
         /\ r12.before \in [Myshell!Names -> {Myshell!Missing} \cup Seq({"prog"})]
<1>1. r12.file = <<"f">>
  BY DEF Myshell!ShellInv, Myshell!OrderTyped
<1> QED BY <1>1 DEF Myshell!ShellInv, Myshell!OrderTyped, Myshell!Names

LEMMA ShellOpenKeeps ==
  ASSUME Myshell!ShellInv, NEW works \in BOOLEAN, Myshell!ChildOpens(works)
  PROVE  Myshell!ShellInv'
<1>1. /\ r1 = "open" /\ UNCHANGED <<r2, r3, r4, r5, r6, r7, r8, r9, r12, r13, r14>>
  BY DEF Myshell!ChildOpens
<1>2. CASE ~works
  <2>1. r1' = "wait" /\ r11' = [code |-> Myshell!FailCode, ran |-> FALSE] /\ r10' = r10
    BY <1>2 DEF Myshell!ChildOpens
  <2>2. r11' \in [code : 0..3, ran : BOOLEAN]
    <3>1. Myshell!FailCode \in 0..3 /\ FALSE \in BOOLEAN
      BY DEF Myshell!FailCode
    <3> QED BY <2>1, <3>1
  <2>3. Myshell!TypeOK'
    BY <1>1, <2>1 DEF Myshell!ShellInv, Myshell!TypeOK
  <2>4. Myshell!LineTypes'
    BY <1>1, <2>1, <2>2 DEF Myshell!ShellInv, Myshell!LineTypes
  <2>5. Myshell!LinesRun' /\ Myshell!KnownEnds'
    BY <1>1, <2>1 DEF Myshell!ShellInv, Myshell!LinesRun, Myshell!KnownEnds
  <2>6. r12.proper => Myshell!OrderTyped'
    BY <1>1, <2>1 DEF Myshell!ShellInv, Myshell!OrderTyped
  <2>7. r12.proper => Myshell!OrderParsed'
    BY <1>1, <2>1 DEF Myshell!ShellInv, Myshell!OrderParsed
  <2>8. r12.proper => Myshell!OrderRun'
    <3> SUFFICES ASSUME r12.proper
                 PROVE  Myshell!OrderRun'
      OBVIOUS
    <3>1. r10 = r12.before
      BY <1>1, Zenon DEF Myshell!ShellInv, Myshell!OrderRun
    <3>2. r11'.ran = FALSE
      BY <2>1
    <3>3. ~ (r11'.ran)
      BY <3>2, Zenon
    <3>4. Myshell!Obeyed'
      BY <1>1, <2>1, <3>1, <3>3 DEF Myshell!Obeyed
    <3> QED BY <2>1, <3>4, Zenon DEF Myshell!OrderRun
  <2> QED BY <1>1, <2>3, <2>4, <2>5, <2>6, <2>7, <2>8 DEF Myshell!ShellInv
<1>3. CASE works
  <2>1. /\ r5 \in Myshell!Names /\ (r4 = "in" => r10[r5] # Myshell!Missing)
        /\ r1' = "exec" /\ r11' = r11
        /\ r4 = "in" => r10' = r10
        /\ r4 = "out" => r10' = [r10 EXCEPT ![r5] = <<>>]
        /\ r4 \notin {"in", "out"} =>
               r10' = [r10 EXCEPT ![r5] = IF r10[r5] = Myshell!Missing THEN <<>> ELSE r10[r5]]
    BY <1>3 DEF Myshell!ChildOpens
  <2>3. /\ r10' \in [Myshell!Names -> {Myshell!Missing} \cup Seq({"prog"})]
        /\ r4 # "in" => r10'[r5] \in Seq({"prog"})
    <3>1. <<>> \in Seq({"prog"})
      BY EmptySeq
    <3>2. r10[r5] # Myshell!Missing => r10[r5] \in Seq({"prog"})
      BY <2>1, ShellFiles
    <3>3. CASE r4 = "in"
      BY <2>1, <3>3, ShellFiles
    <3>4. CASE r4 = "out"
      BY <2>1, <3>1, <3>4, ShellFiles
    <3>5. CASE r4 \notin {"in", "out"}
      <4>1. PICK new : new = IF r10[r5] = Myshell!Missing THEN <<>> ELSE r10[r5]
        OBVIOUS
      <4>2. new \in Seq({"prog"})
        BY <3>1, <3>2, <4>1
      <4>3. r10' = [r10 EXCEPT ![r5] = new]
        BY <2>1, <3>5, <4>1
      <4> QED BY <2>1, <4>2, <4>3, ShellFiles
    <3> QED BY <3>3, <3>4, <3>5
  <2>4. Myshell!TypeOK'
    BY <1>1, <2>1, <2>3 DEF Myshell!ShellInv, Myshell!TypeOK
  <2>5. Myshell!LineTypes'
    BY <1>1, <2>1, <2>3 DEF Myshell!ShellInv, Myshell!LineTypes
  <2>6. Myshell!LinesRun' /\ Myshell!KnownEnds'
    BY <1>1, <2>1 DEF Myshell!ShellInv, Myshell!LinesRun, Myshell!KnownEnds
  <2>7. r12.proper => Myshell!OrderTyped'
    BY <1>1, <2>1 DEF Myshell!ShellInv, Myshell!OrderTyped
  <2>8. r12.proper => Myshell!OrderParsed'
    BY <1>1, <2>1 DEF Myshell!ShellInv, Myshell!OrderParsed
  <2>9. r12.proper => Myshell!OrderRun'
    <3> SUFFICES ASSUME r12.proper
                 PROVE  Myshell!OrderRun'
      OBVIOUS
    <3>1. r10 = r12.before /\ ~r11.ran
      BY <1>1, Zenon DEF Myshell!ShellInv, Myshell!OrderRun
    <3>2. r4 = r12.mode /\ (r4 # "none" => r5 = r12.file)
      BY <1>1 DEF Myshell!ShellInv, Myshell!OrderParsed
    <3>3. r4 # "none"
      BY <1>1 DEF Myshell!ShellInv, Myshell!LineTypes
    <3>4. Myshell!Opened'
      BY <1>1, <2>1, <3>1, <3>2, <3>3, ShellTypes DEF Myshell!Opened, Myshell!Content
    <3> QED BY <1>1, <2>1, <3>1, <3>4, Zenon DEF Myshell!OrderRun
  <2> QED BY <1>1, <2>4, <2>5, <2>6, <2>7, <2>8, <2>9 DEF Myshell!ShellInv
<1> QED BY <1>2, <1>3

(* A child that ends before its program wrote leaves the file as it opened it. *)
LEMMA ShellOpened ==
  ASSUME Myshell!Opened, UNCHANGED <<r3, r10, r12>>, ~ (r11'.ran), r3[1] \notin {"cd", "echo"},
         r12.mode \in {"none", "in", "out", "app"}
  PROVE  Myshell!Obeyed'
<1>1. CASE r12.mode \in {"none", "in"}
  <2>1. r10' = r12.before
    BY <1>1 DEF Myshell!Opened
  <2> QED BY <1>1, <2>1 DEF Myshell!Obeyed
<1>2. CASE r12.mode = "out"
  <2>1. r10' = [r12.before EXCEPT ![r12.file] = <<>>]
    BY <1>2 DEF Myshell!Opened
  <2> QED BY <1>2, <2>1 DEF Myshell!Obeyed
<1>3. CASE r12.mode = "app"
  <2>1. r10' = [r12.before EXCEPT ![r12.file] = Myshell!Content(r12.file)]
    BY <1>3 DEF Myshell!Opened
  <2>2. Myshell!Content(r12.file)' = Myshell!Content(r12.file)
    BY DEF Myshell!Content
  <2> QED BY <1>3, <2>1, <2>2 DEF Myshell!Obeyed
<1> QED BY <1>1, <1>2, <1>3

LEMMA ShellRunsKeeps ==
  ASSUME Myshell!ShellInv, NEW code \in 0..1, Myshell!ChildRuns(code)
  PROVE  Myshell!ShellInv'
<1>1. /\ r1 = "exec" /\ r1' = "wait" /\ r3[1] \notin {"cd", "echo"}
      /\ UNCHANGED <<r2, r3, r4, r5, r6, r7, r8, r9, r12, r13, r14>>
  BY DEF Myshell!ChildRuns, Myshell!ShellInv, Myshell!LinesRun
<1>2. /\ r10' \in [Myshell!Names -> {Myshell!Missing} \cup Seq({"prog"})]
      /\ r11' \in [code : 0..3, ran : BOOLEAN]
  <2>1. code \in 0..3 /\ 1 \in 0..3 /\ TRUE \in BOOLEAN /\ FALSE \in BOOLEAN
    OBVIOUS
  <2>2. r11' \in {[code |-> code, ran |-> TRUE], [code |-> 1, ran |-> FALSE]}
    BY DEF Myshell!ChildRuns
  <2>3. r11' \in [code : 0..3, ran : BOOLEAN]
    <3>1. [code |-> code, ran |-> TRUE] \in [code : 0..3, ran : BOOLEAN]
      BY <2>1
    <3>2. [code |-> 1, ran |-> FALSE] \in [code : 0..3, ran : BOOLEAN]
      BY <2>1
    <3> QED BY <2>2, <3>1, <3>2, Zenon
  <2>4. CASE r3[1] \in {"prog"} /\ r4 \in {"out", "app"}
    <3>1. r5 \in Myshell!Names /\ r10[r5] \in Seq({"prog"})
      BY <1>1, <2>4 DEF Myshell!ShellInv, Myshell!LineTypes
    <3>2. Append(r10[r5], r3[1]) \in Seq({"prog"})
      BY <2>4, <3>1
    <3>3. r10' = [r10 EXCEPT ![r5] = Append(r10[r5], r3[1])]
      BY <2>4 DEF Myshell!ChildRuns
    <3> QED BY <2>3, <3>1, <3>2, <3>3, ShellFiles
  <2>5. CASE ~ (r3[1] \in {"prog"} /\ r4 \in {"out", "app"})
    <3>1. r10' = r10
      BY <2>5 DEF Myshell!ChildRuns
    <3> QED BY <2>3, <3>1, ShellFiles
  <2> QED BY <2>4, <2>5
<1>3. Myshell!TypeOK'
  BY <1>1, <1>2 DEF Myshell!ShellInv, Myshell!TypeOK
<1>4. Myshell!LineTypes'
  BY <1>1, <1>2 DEF Myshell!ShellInv, Myshell!LineTypes
<1>5. Myshell!LinesRun' /\ Myshell!KnownEnds'
  BY <1>1 DEF Myshell!ShellInv, Myshell!LinesRun, Myshell!KnownEnds
<1>6. r12.proper => Myshell!OrderTyped'
  BY <1>1 DEF Myshell!ShellInv, Myshell!OrderTyped
<1>7. r12.proper => Myshell!OrderParsed'
  BY <1>1 DEF Myshell!ShellInv, Myshell!OrderParsed
<1>8. r12.proper => Myshell!OrderRun'
  <2> SUFFICES ASSUME r12.proper
               PROVE  Myshell!OrderRun'
    OBVIOUS
  <2>1. Myshell!Opened
    BY <1>1, Zenon DEF Myshell!ShellInv, Myshell!OrderRun
  <2>2. r4 = r12.mode /\ (r4 # "none" => r5 = r12.file)
    BY <1>1 DEF Myshell!ShellInv, Myshell!OrderParsed
  <2>3. CASE r3[1] \in {"prog"}
    <3>1. /\ r4 \in {"out", "app"} => r10' = [r10 EXCEPT ![r5] = Append(r10[r5], r3[1])]
          /\ r4 \notin {"out", "app"} => r10' = r10
          /\ r11'.ran = TRUE
      BY <2>3 DEF Myshell!ChildRuns
    <3>2. r11'.ran
      BY <3>1, Zenon
    <3>3. CASE r4 = "out"
      <4>1. r10 = [r12.before EXCEPT ![r12.file] = <<>>]
        BY <2>1, <2>2, <3>3 DEF Myshell!Opened
      <4>2. r10' = [r12.before EXCEPT ![r12.file] = <<r3[1]>>]
        BY <2>2, <3>1, <3>3, <4>1, ShellOrderFile
      <4> QED BY <1>1, <2>2, <3>2, <3>3, <4>2 DEF Myshell!Obeyed, Myshell!OrderRun
    <3>4. CASE r4 = "app"
      <4>1. r10 = [r12.before EXCEPT ![r12.file] = Myshell!Content(r12.file)]
        BY <2>1, <2>2, <3>4 DEF Myshell!Opened
      <4>2. r10' = [r12.before EXCEPT ![r12.file] = Append(Myshell!Content(r12.file), r3[1])]
        BY <2>2, <3>1, <3>4, <4>1, ShellOrderFile
      <4>3. Myshell!Content(r12.file)' = Myshell!Content(r12.file)
        BY <1>1 DEF Myshell!Content
      <4>4. Myshell!Obeyed'
        BY <1>1, <2>2, <3>2, <3>4, <4>2, <4>3 DEF Myshell!Obeyed
      <4> QED BY <1>1, <4>4, Zenon DEF Myshell!OrderRun
    <3>5. CASE r4 \in {"none", "in"}
      <4>1. r10 = r12.before
        BY <2>1, <2>2, <3>5 DEF Myshell!Opened
      <4>2. Myshell!Obeyed'
        <5>1. r10' = r12'.before /\ r12'.mode \in {"none", "in"}
          BY <1>1, <2>2, <3>1, <3>5, <4>1
        <5>2. r12'.mode # "out" /\ r12'.mode # "app"
          BY <5>1
        <5>3. r12'.mode = "in" => r12'.before[r12'.file] # Myshell!Missing
          BY <1>1, <2>1 DEF Myshell!Opened
        <5> QED BY <5>1, <5>2, <5>3 DEF Myshell!Obeyed, Myshell!Missing
      <4> QED BY <1>1, <4>2, Zenon DEF Myshell!OrderRun
    <3> QED BY <3>3, <3>4, <3>5, ShellTypes
  <2>4. CASE r3[1] \notin {"prog"}
    <3>1. r10' = r10 /\ r11'.ran = FALSE
      BY <2>4 DEF Myshell!ChildRuns
    <3>2. ~ (r11'.ran)
      BY <3>1, Zenon
    <3>3. Myshell!Obeyed'
      BY <1>1, <2>1, <3>1, <3>2, ShellOpened, ShellOrderFile
    <3> QED BY <1>1, <3>3, Zenon DEF Myshell!OrderRun
  <2> QED BY <2>3, <2>4
<1> QED BY <1>1, <1>3, <1>4, <1>5, <1>6, <1>7, <1>8 DEF Myshell!ShellInv

LEMMA ShellKilledKeeps ==
  ASSUME Myshell!ShellInv, Myshell!ChildKilled
  PROVE  Myshell!ShellInv'
<1>1. /\ r1 \in {"open", "exec"} /\ r1' = "wait" /\ r11' = [code |-> 0, ran |-> FALSE]
      /\ UNCHANGED <<r2, r3, r4, r5, r6, r7, r8, r9, r10, r12, r13, r14>>
      /\ r3[1] \notin {"cd", "echo"}
  BY DEF Myshell!ChildKilled, Myshell!NoStatus, Myshell!ShellInv, Myshell!LinesRun
<1>2. r11' \in [code : 0..3, ran : BOOLEAN]
  BY <1>1
<1>3. Myshell!TypeOK'
  BY <1>1 DEF Myshell!ShellInv, Myshell!TypeOK
<1>4. Myshell!LineTypes'
  BY <1>1, <1>2 DEF Myshell!ShellInv, Myshell!LineTypes
<1>5. Myshell!LinesRun' /\ Myshell!KnownEnds'
  BY <1>1 DEF Myshell!ShellInv, Myshell!LinesRun, Myshell!KnownEnds
<1>6. r12.proper => Myshell!OrderTyped'
  BY <1>1 DEF Myshell!ShellInv, Myshell!OrderTyped
<1>7. r12.proper => Myshell!OrderParsed'
  BY <1>1 DEF Myshell!ShellInv, Myshell!OrderParsed
<1>8. r12.proper => Myshell!OrderRun'
  <2> SUFFICES ASSUME r12.proper
               PROVE  Myshell!OrderRun'
    OBVIOUS
  <2>1. r11'.ran = FALSE
    BY <1>1
  <2>2. ~ (r11'.ran)
    BY <2>1, Zenon
  <2>3. Myshell!Obeyed'
    <3>1. CASE r1 = "open"
      <4>1. r10 = r12.before
        BY <3>1, Zenon DEF Myshell!ShellInv, Myshell!OrderRun
      <4> QED BY <1>1, <2>2, <4>1 DEF Myshell!Obeyed
    <3>2. CASE r1 = "exec"
      <4>1. Myshell!Opened
        BY <3>2, Zenon DEF Myshell!ShellInv, Myshell!OrderRun
      <4> QED BY <1>1, <2>2, <4>1, ShellOpened, ShellOrderFile
    <3> QED BY <1>1, <3>1, <3>2
  <2> QED BY <1>1, <2>3, Zenon DEF Myshell!OrderRun
<1> QED BY <1>1, <1>3, <1>4, <1>5, <1>6, <1>7, <1>8 DEF Myshell!ShellInv

LEMMA ShellWaitKeeps ==
  ASSUME Myshell!ShellInv, Myshell!Wait
  PROVE  Myshell!ShellInv'
<1>1. /\ r1 = "wait" /\ r1' = "prompt" /\ r6' = r11.code
      /\ UNCHANGED <<r2, r3, r4, r5, r7, r8, r9, r10, r11, r12, r13, r14>>
  BY DEF Myshell!Wait
<1>2. r6' \in 0..3
  BY <1>1, ShellTypes
<1>3. Myshell!TypeOK'
  BY <1>1, <1>2 DEF Myshell!ShellInv, Myshell!TypeOK
<1>4. Myshell!LineTypes'
  BY <1>1 DEF Myshell!ShellInv, Myshell!LineTypes
<1>5. Myshell!LinesRun' /\ Myshell!KnownEnds'
  BY <1>1 DEF Myshell!ShellInv, Myshell!LinesRun, Myshell!KnownEnds
<1>6. r12.proper => Myshell!OrderTyped'
  BY <1>1 DEF Myshell!ShellInv, Myshell!OrderTyped
<1>7. r12.proper => Myshell!OrderParsed'
  BY <1>1 DEF Myshell!ShellInv, Myshell!OrderParsed
<1>8. r12.proper => Myshell!OrderRun'
  <2>1. Myshell!Obeyed => Myshell!Obeyed'
    BY <1>1 DEF Myshell!Obeyed, Myshell!Content
  <2>2. r12.proper => Myshell!Obeyed
    BY <1>1, Zenon DEF Myshell!ShellInv, Myshell!OrderRun
  <2> QED BY <1>1, <2>1, <2>2, Zenon DEF Myshell!OrderRun
<1> QED BY <1>1, <1>3, <1>4, <1>5, <1>6, <1>7, <1>8 DEF Myshell!ShellInv

LEMMA ShellDirKeeps ==
  ASSUME Myshell!ShellInv, Myshell!RemoveDir
  PROVE  Myshell!ShellInv'
<1>1. /\ r8' = r8 \ {r7}
      /\ UNCHANGED <<r1, r2, r3, r4, r5, r6, r7, r9, r10, r11, r12, r13, r14>>
  BY DEF Myshell!RemoveDir
<1>2. Myshell!TypeOK'
  BY <1>1 DEF Myshell!ShellInv, Myshell!TypeOK
<1>3. Myshell!LineTypes'
  BY <1>1 DEF Myshell!ShellInv, Myshell!LineTypes
<1>4. Myshell!LinesRun' /\ Myshell!KnownEnds'
  BY <1>1 DEF Myshell!ShellInv, Myshell!LinesRun, Myshell!KnownEnds
<1>5. r12.proper => Myshell!OrderTyped'
  BY <1>1 DEF Myshell!ShellInv, Myshell!OrderTyped
<1>6. r12.proper => Myshell!OrderParsed'
  BY <1>1 DEF Myshell!ShellInv, Myshell!OrderParsed
<1>7. r12.proper => Myshell!OrderRun'
  <2>1. Myshell!OrderRun => Myshell!OrderRun'
    BY <1>1 DEF Myshell!OrderRun, Myshell!Obeyed, Myshell!Opened, Myshell!Content
  <2> QED BY <2>1, Zenon DEF Myshell!ShellInv
<1> QED BY <1>1, <1>2, <1>3, <1>4, <1>5, <1>6, <1>7 DEF Myshell!ShellInv

LEMMA ShellStep ==
  ASSUME Myshell!ShellInv, Myshell!Next
  PROVE  Myshell!ShellInv'
BY ShellPromptKeeps, ShellEndKeeps, ShellGetKeeps, ShellRedirKeeps, ShellParseKeeps,
   ShellCdKeeps, ShellEchoKeeps, ShellBuiltinKeeps, ShellForkKeeps, ShellOpenKeeps,
   ShellRunsKeeps, ShellKilledKeeps, ShellWaitKeeps, ShellDirKeeps, Zenon DEF Myshell!Next

LEMMA ShellSays ==
  ASSUME Myshell!ShellInv
  PROVE  Myshell!TypeOK /\ Myshell!OrdersObeyed /\ Myshell!KnownEnds
BY Zenon DEF Myshell!ShellInv, Myshell!OrdersObeyed, Myshell!OrderParsed, Myshell!OrderRun

(* A step that changes nothing keeps it.                                       *)
LEMMA ShellStays ==
  ASSUME Myshell!ShellInv, UNCHANGED <<r1, r2, r3, r4, r5, r6, r7, r8, r9, r10, r11, r12, r13, r14, r15,
                     r16, r17>>
  PROVE  Myshell!ShellInv'
<1>1. Myshell!TypeOK' <=> Myshell!TypeOK
  BY DEF Myshell!TypeOK
<1>2. Myshell!LineTypes' <=> Myshell!LineTypes
  BY DEF Myshell!LineTypes, Myshell!Text, Myshell!OrderWords
<1>3. Myshell!LinesRun' <=> Myshell!LinesRun
  BY DEF Myshell!LinesRun, Myshell!NoOrder
<1>4. Myshell!KnownEnds' <=> Myshell!KnownEnds
  BY DEF Myshell!KnownEnds, Myshell!NoOrder
<1>5. Myshell!OrderTyped' <=> Myshell!OrderTyped
  BY DEF Myshell!OrderTyped, Myshell!OrderWords
<1>6. Myshell!OrderParsed' <=> Myshell!OrderParsed
  BY DEF Myshell!OrderParsed
<1>7. Myshell!OrderRun' <=> Myshell!OrderRun
  BY DEF Myshell!OrderRun, Myshell!Opened, Myshell!Content, Myshell!Obeyed
<1> QED BY <1>1, <1>2, <1>3, <1>4, <1>5, <1>6, <1>7 DEF Myshell!ShellInv

-----------------------------------------------------------------------------
(* The shell without redirections, the same module with other constants: the    *)
(* same steps for its names.                                                   *)

LEMMA PlainWordsAre == /\ \A o \in Orders : o.argv \in Seq(PlainShell!OrderWords)
                       /\ PlainShell!OrderWords \subseteq Tokens
                       /\ \A w \in PlainShell!OrderWords : w \notin {"<", ">", " "}
<1>1. PlainShell!OrderWords \subseteq Tokens
  BY OrdersAre DEF PlainShell!OrderWords
<1>2. \A o \in Orders : o.argv \in Seq(PlainShell!OrderWords)
  <2> SUFFICES ASSUME NEW o \in Orders
               PROVE  o.argv \in Seq(PlainShell!OrderWords)
    OBVIOUS
  <2>1. o.argv \in Seq(Tokens)
    BY OrdersAre
  <2>2. \A i \in DOMAIN o.argv : o.argv[i] \in PlainShell!OrderWords
    BY DEF PlainShell!OrderWords
  <2> QED BY <2>1, <2>2
<1>3. \A w \in Tokens : w \notin {"<", ">", " "}
  BY DEF Tokens
<1> QED BY <1>1, <1>2, <1>3

LEMMA PlainTextIs == /\ PlainShell!OrderWords \subseteq PlainShell!Text
                     /\ \A s \in {"<", ">", " ", "f", "cut", "garbage"} : s \in PlainShell!Text
BY DEF Tokens, PlainShell!Text, PlainShell!Symbols, PlainShell!Blank, PlainShell!CutWord, PlainShell!Garbage

LEMMA PlainBehindIs ==
  /\ PlainShell!Behind("none", "f") = <<>> /\ PlainShell!Behind("in", "f") = <<"<", "f">>
  /\ PlainShell!Behind("out", "f") = <<">", "f">> /\ PlainShell!Behind("app", "f") = <<">", ">", "f">>
BY DEF PlainShell!Behind

LEMMA PlainBehindTyped ==
  ASSUME NEW mode \in {"none", "in", "out", "app"}
  PROVE  PlainShell!Behind(mode, "f") \in Seq(PlainShell!Text)
<1>1. "<" \in PlainShell!Text /\ ">" \in PlainShell!Text /\ "f" \in PlainShell!Text
  BY PlainTextIs
<1>2. /\ <<>> \in Seq(PlainShell!Text) /\ <<"<", "f">> \in Seq(PlainShell!Text)
      /\ <<">", "f">> \in Seq(PlainShell!Text) /\ <<">", ">", "f">> \in Seq(PlainShell!Text)
  BY <1>1
<1> QED BY <1>2, PlainBehindIs

(* RedirCheck takes a line apart at its last symbol.                           *)
LEMMA PlainParts ==
  ASSUME NEW cmd \in Seq(PlainShell!Text), NEW r, r = PlainShell!Redirection(cmd)
  PROVE  /\ r.redir \in {"none", "in", "out", "app"} /\ r.filename \in Seq(PlainShell!Text)
         /\ r.rest \in Seq(PlainShell!Text) /\ Len(r.rest) <= Len(cmd)
<1> DEFINE at == {k \in DOMAIN cmd : cmd[k] \in PlainShell!Symbols}
           i == CHOOSE k \in at : \A j \in at : j <= k
           append == i > 1 /\ cmd[i] = ">" /\ cmd[i - 1] = ">"
<1>1. CASE at = {}
  <2>1. r = PlainShell!NoRedir(cmd)
    BY <1>1 DEF PlainShell!Redirection
  <2> QED BY <2>1, EmptySeq DEF PlainShell!NoRedir
<1>2. CASE at # {}
  <2>1. Len(cmd) \in Nat /\ DOMAIN cmd = 1..Len(cmd) /\ \A k \in 1..Len(cmd) : cmd[k] \in PlainShell!Text
    BY LenProperties, ElementOfSeq
  <2>2. at \subseteq 1..Len(cmd)
    BY <2>1
  <2>3. \E k \in at : \A j \in at : j <= k
    BY <1>2, <2>1, <2>2, LastOf
  <2>4. i \in at
    BY <2>3
  <2>5. i \in 1..Len(cmd)
    BY <2>2, <2>4
  <2>6. /\ r.redir = CASE cmd[i] = "<" -> "in" [] append -> "app" [] OTHER -> "out"
        /\ r.filename = SubSeq(cmd, i + 1, Len(cmd))
        /\ r.rest = SubSeq(cmd, 1, IF append THEN i - 2 ELSE i - 1)
    BY <1>2 DEF PlainShell!Redirection
  <2> HIDE DEF i
  <2>7. r.filename \in Seq(PlainShell!Text)
    <3>1. \A k \in (i + 1)..Len(cmd) : cmd[k] \in PlainShell!Text
      BY <2>1, <2>5
    <3> QED BY <2>1, <2>5, <2>6, <3>1, SubSeqProperties
  <2>8. PICK last \in Int : /\ last = (IF append THEN i - 2 ELSE i - 1)
                            /\ last >= 0 /\ last < Len(cmd)
    BY <2>1, <2>5
  <2>9. \A k \in 1..last : cmd[k] \in PlainShell!Text
    BY <2>1, <2>8
  <2>10. r.rest = SubSeq(cmd, 1, last)
    BY <2>6, <2>8
  <2>11. /\ SubSeq(cmd, 1, last) \in Seq(PlainShell!Text)
         /\ Len(SubSeq(cmd, 1, last)) = (IF 1 <= last THEN last - 1 + 1 ELSE 0)
    BY <2>8, <2>9, SubSeqProperties
  <2>12. r.redir \in {"none", "in", "out", "app"}
    BY <2>6
  <2> QED BY <2>1, <2>7, <2>8, <2>10, <2>11, <2>12
<1> QED BY <1>1, <1>2

(* A line of words, then at most one redirection, gives both back.             *)
LEMMA PlainTakenApart ==
  ASSUME NEW w \in Seq(PlainShell!OrderWords), NEW mode \in {"none", "in", "out", "app"},
         NEW r, r = PlainShell!Redirection(w \o PlainShell!Behind(mode, "f"))
  PROVE  r.redir = mode /\ r.rest = w /\ (mode # "none" => r.filename = <<"f">>)
<1> DEFINE cmd == w \o PlainShell!Behind(mode, "f")
           b == PlainShell!Behind(mode, "f")
           n == Len(w)
           at == {k \in DOMAIN cmd : cmd[k] \in PlainShell!Symbols}
           i == CHOOSE k \in at : \A j \in at : j <= k
           append == i > 1 /\ cmd[i] = ">" /\ cmd[i - 1] = ">"
<1>1. w \in Seq(PlainShell!Text) /\ b \in Seq(PlainShell!Text)
  <2>1. w \in Seq(PlainShell!Text)
    <3>1. \A k \in 1..Len(w) : w[k] \in PlainShell!Text
      BY PlainTextIs, ElementOfSeq
    <3> QED BY <3>1, LenProperties
  <2> QED BY <2>1, PlainBehindTyped
<1>2. /\ cmd \in Seq(PlainShell!Text) /\ Len(cmd) = n + Len(b) /\ n \in Nat
      /\ DOMAIN cmd = 1..(n + Len(b))
      /\ \A k \in 1..(n + Len(b)) : cmd[k] = IF k <= n THEN w[k] ELSE b[k - n]
  BY <1>1, ConcatProperties, LenProperties
<1>3. \A k \in 1..n : w[k] \notin PlainShell!Symbols
  <2>1. \A k \in 1..n : w[k] \in PlainShell!OrderWords
    BY ElementOfSeq
  <2> QED BY <2>1, PlainWordsAre DEF PlainShell!Symbols
<1> HIDE DEF cmd
<1>4. CASE mode = "none"
  <2>1. b = <<>> /\ Len(b) = 0
    BY <1>4, PlainBehindIs
  <2>2. cmd = w
    BY <2>1, <1>1, ConcatEmptySeq DEF cmd
  <2>3. at = {}
    BY <2>1, <1>2, <1>3
  <2>4. r = PlainShell!NoRedir(cmd)
    BY <2>3 DEF PlainShell!Redirection, cmd
  <2> QED BY <1>4, <2>2, <2>4 DEF PlainShell!NoRedir
<1>5. ASSUME NEW m \in Nat, NEW last, last \in {"<", ">"}, mode # "none",
             m = n + Len(b) - 1, m > n, b[m - n] = last, b[m - n + 1] = "f"
      PROVE  /\ i = m /\ cmd[m] = last /\ m + 1 = Len(cmd) /\ cmd[m + 1] = "f" /\ m \in at
  <2>1. Len(b) \in Nat
    BY <1>1, LenProperties
  <2>2. m \in 1..(n + Len(b)) /\ m + 1 \in 1..(n + Len(b)) /\ m + 1 = n + Len(b)
    BY <1>2, <1>5, <2>1
  <2>3. cmd[m] = last /\ cmd[m + 1] = "f"
    <3>1. (m + 1) - n = m - n + 1
      BY <1>2, <1>5
    <3> QED BY <1>2, <1>5, <2>2, <3>1
  <2>4. m \in at
    BY <1>2, <1>5, <2>2, <2>3 DEF PlainShell!Symbols
  <2>5. \A j \in at : j <= m
    <3>1. m + 1 \notin at
      BY <2>3 DEF PlainShell!Symbols
    <3> QED BY <1>2, <2>1, <2>2, <3>1
  <2>6. \A k \in at : (\A j \in at : j <= k) => k = m
    <3>1. at \subseteq Nat
      BY <1>2, <2>1
    <3> QED BY <2>4, <2>5, <3>1
  <2>7. i = m
    BY <2>4, <2>5, <2>6
  <2> QED BY <1>2, <2>2, <2>3, <2>4, <2>7
<1>6. mode # "none" => /\ r.redir = CASE cmd[i] = "<" -> "in" [] append -> "app" [] OTHER -> "out"
                       /\ r.filename = SubSeq(cmd, i + 1, Len(cmd))
                       /\ r.rest = SubSeq(cmd, 1, IF append THEN i - 2 ELSE i - 1)
                       \/ at = {}
  BY DEF PlainShell!Redirection, cmd
<1>7. SubSeq(cmd, 1, n) = w
  BY <1>1, FirstPart DEF cmd
<1>8. ASSUME NEW m \in Nat, m + 1 = Len(cmd), cmd[m + 1] = "f"
      PROVE  SubSeq(cmd, m + 1, Len(cmd)) = <<"f">>
  <2>1. Len(cmd) \in Int /\ m + 1 \in Int /\ m + 1 <= Len(cmd) /\ Len(cmd) - (m + 1) + 1 = 1
    BY <1>8
  <2>2. \A k \in (m + 1)..Len(cmd) : cmd[k] \in {"f"}
    BY <1>8, <2>1
  <2> DEFINE s == SubSeq(cmd, m + 1, Len(cmd))
  <2>3. s \in Seq({"f"}) /\ Len(s) = 1
    BY <2>1, <2>2, SubSeqProperties
  <2>4. s[1] = "f"
    BY <2>3, ElementOfSeq
  <2>5. <<"f">> \in Seq({"f"}) /\ Len(<<"f">>) = 1 /\ <<"f">>[1] = "f"
    OBVIOUS
  <2> HIDE DEF s
  <2>6. s = <<"f">>
    BY <2>3, <2>4, <2>5, SeqEqual
  <2> QED BY <2>6 DEF s
<1> HIDE DEF i, at
<1>9. CASE mode \in {"in", "out"}
  <2>1. Len(b) = 2 /\ b[1] = (IF mode = "in" THEN "<" ELSE ">") /\ b[2] = "f"
    BY <1>9, PlainBehindIs
  <2>2. n + 1 \in Nat /\ n + 1 = n + Len(b) - 1 /\ n + 1 > n /\ (n + 1) - n = 1
    BY <1>2, <2>1
  <2>3. /\ i = n + 1 /\ cmd[n + 1] = (IF mode = "in" THEN "<" ELSE ">")
        /\ (n + 1) + 1 = Len(cmd) /\ cmd[(n + 1) + 1] = "f" /\ n + 1 \in at
    BY <1>5, <1>9, <2>1, <2>2
  <2>4. ~append
    <3>1. CASE n = 0
      BY <2>3, <3>1
    <3>2. CASE n # 0
      <4>1. n \in 1..n /\ n \in 1..(n + Len(b)) /\ i - 1 = n
        BY <1>2, <2>1, <2>3, <3>2
      <4>2. cmd[n] = w[n]
        BY <1>2, <4>1
      <4> QED BY <1>3, <4>1, <4>2 DEF PlainShell!Symbols
    <3> QED BY <3>1, <3>2
  <2>5. SubSeq(cmd, i + 1, Len(cmd)) = <<"f">>
    BY <1>8, <2>2, <2>3
  <2>6. i - 1 = n
    BY <1>2, <2>3
  <2>7. cmd[i] = (IF mode = "in" THEN "<" ELSE ">") /\ at # {} /\ mode # "none"
    BY <1>9, <2>3
  <2> QED BY <1>6, <1>7, <1>9, <2>4, <2>5, <2>6, <2>7
<1>10. CASE mode = "app"
  <2>1. Len(b) = 3 /\ b[1] = ">" /\ b[2] = ">" /\ b[3] = "f"
    BY <1>10, PlainBehindIs
  <2> HIDE DEF b, n
  <2>2. n + 2 \in Nat /\ n + 2 = n + Len(b) - 1 /\ n + 2 > n /\ (n + 2) - n = 2
    BY <1>2, <2>1
  <2>3. /\ i = n + 2 /\ cmd[n + 2] = ">" /\ (n + 2) + 1 = Len(cmd)
        /\ cmd[(n + 2) + 1] = "f" /\ n + 2 \in at
    BY <1>5, <1>10, <2>1, <2>2
  <2>4. append
    <3>1. n + 1 \in 1..(n + Len(b)) /\ ~ (n + 1 <= n) /\ (n + 1) - n = 1 /\ i - 1 = n + 1 /\ i > 1
      BY <1>2, <2>1, <2>3
    <3>2. cmd[n + 1] = b[1]
      BY <1>2, <3>1
    <3> QED BY <2>1, <2>3, <3>1, <3>2
  <2>5. SubSeq(cmd, i + 1, Len(cmd)) = <<"f">>
    BY <1>8, <2>2, <2>3
  <2>6. i - 2 = n
    BY <1>2, <2>3
  <2>7. cmd[i] = ">" /\ at # {} /\ mode # "none"
    BY <1>10, <2>3
  <2> QED BY <1>6, <1>7, <1>10, <2>4, <2>5, <2>6, <2>7
<1> QED BY <1>4, <1>9, <1>10

(* strtok keeps a line that no blank ends.                                     *)
LEMMA PlainWordsKept ==
  ASSUME NEW cmd \in Seq(PlainShell!Text)
  PROVE  /\ PlainShell!WordsOf(cmd) \in Seq(PlainShell!Text) /\ Len(PlainShell!WordsOf(cmd)) <= Len(cmd)
         /\ cmd \in Seq(PlainShell!OrderWords) => PlainShell!WordsOf(cmd) = cmd
<1>1. CASE cmd # <<>> /\ cmd[Len(cmd)] = " "
  <2>1. Len(cmd) \in Nat \ {0}
    BY <1>1, EmptySeq
  <2>2. PlainShell!WordsOf(cmd) = SubSeq(cmd, 1, Len(cmd) - 1)
    BY <1>1 DEF PlainShell!WordsOf, PlainShell!Blank
  <2>3. \A k \in 1..(Len(cmd) - 1) : cmd[k] \in PlainShell!Text
    BY <2>1, ElementOfSeq
  <2>4. /\ SubSeq(cmd, 1, Len(cmd) - 1) \in Seq(PlainShell!Text)
        /\ Len(SubSeq(cmd, 1, Len(cmd) - 1)) = (IF 1 <= Len(cmd) - 1 THEN Len(cmd) - 1 - 1 + 1 ELSE 0)
    BY <2>1, <2>3, SubSeqProperties
  <2>5. cmd \notin Seq(PlainShell!OrderWords)
    <3>1. Len(cmd) \in 1..Len(cmd)
      BY <2>1
    <3> QED BY <1>1, <3>1, ElementOfSeq, PlainWordsAre
  <2> QED BY <2>1, <2>2, <2>4, <2>5
<1>2. CASE ~ (cmd # <<>> /\ cmd[Len(cmd)] = " ")
  <2>1. PlainShell!WordsOf(cmd) = cmd
    BY <1>2, Zenon DEF PlainShell!WordsOf, PlainShell!Blank
  <2> QED BY <2>1, LenProperties
<1> QED BY <1>1, <1>2

-----------------------------------------------------------------------------
LEMMA PlainTypes ==
  ASSUME PlainShell!ShellInv
  PROVE  /\ r1 \in {"prompt", "read", "redir", "parse", "builtin", "fork", "open", "exec",
                    "wait", "overrun", "thrown"}
         /\ r2 \in Seq(PlainShell!Text) /\ r3 \in Seq(PlainShell!Text)
         /\ r4 \in {"none", "in", "out", "app"} /\ r6 \in 0..3
         /\ r11 \in [code : 0..3, ran : BOOLEAN]
BY DEF PlainShell!ShellInv, PlainShell!TypeOK, PlainShell!LineTypes

LEMMA PlainInit ==
  ASSUME PlainShell!Init
  PROVE  PlainShell!ShellInv
<1>1. /\ r1 \in {"overrun", "prompt"} /\ r2 \in {<<>>, <<"garbage">>} /\ r3 = <<>>
      /\ r4 = "none" /\ r6 = 0 /\ r12.proper = FALSE /\ r14 = FALSE /\ r9 = r7
      /\ r11 = [code |-> 0, ran |-> FALSE]
  BY DEF PlainShell!Init, PlainShell!Garbage, PlainShell!NoOrder, PlainShell!NoStatus
<1>2. PlainShell!TypeOK
  <2>1. /\ r7 \in {"home"} /\ r8 = {"home"} /\ r9 = r7
        /\ r10 \in [PlainShell!Names -> {PlainShell!Missing, <<>>}]
    BY DEF PlainShell!Init
  <2>2. <<>> \in Seq({"prog"}) /\ 0 \in 0..3
    BY EmptySeq
  <2>3. \A f \in PlainShell!Names : r10[f] \in {PlainShell!Missing} \cup Seq({"prog"})
    BY <2>1, <2>2
  <2>4. r10 \in [PlainShell!Names -> {PlainShell!Missing} \cup Seq({"prog"})]
    BY <2>1, <2>3
  <2> QED BY <1>1, <2>1, <2>2, <2>4 DEF PlainShell!TypeOK
<1>3. PlainShell!LineTypes
  <2>1. "garbage" \in PlainShell!Text
    BY PlainTextIs
  <2>2. <<"garbage">> \in Seq(PlainShell!Text) /\ <<>> \in Seq(PlainShell!Text)
    BY <2>1, OneIn, EmptySeq, Zenon
  <2>3. r2 \in Seq(PlainShell!Text) /\ r3 \in Seq(PlainShell!Text)
    BY <1>1, <2>2, Zenon
  <2>4. 0 \in 0..3 /\ FALSE \in BOOLEAN
    OBVIOUS
  <2>5. r11 \in [code : 0..3, ran : BOOLEAN]
    BY <1>1, <2>4
  <2> QED BY <1>1, <2>3, <2>5 DEF PlainShell!LineTypes
<1>4. PlainShell!LinesRun
  <2>1. Len(<<>>) <= 1 /\ Len(<<"garbage">>) <= 1
    OBVIOUS
  <2> QED BY <1>1, <2>1 DEF PlainShell!LinesRun
<1>5. PlainShell!KnownEnds
  BY <1>1 DEF PlainShell!KnownEnds
<1> QED BY <1>1, <1>2, <1>3, <1>4, <1>5 DEF PlainShell!ShellInv

LEMMA PlainPromptKeeps ==
  ASSUME PlainShell!ShellInv, PlainShell!PrintCommandPrompt
  PROVE  PlainShell!ShellInv'
<1>1. /\ r1 = "prompt" /\ r1' = "read" /\ UNCHANGED <<r2, r3, r4, r5, r6, r7, r8, r10, r11, r12, r13, r14>>
      /\ r9' = IF r7 \in r8 THEN r7 ELSE r9
  BY DEF PlainShell!PrintCommandPrompt
<1>2. PlainShell!TypeOK'
  BY <1>1 DEF PlainShell!ShellInv, PlainShell!TypeOK
<1>3. PlainShell!LineTypes'
  BY <1>1 DEF PlainShell!ShellInv, PlainShell!LineTypes
<1>4. PlainShell!LinesRun' /\ PlainShell!KnownEnds'
  BY <1>1 DEF PlainShell!ShellInv, PlainShell!LinesRun, PlainShell!KnownEnds
<1>5. r12.proper => PlainShell!OrderTyped'
  BY <1>1 DEF PlainShell!ShellInv, PlainShell!OrderTyped
<1>6. r12.proper => PlainShell!OrderParsed' /\ PlainShell!OrderRun'
  BY <1>1 DEF PlainShell!OrderParsed, PlainShell!OrderRun
<1> QED BY <1>1, <1>2, <1>3, <1>4, <1>5, <1>6 DEF PlainShell!ShellInv

LEMMA PlainEndKeeps ==
  ASSUME PlainShell!ShellInv, PlainShell!EndOfInput
  PROVE  PlainShell!ShellInv'
<1>1. /\ r1 = "read" /\ r1' = PlainShell!Checked /\ r12'.proper = FALSE /\ r14' = TRUE
      /\ r11' = [code |-> 0, ran |-> FALSE]
      /\ UNCHANGED <<r2, r3, r4, r5, r6, r7, r8, r9, r10, r13>>
  BY DEF PlainShell!EndOfInput, PlainShell!NoOrder, PlainShell!NoStatus
<1>2. r1' \in {"redir", "parse"} /\ r1' = PlainShell!Checked
  BY <1>1 DEF PlainShell!Checked
<1>3. PlainShell!TypeOK'
  BY <1>1, <1>2 DEF PlainShell!ShellInv, PlainShell!TypeOK
<1>4. PlainShell!LineTypes'
  BY <1>1, <1>2 DEF PlainShell!ShellInv, PlainShell!LineTypes, PlainShell!Checked
<1>5. PlainShell!LinesRun' /\ PlainShell!KnownEnds'
  BY <1>1, <1>2 DEF PlainShell!ShellInv, PlainShell!LinesRun, PlainShell!KnownEnds
<1> QED BY <1>1, <1>3, <1>4, <1>5 DEF PlainShell!ShellInv

(* What GetCommandLine leaves of an order; a proper one is whole.              *)
LEMMA PlainTypedIs ==
  ASSUME NEW o \in Orders
  PROVE  /\ PlainShell!Typed(o) \in Seq(PlainShell!Text)
         /\ o.newline /\ ~o.blank => PlainShell!Typed(o) = o.argv \o PlainShell!Behind(o.mode, o.file)
<1> DEFINE cmd == o.argv \o PlainShell!Behind(o.mode, o.file)
           end == IF o.blank THEN <<" ">> ELSE <<>>
           text == cmd \o end
           shorter == SubSeq(text, 1, Len(text) - 1)
<1>1. cmd \in Seq(PlainShell!Text)
  <2>1. o.argv \in Seq(PlainShell!Text)
    <3>1. o.argv \in Seq(PlainShell!OrderWords)
      BY PlainWordsAre
    <3>2. \A k \in 1..Len(o.argv) : o.argv[k] \in PlainShell!Text
      BY <3>1, PlainTextIs, ElementOfSeq
    <3> QED BY <3>1, <3>2, LenProperties
  <2>2. PlainShell!Behind(o.mode, o.file) \in Seq(PlainShell!Text)
    BY PlainBehindTyped, OrdersAre
  <2> QED BY <2>1, <2>2, ConcatProperties
<1> HIDE DEF cmd
<1>2. end \in Seq(PlainShell!Text)
  <2>1. " " \in PlainShell!Text
    BY PlainTextIs
  <2>2. <<" ">> \in Seq(PlainShell!Text) /\ <<>> \in Seq(PlainShell!Text)
    BY <2>1, OneIn, EmptySeq, Zenon
  <2> QED BY <2>2
<1>3. ~o.blank => text = cmd
  BY <1>1, ConcatEmptySeq
<1>4. text \in Seq(PlainShell!Text)
  BY <1>1, <1>2, ConcatProperties
<1>5. PlainShell!Typed(o) = CASE o.newline \/ text = <<>> -> text
        [] ~o.newline /\ text # <<>> /\ text[Len(text)] \in PlainShell!Symbols \cup {PlainShell!Blank} -> shorter
        [] OTHER -> Append(shorter, PlainShell!CutWord)
  BY DEF PlainShell!Typed, PlainShell!Blank, cmd
<1> HIDE DEF text
<1>6. text # <<>> => shorter \in Seq(PlainShell!Text)
  <2>1. text # <<>> => Len(text) \in Nat \ {0}
    BY <1>4, EmptySeq
  <2>2. text # <<>> => \A k \in 1..(Len(text) - 1) : text[k] \in PlainShell!Text
    BY <1>4, <2>1, ElementOfSeq
  <2> QED BY <2>1, <2>2, SubSeqProperties
<1> HIDE DEF shorter
<1>7. text # <<>> => Append(shorter, PlainShell!CutWord) \in Seq(PlainShell!Text)
  <2>1. PlainShell!CutWord \in PlainShell!Text
    BY PlainTextIs DEF PlainShell!CutWord
  <2> QED BY <1>6, <2>1
<1>8. PlainShell!Typed(o) \in {text, shorter, Append(shorter, PlainShell!CutWord)} /\ (text = <<>> => PlainShell!Typed(o) = text)
  BY <1>5
<1>9. o.newline => PlainShell!Typed(o) = text
  BY <1>5
<1> QED BY <1>3, <1>4, <1>6, <1>7, <1>8, <1>9 DEF cmd

LEMMA PlainGetKeeps ==
  ASSUME PlainShell!ShellInv, NEW o \in Orders, PlainShell!GetCommandLine(o)
  PROVE  PlainShell!ShellInv'
<1>1. /\ r1 = "read" /\ r1' = PlainShell!Checked /\ r2' = PlainShell!Typed(o) /\ r12'.argv = o.argv
      /\ r12'.mode = o.mode /\ r12'.file = <<o.file>> /\ r12'.before = r10
      /\ r12'.proper = (o.newline /\ ~o.blank /\ (PlainShell!Checked = "redir" \/ o.mode = "none"))
      /\ r11' = [code |-> 0, ran |-> FALSE]
      /\ UNCHANGED <<r3, r4, r5, r6, r7, r8, r9, r10>>
  BY DEF PlainShell!GetCommandLine, PlainShell!NoStatus, PlainShell!Checked
<1>2. r1' \in {"redir", "parse"} /\ r1' = PlainShell!Checked
  BY <1>1 DEF PlainShell!Checked
<1>3. r12' # PlainShell!NoOrder
  <2>1. PlainShell!NoOrder.file = <<>> /\ <<o.file>> # <<>>
    BY DEF PlainShell!NoOrder
  <2> QED BY <1>1, <2>1
<1>4. PlainShell!TypeOK'
  BY <1>1, <1>2 DEF PlainShell!ShellInv, PlainShell!TypeOK
<1>5. PlainShell!LineTypes'
  <2>1. r2' \in Seq(PlainShell!Text)
    BY <1>1, PlainTypedIs
  <2> QED BY <1>1, <1>2, <2>1 DEF PlainShell!ShellInv, PlainShell!LineTypes, PlainShell!Checked
<1>6. PlainShell!NoOrder' = PlainShell!NoOrder
  BY DEF PlainShell!NoOrder
<1>7. PlainShell!LinesRun' /\ PlainShell!KnownEnds'
  BY <1>1, <1>2, <1>3, <1>6 DEF PlainShell!ShellInv, PlainShell!LinesRun, PlainShell!KnownEnds
<1>8. ASSUME r12'.proper
      PROVE  PlainShell!OrderTyped' /\ PlainShell!OrderParsed' /\ PlainShell!OrderRun'
  <2>1. o.newline /\ ~o.blank /\ (r1' = "redir" \/ o.mode = "none")
    BY <1>1, <1>2, <1>8
  <2>2. r2' = o.argv \o PlainShell!Behind(o.mode, o.file)
    BY <1>1, <2>1, PlainTypedIs
  <2>3. o.mode = "none" => r2' = o.argv
    BY <2>2, OrdersAre, PlainBehindIs, ConcatEmptySeq
  <2>4. PlainShell!OrderTyped'
    <3>1. /\ o.argv \in Seq(PlainShell!OrderWords) /\ o.mode \in {"none", "in", "out", "app"}
          /\ o.file = "f" /\ r10 \in [PlainShell!Names -> {PlainShell!Missing} \cup Seq({"prog"})]
      BY PlainWordsAre, OrdersAre DEF PlainShell!ShellInv, PlainShell!TypeOK
    <3> QED BY <1>1, <2>2, <3>1 DEF PlainShell!OrderTyped
  <2>5. PlainShell!OrderParsed'
    <3>1. r1' = "parse" => r2' = o.argv /\ o.mode = "none" /\ r4 = "none"
      BY <1>1, <1>2, <2>1, <2>3 DEF PlainShell!ShellInv, PlainShell!LineTypes, PlainShell!Checked
    <3> QED BY <1>1, <1>2, <3>1 DEF PlainShell!OrderParsed
  <2>6. PlainShell!OrderRun'
    <3>1. r10' = r12'.before /\ r11'.ran = FALSE
      BY <1>1
    <3>2. r1' \notin {"exec", "wait", "prompt"}
      BY <1>2
    <3> QED BY <3>1, <3>2, Zenon DEF PlainShell!OrderRun
  <2> QED BY <2>4, <2>5, <2>6
<1> QED BY <1>4, <1>5, <1>7, <1>8 DEF PlainShell!ShellInv

LEMMA PlainRedirKeeps ==
  ASSUME PlainShell!ShellInv, PlainShell!RedirCheck
  PROVE  PlainShell!ShellInv'
<1> DEFINE r == PlainShell!Redirection(r2)
<1>1. /\ r1 = "redir" /\ r1' = "parse" /\ r4' = r.redir /\ r5' = r.filename /\ r2' = r.rest
      /\ UNCHANGED <<r3, r6, r7, r8, r9, r10, r11, r12, r13, r14>>
  BY DEF PlainShell!RedirCheck
<1>2. /\ r.redir \in {"none", "in", "out", "app"} /\ r.filename \in Seq(PlainShell!Text)
      /\ r.rest \in Seq(PlainShell!Text) /\ Len(r.rest) <= Len(r2)
  BY PlainTypes, PlainParts
<1>3. r12.proper => r.redir = r12.mode /\ r.rest = r12.argv /\ (r12.mode # "none" => r.filename = r12.file)
  <2> SUFFICES ASSUME r12.proper
               PROVE  r.redir = r12.mode /\ r.rest = r12.argv /\ (r12.mode # "none" => r.filename = r12.file)
    OBVIOUS
  <2>1. /\ r12.argv \in Seq(PlainShell!OrderWords) /\ r12.mode \in {"none", "in", "out", "app"}
        /\ r12.file = <<"f">> /\ r2 = r12.argv \o PlainShell!Behind(r12.mode, "f")
    BY <1>1 DEF PlainShell!ShellInv, PlainShell!OrderTyped
  <2> QED BY <2>1, PlainTakenApart
<1> HIDE DEF r
<1>4. PlainShell!TypeOK'
  BY <1>1, <1>2 DEF PlainShell!ShellInv, PlainShell!TypeOK
<1>5. PlainShell!LineTypes'
  BY <1>1, <1>2 DEF PlainShell!ShellInv, PlainShell!LineTypes
<1>6. PlainShell!LinesRun' /\ PlainShell!KnownEnds'
  <2>1. Len(r2) \in Nat /\ Len(r.rest) \in Nat
    BY <1>2, PlainTypes, LenProperties
  <2> QED BY <1>1, <1>2, <2>1 DEF PlainShell!ShellInv, PlainShell!LinesRun, PlainShell!KnownEnds
<1>7. r12.proper => PlainShell!OrderTyped'
  BY <1>1 DEF PlainShell!ShellInv, PlainShell!OrderTyped
<1>8. r12.proper => PlainShell!OrderParsed' /\ PlainShell!OrderRun'
  BY <1>1, <1>3 DEF PlainShell!ShellInv, PlainShell!OrderParsed, PlainShell!OrderRun
<1> QED BY <1>1, <1>4, <1>5, <1>6, <1>7, <1>8 DEF PlainShell!ShellInv

LEMMA PlainParseKeeps ==
  ASSUME PlainShell!ShellInv, PlainShell!CommandParse
  PROVE  PlainShell!ShellInv'
<1>1. /\ r1 = "parse" /\ r3' = PlainShell!WordsOf(r2) /\ r2' = (IF r3' = <<>> THEN <<>> ELSE <<Head(r3')>>)
      /\ r1' = (CASE Len(r3') + 1 > MaxArgv -> "overrun" [] r3' = <<>> -> "thrown" [] OTHER -> "builtin")
      /\ UNCHANGED <<r4, r5, r6, r7, r8, r9, r10, r11, r12, r13, r14>>
  BY DEF PlainShell!CommandParse
<1>2. r3' \in Seq(PlainShell!Text) /\ Len(r3') <= Len(r2)
  BY <1>1, PlainTypes, PlainWordsKept
<1>3. r12.proper => r3' = r12.argv /\ r4 = r12.mode /\ (r4 # "none" => r5 = r12.file)
  <2> SUFFICES ASSUME r12.proper
               PROVE  r3' = r12.argv /\ r4 = r12.mode /\ (r4 # "none" => r5 = r12.file)
    OBVIOUS
  <2>1. r2 = r12.argv /\ r12.argv \in Seq(PlainShell!OrderWords) /\ r4 = r12.mode /\ (r4 # "none" => r5 = r12.file)
    BY <1>1 DEF PlainShell!ShellInv, PlainShell!OrderTyped, PlainShell!OrderParsed
  <2> QED BY <1>1, <2>1, PlainTypes, PlainWordsKept
<1>4. /\ r1' \in {"overrun", "thrown", "builtin"} /\ (r1' = "thrown" => r3' = <<>>)
      /\ (r1' = "builtin" => r3' # <<>>) /\ (r1' = "overrun" => Len(r3') + 1 > MaxArgv)
  BY <1>1
<1>5. PlainShell!TypeOK'
  BY <1>1, <1>4 DEF PlainShell!ShellInv, PlainShell!TypeOK
<1>6. r2' \in Seq(PlainShell!Text) /\ Len(r2') <= 1
  <2>1. r3' # <<>> => Head(r3') \in PlainShell!Text
    BY <1>2, HeadTailProperties
  <2> QED BY <1>1, <2>1
<1>7. PlainShell!LineTypes'
  BY <1>1, <1>2, <1>4, <1>6 DEF PlainShell!ShellInv, PlainShell!LineTypes
<1>8. r12 = PlainShell!NoOrder /\ r1' = "builtin" => Len(r3') = 1
  <2>1. r12 = PlainShell!NoOrder => Len(r2) <= 1
    BY <1>1 DEF PlainShell!ShellInv, PlainShell!LinesRun
  <2>2. Len(r2) \in Nat /\ Len(r3') \in Nat /\ (r3' # <<>> => Len(r3') # 0)
    BY <1>2, PlainTypes, LenProperties, EmptySeq
  <2> SUFFICES ASSUME r12 = PlainShell!NoOrder, r1' = "builtin"
               PROVE  Len(r3') = 1
    OBVIOUS
  <2>3. Len(r2) <= 1 /\ Len(r3') # 0
    BY <1>4, <2>1, <2>2
  <2>4. \A a, b \in Nat : b <= a /\ a <= 1 /\ b # 0 => b = 1
    OBVIOUS
  <2>5. Len(r3') <= Len(r2) /\ Len(r2) \in Nat /\ Len(r3') \in Nat
    BY <1>2, <2>2, Zenon
  <2> QED BY <2>3, <2>4, <2>5, Zenon
<1>9. PlainShell!NoOrder' = PlainShell!NoOrder
  BY DEF PlainShell!NoOrder
<1>10. PlainShell!LinesRun'
  BY <1>1, <1>4, <1>6, <1>8, <1>9 DEF PlainShell!LinesRun
<1>11. PlainShell!KnownEnds'
  BY <1>1, <1>3, <1>4, <1>8, <1>9 DEF PlainShell!ShellInv, PlainShell!KnownEnds
<1>12. r12.proper => PlainShell!OrderTyped'
  BY <1>1, <1>4 DEF PlainShell!ShellInv, PlainShell!OrderTyped
<1>13. r12.proper => PlainShell!OrderParsed' /\ PlainShell!OrderRun'
  BY <1>1, <1>3, <1>4 DEF PlainShell!ShellInv, PlainShell!OrderParsed, PlainShell!OrderRun
<1> QED BY <1>1, <1>5, <1>7, <1>10, <1>11, <1>12, <1>13 DEF PlainShell!ShellInv

(* Before the child runs nothing has changed; what ends then has obeyed.       *)
LEMMA PlainQuiet ==
  ASSUME PlainShell!ShellInv, r12.proper, r1 \in {"redir", "parse", "builtin", "fork", "open"},
         r1' # "exec", UNCHANGED <<r3, r10, r11, r12>>
  PROVE  PlainShell!OrderRun'
<1>1. r10 = r12.before /\ ~r11.ran
  BY Zenon DEF PlainShell!ShellInv, PlainShell!OrderRun
<1>2. PlainShell!Obeyed
  BY <1>1 DEF PlainShell!Obeyed
<1>3. PlainShell!Obeyed'
  BY <1>2 DEF PlainShell!Obeyed, PlainShell!Content
<1> QED BY <1>1, <1>3, Zenon DEF PlainShell!OrderRun

LEMMA PlainCdKeeps ==
  ASSUME PlainShell!ShellInv, PlainShell!Cd
  PROVE  PlainShell!ShellInv'
<1> DEFINE where == IF Len(r3) = 1 THEN "home" ELSE r3[2]
<1>1. /\ r1 = "builtin" /\ r1' = "prompt" /\ r7' = (IF where \in r8 THEN where ELSE r7)
      /\ UNCHANGED <<r2, r3, r4, r5, r6, r8, r9, r10, r11, r12, r13, r14>>
  BY DEF PlainShell!Cd
<1> HIDE DEF where
<1>2. PlainShell!TypeOK'
  BY <1>1 DEF PlainShell!ShellInv, PlainShell!TypeOK
<1>3. PlainShell!LineTypes'
  BY <1>1 DEF PlainShell!ShellInv, PlainShell!LineTypes
<1>4. PlainShell!LinesRun' /\ PlainShell!KnownEnds'
  BY <1>1 DEF PlainShell!ShellInv, PlainShell!LinesRun, PlainShell!KnownEnds
<1>5. r12.proper => PlainShell!OrderTyped'
  BY <1>1 DEF PlainShell!ShellInv, PlainShell!OrderTyped
<1>6. r12.proper => PlainShell!OrderParsed'
  BY <1>1 DEF PlainShell!ShellInv, PlainShell!OrderParsed
<1>7. r12.proper => PlainShell!OrderRun'
  BY <1>1, PlainQuiet
<1> QED BY <1>1, <1>2, <1>3, <1>4, <1>5, <1>6, <1>7 DEF PlainShell!ShellInv

LEMMA PlainEchoKeeps ==
  ASSUME PlainShell!ShellInv, PlainShell!Echo
  PROVE  PlainShell!ShellInv'
<1>1. /\ r1 = "builtin" /\ r1' \in {"prompt", "thrown"} /\ (r1' = "thrown" => Len(r3) = 1)
      /\ r6' \in {r6, 0} /\ r3[1] = "echo"
      /\ UNCHANGED <<r2, r3, r4, r5, r7, r8, r9, r10, r11, r12, r13, r14>>
  BY DEF PlainShell!Echo
<1>2. PlainShell!TypeOK'
  BY <1>1 DEF PlainShell!ShellInv, PlainShell!TypeOK
<1>3. PlainShell!LineTypes'
  BY <1>1 DEF PlainShell!ShellInv, PlainShell!LineTypes
<1>4. PlainShell!LinesRun'
  BY <1>1 DEF PlainShell!ShellInv, PlainShell!LinesRun
<1>5. r1' = "thrown" => r3 = <<"echo">>
  BY <1>1, PlainTypes
<1>6. PlainShell!KnownEnds'
  BY <1>1, <1>5 DEF PlainShell!ShellInv, PlainShell!KnownEnds
<1>7. r12.proper => PlainShell!OrderTyped'
  BY <1>1 DEF PlainShell!ShellInv, PlainShell!OrderTyped
<1>8. r12.proper => PlainShell!OrderParsed'
  BY <1>1 DEF PlainShell!ShellInv, PlainShell!OrderParsed
<1>9. r12.proper => PlainShell!OrderRun'
  BY <1>1, PlainQuiet
<1> QED BY <1>1, <1>2, <1>3, <1>4, <1>6, <1>7, <1>8, <1>9 DEF PlainShell!ShellInv

LEMMA PlainBuiltinKeeps ==
  ASSUME PlainShell!ShellInv, PlainShell!CheckAndExecBuiltin
  PROVE  PlainShell!ShellInv'
<1>1. /\ r1 = "builtin" /\ r1' = "fork" /\ r3[1] \notin {"cd", "echo"}
      /\ UNCHANGED <<r2, r3, r4, r5, r6, r7, r8, r9, r10, r11, r12, r13, r14>>
  BY DEF PlainShell!CheckAndExecBuiltin
<1>2. PlainShell!TypeOK'
  BY <1>1 DEF PlainShell!ShellInv, PlainShell!TypeOK
<1>3. PlainShell!LineTypes'
  BY <1>1 DEF PlainShell!ShellInv, PlainShell!LineTypes
<1>4. PlainShell!LinesRun' /\ PlainShell!KnownEnds'
  BY <1>1 DEF PlainShell!ShellInv, PlainShell!LinesRun, PlainShell!KnownEnds
<1>5. r12.proper => PlainShell!OrderTyped'
  BY <1>1 DEF PlainShell!ShellInv, PlainShell!OrderTyped
<1>6. r12.proper => PlainShell!OrderParsed'
  BY <1>1 DEF PlainShell!ShellInv, PlainShell!OrderParsed
<1>7. r12.proper => PlainShell!OrderRun'
  BY <1>1, PlainQuiet
<1> QED BY <1>1, <1>2, <1>3, <1>4, <1>5, <1>6, <1>7 DEF PlainShell!ShellInv

LEMMA PlainForkKeeps ==
  ASSUME PlainShell!ShellInv, PlainShell!NoFork \/ PlainShell!Excute
  PROVE  PlainShell!ShellInv'
<1>1. /\ r1 = "fork" /\ r1' \in {"prompt", "open", "exec"}
      /\ UNCHANGED <<r2, r3, r4, r5, r6, r7, r8, r9, r10, r11, r12, r13, r14>>
  BY DEF PlainShell!NoFork, PlainShell!Excute, PlainShell!PlainExcute, PlainShell!Redirected
<1>2. (r1' = "exec" => r4 = "none") /\ (r1' = "open" => r4 # "none")
  BY DEF PlainShell!NoFork, PlainShell!Excute, PlainShell!PlainExcute, PlainShell!Redirected,
         PlainShell!ShellInv, PlainShell!LineTypes
<1>3. PlainShell!TypeOK'
  BY <1>1 DEF PlainShell!ShellInv, PlainShell!TypeOK
<1>4. PlainShell!LineTypes'
  BY <1>1, <1>2 DEF PlainShell!ShellInv, PlainShell!LineTypes
<1>5. PlainShell!LinesRun' /\ PlainShell!KnownEnds'
  BY <1>1 DEF PlainShell!ShellInv, PlainShell!LinesRun, PlainShell!KnownEnds
<1>6. r12.proper => PlainShell!OrderTyped'
  BY <1>1 DEF PlainShell!ShellInv, PlainShell!OrderTyped
<1>7. r12.proper => PlainShell!OrderParsed'
  BY <1>1 DEF PlainShell!ShellInv, PlainShell!OrderParsed
<1>8. r12.proper => PlainShell!OrderRun'
  <2>1. CASE r1' = "exec"
    <3> SUFFICES ASSUME r12.proper
                 PROVE  PlainShell!OrderRun'
      OBVIOUS
    <3>1. r12.mode = "none" /\ r10 = r12.before /\ ~r11.ran
      BY <1>1, <1>2, <2>1, Zenon DEF PlainShell!ShellInv, PlainShell!OrderParsed, PlainShell!OrderRun
    <3>2. PlainShell!Opened'
      BY <1>1, <3>1 DEF PlainShell!Opened
    <3> QED BY <1>1, <2>1, <3>1, <3>2, Zenon DEF PlainShell!OrderRun
  <2>2. CASE r1' # "exec"
    BY <1>1, <2>2, PlainQuiet
  <2> QED BY <2>1, <2>2
<1> QED BY <1>1, <1>3, <1>4, <1>5, <1>6, <1>7, <1>8 DEF PlainShell!ShellInv

LEMMA PlainFiles ==
  ASSUME PlainShell!ShellInv
  PROVE  r10 \in [PlainShell!Names -> {PlainShell!Missing} \cup Seq({"prog"})]
BY DEF PlainShell!ShellInv, PlainShell!TypeOK

LEMMA PlainOrderFile ==
  ASSUME PlainShell!ShellInv, r12.proper
  PROVE  /\ r12.file \in PlainShell!Names /\ r12.mode \in {"none", "in", "out", "app"}
         /\ r12.before \in [PlainShell!Names -> {PlainShell!Missing} \cup Seq({"prog"})]
<1>1. r12.file = <<"f">>
  BY DEF PlainShell!ShellInv, PlainShell!OrderTyped
<1> QED BY <1>1 DEF PlainShell!ShellInv, PlainShell!OrderTyped, PlainShell!Names

LEMMA PlainOpenKeeps ==
  ASSUME PlainShell!ShellInv, NEW works \in BOOLEAN, PlainShell!ChildOpens(works)
  PROVE  PlainShell!ShellInv'
<1>1. /\ r1 = "open" /\ UNCHANGED <<r2, r3, r4, r5, r6, r7, r8, r9, r12, r13, r14>>
  BY DEF PlainShell!ChildOpens
<1>2. CASE ~works
  <2>1. r1' = "wait" /\ r11' = [code |-> PlainShell!FailCode, ran |-> FALSE] /\ r10' = r10
    BY <1>2 DEF PlainShell!ChildOpens
  <2>2. r11' \in [code : 0..3, ran : BOOLEAN]
    <3>1. PlainShell!FailCode \in 0..3 /\ FALSE \in BOOLEAN
      BY DEF PlainShell!FailCode
    <3> QED BY <2>1, <3>1
  <2>3. PlainShell!TypeOK'
    BY <1>1, <2>1 DEF PlainShell!ShellInv, PlainShell!TypeOK
  <2>4. PlainShell!LineTypes'
    BY <1>1, <2>1, <2>2 DEF PlainShell!ShellInv, PlainShell!LineTypes
  <2>5. PlainShell!LinesRun' /\ PlainShell!KnownEnds'
    BY <1>1, <2>1 DEF PlainShell!ShellInv, PlainShell!LinesRun, PlainShell!KnownEnds
  <2>6. r12.proper => PlainShell!OrderTyped'
    BY <1>1, <2>1 DEF PlainShell!ShellInv, PlainShell!OrderTyped
  <2>7. r12.proper => PlainShell!OrderParsed'
    BY <1>1, <2>1 DEF PlainShell!ShellInv, PlainShell!OrderParsed
  <2>8. r12.proper => PlainShell!OrderRun'
    <3> SUFFICES ASSUME r12.proper
                 PROVE  PlainShell!OrderRun'
      OBVIOUS
    <3>1. r10 = r12.before
      BY <1>1, Zenon DEF PlainShell!ShellInv, PlainShell!OrderRun
    <3>2. r11'.ran = FALSE
      BY <2>1
    <3>3. ~ (r11'.ran)
      BY <3>2, Zenon
    <3>4. PlainShell!Obeyed'
      BY <1>1, <2>1, <3>1, <3>3 DEF PlainShell!Obeyed
    <3> QED BY <2>1, <3>4, Zenon DEF PlainShell!OrderRun
  <2> QED BY <1>1, <2>3, <2>4, <2>5, <2>6, <2>7, <2>8 DEF PlainShell!ShellInv
<1>3. CASE works
  <2>1. /\ r5 \in PlainShell!Names /\ (r4 = "in" => r10[r5] # PlainShell!Missing)
        /\ r1' = "exec" /\ r11' = r11
        /\ r4 = "in" => r10' = r10
        /\ r4 = "out" => r10' = [r10 EXCEPT ![r5] = <<>>]
        /\ r4 \notin {"in", "out"} =>
               r10' = [r10 EXCEPT ![r5] = IF r10[r5] = PlainShell!Missing THEN <<>> ELSE r10[r5]]
    BY <1>3 DEF PlainShell!ChildOpens
  <2>3. /\ r10' \in [PlainShell!Names -> {PlainShell!Missing} \cup Seq({"prog"})]
        /\ r4 # "in" => r10'[r5] \in Seq({"prog"})
    <3>1. <<>> \in Seq({"prog"})
      BY EmptySeq
    <3>2. r10[r5] # PlainShell!Missing => r10[r5] \in Seq({"prog"})
      BY <2>1, PlainFiles
    <3>3. CASE r4 = "in"
      BY <2>1, <3>3, PlainFiles
    <3>4. CASE r4 = "out"
      BY <2>1, <3>1, <3>4, PlainFiles
    <3>5. CASE r4 \notin {"in", "out"}
      <4>1. PICK new : new = IF r10[r5] = PlainShell!Missing THEN <<>> ELSE r10[r5]
        OBVIOUS
      <4>2. new \in Seq({"prog"})
        BY <3>1, <3>2, <4>1
      <4>3. r10' = [r10 EXCEPT ![r5] = new]
        BY <2>1, <3>5, <4>1
      <4> QED BY <2>1, <4>2, <4>3, PlainFiles
    <3> QED BY <3>3, <3>4, <3>5
  <2>4. PlainShell!TypeOK'
    BY <1>1, <2>1, <2>3 DEF PlainShell!ShellInv, PlainShell!TypeOK
  <2>5. PlainShell!LineTypes'
    BY <1>1, <2>1, <2>3 DEF PlainShell!ShellInv, PlainShell!LineTypes
  <2>6. PlainShell!LinesRun' /\ PlainShell!KnownEnds'
    BY <1>1, <2>1 DEF PlainShell!ShellInv, PlainShell!LinesRun, PlainShell!KnownEnds
  <2>7. r12.proper => PlainShell!OrderTyped'
    BY <1>1, <2>1 DEF PlainShell!ShellInv, PlainShell!OrderTyped
  <2>8. r12.proper => PlainShell!OrderParsed'
    BY <1>1, <2>1 DEF PlainShell!ShellInv, PlainShell!OrderParsed
  <2>9. r12.proper => PlainShell!OrderRun'
    <3> SUFFICES ASSUME r12.proper
                 PROVE  PlainShell!OrderRun'
      OBVIOUS
    <3>1. r10 = r12.before /\ ~r11.ran
      BY <1>1, Zenon DEF PlainShell!ShellInv, PlainShell!OrderRun
    <3>2. r4 = r12.mode /\ (r4 # "none" => r5 = r12.file)
      BY <1>1 DEF PlainShell!ShellInv, PlainShell!OrderParsed
    <3>3. r4 # "none"
      BY <1>1 DEF PlainShell!ShellInv, PlainShell!LineTypes
    <3>4. PlainShell!Opened'
      BY <1>1, <2>1, <3>1, <3>2, <3>3, PlainTypes DEF PlainShell!Opened, PlainShell!Content
    <3> QED BY <1>1, <2>1, <3>1, <3>4, Zenon DEF PlainShell!OrderRun
  <2> QED BY <1>1, <2>4, <2>5, <2>6, <2>7, <2>8, <2>9 DEF PlainShell!ShellInv
<1> QED BY <1>2, <1>3

(* A child that ends before its program wrote leaves the file as it opened it. *)
LEMMA PlainOpened ==
  ASSUME PlainShell!Opened, UNCHANGED <<r3, r10, r12>>, ~ (r11'.ran), r3[1] \notin {"cd", "echo"},
         r12.mode \in {"none", "in", "out", "app"}
  PROVE  PlainShell!Obeyed'
<1>1. CASE r12.mode \in {"none", "in"}
  <2>1. r10' = r12.before
    BY <1>1 DEF PlainShell!Opened
  <2> QED BY <1>1, <2>1 DEF PlainShell!Obeyed
<1>2. CASE r12.mode = "out"
  <2>1. r10' = [r12.before EXCEPT ![r12.file] = <<>>]
    BY <1>2 DEF PlainShell!Opened
  <2> QED BY <1>2, <2>1 DEF PlainShell!Obeyed
<1>3. CASE r12.mode = "app"
  <2>1. r10' = [r12.before EXCEPT ![r12.file] = PlainShell!Content(r12.file)]
    BY <1>3 DEF PlainShell!Opened
  <2>2. PlainShell!Content(r12.file)' = PlainShell!Content(r12.file)
    BY DEF PlainShell!Content
  <2> QED BY <1>3, <2>1, <2>2 DEF PlainShell!Obeyed
<1> QED BY <1>1, <1>2, <1>3

LEMMA PlainRunsKeeps ==
  ASSUME PlainShell!ShellInv, NEW code \in 0..1, PlainShell!ChildRuns(code)
  PROVE  PlainShell!ShellInv'
<1>1. /\ r1 = "exec" /\ r1' = "wait" /\ r3[1] \notin {"cd", "echo"}
      /\ UNCHANGED <<r2, r3, r4, r5, r6, r7, r8, r9, r12, r13, r14>>
  BY DEF PlainShell!ChildRuns, PlainShell!ShellInv, PlainShell!LinesRun
<1>2. /\ r10' \in [PlainShell!Names -> {PlainShell!Missing} \cup Seq({"prog"})]
      /\ r11' \in [code : 0..3, ran : BOOLEAN]
  <2>1. code \in 0..3 /\ 1 \in 0..3 /\ TRUE \in BOOLEAN /\ FALSE \in BOOLEAN
    OBVIOUS
  <2>2. r11' \in {[code |-> code, ran |-> TRUE], [code |-> 1, ran |-> FALSE]}
    BY DEF PlainShell!ChildRuns
  <2>3. r11' \in [code : 0..3, ran : BOOLEAN]
    <3>1. [code |-> code, ran |-> TRUE] \in [code : 0..3, ran : BOOLEAN]
      BY <2>1
    <3>2. [code |-> 1, ran |-> FALSE] \in [code : 0..3, ran : BOOLEAN]
      BY <2>1
    <3> QED BY <2>2, <3>1, <3>2, Zenon
  <2>4. CASE r3[1] \in {"prog"} /\ r4 \in {"out", "app"}
    <3>1. r5 \in PlainShell!Names /\ r10[r5] \in Seq({"prog"})
      BY <1>1, <2>4 DEF PlainShell!ShellInv, PlainShell!LineTypes
    <3>2. Append(r10[r5], r3[1]) \in Seq({"prog"})
      BY <2>4, <3>1
    <3>3. r10' = [r10 EXCEPT ![r5] = Append(r10[r5], r3[1])]
      BY <2>4 DEF PlainShell!ChildRuns
    <3> QED BY <2>3, <3>1, <3>2, <3>3, PlainFiles
  <2>5. CASE ~ (r3[1] \in {"prog"} /\ r4 \in {"out", "app"})
    <3>1. r10' = r10
      BY <2>5 DEF PlainShell!ChildRuns
    <3> QED BY <2>3, <3>1, PlainFiles
  <2> QED BY <2>4, <2>5
<1>3. PlainShell!TypeOK'
  BY <1>1, <1>2 DEF PlainShell!ShellInv, PlainShell!TypeOK
<1>4. PlainShell!LineTypes'
  BY <1>1, <1>2 DEF PlainShell!ShellInv, PlainShell!LineTypes
<1>5. PlainShell!LinesRun' /\ PlainShell!KnownEnds'
  BY <1>1 DEF PlainShell!ShellInv, PlainShell!LinesRun, PlainShell!KnownEnds
<1>6. r12.proper => PlainShell!OrderTyped'
  BY <1>1 DEF PlainShell!ShellInv, PlainShell!OrderTyped
<1>7. r12.proper => PlainShell!OrderParsed'
  BY <1>1 DEF PlainShell!ShellInv, PlainShell!OrderParsed
<1>8. r12.proper => PlainShell!OrderRun'
  <2> SUFFICES ASSUME r12.proper
               PROVE  PlainShell!OrderRun'
    OBVIOUS
  <2>1. PlainShell!Opened
    BY <1>1, Zenon DEF PlainShell!ShellInv, PlainShell!OrderRun
  <2>2. r4 = r12.mode /\ (r4 # "none" => r5 = r12.file)
    BY <1>1 DEF PlainShell!ShellInv, PlainShell!OrderParsed
  <2>3. CASE r3[1] \in {"prog"}
    <3>1. /\ r4 \in {"out", "app"} => r10' = [r10 EXCEPT ![r5] = Append(r10[r5], r3[1])]
          /\ r4 \notin {"out", "app"} => r10' = r10
          /\ r11'.ran = TRUE
      BY <2>3 DEF PlainShell!ChildRuns
    <3>2. r11'.ran
      BY <3>1, Zenon
    <3>3. CASE r4 = "out"
      <4>1. r10 = [r12.before EXCEPT ![r12.file] = <<>>]
        BY <2>1, <2>2, <3>3 DEF PlainShell!Opened
      <4>2. r10' = [r12.before EXCEPT ![r12.file] = <<r3[1]>>]
        BY <2>2, <3>1, <3>3, <4>1, PlainOrderFile
      <4> QED BY <1>1, <2>2, <3>2, <3>3, <4>2 DEF PlainShell!Obeyed, PlainShell!OrderRun
    <3>4. CASE r4 = "app"
      <4>1. r10 = [r12.before EXCEPT ![r12.file] = PlainShell!Content(r12.file)]
        BY <2>1, <2>2, <3>4 DEF PlainShell!Opened
      <4>2. r10' = [r12.before EXCEPT ![r12.file] = Append(PlainShell!Content(r12.file), r3[1])]
        BY <2>2, <3>1, <3>4, <4>1, PlainOrderFile
      <4>3. PlainShell!Content(r12.file)' = PlainShell!Content(r12.file)
        BY <1>1 DEF PlainShell!Content
      <4>4. PlainShell!Obeyed'
        BY <1>1, <2>2, <3>2, <3>4, <4>2, <4>3 DEF PlainShell!Obeyed
      <4> QED BY <1>1, <4>4, Zenon DEF PlainShell!OrderRun
    <3>5. CASE r4 \in {"none", "in"}
      <4>1. r10 = r12.before
        BY <2>1, <2>2, <3>5 DEF PlainShell!Opened
      <4>2. PlainShell!Obeyed'
        <5>1. r10' = r12'.before /\ r12'.mode \in {"none", "in"}
          BY <1>1, <2>2, <3>1, <3>5, <4>1
        <5>2. r12'.mode # "out" /\ r12'.mode # "app"
          BY <5>1
        <5>3. r12'.mode = "in" => r12'.before[r12'.file] # PlainShell!Missing
          BY <1>1, <2>1 DEF PlainShell!Opened
        <5> QED BY <5>1, <5>2, <5>3 DEF PlainShell!Obeyed, PlainShell!Missing
      <4> QED BY <1>1, <4>2, Zenon DEF PlainShell!OrderRun
    <3> QED BY <3>3, <3>4, <3>5, PlainTypes
  <2>4. CASE r3[1] \notin {"prog"}
    <3>1. r10' = r10 /\ r11'.ran = FALSE
      BY <2>4 DEF PlainShell!ChildRuns
    <3>2. ~ (r11'.ran)
      BY <3>1, Zenon
    <3>3. PlainShell!Obeyed'
      BY <1>1, <2>1, <3>1, <3>2, PlainOpened, PlainOrderFile
    <3> QED BY <1>1, <3>3, Zenon DEF PlainShell!OrderRun
  <2> QED BY <2>3, <2>4
<1> QED BY <1>1, <1>3, <1>4, <1>5, <1>6, <1>7, <1>8 DEF PlainShell!ShellInv

LEMMA PlainKilledKeeps ==
  ASSUME PlainShell!ShellInv, PlainShell!ChildKilled
  PROVE  PlainShell!ShellInv'
<1>1. /\ r1 \in {"open", "exec"} /\ r1' = "wait" /\ r11' = [code |-> 0, ran |-> FALSE]
      /\ UNCHANGED <<r2, r3, r4, r5, r6, r7, r8, r9, r10, r12, r13, r14>>
      /\ r3[1] \notin {"cd", "echo"}
  BY DEF PlainShell!ChildKilled, PlainShell!NoStatus, PlainShell!ShellInv, PlainShell!LinesRun
<1>2. r11' \in [code : 0..3, ran : BOOLEAN]
  BY <1>1
<1>3. PlainShell!TypeOK'
  BY <1>1 DEF PlainShell!ShellInv, PlainShell!TypeOK
<1>4. PlainShell!LineTypes'
  BY <1>1, <1>2 DEF PlainShell!ShellInv, PlainShell!LineTypes
<1>5. PlainShell!LinesRun' /\ PlainShell!KnownEnds'
  BY <1>1 DEF PlainShell!ShellInv, PlainShell!LinesRun, PlainShell!KnownEnds
<1>6. r12.proper => PlainShell!OrderTyped'
  BY <1>1 DEF PlainShell!ShellInv, PlainShell!OrderTyped
<1>7. r12.proper => PlainShell!OrderParsed'
  BY <1>1 DEF PlainShell!ShellInv, PlainShell!OrderParsed
<1>8. r12.proper => PlainShell!OrderRun'
  <2> SUFFICES ASSUME r12.proper
               PROVE  PlainShell!OrderRun'
    OBVIOUS
  <2>1. r11'.ran = FALSE
    BY <1>1
  <2>2. ~ (r11'.ran)
    BY <2>1, Zenon
  <2>3. PlainShell!Obeyed'
    <3>1. CASE r1 = "open"
      <4>1. r10 = r12.before
        BY <3>1, Zenon DEF PlainShell!ShellInv, PlainShell!OrderRun
      <4> QED BY <1>1, <2>2, <4>1 DEF PlainShell!Obeyed
    <3>2. CASE r1 = "exec"
      <4>1. PlainShell!Opened
        BY <3>2, Zenon DEF PlainShell!ShellInv, PlainShell!OrderRun
      <4> QED BY <1>1, <2>2, <4>1, PlainOpened, PlainOrderFile
    <3> QED BY <1>1, <3>1, <3>2
  <2> QED BY <1>1, <2>3, Zenon DEF PlainShell!OrderRun
<1> QED BY <1>1, <1>3, <1>4, <1>5, <1>6, <1>7, <1>8 DEF PlainShell!ShellInv

LEMMA PlainWaitKeeps ==
  ASSUME PlainShell!ShellInv, PlainShell!Wait
  PROVE  PlainShell!ShellInv'
<1>1. /\ r1 = "wait" /\ r1' = "prompt" /\ r6' = r11.code
      /\ UNCHANGED <<r2, r3, r4, r5, r7, r8, r9, r10, r11, r12, r13, r14>>
  BY DEF PlainShell!Wait
<1>2. r6' \in 0..3
  BY <1>1, PlainTypes
<1>3. PlainShell!TypeOK'
  BY <1>1, <1>2 DEF PlainShell!ShellInv, PlainShell!TypeOK
<1>4. PlainShell!LineTypes'
  BY <1>1 DEF PlainShell!ShellInv, PlainShell!LineTypes
<1>5. PlainShell!LinesRun' /\ PlainShell!KnownEnds'
  BY <1>1 DEF PlainShell!ShellInv, PlainShell!LinesRun, PlainShell!KnownEnds
<1>6. r12.proper => PlainShell!OrderTyped'
  BY <1>1 DEF PlainShell!ShellInv, PlainShell!OrderTyped
<1>7. r12.proper => PlainShell!OrderParsed'
  BY <1>1 DEF PlainShell!ShellInv, PlainShell!OrderParsed
<1>8. r12.proper => PlainShell!OrderRun'
  <2>1. PlainShell!Obeyed => PlainShell!Obeyed'
    BY <1>1 DEF PlainShell!Obeyed, PlainShell!Content
  <2>2. r12.proper => PlainShell!Obeyed
    BY <1>1, Zenon DEF PlainShell!ShellInv, PlainShell!OrderRun
  <2> QED BY <1>1, <2>1, <2>2, Zenon DEF PlainShell!OrderRun
<1> QED BY <1>1, <1>3, <1>4, <1>5, <1>6, <1>7, <1>8 DEF PlainShell!ShellInv

LEMMA PlainDirKeeps ==
  ASSUME PlainShell!ShellInv, PlainShell!RemoveDir
  PROVE  PlainShell!ShellInv'
<1>1. /\ r8' = r8 \ {r7}
      /\ UNCHANGED <<r1, r2, r3, r4, r5, r6, r7, r9, r10, r11, r12, r13, r14>>
  BY DEF PlainShell!RemoveDir
<1>2. PlainShell!TypeOK'
  BY <1>1 DEF PlainShell!ShellInv, PlainShell!TypeOK
<1>3. PlainShell!LineTypes'
  BY <1>1 DEF PlainShell!ShellInv, PlainShell!LineTypes
<1>4. PlainShell!LinesRun' /\ PlainShell!KnownEnds'
  BY <1>1 DEF PlainShell!ShellInv, PlainShell!LinesRun, PlainShell!KnownEnds
<1>5. r12.proper => PlainShell!OrderTyped'
  BY <1>1 DEF PlainShell!ShellInv, PlainShell!OrderTyped
<1>6. r12.proper => PlainShell!OrderParsed'
  BY <1>1 DEF PlainShell!ShellInv, PlainShell!OrderParsed
<1>7. r12.proper => PlainShell!OrderRun'
  <2>1. PlainShell!OrderRun => PlainShell!OrderRun'
    BY <1>1 DEF PlainShell!OrderRun, PlainShell!Obeyed, PlainShell!Opened, PlainShell!Content
  <2> QED BY <2>1, Zenon DEF PlainShell!ShellInv
<1> QED BY <1>1, <1>2, <1>3, <1>4, <1>5, <1>6, <1>7 DEF PlainShell!ShellInv

LEMMA PlainStep ==
  ASSUME PlainShell!ShellInv, PlainShell!Next
  PROVE  PlainShell!ShellInv'
BY PlainPromptKeeps, PlainEndKeeps, PlainGetKeeps, PlainRedirKeeps, PlainParseKeeps,
   PlainCdKeeps, PlainEchoKeeps, PlainBuiltinKeeps, PlainForkKeeps, PlainOpenKeeps,
   PlainRunsKeeps, PlainKilledKeeps, PlainWaitKeeps, PlainDirKeeps, Zenon DEF PlainShell!Next

LEMMA PlainSays ==
  ASSUME PlainShell!ShellInv
  PROVE  PlainShell!TypeOK /\ PlainShell!OrdersObeyed /\ PlainShell!KnownEnds
BY Zenon DEF PlainShell!ShellInv, PlainShell!OrdersObeyed, PlainShell!OrderParsed, PlainShell!OrderRun

(* A step that changes nothing keeps it.                                       *)
LEMMA PlainStays ==
  ASSUME PlainShell!ShellInv, UNCHANGED <<r1, r2, r3, r4, r5, r6, r7, r8, r9, r10, r11, r12, r13, r14, r15,
                     r16, r17>>
  PROVE  PlainShell!ShellInv'
<1>1. PlainShell!TypeOK' <=> PlainShell!TypeOK
  BY DEF PlainShell!TypeOK
<1>2. PlainShell!LineTypes' <=> PlainShell!LineTypes
  BY DEF PlainShell!LineTypes, PlainShell!Text, PlainShell!OrderWords
<1>3. PlainShell!LinesRun' <=> PlainShell!LinesRun
  BY DEF PlainShell!LinesRun, PlainShell!NoOrder
<1>4. PlainShell!KnownEnds' <=> PlainShell!KnownEnds
  BY DEF PlainShell!KnownEnds, PlainShell!NoOrder
<1>5. PlainShell!OrderTyped' <=> PlainShell!OrderTyped
  BY DEF PlainShell!OrderTyped, PlainShell!OrderWords
<1>6. PlainShell!OrderParsed' <=> PlainShell!OrderParsed
  BY DEF PlainShell!OrderParsed
<1>7. PlainShell!OrderRun' <=> PlainShell!OrderRun
  BY DEF PlainShell!OrderRun, PlainShell!Opened, PlainShell!Content,
         PlainShell!Obeyed
<1> QED BY <1>1, <1>2, <1>3, <1>4, <1>5, <1>6, <1>7 DEF PlainShell!ShellInv

-----------------------------------------------------------------------------
(* The static pages: r1 files, r2 req, r3 hpc, r4 target, r5 size, r6 resp,     *)
(* r7 changes.                                                                 *)

(* The answer's fields, and those of one that says nothing yet.                 *)
LEMMA NoAnswerIs ==
  /\ Page!NoAnswer.code = 0 /\ Page!NoAnswer.text = 0 /\ Page!NoAnswer.read = 0
  /\ Page!NoAnswer \in Page!Answers
BY HttpAssumption DEF Page!NoAnswer, Page!Answers, Page!NoHeader

(* TypeOK says of the answer's fields what Answers says of the record.          *)
LEMMA AnswersTyped ==
  ASSUME r6 \in Page!Answers
  PROVE  /\ r6.code \in {0, 200, 302, 404}
         /\ r6.text \in 0..Largest /\ r6.read \in 0..Largest
         /\ r6.length \in {Page!NoHeader, Page!Missing} \cup 0..Largest
BY DEF Page!Answers

LEMMA PageInit ==
  ASSUME Page!Init
  PROVE  Page!PageInv
<1>1. /\ r3 = "recv" /\ r6 = Page!NoAnswer /\ r4 = Page!Directory /\ r5 = 0 /\ r7 = 0
      /\ r1 \in [Page!Files -> {Page!Missing} \cup 0..Largest] /\ r2 \in Page!Requests
  BY DEF Page!Init
<1>2. r6 \in Page!Answers /\ r6.code = 0
  BY <1>1, NoAnswerIs
<1>3. Page!TypeOK
  BY <1>1, <1>2, AnswersTyped, HttpAssumption DEF Page!TypeOK
<1>4. Page!PageSought /\ Page!SizesKept /\ Page!AnswerMade /\ Page!RequestKnown
  BY <1>1, <1>2 DEF Page!PageSought, Page!SizesKept, Page!AnswerMade, Page!RequestKnown
<1> QED BY <1>1, <1>2, <1>3, <1>4 DEF Page!PageInv

(* What the request is about is settled by the request.                        *)
LEMMA TargetStays ==
  ASSUME r2' = r2
  PROVE  Page!Target' = Page!Target /\ Page!isInteract' = Page!isInteract
BY DEF Page!Target, Page!isInteract

LEMMA TargetTyped ==
  ASSUME Page!TypeOK
  PROVE  /\ Page!Target \in Page!Files \cup Page!Uris \cup {Page!Directory}
         /\ Page404 \in Page!Files
BY DEF Page!TypeOK, Page!Target, Page!Files, Page!Requests

LEMMA SizesTyped ==
  ASSUME Page!TypeOK
  PROVE  /\ \A f : Page!SizeOf(f) \in {-1} \cup 0..Largest
         /\ \A f : Page!SizeOf(f) > 0 => Page!SizeOf(f) = r1[f]
         /\ Page!SizeOf(Page404) = r1[Page404]
BY HttpAssumption DEF Page!TypeOK, Page!SizeOf, Page!Missing, Page!Files

LEMMA SizesStay ==
  ASSUME r1' = r1
  PROVE  \A f : Page!SizeOf(f)' = Page!SizeOf(f)
BY DEF Page!SizeOf

LEMMA SuffixTyped ==
  \A f : Page!Uri2Suffix(f) \in {"text/html", "image/jpeg", "image/png", ""}
BY DEF Page!Uri2Suffix

(* The steps that leave the request alone keep the types.                      *)
LEMMA PageTypes ==
  ASSUME Page!TypeOK, r1' = r1, r2' = r2, r6' \in Page!Answers,
         r4' \in {r4, Page404, Page!Target}, r5' \in {r5, Page!SizeOf(r4)}
  PROVE  Page!TypeOK'
<1>1. /\ r6'.code \in {0, 200, 302, 404}
      /\ r6'.text \in 0..Largest /\ r6'.read \in 0..Largest
      /\ r6'.length \in {Page!NoHeader, Page!Missing} \cup 0..Largest
  BY DEF Page!Answers
<1>2. r4' \in Page!Files \cup Page!Uris \cup {Page!Directory}
  BY TargetTyped DEF Page!TypeOK
<1>3. r5' \in {Page!Missing} \cup 0..Largest
  BY SizesTyped DEF Page!TypeOK, Page!Missing
<1> QED BY <1>1, <1>2, <1>3 DEF Page!TypeOK

LEMMA RequestKeeps ==
  ASSUME Page!PageInv, Page!HandlerHttpRequest
  PROVE  Page!PageInv'
<1>1. /\ r3 = "recv" /\ r4' = Page!Target
      /\ r3' = IF Page!isInteract THEN (IF Page!Target \in Routes THEN "service" ELSE "end")
               ELSE Page!MakeResponse
      /\ r1' = r1 /\ r2' = r2 /\ r5' = r5 /\ r6' = r6 /\ r7' = r7
  BY DEF Page!HandlerHttpRequest
<1>2. Page!Target' = Page!Target /\ Page!isInteract' = Page!isInteract
  BY <1>1, TargetStays
<1>3. r6 = Page!NoAnswer /\ r6 \in Page!Answers /\ r6.code = 0 /\ r6.text = 0 /\ r6.read = 0
  BY <1>1, NoAnswerIs DEF Page!PageInv, Page!RequestKnown
<1>4. Page!TypeOK'
  BY <1>1, <1>3, PageTypes DEF Page!PageInv
<1>5. /\ r3' = "end" => Page!Target = Page!Favicon \/ (Page!isInteract /\ Page!Target \notin Routes)
      /\ r3' = "service" => Page!isInteract
      /\ r3' = "redirect" => Page!Target = Page!Redirect
      /\ r3' \in {"end", "service", "redirect", "size"}
      /\ r3' = "size" => ~Page!isInteract /\ Page!Target # Page!Favicon
  BY <1>1 DEF Page!MakeResponse
<1>6. Page!RequestKnown'
  BY <1>1, <1>2, <1>3, <1>5 DEF Page!RequestKnown, Page!NoAnswer
<1>7. Page!PageSought'
  BY <1>1, <1>2, <1>3, <1>5 DEF Page!PageSought
<1>8. Page!SizesKept' /\ Page!AnswerMade'
  BY <1>1, <1>3, <1>5 DEF Page!SizesKept, Page!AnswerMade
<1> QED BY <1>1, <1>3, <1>4, <1>6, <1>7, <1>8 DEF Page!PageInv

LEMMA NoPageKeeps ==
  ASSUME Page!PageInv, Page!Login \/ Page!SetRedirect \/ Page!Send
  PROVE  Page!PageInv'
<1>1. /\ r3' \in {"send", "sent"}
      /\ r1' = r1 /\ r2' = r2 /\ r4' = r4 /\ r5' = r5 /\ r7' = r7
  BY DEF Page!Login, Page!SetRedirect, Page!Send
<1>2. Page!Target' = Page!Target /\ Page!isInteract' = Page!isInteract
  BY <1>1, TargetStays
<1>3. \A f : Page!SizeOf(f)' = Page!SizeOf(f)
  BY <1>1, SizesStay
<1>4. \A f : Page!Uri2Suffix(f)' = Page!Uri2Suffix(f)
  BY DEF Page!Uri2Suffix
<1>5. Page!RequestKnown' /\ Page!PageSought'
  BY <1>1 DEF Page!RequestKnown, Page!PageSought
<1>6. CASE Page!Login
  <2>1. /\ r3 = "service"
        /\ r6' = [code |-> 200, length |-> 1, type |-> "text/plain", text |-> 1, read |-> 1]
    BY <1>6 DEF Page!Login, Page!NoAnswer
  <2>2. Page!isInteract
    BY <2>1 DEF Page!PageInv, Page!RequestKnown
  <2>3. r6' \in Page!Answers
    BY <2>1, HttpAssumption DEF Page!Answers
  <2>4. Page!AnswerMade' /\ Page!SizesKept'
    BY <1>1, <1>2, <2>1, <2>2 DEF Page!AnswerMade, Page!SizesKept
  <2>5. Page!TypeOK'
    BY <1>1, <2>3, PageTypes DEF Page!PageInv
  <2> QED BY <1>1, <1>5, <2>3, <2>4, <2>5 DEF Page!PageInv
<1>7. CASE Page!SetRedirect
  <2>1. /\ r3 = "redirect"
        /\ r6' = [code |-> 302, length |-> Page!NoHeader, type |-> "none", text |-> 0, read |-> 0]
    BY <1>7 DEF Page!SetRedirect, Page!NoAnswer
  <2>2. Page!Target # Page!Favicon
    BY <2>1 DEF Page!PageInv, Page!RequestKnown, Page!Redirect, Page!Favicon
  <2>3. r6' \in Page!Answers
    BY <2>1, HttpAssumption DEF Page!Answers
  <2>4. Page!AnswerMade' /\ Page!SizesKept'
    BY <1>1, <1>2, <2>1, <2>2 DEF Page!AnswerMade, Page!SizesKept
  <2>5. Page!TypeOK'
    BY <1>1, <2>3, PageTypes DEF Page!PageInv
  <2> QED BY <1>1, <1>5, <2>3, <2>4, <2>5 DEF Page!PageInv
<1>8. CASE Page!Send
  <2>1. r3 = "send" /\ r3' = "sent" /\ r6' = r6
    BY <1>8 DEF Page!Send
  <2>2. Page!AnswerMade'
    BY <1>1, <1>2, <1>3, <1>4, <2>1 DEF Page!PageInv, Page!AnswerMade
  <2>3. Page!SizesKept'
    BY <1>1, <1>2, <1>3, <2>1 DEF Page!PageInv, Page!SizesKept
  <2>4. r6' \in Page!Answers /\ Page!TypeOK'
    BY <1>1, <2>1, PageTypes DEF Page!PageInv
  <2> QED BY <1>1, <1>5, <2>2, <2>3, <2>4 DEF Page!PageInv
<1> QED BY <1>6, <1>7, <1>8

LEMMA FileSizeKeeps ==
  ASSUME Page!PageInv, Page!FileSize
  PROVE  Page!PageInv'
<1>1. /\ r3 = "size" /\ r5' = Page!SizeOf(r4)
      /\ r3' = IF Page!SizeOf(r4) > 0 THEN "read" ELSE IF r6.code = 404 THEN "send" ELSE "404"
      /\ r1' = r1 /\ r2' = r2 /\ r4' = r4 /\ r6' = r6 /\ r7' = r7
  BY DEF Page!FileSize
<1>2. Page!Target' = Page!Target /\ Page!isInteract' = Page!isInteract
  BY <1>1, TargetStays
<1>3. \A f : Page!SizeOf(f)' = Page!SizeOf(f)
  BY <1>1, SizesStay
<1>4. r6' \in Page!Answers /\ Page!TypeOK'
  BY <1>1, PageTypes DEF Page!PageInv
<1>5. /\ ~Page!isInteract /\ Page!Target # Page!Favicon /\ r6.text = 0 /\ r6.read = 0
      /\ \/ r6.code = 0 /\ r4 = Page!Target
         \/ r6.code = 404 /\ r4 = Page404
  BY <1>1 DEF Page!PageInv, Page!PageSought
<1>6. /\ r7 = 0 /\ r6.code = 404 => r6.length = Page!SizeOf(Page404)
      /\ r7 = 0 /\ r6.code = 404 => Page!SizeOf(Page!Target) <= 0
  BY <1>1 DEF Page!PageInv, Page!SizesKept
<1>7. \A f : Page!SizeOf(f) \in {-1} \cup Nat
  BY SizesTyped DEF Page!PageInv
<1>8. Page!PageSought'
  BY <1>1, <1>2, <1>5 DEF Page!PageSought
<1>9. Page!SizesKept'
  BY <1>1, <1>2, <1>3, <1>5, <1>6, <1>7 DEF Page!SizesKept
<1>10. Page!AnswerMade'
  BY <1>1, <1>2, <1>3, <1>5, <1>6, <1>7 DEF Page!AnswerMade
<1>11. Page!RequestKnown'
  BY <1>1 DEF Page!RequestKnown
<1> QED BY <1>1, <1>4, <1>8, <1>9, <1>10, <1>11 DEF Page!PageInv

LEMMA ReadFileKeeps ==
  ASSUME Page!PageInv, Page!ReadFileContent
  PROVE  Page!PageInv'
<1> DEFINE n == Page!SizeOf(r4)
<1>1. /\ r3 = "read"
      /\ r1' = r1 /\ r2' = r2 /\ r4' = r4 /\ r5' = r5 /\ r7' = r7
  BY DEF Page!ReadFileContent
<1>2. Page!Target' = Page!Target /\ Page!isInteract' = Page!isInteract
  BY <1>1, TargetStays
<1>3. \A f : Page!SizeOf(f)' = Page!SizeOf(f)
  BY <1>1, SizesStay
<1>4. /\ ~Page!isInteract /\ Page!Target # Page!Favicon /\ r6.text = 0 /\ r6.read = 0
      /\ \/ r6.code = 0 /\ r4 = Page!Target
         \/ r6.code = 404 /\ r4 = Page404
      /\ r5 > 0
  BY <1>1 DEF Page!PageInv, Page!PageSought
<1>5. /\ r7 = 0 /\ r6.code = 404 => r6.length = Page!SizeOf(Page404)
      /\ r7 = 0 /\ r6.code = 404 => Page!SizeOf(Page!Target) <= 0
      /\ r7 = 0 => r5 = n
  BY <1>1 DEF Page!PageInv, Page!SizesKept
<1>6. /\ n \in {-1} \cup 0..Largest
      /\ Page!Missing = -1 /\ r5 \in {-1} \cup 0..Largest
  BY SizesTyped DEF Page!PageInv, Page!TypeOK, Page!Missing
<1>7. \A f : Page!SizeOf(f) \in {-1} \cup Nat
  BY SizesTyped DEF Page!PageInv
<1>8. CASE n = Page!Missing
  <2>1. r6' = r6 /\ r3' = IF r6.code = 404 THEN "send" ELSE "404"
    BY <1>8 DEF Page!ReadFileContent
  <2>2. r7 # 0
    BY <1>4, <1>5, <1>6, <1>8
  <2>3. Page!PageSought'
    BY <1>1, <1>2, <1>4, <2>1 DEF Page!PageSought
  <2>4. Page!SizesKept' /\ Page!AnswerMade' /\ Page!RequestKnown'
    BY <1>1, <1>2, <1>4, <2>1, <2>2 DEF Page!SizesKept, Page!AnswerMade, Page!RequestKnown
  <2>5. r6' \in Page!Answers /\ Page!TypeOK'
    BY <1>1, <2>1, PageTypes DEF Page!PageInv
  <2> QED BY <1>1, <2>3, <2>4, <2>5 DEF Page!PageInv
<1>9. CASE n # Page!Missing
  <2> DEFINE got == IF n < r5 THEN n ELSE r5
  <2>1. /\ r6' = [r6 EXCEPT !.text = r5, !.read = got]
        /\ r3' = IF r6.code = 404 THEN "send" ELSE "length"
    BY <1>9 DEF Page!ReadFileContent
  <2>2. got \in 0..Largest /\ (r7 = 0 => got = r5) /\ r5 \in 0..Largest
    BY <1>4, <1>5, <1>6, <1>9, HttpAssumption
  <2> HIDE DEF got
  <2>3. /\ r6'.text = r5 /\ r6'.read = got /\ r6'.code = r6.code /\ r6'.length = r6.length
        /\ r6' \in Page!Answers
    BY <2>1, <2>2, ZenonT(40) DEF Page!PageInv, Page!Answers
  <2>4. Page!PageSought'
    BY <1>1, <1>2, <1>4, <2>1, <2>3 DEF Page!PageSought
  <2>5. Page!SizesKept'
    BY <1>1, <1>2, <1>3, <1>4, <1>5, <2>1, <2>2, <2>3 DEF Page!SizesKept
  <2>6. Page!AnswerMade'
    BY <1>1, <1>2, <1>3, <1>4, <1>5, <1>7, <2>1, <2>2, <2>3 DEF Page!AnswerMade
  <2>7. Page!TypeOK' /\ Page!RequestKnown'
    BY <1>1, <2>1, <2>3, PageTypes DEF Page!PageInv, Page!RequestKnown
  <2> QED BY <1>1, <2>3, <2>4, <2>5, <2>6, <2>7 DEF Page!PageInv
<1> QED BY <1>8, <1>9

LEMMA SetLengthKeeps ==
  ASSUME Page!PageInv, Page!SetLength
  PROVE  Page!PageInv'
<1>1. /\ r3 = "length" /\ r3' = "send"
      /\ r6' = [r6 EXCEPT !.code = 200, !.type = Page!Uri2Suffix(r4), !.length = Page!SizeOf(r4)]
      /\ r1' = r1 /\ r2' = r2 /\ r4' = r4 /\ r5' = r5 /\ r7' = r7
  BY DEF Page!SetLength
<1>2. Page!Target' = Page!Target /\ Page!isInteract' = Page!isInteract
  BY <1>1, TargetStays
<1>3. \A f : Page!SizeOf(f)' = Page!SizeOf(f)
  BY <1>1, SizesStay
<1>4. /\ ~Page!isInteract /\ Page!Target # Page!Favicon /\ r6.text > 0 /\ r4 = Page!Target
  BY <1>1 DEF Page!PageInv, Page!PageSought
<1>5. r7 = 0 => r6.text = Page!SizeOf(r4) /\ r6.read = r6.text
  BY <1>1 DEF Page!PageInv, Page!SizesKept
<1>6. /\ Page!SizeOf(r4) \in {Page!NoHeader, Page!Missing} \cup 0..Largest
      /\ Page!Uri2Suffix(r4) \in {"text/html", "image/jpeg", "image/png", ""}
  BY SizesTyped, SuffixTyped DEF Page!PageInv, Page!Missing
<1>7. /\ r6'.code = 200 /\ r6'.type = Page!Uri2Suffix(r4) /\ r6'.length = Page!SizeOf(r4)
      /\ r6'.text = r6.text /\ r6'.read = r6.read
      /\ r6' \in Page!Answers
  <2> DEFINE u == Page!Uri2Suffix(r4)
             n == Page!SizeOf(r4)
  <2>1. u \in {"text/html", "image/jpeg", "image/png", ""}
        /\ n \in {Page!NoHeader, Page!Missing} \cup 0..Largest
    BY <1>6
  <2>2. PICK c, k, y, t, m :
          /\ r6 = [code |-> c, length |-> k, type |-> y, text |-> t, read |-> m]
          /\ t \in 0..Largest /\ m \in 0..Largest
    <3>1. r6 \in Page!Answers
      BY DEF Page!PageInv
    <3>2. r6 = [code |-> r6.code, length |-> r6.length, type |-> r6.type, text |-> r6.text,
                read |-> r6.read]
      BY <3>1 DEF Page!Answers
    <3>3. r6.text \in 0..Largest /\ r6.read \in 0..Largest
      BY <3>1 DEF Page!Answers
    <3> QED BY <3>2, <3>3, Zenon
  <2>3. r6' = [r6 EXCEPT !.code = 200, !.type = u, !.length = n]
    BY <1>1
  <2> HIDE DEF u, n
  <2>4. r6' = [code |-> 200, length |-> n, type |-> u, text |-> t, read |-> m]
    BY <2>2, <2>3
  <2>5. r6' \in Page!Answers
    BY <2>1, <2>2, <2>4 DEF Page!Answers
  <2>6. /\ r6'.code = 200 /\ r6'.type = u /\ r6'.length = n
        /\ r6'.text = r6.text /\ r6'.read = r6.read
    BY <2>2, <2>4
  <2> QED BY <2>5, <2>6 DEF u, n
<1>8. \A f : Page!Uri2Suffix(f)' = Page!Uri2Suffix(f)
  BY DEF Page!Uri2Suffix
<1>9. Page!AnswerMade'
  BY <1>1, <1>2, <1>3, <1>4, <1>5, <1>7, <1>8 DEF Page!AnswerMade
<1>10. Page!PageSought' /\ Page!SizesKept' /\ Page!RequestKnown'
  BY <1>1, <1>7 DEF Page!PageSought, Page!SizesKept, Page!RequestKnown
<1>11. Page!TypeOK'
  BY <1>1, <1>7, PageTypes DEF Page!PageInv
<1> QED BY <1>1, <1>7, <1>9, <1>10, <1>11 DEF Page!PageInv

LEMMA NotFoundKeeps ==
  ASSUME Page!PageInv, Page!SetNotFound
  PROVE  Page!PageInv'
<1>1. /\ r3 = "404" /\ r3' = "size" /\ r4' = Page404
      /\ r6' = [code |-> 404, length |-> Page!SizeOf(Page404), type |-> Page!Uri2Suffix(Page404),
                text |-> 0, read |-> 0]
      /\ r1' = r1 /\ r2' = r2 /\ r5' = r5 /\ r7' = r7
  BY DEF Page!SetNotFound, Page!NoAnswer, Page!NotFoundLength
<1>2. Page!Target' = Page!Target /\ Page!isInteract' = Page!isInteract
  BY <1>1, TargetStays
<1>3. \A f : Page!SizeOf(f)' = Page!SizeOf(f)
  BY <1>1, SizesStay
<1>4. ~Page!isInteract /\ Page!Target # Page!Favicon
  BY <1>1 DEF Page!PageInv, Page!PageSought
<1>5. r7 = 0 => Page!SizeOf(Page!Target) <= 0
  BY <1>1 DEF Page!PageInv, Page!SizesKept
<1>6. /\ Page!SizeOf(Page404) \in {Page!NoHeader, Page!Missing} \cup 0..Largest
      /\ Page!Uri2Suffix(Page404) \in {"text/html", "image/jpeg", "image/png", ""}
  BY SizesTyped, SuffixTyped DEF Page!PageInv, Page!Missing
<1>7. r6' \in Page!Answers
  <2>1. 0 \in 0..Largest
    BY HttpAssumption
  <2> QED BY <1>1, <1>6, <2>1 DEF Page!Answers
<1>8. Page!PageSought' /\ Page!AnswerMade' /\ Page!RequestKnown'
  BY <1>1, <1>2, <1>4 DEF Page!PageSought, Page!AnswerMade, Page!RequestKnown
<1>9. Page!SizesKept'
  BY <1>1, <1>2, <1>3, <1>5 DEF Page!SizesKept
<1>10. Page!TypeOK'
  BY <1>1, <1>7, PageTypes DEF Page!PageInv
<1> QED BY <1>1, <1>7, <1>8, <1>9, <1>10 DEF Page!PageInv

LEMMA ReplaceKeeps ==
  ASSUME Page!PageInv, NEW f \in Page!Files, NEW n \in {Page!Missing} \cup 0..Largest,
         Page!Replace(f, n)
  PROVE  Page!PageInv'
<1>1. /\ r3 \notin {"end", "sent"} /\ r7' = r7 + 1
      /\ r1' = [r1 EXCEPT ![f] = n]
      /\ r2' = r2 /\ r3' = r3 /\ r4' = r4 /\ r5' = r5 /\ r6' = r6
  BY DEF Page!Replace
<1>2. Page!Target' = Page!Target /\ Page!isInteract' = Page!isInteract
  BY <1>1, TargetStays
<1>3. \A g : Page!Uri2Suffix(g)' = Page!Uri2Suffix(g)
  BY DEF Page!Uri2Suffix
<1>4. r7' \in Nat /\ r7' # 0
  BY <1>1 DEF Page!PageInv
<1>5. Page!TypeOK'
  BY <1>1 DEF Page!PageInv, Page!TypeOK
<1>6. Page!PageSought'
  BY <1>1, <1>2 DEF Page!PageInv, Page!PageSought
<1>7. Page!AnswerMade' /\ Page!SizesKept'
  BY <1>1, <1>2, <1>3, <1>4 DEF Page!PageInv, Page!AnswerMade, Page!SizesKept
<1>8. Page!RequestKnown'
  BY <1>1, <1>2 DEF Page!PageInv, Page!RequestKnown, Page!NoAnswer
<1> QED BY <1>1, <1>4, <1>5, <1>6, <1>7, <1>8 DEF Page!PageInv, Page!Answers

LEMMA PageStep ==
  ASSUME Page!PageInv, Page!Next
  PROVE  Page!PageInv'
BY RequestKeeps, NoPageKeeps, FileSizeKeeps, ReadFileKeeps, SetLengthKeeps, NotFoundKeeps,
   ReplaceKeeps DEF Page!Next

(* The answer as it was made is the answer as it is sent.                      *)
LEMMA PageSays == Page!PageInv => Page!TypeOK /\ Page!AnswersWhole
<1> SUFFICES ASSUME Page!PageInv PROVE Page!TypeOK /\ Page!AnswersWhole
  OBVIOUS
<1>1. Page!AnswerMade /\ Page!SizesKept /\ Page!RequestKnown /\ Page!TypeOK
  BY DEF Page!PageInv
<1>2. /\ \A f : Page!SizeOf(f) \in {-1} \cup 0..Largest
      /\ \A f : Page!SizeOf(f) > 0 => Page!SizeOf(f) = r1[f]
      /\ Page!SizeOf(Page404) = r1[Page404]
  BY <1>1, SizesTyped
<1>3. ASSUME r3 = "sent", r7 = 0
      PROVE  /\ r6.read = r6.text
             /\ r6.code \in {200, 404} =>
                   r6.length = r6.text \/ (r6.code = 404 /\ r1[Page404] = Page!Missing)
             /\ r6.code = 200 => Page!isInteract \/ r6.text = r1[Page!Target]
             /\ r6.code = 404 => Page!SizeOf(Page!Target) <= 0
  BY <1>1, <1>2, <1>3, HttpAssumption DEF Page!AnswerMade, Page!SizesKept, Page!Missing
<1> QED BY <1>1, <1>3 DEF Page!RequestKnown, Page!AnswerMade, Page!AnswersWhole

-----------------------------------------------------------------------------
(* The chat's server: r1 texts, r2 network, r3 tasks, r4 wpc, r5 task,         *)
(* r6 inside, r7 online, r8 crashed, r9 overlapped, r10 raced, r11 erased.      *)

LEMMA RouteFinite == \A S : Route!IsFiniteSet(S) <=> IsFiniteSet(S)
BY DEF Route!IsFiniteSet, IsFiniteSet

LEMMA NothingSaid == Nothing \notin Route!Message
BY ChatAssumption DEF Route!Message

LEMMA RouteInit ==
  ASSUME Route!Init
  PROVE  Route!RouteInv
<1>1. /\ r1 = [p \in ChatPeers |-> 0 + 2] /\ r2 = {} /\ r3 = <<>>
      /\ r4 = [w \in ChatWorkers |-> "idle"] /\ r5 = [w \in ChatWorkers |-> Nothing]
      /\ r6 = {} /\ r7 = <<>> /\ r8 = FALSE
  BY DEF Route!Init
<1>2. Route!TypeOK
  <2>1. Route!IsFiniteSet(r2)
    BY <1>1, RouteFinite, FS_EmptySet
  <2>2. r1 \in [ChatPeers -> 0..(0 + 2)] /\ r3 \in Seq(Route!Message) /\ r7 \in Seq(ChatPeers)
    BY <1>1
  <2>3. r8 \in BOOLEAN
    BY <1>1, Zenon
  <2> QED BY <1>1, <2>1, <2>2, <2>3 DEF Route!TypeOK
<1>3. /\ \A w \in ChatWorkers : r4[w] = "idle" /\ r5[w] = Nothing
      /\ DOMAIN r7 = {} /\ r6 = {}
  BY <1>1
<1> QED BY <1>2, <1>3
        DEF Route!RouteInv, Route!Employed, Route!OwnMessages, Route!ChangesAlone, Route!ListRight

(* The workers are not concerned by what happens outside.                      *)
LEMMA WorkersStay ==
  ASSUME Route!RouteInv, UNCHANGED <<r4, r5, r6, r7, r9, r10, r11>>
  PROVE  Route!Employed' /\ Route!OwnMessages' /\ Route!ChangesAlone' /\ Route!ListRight'
BY DEF Route!RouteInv, Route!Employed, Route!OwnMessages, Route!ChangesAlone, Route!ListRight,
       Route!Peer, Route!Users, Route!Changes

(* Datagrams come and go.                                                      *)
LEMMA NetworkKeeps ==
  ASSUME Route!RouteInv,
         \/ \E p \in ChatPeers : Route!Send(p)
         \/ \E d \in r2 : Route!Lose(d) \/ Route!Receive(d)
  PROVE  Route!RouteInv'
<1>1. UNCHANGED <<r4, r5, r6, r7, r8, r9, r10, r11>>
  BY DEF Route!Send, Route!Lose, Route!Receive, Route!history, Route!pool
<1>2. /\ r1 \in [ChatPeers -> 0..(0 + 2)] /\ IsFiniteSet(r2)
      /\ r2 \subseteq Route!Message \X (0..(0 + 2)) /\ r3 \in Seq(Route!Message)
  BY RouteFinite DEF Route!RouteInv, Route!TypeOK
<1>3. /\ r1' \in [ChatPeers -> 0..(0 + 2)] /\ IsFiniteSet(r2')
      /\ r2' \subseteq Route!Message \X (0..(0 + 2)) /\ r3' \in Seq(Route!Message)
  <2>1. ASSUME NEW p \in ChatPeers, Route!Send(p)
        PROVE  /\ r1' \in [ChatPeers -> 0..(0 + 2)] /\ IsFiniteSet(r2')
               /\ r2' \subseteq Route!Message \X (0..(0 + 2)) /\ r3' \in Seq(Route!Message)
    <3> DEFINE d == <<[peer |-> p, text |-> Route!Text(r1[p])], r1[p]>>
    <3>1. /\ r1[p] > 0 /\ r2' = r2 \cup {d} /\ r1' = [r1 EXCEPT ![p] = @ - 1] /\ r3' = r3
      BY <2>1 DEF Route!Send, Route!pool
    <3>2. r1[p] \in 0..2 /\ Route!Text(r1[p]) \in {"inline", "text", "QUIT"}
      BY <1>2 DEF Route!Text
    <3>3. d \in Route!Message \X (0..(0 + 2))
      BY <3>2 DEF Route!Message
    <3> HIDE DEF d
    <3>4. IsFiniteSet(r2')
      BY <1>2, <3>1, FS_AddElement
    <3>5. r1' \in [ChatPeers -> 0..(0 + 2)]
      BY <1>2, <3>1, <3>2
    <3> QED BY <1>2, <3>1, <3>3, <3>4, <3>5
  <2>2. ASSUME NEW d \in r2, Route!Lose(d) \/ Route!Receive(d)
        PROVE  /\ r1' \in [ChatPeers -> 0..(0 + 2)] /\ IsFiniteSet(r2')
               /\ r2' \subseteq Route!Message \X (0..(0 + 2)) /\ r3' \in Seq(Route!Message)
    <3>1. r2' = r2 \ {d} /\ r1' = r1 /\ (r3' = r3 \/ r3' = Append(r3, d[1]))
      BY <2>2 DEF Route!Lose, Route!Receive, Route!pool
    <3>2. d[1] \in Route!Message
      BY <1>2
    <3>3. IsFiniteSet(r2')
      BY <1>2, <3>1, FS_RemoveElement
    <3> QED BY <1>2, <3>1, <3>2, <3>3
  <2> QED BY <2>1, <2>2
<1>4. Route!TypeOK'
  BY <1>1, <1>3, RouteFinite DEF Route!RouteInv, Route!TypeOK
<1> QED BY <1>1, <1>4, WorkersStay DEF Route!RouteInv

(* A worker with a message is seen by whoever takes another of the same peer.  *)
LEMMA TakeKeeps ==
  ASSUME Route!RouteInv, NEW w \in ChatWorkers, Route!TakeTask(w)
  PROVE  Route!RouteInv'
<1> DEFINE m == Head(r3)
<1>1. /\ r4[w] = "idle" /\ r3 # <<>>
      /\ r5' = [r5 EXCEPT ![w] = m] /\ r3' = Tail(r3)
      /\ r4' = [r4 EXCEPT ![w] = "exist"]
      /\ r9' = (r9 \/ Route!Routed(m.peer))
      /\ UNCHANGED <<r1, r2, r6, r7, r8, r10, r11>>
  BY DEF Route!TakeTask, Route!clients
<1>2. m \in Route!Message /\ m # Nothing /\ Tail(r3) \in Seq(Route!Message)
  <2>1. r3 \in Seq(Route!Message)
    BY DEF Route!RouteInv, Route!TypeOK
  <2> QED BY <1>1, <2>1, NothingSaid, HeadTailProperties
<1> HIDE DEF m
<1>3. /\ r4 \in [ChatWorkers -> {"idle", "exist", "add", "send", "quit"}]
      /\ r5 \in [ChatWorkers -> Route!Message \cup {Nothing}] /\ r6 \subseteq ChatWorkers
  BY DEF Route!RouteInv, Route!TypeOK
<1>4. /\ r4'[w] = "exist" /\ r5'[w] = m
      /\ \A v \in ChatWorkers : v # w => r4'[v] = r4[v] /\ r5'[v] = r5[v]
  BY <1>1, <1>3
<1>5. Route!TypeOK'
  <2>1. r4' \in [ChatWorkers -> {"idle", "exist", "add", "send", "quit"}]
    BY <1>1, <1>3
  <2>2. r5' \in [ChatWorkers -> Route!Message \cup {Nothing}]
    BY <1>1, <1>2, <1>3
  <2> QED BY <1>1, <1>2, <2>1, <2>2, RouteFinite DEF Route!RouteInv, Route!TypeOK
<1>6. Route!Employed'
  BY <1>1, <1>2, <1>3, <1>4 DEF Route!RouteInv, Route!Employed
<1>7. ASSUME ~r9' PROVE ~r9 /\ ~Route!Routed(m.peer)
  BY <1>1, <1>7, Zenon
<1>8. ASSUME ~r9', NEW v \in ChatWorkers, v # w, r4[v] # "idle"
      PROVE  r5[v].peer # m.peer
  <2>1. r5[v] # Nothing
    BY <1>8 DEF Route!RouteInv, Route!Employed
  <2> QED BY <1>7, <1>8, <2>1 DEF Route!Routed
<1>9. Route!OwnMessages'
  BY <1>1, <1>4, <1>7, <1>8 DEF Route!RouteInv, Route!OwnMessages, Route!Peer, Route!Users
<1>10. Route!ChangesAlone'
  <2>1. \A v \in r6 : v # w
    BY <1>1 DEF Route!RouteInv, Route!Employed
  <2> QED BY <1>1, <1>3, <1>4, <2>1 DEF Route!RouteInv, Route!ChangesAlone, Route!Changes
<1>11. Route!ListRight'
  BY <1>1, <1>4, <1>7 DEF Route!RouteInv, Route!ListRight, Route!Peer, Route!Users
<1> QED BY <1>5, <1>6, <1>9, <1>10, <1>11 DEF Route!RouteInv

(* A worker enters the list.                                                   *)
LEMMA BeginKeeps ==
  ASSUME Route!RouteInv, NEW w \in ChatWorkers, Route!Begin(w)
  PROVE  Route!RouteInv'
<1>1. /\ r4[w] # "idle" /\ r6' = r6 \cup {w}
      /\ r10' = (r10 \/ Route!Races(w))
      /\ UNCHANGED <<r1, r2, r3, r4, r5, r7, r8, r9, r11>>
  BY DEF Route!Begin, Route!clients, Route!pool
<1>2. Route!TypeOK'
  BY <1>1 DEF Route!RouteInv, Route!TypeOK, Route!IsFiniteSet
<1>3. Route!Employed' /\ Route!OwnMessages'
  BY <1>1 DEF Route!RouteInv, Route!Employed, Route!OwnMessages, Route!Peer, Route!Users
<1>4. ASSUME ~r10' PROVE ~r10 /\ ~Route!Races(w)
  BY <1>1, <1>4, Zenon
<1>5. Route!ChangesAlone'
  BY <1>1, <1>4 DEF Route!RouteInv, Route!ChangesAlone, Route!Races, Route!Changes
<1>6. Route!ListRight'
  BY <1>1, <1>4 DEF Route!RouteInv, Route!ListRight, Route!Peer, Route!Users
<1> QED BY <1>2, <1>3, <1>5, <1>6 DEF Route!RouteInv

LEMMA CrashKeeps ==
  ASSUME Route!RouteInv, NEW w \in ChatWorkers, Route!Crash(w)
  PROVE  Route!RouteInv'
<1>1. r8' = TRUE /\ UNCHANGED <<r1, r2, r3, r4, r5, r6, r7, r9, r10, r11>>
  BY DEF Route!Crash, Route!clients, Route!pool, Route!history
<1>2. Route!TypeOK'
  BY <1>1 DEF Route!RouteInv, Route!TypeOK, Route!IsFiniteSet
<1> QED BY <1>1, <1>2, WorkersStay DEF Route!RouteInv

(* A worker leaves the list, with a message that is kept or done with.         *)
LEMMA EndKeeps ==
  ASSUME Route!RouteInv, NEW w \in ChatWorkers, NEW at, NEW next \in {"add", "send", "quit", "idle"},
         Route!End(w, at, next), at # "idle",
         r5' = IF next = "idle" THEN [r5 EXCEPT ![w] = Nothing] ELSE r5,
         r7' \in Seq(ChatPeers)
  PROVE  /\ Route!TypeOK' /\ Route!Employed' /\ Route!ChangesAlone'
         /\ UNCHANGED <<r9, r10>>
         /\ r4[w] = at /\ w \in r6 /\ r4'[w] = next
         /\ next # "idle" => r5'[w] = r5[w]
         /\ \A v \in ChatWorkers : v # w => r4'[v] = r4[v] /\ r5'[v] = r5[v]
<1>1. /\ r4[w] = at /\ w \in r6 /\ r6' = r6 \ {w}
      /\ r4' = [r4 EXCEPT ![w] = next]
      /\ UNCHANGED <<r1, r2, r3, r8, r9, r10>>
  BY DEF Route!End, Route!clients
<1>2. /\ r4 \in [ChatWorkers -> {"idle", "exist", "add", "send", "quit"}]
      /\ r5 \in [ChatWorkers -> Route!Message \cup {Nothing}] /\ r6 \subseteq ChatWorkers
  BY DEF Route!RouteInv, Route!TypeOK
<1>3. /\ r4'[w] = next
      /\ r5'[w] = IF next = "idle" THEN Nothing ELSE r5[w]
      /\ \A v \in ChatWorkers : v # w => r4'[v] = r4[v] /\ r5'[v] = r5[v]
  BY <1>1, <1>2
<1>4. Route!TypeOK'
  <2>1. r4' \in [ChatWorkers -> {"idle", "exist", "add", "send", "quit"}]
    BY <1>1, <1>2
  <2>2. r5' \in [ChatWorkers -> Route!Message \cup {Nothing}]
    BY <1>1, <1>2
  <2> QED BY <1>1, <2>1, <2>2 DEF Route!RouteInv, Route!TypeOK, Route!IsFiniteSet
<1>5. Route!Employed'
  BY <1>1, <1>2, <1>3 DEF Route!RouteInv, Route!Employed
<1>6. Route!ChangesAlone'
  BY <1>1, <1>2, <1>3 DEF Route!RouteInv, Route!ChangesAlone, Route!Changes
<1> QED BY <1>1, <1>3, <1>4, <1>5, <1>6

LEMMA IsExistKeeps ==
  ASSUME Route!RouteInv, NEW w \in ChatWorkers, Route!IsExist(w)
  PROVE  Route!RouteInv'
<1> DEFINE next == IF Route!Peer(w) \in Route!Users THEN "send" ELSE "add"
<1>1. Route!End(w, "exist", next) /\ UNCHANGED <<r5, r7, r11>>
  BY DEF Route!IsExist
<1>2. /\ next \in {"add", "send", "quit", "idle"} /\ next # "idle"
      /\ next = "add" => Route!Peer(w) \notin Route!Users
      /\ next = "send" => Route!Peer(w) \in Route!Users
      /\ next # "quit"
  OBVIOUS
<1> HIDE DEF next
<1>3. r7' \in Seq(ChatPeers)
  BY <1>1 DEF Route!RouteInv, Route!TypeOK
<1>4. /\ Route!TypeOK' /\ Route!Employed' /\ Route!ChangesAlone'
      /\ UNCHANGED <<r9, r10>> /\ r4[w] = "exist" /\ r4'[w] = next
      /\ \A v \in ChatWorkers : v # w => r4'[v] = r4[v]
  BY <1>1, <1>2, <1>3, EndKeeps
<1>5. Route!OwnMessages'
  BY <1>1, <1>2, <1>4 DEF Route!RouteInv, Route!OwnMessages, Route!Peer, Route!Users
<1>6. Route!ListRight'
  BY <1>1, <1>2, <1>4 DEF Route!RouteInv, Route!ListRight, Route!Peer, Route!Users
<1> QED BY <1>4, <1>5, <1>6 DEF Route!RouteInv

(* What is appended to a list is on it, and the rest stays.                    *)
LEMMA ListGrows ==
  ASSUME NEW S, NEW q \in Seq(S), NEW x \in S
  PROVE  /\ Append(q, x) \in Seq(S)
         /\ {Append(q, x)[i] : i \in DOMAIN Append(q, x)} = {q[i] : i \in DOMAIN q} \cup {x}
         /\ (\A i, j \in DOMAIN q : q[i] = q[j] => i = j) /\ x \notin {q[i] : i \in DOMAIN q} =>
                \A i, j \in DOMAIN Append(q, x) : Append(q, x)[i] = Append(q, x)[j] => i = j
<1>1. /\ Append(q, x) \in Seq(S) /\ DOMAIN Append(q, x) = 1..(Len(q) + 1) /\ DOMAIN q = 1..Len(q)
      /\ Len(q) \in Nat
      /\ \A i \in 1..Len(q) : Append(q, x)[i] = q[i]
      /\ Append(q, x)[Len(q) + 1] = x
  OBVIOUS
<1>2. \A i \in 1..(Len(q) + 1) : i \in 1..Len(q) \/ i = Len(q) + 1
  BY <1>1
<1> QED BY <1>1, <1>2

LEMMA AddUserKeeps ==
  ASSUME Route!RouteInv, NEW w \in ChatWorkers, Route!AddUser(w)
  PROVE  Route!RouteInv'
<1>1. /\ Route!End(w, "add", "send") /\ UNCHANGED <<r5, r11>>
      /\ r7' = Append(r7, Route!Peer(w)) \/ (Route!Overwritten(w) /\ r7' = r7)
  BY DEF Route!AddUser
<1>2. r4[w] = "add" /\ w \in r6
  BY <1>1 DEF Route!End
<1>3. Route!Peer(w) \in ChatPeers /\ r7 \in Seq(ChatPeers)
  <2>1. r5[w] \in Route!Message
    BY <1>2 DEF Route!RouteInv, Route!TypeOK, Route!Employed
  <2> QED BY <2>1 DEF Route!RouteInv, Route!TypeOK, Route!Peer, Route!Message
<1>4. r7' \in Seq(ChatPeers)
  BY <1>1, <1>3
<1>5. /\ Route!TypeOK' /\ Route!Employed' /\ Route!ChangesAlone'
      /\ UNCHANGED <<r9, r10>> /\ r4'[w] = "send"
      /\ \A v \in ChatWorkers : v # w => r4'[v] = r4[v]
  BY <1>1, <1>4, EndKeeps
<1>6. CASE r7' = r7 /\ Route!Overwritten(w)
  <2>1. r10
    BY <1>2, <1>6 DEF Route!RouteInv, Route!ChangesAlone, Route!Overwritten
  <2>2. r10' = r10
    BY <1>5
  <2>3. Route!OwnMessages'
    BY <1>1, <1>2, <1>5, <1>6 DEF Route!RouteInv, Route!OwnMessages, Route!Peer, Route!Users
  <2>4. Route!ListRight'
    BY <1>1, <1>5, <1>6, <2>1, <2>2 DEF Route!RouteInv, Route!ListRight, Route!Peer, Route!Users
  <2> QED BY <1>5, <2>3, <2>4 DEF Route!RouteInv
<1>7. CASE r7' = Append(r7, Route!Peer(w))
  <2>1. Route!Users' = Route!Users \cup {Route!Peer(w)}
    BY <1>3, <1>7, ListGrows DEF Route!Users
  <2>2. \A v \in ChatWorkers : Route!Peer(v)' = Route!Peer(v)
    BY <1>1 DEF Route!Peer
  <2>3. ~r9 => /\ Route!Peer(w) \notin Route!Users
               /\ \A v \in ChatWorkers : v # w /\ r4[v] # "idle" => Route!Peer(v) # Route!Peer(w)
    BY <1>2 DEF Route!RouteInv, Route!OwnMessages
  <2>4. Route!OwnMessages'
    BY <1>2, <1>5, <2>1, <2>2, <2>3 DEF Route!RouteInv, Route!OwnMessages
  <2>5. ~r9 => \A i, j \in DOMAIN r7' : r7'[i] = r7'[j] => i = j
    <3>1. ~r9 => \A i, j \in DOMAIN r7 : r7[i] = r7[j] => i = j
      BY DEF Route!RouteInv, Route!ListRight
    <3>2. ~r9 => Route!Peer(w) \notin {r7[i] : i \in DOMAIN r7}
      BY <2>3 DEF Route!Users
    <3> QED BY <1>3, <1>7, <3>1, <3>2, ListGrows
  <2>6. Route!ListRight'
    BY <1>1, <1>2, <1>5, <2>1, <2>2, <2>5 DEF Route!RouteInv, Route!ListRight
  <2> QED BY <1>5, <2>4, <2>6 DEF Route!RouteInv
<1> QED BY <1>1, <1>6, <1>7

LEMMA BroadcastKeeps ==
  ASSUME Route!RouteInv, NEW w \in ChatWorkers, Route!Broadcast(w)
  PROVE  Route!RouteInv'
<1> DEFINE next == IF r5[w].text = "QUIT" THEN "quit" ELSE "idle"
<1>1. /\ Route!End(w, "send", next) /\ UNCHANGED <<r7, r11>>
      /\ r5' = IF next = "idle" THEN [r5 EXCEPT ![w] = Nothing] ELSE r5
  BY DEF Route!Broadcast
<1>2. next \in {"quit", "idle"}
  OBVIOUS
<1> HIDE DEF next
<1>3. r7' \in Seq(ChatPeers)
  BY <1>1 DEF Route!RouteInv, Route!TypeOK
<1>4. /\ Route!TypeOK' /\ Route!Employed' /\ Route!ChangesAlone'
      /\ UNCHANGED <<r9, r10>> /\ r4[w] = "send" /\ r4'[w] = next
      /\ next # "idle" => r5'[w] = r5[w]
      /\ \A v \in ChatWorkers : v # w => r4'[v] = r4[v] /\ r5'[v] = r5[v]
  BY <1>1, <1>2, <1>3, EndKeeps, SMTT(30)
<1>5. Route!OwnMessages'
  BY <1>1, <1>2, <1>4 DEF Route!RouteInv, Route!OwnMessages, Route!Peer, Route!Users
<1>6. Route!ListRight'
  BY <1>1, <1>2, <1>4 DEF Route!RouteInv, Route!ListRight, Route!Peer, Route!Users
<1> QED BY <1>4, <1>5, <1>6 DEF Route!RouteInv

(* The tail of a list has nobody who was not on it, and nobody twice.           *)
LEMMA ListShrinks ==
  ASSUME NEW S, NEW q \in Seq(S), q # <<>>
  PROVE  /\ Tail(q) \in Seq(S)
         /\ {Tail(q)[i] : i \in DOMAIN Tail(q)} \subseteq {q[i] : i \in DOMAIN q}
         /\ (\A i, j \in DOMAIN q : q[i] = q[j] => i = j) =>
                \A i, j \in DOMAIN Tail(q) : Tail(q)[i] = Tail(q)[j] => i = j
<1>1. /\ Tail(q) \in Seq(S) /\ DOMAIN Tail(q) = 1..(Len(q) - 1) /\ DOMAIN q = 1..Len(q)
      /\ Len(q) \in Nat
      /\ \A i \in 1..(Len(q) - 1) : Tail(q)[i] = q[i + 1]
  BY HeadTailProperties
<1>2. \A i \in 1..(Len(q) - 1) : i + 1 \in 1..Len(q)
  BY <1>1
<1>3. ASSUME \A i, j \in DOMAIN q : q[i] = q[j] => i = j,
             NEW i \in DOMAIN Tail(q), NEW j \in DOMAIN Tail(q), Tail(q)[i] = Tail(q)[j]
      PROVE  i = j
  <2>1. i + 1 = j + 1
    BY <1>1, <1>2, <1>3
  <2> QED BY <1>1, <1>3, <2>1
<1> QED BY <1>1, <1>2, <1>3

LEMMA DeleteUserKeeps ==
  ASSUME Route!RouteInv, NEW w \in ChatWorkers, Route!DeleteUser(w)
  PROVE  Route!RouteInv'
<1>1. /\ Route!End(w, "quit", "idle")
      /\ r7' = IF r7 = <<>> THEN r7 ELSE Tail(r7)
      /\ r11' = (r11 \/ r7 # <<>>)
      /\ r5' = [r5 EXCEPT ![w] = Nothing]
  BY DEF Route!DeleteUser
<1>2. r7 \in Seq(ChatPeers)
  BY DEF Route!RouteInv, Route!TypeOK
<1>3. /\ r7' \in Seq(ChatPeers) /\ Route!Users' \subseteq Route!Users
      /\ (\A i, j \in DOMAIN r7 : r7[i] = r7[j] => i = j) =>
            \A i, j \in DOMAIN r7' : r7'[i] = r7'[j] => i = j
  BY <1>1, <1>2, ListShrinks DEF Route!Users
<1>4. /\ Route!TypeOK' /\ Route!Employed' /\ Route!ChangesAlone'
      /\ UNCHANGED <<r9, r10>> /\ r4[w] = "quit" /\ r4'[w] = "idle"
      /\ \A v \in ChatWorkers : v # w => r4'[v] = r4[v] /\ r5'[v] = r5[v]
  BY <1>1, <1>3, EndKeeps
<1>5. \A v \in ChatWorkers : v # w => Route!Peer(v)' = Route!Peer(v)
  BY <1>4 DEF Route!Peer
<1>6. Route!OwnMessages'
  BY <1>3, <1>4, <1>5 DEF Route!RouteInv, Route!OwnMessages
<1>7. ASSUME ~r11' PROVE ~r11 /\ r7' = r7
  <2>1. ~r11 /\ r7 = <<>>
    BY <1>1, <1>7, Zenon
  <2> QED BY <1>1, <2>1
<1>8. ~r11' => Route!Users' = Route!Users
  BY <1>7 DEF Route!Users
<1>9. Route!ListRight'
  BY <1>3, <1>4, <1>5, <1>7, <1>8 DEF Route!RouteInv, Route!ListRight
<1> QED BY <1>4, <1>6, <1>9 DEF Route!RouteInv

LEMMA RouteStep ==
  ASSUME Route!RouteInv, Route!Next
  PROVE  Route!RouteInv'
BY NetworkKeeps, TakeKeeps, BeginKeeps, CrashKeeps, IsExistKeeps, AddUserKeeps, BroadcastKeeps,
   DeleteUserKeeps DEF Route!Next, Route!MessageRoute

-----------------------------------------------------------------------------
(* The servers of datagrams: r1 kind, r2 lines, r3 dict, r4 server, r5 request, *)
(* r6 net, r7 dups, r8 cpc, r9 asked, r10 shown.                               *)

LEMMA UdpInit ==
  ASSUME Udp!Init
  PROVE  Udp!UdpInv
<1>1. /\ r2 \in {DictFile} /\ r4 = "init" /\ r6 = {} /\ r7 = 0
      /\ r8 = [c \in UdpClients |-> "input"] /\ r9 = [c \in UdpClients |-> <<>>]
      /\ r10 = [c \in UdpClients |-> <<>>]
  BY DEF Udp!Init
<1>2. \A c \in UdpClients : /\ r8[c] = "input" /\ r9[c] = <<>> /\ r10[c] = <<>>
                            /\ Len(r9[c]) = 0 /\ Len(r10[c]) = 0 /\ DOMAIN r10[c] = {}
  BY <1>1
<1>3. Udp!TypeOK
  BY <1>1 DEF Udp!TypeOK
<1>4. r10 \in [UdpClients -> Seq([text : {Udp!Answer(w) : w \in Words}, number : 1..MaxAsks])]
  BY <1>1
<1>5. Udp!UnderWay = {}
  BY <1>1 DEF Udp!UnderWay
<1>6. Udp!QuestionsKept /\ Udp!OneUnderWay
  BY <1>5 DEF Udp!QuestionsKept, Udp!OneUnderWay
<1>7. Udp!AskedInTurn
  BY <1>2 DEF Udp!AskedInTurn
<1>9. Udp!AnswersKept
  BY <1>2 DEF Udp!AnswersKept
<1>10. Udp!ReplyOnce
  BY <1>1 DEF Udp!ReplyOnce
<1>8. Udp!DictLoaded
  BY <1>1 DEF Udp!DictLoaded
<1> QED BY <1>1, <1>3, <1>4, <1>6, <1>7, <1>8, <1>9, <1>10, UdpAssumption DEF Udp!UdpInv

(* What the answer to a word is never changes.                                 *)
LEMMA AnswerStays ==
  ASSUME r1' = r1
  PROVE  \A w : Udp!Answer(w)' = Udp!Answer(w)
BY DEF Udp!Answer, Udp!Translate

(* A step of the network or the server: no more is under way than before, and  *)
(* only a datagram that is repeated comes twice.                                *)
LEMMA FewerUnderWay ==
  ASSUME Udp!UdpInv, UNCHANGED <<r1, r2, r8, r9, r10>>, r6' \subseteq Udp!Datagram,
         r7' \in 0..MaxDups, r7 # 0 => r7' # 0,
         r4' \in {"init", "recv", "answer", "exit", "crashed"},
         \A d \in Udp!UnderWay' :
             \E e \in Udp!UnderWay : /\ Udp!Asker(d) = Udp!Asker(e)
                                     /\ d.number = e.number /\ d.word = e.word
                                     /\ d \in Udp!Datagram,
         r7' = 0 => \A d, e \in Udp!UnderWay' : Udp!Asker(d) = Udp!Asker(e) => d = e,
         r7' = 0 /\ r4' = "answer" => Udp!Reply' \notin r6',
         Udp!DictLoaded'
  PROVE  Udp!UdpInv'
<1>1. Udp!TypeOK'
  BY DEF Udp!UdpInv, Udp!TypeOK
<1>2. Udp!QuestionsKept'
  BY DEF Udp!UdpInv, Udp!QuestionsKept, Udp!Asker
<1>3. Udp!OneUnderWay'
  BY DEF Udp!UdpInv, Udp!OneUnderWay, Udp!Asker
<1>4. \A w : Udp!Answer(w)' = Udp!Answer(w)
  BY AnswerStays
<1>5. {Udp!Answer(w) : w \in Words}' = {Udp!Answer(w) : w \in Words}
  BY <1>4
<1>6. Udp!AskedInTurn' /\ Udp!AnswersKept'
  BY <1>4 DEF Udp!UdpInv, Udp!AskedInTurn, Udp!AnswersKept
<1>7. Udp!ReplyOnce'
  BY DEF Udp!ReplyOnce
<1> QED BY <1>1, <1>2, <1>3, <1>5, <1>6, <1>7 DEF Udp!UdpInv

LEMMA DictStays ==
  ASSUME Udp!DictLoaded, UNCHANGED <<r1, r2, r3, r4, r5>>
  PROVE  Udp!DictLoaded'
BY DEF Udp!DictLoaded, Udp!LoadDict, Udp!Known, Udp!Valid

LEMMA ServerInitKeeps ==
  ASSUME Udp!UdpInv, NEW works \in BOOLEAN, Udp!ServerInit(works)
  PROVE  Udp!UdpInv'
<1>1. /\ r4 = "init" /\ r4' \in {"recv", "exit"}
      /\ r3' = IF r1 = "dict" THEN Udp!LoadDict(r2) ELSE {}
      /\ UNCHANGED <<r1, r2, r5, r6, r7, r8, r9, r10>>
  BY DEF Udp!ServerInit
<1>2. Udp!UnderWay' = Udp!UnderWay
  BY <1>1 DEF Udp!UnderWay
<1>3. Udp!DictLoaded'
  BY <1>1 DEF Udp!DictLoaded, Udp!LoadDict, Udp!Valid
<1>4. Udp!UnderWay \subseteq Udp!Datagram /\ r6 \subseteq Udp!Datagram
  BY DEF Udp!UdpInv, Udp!QuestionsKept, Udp!TypeOK
<1>5. r7 = 0 => \A d, e \in Udp!UnderWay : Udp!Asker(d) = Udp!Asker(e) => d = e
  BY DEF Udp!UdpInv, Udp!OneUnderWay
<1>6. r7' \in 0..MaxDups
  BY <1>1 DEF Udp!UdpInv
<1>7. ~ (r4' = "answer")
  BY <1>1
<1> QED BY <1>1, <1>2, <1>3, <1>4, <1>5, <1>6, <1>7, FewerUnderWay

LEMMA ReceiveDatagramKeeps ==
  ASSUME Udp!UdpInv, NEW d \in r6, Udp!Receive(d)
  PROVE  Udp!UdpInv'
<1>1. /\ r4 = "recv" /\ d.to = "server" /\ r6' = r6 \ {d} /\ r4' = "answer"
      /\ r5' = [from |-> d.from, word |-> d.word, number |-> d.number]
      /\ UNCHANGED <<r1, r2, r3, r7, r8, r9, r10>>
  BY DEF Udp!Receive
<1>2. Udp!UnderWay = r6
  BY <1>1 DEF Udp!UnderWay
<1>3. /\ d \in Udp!Datagram /\ d.from \in UdpClients /\ d.from # "server" /\ Udp!Asker(d) = d.from
      /\ r6 \subseteq Udp!Datagram
  BY <1>1, <1>2, UdpAssumption DEF Udp!UdpInv, Udp!QuestionsKept, Udp!TypeOK, Udp!Asker
<1> DEFINE e == [to |-> d.from, from |-> "server", word |-> d.word, number |-> d.number, copy |-> 0]
<1>4. /\ Udp!UnderWay' = (r6 \ {d}) \cup {e}
  BY <1>1 DEF Udp!UnderWay, Udp!Reply
<1>5. /\ e \in Udp!Datagram /\ Udp!Asker(e) = d.from
      /\ e.word = d.word /\ e.number = d.number
  BY <1>3, UdpAssumption DEF Udp!Datagram, Udp!Asker
<1>10. Udp!Reply' = e /\ e.to # d.to
  BY <1>1, <1>3, UdpAssumption DEF Udp!Reply
<1> HIDE DEF e
<1>11. r7' = 0 /\ r4' = "answer" => Udp!Reply' \notin r6'
  BY <1>1, <1>2, <1>3, <1>5, <1>10 DEF Udp!UdpInv, Udp!OneUnderWay
<1>6. \A x \in Udp!UnderWay' :
         \E y \in Udp!UnderWay : /\ Udp!Asker(x) = Udp!Asker(y)
                                 /\ x.number = y.number /\ x.word = y.word
                                 /\ x \in Udp!Datagram
  BY <1>2, <1>3, <1>4, <1>5
<1>7. r7 = 0 => \A x, y \in Udp!UnderWay' : Udp!Asker(x) = Udp!Asker(y) => x = y
  BY <1>2, <1>3, <1>4, <1>5 DEF Udp!UdpInv, Udp!OneUnderWay
<1>8. Udp!DictLoaded'
  BY <1>1 DEF Udp!UdpInv, Udp!DictLoaded, Udp!LoadDict, Udp!Valid
<1>9. r7' \in 0..MaxDups
  BY <1>1 DEF Udp!UdpInv
<1> QED BY <1>1, <1>3, <1>6, <1>7, <1>8, <1>9, <1>11, FewerUnderWay

LEMMA SendDatagramKeeps ==
  ASSUME Udp!UdpInv, Udp!Send
  PROVE  Udp!UdpInv'
<1>1. /\ r4 = "answer"
      /\ \/ r1 = "dict" /\ ~Udp!Known(r5.word) /\ r4' = "crashed" /\ r6' = r6
         \/ r4' = "recv" /\ r6' = r6 \cup {Udp!Reply}
      /\ UNCHANGED <<r1, r2, r3, r5, r7, r8, r9, r10>>
  BY DEF Udp!Send
<1>2. Udp!UnderWay = r6 \cup {Udp!Reply}
  BY <1>1 DEF Udp!UnderWay
<1>3. Udp!UnderWay' \subseteq Udp!UnderWay /\ r6' \subseteq Udp!UnderWay
  BY <1>1, <1>2 DEF Udp!UnderWay
<1>4. Udp!UnderWay \subseteq Udp!Datagram
  BY DEF Udp!UdpInv, Udp!QuestionsKept
<1>5. r7 = 0 => \A x, y \in Udp!UnderWay : Udp!Asker(x) = Udp!Asker(y) => x = y
  BY DEF Udp!UdpInv, Udp!OneUnderWay
<1>6. Udp!DictLoaded'
  <2>1. Udp!Known(r5.word)' = Udp!Known(r5.word)
    BY <1>1 DEF Udp!Known
  <2>2. r1' = "dict" => r3' = Udp!LoadDict(r2)
    BY <1>1 DEF Udp!UdpInv, Udp!DictLoaded
  <2>3. Udp!LoadDict(r2)' = Udp!LoadDict(r2)
    BY <1>1 DEF Udp!LoadDict, Udp!Valid
  <2> QED BY <1>1, <2>1, <2>2, <2>3 DEF Udp!DictLoaded
<1>7. r7' \in 0..MaxDups
  BY <1>1 DEF Udp!UdpInv
<1>8. ~ (r4' = "answer")
  BY <1>1
<1> QED BY <1>1, <1>3, <1>4, <1>5, <1>6, <1>7, <1>8, FewerUnderWay

LEMMA NetKeeps ==
  ASSUME Udp!UdpInv, NEW d \in r6, Udp!Lose(d) \/ Udp!Duplicate(d)
  PROVE  Udp!UdpInv'
<1>1. UNCHANGED <<r1, r2, r3, r4, r5, r8, r9, r10>>
  BY DEF Udp!Lose, Udp!Duplicate
<1>2. Udp!UnderWay \subseteq Udp!Datagram /\ r6 \subseteq Udp!UnderWay /\ r7 \in 0..MaxDups
  BY DEF Udp!UdpInv, Udp!QuestionsKept, Udp!UnderWay
<1>3. Udp!DictLoaded'
  BY <1>1, DictStays DEF Udp!UdpInv
<1>4. r7 = 0 => \A x, y \in Udp!UnderWay : Udp!Asker(x) = Udp!Asker(y) => x = y
  BY DEF Udp!UdpInv, Udp!OneUnderWay
<1>5. r4' \in {"init", "recv", "answer", "exit", "crashed"}
  BY <1>1 DEF Udp!UdpInv, Udp!TypeOK
<1>6. CASE Udp!Lose(d)
  <2>1. r6' = r6 \ {d} /\ r7' = r7
    BY <1>6 DEF Udp!Lose
  <2>2. Udp!UnderWay' \subseteq Udp!UnderWay
    BY <1>1, <2>1 DEF Udp!UnderWay, Udp!Reply
  <2>3. r7' = 0 /\ r4' = "answer" => Udp!Reply' \notin r6'
    BY <1>1, <2>1 DEF Udp!UdpInv, Udp!ReplyOnce, Udp!Reply
  <2> QED BY <1>1, <1>2, <1>3, <1>4, <1>5, <2>1, <2>2, <2>3, FewerUnderWay
<1>7. CASE Udp!Duplicate(d)
  <2> DEFINE e == [d EXCEPT !.copy = r7 + 1]
  <2>1. r6' = r6 \cup {e} /\ r7' = r7 + 1 /\ r7 < MaxDups
    BY <1>7 DEF Udp!Duplicate
  <2>2. r7' \in 0..MaxDups /\ r7' # 0
    BY <1>2, <2>1, UdpAssumption
  <2>3. d \in Udp!Datagram /\ d \in Udp!UnderWay
    BY <1>2
  <2>4. e \in Udp!Datagram /\ Udp!Asker(e) = Udp!Asker(d) /\ e.word = d.word /\ e.number = d.number
    BY <2>1, <2>2, <2>3 DEF Udp!Datagram, Udp!Asker
  <2> HIDE DEF e
  <2>5. Udp!UnderWay' = Udp!UnderWay \cup {e}
    BY <1>1, <2>1 DEF Udp!UnderWay, Udp!Reply
  <2>6. r6' \subseteq Udp!Datagram
    BY <1>2, <2>1, <2>4
  <2>7. \A x \in Udp!UnderWay' :
         \E y \in Udp!UnderWay : /\ Udp!Asker(x) = Udp!Asker(y)
                                 /\ x.number = y.number /\ x.word = y.word
                                 /\ x \in Udp!Datagram
    BY <1>2, <2>3, <2>4, <2>5
  <2> QED BY <1>1, <1>3, <1>5, <2>2, <2>6, <2>7, FewerUnderWay
<1> QED BY <1>6, <1>7

(* A client sends a line, or keeps it.  Its question is the only one of its on   *)
(* the way: it did not wait.                                                  *)
LEMMA AskKeeps ==
  ASSUME Udp!UdpInv, NEW c \in UdpClients, NEW w \in Words \cup {"nothing"}, NEW sent \in BOOLEAN,
         r8[c] = "input", Len(r9[c]) < MaxAsks, sent => w \in Words,
         NEW where \in {"recv", "left"}, sent => where = "recv",
         r9' = [r9 EXCEPT ![c] = Append(r9[c], w)],
         r8' = [r8 EXCEPT ![c] = where],
         r6' = IF sent THEN r6 \cup {[to |-> "server", from |-> c, word |-> w,
                                      number |-> Len(r9[c]) + 1, copy |-> 0]}
               ELSE r6,
         UNCHANGED <<r1, r2, r3, r4, r5, r7, r10>>
  PROVE  Udp!UdpInv'
<1>1. /\ r9 \in [UdpClients -> Seq(Words \cup {"nothing"})] /\ r7 \in 0..MaxDups
      /\ r8 \in [UdpClients -> {"input", "recv", "left"}]
      /\ r10 \in [UdpClients -> Seq([text : {Udp!Answer(v) : v \in Words}, number : 1..MaxAsks])]
      /\ r6 \subseteq Udp!Datagram
  BY DEF Udp!UdpInv, Udp!TypeOK, Udp!NoText
<1> DEFINE e == [to |-> "server", from |-> c, word |-> w, number |-> Len(r9[c]) + 1, copy |-> 0]
<1>2. /\ Len(r9[c]) \in Nat /\ Len(r9[c]) + 1 \in 1..MaxAsks /\ 0 \in 0..MaxDups
      /\ Append(r9[c], w) \in Seq(Words \cup {"nothing"})
      /\ Len(Append(r9[c], w)) = Len(r9[c]) + 1
      /\ \A i \in 1..Len(r9[c]) : Append(r9[c], w)[i] = r9[c][i]
      /\ Append(r9[c], w)[Len(r9[c]) + 1] = w
  BY <1>1, UdpAssumption
<1>3. sent => /\ e \in Udp!Datagram /\ Udp!Asker(e) = c
              /\ e.number = Len(r9[c]) + 1 /\ e.word = w
  BY <1>2 DEF Udp!Datagram, Udp!Asker
<1>4. r6' = IF sent THEN r6 \cup {e} ELSE r6
  OBVIOUS
<1> HIDE DEF e
<1>5. /\ r9'[c] = Append(r9[c], w) /\ r8'[c] = where
      /\ \A b \in UdpClients : b # c => r9'[b] = r9[b] /\ r8'[b] = r8[b]
      /\ r9' \in [UdpClients -> Seq(Words \cup {"nothing"})]
      /\ r8' \in [UdpClients -> {"input", "recv", "left"}]
  BY <1>1, <1>2
<1>6. \A b \in UdpClients : /\ Len(r9[b]) \in Nat /\ Len(r9'[b]) >= Len(r9[b])
                            /\ \A i \in 1..Len(r9[b]) : r9'[b][i] = r9[b][i]
  BY <1>1, <1>2, <1>5
<1>7. Udp!UnderWay' = IF sent THEN Udp!UnderWay \cup {e} ELSE Udp!UnderWay
  BY <1>4 DEF Udp!UnderWay, Udp!Reply
<1>8. Udp!TypeOK'
  <2>1. r6' \subseteq Udp!Datagram
    BY <1>1, <1>3, <1>4
  <2> QED BY <1>5, <2>1 DEF Udp!UdpInv, Udp!TypeOK, Udp!NoText
<1>9. Udp!QuestionsKept'
  <2>1. ASSUME NEW d \in Udp!UnderWay
        PROVE  /\ d \in Udp!Datagram /\ Udp!Asker(d) \in UdpClients
               /\ d.number \in 1..Len(r9'[Udp!Asker(d)])
               /\ d.word = r9'[Udp!Asker(d)][d.number]
    <3>1. /\ d \in Udp!Datagram /\ Udp!Asker(d) \in UdpClients
          /\ d.number \in 1..Len(r9[Udp!Asker(d)]) /\ d.word = r9[Udp!Asker(d)][d.number]
      BY DEF Udp!UdpInv, Udp!QuestionsKept
    <3>2. Len(r9'[Udp!Asker(d)]) \in Nat
      BY <1>5, <3>1
    <3> QED BY <1>6, <3>1, <3>2
  <2>2. sent => /\ e \in Udp!Datagram /\ Udp!Asker(e) \in UdpClients
                /\ e.number \in 1..Len(r9'[Udp!Asker(e)])
                /\ e.word = r9'[Udp!Asker(e)][e.number]
    BY <1>2, <1>3, <1>5
  <2>3. \A d \in Udp!UnderWay' :
            /\ d \in Udp!Datagram /\ Udp!Asker(d) \in UdpClients
            /\ d.number \in 1..Len(r9'[Udp!Asker(d)])
            /\ d.word = r9'[Udp!Asker(d)][d.number]
    BY <1>7, <2>1, <2>2
  <2> QED BY <2>3 DEF Udp!QuestionsKept, Udp!Asker
<1>10. Udp!OneUnderWay'
  <2>1. r7 = 0 => \A d \in Udp!UnderWay :
                      /\ r8[Udp!Asker(d)] = "recv" /\ d.number = Len(r9[Udp!Asker(d)])
                      /\ \A f \in Udp!UnderWay : Udp!Asker(f) = Udp!Asker(d) => f = d
    BY DEF Udp!UdpInv, Udp!OneUnderWay
  <2>2. r7 = 0 => \A d \in Udp!UnderWay : Udp!Asker(d) \in UdpClients /\ Udp!Asker(d) # c
    BY <2>1 DEF Udp!UdpInv, Udp!QuestionsKept
  <2>3. r7 = 0 => \A d \in Udp!UnderWay' :
                      /\ r8'[Udp!Asker(d)] = "recv" /\ d.number = Len(r9'[Udp!Asker(d)])
                      /\ \A f \in Udp!UnderWay' : Udp!Asker(f) = Udp!Asker(d) => f = d
    BY <1>2, <1>3, <1>5, <1>7, <2>1, <2>2
  <2> QED BY <2>3 DEF Udp!OneUnderWay, Udp!Asker
<1>11. Udp!AskedInTurn'
  <2>1. \A b \in UdpClients : IF r8[b] = "input" THEN Len(r9[b]) = Len(r10[b])
                             ELSE Len(r9[b]) = Len(r10[b]) + 1
    BY DEF Udp!UdpInv, Udp!AskedInTurn
  <2>2. \A b \in UdpClients : IF r8'[b] = "input" THEN Len(r9'[b]) = Len(r10[b])
                             ELSE Len(r9'[b]) = Len(r10[b]) + 1
    BY <1>2, <1>5, <2>1
  <2> QED BY <2>2 DEF Udp!AskedInTurn
<1>12. \A v : Udp!Answer(v)' = Udp!Answer(v)
  BY AnswerStays
<1>13. {Udp!Answer(v) : v \in Words}' = {Udp!Answer(v) : v \in Words}
  BY <1>12
<1>14. Udp!AnswersKept'
  <2>1. ASSUME NEW b \in UdpClients, NEW i \in DOMAIN r10[b]
        PROVE  /\ r10[b][i].number <= i
               /\ r10[b][i].text = Udp!Answer(r9'[b][r10[b][i].number])
               /\ r7 = 0 => r10[b][i].number = i
    <3>1. /\ r10[b][i].number <= i
          /\ r10[b][i].text = Udp!Answer(r9[b][r10[b][i].number])
          /\ r7 = 0 => r10[b][i].number = i
      <4>1. Udp!AnswersKept
        BY DEF Udp!UdpInv
      <4> QED BY <4>1, Zenon DEF Udp!AnswersKept
    <3>2. i \in 1..Len(r10[b]) /\ Len(r10[b]) \in Nat /\ r10[b][i].number \in 1..MaxAsks
      <4> DEFINE S == [text : {Udp!Answer(v) : v \in Words}, number : 1..MaxAsks]
      <4>1. r10[b] \in Seq(S)
        BY <1>1
      <4>2. \A x \in S : x.number \in 1..MaxAsks
        OBVIOUS
      <4> HIDE DEF S
      <4> QED BY <4>1, <4>2
    <3>3. Len(r10[b]) <= Len(r9[b]) /\ Len(r9[b]) \in Nat
      BY <1>1, <3>2 DEF Udp!UdpInv, Udp!AskedInTurn
    <3>4. r10[b][i].number \in 1..Len(r9[b])
      BY <3>1, <3>2, <3>3, UdpAssumption
    <3>5. r9'[b][r10[b][i].number] = r9[b][r10[b][i].number]
      BY <1>6, <3>4
    <3> QED BY <3>1, <3>5
  <2> QED BY <1>12, <2>1, Zenon DEF Udp!AnswersKept
<1>15. Udp!DictLoaded'
  BY DictStays DEF Udp!UdpInv
<1>16. Udp!ReplyOnce'
  <2>1. Udp!Reply' = Udp!Reply
    BY DEF Udp!Reply
  <2>2. r7 = 0 /\ r4 = "answer" => Udp!Asker(Udp!Reply) # c
    BY DEF Udp!UdpInv, Udp!OneUnderWay, Udp!UnderWay
  <2> QED BY <1>3, <1>4, <2>1, <2>2 DEF Udp!UdpInv, Udp!ReplyOnce
<1> QED BY <1>1, <1>8, <1>9, <1>10, <1>11, <1>13, <1>14, <1>15, <1>16 DEF Udp!UdpInv

LEMMA DictClientKeeps ==
  ASSUME Udp!UdpInv, NEW c \in UdpClients, NEW w \in Words \cup {"nothing"}, Udp!DictClient(c, w)
  PROVE  Udp!UdpInv'
<1> DEFINE sent == w # "nothing"
<1>1. /\ r8[c] = "input" /\ Len(r9[c]) < MaxAsks
      /\ r9' = [r9 EXCEPT ![c] = Append(r9[c], w)]
      /\ r8' = [r8 EXCEPT ![c] = "recv"]
      /\ r6' = IF w = "nothing" THEN r6
               ELSE r6 \cup {[to |-> "server", from |-> c, word |-> w,
                              number |-> Len(r9[c]) + 1, copy |-> 0]}
      /\ UNCHANGED <<r1, r2, r3, r4, r5, r7, r10>>
  BY DEF Udp!DictClient, Udp!NoText
<1>2. CASE w = "nothing"
  <2>1. FALSE \in BOOLEAN
    OBVIOUS
  <2> QED BY <1>1, <1>2, <2>1, AskKeeps
<1>3. CASE w # "nothing"
  <2>1. TRUE \in BOOLEAN /\ w \in Words
    BY <1>3
  <2> QED BY <1>1, <1>3, <2>1, AskKeeps
<1> QED BY <1>2, <1>3

LEMMA EchoClientKeeps ==
  ASSUME Udp!UdpInv, NEW c \in UdpClients, NEW w \in Words \cup {"nothing"}, NEW sent \in BOOLEAN,
         Udp!EchoClient(c, w, sent)
  PROVE  Udp!UdpInv'
<1>1. /\ r8[c] = "input" /\ Len(r9[c]) < MaxAsks /\ (sent => w # "nothing")
      /\ r9' = [r9 EXCEPT ![c] = Append(r9[c], w)]
      /\ r8' = [r8 EXCEPT ![c] = IF sent THEN "recv" ELSE "left"]
      /\ r6' = IF sent THEN r6 \cup {[to |-> "server", from |-> c, word |-> w,
                                      number |-> Len(r9[c]) + 1, copy |-> 0]}
               ELSE r6
      /\ UNCHANGED <<r1, r2, r3, r4, r5, r7, r10>>
  BY DEF Udp!EchoClient, Udp!NoText
<1> DEFINE where == IF sent THEN "recv" ELSE "left"
<1>2. where \in {"recv", "left"} /\ (sent => where = "recv") /\ (sent => w \in Words)
  BY <1>1
<1>3. r8' = [r8 EXCEPT ![c] = where]
  BY <1>1
<1> HIDE DEF where
<1> QED BY <1>1, <1>2, <1>3, AskKeeps

LEMMA ClientReceiveDatagramKeeps ==
  ASSUME Udp!UdpInv, NEW c \in UdpClients, NEW d \in r6, Udp!ClientReceive(c, d)
  PROVE  Udp!UdpInv'
<1>1. /\ r8[c] = "recv" /\ d.to = c /\ r6' = r6 \ {d}
      /\ r10' = [r10 EXCEPT ![c] = Append(r10[c], [text |-> Udp!Answer(d.word), number |-> d.number])]
      /\ r8' = [r8 EXCEPT ![c] = "input"]
      /\ UNCHANGED <<r1, r2, r3, r4, r5, r7, r9>>
  BY DEF Udp!ClientReceive
<1> DEFINE S == [text : {Udp!Answer(v) : v \in Words}, number : 1..MaxAsks]
           e == [text |-> Udp!Answer(d.word), number |-> d.number]
<1>2. /\ r9 \in [UdpClients -> Seq(Words \cup {"nothing"})] /\ r7 \in 0..MaxDups
      /\ r8 \in [UdpClients -> {"input", "recv", "left"}]
      /\ r10 \in [UdpClients -> Seq(S)] /\ r6 \subseteq Udp!Datagram
  BY DEF Udp!UdpInv, Udp!TypeOK, Udp!NoText
<1>3. /\ d \in Udp!UnderWay /\ d \in Udp!Datagram /\ Udp!Asker(d) = c
      /\ d.number \in 1..Len(r9[c]) /\ d.word = r9[c][d.number]
  BY <1>1, UdpAssumption DEF Udp!UdpInv, Udp!QuestionsKept, Udp!UnderWay, Udp!Asker
<1>4. e \in S /\ e.text = Udp!Answer(r9[c][d.number]) /\ e.number = d.number
  BY <1>3 DEF Udp!Datagram
<1>5. Len(r9[c]) \in Nat /\ Len(r10[c]) \in Nat /\ Len(r9[c]) = Len(r10[c]) + 1
  BY <1>1, <1>2 DEF Udp!UdpInv, Udp!AskedInTurn
<1>6. r10' = [r10 EXCEPT ![c] = Append(r10[c], e)]
  BY <1>1
<1> HIDE DEF S, e
<1>7. /\ Append(r10[c], e) \in Seq(S) /\ Len(Append(r10[c], e)) = Len(r10[c]) + 1
      /\ \A i \in 1..Len(r10[c]) : Append(r10[c], e)[i] = r10[c][i]
      /\ Append(r10[c], e)[Len(r10[c]) + 1] = e
  BY <1>2, <1>4
<1>8. /\ r10'[c] = Append(r10[c], e) /\ r8'[c] = "input"
      /\ \A b \in UdpClients : b # c => r10'[b] = r10[b] /\ r8'[b] = r8[b]
      /\ r10' \in [UdpClients -> Seq(S)] /\ r8' \in [UdpClients -> {"input", "recv", "left"}]
  BY <1>1, <1>2, <1>6, <1>7
<1>9. Udp!UnderWay' \subseteq Udp!UnderWay /\ r6' \subseteq Udp!Datagram
  BY <1>1, <1>2 DEF Udp!UnderWay, Udp!Reply
<1>10. r7 = 0 => Udp!UnderWay' \subseteq Udp!UnderWay \ {d}
  BY <1>1 DEF Udp!UdpInv, Udp!ReplyOnce, Udp!UnderWay, Udp!Reply
<1>11. Udp!TypeOK'
  BY <1>1, <1>8, <1>9 DEF Udp!UdpInv, Udp!TypeOK
<1>12. Udp!QuestionsKept'
  BY <1>1, <1>9 DEF Udp!UdpInv, Udp!QuestionsKept, Udp!Asker
<1>13. Udp!OneUnderWay'
  <2>1. r7 = 0 => \A x \in Udp!UnderWay :
                      /\ r8[Udp!Asker(x)] = "recv" /\ x.number = Len(r9[Udp!Asker(x)])
                      /\ \A y \in Udp!UnderWay : Udp!Asker(y) = Udp!Asker(x) => y = x
    BY DEF Udp!UdpInv, Udp!OneUnderWay
  <2>2. r7 = 0 => \A x \in Udp!UnderWay' : Udp!Asker(x) \in UdpClients /\ Udp!Asker(x) # c
    BY <1>3, <1>10, <2>1 DEF Udp!UdpInv, Udp!QuestionsKept
  <2>3. r7 = 0 => \A x \in Udp!UnderWay' :
                      /\ r8'[Udp!Asker(x)] = "recv" /\ x.number = Len(r9[Udp!Asker(x)])
                      /\ \A y \in Udp!UnderWay' : Udp!Asker(y) = Udp!Asker(x) => y = x
    BY <1>8, <1>10, <2>1, <2>2
  <2> QED BY <1>1, <2>3 DEF Udp!OneUnderWay, Udp!Asker
<1>14. Udp!ReplyOnce'
  BY <1>1 DEF Udp!UdpInv, Udp!ReplyOnce, Udp!Reply
<1>15. Udp!AskedInTurn'
  <2>1. \A b \in UdpClients : IF r8[b] = "input" THEN Len(r9[b]) = Len(r10[b])
                             ELSE Len(r9[b]) = Len(r10[b]) + 1
    BY DEF Udp!UdpInv, Udp!AskedInTurn
  <2>2. \A b \in UdpClients : IF r8'[b] = "input" THEN Len(r9[b]) = Len(r10'[b])
                             ELSE Len(r9[b]) = Len(r10'[b]) + 1
    BY <1>5, <1>7, <1>8, <2>1
  <2> QED BY <1>1, <2>2 DEF Udp!AskedInTurn
<1>16. \A v : Udp!Answer(v)' = Udp!Answer(v)
  BY <1>1, AnswerStays
<1>17. {Udp!Answer(v) : v \in Words}' = {Udp!Answer(v) : v \in Words}
  BY <1>16
<1>18. S' = S
  BY <1>17 DEF S
<1>19. Udp!AnswersKept'
  <2>1. ASSUME NEW b \in UdpClients, NEW i \in DOMAIN r10'[b]
        PROVE  /\ r10'[b][i].number <= i
               /\ r10'[b][i].text = Udp!Answer(r9'[b][r10'[b][i].number])
               /\ r7 = 0 => r10'[b][i].number = i
    <3>1. \A j \in DOMAIN r10[b] :
             /\ r10[b][j].number <= j
             /\ r10[b][j].text = Udp!Answer(r9[b][r10[b][j].number])
             /\ r7 = 0 => r10[b][j].number = j
      <4>1. Udp!AnswersKept
        BY DEF Udp!UdpInv
      <4> QED BY <4>1, Zenon DEF Udp!AnswersKept
    <3>2. CASE b # c \/ i # Len(r10[c]) + 1
      <4>1. i \in DOMAIN r10[b] /\ r10'[b][i] = r10[b][i]
        <5>1. CASE b # c
          BY <1>8, <5>1
        <5>2. CASE b = c
          <6>1. i \in 1..(Len(r10[c]) + 1) /\ i # Len(r10[c]) + 1
            BY <1>5, <1>7, <1>8, <3>2, <5>2
          <6>2. i \in 1..Len(r10[c])
            BY <1>5, <6>1
          <6>3. r10[c] \in Seq(S)
            BY <1>2
          <6>4. i \in DOMAIN r10[c]
            BY <6>2, <6>3
          <6> QED BY <1>7, <1>8, <5>2, <6>2, <6>4
        <5> QED BY <5>1, <5>2
      <4> QED BY <1>1, <3>1, <4>1, Zenon
    <3>3. CASE b = c /\ i = Len(r10[c]) + 1
      <4>1. r10'[b][i] = e
        BY <1>7, <1>8, <3>3
      <4>2. e.text = Udp!Answer(r9'[c][d.number]) /\ e.number = d.number
        BY <1>1, <1>4
      <4>3. d.number <= i
        BY <1>3, <1>5, <3>3
      <4>4. r7 = 0 => d.number = Len(r9[c])
        BY <1>3 DEF Udp!UdpInv, Udp!OneUnderWay
      <4> QED BY <1>5, <3>3, <4>1, <4>2, <4>3, <4>4
    <3> QED BY <3>2, <3>3
  <2> QED BY <1>1, <1>16, <2>1, ZenonT(40) DEF Udp!AnswersKept
<1>20. Udp!DictLoaded'
  BY <1>1, DictStays DEF Udp!UdpInv
<1>21. r10' \in [UdpClients -> Seq([text : {Udp!Answer(v) : v \in Words}, number : 1..MaxAsks])]'
  BY <1>8, <1>18 DEF S
<1> QED BY <1>1, <1>2, <1>11, <1>12, <1>13, <1>14, <1>15, <1>19, <1>20, <1>21 DEF Udp!UdpInv

LEMMA UdpStep ==
  ASSUME Udp!UdpInv, Udp!Next
  PROVE  Udp!UdpInv'
<1>1. Udp!NoText = "nothing"
  BY DEF Udp!NoText
<1> QED BY <1>1, ServerInitKeeps, ReceiveDatagramKeeps, SendDatagramKeeps, NetKeeps, DictClientKeeps,
           EchoClientKeeps, ClientReceiveDatagramKeeps DEF Udp!Next

(* What the user is promised: of a word's lines in the file the dictionary has   *)
(* the first whole one, so the server dies for none of them.                   *)
LEMMA UdpSays ==
  ASSUME Udp!UdpInv
  PROVE  Udp!OwnAnswers
<1>1. /\ Udp!AnswersKept /\ Udp!DictLoaded /\ r2 = DictFile
  BY DEF Udp!UdpInv
<1>2. DOMAIN r2 = 1..5
  BY <1>1 DEF DictFile
<1>3. ASSUME r4 = "crashed", NEW i \in DOMAIN r2, Udp!Valid(r2[i]), r2[i][1] = r5.word
      PROVE  FALSE
  <2> DEFINE T == {k \in DOMAIN r2 : Udp!Valid(r2[k]) /\ r2[k][1] = r5.word}
  <2>1. T \subseteq Nat /\ T # {}
    BY <1>2, <1>3
  <2>2. PICK k \in T : \A j \in T : k <= j
    BY <2>1, Smallest
  <2>3. k \in DOMAIN r2 /\ Udp!Valid(r2[k]) /\ r2[k][1] = r5.word
    OBVIOUS
  <2>4. \A j \in 1..(k - 1) : Udp!Valid(r2[j]) => r2[j][1] # r2[k][1]
    BY <1>2, <2>2, <2>3
  <2> HIDE DEF T
  <2>5. r2[k] \in Udp!LoadDict(r2)
    BY <2>3, <2>4, Zenon DEF Udp!LoadDict
  <2>6. r3 = Udp!LoadDict(r2) /\ ~Udp!Known(r5.word)
    BY <1>1, <1>3 DEF Udp!DictLoaded
  <2> QED BY <2>3, <2>5, <2>6 DEF Udp!Known
<1>4. ASSUME r4 # "init", r1 = "dict", NEW i \in DOMAIN r2
      PROVE  (Udp!Valid(r2[i]) /\ \A j \in 1..(i - 1) : Udp!Valid(r2[j]) => r2[j][1] # r2[i][1])
             <=> (r2[i] \in r3 /\ \A j \in 1..(i - 1) : r2[j] # r2[i])
  <2> DEFINE First(k) == Udp!Valid(r2[k]) /\ \A j \in 1..(k - 1) : Udp!Valid(r2[j]) => r2[j][1] # r2[k][1]
  <2>1. r3 = Udp!LoadDict(r2)
    BY <1>1, <1>4 DEF Udp!DictLoaded
  <2>2. r2[i] \in r3 <=> \E k \in DOMAIN r2 : First(k) /\ r2[k] = r2[i]
    BY <2>1, Zenon DEF Udp!LoadDict
  <2>3. ASSUME First(i)
        PROVE  r2[i] \in r3 /\ \A j \in 1..(i - 1) : r2[j] # r2[i]
    BY <2>2, <2>3
  <2>4. ASSUME r2[i] \in r3, \A j \in 1..(i - 1) : r2[j] # r2[i]
        PROVE  First(i)
    <3>1. PICK k \in DOMAIN r2 : First(k) /\ r2[k] = r2[i]
      BY <2>2, <2>4
    <3>2. ~ (k < i) /\ ~ (i < k)
      BY <1>2, <2>4, <3>1
    <3> QED BY <1>2, <3>1, <3>2
  <2> QED BY <2>3, <2>4
<1> QED BY <1>1, <1>3, <1>4, Zenon DEF Udp!OwnAnswers, Udp!AnswersKept

-----------------------------------------------------------------------------
(* The sessions: r1 number, r2 sessions, r3 hpc, r4 url, r5 sid, r6 user,       *)
(* r7 newid, r8 cookie, r9 passwd, r10 answered, r11 issued, r12 cut, r13 raced, *)
(* r14 collided, r15 requests, r16 restarts, r17 broken.                       *)

LEMMA SessionCardinality ==
  \A S : Session!Cardinality(S) = Cardinality(S) /\ (Session!IsFiniteSet(S) <=> IsFiniteSet(S))
BY DEF Session!Cardinality, Cardinality, Session!IsFiniteSet, IsFiniteSet

LEMMA SessionInit ==
  ASSUME Session!Init
  PROVE  Session!SessionInv
<1>1. /\ r1 = 0 /\ r2 = {} /\ r3 = [b \in Browsers |-> "idle"]
      /\ r4 = [b \in Browsers |-> ""] /\ r5 = [b \in Browsers |-> "none"]
      /\ r6 = [b \in Browsers |-> 0] /\ r7 = [b \in Browsers |-> "none"]
      /\ r8 = [b \in Browsers |-> "none"] /\ r15 = 0
  BY DEF Session!Init, Session!None
<1>2. \A b \in Browsers : /\ r3[b] = "idle" /\ r7[b] = "none" /\ r8[b] = "none"
                          /\ ~ (r3[b] = "insert") /\ ~ (r3[b] = "count") /\ ~ (r3[b] = "handle")
                          /\ ~ (r3[b] = "add")
  BY <1>1
<1>3. \A b \in Browsers : ~ r10[b]
  BY Zenon DEF Session!Init
<1>4. Session!TypeOK /\ r15 \in 0..MaxRequests /\ r6 \in [Browsers -> 0..MaxRequests]
      /\ r7 \in [Browsers -> Ids \cup {"none"}] /\ r16 \in 0..MaxRestarts
  <2>1. 0 \in 0..MaxRequests /\ 0 \in 0..MaxRestarts
    BY SessionAssumption
  <2>2. r16 = 0
    BY DEF Session!Init
  <2> QED BY <1>1, <2>1, <2>2 DEF Session!TypeOK, Session!None
<1>5. Session!Counting = {}
  BY <1>2 DEF Session!Counting
<1>6. Session!NumberBounded
  <2>1. IsFiniteSet({}) /\ Cardinality({}) = 0
    BY FS_EmptySet
  <2>2. Session!IsFiniteSet({}) /\ Session!Cardinality({}) = 0
    BY <2>1, SessionCardinality, Zenon
  <2>3. Session!IsFiniteSet(Session!Counting) /\ Session!Cardinality(Session!Counting) = 0
    BY <1>5, <2>2, Zenon
  <2>4. 0 + 0 <= 0
    OBVIOUS
  <2> QED BY <1>1, <1>2, <2>3, <2>4, Zenon DEF Session!NumberBounded
<1>7. Session!IdsMade
  BY <1>1, <1>2 DEF Session!IdsMade, Session!None
<1>8. Session!IdsOwn /\ Session!NumbersOwn
  BY <1>1, <1>2 DEF Session!IdsOwn, Session!NumbersOwn, Session!None
<1>9. \A b \in Browsers \ r12 : Session!LoggedInOnce(b)
  BY <1>1, <1>2 DEF Session!LoggedInOnce
<1>10. Session!SessionsOwned
  BY <1>1, <1>3 DEF Session!SessionsOwned
<1> QED BY <1>4, <1>6, <1>7, <1>8, <1>9, <1>10 DEF Session!SessionInv, Session!None

(* What the invariant says of the state's types, as every action needs it.      *)
LEMMA SessionTypes ==
  ASSUME Session!SessionInv
  PROVE  /\ r1 \in 0..MaxRequests /\ r15 \in 0..MaxRequests
         /\ r2 \subseteq [id : Ids, user : 0..MaxRequests, owner : Browsers]
         /\ r3 \in [Browsers -> {"idle", "handle", "count", "add", "insert", "find", "respond"}]
         /\ r4 \in [Browsers -> {"/login", "/", "/a/b"} \cup {""}]
         /\ r5 \in [Browsers -> Ids \cup {"none"}] /\ r8 \in [Browsers -> Ids \cup {"none"}]
         /\ r6 \in [Browsers -> 0..MaxRequests] /\ r7 \in [Browsers -> Ids \cup {"none"}]
BY DEF Session!SessionInv, Session!TypeOK, Session!None, Session!Urls

LEMMA SessionNumbers ==
  ASSUME Session!SessionInv
  PROVE  /\ MaxRequests \in Nat /\ r1 \in Nat /\ r15 \in Nat /\ r15 <= MaxRequests
         /\ \A b \in Browsers : r6[b] \in Nat
<1>1. MaxRequests \in Nat
  BY SessionAssumption
<1>2. /\ r1 \in 0..MaxRequests /\ r15 \in 0..MaxRequests
      /\ \A b \in Browsers : r6[b] \in 0..MaxRequests
  BY SessionTypes
<1> QED BY <1>1, <1>2

(* How many count changes with the one that begins, or is done.                 *)
LEMMA CountingChanges ==
  ASSUME Session!SessionInv, NEW b \in Browsers, NEW pc,
         r3' = [r3 EXCEPT ![b] = pc]
  PROVE  /\ Session!IsFiniteSet(Session!Counting')
         /\ Session!Cardinality(Session!Counting) \in Nat
         /\ Session!Cardinality(Session!Counting') =
                IF pc \in {"handle", "count"} /\ r3[b] \notin {"handle", "count"}
                THEN Session!Cardinality(Session!Counting) + 1
                ELSE IF pc \notin {"handle", "count"} /\ r3[b] \in {"handle", "count"}
                     THEN Session!Cardinality(Session!Counting) - 1
                     ELSE Session!Cardinality(Session!Counting)
<1> DEFINE C == Session!Counting
<1>1. Session!IsFiniteSet(C)
  BY DEF Session!SessionInv, Session!NumberBounded
<1>2. IsFiniteSet(C) /\ Cardinality(C) \in Nat
  BY <1>1, SessionCardinality, FS_CardinalityType
<1>3. b \in C <=> r3[b] \in {"handle", "count"}
  BY DEF Session!Counting
<1>4. Session!Counting' = IF pc \in {"handle", "count"} THEN C \cup {b} ELSE C \ {b}
  BY SessionTypes DEF Session!Counting
<1> HIDE DEF C
<1>5. IsFiniteSet(C \cup {b}) /\ Cardinality(C \cup {b}) = IF b \in C THEN Cardinality(C) ELSE Cardinality(C) + 1
  BY <1>2, FS_AddElement
<1>6. IsFiniteSet(C \ {b}) /\ Cardinality(C \ {b}) = IF b \in C THEN Cardinality(C) - 1 ELSE Cardinality(C)
  BY <1>2, FS_RemoveElement
<1>7. /\ Session!Cardinality(C) = Cardinality(C)
      /\ Session!Cardinality(Session!Counting') = Cardinality(Session!Counting')
      /\ Session!IsFiniteSet(Session!Counting') <=> IsFiniteSet(Session!Counting')
  BY SessionCardinality, Zenon
<1>8. CASE pc \in {"handle", "count"}
  BY <1>2, <1>3, <1>4, <1>5, <1>7, <1>8 DEF C
<1>9. CASE pc \notin {"handle", "count"}
  BY <1>2, <1>3, <1>4, <1>6, <1>7, <1>9 DEF C
<1> QED BY <1>8, <1>9

LEMMA CountingShrinks ==
  ASSUME Session!SessionInv, NEW b \in Browsers, NEW pc,
         r3' = [r3 EXCEPT ![b] = pc],
         pc \notin {"handle", "count"}, r3[b] \in {"handle", "count"}
  PROVE  /\ Session!IsFiniteSet(Session!Counting')
         /\ Session!Cardinality(Session!Counting) \in Nat
         /\ Session!Cardinality(Session!Counting') = Session!Cardinality(Session!Counting) - 1
BY CountingChanges

LEMMA CountingStays ==
  ASSUME Session!SessionInv, NEW b \in Browsers, NEW pc,
         r3' = [r3 EXCEPT ![b] = pc],
         pc \notin {"handle", "count"}, r3[b] \notin {"handle", "count"}
  PROVE  /\ Session!IsFiniteSet(Session!Counting')
         /\ Session!Cardinality(Session!Counting') = Session!Cardinality(Session!Counting)
BY CountingChanges

(* Other pages, and the cookies of the other server, disturb nothing.           *)
LEMMA LookSessionKeeps ==
  ASSUME Session!SessionInv, NEW b \in Browsers,
         Session!GetSession(b) \/ Session!EndFind(b)
  PROVE  Session!SessionInv'
<1>1. /\ r3[b] \in {"handle", "find"}
      /\ \E pc \in {"find", "respond"} : r3' = [r3 EXCEPT ![b] = pc]
      /\ UNCHANGED <<r1, r2, r4, r5, r6, r7, r8, r9, r10, r11, r12, r13, r14, r15, r16>>
  BY DEF Session!GetSession, Session!EndFind, Session!To, Session!task, Session!history
<1>2. PICK pc \in {"find", "respond"} : r3' = [r3 EXCEPT ![b] = pc]
  BY <1>1
<1>3. /\ r3'[b] = pc /\ \A c \in Browsers : c # b => r3'[c] = r3[c]
      /\ r3' \in [Browsers -> {"idle", "handle", "count", "add", "insert", "find", "respond"}]
  BY <1>2, SessionTypes
<1>4. Session!TypeOK'
  BY <1>1, <1>3 DEF Session!SessionInv, Session!TypeOK
<1>5. Session!NumberBounded'
  <2>1. /\ Session!IsFiniteSet(Session!Counting') /\ Session!Cardinality(Session!Counting) \in Nat
        /\ Session!Cardinality(Session!Counting') \in {Session!Cardinality(Session!Counting),
                                                        Session!Cardinality(Session!Counting) - 1}
    BY <1>2, CountingChanges
  <2> QED BY <1>1, <1>3, <2>1, SessionNumbers DEF Session!SessionInv, Session!NumberBounded
<1>6. Session!IdsMade'
  BY <1>1, <1>3 DEF Session!SessionInv, Session!IdsMade, Session!Found
<1>7. Session!IdsOwn => Session!IdsOwn'
  BY <1>1, <1>3 DEF Session!IdsOwn
<1>8. Session!NumbersOwn => Session!NumbersOwn'
  BY <1>1, <1>3 DEF Session!NumbersOwn
<1>9. r7[b] = "none"
  BY <1>1 DEF Session!SessionInv, Session!IdsMade, Session!None
<1>10. \A c \in Browsers : Session!LoggedInOnce(c) => Session!LoggedInOnce(c)'
  BY <1>1, <1>3, <1>9 DEF Session!LoggedInOnce, Session!None
<1>11. Session!SessionsOwned'
  BY <1>1 DEF Session!SessionInv, Session!SessionsOwned, Session!Found
<1> QED BY <1>1, <1>4, <1>5, <1>6, <1>7, <1>8, <1>10, <1>11 DEF Session!SessionInv

LEMMA SetCookiesKeeps ==
  ASSUME Session!SessionInv, NEW b \in Browsers, Session!SetCookies(b)
  PROVE  Session!SessionInv'
<1>1. UNCHANGED <<r1, r2, r3, r4, r5, r6, r7, r8, r10, r11, r12, r13, r14, r15, r16>>
  BY DEF Session!SetCookies, Session!task, Session!history
<1>2. Session!TypeOK' /\ Session!SessionsOwned'
  BY <1>1 DEF Session!SessionInv, Session!TypeOK, Session!SessionsOwned, Session!Found
<1>3. Session!NumberBounded' /\ Session!IdsMade'
  BY <1>1 DEF Session!SessionInv, Session!NumberBounded, Session!Counting, Session!IdsMade, Session!Found
<1>4. (Session!IdsOwn => Session!IdsOwn') /\ (Session!NumbersOwn => Session!NumbersOwn')
  BY <1>1 DEF Session!IdsOwn, Session!NumbersOwn
<1>5. \A c \in Browsers : Session!LoggedInOnce(c) => Session!LoggedInOnce(c)'
  BY <1>1 DEF Session!LoggedInOnce
<1> QED BY <1>1, <1>2, <1>3, <1>4, <1>5 DEF Session!SessionInv

(* A request arrives: whole, it brings the cookie to /login.                     *)
LEMMA DeserializeKeeps ==
  ASSUME Session!SessionInv, NEW b \in Browsers, NEW u \in {"/login", "/", "/a/b"},
         NEW got \in {"whole", "headless", "part"}, Session!Deserialize(b, u, got)
  PROVE  Session!SessionInv'
<1>1. /\ r3[b] = "idle" /\ r15 < MaxRequests /\ r15' = r15 + 1
      /\ r4' = [r4 EXCEPT ![b] = IF got = "part" THEN "" ELSE u]
      /\ r5' = [r5 EXCEPT ![b] = IF got = "whole" THEN Session!SessionId(b, u) ELSE "none"]
      /\ r12' = IF got = "whole" THEN r12 ELSE r12 \cup {b}
      /\ r3' = [r3 EXCEPT ![b] = "handle"]
      /\ UNCHANGED <<r1, r2, r6, r7, r8, r9, r10, r11, r13, r14, r16>>
  BY DEF Session!Deserialize, Session!To, Session!None
<1>13. /\ r3[b] = "idle" /\ r15 < MaxRequests /\ r15' = r15 + 1 /\ r3' = [r3 EXCEPT ![b] = "handle"]
       /\ UNCHANGED <<r1, r2, r6, r7, r8, r9, r10, r11, r13, r14, r16>>
  BY <1>1
<1>2. Session!SessionId(b, u) \in {r8[b], "none"} /\ (u = "/login" => Session!SessionId(b, u) = r8[b])
  BY DEF Session!SessionId, Session!None
<1>3. /\ r3'[b] = "handle" /\ \A c \in Browsers : c # b => r3'[c] = r3[c] /\ r4'[c] = r4[c] /\ r5'[c] = r5[c]
      /\ r3' \in [Browsers -> {"idle", "handle", "count", "add", "insert", "find", "respond"}]
      /\ r4' \in [Browsers -> {"/login", "/", "/a/b"} \cup {""}]
      /\ r5' \in [Browsers -> Ids \cup {"none"}]
      /\ got = "whole" => r4'[b] = u /\ r5'[b] = Session!SessionId(b, u)
  BY <1>1, <1>2, SessionTypes
<1>14. /\ r3'[b] = "handle" /\ \A c \in Browsers : c # b => r3'[c] = r3[c]
  BY <1>3
<1>4. r15' \in 0..MaxRequests
  BY <1>13, SessionNumbers
<1>5. Session!TypeOK'
  BY <1>1, <1>3 DEF Session!SessionInv, Session!TypeOK, Session!None, Session!Urls
<1>6. Session!NumberBounded'
  <2>1. /\ Session!IsFiniteSet(Session!Counting') /\ Session!Cardinality(Session!Counting) \in Nat
        /\ Session!Cardinality(Session!Counting') = Session!Cardinality(Session!Counting) + 1
    BY <1>13, CountingChanges
  <2> QED BY <1>13, <1>14, <2>1, SessionNumbers DEF Session!SessionInv, Session!NumberBounded
<1>7. Session!IdsMade'
  BY <1>13, <1>14 DEF Session!SessionInv, Session!IdsMade, Session!Found
<1>8. Session!IdsOwn => Session!IdsOwn'
  BY <1>13, <1>14 DEF Session!IdsOwn
<1>9. Session!NumbersOwn => Session!NumbersOwn'
  BY <1>13, <1>14 DEF Session!NumbersOwn
<1>10. r7[b] = "none"
  BY <1>1 DEF Session!SessionInv, Session!IdsMade, Session!None
<1>11. ASSUME NEW c \in Browsers \ r12'
       PROVE  Session!LoggedInOnce(c)'
  <2>1. Session!LoggedInOnce(c) /\ (c = b => got = "whole")
    BY <1>1 DEF Session!SessionInv
  <2> QED BY <1>1, <1>2, <1>3, <1>10, <2>1, ZenonT(40) DEF Session!LoggedInOnce, Session!None
<1>12. Session!SessionsOwned'
  BY <1>1 DEF Session!SessionInv, Session!SessionsOwned, Session!Found
<1> QED BY <1>1, <1>4, <1>5, <1>6, <1>7, <1>8, <1>9, <1>11, <1>12 DEF Session!SessionInv

(* number++ reads; another that has read before is a race.                       *)
LEMMA ReadNumberKeeps ==
  ASSUME Session!SessionInv, NEW b \in Browsers, Session!ReadNumber(b)
  PROVE  Session!SessionInv'
<1>1. /\ r3[b] = "handle" /\ r4[b] = "/login" /\ r5[b] = "none"
      /\ r6' = [r6 EXCEPT ![b] = r1]
      /\ r3' = [r3 EXCEPT ![b] = "count"]
      /\ UNCHANGED <<r1, r2, r4, r5, r7, r8, r9, r10, r11, r12, r14, r15, r16>>
  BY DEF Session!ReadNumber, Session!To, Session!LogsIn, Session!None
<1>2. ~ r13' => ~ r13 /\ \A c \in Browsers : c # b => ~ (r3[c] = "count")
  BY Zenon DEF Session!ReadNumber
<1>3. /\ r3'[b] = "count" /\ r6'[b] = r1
      /\ \A c \in Browsers : c # b => r3'[c] = r3[c] /\ r6'[c] = r6[c]
      /\ r3' \in [Browsers -> {"idle", "handle", "count", "add", "insert", "find", "respond"}]
      /\ r6' \in [Browsers -> 0..MaxRequests]
  BY <1>1, SessionTypes
<1>4. Session!TypeOK'
  BY <1>1, <1>3 DEF Session!SessionInv, Session!TypeOK
<1>5. Session!NumberBounded'
  <2>1. /\ Session!IsFiniteSet(Session!Counting') /\ Session!Cardinality(Session!Counting) \in Nat
        /\ Session!Cardinality(Session!Counting') = Session!Cardinality(Session!Counting)
    BY <1>1, CountingChanges
  <2> QED BY <1>1, <1>3, <2>1, SessionNumbers DEF Session!SessionInv, Session!NumberBounded
<1>6. Session!IdsMade'
  BY <1>1, <1>3 DEF Session!SessionInv, Session!IdsMade, Session!Found
<1>7. Session!IdsOwn => Session!IdsOwn'
  BY <1>1, <1>3 DEF Session!IdsOwn
<1>8. ~ r13' => Session!NumbersOwn'
  <2>1. ASSUME ~ r13'
        PROVE  Session!NumbersOwn /\ \A c \in Browsers : c # b => ~ (r3[c] = "count")
    BY <1>2, <2>1 DEF Session!SessionInv
  <2> QED BY <1>1, <1>3, <2>1 DEF Session!NumbersOwn
<1>9. \A c \in Browsers : Session!LoggedInOnce(c) => Session!LoggedInOnce(c)'
  BY <1>1, <1>3 DEF Session!LoggedInOnce, Session!None
<1>10. Session!SessionsOwned'
  <2>1. r13 => r13'
    BY Zenon DEF Session!ReadNumber
  <2> QED BY <1>1, <2>1 DEF Session!SessionInv, Session!SessionsOwned, Session!Found
<1> QED BY <1>1, <1>3, <1>4, <1>5, <1>6, <1>7, <1>8, <1>9, <1>10 DEF Session!SessionInv

LEMMA WriteNumberKeeps ==
  ASSUME Session!SessionInv, NEW b \in Browsers, Session!WriteNumber(b)
  PROVE  Session!SessionInv'
<1>1. /\ r3[b] = "count" /\ r1' = r6[b] + 1
      /\ r3' = [r3 EXCEPT ![b] = "add"]
      /\ UNCHANGED <<r2, r4, r5, r6, r7, r8, r9, r10, r11, r12, r13, r14, r15, r16>>
  BY DEF Session!WriteNumber, Session!To, Session!history
<1>2. /\ r3'[b] = "add" /\ \A c \in Browsers : c # b => r3'[c] = r3[c]
      /\ r3' \in [Browsers -> {"idle", "handle", "count", "add", "insert", "find", "respond"}]
  BY <1>1, SessionTypes
<1>3. /\ Session!IsFiniteSet(Session!Counting') /\ Session!Cardinality(Session!Counting) \in Nat
      /\ Session!Cardinality(Session!Counting') = Session!Cardinality(Session!Counting) - 1
      /\ Session!Cardinality(Session!Counting') \in Nat
  <2>3. /\ r3[b] \in {"handle", "count"} /\ "add" \notin {"handle", "count"}
        /\ r3' = [r3 EXCEPT ![b] = "add"]
    BY <1>1
  <2>1. /\ Session!IsFiniteSet(Session!Counting') /\ Session!Cardinality(Session!Counting) \in Nat
        /\ Session!Cardinality(Session!Counting') = Session!Cardinality(Session!Counting) - 1
    BY <2>3, CountingShrinks, Zenon
  <2>2. Session!Cardinality(Session!Counting') \in Nat
    BY <2>1, SessionCardinality, FS_CardinalityType
  <2> QED BY <2>1, <2>2
<1>4. /\ Session!NumberBounded' /\ r1' \in 0..MaxRequests
  <2>1. /\ r6[b] + Session!Cardinality(Session!Counting) <= r15
        /\ \A c \in Browsers : r3[c] = "count" => r6[c] + Session!Cardinality(Session!Counting) <= r15
    BY <1>1 DEF Session!SessionInv, Session!NumberBounded
  <2>2. r1' + Session!Cardinality(Session!Counting') <= r15 /\ r1' \in 0..MaxRequests
    BY <1>1, <1>3, <2>1, SessionNumbers
  <2>3. \A c \in Browsers : r3'[c] = "count" => r6[c] + Session!Cardinality(Session!Counting') <= r15
    BY <1>2, <1>3, <2>1, SessionNumbers
  <2> QED BY <1>1, <1>3, <2>2, <2>3 DEF Session!NumberBounded
<1>5. Session!TypeOK'
  BY <1>1, <1>2, <1>4 DEF Session!SessionInv, Session!TypeOK
<1>6. Session!IdsMade'
  BY <1>1, <1>2 DEF Session!SessionInv, Session!IdsMade, Session!Found
<1>7. Session!IdsOwn => Session!IdsOwn'
  BY <1>1, <1>2 DEF Session!IdsOwn
<1>8. ASSUME Session!NumbersOwn
      PROVE  Session!NumbersOwn'
  <2>1. r1' = r1 + 1 /\ r6[b] = r1 /\ r1 \in Nat
    BY <1>1, <1>8, SessionNumbers DEF Session!NumbersOwn
  <2>2. \A s \in r2 : s.user \in Nat /\ s.user < r1
    <3>1. \A s \in r2 : s.user \in 0..MaxRequests
      BY SessionTypes
    <3>2. \A s \in r2 : s.user < r1
      BY <1>8 DEF Session!NumbersOwn
    <3> QED BY <3>1, <3>2, SessionNumbers
  <2>3. \A s \in r2 : s.user < r1' /\ s.user # r6[b]
    BY <2>1, <2>2
  <2>4. \A c \in Browsers : c # b => r3'[c] # "count"
    BY <1>1, <1>2, <1>8 DEF Session!NumbersOwn
  <2>5. \A c \in Browsers : c # b /\ r3'[c] \in {"add", "insert"} =>
           /\ r6[c] < r1 /\ r6[c] \in Nat /\ \A s \in r2 : s.user # r6[c]
    BY <1>2, <1>8, SessionNumbers DEF Session!NumbersOwn
  <2>6. \A c \in Browsers : r3'[c] \in {"add", "insert"} =>
           /\ r6[c] < r1' /\ \A s \in r2 : s.user # r6[c]
    BY <2>1, <2>3, <2>5
  <2>7. \A c, e \in Browsers : c # e /\ {r3'[c], r3'[e]} \subseteq {"add", "insert"} => r6[c] # r6[e]
    <3>1. \A c \in Browsers : c # b /\ r3'[c] \in {"add", "insert"} => r6[c] # r6[b]
      BY <2>1, <2>5
    <3>2. \A c, e \in Browsers : c # b /\ e # b /\ c # e /\ {r3'[c], r3'[e]} \subseteq {"add", "insert"} => r6[c] # r6[e]
      BY <1>2, <1>8 DEF Session!NumbersOwn
    <3> QED BY <3>1, <3>2
  <2>8. r3'[b] # "count"
    BY <1>2
  <2> QED BY <1>1, <2>3, <2>4, <2>6, <2>7, <2>8 DEF Session!NumbersOwn
<1>9. \A c \in Browsers : Session!LoggedInOnce(c) => Session!LoggedInOnce(c)'
  BY <1>1, <1>2 DEF Session!LoggedInOnce, Session!None
<1>10. Session!SessionsOwned'
  BY <1>1 DEF Session!SessionInv, Session!SessionsOwned, Session!Found
<1> QED BY <1>1, <1>4, <1>5, <1>6, <1>7, <1>8, <1>9, <1>10 DEF Session!SessionInv

LEMMA AddSessionKeeps ==
  ASSUME Session!SessionInv, NEW b \in Browsers, NEW id \in Ids, Session!AddSession(b, id)
  PROVE  Session!SessionInv'
<1>1. /\ r3[b] = "add" /\ r7' = [r7 EXCEPT ![b] = id] /\ r11' = r11 \cup {id}
      /\ r3' = [r3 EXCEPT ![b] = "insert"]
      /\ UNCHANGED <<r1, r2, r4, r5, r6, r8, r9, r10, r12, r13, r15, r16>>
  BY DEF Session!AddSession, Session!To
<1>2. ~ r14' => ~ r14 /\ id \notin r11
  BY Zenon DEF Session!AddSession
<1>3. /\ r3'[b] = "insert" /\ r7'[b] = id /\ id # "none"
      /\ \A c \in Browsers : c # b => r3'[c] = r3[c] /\ r7'[c] = r7[c]
      /\ r3' \in [Browsers -> {"idle", "handle", "count", "add", "insert", "find", "respond"}]
      /\ r7' \in [Browsers -> Ids \cup {"none"}]
  BY <1>1, SessionTypes, SessionAssumption
<1>4. Session!TypeOK'
  BY <1>1, <1>3 DEF Session!SessionInv, Session!TypeOK
<1>5. Session!NumberBounded'
  <2>3. /\ r3[b] \notin {"handle", "count"} /\ "insert" \notin {"handle", "count"}
        /\ r3' = [r3 EXCEPT ![b] = "insert"]
    BY <1>1
  <2>1. /\ Session!IsFiniteSet(Session!Counting')
        /\ Session!Cardinality(Session!Counting') = Session!Cardinality(Session!Counting)
    BY <2>3, CountingStays, Zenon
  <2> QED BY <1>1, <1>3, <2>1, SessionNumbers DEF Session!SessionInv, Session!NumberBounded
<1>6. Session!IdsMade'
  BY <1>1, <1>3 DEF Session!SessionInv, Session!IdsMade, Session!Found, Session!None
<1>7. ~ r14' => Session!IdsOwn'
  <2>1. ASSUME ~ r14'
        PROVE  Session!IdsOwn /\ id \notin r11
    BY <1>2, <2>1 DEF Session!SessionInv
  <2>2. /\ \A c \in Browsers : r7[c] # "none" => r7[c] \in r11
        /\ \A c \in Browsers : r8[c] # "none" => r8[c] \in r11
        /\ \A s \in r2 : s.id \in r11
    BY DEF Session!SessionInv, Session!IdsMade, Session!None
  <2> QED BY <1>1, <1>3, <2>1, <2>2 DEF Session!IdsOwn, Session!None
<1>8. Session!NumbersOwn => Session!NumbersOwn'
  BY <1>1, <1>3 DEF Session!NumbersOwn
<1>9. \A c \in Browsers : Session!LoggedInOnce(c) => Session!LoggedInOnce(c)'
  BY <1>1, <1>3 DEF Session!LoggedInOnce, Session!None
<1>10. Session!SessionsOwned'
  <2>1. ~ r14' => ~ r14
    BY <1>2
  <2> QED BY <1>1, <2>1 DEF Session!SessionInv, Session!SessionsOwned, Session!Found
<1> QED BY <1>1, <1>3, <1>4, <1>5, <1>6, <1>7, <1>8, <1>9, <1>10 DEF Session!SessionInv, Session!None

(* The session is in the map from now on; it is a second one of its browser only *)
(* if a request or an answer was lost.                                        *)
LEMMA InsertSessionKeeps ==
  ASSUME Session!SessionInv, NEW b \in Browsers, Session!Insert(b)
  PROVE  Session!SessionInv'
<1> DEFINE s == [id |-> r7[b], user |-> r6[b], owner |-> b]
<1>1. /\ r3[b] = "insert" /\ r2' = IF Session!Found(r7[b]) THEN r2 ELSE r2 \cup {s}
      /\ r3' = [r3 EXCEPT ![b] = "respond"]
      /\ UNCHANGED <<r1, r4, r5, r6, r7, r8, r9, r10, r11, r12, r13, r14, r15, r16>>
  BY DEF Session!Insert, Session!To, Session!history
<1>2. /\ r3'[b] = "respond" /\ \A c \in Browsers : c # b => r3'[c] = r3[c]
      /\ r3' \in [Browsers -> {"idle", "handle", "count", "add", "insert", "find", "respond"}]
  BY <1>1, SessionTypes
<1>3. r7[b] # "none" /\ r7[b] \in r11 /\ r7[b] \in Ids
  BY <1>1, SessionTypes DEF Session!SessionInv, Session!IdsMade, Session!None
<1>4. /\ s.id = r7[b] /\ s.user = r6[b] /\ s.owner = b
      /\ s \in [id : Ids, user : 0..MaxRequests, owner : Browsers]
  <2>1. r6[b] \in 0..MaxRequests
    BY SessionTypes
  <2> QED BY <1>3, <2>1
<1> HIDE DEF s
<1>6. r2 \subseteq r2' /\ r2' \subseteq r2 \cup {s}
  BY <1>1
<1>7. Session!Found(r7[b])'
  BY <1>1, <1>4, <1>6 DEF Session!Found
<1>8. Session!TypeOK'
  <2>1. r2' \subseteq [id : Ids, user : 0..MaxRequests, owner : Browsers]
    BY <1>4, <1>6, SessionTypes
  <2> QED BY <1>1, <1>2, <2>1 DEF Session!SessionInv, Session!TypeOK
<1>9. Session!NumberBounded'
  <2>3. /\ r3[b] \notin {"handle", "count"} /\ "respond" \notin {"handle", "count"}
        /\ r3' = [r3 EXCEPT ![b] = "respond"]
    BY <1>1
  <2>1. /\ Session!IsFiniteSet(Session!Counting')
        /\ Session!Cardinality(Session!Counting') = Session!Cardinality(Session!Counting)
    BY <2>3, CountingStays, Zenon
  <2> QED BY <1>1, <1>2, <2>1, SessionNumbers DEF Session!SessionInv, Session!NumberBounded
<1>10. \A i : Session!Found(i) => Session!Found(i)'
  BY <1>6 DEF Session!Found
<1>11. Session!IdsMade'
  <2>1. \A x \in r2' : x.id \in r11
    BY <1>3, <1>4, <1>6 DEF Session!SessionInv, Session!IdsMade
  <2>2. \A c \in Browsers : r7[c] # "none" /\ r3'[c] = "respond" => Session!Found(r7[c])'
    BY <1>1, <1>2, <1>7, <1>10 DEF Session!SessionInv, Session!IdsMade, Session!None
  <2>3. \A c \in Browsers : r8[c] # "none" /\ r16 = 0 => Session!Found(r8[c])'
    BY <1>1, <1>10 DEF Session!SessionInv, Session!IdsMade, Session!None
  <2>4. \A c \in Browsers : /\ r3'[c] = "insert" => r7[c] # "none"
                            /\ r7[c] # "none" => r3'[c] \in {"insert", "respond"} /\ r7[c] \in r11
                            /\ r8[c] # "none" => r8[c] \in r11
    BY <1>2 DEF Session!SessionInv, Session!IdsMade, Session!None
  <2>5. \A c \in Browsers : /\ r7[c] # "none" /\ r3'[c] = "respond" => \E x \in r2' : x.id = r7[c]
                            /\ r8[c] # "none" /\ r16 = 0 => \E x \in r2' : x.id = r8[c]
    BY <1>1, <2>2, <2>3 DEF Session!Found
  <2> QED BY <1>1, <2>1, <2>4, <2>5 DEF Session!IdsMade, Session!Found, Session!None
<1>12. Session!IdsOwn => Session!IdsOwn'
  BY <1>1, <1>2, <1>3, <1>4, <1>6 DEF Session!IdsOwn, Session!None
<1>13. ASSUME Session!NumbersOwn
       PROVE  Session!NumbersOwn'
  <2>1. r6[b] < r1
    BY <1>1, <1>13 DEF Session!NumbersOwn
  <2>2. \A x \in r2' : x.user < r1
    BY <1>4, <1>6, <1>13, <2>1 DEF Session!NumbersOwn
  <2>3. \A c \in Browsers : r3'[c] \in {"add", "insert"} => \A x \in r2' : x.user # r6[c]
    BY <1>1, <1>2, <1>4, <1>6, <1>13 DEF Session!NumbersOwn
  <2> QED BY <1>1, <1>2, <1>13, <2>2, <2>3 DEF Session!NumbersOwn
<1>14. ASSUME NEW c \in Browsers, Session!LoggedInOnce(c)
       PROVE  Session!LoggedInOnce(c)'
  BY <1>1, <1>2, <1>3, <1>4, <1>6, <1>14 DEF Session!LoggedInOnce, Session!None
<1>15. Session!SessionsOwned'
  <2>1. \A c \in Browsers : r10[c] /\ r8[c] # "none" /\ r16 = 0 => Session!Found(r8[c])'
    BY <1>1, <1>10 DEF Session!SessionInv, Session!SessionsOwned, Session!None
  <2>2. ~ r14 => \A c \in Browsers, x \in r2' : r8[c] = x.id => x.owner = c
    BY <1>12, <1>1 DEF Session!SessionInv, Session!IdsOwn
  <2>3. \A x, y \in r2' : x # y /\ x.user = y.user => r13
    <3>1. ~ r13 => \A x \in r2 : x.user # s.user
      BY <1>1, <1>4 DEF Session!SessionInv, Session!NumbersOwn
    <3>2. \A x, y \in r2 : x # y /\ x.user = y.user => r13
      BY DEF Session!SessionInv, Session!SessionsOwned
    <3> QED BY <1>6, <3>1, <3>2
  <2>4. \A x, y \in r2' : x # y /\ x.owner = y.owner => x.owner \in r12
    <3>1. b \notin r12 => \A x \in r2 : x.owner # b
      BY <1>1 DEF Session!SessionInv, Session!LoggedInOnce, Session!None
    <3>2. \A x, y \in r2 : x # y /\ x.owner = y.owner => x.owner \in r12
      BY DEF Session!SessionInv, Session!SessionsOwned
    <3> QED BY <1>4, <1>6, <3>1, <3>2
  <2>5. \A c \in Browsers : r10[c] /\ r8[c] # "none" /\ r16 = 0 => \E x \in r2' : x.id = r8[c]
    BY <1>1, <2>1 DEF Session!Found
  <2> QED BY <1>1, <2>2, <2>3, <2>4, <2>5, Zenon DEF Session!SessionsOwned, Session!Found, Session!None
<1> QED BY <1>1, <1>2, <1>8, <1>9, <1>11, <1>12, <1>13, <1>14, <1>15 DEF Session!SessionInv

(* The answer brings the browser its cookie, or is lost.                        *)
LEMMA ProveSessionKeeps ==
  ASSUME Session!SessionInv, NEW b \in Browsers, NEW arrives \in BOOLEAN,
         Session!ProveSession(b, arrives)
  PROVE  Session!SessionInv'
<1>1. /\ r3[b] = "respond"
      /\ r8' = IF arrives THEN [r8 EXCEPT ![b] = IF r7[b] # "none" THEN r7[b] ELSE r8[b]] ELSE r8
      /\ r12' = IF arrives THEN r12 ELSE r12 \cup {b}
      /\ r7' = [r7 EXCEPT ![b] = "none"]
      /\ r4' = [r4 EXCEPT ![b] = ""] /\ r5' = [r5 EXCEPT ![b] = "none"]
      /\ r6' = [r6 EXCEPT ![b] = 0]
      /\ r3' = [r3 EXCEPT ![b] = "idle"]
      /\ UNCHANGED <<r1, r2, r9, r11, r13, r14, r15, r16>>
  BY DEF Session!ProveSession, Session!To, Session!None
<1>2. /\ r3'[b] = "idle" /\ r7'[b] = "none" /\ r6'[b] = 0
      /\ \A c \in Browsers : c # b => /\ r3'[c] = r3[c] /\ r7'[c] = r7[c] /\ r6'[c] = r6[c]
                                      /\ r4'[c] = r4[c] /\ r5'[c] = r5[c]
      /\ r3' \in [Browsers -> {"idle", "handle", "count", "add", "insert", "find", "respond"}]
      /\ r4' \in [Browsers -> {"/login", "/", "/a/b"} \cup {""}]
      /\ r5' \in [Browsers -> Ids \cup {"none"}] /\ r7' \in [Browsers -> Ids \cup {"none"}]
  BY <1>1, SessionTypes
<1>3. /\ r8' \in [Browsers -> Ids \cup {"none"}]
      /\ \A c \in Browsers : c # b => r8'[c] = r8[c]
      /\ r8'[b] = IF arrives /\ r7[b] # "none" THEN r7[b] ELSE r8[b]
  BY <1>1, SessionTypes
<1>13. r3[b] = "respond" /\ UNCHANGED <<r1, r2, r11, r13, r14, r15, r16>>
  BY <1>1
<1>14. r12 \subseteq r12' /\ (~ arrives => b \in r12')
  BY <1>1
<1>4. r6' \in [Browsers -> 0..MaxRequests]
  <2>1. 0 \in 0..MaxRequests
    BY SessionNumbers
  <2> QED BY <1>1, <2>1, SessionTypes
<1>5. Session!TypeOK'
  BY <1>1, <1>2, <1>3 DEF Session!SessionInv, Session!TypeOK, Session!None, Session!Urls
<1>6. Session!NumberBounded'
  <2>3. /\ r3[b] \notin {"handle", "count"} /\ "idle" \notin {"handle", "count"}
        /\ r3' = [r3 EXCEPT ![b] = "idle"]
    BY <1>1
  <2>1. /\ Session!IsFiniteSet(Session!Counting')
        /\ Session!Cardinality(Session!Counting') = Session!Cardinality(Session!Counting)
    BY <2>3, CountingStays, Zenon
  <2> QED BY <1>13, <1>2, <2>1, SessionNumbers DEF Session!SessionInv, Session!NumberBounded
<1>15. /\ r3'[b] = "idle" /\ r7'[b] = "none"
       /\ \A c \in Browsers : c # b => /\ r3'[c] = r3[c] /\ r7'[c] = r7[c] /\ r6'[c] = r6[c]
                                       /\ r4'[c] = r4[c] /\ r5'[c] = r5[c] /\ r8'[c] = r8[c]
       /\ \/ arrives /\ r7[b] # "none" /\ r8'[b] = r7[b]
          \/ (~ arrives \/ r7[b] = "none") /\ r8'[b] = r8[b]
  BY <1>2, <1>3
<1>7. r7[b] # "none" => r7[b] \in r11 /\ Session!Found(r7[b])
  BY <1>13 DEF Session!SessionInv, Session!IdsMade, Session!None
<1>8. Session!IdsMade'
  <2>1. /\ \A c \in Browsers :
                /\ r3[c] = "insert" => r7[c] # "none"
                /\ r7[c] # "none" => r3[c] \in {"insert", "respond"} /\ r7[c] \in r11
                /\ r7[c] # "none" /\ r3[c] = "respond" => Session!Found(r7[c])
                /\ r8[c] # "none" => r8[c] \in r11
                /\ r8[c] # "none" /\ r16 = 0 => Session!Found(r8[c])
        /\ \A x \in r2 : x.id \in r11
    BY DEF Session!SessionInv, Session!IdsMade, Session!None
  <2>2. \A c \in Browsers :
            /\ r3'[c] = "insert" => r7'[c] # "none"
            /\ r7'[c] # "none" => r3'[c] \in {"insert", "respond"} /\ r7'[c] \in r11
            /\ r7'[c] # "none" /\ r3'[c] = "respond" => Session!Found(r7'[c])
            /\ r8'[c] # "none" => r8'[c] \in r11
            /\ r8'[c] # "none" /\ r16 = 0 => Session!Found(r8'[c])
    <3> SUFFICES ASSUME NEW c \in Browsers
                 PROVE  /\ r3'[c] = "insert" => r7'[c] # "none"
                        /\ r7'[c] # "none" => r3'[c] \in {"insert", "respond"} /\ r7'[c] \in r11
                        /\ r7'[c] # "none" /\ r3'[c] = "respond" => Session!Found(r7'[c])
                        /\ r8'[c] # "none" => r8'[c] \in r11
                        /\ r8'[c] # "none" /\ r16 = 0 => Session!Found(r8'[c])
      OBVIOUS
    <3>1. CASE c = b
      BY <1>15, <1>7, <2>1, <3>1
    <3>2. CASE c # b
      BY <1>15, <2>1, <3>2
    <3> QED BY <3>1, <3>2
  <2> QED BY <1>13, <2>1, <2>2 DEF Session!IdsMade, Session!Found, Session!None
<1>9. Session!IdsOwn => Session!IdsOwn'
  <2> SUFFICES ASSUME Session!IdsOwn
               PROVE  Session!IdsOwn'
    OBVIOUS
  <2>1. \A c, e \in Browsers : c # e /\ r7'[c] # "none" => r7'[c] # r8'[e] /\ r7'[c] # r7'[e]
    <3> SUFFICES ASSUME NEW c \in Browsers, NEW e \in Browsers, c # e, r7'[c] # "none"
                 PROVE  r7'[c] # r8'[e] /\ r7'[c] # r7'[e]
      OBVIOUS
    <3>1. c # b /\ r7'[c] = r7[c]
      BY <1>15
    <3>2. r7[c] # r8[e] /\ r7[c] # r7[e]
      BY <3>1 DEF Session!IdsOwn, Session!None
    <3> QED BY <1>15, <3>1, <3>2
  <2>2. \A c \in Browsers, s \in r2 : s.id \in {r8'[c], r7'[c]} => s.owner = c
    <3> SUFFICES ASSUME NEW c \in Browsers, NEW s \in r2, s.id \in {r8'[c], r7'[c]}
                 PROVE  s.owner = c
      OBVIOUS
    <3>1. s.id # "none"
      BY SessionTypes, SessionAssumption
    <3>2. s.id \in {r8[c], r7[c]}
      BY <1>15, <3>1
    <3> QED BY <3>2 DEF Session!IdsOwn
  <2> QED BY <1>13, <2>1, <2>2 DEF Session!IdsOwn, Session!None
<1>10. Session!NumbersOwn => Session!NumbersOwn'
  BY <1>13, <1>15 DEF Session!NumbersOwn
<1>11. ASSUME NEW c \in Browsers \ r12'
       PROVE  Session!LoggedInOnce(c)'
  <2>1. Session!LoggedInOnce(c) /\ (c = b => arrives)
    BY <1>14 DEF Session!SessionInv
  <2> QED BY <1>13, <1>15, <2>1 DEF Session!LoggedInOnce, Session!None
<1>12. Session!SessionsOwned'
  <2>1. \A c \in Browsers : r8'[c] # "none" /\ r16 = 0 => Session!Found(r8'[c])
    BY <1>13, <1>8 DEF Session!IdsMade, Session!Found, Session!None
  <2>2. ~ r14 => \A c \in Browsers, x \in r2 : r8'[c] = x.id => x.owner = c
    BY <1>13, <1>9 DEF Session!SessionInv, Session!IdsOwn
  <2>3. /\ \A x, y \in r2 : x # y /\ x.user = y.user => r13
        /\ \A x, y \in r2 : x # y /\ x.owner = y.owner => x.owner \in r12'
    BY <1>13, <1>14 DEF Session!SessionInv, Session!SessionsOwned
  <2> QED BY <1>13, <2>1, <2>2, <2>3, Zenon DEF Session!SessionsOwned, Session!Found, Session!None
<1> QED BY <1>1, <1>2, <1>4, <1>5, <1>6, <1>8, <1>9, <1>10, <1>11, <1>12
        DEF Session!SessionInv, Session!None

(* Another server knows no sessions; the browsers keep their cookies.            *)
LEMMA RestartKeeps ==
  ASSUME Session!SessionInv, Session!Restart
  PROVE  Session!SessionInv'
<1>1. /\ r1' = 0 /\ r2' = {} /\ r3' = [b \in Browsers |-> "idle"]
      /\ r4' = [b \in Browsers |-> ""] /\ r5' = [b \in Browsers |-> "none"]
      /\ r6' = [b \in Browsers |-> 0] /\ r7' = [b \in Browsers |-> "none"]
      /\ r16' = r16 + 1 /\ r16 < MaxRestarts /\ r16 \in 0..MaxRestarts
      /\ UNCHANGED <<r8, r9, r11, r12, r13, r14, r15>>
  BY DEF Session!SessionInv, Session!Restart, Session!None, Session!history
<1>2. \A b \in Browsers : /\ r3'[b] = "idle" /\ r7'[b] = "none"
  BY <1>1
<1>3. r16' # 0 /\ r16' \in 0..MaxRestarts
  <2>1. MaxRestarts \in Nat /\ r16' = r16 + 1 /\ r16 < MaxRestarts /\ r16 \in 0..MaxRestarts
    BY <1>1, SessionAssumption
  <2> QED BY <2>1
<1>4. Session!TypeOK' /\ r6' \in [Browsers -> 0..MaxRequests]
  <2>1. 0 \in 0..MaxRequests
    BY SessionNumbers
  <2> QED BY <1>1, <2>1 DEF Session!SessionInv, Session!TypeOK, Session!None
<1>5. Session!NumberBounded'
  <2>1. Session!Counting' = {}
    BY <1>2 DEF Session!Counting
  <2>2. IsFiniteSet({}) /\ Cardinality({}) = 0
    BY FS_EmptySet
  <2>3. Session!IsFiniteSet(Session!Counting') /\ Session!Cardinality(Session!Counting') = 0
    BY <2>1, <2>2, SessionCardinality, Zenon
  <2>4. 0 + 0 <= r15 /\ \A b \in Browsers : r3'[b] # "count"
    BY <1>2, SessionNumbers
  <2> QED BY <1>1, <2>3, <2>4, Zenon DEF Session!NumberBounded
<1>6. Session!IdsMade'
  BY <1>1, <1>2, <1>3 DEF Session!SessionInv, Session!IdsMade, Session!None
<1>7. Session!IdsOwn' /\ Session!NumbersOwn'
  BY <1>1, <1>2 DEF Session!IdsOwn, Session!NumbersOwn, Session!None
<1>8. \A b \in Browsers : Session!LoggedInOnce(b)'
  BY <1>1, <1>2 DEF Session!LoggedInOnce
<1>9. Session!SessionsOwned'
  BY <1>1, <1>3 DEF Session!SessionsOwned
<1> QED BY <1>1, <1>3, <1>4, <1>5, <1>6, <1>7, <1>8, <1>9 DEF Session!SessionInv, Session!None

LEMMA SessionStep ==
  ASSUME Session!SessionInv, Session!Next
  PROVE  Session!SessionInv'
<1>1. Session!Urls = {"/login", "/", "/a/b"}
  BY DEF Session!Urls
<1> QED BY <1>1, RestartKeeps, SetCookiesKeeps, DeserializeKeeps, ReadNumberKeeps, WriteNumberKeeps,
           AddSessionKeeps, InsertSessionKeeps, LookSessionKeeps, ProveSessionKeeps
        DEF Session!Next

(* A step that changes nothing keeps it.                                       *)
LEMMA SessionStays ==
  ASSUME Session!SessionInv, UNCHANGED <<r1, r2, r3, r4, r5, r6, r7, r8, r9, r10, r11, r12, r13, r14, r15,
                     r16, r17>>
  PROVE  Session!SessionInv'
<1>1. Session!TypeOK' <=> Session!TypeOK
  BY DEF Session!TypeOK
<1>2. Session!SessionsOwned' <=> Session!SessionsOwned
  BY DEF Session!SessionsOwned, Session!Found
<1>3. Session!NumberBounded' <=> Session!NumberBounded
  BY DEF Session!NumberBounded, Session!Counting
<1>4. Session!IdsMade' <=> Session!IdsMade
  BY DEF Session!IdsMade, Session!Found
<1>5. Session!IdsOwn' <=> Session!IdsOwn
  BY DEF Session!IdsOwn
<1>6. Session!NumbersOwn' <=> Session!NumbersOwn
  BY DEF Session!NumbersOwn
<1>7. \A b \in Browsers : Session!LoggedInOnce(b)' <=> Session!LoggedInOnce(b)
  BY DEF Session!LoggedInOnce
<1> QED BY <1>1, <1>2, <1>3, <1>4, <1>5, <1>6, <1>7 DEF Session!SessionInv

-----------------------------------------------------------------------------
(* The calculators: r1 kind, r2 batch, r3 asked, r4 spc, r5 inbuffer,            *)
(* r6 response_str, r7 cpc, r8 resp_buffer, r9 toServer, r10 toClient, r11 shown. *)

LEMMA IntsAre ==
  \E h \in Nat : /\ h >= 4 /\ Calc!IntMin = -h /\ Calc!IntMax = h - 1
                 /\ Calc!Ints = (-h)..(h - 1) /\ 2 ^ Width = 2 * h
<1> DEFINE h == 2 ^ (Width - 1)
<1>1. h \in Nat /\ h >= 4 /\ 2 ^ Width = 2 * h
  BY CalculatorAssumption
<1>2. Calc!IntMin = -h /\ Calc!IntMax = h - 1
  BY DEF Calc!IntMin, Calc!IntMax
<1> HIDE DEF h
<1>3. Calc!Ints = (-h)..(h - 1)
  BY <1>2, Zenon DEF Calc!Ints
<1> QED BY <1>1, <1>2, <1>3

LEMMA BatchesAre ==
  \A b \in Batches : /\ b \in Seq(Calc!Request) /\ Len(b) \in 1..2
                     /\ \A i \in 1..Len(b) : b[i] \in Calc!Request
<1>1. \A x, y \in -4..3, oper \in Calc!Opers : Req(x, oper, y) \in Calc!Request
  <2> SUFFICES ASSUME NEW x \in -4..3, NEW y \in -4..3, NEW oper \in Calc!Opers
               PROVE  Req(x, oper, y) \in Calc!Request
    OBVIOUS
  <2>1. x \in Calc!Ints /\ y \in Calc!Ints
    BY IntsAre
  <2> QED BY <2>1 DEF Req, Calc!Request
<1>2. \A b \in Batches : \/ \E p \in Calc!Request : b = <<p>>
                         \/ \E p, q \in Calc!Request : b = <<p, q>>
  <2>1. /\ \A x \in {-4, -3, 3} : x \in -4..3
        /\ \A y \in {-4, -1, 0, 2} : y \in -4..3
        /\ 1 \in -4..3 /\ 2 \in -4..3 /\ 3 \in -4..3 /\ -4 \in -4..3 /\ -1 \in -4..3
        /\ \A oper \in {"+", "-", "*", "/", "%", "?"} : oper \in Calc!Opers
    BY DEF Calc!Opers
  <2>2. "+" \in Calc!Opers /\ "*" \in Calc!Opers /\ "/" \in Calc!Opers /\ "-" \in Calc!Opers /\ "%" \in Calc!Opers
    BY DEF Calc!Opers
  <2>3. /\ Req(-4, "+", 1) \in Calc!Request /\ Req(3, "*", -1) \in Calc!Request
        /\ Req(-4, "/", -1) \in Calc!Request /\ Req(1, "+", 1) \in Calc!Request
        /\ Req(1, "-", 2) \in Calc!Request /\ Req(-4, "%", -1) \in Calc!Request
    BY <1>1, <2>1, <2>2, Zenon
  <2>4. \A x \in {-4, -3, 3}, oper \in {"+", "-", "*", "/", "%", "?"}, y \in {-4, -1, 0, 2} :
           Req(x, oper, y) \in Calc!Request
    BY <1>1, <2>1, Zenon
  <2> HIDE DEF Req
  <2> DEFINE singles == {<<Req(x, oper, y)>> : x \in {-4, -3, 3},
                 oper \in {"+", "-", "*", "/", "%", "?"}, y \in {-4, -1, 0, 2}}
             pairs == {<<Req(-4, "+", 1), Req(3, "*", -1)>>, <<Req(-4, "/", -1), Req(1, "+", 1)>>,
                       <<Req(1, "-", 2), Req(-4, "%", -1)>>}
  <2>5. \A b \in singles : \E p \in Calc!Request : b = <<p>>
    <3> SUFFICES ASSUME NEW b \in singles
                 PROVE  \E p \in Calc!Request : b = <<p>>
      OBVIOUS
    <3>1. PICK x \in {-4, -3, 3}, oper \in {"+", "-", "*", "/", "%", "?"},
               y \in {-4, -1, 0, 2} : b = <<Req(x, oper, y)>>
      OBVIOUS
    <3>2. Req(x, oper, y) \in Calc!Request
      BY <2>4
    <3> QED BY <3>1, <3>2
  <2>6. \A b \in pairs : \E p, q \in Calc!Request : b = <<p, q>>
    BY <2>3, Zenon
  <2>7. Batches = singles \cup pairs
    BY DEF Batches
  <2> HIDE DEF singles, pairs
  <2>8. \A b \in Batches : b \in singles \/ b \in pairs
    BY <2>7
  <2> QED BY <2>5, <2>6, <2>8, Zenon
<1>3. \A p \in Calc!Request : /\ <<p>> \in Seq(Calc!Request) /\ Len(<<p>>) \in 1..2
                              /\ \A i \in 1..Len(<<p>>) : <<p>>[i] \in Calc!Request
  OBVIOUS
<1>4. \A p, q \in Calc!Request : /\ <<p, q>> \in Seq(Calc!Request) /\ Len(<<p, q>>) \in 1..2
                                 /\ \A i \in 1..Len(<<p, q>>) : <<p, q>>[i] \in Calc!Request
  OBVIOUS
<1> QED BY <1>2, <1>3, <1>4, ZenonT(40)

-----------------------------------------------------------------------------
(* Cal::Execute is right for everything the processor can divide.              *)

LEMMA WrapIs ==
  ASSUME NEW n \in Int
  PROVE  Calc!Wrap(n) \in Calc!Ints /\ (n \in Calc!Ints => Calc!Wrap(n) = n)
<1>1. PICK h \in Nat : h >= 4 /\ Calc!IntMin = -h /\ Calc!Ints = (-h)..(h - 1) /\ 2 ^ Width = 2 * h
  BY IntsAre
<1>2. Calc!Wrap(n) = ((n + h) % (2 * h)) - h
  BY <1>1 DEF Calc!Wrap
<1>3. (n + h) % (2 * h) \in 0..(2 * h - 1)
  BY <1>1
<1>4. n \in (-h)..(h - 1) => (n + h) % (2 * h) = n + h
  BY <1>1
<1> QED BY <1>1, <1>2, <1>3, <1>4

LEMMA DivMod ==
  ASSUME NEW a \in Nat, NEW b \in Nat, b > 0
  PROVE  a = b * (a \div b) + (a % b)
OBVIOUS

(* C++'s quotient and remainder.                                                *)
LEMMA Divides ==
  ASSUME NEW a \in Nat, NEW b \in Nat \ {0}
  PROVE  /\ a \div b \in Nat /\ (a \div b) * b <= a /\ a < (a \div b) * b + b
         /\ a \div b <= a
<1>1. a \div b \in Int /\ a = b * (a \div b) + (a % b) /\ a % b \in 0..(b - 1)
  <2>1. a \div b \in Int /\ a % b \in 0..(b - 1)
    OBVIOUS
  <2>2. b \in Nat /\ b > 0
    OBVIOUS
  <2>3. a = b * (a \div b) + (a % b)
    BY <2>2, DivMod, Zenon
  <2> QED BY <2>1, <2>3
<1>2. a \div b >= 0
  BY <1>1
<1>3. PICK q \in Nat : q = a \div b
  BY <1>1, <1>2
<1>4. q * b <= a /\ a < q * b + b
  BY <1>1, <1>3
<1>5. q <= q * b
  BY <1>3
<1> QED BY <1>3, <1>4, <1>5

LEMMA QuotientIs ==
  ASSUME NEW x \in Calc!Ints, NEW y \in Calc!Ints, y # 0, ~ (x = Calc!IntMin /\ y = -1)
  PROVE  \E q, m \in Calc!Ints :
            /\ q = Calc!Quotient(x, y) /\ m = x - y * q /\ q * y + m = x
            /\ Calc!Magnitude(m) < Calc!Magnitude(y) /\ (m = 0 \/ (m < 0) = (x < 0))
<1>1. PICK h \in Nat : h >= 4 /\ Calc!IntMin = -h /\ Calc!Ints = (-h)..(h - 1)
  BY IntsAre
<1> DEFINE a == Calc!Magnitude(x)
           b == Calc!Magnitude(y)
           d == a \div b
<1>2. x \in Int /\ y \in Int /\ -h <= x /\ x < h /\ -h <= y /\ y < h
  BY <1>1
<1>3. /\ a \in Nat /\ b \in Nat \ {0} /\ a <= h /\ b <= h
      /\ (x < 0 => x = -a) /\ (x >= 0 => x = a) /\ (y < 0 => y = -b) /\ (y >= 0 => y = b)
  BY <1>1, <1>2 DEF Calc!Magnitude
<1>4. d \in Nat /\ d * b <= a /\ a < d * b + b /\ d <= a
  BY <1>3, Divides
<1>5. (x < 0) = (y < 0) => d < h
  <2>1. a < h => d < h
    BY <1>1, <1>3, <1>4
  <2>2. a = h /\ y < 0 => b >= 2
    BY <1>1, <1>2, <1>3
  <2>3. b >= 2 => d * 2 <= d * b
    BY <1>3, <1>4
  <2>4. b >= 2 => d * 2 <= h
    BY <1>3, <1>4, <2>3
  <2>5. a = h => x < 0
    BY <1>2, <1>3
  <2> QED BY <1>1, <1>3, <1>4, <2>1, <2>2, <2>4, <2>5
<1>6. Calc!Quotient(x, y) = IF (x < 0) = (y < 0) THEN d ELSE -d
  BY DEF Calc!Quotient
<1> HIDE DEF a, b, d
<1>7. PICK q \in Int : q = IF (x < 0) = (y < 0) THEN d ELSE -d
  BY <1>4
<1>8. q \in Calc!Ints
  BY <1>1, <1>3, <1>4, <1>5, <1>7
<1>9. y * q = IF x < 0 THEN -(d * b) ELSE d * b
  BY <1>2, <1>3, <1>4, <1>7
<1>10. PICK m \in Int : m = x - y * q
  <2>1. y * q \in Int
    BY <1>2, <1>7
  <2> QED BY <1>2, <2>1
<1>11. m = IF x < 0 THEN -(a - d * b) ELSE a - d * b
  BY <1>2, <1>3, <1>4, <1>9, <1>10
<1>12. d * b \in Nat
  BY <1>3, <1>4
<1>13. m \in Calc!Ints
  BY <1>1, <1>2, <1>3, <1>4, <1>11, <1>12
<1>14. Calc!Magnitude(m) < b
  BY <1>3, <1>4, <1>11, <1>12 DEF Calc!Magnitude
<1>15. m = 0 \/ (m < 0) = (x < 0)
  BY <1>2, <1>3, <1>4, <1>11, <1>12
<1>16. q * y + m = x
  BY <1>2, <1>7, <1>10
<1> QED BY <1>6, <1>7, <1>8, <1>10, <1>13, <1>14, <1>15, <1>16 DEF b

LEMMA ExecuteRight ==
  ASSUME NEW r \in Calc!Request, ~Calc!Traps(r)
  PROVE  Calc!Execute(r) \in Calc!Response /\ Calc!Right(r, Calc!Execute(r))
<1>1. r.x \in Calc!Ints /\ r.y \in Calc!Ints /\ r.oper \in {"+", "-", "*", "/", "%", "?"}
  BY DEF Calc!Request, Calc!Opers
<1>2. 0 \in Calc!Ints /\ Calc!Ints \subseteq Int
  BY IntsAre
<1>3. r.x + r.y \in Int /\ r.x - r.y \in Int /\ r.x * r.y \in Int
  <2>1. r.x \in Int /\ r.y \in Int
    BY <1>1, <1>2
  <2> QED BY <2>1
<1> DEFINE e == Calc!Execute(r)
<1>4. e.code = Calc!Code(r) /\ e = [code |-> e.code, result |-> e.result]
  BY DEF Calc!Execute
<1>5. CASE Calc!Code(r) # 0
  <2>1. e.result = 0
    BY <1>1, <1>5 DEF Calc!Execute, Calc!Code
  <2>2. /\ <<Calc!Code(r), r.oper>> \in {<<1, "/">>, <<2, "%">>, <<3, "?">>}
        /\ (Calc!Code(r) < 3 => r.y = 0) /\ Calc!Code(r) \in 0..3
    BY <1>1, <1>5 DEF Calc!Code
  <2> HIDE DEF e
  <2>3. e \in Calc!Response
    BY <1>2, <1>4, <2>1, <2>2 DEF Calc!Response
  <2>4. Calc!Right(r, e)
    BY <1>4, <1>5, <2>2 DEF Calc!Right
  <2> QED BY <2>3, <2>4 DEF e
<1>6. CASE Calc!Code(r) = 0 /\ r.oper \in {"+", "-", "*"}
  <2> DEFINE exact == CASE r.oper = "+" -> r.x + r.y [] r.oper = "-" -> r.x - r.y
                        [] OTHER -> r.x * r.y
  <2>1. e.result = Calc!Wrap(exact)
    BY <1>6 DEF Calc!Execute
  <2>2. exact \in Int
    BY <1>3
  <2>3. e.result \in Calc!Ints /\ (exact \in Calc!Ints => e.result = exact)
    BY <2>1, <2>2, WrapIs
  <2> HIDE DEF e
  <2>4. e \in Calc!Response
    BY <1>4, <1>6, <2>3 DEF Calc!Response
  <2>5. Calc!Right(r, e)
    BY <1>4, <1>6, <2>3 DEF Calc!Right
  <2> QED BY <2>4, <2>5 DEF e
<1>7. CASE Calc!Code(r) = 0 /\ r.oper \in {"/", "%"}
  <2>1. r.y # 0
    BY <1>7 DEF Calc!Code
  <2>2. ~ (r.x = Calc!IntMin /\ r.y = -1)
    BY <1>7 DEF Calc!Traps
  <2>3. PICK q, m \in Calc!Ints :
            /\ q = Calc!Quotient(r.x, r.y) /\ m = r.x - r.y * q /\ q * r.y + m = r.x
            /\ Calc!Magnitude(m) < Calc!Magnitude(r.y) /\ (m = 0 \/ (m < 0) = (r.x < 0))
    BY <1>1, <2>1, <2>2, QuotientIs
  <2>4. e.result = IF r.oper = "/" THEN q ELSE m
    BY <1>7, <2>1, <2>3 DEF Calc!Execute
  <2> HIDE DEF e
  <2>5. e \in Calc!Response
    BY <1>4, <1>7, <2>4 DEF Calc!Response
  <2>6. Calc!Right(r, e)
    <3>1. \E qq, mm \in Calc!Ints :
             /\ qq * r.y + mm = r.x /\ Calc!Magnitude(mm) < Calc!Magnitude(r.y)
             /\ mm = 0 \/ (mm < 0) = (r.x < 0)
             /\ e.result = IF r.oper = "/" THEN qq ELSE mm
      BY <2>3, <2>4, Zenon
    <3> QED BY <1>4, <1>7, <2>1, <3>1, Zenon DEF Calc!Right
  <2> QED BY <2>5, <2>6 DEF e
<1> QED BY <1>1, <1>5, <1>6, <1>7 DEF Calc!Code

-----------------------------------------------------------------------------
(* The length in front of a text is read as it was written.                    *)

LEMMA Powers == /\ Base \in Nat /\ Base >= 2 /\ Base ^ 0 = 1 /\ Base ^ 1 = Base
                /\ Base ^ 2 = Base * Base /\ Base ^ 3 = Base * (Base * Base)
<1>1. Base \in Nat /\ Base >= 2 /\ Base ^ 0 = 1
  BY CalculatorAssumption
<1>2. Base ^ (0 + 1) = Base * Base ^ 0 /\ Base ^ (1 + 1) = Base * Base ^ 1 /\ Base ^ (2 + 1) = Base * Base ^ 2
  BY CalculatorAssumption
<1>3. 0 + 1 = 1 /\ 1 + 1 = 2 /\ 2 + 1 = 3
  OBVIOUS
<1>4. Base ^ 1 = Base * Base ^ 0 /\ Base ^ 2 = Base * Base ^ 1 /\ Base ^ 3 = Base * Base ^ 2
  BY <1>2, <1>3, Zenon
<1> QED BY <1>1, <1>4

LEMMA NumberRead ==
  ASSUME NEW ds, Len(ds) \in 1..3, \A i \in 1..Len(ds) : ds[i][2] \in Nat
  PROVE  /\ Len(ds) = 1 => Calc!Number(ds) = ds[1][2]
         /\ Len(ds) = 2 => Calc!Number(ds) = Base * ds[1][2] + ds[2][2]
         /\ Len(ds) = 3 => Calc!Number(ds) = Base * (Base * ds[1][2] + ds[2][2]) + ds[3][2]
<1> DEFINE one == ds[1][2]
           two == Base * one + ds[2][2]
           three == Base * two + ds[3][2]
           g == [n \in 0..Len(ds) |-> CASE n = 0 -> 0 [] n = 1 -> one [] n = 2 -> two [] n = 3 -> three]
           f == CHOOSE h : h = [n \in 0..Len(ds) |-> IF n = 0 THEN 0 ELSE Base * h[n - 1] + ds[n][2]]
<1>1. one \in Nat /\ Base * 0 + one = one
  <2>1. 1 \in 1..Len(ds)
    OBVIOUS
  <2> QED BY <2>1, Powers
<1> HIDE DEF one, two, three
<1>2. \A n \in 0..Len(ds) : g[n] = IF n = 0 THEN 0 ELSE Base * g[n - 1] + ds[n][2]
  <2>1. g[0] = 0 /\ g[1] = one /\ (Len(ds) >= 2 => g[2] = two) /\ (Len(ds) = 3 => g[3] = three)
    OBVIOUS
  <2>2. 1 - 1 = 0 /\ 2 - 1 = 1 /\ 3 - 1 = 2
    OBVIOUS
  <2> HIDE DEF g
  <2>3. \A n \in 0..Len(ds) : n \in {0, 1, 2, 3} /\ (n = 2 => Len(ds) >= 2) /\ (n = 3 => Len(ds) = 3)
    OBVIOUS
  <2>4. g[1] = Base * g[1 - 1] + ds[1][2]
    BY <1>1, <2>1, <2>2 DEF one
  <2>5. Len(ds) >= 2 => g[2] = Base * g[2 - 1] + ds[2][2]
    BY <2>1, <2>2, Zenon DEF two
  <2>6. Len(ds) = 3 => g[3] = Base * g[3 - 1] + ds[3][2]
    <3>1. Len(ds) = 3 => Len(ds) >= 2
      OBVIOUS
    <3> QED BY <2>1, <2>2, <3>1, Zenon DEF three
  <2> QED BY <2>1, <2>3, <2>4, <2>5, <2>6
<1>3. g = [n \in 0..Len(ds) |-> IF n = 0 THEN 0 ELSE Base * g[n - 1] + ds[n][2]]
  <2>1. g = [n \in 0..Len(ds) |-> g[n]]
    OBVIOUS
  <2> HIDE DEF g
  <2> QED BY <1>2, <2>1
<1> HIDE DEF g
<1>4. f = [n \in 0..Len(ds) |-> IF n = 0 THEN 0 ELSE Base * f[n - 1] + ds[n][2]]
  BY <1>3
<1>5. Calc!Number(ds) = f[Len(ds)]
  BY DEF Calc!Number
<1> HIDE DEF f
<1>6. \A n \in 0..Len(ds) : f[n] = IF n = 0 THEN 0 ELSE Base * f[n - 1] + ds[n][2]
  BY <1>4
<1>7. f[0] = 0 /\ f[1] = Base * f[1 - 1] + ds[1][2]
  BY <1>6
<1>8. f[1] = one
  <2>1. f[1 - 1] = 0
    BY <1>7
  <2> QED BY <1>1, <1>7, <2>1 DEF one
<1>9. Len(ds) >= 2 => f[2] = two
  <2>1. Len(ds) >= 2 => f[2] = Base * f[2 - 1] + ds[2][2]
    BY <1>6
  <2>2. f[2 - 1] = one
    BY <1>8
  <2> QED BY <2>1, <2>2, Zenon DEF two
<1>10. Len(ds) = 3 => f[3] = three
  <2>1. Len(ds) = 3 => f[3] = Base * f[3 - 1] + ds[3][2]
    BY <1>6
  <2>2. Len(ds) = 3 => f[3 - 1] = two
    BY <1>9
  <2> QED BY <2>1, <2>2, Zenon DEF three
<1>11. Len(ds) = 2 => Len(ds) >= 2
  OBVIOUS
<1> QED BY <1>5, <1>8, <1>9, <1>10, <1>11, Zenon DEF one, two, three

LEMMA DigitsAre ==
  ASSUME NEW n \in 1..4
  PROVE  /\ Calc!Digits(n) \in Seq({"digit"} \X Nat) /\ Len(Calc!Digits(n)) \in 1..3
         /\ Calc!Number(Calc!Digits(n)) = n
<1> DEFINE Fits(k) == n < Base ^ k /\ \A j \in 1..(k - 1) : n >= Base ^ j
           ds == Calc!Digits(n)
           Digit(i, w) == (n \div Base ^ (w - i)) % Base
<1>1. \E w \in 1..3 : w <= n /\ Fits(w)
  <2>1. CASE n < Base
    BY <2>1, Powers
  <2>2. CASE ~ (n < Base) /\ n < Base * Base
    <3>1. n >= 2
      BY <2>2, Powers
    <3>2. \A j \in 1..(2 - 1) : j = 1
      OBVIOUS
    <3> QED BY <2>2, <3>1, <3>2, Powers
  <2>3. CASE ~ (n < Base * Base)
    <3>1. Base = 2 /\ n = 4
      <4>1. CASE Base >= 3
        <5>1. Base * Base >= 3 * Base
          BY <4>1, Powers
        <5> QED BY <2>3, <4>1, <5>1, Powers
      <4>2. CASE Base = 2
        BY <2>3, <4>2
      <4> QED BY <4>1, <4>2, Powers
    <3>2. \A j \in 1..(3 - 1) : j \in {1, 2}
      OBVIOUS
    <3>3. n < Base ^ 3 /\ n >= Base ^ 1 /\ n >= Base ^ 2
      BY <3>1, Powers
    <3> QED BY <3>1, <3>2, <3>3
  <2> QED BY <2>1, <2>2, <2>3
<1>2. PICK w \in 1..3 : w <= n /\ Fits(w)
  BY <1>1
<1>3. \A k \in 1..n : Fits(k) => k = w
  <2> SUFFICES ASSUME NEW k \in 1..n, Fits(k), k # w
               PROVE  FALSE
    OBVIOUS
  <2>1. Base ^ w \in Int
    BY Powers
  <2>2. CASE k > w
    <3>1. w \in 1..(k - 1)
      BY <2>2
    <3> QED BY <1>2, <2>1, <3>1
  <2>3. CASE k < w
    <3>1. k \in 1..(w - 1) /\ k \in 1..3
      BY <2>3
    <3>2. Base ^ k \in Int
      BY <3>1, Powers
    <3> QED BY <1>2, <3>1, <3>2
  <2> QED BY <2>2, <2>3
<1>4. (CHOOSE k \in 1..n : Fits(k)) = w
  BY <1>2, <1>3
<1>5. ds = [i \in 1..w |-> <<"digit", Digit(i, w)>>]
  <2> DEFINE v == CHOOSE k \in 1..n : Fits(k)
  <2>1. ds = [i \in 1..v |-> <<"digit", (n \div Base ^ (v - i)) % Base>>]
    BY Zenon DEF Calc!Digits
  <2> HIDE DEF v, ds
  <2>2. v = w
    BY <1>4 DEF v
  <2> QED BY <2>1, <2>2, Zenon
<1>6. \A i \in 1..w : Base ^ (w - i) \in Nat /\ Base ^ (w - i) > 0
  <2>1. \A i \in 1..w : w - i \in {0, 1, 2}
    OBVIOUS
  <2>2. Base ^ 0 > 0 /\ Base ^ 1 > 0 /\ Base ^ 2 > 0 /\ Base ^ 0 \in Nat /\ Base ^ 1 \in Nat /\ Base ^ 2 \in Nat
    <3>1. Base * Base \in Nat /\ Base * Base > 0
      BY Powers
    <3> QED BY <3>1, Powers
  <2> QED BY <2>1, <2>2
<1>7. \A i \in 1..w : Digit(i, w) \in Nat
  <2> SUFFICES ASSUME NEW i \in 1..w
               PROVE  Digit(i, w) \in Nat
    OBVIOUS
  <2>1. PICK p \in Nat : p = Base ^ (w - i) /\ p > 0
    BY <1>6
  <2>2. (n \div p) \in Int
    BY <2>1
  <2>3. (n \div p) % Base \in Nat
    BY <2>2, Powers
  <2> QED BY <2>1, <2>3
<1>8. ds \in Seq({"digit"} \X Nat) /\ Len(ds) = w /\ \A i \in 1..w : ds[i][2] = Digit(i, w)
  <2>1. \A i \in 1..w : <<"digit", Digit(i, w)>> \in {"digit"} \X Nat
    BY <1>7
  <2> HIDE DEF Digit
  <2> QED BY <1>5, <2>1
<1>9. Calc!Number(ds) = n
  <2> HIDE DEF ds, Fits
  <2>1. \A i \in 1..Len(ds) : ds[i][2] \in Nat
    BY <1>7, <1>8
  <2>2. CASE w = 1
    <3>1. n < Base /\ n \div 1 = n /\ 1 - 1 = 0
      BY <1>2, <2>2, Powers DEF Fits
    <3>2. ds[1][2] = n % Base
      BY <1>8, <2>2, <3>1, Powers
    <3>3. n % Base = n
      BY <3>1, Powers
    <3> QED BY <1>8, <2>1, <2>2, <3>2, <3>3, NumberRead
  <2>3. CASE w = 2
    <3>1. n < Base * Base /\ n >= Base
      <4>1. 1 \in 1..(2 - 1)
        OBVIOUS
      <4> QED BY <1>2, <2>3, <4>1, Powers DEF Fits
    <3>2. ds[1][2] = (n \div Base) % Base /\ ds[2][2] = (n \div 1) % Base
      <4>1. 2 - 1 = 1 /\ 2 - 2 = 0 /\ 1 \in 1..2 /\ 2 \in 1..2
        OBVIOUS
      <4> QED BY <1>8, <2>3, <4>1, Powers
    <3>3. Base * ((n \div Base) % Base) + ((n \div 1) % Base) = n
      <4>1. Base \in {2, 3, 4} /\ n \in {2, 3, 4}
        BY <3>1, Powers
      <4> QED BY <3>1, <4>1
    <3> QED BY <1>8, <2>1, <2>3, <3>2, <3>3, NumberRead
  <2>4. CASE w = 3
    <3>1. n >= Base * Base
      <4>1. 2 \in 1..(3 - 1)
        OBVIOUS
      <4> QED BY <1>2, <2>4, <4>1, Powers DEF Fits
    <3>2. Base = 2 /\ n = 4
      <4>1. CASE Base >= 3
        <5>1. Base * Base >= 3 * Base
          BY <4>1, Powers
        <5> QED BY <3>1, <4>1, <5>1, Powers
      <4>2. CASE Base = 2
        BY <3>1, <4>2
      <4> QED BY <4>1, <4>2, Powers
    <3>3. ds[1][2] = (n \div (Base * Base)) % Base /\ ds[2][2] = (n \div Base) % Base /\ ds[3][2] = (n \div 1) % Base
      <4>1. 3 - 1 = 2 /\ 3 - 2 = 1 /\ 3 - 3 = 0 /\ 1 \in 1..3 /\ 2 \in 1..3 /\ 3 \in 1..3
        OBVIOUS
      <4> QED BY <1>8, <2>4, <4>1, Powers
    <3>4. ds[1][2] = 1 /\ ds[2][2] = 0 /\ ds[3][2] = 0
      BY <3>2, <3>3
    <3> QED BY <1>8, <2>1, <2>4, <3>2, <3>4, NumberRead
  <2> QED BY <2>2, <2>3, <2>4
<1> QED BY <1>8, <1>9

-----------------------------------------------------------------------------
(* Encode and Decode: what stands first in a stream comes out whole, once, and *)
(* leaves what follows.                                                        *)

LEMMA TextIs ==
  ASSUME NEW m \in Calc!Messages, NEW n \in 1..4
  PROVE  /\ Calc!Text(m, n) \in Seq(Calc!Units) /\ Len(Calc!Text(m, n)) = n
         /\ Calc!Reads(Calc!Text(m, n)) /\ Calc!Deserialize(Calc!Text(m, n)) = m
<1> DEFINE t == Calc!Text(m, n)
<1>1. t = [i \in 1..n |-> <<"text", m, i, n>>]
  BY DEF Calc!Text
<1>2. \A i \in 1..n : <<"text", m, i, n>> \in Calc!Units
  <2>1. \A i \in 1..n : <<"text", m, i, n>> \in Calc!TextUnits
    BY DEF Calc!TextUnits
  <2> QED BY <2>1 DEF Calc!Units
<1> HIDE DEF t
<1>3. t \in Seq(Calc!Units) /\ Len(t) = n /\ DOMAIN t = 1..n
  BY <1>1, <1>2
<1>4. t[1][2] = m
  <2>1. 1 \in 1..n
    OBVIOUS
  <2> QED BY <1>1, <2>1
<1>5. Calc!Reads(t)
  <2>1. t # <<>>
    BY <1>3
  <2>2. \A i \in DOMAIN t : t[i] = <<"text", t[1][2], i, Len(t)>>
    BY <1>1, <1>3, <1>4
  <2> QED BY <2>1, <2>2, Zenon DEF Calc!Reads
<1>6. Calc!Deserialize(t) = m
  BY <1>4, Zenon DEF Calc!Deserialize
<1> QED BY <1>3, <1>5, <1>6 DEF t

LEMMA SepIs == /\ Calc!sep \in Seq(Calc!Units) /\ Len(Calc!sep) = 2
               /\ Calc!sep[1] = <<"\r">> /\ Calc!sep[2] = <<"\n">>
<1>1. <<"\r">> \in Calc!Units /\ <<"\n">> \in Calc!Units
  BY DEF Calc!Units
<1> QED BY <1>1 DEF Calc!sep

(* A text on the wire: w digits, a separator, n units, a separator.            *)
CalcWire(m, n, e, w) ==
    /\ w = Len(Calc!Digits(n)) /\ e \in Seq(Calc!Units) /\ Len(e) = w + n + 4 /\ w \in 1..3
    /\ \A i \in 1..w : e[i] = Calc!Digits(n)[i]
    /\ e[w + 1] = <<"\r">> /\ e[w + 2] = <<"\n">>
    /\ \A i \in 1..n : e[w + 2 + i] = Calc!Text(m, n)[i]

LEMMA EncodeIs ==
  ASSUME NEW m \in Calc!Messages, NEW n \in 1..4
  PROVE  \E w : CalcWire(m, n, Calc!Encode(Calc!Text(m, n)), w)
<1> DEFINE e == Calc!Encode(Calc!Text(m, n))
           w == Len(Calc!Digits(n))
<1> DEFINE ds == Calc!Digits(n)
           t == Calc!Text(m, n)
           s == Calc!sep
           head == ds \o s
           body == head \o t
<1>1. ds \in Seq(Calc!Units) /\ Len(ds) = w /\ w \in 1..3
  <2>1. ds \in Seq({"digit"} \X Nat) /\ w \in 1..3
    BY DigitsAre
  <2>2. \A i \in 1..Len(ds) : ds[i] \in Calc!Units
    BY <2>1, ElementOfSeq DEF Calc!Units
  <2> HIDE DEF ds
  <2>3. ds \in Seq(Calc!Units)
    BY <2>1, <2>2, LenProperties
  <2> QED BY <2>1, <2>3 DEF ds
<1>2. t \in Seq(Calc!Units) /\ Len(t) = n
  BY TextIs
<1>3. s \in Seq(Calc!Units) /\ Len(s) = 2 /\ s[1] = <<"\r">> /\ s[2] = <<"\n">>
  BY SepIs
<1>4. e = body \o s
  BY <1>2, Zenon DEF Calc!Encode
<1> HIDE DEF e, w, ds, t, s
<1>5. /\ head \in Seq(Calc!Units) /\ Len(head) = w + 2
      /\ \A i \in 1..(w + 2) : head[i] = IF i <= w THEN ds[i] ELSE s[i - w]
  <2>1. /\ head \in Seq(Calc!Units) /\ Len(head) = Len(ds) + Len(s)
        /\ \A i \in 1..(Len(ds) + Len(s)) : head[i] = IF i <= Len(ds) THEN ds[i] ELSE s[i - Len(ds)]
    BY <1>1, <1>3, ConcatProperties, Zenon
  <2> HIDE DEF head
  <2> QED BY <1>1, <1>3, <2>1
<1> HIDE DEF head
<1>6. /\ body \in Seq(Calc!Units) /\ Len(body) = (w + 2) + n
      /\ \A i \in 1..((w + 2) + n) : body[i] = IF i <= w + 2 THEN head[i] ELSE t[i - (w + 2)]
  <2>1. /\ body \in Seq(Calc!Units) /\ Len(body) = Len(head) + Len(t)
        /\ \A i \in 1..(Len(head) + Len(t)) : body[i] = IF i <= Len(head) THEN head[i] ELSE t[i - Len(head)]
    BY <1>2, <1>5, ConcatProperties, Zenon
  <2> HIDE DEF body
  <2> QED BY <1>2, <1>5, <2>1
<1> HIDE DEF body
<1>7. /\ e \in Seq(Calc!Units) /\ Len(e) = ((w + 2) + n) + 2
      /\ \A i \in 1..(((w + 2) + n) + 2) : e[i] = IF i <= (w + 2) + n THEN body[i] ELSE s[i - ((w + 2) + n)]
  <2> DEFINE f == body \o s
  <2>1. /\ f \in Seq(Calc!Units) /\ Len(f) = Len(body) + Len(s)
        /\ \A i \in 1..(Len(body) + Len(s)) : f[i] = IF i <= Len(body) THEN body[i] ELSE s[i - Len(body)]
    BY <1>3, <1>6, ConcatProperties, Zenon
  <2>2. e = f
    BY <1>4
  <2> HIDE DEF f
  <2> QED BY <1>3, <1>6, <2>1, <2>2
<1>8. \A i \in 1..(w + 2) : e[i] = head[i]
  BY <1>1, <1>6, <1>7
<1>9. \A i \in 1..w : e[i] = ds[i]
  BY <1>1, <1>5, <1>8
<1>10. e[w + 1] = <<"\r">> /\ e[w + 2] = <<"\n">>
  <2>1. w + 1 \in 1..(w + 2) /\ w + 2 \in 1..(w + 2) /\ ~ (w + 1 <= w) /\ ~ (w + 2 <= w) /\ (w + 1) - w = 1 /\ (w + 2) - w = 2
    BY <1>1
  <2> QED BY <1>3, <1>5, <1>8, <2>1
<1>11. \A i \in 1..n : e[w + 2 + i] = t[i]
  <2> SUFFICES ASSUME NEW i \in 1..n
               PROVE  e[w + 2 + i] = t[i]
    OBVIOUS
  <2>1. /\ w + 2 + i \in 1..((w + 2) + n) /\ w + 2 + i \in 1..(((w + 2) + n) + 2)
        /\ ~ (w + 2 + i <= w + 2) /\ w + 2 + i <= (w + 2) + n /\ (w + 2 + i) - (w + 2) = i
    BY <1>1
  <2> QED BY <1>6, <1>7, <2>1
<1>12. Len(e) = w + n + 4
  BY <1>1, <1>7
<1>13. CalcWire(m, n, e, w)
  BY <1>1, <1>7, <1>9, <1>10, <1>11, <1>12 DEF CalcWire, ds, t, w
<1> QED BY <1>13 DEF e

(* s and then t is the stream that is one and then u.                           *)
Joins(s, t, one, u) == s \o t = one \o u

LEMMA DecodeFinds ==
  ASSUME NEW m \in Calc!Messages, NEW n \in 1..4,
         NEW s \in Seq(Calc!Units), NEW t \in Seq(Calc!Units), NEW u \in Seq(Calc!Units),
         s \o t = Calc!Encode(Calc!Text(m, n)) \o u, Calc!Decodable(s)
  PROVE  /\ Calc!Encode(Calc!Text(m, n)) \in Seq(Calc!Units)
         /\ Calc!TargetLen(s) = Len(Calc!Encode(Calc!Text(m, n)))
         /\ Len(s) >= Len(Calc!Encode(Calc!Text(m, n)))
         /\ Calc!Header(s) = Calc!Digits(n)
<1> DEFINE e == Calc!Encode(Calc!Text(m, n))
<1>e. s \o t = e \o u
  OBVIOUS
<1>w. PICK w : CalcWire(m, n, e, w)
  BY EncodeIs
<1>1. /\ e \in Seq(Calc!Units) /\ Len(e) = w + n + 4 /\ w \in 1..3
      /\ \A i \in 1..w : e[i] = Calc!Digits(n)[i]
      /\ e[w + 1] = <<"\r">> /\ e[w + 2] = <<"\n">>
  BY <1>w DEF CalcWire
<1> HIDE DEF e
<1>2. /\ Calc!Digits(n) \in Seq({"digit"} \X Nat) /\ Calc!Number(Calc!Digits(n)) = n
  BY DigitsAre
<1> DEFINE ds == Calc!Digits(n)
<1>3. Len(ds) = w
  BY <1>w DEF CalcWire
<1> HIDE DEF ds
<1>4. Len(s) \in Nat /\ Len(t) \in Nat /\ Len(u) \in Nat /\ Len(e) \in Nat
  BY <1>1, LenProperties
<1>5. \A i \in 1..Len(s) : i <= Len(e) => s[i] = e[i]
  <2> SUFFICES ASSUME NEW i \in 1..Len(s), i <= Len(e)
               PROVE  s[i] = e[i]
    OBVIOUS
  <2>1. i \in 1..(Len(s) + Len(t)) /\ i \in 1..(Len(e) + Len(u)) /\ i <= Len(s)
    BY <1>4
  <2>2. (s \o t)[i] = s[i]
    BY <2>1, ConcatProperties
  <2>3. (e \o u)[i] = e[i]
    BY <1>1, <2>1, ConcatProperties
  <2> QED BY <1>e, <2>2, <2>3
<1>6. \A j \in Calc!Seps(s) : j \in 1..(Len(s) - 1) /\ j >= w + 1
  <2> SUFFICES ASSUME NEW j \in Calc!Seps(s), ~ (j \in 1..(Len(s) - 1) /\ j >= w + 1)
               PROVE  FALSE
    OBVIOUS
  <2>1. j \in 1..(Len(s) - 1) /\ s[j] = <<"\r">>
    BY SepIs DEF Calc!Seps
  <2>2. j \in 1..w /\ j \in 1..Len(s) /\ j <= Len(e)
    BY <1>1, <1>4, <2>1
  <2>3. s[j] = ds[j]
    BY <1>1, <1>5, <2>2 DEF ds
  <2>4. ds[j] \in {"digit"} \X Nat
    BY <1>2, <1>3, <2>2, ElementOfSeq DEF ds
  <2>5. <<"\r">> \notin {"digit"} \X Nat
    OBVIOUS
  <2> QED BY <2>1, <2>3, <2>4, <2>5
<1>7. PICK j \in Calc!Seps(s) : TRUE
  BY DEF Calc!Decodable
<1>8. w + 1 \in 1..(Len(s) - 1) /\ w + 1 \in 1..Len(s) /\ w + 2 \in 1..Len(s)
  BY <1>1, <1>4, <1>6, <1>7
<1>9. w + 1 \in Calc!Seps(s)
  <2>1. s[w + 1] = <<"\r">> /\ s[w + 2] = <<"\n">>
    <3>1. w + 1 <= Len(e) /\ w + 2 <= Len(e)
      BY <1>1
    <3> QED BY <1>1, <1>5, <1>8, <3>1
  <2>2. (w + 1) + 1 = w + 2
    BY <1>1
  <2> QED BY <1>8, <2>1, <2>2, SepIs DEF Calc!Seps
<1>10. Calc!FirstSep(s) = w + 1
  <2>1. \A k \in Calc!Seps(s) : (\A i \in Calc!Seps(s) : k <= i) => k = w + 1
    BY <1>1, <1>6, <1>9
  <2>2. \A i \in Calc!Seps(s) : w + 1 <= i
    BY <1>1, <1>6
  <2> QED BY <1>9, <2>1, <2>2 DEF Calc!FirstSep
<1>11. Calc!Header(s) = ds
  <2>1. Calc!Header(s) = SubSeq(s, 1, w)
    <3>1. (w + 1) - 1 = w
      BY <1>1
    <3> QED BY <1>10, <3>1 DEF Calc!Header
  <2>2. \A i \in 1..w : s[i] = ds[i]
    <3>1. \A i \in 1..w : i \in 1..Len(s) /\ i <= Len(e)
      BY <1>1, <1>4, <1>8
    <3> QED BY <1>1, <1>5, <3>1 DEF ds
  <2>3. \A i \in 1..w : s[i] \in {"digit"} \X Nat
    <3>1. ds \in Seq({"digit"} \X Nat)
      BY <1>2 DEF ds
    <3>2. \A i \in 1..w : ds[i] \in {"digit"} \X Nat
      BY <1>3, <3>1, ElementOfSeq
    <3> QED BY <2>2, <3>2
  <2>4. /\ SubSeq(s, 1, w) \in Seq({"digit"} \X Nat) /\ Len(SubSeq(s, 1, w)) = w
        /\ \A i \in 1..w : SubSeq(s, 1, w)[i] = s[i]
    <3>1. /\ SubSeq(s, 1, w) \in Seq({"digit"} \X Nat)
          /\ Len(SubSeq(s, 1, w)) = IF 1 <= w THEN w - 1 + 1 ELSE 0
          /\ \A i \in 1..(w - 1 + 1) : SubSeq(s, 1, w)[i] = s[1 + i - 1]
      BY <1>1, <2>3, SubSeqProperties
    <3> QED BY <1>1, <3>1
  <2>5. ds \in Seq({"digit"} \X Nat)
    BY <1>2 DEF ds
  <2>6. SubSeq(s, 1, w) = ds
    BY <1>3, <2>2, <2>4, <2>5, SeqEqual
  <2> QED BY <2>1, <2>6
<1>12. Calc!TargetLen(s) = Len(e)
  <2>1. Calc!TargetLen(s) = w + n + 2 * 2
    BY <1>2, <1>3, <1>11, SepIs DEF Calc!TargetLen, ds
  <2> QED BY <1>1, <2>1
<1>13. Len(s) >= Len(e)
  BY <1>12 DEF Calc!Decodable
<1> QED BY <1>1, <1>11, <1>12, <1>13 DEF ds, e

LEMMA DecodeGives ==
  ASSUME NEW m \in Calc!Messages, NEW n \in 1..4,
         NEW s \in Seq(Calc!Units), NEW t \in Seq(Calc!Units), NEW u \in Seq(Calc!Units),
         Joins(s, t, Calc!Encode(Calc!Text(m, n)), u), Calc!Decodable(s)
  PROVE  /\ Calc!Package(s) = Calc!Text(m, n)
         /\ Calc!Rest(s) \in Seq(Calc!Units) /\ Calc!Rest(s) \o t = u
<1> DEFINE e == Calc!Encode(Calc!Text(m, n))
<1>e. s \o t = e \o u
  BY DEF Joins
<1>w. PICK w : CalcWire(m, n, e, w)
  BY EncodeIs
<1> DEFINE text == Calc!Text(m, n)
           rest == Calc!Rest(s)
<1>1. /\ e \in Seq(Calc!Units) /\ Len(e) = w + n + 4 /\ w \in 1..3
      /\ \A i \in 1..n : e[w + 2 + i] = text[i]
  BY <1>w DEF CalcWire
<1>2. Calc!TargetLen(s) = Len(e) /\ Len(s) >= Len(e) /\ Calc!Header(s) = Calc!Digits(n)
  BY DecodeFinds DEF Joins
<1> HIDE DEF e
<1>3. Calc!Number(Calc!Digits(n)) = n
  BY DigitsAre
<1>4. text \in Seq(Calc!Units) /\ Len(text) = n
  BY TextIs
<1>5. Calc!Package(s) = SubSeq(s, (w + 2) + 1, (w + 2) + n)
  <2>1. Len(Calc!Digits(n)) = w
    BY <1>w DEF CalcWire
  <2> QED BY <2>1, <1>2, <1>3, SepIs DEF Calc!Package
<1>6. rest = SubSeq(s, Len(e) + 1, Len(s))
  BY <1>2 DEF Calc!Rest
<1> HIDE DEF text, rest
<1>7. Len(s) \in Nat /\ Len(t) \in Nat /\ Len(u) \in Nat /\ Len(e) \in Nat
  BY <1>1, LenProperties
<1>8. /\ Len(s \o t) = Len(s) + Len(t) /\ Len(e \o u) = Len(e) + Len(u)
      /\ \A i \in 1..(Len(s) + Len(t)) : (s \o t)[i] = IF i <= Len(s) THEN s[i] ELSE t[i - Len(s)]
      /\ \A i \in 1..(Len(e) + Len(u)) : (e \o u)[i] = IF i <= Len(e) THEN e[i] ELSE u[i - Len(e)]
  BY <1>1, ConcatProperties
<1>9. Len(s) + Len(t) = Len(e) + Len(u)
  BY <1>e, <1>8
<1>10. Calc!Package(s) = text
  <2> DEFINE p == SubSeq(s, (w + 2) + 1, (w + 2) + n)
  <2>1. \A i \in ((w + 2) + 1)..((w + 2) + n) : i \in 1..Len(s)
    BY <1>1, <1>2, <1>7
  <2>2. \A i \in ((w + 2) + 1)..((w + 2) + n) : s[i] \in Calc!Units
    BY <2>1, ElementOfSeq
  <2>3. (w + 2) + 1 \in Int /\ (w + 2) + n \in Int /\ (w + 2) + 1 <= (w + 2) + n /\ ((w + 2) + n) - ((w + 2) + 1) + 1 = n
    BY <1>1
  <2>4. /\ p \in Seq(Calc!Units) /\ Len(p) = n
        /\ \A i \in 1..n : p[i] = s[((w + 2) + 1) + i - 1]
    BY <2>2, <2>3, SubSeqProperties
  <2>5. \A i \in 1..n : s[((w + 2) + 1) + i - 1] = text[i]
    <3> SUFFICES ASSUME NEW i \in 1..n
                 PROVE  s[((w + 2) + 1) + i - 1] = text[i]
      OBVIOUS
    <3>1. ((w + 2) + 1) + i - 1 = w + 2 + i
      BY <1>1
    <3>2. /\ w + 2 + i \in 1..(Len(s) + Len(t)) /\ w + 2 + i \in 1..(Len(e) + Len(u))
          /\ w + 2 + i <= Len(s) /\ w + 2 + i <= Len(e)
      BY <1>1, <1>2, <1>7
    <3>3. s[w + 2 + i] = e[w + 2 + i]
      BY <1>e, <1>8, <3>2
    <3> QED BY <1>1, <3>1, <3>3
  <2> HIDE DEF p
  <2>6. p = text
    BY <1>4, <2>4, <2>5, SeqEqual
  <2> QED BY <1>5, <2>6 DEF p
<1>11. /\ rest \in Seq(Calc!Units) /\ Len(rest) = Len(s) - Len(e)
       /\ \A i \in 1..(Len(s) - Len(e)) : rest[i] = s[Len(e) + i]
  <2>1. \A i \in (Len(e) + 1)..Len(s) : s[i] \in Calc!Units
    <3>1. \A i \in (Len(e) + 1)..Len(s) : i \in 1..Len(s)
      BY <1>7
    <3> QED BY <3>1, ElementOfSeq
  <2>2. Len(e) + 1 \in Int /\ Len(s) \in Int
    BY <1>7
  <2>3. /\ rest \in Seq(Calc!Units)
        /\ Len(rest) = IF Len(e) + 1 <= Len(s) THEN Len(s) - (Len(e) + 1) + 1 ELSE 0
        /\ \A i \in 1..(Len(s) - (Len(e) + 1) + 1) : rest[i] = s[(Len(e) + 1) + i - 1]
    BY <1>6, <2>1, <2>2, SubSeqProperties
  <2>4. Len(s) - (Len(e) + 1) + 1 = Len(s) - Len(e) /\ \A i \in Int : (Len(e) + 1) + i - 1 = Len(e) + i
    BY <1>7
  <2>5. Len(rest) = Len(s) - Len(e)
    BY <1>2, <1>7, <2>3
  <2>6. \A i \in 1..(Len(s) - Len(e)) : rest[i] = s[Len(e) + i]
    <3> SUFFICES ASSUME NEW i \in 1..(Len(s) - Len(e))
                 PROVE  rest[i] = s[Len(e) + i]
      OBVIOUS
    <3>1. i \in 1..(Len(s) - (Len(e) + 1) + 1) /\ (Len(e) + 1) + i - 1 = Len(e) + i
      BY <2>4
    <3> QED BY <2>3, <3>1
  <2> QED BY <2>3, <2>5, <2>6
<1>12. rest \o t = u
  <2> DEFINE r == rest \o t
  <2>1. /\ r \in Seq(Calc!Units) /\ Len(r) = Len(rest) + Len(t)
        /\ \A i \in 1..(Len(rest) + Len(t)) : r[i] = IF i <= Len(rest) THEN rest[i] ELSE t[i - Len(rest)]
    BY <1>11, ConcatProperties
  <2> HIDE DEF r
  <2>2. Len(r) = Len(u)
    BY <1>7, <1>9, <1>11, <2>1
  <2>3. \A i \in 1..Len(r) : r[i] = u[i]
    <3> SUFFICES ASSUME NEW i \in 1..Len(r)
                 PROVE  r[i] = u[i]
      OBVIOUS
    <3>1. /\ Len(e) + i \in 1..(Len(s) + Len(t)) /\ Len(e) + i \in 1..(Len(e) + Len(u))
          /\ ~ (Len(e) + i <= Len(e)) /\ (Len(e) + i) - Len(e) = i
      BY <1>7, <1>9, <2>2
    <3>2. (s \o t)[Len(e) + i] = u[i]
      BY <1>e, <1>8, <3>1
    <3>3. CASE i <= Len(s) - Len(e)
      <4>1. i \in 1..(Len(s) - Len(e)) /\ Len(e) + i <= Len(s) /\ i \in 1..(Len(rest) + Len(t)) /\ i <= Len(rest)
        BY <1>7, <1>11, <2>1, <3>3
      <4> QED BY <1>8, <1>11, <2>1, <3>1, <3>2, <4>1
    <3>4. CASE ~ (i <= Len(s) - Len(e))
      <4>1. ~ (Len(e) + i <= Len(s)) /\ i \in 1..(Len(rest) + Len(t)) /\ ~ (i <= Len(rest)) /\ (Len(e) + i) - Len(s) = i - Len(rest)
        BY <1>7, <1>11, <2>1, <3>4
      <4> QED BY <1>8, <2>1, <3>1, <3>2, <4>1
    <3> QED BY <3>3, <3>4
  <2>4. r = u
    BY <2>1, <2>2, <2>3, SeqEqual
  <2> QED BY <2>4 DEF r
<1> QED BY <1>10, <1>11, <1>12 DEF text, rest

-----------------------------------------------------------------------------
(* What is on the wire: at most two requests, and the answers to them.         *)

LEMMA AsksAre ==
  ASSUME NEW requests, NEW a \in 0..2, NEW b \in 0..2, a <= b
  PROVE  Calc!Asks(requests, a, b) =
            IF b = a THEN <<>>
            ELSE IF b = a + 1 THEN <<>> \o Calc!BuildRequestString(requests[a + 1])
            ELSE (<<>> \o Calc!BuildRequestString(requests[a + 1]))
                     \o Calc!BuildRequestString(requests[a + 2])
<1> DEFINE E(n) == Calc!BuildRequestString(requests[n])
           one == <<>> \o E(a + 1)
           two == one \o E(a + 2)
           g == [n \in a..b |-> IF n = a THEN <<>> ELSE IF n = a + 1 THEN one ELSE two]
           f == CHOOSE h : h = [n \in a..b |-> IF n = a THEN <<>> ELSE h[n - 1] \o E(n)]
<1> HIDE DEF E, one, two
<1>1. \A n \in a..b : g[n] = IF n = a THEN <<>> ELSE g[n - 1] \o E(n)
  <2> SUFFICES ASSUME NEW n \in a..b
               PROVE  g[n] = IF n = a THEN <<>> ELSE g[n - 1] \o E(n)
    OBVIOUS
  <2>1. CASE n = a
    BY <2>1
  <2>2. CASE n = a + 1
    <3>1. n - 1 \in a..b /\ n - 1 = a /\ n # a
      BY <2>2
    <3>2. g[n - 1] = <<>> /\ g[n] = one
      BY <2>2, <3>1
    <3> QED BY <2>2, <3>1, <3>2, Zenon DEF one
  <2>3. CASE n # a /\ n # a + 1
    <3>1. n = a + 2 /\ n - 1 = a + 1 /\ n - 1 \in a..b /\ n - 1 # a
      BY <2>3
    <3>2. g[n - 1] = one /\ g[n] = two
      BY <2>3, <3>1
    <3> QED BY <2>3, <3>1, <3>2, Zenon DEF two
  <2> QED BY <2>1, <2>2, <2>3
<1>2. g = [n \in a..b |-> IF n = a THEN <<>> ELSE g[n - 1] \o E(n)]
  <2>1. g = [n \in a..b |-> g[n]]
    OBVIOUS
  <2> HIDE DEF g
  <2> QED BY <1>1, <2>1
<1> HIDE DEF g
<1>3. f = [n \in a..b |-> IF n = a THEN <<>> ELSE f[n - 1] \o E(n)]
  BY <1>2
<1>4. Calc!Asks(requests, a, b) = f[b]
  BY DEF Calc!Asks, E
<1> HIDE DEF f
<1>5. \A n \in a..b : f[n] = IF n = a THEN <<>> ELSE f[n - 1] \o E(n)
  BY <1>3
<1>6. f[a] = <<>>
  BY <1>5
<1>7. b # a => f[a + 1] = one
  <2>1. b # a => a + 1 \in a..b /\ a + 1 # a /\ (a + 1) - 1 = a
    OBVIOUS
  <2> QED BY <1>5, <1>6, <2>1, Zenon DEF one
<1>8. b # a /\ b # a + 1 => b = a + 2 /\ f[b] = two
  <2>1. b # a /\ b # a + 1 => b = a + 2 /\ a + 2 \in a..b /\ a + 2 # a /\ (a + 2) - 1 = a + 1
    OBVIOUS
  <2> QED BY <1>5, <1>7, <2>1, Zenon DEF two
<1> QED BY <1>4, <1>6, <1>7, <1>8, Zenon DEF one, two, E

LEMMA AnswersAre ==
  ASSUME NEW requests, NEW a \in 0..2, NEW b \in 0..2, a <= b
  PROVE  Calc!Answers(requests, a, b) =
            IF b = a THEN <<>>
            ELSE IF b = a + 1 THEN <<>> \o Calc!Answer(requests[a + 1])
            ELSE (<<>> \o Calc!Answer(requests[a + 1]))
                     \o Calc!Answer(requests[a + 2])
<1> DEFINE E(n) == Calc!Answer(requests[n])
           one == <<>> \o E(a + 1)
           two == one \o E(a + 2)
           g == [n \in a..b |-> IF n = a THEN <<>> ELSE IF n = a + 1 THEN one ELSE two]
           f == CHOOSE h : h = [n \in a..b |-> IF n = a THEN <<>> ELSE h[n - 1] \o E(n)]
<1> HIDE DEF E, one, two
<1>1. \A n \in a..b : g[n] = IF n = a THEN <<>> ELSE g[n - 1] \o E(n)
  <2> SUFFICES ASSUME NEW n \in a..b
               PROVE  g[n] = IF n = a THEN <<>> ELSE g[n - 1] \o E(n)
    OBVIOUS
  <2>1. CASE n = a
    BY <2>1
  <2>2. CASE n = a + 1
    <3>1. n - 1 \in a..b /\ n - 1 = a /\ n # a
      BY <2>2
    <3>2. g[n - 1] = <<>> /\ g[n] = one
      BY <2>2, <3>1
    <3> QED BY <2>2, <3>1, <3>2, Zenon DEF one
  <2>3. CASE n # a /\ n # a + 1
    <3>1. n = a + 2 /\ n - 1 = a + 1 /\ n - 1 \in a..b /\ n - 1 # a
      BY <2>3
    <3>2. g[n - 1] = one /\ g[n] = two
      BY <2>3, <3>1
    <3> QED BY <2>3, <3>1, <3>2, Zenon DEF two
  <2> QED BY <2>1, <2>2, <2>3
<1>2. g = [n \in a..b |-> IF n = a THEN <<>> ELSE g[n - 1] \o E(n)]
  <2>1. g = [n \in a..b |-> g[n]]
    OBVIOUS
  <2> HIDE DEF g
  <2> QED BY <1>1, <2>1
<1> HIDE DEF g
<1>3. f = [n \in a..b |-> IF n = a THEN <<>> ELSE f[n - 1] \o E(n)]
  BY <1>2
<1>4. Calc!Answers(requests, a, b) = f[b]
  BY DEF Calc!Answers, E
<1> HIDE DEF f
<1>5. \A n \in a..b : f[n] = IF n = a THEN <<>> ELSE f[n - 1] \o E(n)
  BY <1>3
<1>6. f[a] = <<>>
  BY <1>5
<1>7. b # a => f[a + 1] = one
  <2>1. b # a => a + 1 \in a..b /\ a + 1 # a /\ (a + 1) - 1 = a
    OBVIOUS
  <2> QED BY <1>5, <1>6, <2>1, Zenon DEF one
<1>8. b # a /\ b # a + 1 => b = a + 2 /\ f[b] = two
  <2>1. b # a /\ b # a + 1 => b = a + 2 /\ a + 2 \in a..b /\ a + 2 # a /\ (a + 2) - 1 = a + 1
    OBVIOUS
  <2> QED BY <1>5, <1>7, <2>1, Zenon DEF two
<1> QED BY <1>4, <1>6, <1>7, <1>8, Zenon DEF one, two, E

LEMMA AskSent ==
  ASSUME NEW r \in Calc!Request
  PROVE  \E n \in 1..4 : Calc!BuildRequestString(r) = Calc!Encode(Calc!Text(r, n))
<1>1. 2 + Calc!Sign(r.x) + Calc!Sign(r.y) \in 1..4
  BY DEF Calc!Sign
<1> QED BY <1>1, Zenon DEF Calc!BuildRequestString, Calc!RequestText

LEMMA AnswerSent ==
  ASSUME NEW r
  PROVE  \E n \in 1..4 : Calc!Answer(r) = Calc!Encode(Calc!Text(Calc!Execute(r), n))
<1> DEFINE e == Calc!Execute(r)
<1> HIDE DEF e
<1>1. 1 + Calc!Sign(e.result) \in 1..4
  BY DEF Calc!Sign
<1>2. Calc!ResponseText(e) = Calc!Text(e, 1 + Calc!Sign(e.result))
  BY Zenon DEF Calc!ResponseText
<1> QED BY <1>1, <1>2, Zenon DEF Calc!Answer, e

LEMMA AskTyped ==
  ASSUME NEW r \in Calc!Request
  PROVE  Calc!BuildRequestString(r) \in Seq(Calc!Units)
<1>1. PICK n \in 1..4 : Calc!BuildRequestString(r) = Calc!Encode(Calc!Text(r, n))
  BY AskSent
<1>2. r \in Calc!Messages
  BY DEF Calc!Messages
<1>3. PICK w : CalcWire(r, n, Calc!Encode(Calc!Text(r, n)), w)
  BY <1>2, EncodeIs
<1> QED BY <1>1, <1>3, Zenon DEF CalcWire

LEMMA AnswerTyped ==
  ASSUME NEW r \in Calc!Request, ~Calc!Traps(r)
  PROVE  Calc!Answer(r) \in Seq(Calc!Units)
<1>1. PICK n \in 1..4 : Calc!Answer(r) = Calc!Encode(Calc!Text(Calc!Execute(r), n))
  BY AnswerSent
<1>2. Calc!Execute(r) \in Calc!Messages
  BY ExecuteRight DEF Calc!Messages
<1>3. PICK w : CalcWire(Calc!Execute(r), n, Calc!Encode(Calc!Text(Calc!Execute(r), n)), w)
  BY <1>2, EncodeIs
<1> QED BY <1>1, <1>3, Zenon DEF CalcWire

LEMMA AsksGrow ==
  ASSUME NEW requests, NEW a \in 0..2, NEW b \in 0..2, a <= b, b < 2,
         \A i \in 1..(b + 1) : requests[i] \in Calc!Request
  PROVE  /\ Calc!Asks(requests, a, b + 1) =
               Calc!Asks(requests, a, b) \o Calc!BuildRequestString(requests[b + 1])
         /\ Calc!Asks(requests, a, b) \in Seq(Calc!Units)
         /\ Calc!BuildRequestString(requests[b + 1]) \in Seq(Calc!Units)
<1> DEFINE E(n) == Calc!BuildRequestString(requests[n])
<1>1. \A i \in 1..(b + 1) : E(i) \in Seq(Calc!Units)
  BY AskTyped
<1> HIDE DEF E
<1>2. a \in 0..1 /\ b \in 0..1 /\ b + 1 \in 0..2 /\ a <= b + 1 /\ b + 1 \in 1..(b + 1)
  OBVIOUS
<1>3. CASE a = b
  <2>1. Calc!Asks(requests, a, b) = <<>> /\ Calc!Asks(requests, a, b + 1) = <<>> \o E(b + 1)
    BY <1>2, <1>3, AsksAre DEF E
  <2> QED BY <1>1, <1>2, <2>1, EmptySeq DEF E
<1>4. CASE a # b
  <2>1. a = 0 /\ b = 1 /\ b = a + 1
    BY <1>2, <1>4
  <2>2. Calc!Asks(requests, a, b) = <<>> \o E(1) /\ Calc!Asks(requests, a, b + 1) = (<<>> \o E(1)) \o E(2)
    BY <1>2, <2>1, AsksAre DEF E
  <2>3. E(1) \in Seq(Calc!Units) /\ E(2) \in Seq(Calc!Units)
    BY <1>1, <1>2, <2>1
  <2>4. <<>> \o E(1) = E(1)
    BY <2>3, ConcatEmptySeq
  <2> QED BY <2>1, <2>2, <2>3, <2>4 DEF E
<1> QED BY <1>3, <1>4

LEMMA AsksFirst ==
  ASSUME NEW requests, NEW a \in 0..2, NEW b \in 0..2, a < b,
         \A i \in 1..b : requests[i] \in Calc!Request
  PROVE  /\ Calc!Asks(requests, a, b) =
               Calc!BuildRequestString(requests[a + 1]) \o Calc!Asks(requests, a + 1, b)
         /\ Calc!Asks(requests, a + 1, b) \in Seq(Calc!Units)
<1> DEFINE E(n) == Calc!BuildRequestString(requests[n])
<1>1. \A i \in 1..b : E(i) \in Seq(Calc!Units)
  BY AskTyped
<1> HIDE DEF E
<1>2. CASE b = a + 1
  <2>1. Calc!Asks(requests, a, b) = <<>> \o E(a + 1) /\ Calc!Asks(requests, a + 1, b) = <<>>
    BY <1>2, AsksAre DEF E
  <2>2. E(a + 1) \in Seq(Calc!Units)
    BY <1>1, <1>2
  <2>3. <<>> \o E(a + 1) = E(a + 1) /\ E(a + 1) \o <<>> = E(a + 1)
    BY <2>2, ConcatEmptySeq
  <2> QED BY <2>1, <2>3, EmptySeq DEF E
<1>3. CASE b # a + 1
  <2>1. a = 0 /\ b = 2
    BY <1>3
  <2>2. Calc!Asks(requests, a, b) = (<<>> \o E(1)) \o E(2) /\ Calc!Asks(requests, a + 1, b) = <<>> \o E(2)
    <3>1. a + 1 = 1 /\ a + 2 = 2 /\ b # a /\ b # a + 1 /\ 1 + 1 = 2 /\ a <= b /\ a + 1 <= b
      BY <2>1
    <3>2. Calc!Asks(requests, a, b) = (<<>> \o E(a + 1)) \o E(a + 2)
      BY <3>1, AsksAre, Zenon DEF E
    <3>3. a + 1 \in 0..2 /\ b = (a + 1) + 1 /\ b # a + 1
      BY <2>1
    <3>4. Calc!Asks(requests, a + 1, b) = <<>> \o E((a + 1) + 1)
      BY <3>1, <3>3, AsksAre, Zenon DEF E
    <3> QED BY <3>1, <3>2, <3>4
  <2>3. E(1) \in Seq(Calc!Units) /\ E(2) \in Seq(Calc!Units)
    BY <1>1, <2>1
  <2>4. <<>> \o E(1) = E(1) /\ <<>> \o E(2) = E(2)
    BY <2>3, ConcatEmptySeq
  <2> QED BY <2>1, <2>2, <2>3, <2>4 DEF E
<1> QED BY <1>2, <1>3

LEMMA AnswersGrow ==
  ASSUME NEW requests, NEW a \in 0..2, NEW b \in 0..2, a <= b, b < 2,
         \A i \in 1..(b + 1) : requests[i] \in Calc!Request /\ ~Calc!Traps(requests[i])
  PROVE  /\ Calc!Answers(requests, a, b + 1) =
               Calc!Answers(requests, a, b) \o Calc!Answer(requests[b + 1])
         /\ Calc!Answers(requests, a, b) \in Seq(Calc!Units)
         /\ Calc!Answer(requests[b + 1]) \in Seq(Calc!Units)
<1> DEFINE E(n) == Calc!Answer(requests[n])
<1>1. \A i \in 1..(b + 1) : E(i) \in Seq(Calc!Units)
  BY AnswerTyped
<1> HIDE DEF E
<1>2. a \in 0..1 /\ b \in 0..1 /\ b + 1 \in 0..2 /\ a <= b + 1 /\ b + 1 \in 1..(b + 1)
  OBVIOUS
<1>3. CASE a = b
  <2>1. Calc!Answers(requests, a, b) = <<>> /\ Calc!Answers(requests, a, b + 1) = <<>> \o E(b + 1)
    BY <1>2, <1>3, AnswersAre DEF E
  <2> QED BY <1>1, <1>2, <2>1, EmptySeq DEF E
<1>4. CASE a # b
  <2>1. a = 0 /\ b = 1 /\ b = a + 1
    BY <1>2, <1>4
  <2>2. Calc!Answers(requests, a, b) = <<>> \o E(1) /\ Calc!Answers(requests, a, b + 1) = (<<>> \o E(1)) \o E(2)
    BY <1>2, <2>1, AnswersAre DEF E
  <2>3. E(1) \in Seq(Calc!Units) /\ E(2) \in Seq(Calc!Units)
    BY <1>1, <1>2, <2>1
  <2>4. <<>> \o E(1) = E(1)
    BY <2>3, ConcatEmptySeq
  <2> QED BY <2>1, <2>2, <2>3, <2>4 DEF E
<1> QED BY <1>3, <1>4

LEMMA AnswersFirst ==
  ASSUME NEW requests, NEW a \in 0..2, NEW b \in 0..2, a < b,
         \A i \in 1..b : requests[i] \in Calc!Request /\ ~Calc!Traps(requests[i])
  PROVE  /\ Calc!Answers(requests, a, b) =
               Calc!Answer(requests[a + 1]) \o Calc!Answers(requests, a + 1, b)
         /\ Calc!Answers(requests, a + 1, b) \in Seq(Calc!Units)
<1> DEFINE E(n) == Calc!Answer(requests[n])
<1>1. \A i \in 1..b : E(i) \in Seq(Calc!Units)
  BY AnswerTyped
<1> HIDE DEF E
<1>2. CASE b = a + 1
  <2>1. Calc!Answers(requests, a, b) = <<>> \o E(a + 1) /\ Calc!Answers(requests, a + 1, b) = <<>>
    BY <1>2, AnswersAre DEF E
  <2>2. E(a + 1) \in Seq(Calc!Units)
    BY <1>1, <1>2
  <2>3. <<>> \o E(a + 1) = E(a + 1) /\ E(a + 1) \o <<>> = E(a + 1)
    BY <2>2, ConcatEmptySeq
  <2> QED BY <2>1, <2>3, EmptySeq DEF E
<1>3. CASE b # a + 1
  <2>1. a = 0 /\ b = 2
    BY <1>3
  <2>2. Calc!Answers(requests, a, b) = (<<>> \o E(1)) \o E(2) /\ Calc!Answers(requests, a + 1, b) = <<>> \o E(2)
    <3>1. a + 1 = 1 /\ a + 2 = 2 /\ b # a /\ b # a + 1 /\ 1 + 1 = 2 /\ a <= b /\ a + 1 <= b
      BY <2>1
    <3>2. Calc!Answers(requests, a, b) = (<<>> \o E(a + 1)) \o E(a + 2)
      BY <3>1, AnswersAre, Zenon DEF E
    <3>3. a + 1 \in 0..2 /\ b = (a + 1) + 1 /\ b # a + 1
      BY <2>1
    <3>4. Calc!Answers(requests, a + 1, b) = <<>> \o E((a + 1) + 1)
      BY <3>1, <3>3, AnswersAre, Zenon DEF E
    <3> QED BY <3>1, <3>2, <3>4
  <2>3. E(1) \in Seq(Calc!Units) /\ E(2) \in Seq(Calc!Units)
    BY <1>1, <2>1
  <2>4. <<>> \o E(1) = E(1) /\ <<>> \o E(2) = E(2)
    BY <2>3, ConcatEmptySeq
  <2> QED BY <2>1, <2>2, <2>3, <2>4 DEF E
<1> QED BY <1>2, <1>3

-----------------------------------------------------------------------------
LEMMA CutAnywhere ==
  ASSUME NEW S, NEW s \in Seq(S), NEW k \in 1..Len(s)
  PROVE  /\ SubSeq(s, 1, k) \in Seq(S) /\ SubSeq(s, k + 1, Len(s)) \in Seq(S)
         /\ SubSeq(s, 1, k) \o SubSeq(s, k + 1, Len(s)) = s
<1>1. Len(s) \in Nat
  BY LenProperties
<1>2. \A i \in 1..k : s[i] \in S
  BY <1>1, ElementOfSeq
<1>3. \A i \in (k + 1)..Len(s) : s[i] \in S
  BY <1>1, ElementOfSeq
<1>4. SubSeq(s, 1, k) \in Seq(S)
  BY <1>1, <1>2, SubSeqProperties
<1>5. SubSeq(s, k + 1, Len(s)) \in Seq(S)
  BY <1>1, <1>3, SubSeqProperties
<1>6. 1 \in 1..(Len(s) + 1) /\ k \in (1 - 1)..Len(s) /\ Len(s) \in k..Len(s)
  BY <1>1
<1>7. SubSeq(s, 1, k) \o SubSeq(s, k + 1, Len(s)) = SubSeq(s, 1, Len(s))
  BY <1>6, ConcatAdjacentSubSeq
<1> QED BY <1>4, <1>5, <1>7, SubSeqFull

LEMMA NothingDecodes ==
  ASSUME NEW s \in Seq(Calc!Units), NEW t \in Seq(Calc!Units), s \o t = <<>>
  PROVE  s = <<>> /\ t = <<>> /\ ~Calc!Decodable(s)
<1>1. Len(s) + Len(t) = 0
  <2>1. Len(s \o t) = Len(s) + Len(t)
    BY ConcatProperties
  <2> QED BY <2>1
<1>2. s = <<>> /\ t = <<>>
  BY <1>1, LenProperties, EmptySeq
<1>3. Calc!Seps(<<>>) = {}
  BY DEF Calc!Seps
<1> QED BY <1>2, <1>3 DEF Calc!Decodable

LEMMA AnswerSays ==
  ASSUME NEW r \in Calc!Request, ~Calc!Traps(r)
  PROVE  Calc!Answer(r) \in Seq(Calc!Units) /\ Len(Calc!Answer(r)) > 0
<1>1. PICK n \in 1..4 : Calc!Answer(r) = Calc!Encode(Calc!Text(Calc!Execute(r), n))
  BY AnswerSent
<1>2. Calc!Execute(r) \in Calc!Messages
  BY ExecuteRight DEF Calc!Messages
<1>3. PICK w : CalcWire(Calc!Execute(r), n, Calc!Encode(Calc!Text(Calc!Execute(r), n)), w)
  BY <1>2, EncodeIs
<1> QED BY <1>1, <1>3 DEF CalcWire

(* A stream that begins with a message gives the message.                      *)
LEMMA RequestTaken ==
  ASSUME NEW r \in Calc!Request, NEW s \in Seq(Calc!Units), NEW t \in Seq(Calc!Units),
         NEW u \in Seq(Calc!Units), Joins(s, t, Calc!BuildRequestString(r), u), Calc!Decodable(s)
  PROVE  /\ Calc!Reads(Calc!Package(s)) /\ Calc!Deserialize(Calc!Package(s)) = r
         /\ Calc!Rest(s) \in Seq(Calc!Units) /\ Calc!Rest(s) \o t = u
<1>1. PICK n \in 1..4 : Calc!BuildRequestString(r) = Calc!Encode(Calc!Text(r, n))
  BY AskSent
<1>2. r \in Calc!Messages
  BY DEF Calc!Messages
<1>3. /\ Calc!Package(s) = Calc!Text(r, n)
      /\ Calc!Rest(s) \in Seq(Calc!Units) /\ Calc!Rest(s) \o t = u
  <2>1. Joins(s, t, Calc!Encode(Calc!Text(r, n)), u)
    BY <1>1, Zenon
  <2> QED BY <1>1, <1>2, <2>1, DecodeGives
<1> QED BY <1>2, <1>3, TextIs

LEMMA AnswerTaken ==
  ASSUME NEW r \in Calc!Request, ~Calc!Traps(r),
         NEW s \in Seq(Calc!Units), NEW t \in Seq(Calc!Units),
         NEW u \in Seq(Calc!Units), Joins(s, t, Calc!Answer(r), u), Calc!Decodable(s)
  PROVE  /\ Calc!Reads(Calc!Package(s)) /\ Calc!Deserialize(Calc!Package(s)) = Calc!Execute(r)
         /\ Calc!Rest(s) \in Seq(Calc!Units) /\ Calc!Rest(s) \o t = u
<1>1. PICK n \in 1..4 : Calc!Answer(r) = Calc!Encode(Calc!Text(Calc!Execute(r), n))
  BY AnswerSent
<1>2. Calc!Execute(r) \in Calc!Messages
  BY ExecuteRight DEF Calc!Messages
<1>3. /\ Calc!Package(s) = Calc!Text(Calc!Execute(r), n)
      /\ Calc!Rest(s) \in Seq(Calc!Units) /\ Calc!Rest(s) \o t = u
  <2>1. Joins(s, t, Calc!Encode(Calc!Text(Calc!Execute(r), n)), u)
    BY <1>1, Zenon
  <2> QED BY <1>1, <1>2, <2>1, DecodeGives
<1> QED BY <1>2, <1>3, TextIs

-----------------------------------------------------------------------------
LEMMA CalcTypes ==
  ASSUME Calc!CalcInv
  PROVE  /\ r2 \in Batches /\ Len(r2) \in 1..2 /\ r3 \in 0..Len(r2) /\ r3 \in 0..2
         /\ \A i \in 1..Len(r2) : r2[i] \in Calc!Request
         /\ r4 \in {"recv", "decode", "trapped"} /\ r7 \in {"input", "recv", "spin", "left"}
         /\ r11 \in Seq(Calc!Response) /\ Len(r11) \in Nat
         /\ r5 \in Seq(Calc!Units) /\ r9 \in Seq(Calc!Units)
         /\ r8 \in Seq(Calc!Units) /\ r10 \in Seq(Calc!Units) /\ r6 \in Seq(Calc!Units)
<1>1. r2 \in Batches /\ r3 \in 0..Len(r2) /\ r11 \in Seq(Calc!Response)
  BY DEF Calc!CalcInv, Calc!TypeOK
<1>2. Len(r2) \in 1..2 /\ \A i \in 1..Len(r2) : r2[i] \in Calc!Request
  BY <1>1, BatchesAre
<1>3. r3 \in 0..2 /\ Len(r11) \in Nat
  BY <1>1, <1>2, LenProperties
<1> QED BY <1>1, <1>2, <1>3, Zenon DEF Calc!CalcInv, Calc!TypeOK, Calc!StreamsTyped

LEMMA CalcInit ==
  ASSUME Calc!Init
  PROVE  Calc!CalcInv
<1>1. /\ r2 \in Batches /\ r3 = 0 /\ r4 = "recv" /\ r5 = <<>> /\ r6 = <<>> /\ r7 = "input"
      /\ r8 = <<>> /\ r9 = <<>> /\ r10 = <<>> /\ r11 = <<>> /\ r1 \in {"netcal", "reactor"}
  BY DEF Calc!Init
<1>2. /\ r2 \in Seq(Calc!Request) /\ Len(r2) \in 1..2 /\ <<>> \in Seq(Calc!Response)
      /\ <<>> \in Seq(Calc!Units) /\ Len(<<>>) = 0
  BY <1>1, BatchesAre, EmptySeq
<1>3. Calc!TypeOK /\ Calc!StreamsTyped
  BY <1>1, <1>2 DEF Calc!TypeOK, Calc!StreamsTyped
<1>4. Calc!Asks(r2, 0, 0) = <<>> /\ Calc!Answers(r2, 0, 0) = <<>> /\ <<>> \o <<>> = <<>>
  BY <1>2, AsksAre, AnswersAre, ConcatEmptySeq
<1>5. Calc!ServerSide(0)
  BY <1>1, <1>4 DEF Calc!ServerSide
<1>6. Calc!ClientSide(0, 0)
  BY <1>1, <1>2, <1>4 DEF Calc!ClientSide
<1>7. Calc!OneUnderWay(0, 0) /\ Calc!ClientReader(0)
  BY <1>1, <1>2 DEF Calc!OneUnderWay, Calc!ClientReader
<1>8. 0 \in 0..r3
  BY <1>1
<1> QED BY <1>1, <1>3, <1>5, <1>6, <1>7, <1>8, Zenon DEF Calc!CalcInv

LEMMA AskKeepsCalc ==
  ASSUME Calc!CalcInv, Calc!Ask
  PROVE  Calc!CalcInv'
<1> DEFINE E == Calc!BuildRequestString(r2[r3 + 1])
<1>1. /\ r3 < Len(r2) /\ (r7 = "input" \/ r1 = "reactor") /\ r3' = r3 + 1 /\ r9' = r9 \o E
      /\ r7' = "recv" /\ UNCHANGED <<r1, r2, r4, r5, r6, r8, r10, r11>>
  BY DEF Calc!Ask
<1>2. PICK got, done \in 0..r3 :
         /\ Calc!ServerSide(done) /\ Calc!ClientSide(got, done)
         /\ r1 = "netcal" => Calc!OneUnderWay(got, done)
         /\ r1 = "reactor" => Calc!ClientReader(got)
  BY DEF Calc!CalcInv
<1>3. E \in Seq(Calc!Units)
  BY <1>1, CalcTypes, AskTyped
<1> HIDE DEF E
<1>4. Calc!TypeOK' /\ Calc!StreamsTyped'
  <2>1. r9' \in Seq(Calc!Units)
    BY <1>1, <1>3, CalcTypes, ConcatProperties
  <2>2. r3' \in 0..Len(r2)
    BY <1>1, CalcTypes
  <2> QED BY <1>1, <2>1, <2>2 DEF Calc!CalcInv, Calc!TypeOK, Calc!StreamsTyped
<1>5. Calc!ServerSide(done)'
  <2> DEFINE taken == IF r4 = "trapped" THEN done + 1 ELSE done
  <2>1. taken <= r3 /\ r5 \o r9 = Calc!Asks(r2, taken, r3) /\ taken \in 0..2
    BY <1>2, CalcTypes DEF Calc!ServerSide
  <2>2. Calc!Asks(r2, taken, r3 + 1) = Calc!Asks(r2, taken, r3) \o E
    <3>1. r3 < 2 /\ \A i \in 1..(r3 + 1) : r2[i] \in Calc!Request
      <4>1. r3 < Len(r2) /\ Len(r2) \in 1..2 /\ r3 \in 0..2
        BY <1>1, CalcTypes, Zenon
      <4>2. \A i \in 1..(r3 + 1) : i \in 1..Len(r2)
        BY <4>1
      <4>3. r3 < 2
        <5>1. \A n, k : n \in 1..2 /\ k \in 0..2 /\ k < n => k < 2
          OBVIOUS
        <5> QED BY <4>1, <5>1, Zenon
      <4>4. \A i \in 1..Len(r2) : r2[i] \in Calc!Request
        BY CalcTypes, Zenon
      <4> QED BY <4>2, <4>3, <4>4, Zenon
    <3> QED BY <2>1, <3>1, CalcTypes, AsksGrow DEF E
  <2>3. r5 \o (r9 \o E) = (r5 \o r9) \o E
    <3>1. r5 \in Seq(Calc!Units) /\ r9 \in Seq(Calc!Units)
      BY CalcTypes, Zenon
    <3> QED BY <1>3, <3>1, ConcatAssociative, SMTT(30)
  <2>4. taken <= r3'
    BY <1>1, <2>1, CalcTypes
  <2> QED BY <1>1, <1>2, <2>1, <2>2, <2>3, <2>4, Zenon DEF Calc!ServerSide
<1>6. Calc!ClientSide(got, done)'
  <2>1. r7 # "left"
    BY <1>1, <1>2, CalcTypes DEF Calc!ClientReader
  <2> QED BY <1>1, <1>2, <2>1 DEF Calc!ClientSide
<1>7. r1 = "netcal" => Calc!OneUnderWay(got, done)'
  BY <1>1, <1>2, CalcTypes DEF Calc!OneUnderWay
<1>8. r1 = "reactor" => Calc!ClientReader(got)'
  BY <1>1, <1>2 DEF Calc!ClientReader
<1>9. got \in 0..r3' /\ done \in 0..r3'
  BY <1>1, CalcTypes
<1> QED BY <1>1, <1>4, <1>5, <1>6, <1>7, <1>8, <1>9 DEF Calc!CalcInv

LEMMA ServerRecvKeepsCalc ==
  ASSUME Calc!CalcInv, Calc!ServerRecv
  PROVE  Calc!CalcInv'
<1>1. PICK k \in Calc!Chunks(r9) :
         /\ r5' = r5 \o SubSeq(r9, 1, k) /\ r9' = SubSeq(r9, k + 1, Len(r9))
         /\ r4 = "recv" /\ r4' = "decode" /\ UNCHANGED <<r1, r2, r3, r6, r7, r8, r10, r11>>
  BY DEF Calc!ServerRecv
<1>2. PICK got, done \in 0..r3 :
         /\ Calc!ServerSide(done) /\ Calc!ClientSide(got, done)
         /\ r1 = "netcal" => Calc!OneUnderWay(got, done)
         /\ r1 = "reactor" => Calc!ClientReader(got)
  BY DEF Calc!CalcInv
<1>3. r5 \in Seq(Calc!Units) /\ r9 \in Seq(Calc!Units)
  BY CalcTypes, Zenon
<1>4. k \in 1..Len(r9)
  BY <1>1, <1>3, LenProperties, CalculatorAssumption DEF Calc!Chunks
<1> DEFINE a == SubSeq(r9, 1, k)
           b == SubSeq(r9, k + 1, Len(r9))
<1>5. a \in Seq(Calc!Units) /\ b \in Seq(Calc!Units) /\ a \o b = r9
  BY <1>3, <1>4, CutAnywhere
<1>6. r5' = r5 \o a /\ r9' = b
  BY <1>1
<1> HIDE DEF a, b
<1>7. (r5 \o a) \o b = r5 \o r9 /\ r5 \o a \in Seq(Calc!Units)
  <2>1. (r5 \o a) \o b = r5 \o (a \o b)
    <3>1. r5 \in Seq(Calc!Units) /\ a \in Seq(Calc!Units) /\ b \in Seq(Calc!Units)
      BY <1>3, <1>5
    <3> QED BY <3>1, ConcatAssociative
  <2>2. r5 \o a \in Seq(Calc!Units)
    BY <1>3, <1>5, ConcatProperties
  <2> QED BY <1>5, <2>1, <2>2
<1>8. Calc!TypeOK' /\ Calc!StreamsTyped'
  BY <1>1, <1>5, <1>6, <1>7 DEF Calc!CalcInv, Calc!TypeOK, Calc!StreamsTyped
<1>9. Calc!ServerSide(done)'
  <2>1. r4 # "trapped" /\ r4' # "trapped"
    BY <1>1
  <2> QED BY <1>1, <1>2, <1>6, <1>7, <2>1, Zenon DEF Calc!ServerSide
<1>10. Calc!ClientSide(got, done)'
  BY <1>1, <1>2 DEF Calc!ClientSide
<1>11. r1 = "netcal" => Calc!OneUnderWay(got, done)'
  <2>1. r4 # "trapped" /\ r4' # "trapped"
    BY <1>1
  <2> QED BY <1>1, <1>2, <2>1 DEF Calc!OneUnderWay
<1>12. r1 = "reactor" => Calc!ClientReader(got)'
  BY <1>1, <1>2 DEF Calc!ClientReader
<1> QED BY <1>1, <1>2, <1>8, <1>9, <1>10, <1>11, <1>12 DEF Calc!CalcInv

LEMMA HandlerDoneKeepsCalc ==
  ASSUME Calc!CalcInv, Calc!HandlerDone
  PROVE  Calc!CalcInv'
<1>1. /\ r10' = r10 \o r6 /\ r6' = <<>> /\ r4 = "decode" /\ r4' = "recv"
      /\ UNCHANGED <<r1, r2, r3, r5, r7, r8, r9, r11>>
  BY DEF Calc!HandlerDone
<1>2. PICK got, done \in 0..r3 :
         /\ Calc!ServerSide(done) /\ Calc!ClientSide(got, done)
         /\ r1 = "netcal" => Calc!OneUnderWay(got, done)
         /\ r1 = "reactor" => Calc!ClientReader(got)
  BY DEF Calc!CalcInv
<1>3. r6 \in Seq(Calc!Units) /\ r8 \in Seq(Calc!Units) /\ r10 \in Seq(Calc!Units)
  BY CalcTypes, Zenon
<1>4. r10 \o r6 \in Seq(Calc!Units) /\ <<>> \in Seq(Calc!Units)
  BY <1>3, ConcatProperties, EmptySeq
<1>5. (r8 \o (r10 \o r6)) \o <<>> = (r8 \o r10) \o r6
  <2>1. r8 \o (r10 \o r6) = (r8 \o r10) \o r6
    BY <1>3, ConcatAssociative, SMTT(30)
  <2>2. r8 \o (r10 \o r6) \in Seq(Calc!Units)
    BY <1>3, <1>4, ConcatProperties
  <2> QED BY <2>1, <2>2, ConcatEmptySeq
<1>6. Calc!TypeOK' /\ Calc!StreamsTyped'
  BY <1>1, <1>4 DEF Calc!CalcInv, Calc!TypeOK, Calc!StreamsTyped
<1>7. r4 # "trapped" /\ r4' # "trapped"
  BY <1>1
<1>8. Calc!ServerSide(done)'
  BY <1>1, <1>2, <1>7, Zenon DEF Calc!ServerSide
<1>9. Calc!ClientSide(got, done)'
  BY <1>1, <1>2, <1>5, Zenon DEF Calc!ClientSide
<1>10. r1 = "netcal" => Calc!OneUnderWay(got, done)'
  BY <1>1, <1>2, <1>7 DEF Calc!OneUnderWay
<1>11. r1 = "reactor" => Calc!ClientReader(got)'
  BY <1>1, <1>2 DEF Calc!ClientReader
<1> QED BY <1>1, <1>2, <1>6, <1>8, <1>9, <1>10, <1>11 DEF Calc!CalcInv

LEMMA ExcuteKeepsCalc ==
  ASSUME Calc!CalcInv, Calc!Excute
  PROVE  Calc!CalcInv'
<1>1. /\ r4 = "decode" /\ Calc!Decodable(r5) /\ r5' = Calc!Rest(r5)
      /\ UNCHANGED <<r1, r2, r3, r7, r8, r9, r11>>
  BY DEF Calc!Excute
<1>2. PICK got, done \in 0..r3 :
         /\ Calc!ServerSide(done) /\ Calc!ClientSide(got, done)
         /\ r1 = "netcal" => Calc!OneUnderWay(got, done)
         /\ r1 = "reactor" => Calc!ClientReader(got)
  BY DEF Calc!CalcInv
<1>3. /\ r3 \in 0..2 /\ r3 \in 0..Len(r2) /\ Len(r2) \in 1..2 /\ got \in 0..2 /\ done \in 0..2
      /\ \A i \in 1..r3 : r2[i] \in Calc!Request
  <2>1. /\ r3 \in 0..2 /\ r3 \in 0..Len(r2) /\ Len(r2) \in 1..2
        /\ \A i \in 1..Len(r2) : r2[i] \in Calc!Request
    BY CalcTypes, Zenon
  <2>2. \A i \in 1..r3 : i \in 1..Len(r2)
    BY <2>1
  <2>3. got \in 0..2 /\ done \in 0..2
    BY <1>2, <2>1
  <2> QED BY <2>1, <2>2, <2>3
<1>4. /\ r5 \in Seq(Calc!Units) /\ r9 \in Seq(Calc!Units) /\ r6 \in Seq(Calc!Units)
      /\ r8 \in Seq(Calc!Units) /\ r10 \in Seq(Calc!Units)
  BY CalcTypes, Zenon
<1>5. /\ r5 \o r9 = Calc!Asks(r2, done, r3) /\ done <= r3
      /\ \A i \in 1..done : ~Calc!Traps(r2[i])
  BY <1>1, <1>2 DEF Calc!ServerSide
<1>6. done < r3
  <2>1. done = r3 => Calc!Asks(r2, done, r3) = <<>>
    BY <1>3, <1>5, AsksAre
  <2>2. done # r3
    BY <1>1, <1>4, <1>5, <2>1, NothingDecodes
  <2> QED BY <1>3, <1>5, <2>2
<1> DEFINE r == r2[done + 1]
           u == Calc!Asks(r2, done + 1, r3)
<1>7. r \in Calc!Request
  BY <1>3, <1>6
<1>8. u \in Seq(Calc!Units) /\ Calc!Asks(r2, done, r3) = Calc!BuildRequestString(r) \o u
  BY <1>3, <1>6, AsksFirst
<1>9. /\ done + 1 \in 0..r3 /\ done + 1 <= r3 /\ done < 2 /\ done + 1 \in 0..2
      /\ \A i \in 1..(done + 1) : i \in 1..r3
  BY <1>3, <1>6
<1> HIDE DEF u
<1>10. Joins(r5, r9, Calc!BuildRequestString(r), u)
  BY <1>5, <1>8, Zenon DEF Joins
<1> HIDE DEF r
<1>11. /\ Calc!Reads(Calc!Package(r5)) /\ Calc!Deserialize(Calc!Package(r5)) = r
       /\ Calc!Rest(r5) \in Seq(Calc!Units) /\ Calc!Rest(r5) \o r9 = u
  BY <1>1, <1>4, <1>7, <1>8, <1>10, RequestTaken
<1>12. CASE Calc!Traps(r)
  <2>1. r4' = "trapped" /\ r10' = r10 /\ r6' = r6
    BY <1>11, <1>12 DEF Calc!Excute
  <2>2. Calc!TypeOK' /\ Calc!StreamsTyped'
    BY <1>1, <1>11, <2>1 DEF Calc!CalcInv, Calc!TypeOK, Calc!StreamsTyped
  <2>3. Calc!ServerSide(done)'
    <3>1. r5' \o r9' = Calc!Asks(r2', done + 1, r3')
      BY <1>1, <1>11 DEF u
    <3>2. Calc!Traps(r2'[done + 1])
      BY <1>1, <1>12 DEF r
    <3> QED BY <1>1, <1>5, <1>9, <2>1, <3>1, <3>2, Zenon DEF Calc!ServerSide
  <2>4. Calc!ClientSide(got, done)'
    BY <1>1, <1>2, <2>1, Zenon DEF Calc!ClientSide
  <2>5. r1 = "netcal" => Calc!OneUnderWay(got, done)'
    BY <1>1, <1>2, <2>1 DEF Calc!OneUnderWay
  <2>6. r1 = "reactor" => Calc!ClientReader(got)'
    BY <1>1, <1>2 DEF Calc!ClientReader
  <2> QED BY <1>1, <1>2, <2>2, <2>3, <2>4, <2>5, <2>6 DEF Calc!CalcInv
<1>13. CASE ~Calc!Traps(r)
  <2> DEFINE A == Calc!Answer(r)
  <2>1. /\ r4' = r4
        /\ r1 = "netcal" => r10' = r10 \o A /\ r6' = <<>>
        /\ r1 # "netcal" => r10' = r10 /\ r6' = r6 \o A
    BY <1>11, <1>13 DEF Calc!Excute, Calc!Answer
  <2>2. \A i \in 1..(done + 1) : r2[i] \in Calc!Request /\ ~Calc!Traps(r2[i])
    <3>1. \A i \in 1..(done + 1) : i \in 1..done \/ i = done + 1
      BY <1>3
    <3> QED BY <1>3, <1>5, <1>9, <1>13, <3>1, Zenon DEF r
  <2>3. got <= done /\ got <= Len(r11) /\ \A i \in 1..got : r11[i] = Calc!Execute(r2[i])
    BY <1>2 DEF Calc!ClientSide
  <2>4. /\ Calc!Answers(r2, got, done + 1) = Calc!Answers(r2, got, done) \o A
        /\ A \in Seq(Calc!Units)
    BY <1>3, <1>9, <2>2, <2>3, AnswersGrow DEF r
  <2> HIDE DEF A
  <2>5. r10' \in Seq(Calc!Units) /\ r6' \in Seq(Calc!Units)
    <3>1. r10 \o A \in Seq(Calc!Units) /\ r6 \o A \in Seq(Calc!Units) /\ <<>> \in Seq(Calc!Units)
      BY <1>4, <2>4, ConcatProperties, EmptySeq
    <3> QED BY <1>4, <2>1, <3>1, Zenon
  <2>6. Calc!TypeOK' /\ Calc!StreamsTyped'
    BY <1>1, <1>11, <2>1, <2>5 DEF Calc!CalcInv, Calc!TypeOK, Calc!StreamsTyped
  <2>7. Calc!ServerSide(done + 1)'
    <3>1. r5' \o r9' = Calc!Asks(r2', done + 1, r3')
      BY <1>1, <1>11 DEF u
    <3>2. r4' # "trapped"
      BY <1>1, <2>1
    <3> QED BY <1>1, <1>9, <2>2, <3>1, <3>2, Zenon DEF Calc!ServerSide
  <2>8. (r8 \o r10') \o r6' = ((r8 \o r10) \o r6) \o A
    <3>1. (r8 \o (r10 \o A)) \o <<>> = ((r8 \o r10) \o <<>>) \o A
      <4>1. r8 \o r10 \in Seq(Calc!Units) /\ r10 \o A \in Seq(Calc!Units)
        BY <1>4, <2>4, ConcatProperties
      <4>2. r8 \o (r10 \o A) \in Seq(Calc!Units)
        BY <1>4, <4>1, ConcatProperties
      <4>3. (r8 \o (r10 \o A)) \o <<>> = r8 \o (r10 \o A) /\ (r8 \o r10) \o <<>> = r8 \o r10
        BY <4>1, <4>2, ConcatEmptySeq
      <4>4. (r8 \o r10) \o A = r8 \o (r10 \o A)
        <5>1. A \in Seq(Calc!Units)
          BY <2>4
        <5>2. r8 \in Seq(Calc!Units) /\ r10 \in Seq(Calc!Units) /\ A \in Seq(Calc!Units)
          BY <1>4, <5>1, Zenon
        <5> QED BY <5>2, ConcatAssociative
      <4> QED BY <4>3, <4>4, Zenon
    <3>4. (r8 \o r10) \o (r6 \o A) = ((r8 \o r10) \o r6) \o A
      <4> DEFINE x == r8 \o r10
      <4>1. x \in Seq(Calc!Units)
        BY <1>4, ConcatProperties
      <4>2. A \in Seq(Calc!Units)
        BY <2>4
      <4> HIDE DEF x
      <4>3. x \in Seq(Calc!Units) /\ r6 \in Seq(Calc!Units) /\ A \in Seq(Calc!Units)
        BY <1>4, <4>1, <4>2, Zenon
      <4>4. x \o (r6 \o A) = (x \o r6) \o A
        BY <4>3, ConcatAssociative
      <4> QED BY <4>4, Zenon DEF x
    <3>2. CASE r1 = "netcal"
      <4>1. r6 = <<>>
        BY <1>2, <3>2 DEF Calc!OneUnderWay
      <4> QED BY <2>1, <3>1, <3>2, <4>1, Zenon
    <3>3. CASE r1 # "netcal"
      BY <2>1, <3>4, <3>3, Zenon
    <3> QED BY <3>2, <3>3, Zenon
  <2>9. Calc!ClientSide(got, done + 1)'
    <3>1. r7 # "left" => (r8 \o r10) \o r6 = Calc!Answers(r2, got, done)
      BY <1>2, Zenon DEF Calc!ClientSide
    <3>2. r7' # "left" => (r8' \o r10') \o r6' = Calc!Answers(r2', got, done + 1)
      BY <1>1, <2>4, <2>8, <3>1, Zenon
    <3>3. got <= done + 1
      BY <1>3, <2>3
    <3> QED BY <1>1, <2>3, <3>2, <3>3, Zenon DEF Calc!ClientSide
  <2>10. r1 = "netcal" => Calc!OneUnderWay(got, done + 1)'
    <3>1. r4' # "trapped" /\ r4 # "trapped"
      BY <1>1, <2>1
    <3> QED BY <1>1, <1>2, <2>1, <3>1 DEF Calc!OneUnderWay
  <2>11. r1 = "reactor" => Calc!ClientReader(got)'
    BY <1>1, <1>2 DEF Calc!ClientReader
  <2>12. got \in 0..r3' /\ done + 1 \in 0..r3' /\ r2' \in Batches /\ r1' \in {"netcal", "reactor"}
    BY <1>1, <1>2, <1>9 DEF Calc!CalcInv
  <2> QED BY <1>1, <2>6, <2>7, <2>9, <2>10, <2>11, <2>12, Zenon DEF Calc!CalcInv
<1> QED BY <1>12, <1>13

(* What the client reads is the next answer, and the answers after it stay.    *)
Holds(s, t, w) == s \o t = w

LEMMA AnswerShown ==
  ASSUME Calc!CalcInv, NEW got \in 0..r3, NEW done \in 0..r3, Calc!ServerSide(done),
         Calc!ClientSide(got, done), NEW s \in Seq(Calc!Units), NEW t \in Seq(Calc!Units),
         Holds(s, t, Calc!Answers(r2, got, done)), Calc!Decodable(s)
  PROVE  /\ got < done /\ Calc!Reads(Calc!Package(s))
         /\ Calc!Deserialize(Calc!Package(s)) = Calc!Execute(r2[got + 1])
         /\ Calc!Execute(r2[got + 1]) \in Calc!Response
         /\ Calc!Rest(s) \in Seq(Calc!Units)
         /\ Calc!Rest(s) \o t = Calc!Answers(r2, got + 1, done)
<1>1. /\ r3 \in 0..2 /\ got \in 0..2 /\ done \in 0..2
      /\ \A i \in 1..done : r2[i] \in Calc!Request /\ ~Calc!Traps(r2[i])
  <2>1. /\ r3 \in 0..2 /\ r3 \in 0..Len(r2) /\ Len(r2) \in 1..2
        /\ \A i \in 1..Len(r2) : r2[i] \in Calc!Request
    BY CalcTypes, Zenon
  <2>2. \A i \in 1..done : i \in 1..Len(r2)
    BY <2>1
  <2>3. got \in 0..2 /\ done \in 0..2
    BY <2>1
  <2>4. \A i \in 1..done : ~Calc!Traps(r2[i])
    BY DEF Calc!ServerSide
  <2> QED BY <2>1, <2>2, <2>3, <2>4, Zenon
<1>2. got <= done
  BY DEF Calc!ClientSide
<1>3. got # done
  <2>1. got = done => Calc!Answers(r2, got, done) = <<>>
    BY <1>1, <1>2, AnswersAre
  <2> QED BY <2>1, NothingDecodes DEF Holds
<1>4. got < done
  BY <1>1, <1>2, <1>3
<1> DEFINE r == r2[got + 1]
           u == Calc!Answers(r2, got + 1, done)
<1>5. r \in Calc!Request /\ ~Calc!Traps(r)
  <2>1. got + 1 \in 1..done
    BY <1>1, <1>4
  <2> QED BY <1>1, <2>1
<1>6. u \in Seq(Calc!Units) /\ Calc!Answers(r2, got, done) = Calc!Answer(r) \o u
  BY <1>1, <1>4, AnswersFirst
<1> HIDE DEF u, r
<1>7. Joins(s, t, Calc!Answer(r), u)
  BY <1>6, Zenon DEF Joins, Holds
<1>8. /\ Calc!Reads(Calc!Package(s)) /\ Calc!Deserialize(Calc!Package(s)) = Calc!Execute(r)
      /\ Calc!Rest(s) \in Seq(Calc!Units) /\ Calc!Rest(s) \o t = u
  BY <1>5, <1>6, <1>7, AnswerTaken
<1>9. Calc!Execute(r) \in Calc!Response
  BY <1>5, ExecuteRight
<1> QED BY <1>4, <1>8, <1>9, Zenon DEF r, u

LEMMA AllAnswered ==
  ASSUME Calc!CalcInv, NEW got \in 0..r3, NEW done \in 0..r3, Calc!ServerSide(done),
         Calc!ClientSide(got, done), Calc!Answers(r2, got, done) = <<>>
  PROVE  got = done
<1>1. /\ r3 \in 0..2 /\ got \in 0..2 /\ done \in 0..2
      /\ \A i \in 1..done : r2[i] \in Calc!Request /\ ~Calc!Traps(r2[i])
  <2>1. /\ r3 \in 0..2 /\ r3 \in 0..Len(r2) /\ Len(r2) \in 1..2
        /\ \A i \in 1..Len(r2) : r2[i] \in Calc!Request
    BY CalcTypes, Zenon
  <2>2. \A i \in 1..done : i \in 1..Len(r2)
    BY <2>1
  <2>3. got \in 0..2 /\ done \in 0..2
    BY <2>1
  <2>4. \A i \in 1..done : ~Calc!Traps(r2[i])
    BY DEF Calc!ServerSide
  <2> QED BY <2>1, <2>2, <2>3, <2>4, Zenon
<1>2. got <= done
  BY DEF Calc!ClientSide
<1>3. ~ (got < done)
  <2> SUFFICES ASSUME got < done
               PROVE  FALSE
    OBVIOUS
  <2> DEFINE r == r2[got + 1]
             u == Calc!Answers(r2, got + 1, done)
  <2>1. r \in Calc!Request /\ ~Calc!Traps(r)
    <3>1. got + 1 \in 1..done
      BY <1>1
    <3> QED BY <1>1, <3>1
  <2>2. u \in Seq(Calc!Units) /\ <<>> = Calc!Answer(r) \o u
    BY <1>1, AnswersFirst
  <2> HIDE DEF u, r
  <2>3. Calc!Answer(r) \in Seq(Calc!Units) /\ Len(Calc!Answer(r)) > 0
    BY <2>1, AnswerSays
  <2>4. Calc!Answer(r) = <<>>
    BY <2>2, <2>3, NothingDecodes
  <2> QED BY <2>3, <2>4
<1> QED BY <1>1, <1>2, <1>3

LEMMA GetResponseKeepsCalc ==
  ASSUME Calc!CalcInv, Calc!GetResponse
  PROVE  Calc!CalcInv'
<1>1. r1 = "netcal" /\ r7 = "recv" /\ UNCHANGED <<r1, r2, r3, r4, r5, r6, r9>>
  BY DEF Calc!GetResponse
<1>2. PICK got, done \in 0..r3 :
         Calc!ServerSide(done) /\ Calc!ClientSide(got, done) /\ Calc!OneUnderWay(got, done)
  BY <1>1 DEF Calc!CalcInv
<1>3. /\ r6 = <<>> /\ r8 = <<>> /\ r3 = Len(r11) + 1
      /\ Len(r11) = got \/ (r4 = "trapped" /\ got = done)
      /\ \A i \in (got + 1)..Len(r11) : r11[i] = Calc!NoResponse
  BY <1>1, <1>2 DEF Calc!OneUnderWay
<1>4. /\ r10 \in Seq(Calc!Units) /\ r8 \in Seq(Calc!Units) /\ r3 \in 0..2 /\ r3 \in 0..Len(r2)
      /\ r11 \in Seq(Calc!Response) /\ Len(r11) \in Nat
  BY CalcTypes, Zenon
<1>5. /\ got <= done /\ got <= Len(r11) /\ r10 = Calc!Answers(r2, got, done)
      /\ \A i \in 1..got : r11[i] = Calc!Execute(r2[i])
  <2>1. (r8 \o r10) \o r6 = r10
    BY <1>3, <1>4, ConcatEmptySeq
  <2> QED BY <1>1, <1>2, <2>1 DEF Calc!ClientSide
<1>6. Calc!ServerSide(done)'
  BY <1>1, <1>2, Zenon DEF Calc!ServerSide
<1>7. \A response \in Calc!Response :
         /\ Append(r11, response) \in Seq(Calc!Response)
         /\ Len(Append(r11, response)) = Len(r11) + 1
         /\ \A i \in 1..Len(r11) : Append(r11, response)[i] = r11[i]
         /\ Append(r11, response)[Len(r11) + 1] = response
  BY <1>4, AppendProperties
<1>8. /\ r2 \in Batches /\ r1 \in {"netcal", "reactor"} /\ r2 \in Seq(Calc!Request)
      /\ r4 \in {"recv", "decode", "trapped"} /\ Calc!StreamsTyped
  BY DEF Calc!CalcInv, Calc!TypeOK
<1>9. ASSUME r10' \in Seq(Calc!Units), r8' \in Seq(Calc!Units), r11' \in Seq(Calc!Response),
             r7' \in {"input", "recv", "spin", "left"}
      PROVE  Calc!TypeOK' /\ Calc!StreamsTyped'
  BY <1>1, <1>4, <1>8, <1>9 DEF Calc!TypeOK, Calc!StreamsTyped
<1>10. ASSUME NEW k \in Calc!Chunks(r10), Calc!Shows(r8 \o SubSeq(r10, 1, k)),
              r10' = SubSeq(r10, k + 1, Len(r10))
       PROVE  Calc!CalcInv'
  <2> DEFINE s == SubSeq(r10, 1, k)
             t == SubSeq(r10, k + 1, Len(r10))
  <2>1. k \in 1..Len(r10)
    BY <1>4, LenProperties, CalculatorAssumption DEF Calc!Chunks
  <2>2. s \in Seq(Calc!Units) /\ t \in Seq(Calc!Units) /\ s \o t = r10
    BY <1>4, <2>1, CutAnywhere
  <2>3. Calc!Shows(s) /\ r10' = t
    <3>1. <<>> \o s = s
      BY <2>2, ConcatEmptySeq
    <3> QED BY <1>3, <1>10, <3>1, Zenon
  <2> HIDE DEF s, t
  <2>4. Holds(s, t, Calc!Answers(r2, got, done))
    BY <1>5, <2>2, Zenon DEF Holds
  <2>5. CASE Calc!Decodable(s)
    <3> DEFINE answer == Calc!Execute(r2[got + 1])
    <3>1. /\ got < done /\ Calc!Reads(Calc!Package(s)) /\ Calc!Deserialize(Calc!Package(s)) = answer
          /\ answer \in Calc!Response /\ Calc!Rest(s) \in Seq(Calc!Units)
          /\ Calc!Rest(s) \o t = Calc!Answers(r2, got + 1, done)
      BY <1>2, <2>2, <2>4, <2>5, AnswerShown
    <3> HIDE DEF answer
    <3>2. r8' = Calc!Rest(s) /\ r11' = Append(r11, answer) /\ r7' = "input"
      BY <2>3, <2>5, <3>1 DEF Calc!Shows
    <3>3. Len(r11) = got /\ r3 = got + 1 /\ done = got + 1
      BY <1>2, <1>3, <1>4, <3>1
    <3>4. Calc!Answers(r2, got + 1, done) = <<>>
      <4>1. got + 1 \in 0..2 /\ done \in 0..2 /\ got + 1 <= done
        BY <1>4, <3>3
      <4> QED BY <3>3, <4>1, AnswersAre
    <3>5. r8' = <<>> /\ r10' = <<>>
      BY <2>2, <2>3, <3>1, <3>2, <3>4, NothingDecodes
    <3>6. r11' \in Seq(Calc!Response) /\ Len(r11') = got + 1 /\ (\A i \in 1..got : r11'[i] = r11[i]) /\ r11'[got + 1] = answer
      BY <1>7, <3>1, <3>2, <3>3, Zenon
    <3>7. Calc!TypeOK' /\ Calc!StreamsTyped'
      BY <1>9, <2>2, <2>3, <3>1, <3>2, <3>6
    <3>8. Calc!ClientSide(got + 1, done)'
      <4>1. (r8' \o r10') \o r6' = Calc!Answers(r2', got + 1, done)
        <5>1. <<>> \o <<>> = <<>>
          BY <2>2, <2>3, <3>5, ConcatEmptySeq
        <5> QED BY <1>1, <1>3, <3>4, <3>5, <5>1, Zenon
      <4>2. \A i \in 1..(got + 1) : r11'[i] = Calc!Execute(r2'[i])
        <5>1. \A i \in 1..(got + 1) : i \in 1..got \/ i = got + 1
          BY <1>2
        <5> QED BY <1>1, <1>5, <3>6, <5>1, Zenon DEF answer
      <4>3. got + 1 <= done /\ got + 1 <= Len(r11')
        BY <1>2, <3>3, <3>6
      <4> QED BY <4>1, <4>2, <4>3, Zenon DEF Calc!ClientSide
    <3>9. Calc!OneUnderWay(got + 1, done)'
      <4>1. r6' = <<>> /\ r7' = "input" /\ r3' = got + 1 /\ Len(r11') = got + 1 /\ r8' = <<>>
        BY <1>1, <1>3, <3>2, <3>3, <3>5, <3>6
      <4>2. \A i \in ((got + 1) + 1)..(got + 1) : FALSE
        BY <1>2
      <4>3. got + 1 <= got + 1
        BY <1>2
      <4>4. "input" # "recv"
        OBVIOUS
      <4> QED BY <4>1, <4>2, <4>3, <4>4, Zenon DEF Calc!OneUnderWay
    <3>10. got + 1 \in 0..r3' /\ done \in 0..r3'
      BY <1>1, <1>2, <3>3
    <3>11. r1' = "netcal" /\ "netcal" # "reactor" /\ r2' \in Batches /\ r1' \in {"netcal", "reactor"}
      BY <1>1, <1>8
    <3> QED BY <1>6, <3>7, <3>8, <3>9, <3>10, <3>11, Zenon DEF Calc!CalcInv
  <2>6. CASE ~Calc!Decodable(s)
    <3>1. r8' = s /\ r7' = "spin" /\ r11' = r11
      BY <2>3, <2>6 DEF Calc!Shows
    <3>2. Calc!TypeOK' /\ Calc!StreamsTyped'
      BY <1>4, <1>9, <2>2, <2>3, <3>1
    <3>3. (s \o t) \o <<>> = r10
      BY <1>4, <2>2, ConcatEmptySeq
    <3>4. Calc!ClientSide(got, done)'
      BY <1>1, <1>3, <1>5, <2>3, <3>1, <3>3, Zenon DEF Calc!ClientSide
    <3>5. Calc!OneUnderWay(got, done)'
      BY <1>1, <1>2, <3>1 DEF Calc!OneUnderWay
    <3> QED BY <1>1, <1>2, <1>6, <1>8, <3>2, <3>4, <3>5 DEF Calc!CalcInv
  <2> QED BY <2>5, <2>6
<1>11. ASSUME r10 = <<>>, r4 = "trapped", r11' = Append(r11, Calc!NoResponse), r7' = "input",
              UNCHANGED <<r10, r8>>
       PROVE  Calc!CalcInv'
  <2>1. got = done
    BY <1>2, <1>5, <1>11, AllAnswered
  <2>2. Calc!NoResponse \in Calc!Response
    <3>1. 0 \in Calc!Ints
      BY IntsAre
    <3> QED BY <3>1 DEF Calc!NoResponse, Calc!Response
  <2>3. /\ r11' \in Seq(Calc!Response) /\ Len(r11') = Len(r11) + 1
        /\ (\A i \in 1..Len(r11) : r11'[i] = r11[i]) /\ r11'[Len(r11) + 1] = Calc!NoResponse
    BY <1>7, <1>11, <2>2, Zenon
  <2>4. Calc!TypeOK' /\ Calc!StreamsTyped'
    BY <1>4, <1>9, <1>11, <2>3
  <2>5. Calc!ClientSide(got, done)'
    <3>1. \A i \in 1..got : r11'[i] = Calc!Execute(r2'[i])
      <4>1. \A i \in 1..got : i \in 1..Len(r11)
        BY <1>2, <1>4, <1>5
      <4> QED BY <1>1, <1>5, <2>3, <4>1, Zenon
    <3>2. got <= Len(r11')
      BY <1>2, <1>4, <1>5, <2>3
    <3>3. (r8' \o r10') \o r6' = Calc!Answers(r2', got, done)
      <4>1. (r8 \o r10) \o r6 = r10
        BY <1>3, <1>4, ConcatEmptySeq
      <4> QED BY <1>1, <1>5, <1>11, <4>1, Zenon
    <3> QED BY <1>5, <3>1, <3>2, <3>3, Zenon DEF Calc!ClientSide
  <2>6. Calc!OneUnderWay(got, done)'
    <3>1. r6' = <<>> /\ r7' = "input" /\ r3' = Len(r11') /\ r8' = <<>> /\ r4' = "trapped"
      BY <1>1, <1>3, <1>11, <2>3
    <3>2. \A i \in (got + 1)..Len(r11') : r11'[i] = Calc!NoResponse
      <4>1. \A i \in (got + 1)..Len(r11') : (i \in (got + 1)..Len(r11) /\ i \in 1..Len(r11)) \/ i = Len(r11) + 1
        BY <1>2, <1>4, <2>3
      <4> QED BY <1>3, <2>3, <4>1, Zenon
    <3>3. r3 <= r3 /\ "input" # "recv"
      BY <1>4
    <3> QED BY <1>1, <2>1, <3>1, <3>2, <3>3, Zenon DEF Calc!OneUnderWay
  <2>7. r1' = "netcal" /\ "netcal" # "reactor" /\ r2' \in Batches /\ r1' \in {"netcal", "reactor"} /\ got \in 0..r3' /\ done \in 0..r3'
    BY <1>1, <1>2, <1>8
  <2> QED BY <1>6, <2>4, <2>5, <2>6, <2>7, Zenon DEF Calc!CalcInv
<1>12. ASSUME r4 = "trapped", r7' = "left", r10' = <<>>, UNCHANGED <<r11, r8>>
       PROVE  Calc!CalcInv'
  <2>1. <<>> \in Seq(Calc!Units)
    BY EmptySeq
  <2>2. Calc!TypeOK' /\ Calc!StreamsTyped'
    BY <1>4, <1>9, <1>12, <2>1
  <2>3. Calc!ClientSide(got, done)'
    BY <1>1, <1>5, <1>12 DEF Calc!ClientSide
  <2>4. Calc!OneUnderWay(got, done)'
    BY <1>1, <1>2, <1>12 DEF Calc!OneUnderWay
  <2> QED BY <1>1, <1>2, <1>6, <1>8, <2>2, <2>3, <2>4 DEF Calc!CalcInv
<1> QED BY <1>10, <1>11, <1>12 DEF Calc!GetResponse

LEMMA ClientReadsKeepsCalc ==
  ASSUME Calc!CalcInv, Calc!ClientReads
  PROVE  Calc!CalcInv'
<1>1. r1 = "reactor" /\ r7 = "recv" /\ UNCHANGED <<r1, r2, r3, r4, r5, r6, r7, r9>>
  BY DEF Calc!ClientReads
<1>2. PICK got, done \in 0..r3 :
         Calc!ServerSide(done) /\ Calc!ClientSide(got, done) /\ Calc!ClientReader(got)
  BY <1>1 DEF Calc!CalcInv
<1>3. Len(r11) = got /\ r7' \in {"input", "recv"} /\ r7 # "left"
  BY <1>1, <1>2 DEF Calc!ClientReader
<1>4. r10 \in Seq(Calc!Units) /\ r8 \in Seq(Calc!Units) /\ r6 \in Seq(Calc!Units) /\ r11 \in Seq(Calc!Response)
  BY CalcTypes, Zenon
<1>5. /\ got <= done /\ (r8 \o r10) \o r6 = Calc!Answers(r2, got, done)
      /\ \A i \in 1..got : r11[i] = Calc!Execute(r2[i])
  BY <1>2, <1>3, Zenon DEF Calc!ClientSide
<1>6. Calc!ServerSide(done)'
  BY <1>1, <1>2, Zenon DEF Calc!ServerSide
<1>7. /\ r2' \in Batches /\ r1' \in {"netcal", "reactor"} /\ r1' # "netcal"
      /\ got \in 0..r3' /\ done \in 0..r3' /\ Calc!TypeOK /\ Calc!StreamsTyped
  BY <1>1, <1>2 DEF Calc!CalcInv
<1>8. ASSUME r10' \in Seq(Calc!Units), r8' \in Seq(Calc!Units), r11' \in Seq(Calc!Response)
      PROVE  Calc!TypeOK' /\ Calc!StreamsTyped'
  BY <1>1, <1>7, <1>8 DEF Calc!TypeOK, Calc!StreamsTyped
<1>9. ASSUME NEW k \in Calc!Chunks(r10), r8' = r8 \o SubSeq(r10, 1, k),
             r10' = SubSeq(r10, k + 1, Len(r10)), UNCHANGED r11
      PROVE  Calc!CalcInv'
  <2> DEFINE a == SubSeq(r10, 1, k)
             b == SubSeq(r10, k + 1, Len(r10))
  <2>1. k \in 1..Len(r10)
    BY <1>4, LenProperties, CalculatorAssumption DEF Calc!Chunks
  <2>2. a \in Seq(Calc!Units) /\ b \in Seq(Calc!Units) /\ a \o b = r10
    BY <1>4, <2>1, CutAnywhere
  <2>3. r8' = r8 \o a /\ r10' = b /\ r11' = r11
    BY <1>9
  <2> HIDE DEF a, b
  <2>4. (r8 \o a) \o b = r8 \o (a \o b) /\ r8 \o a \in Seq(Calc!Units)
    <3>1. a \in Seq(Calc!Units) /\ b \in Seq(Calc!Units)
      BY <2>2
    <3>2. (r8 \o a) \o b = r8 \o (a \o b)
      <4>1. r8 \in Seq(Calc!Units) /\ a \in Seq(Calc!Units) /\ b \in Seq(Calc!Units)
        BY <1>4, <3>1, Zenon
      <4> QED BY <4>1, ConcatAssociative
    <3>3. r8 \o a \in Seq(Calc!Units)
      BY <1>4, <3>1, ConcatProperties
    <3> QED BY <3>2, <3>3, Zenon
  <2>5. Calc!TypeOK' /\ Calc!StreamsTyped'
    BY <1>4, <1>8, <2>2, <2>3, <2>4
  <2>6. (r8' \o r10') \o r6' = Calc!Answers(r2', got, done)
    BY <1>1, <1>5, <2>2, <2>3, <2>4, Zenon
  <2>7. Calc!ClientSide(got, done)'
    <3>1. got <= Len(r11')
      BY <1>2, <1>3, <2>3
    <3> QED BY <1>1, <1>5, <2>3, <2>6, <3>1, Zenon DEF Calc!ClientSide
  <2>8. Calc!ClientReader(got)'
    BY <1>3, <2>3 DEF Calc!ClientReader
  <2> QED BY <1>6, <1>7, <2>5, <2>7, <2>8, Zenon DEF Calc!CalcInv
<1>10. ASSUME Calc!Decodable(r8), r11' = Append(r11, Calc!Deserialize(Calc!Package(r8))),
              r8' = Calc!Rest(r8), UNCHANGED r10
       PROVE  Calc!CalcInv'
  <2> DEFINE answer == Calc!Execute(r2[got + 1])
             t == r10 \o r6
  <2>1. t \in Seq(Calc!Units) /\ r8 \o t = (r8 \o r10) \o r6
    BY <1>4, ConcatProperties, ConcatAssociative, SMTT(30)
  <2>2. \A s \in Seq(Calc!Units) : s \o t = (s \o r10) \o r6
    <3> SUFFICES ASSUME NEW s \in Seq(Calc!Units)
                 PROVE  s \o t = (s \o r10) \o r6
      OBVIOUS
    <3>1. s \in Seq(Calc!Units) /\ r10 \in Seq(Calc!Units) /\ r6 \in Seq(Calc!Units)
      BY <1>4, Zenon
    <3> QED BY <3>1, ConcatAssociative, SMTT(30)
  <2> HIDE DEF t
  <2>3. Holds(r8, t, Calc!Answers(r2, got, done))
    BY <1>5, <2>1, Zenon DEF Holds
  <2>4. /\ got < done /\ Calc!Deserialize(Calc!Package(r8)) = answer
        /\ answer \in Calc!Response /\ Calc!Rest(r8) \in Seq(Calc!Units)
        /\ Calc!Rest(r8) \o t = Calc!Answers(r2, got + 1, done)
    BY <1>2, <1>4, <1>10, <2>1, <2>3, AnswerShown
  <2> HIDE DEF answer
  <2>5. /\ r11' \in Seq(Calc!Response) /\ Len(r11') = got + 1
        /\ (\A i \in 1..got : r11'[i] = r11[i]) /\ r11'[got + 1] = answer
    <3>1. r11' = Append(r11, answer)
      BY <1>10, <2>4
    <3> QED BY <1>3, <1>4, <2>4, <3>1, AppendProperties
  <2>6. Calc!TypeOK' /\ Calc!StreamsTyped'
    BY <1>4, <1>8, <1>10, <2>4, <2>5
  <2>7. Calc!ClientSide(got + 1, done)'
    <3>1. (r8' \o r10') \o r6' = Calc!Answers(r2', got + 1, done)
      BY <1>1, <1>10, <2>2, <2>4, Zenon
    <3>2. \A i \in 1..(got + 1) : r11'[i] = Calc!Execute(r2'[i])
      <4>1. \A i \in 1..(got + 1) : i \in 1..got \/ i = got + 1
        BY <1>2
      <4> QED BY <1>1, <1>5, <2>5, <4>1, Zenon DEF answer
    <3>3. got + 1 <= done /\ got + 1 <= Len(r11')
      BY <1>2, <2>4, <2>5
    <3> QED BY <3>1, <3>2, <3>3, Zenon DEF Calc!ClientSide
  <2>8. Calc!ClientReader(got + 1)'
    BY <1>3, <2>5 DEF Calc!ClientReader
  <2>9. got + 1 \in 0..r3'
    <3>1. got < done
      BY <2>4, Zenon
    <3>2. r3 \in 0..2
      BY CalcTypes, Zenon
    <3> QED BY <1>1, <1>2, <3>1, <3>2
  <2> QED BY <1>6, <1>7, <2>6, <2>7, <2>8, <2>9, Zenon DEF Calc!CalcInv
<1> QED BY <1>9, <1>10 DEF Calc!ClientReads

LEMMA CalcStep ==
  ASSUME Calc!CalcInv, Calc!Next
  PROVE  Calc!CalcInv'
BY AskKeepsCalc, GetResponseKeepsCalc, ClientReadsKeepsCalc, ServerRecvKeepsCalc, ExcuteKeepsCalc,
   HandlerDoneKeepsCalc, Zenon DEF Calc!Next

LEMMA CalcSays ==
  ASSUME Calc!CalcInv
  PROVE  Calc!TypeOK /\ Calc!ResultsRight
<1>1. PICK got, done \in 0..r3 :
         /\ Calc!ServerSide(done) /\ Calc!ClientSide(got, done)
         /\ r1 = "netcal" => Calc!OneUnderWay(got, done)
         /\ r1 = "reactor" => Calc!ClientReader(got)
  BY DEF Calc!CalcInv
<1>2. /\ Calc!TypeOK /\ r1 \in {"netcal", "reactor"}
  BY DEF Calc!CalcInv
<1>3. /\ r3 \in 0..2 /\ r3 \in 0..Len(r2) /\ Len(r2) \in 1..2 /\ Len(r11) \in Nat /\ r11 \in Seq(Calc!Response)
      /\ \A i \in 1..Len(r2) : r2[i] \in Calc!Request
  BY CalcTypes, Zenon
<1>4. /\ got <= done /\ \A i \in 1..got : r11[i] = Calc!Execute(r2[i])
      /\ \A i \in 1..done : ~Calc!Traps(r2[i])
  BY <1>1 DEF Calc!ClientSide, Calc!ServerSide
<1>5. Len(r11) <= r3
  BY <1>1, <1>2, <1>3 DEF Calc!OneUnderWay, Calc!ClientReader
<1>6. ASSUME r4 = "trapped"
      PROVE  done + 1 \in 1..r3 /\ Calc!Traps(r2[done + 1])
  BY <1>1, <1>3, <1>6 DEF Calc!ServerSide
<1>7. ASSUME NEW i \in 1..Len(r11)
      PROVE  \/ Calc!Right(r2[i], r11[i])
             \/ /\ r1 = "netcal" /\ r4 = "trapped" /\ r11[i] = Calc!NoResponse
                /\ \E j \in 1..i : Calc!Traps(r2[j])
  <2>1. CASE i <= got
    <3>1. i \in 1..got /\ i \in 1..done /\ i \in 1..Len(r2)
      BY <1>1, <1>3, <1>4, <1>7, <2>1
    <3>2. r2[i] \in Calc!Request /\ ~Calc!Traps(r2[i]) /\ r11[i] = Calc!Execute(r2[i])
      BY <1>3, <1>4, <3>1
    <3> QED BY <3>2, ExecuteRight, Zenon
  <2>2. CASE i > got
    <3>1. i \in (got + 1)..Len(r11) /\ Len(r11) # got
      BY <1>1, <1>3, <1>7, <2>2
    <3>2. r1 = "netcal" /\ r4 = "trapped" /\ got = done /\ r11[i] = Calc!NoResponse
      BY <1>1, <1>2, <3>1 DEF Calc!OneUnderWay, Calc!ClientReader
    <3>3. done + 1 \in 1..i
      BY <1>1, <2>2, <3>2, <1>3
    <3> QED BY <1>6, <3>2, <3>3
  <2> QED BY <1>1, <1>3, <2>1, <2>2
<1>8. DOMAIN r11 = 1..Len(r11)
  BY <1>3, LenProperties
<1> QED BY <1>2, <1>5, <1>6, <1>7, <1>8, Zenon DEF Calc!ResultsRight

(* A step that changes nothing keeps it.                                       *)
LEMMA CalcStays ==
  ASSUME Calc!CalcInv, UNCHANGED <<r1, r2, r3, r4, r5, r6, r7, r8, r9, r10, r11, r12, r13, r14, r15,
                     r16, r17>>
  PROVE  Calc!CalcInv'
<1>1. Calc!TypeOK' <=> Calc!TypeOK
  BY DEF Calc!TypeOK
<1>2. Calc!StreamsTyped' <=> Calc!StreamsTyped
  BY DEF Calc!StreamsTyped
<1>3. \A done \in 0..r3 : Calc!ServerSide(done)' <=> Calc!ServerSide(done)
  BY DEF Calc!ServerSide
<1>4. \A got, done \in 0..r3 : Calc!ClientSide(got, done)' <=> Calc!ClientSide(got, done)
  BY DEF Calc!ClientSide
<1>5. \A got, done \in 0..r3 : Calc!OneUnderWay(got, done)' <=> Calc!OneUnderWay(got, done)
  BY DEF Calc!OneUnderWay
<1>6. \A got \in 0..r3 : Calc!ClientReader(got)' <=> Calc!ClientReader(got)
  BY DEF Calc!ClientReader
<1> QED BY <1>1, <1>2, <1>3, <1>4, <1>5, <1>6 DEF Calc!CalcInv
=============================================================================
