--------------------------- MODULE ProcessPoolProofs ---------------------------
(* ProcessPool for any number of children, any tasks and any capacity of the *)
(* pipes: the turn is passed on evenly (Rounds), a child that could see the   *)
(* end of its pipe was let go by the parent (ParentHolds, Left), and no       *)
(* child keeps a brother's pipe open once it is past CloseAll (Inherited).    *)
EXTENDS ProcessPool, SequenceTheorems, TLAPS

Starting == {"pipe", "fork", "insert"}
Stopping == {"close", "wait", "done"}

(* The indices of the parent's two loops, and _next.                         *)
Indices ==
    /\ ppc \in Starting => i = size /\ next = 0
    /\ ppc \in {"fork", "insert"} => i < Num
    /\ size > 0 => next < size
    /\ ppc = "send" => size > 0 /\ task \in Codes
    /\ ppc \in {"close", "wait"} => i < size

(* A child is made between its fork and its place in _channels.              *)
Made ==
    \A c \in Child :
        cpc[c] # "none" => c < size \/ (c = size /\ ppc = "insert")

(* Until Stop, the parent has the write end of every channel.                *)
ParentHolds ==
    ppc \notin Stopping =>
        \A c \in Child :
            c < size \/ (c = size /\ ppc \in {"fork", "insert"}) => Parent \in wends[c]

(* A pipe is made when the channels before it are in place.                  *)
Piped == \A c \in Child : wends[c] # {} => c <= size

(* A child has write ends of its elder brothers' pipes and of its own, and    *)
(* only before it comes to Work.                                             *)
Inherited ==
    \A c, d \in Child : c \in wends[d] => d <= c /\ cpc[c] = "closing"

(* A code is in hand while it is executed, and at no other time.             *)
InHand ==
    \A c \in Child : cpc[c] = "excute" <=> cur[c] # None

(* Who has left, left after the last code was sent.                          *)
Left ==
    \A c \in Child : cpc[c] \in {"zombie", "reaped"} => ppc \in Stopping

(* What RunsWhatWasSent says of the codes.                                   *)
Accounted ==
    \A c \in Child :
        /\ sent[c] = ran[c] \o Code(c) \o buf[c]
        /\ cpc[c] \in {"zombie", "reaped"} => ran[c] = sent[c]

(* The channels before _next are one code ahead of the last one, the others   *)
(* are level with it.                                                        *)
Rounds ==
    /\ ppc \in Starting => \A c \in Child : sent[c] = <<>>
    /\ \A c \in 0..(size - 1) :
         /\ c < next => Len(sent[c]) = Len(sent[size - 1]) + 1
         /\ c >= next => Len(sent[c]) = Len(sent[size - 1])

(* CloseAndWait has closed and waited for the children before i.             *)
Progress ==
    /\ ppc \in {"close", "wait"} =>
         \A c \in Child : c < i => Parent \notin wends[c] /\ cpc[c] = "reaped"
    /\ ppc = "wait" => Parent \notin wends[i]
    /\ ppc = "done" => \A c \in Child : cpc[c] \in {"none", "reaped"}

PoolInv ==
    /\ TypeOK
    /\ Indices
    /\ Made
    /\ ParentHolds
    /\ Piped
    /\ Inherited
    /\ InHand
    /\ Left
    /\ Accounted
    /\ Rounds
    /\ Progress

-------------------------------------------------------------------------------
(* Sequences and the turn.                                                   *)

LEMMA AppendRight ==
  ASSUME NEW s \in Seq(Codes), NEW t \in Seq(Codes), NEW e \in Codes
  PROVE  s \o Append(t, e) = Append(s \o t, e) /\ Append(t, e) \in Seq(Codes)
OBVIOUS

(* Reading moves the head of the pipe, executing it moves the code in hand.  *)
LEMMA HeadMoves ==
  ASSUME NEW s \in Seq(Codes), NEW t \in Seq(Codes), t # <<>>
  PROVE  s \o t = (s \o <<Head(t)>>) \o Tail(t) /\ Head(t) \in Codes /\ Tail(t) \in Seq(Codes)
OBVIOUS

LEMMA EmptyRight ==
  ASSUME NEW s \in Seq(Codes)
  PROVE  s \o <<>> = s
OBVIOUS

LEMMA OneMore ==
  ASSUME NEW s \in Seq(Codes), NEW e \in Codes
  PROVE  s \o <<e>> = Append(s, e) /\ Append(s, e) \in Seq(Codes)
OBVIOUS

(* `_next++; _next %= size' counts up, and starts again at the end.          *)
LEMMA TurnCounts ==
  ASSUME size \in Nat \ {0}, next \in 0..(size - 1)
  PROVE  Turn = IF next + 1 < size THEN next + 1 ELSE 0
<1>1. CASE next + 1 < size
  BY <1>1 DEF Turn
<1>2. CASE next + 1 = size
  BY <1>2 DEF Turn
<1> QED BY <1>1, <1>2

-------------------------------------------------------------------------------
(* The invariant holds at the start and is preserved.                        *)

LEMMA PoolInvInit == Init => PoolInv
<1> SUFFICES ASSUME Init PROVE PoolInv
  OBVIOUS
<1> USE PoolAssumption
<1>1. TypeOK
  BY DEF Init, TypeOK, Child
<1>2. Accounted
  BY DEF Init, Accounted, Code
<1>3. Indices /\ Made /\ ParentHolds /\ Piped /\ Inherited /\ InHand /\ Left /\ Rounds /\ Progress
  BY DEF Init, Indices, Made, ParentHolds, Piped, Inherited, InHand, Left, Rounds, Progress,
         Starting, Stopping, Child
<1> QED BY <1>1, <1>2, <1>3 DEF PoolInv

(* Start.                                                                    *)
LEMMA PoolInvStart ==
  ASSUME PoolInv, Start
  PROVE  PoolInv'
<1> USE PoolAssumption DEF PoolInv
<1>1. CASE Pipe
  <2> USE <1>1 DEF Pipe, children
  <2>1. TypeOK'
    BY DEF TypeOK, Child
  <2>2. Indices' /\ Made' /\ ParentHolds' /\ Piped'
    BY DEF TypeOK, Indices, Made, ParentHolds, Piped, Starting, Stopping, Child
  <2>3. Inherited'
    BY DEF TypeOK, Indices, Inherited, Child
  <2>4. InHand' /\ Left' /\ Accounted' /\ Rounds' /\ Progress'
    BY DEF InHand, Left, Accounted, Rounds, Progress, Code, Starting, Stopping
  <2> QED BY <2>1, <2>2, <2>3, <2>4
<1>2. CASE Fork
  <2> USE <1>2 DEF Fork
  <2>0. i \in Child /\ cpc[i] = "none" /\ i = size
    BY DEF TypeOK, Indices, Made, Starting, Child
  <2>1. TypeOK'
    BY <2>0 DEF TypeOK, Child
  <2>2. Indices' /\ Made' /\ ParentHolds' /\ Piped'
    BY <2>0 DEF TypeOK, Indices, Made, ParentHolds, Piped, Starting, Stopping, Child
  <2>3. Inherited'
    BY <2>0 DEF TypeOK, Piped, Inherited, Child
  <2>4. InHand' /\ Left' /\ Accounted' /\ Rounds' /\ Progress'
    BY <2>0 DEF TypeOK, InHand, Left, Accounted, Rounds, Progress, Code, Starting, Stopping
  <2> QED BY <2>1, <2>2, <2>3, <2>4
<1>3. CASE StartFails
  <2> USE <1>3 DEF StartFails, pipes, children
  <2>1. TypeOK'
    BY DEF TypeOK
  <2>2. Indices' /\ Made' /\ ParentHolds' /\ Piped'
    BY DEF TypeOK, Indices, Made, ParentHolds, Piped, Starting, Stopping, Child
  <2>3. Inherited' /\ InHand' /\ Left' /\ Accounted' /\ Rounds' /\ Progress'
    BY DEF Inherited, InHand, Left, Accounted, Rounds, Progress, Code, Starting, Stopping
  <2> QED BY <2>1, <2>2, <2>3
<1>4. CASE InsertChannel
  <2> USE <1>4 DEF InsertChannel, children
  <2>1. TypeOK'
    BY DEF TypeOK, Indices, Starting, Child
  <2>2. Indices' /\ Made' /\ ParentHolds' /\ Piped'
    BY DEF TypeOK, Indices, Made, ParentHolds, Piped, Starting, Stopping, Child
  <2>3. Inherited' /\ InHand' /\ Left' /\ Accounted' /\ Progress'
    BY DEF Inherited, InHand, Left, Accounted, Progress, Code, Stopping
  <2>4. Rounds'
    <3>1. \A c \in Child : sent'[c] = <<>> /\ Len(sent'[c]) = 0
      BY DEF Rounds, Starting
    <3>2. size' \in 0..Num /\ \A c \in 0..(size' - 1) : c \in Child /\ next' = 0
      BY DEF TypeOK, Indices, Starting, Child
    <3>3. ASSUME NEW c \in 0..(size' - 1)
          PROVE  c >= next' /\ ~(c < next') /\ Len(sent'[c]) = Len(sent'[size' - 1])
      <4>1. c \in Child /\ size' - 1 \in Child /\ ~(c < next') /\ c >= next'
        BY <3>2 DEF Child
      <4> QED BY <3>1, <4>1
    <3> QED BY <3>1, <3>3 DEF Rounds
  <2> QED BY <2>1, <2>2, <2>3, <2>4
<1>5. CASE StartDone
  <2> USE <1>5 DEF StartDone, pipes, children
  <2>1. TypeOK'
    BY DEF TypeOK
  <2>2. Indices' /\ Made' /\ ParentHolds' /\ Piped'
    BY DEF TypeOK, Indices, Made, ParentHolds, Piped, Starting, Stopping, Child
  <2>3. Inherited' /\ InHand' /\ Left' /\ Accounted' /\ Rounds' /\ Progress'
    BY DEF Inherited, InHand, Left, Accounted, Rounds, Progress, Code, Starting, Stopping
  <2> QED BY <2>1, <2>2, <2>3
<1> QED BY <1>1, <1>2, <1>3, <1>4, <1>5 DEF Start

(* Run.                                                                      *)
LEMMA PoolInvRun ==
  ASSUME PoolInv, Run
  PROVE  PoolInv'
<1> USE PoolAssumption DEF PoolInv
<1>1. CASE Select
  <2> USE <1>1 DEF Select, pipes, children
  <2>1. TypeOK'
    BY DEF TypeOK
  <2>2. Indices' /\ Made' /\ ParentHolds' /\ Piped'
    BY DEF TypeOK, Indices, Made, ParentHolds, Piped, Starting, Stopping, Child
  <2>3. Inherited' /\ InHand' /\ Left' /\ Accounted' /\ Rounds' /\ Progress'
    BY DEF Inherited, InHand, Left, Accounted, Rounds, Progress, Code, Starting, Stopping
  <2> QED BY <2>1, <2>2, <2>3
<1>2. CASE SelectFails
  <2> USE <1>2 DEF SelectFails, pipes, children
  <2>1. TypeOK'
    BY DEF TypeOK
  <2>2. Indices' /\ Made' /\ ParentHolds' /\ Piped'
    BY DEF TypeOK, Indices, Made, ParentHolds, Piped, Starting, Stopping, Child
  <2>3. Inherited' /\ InHand' /\ Left' /\ Accounted' /\ Rounds' /\ Progress'
    BY DEF Made, Inherited, InHand, Left, Accounted, Rounds, Progress, Code, Starting, Stopping
  <2> QED BY <2>1, <2>2, <2>3
<1>3. CASE Send
  <2> USE <1>3 DEF Send, children
  <2>0. size \in Nat \ {0} /\ next \in 0..(size - 1) /\ next \in Child /\ task \in Codes
    BY DEF TypeOK, Indices, Child
  <2>1. next' = (IF next + 1 < size THEN next + 1 ELSE 0) /\ next' \in Child
    <3>1. Turn = IF next + 1 < size THEN next + 1 ELSE 0
      BY <2>0, TurnCounts
    <3>2. next' = Turn
      OBVIOUS
    <3>3. size <= Num
      BY DEF TypeOK
    <3> QED BY <2>0, <3>1, <3>2, <3>3 DEF Child
  <2>2. TypeOK'
    BY <2>0, <2>1 DEF TypeOK, Child
  <2>3. Indices' /\ Made' /\ ParentHolds' /\ Piped'
    BY <2>0, <2>1 DEF TypeOK, Indices, Made, ParentHolds, Piped, Starting, Stopping, Child
  <2>4. Inherited' /\ InHand' /\ Left' /\ Progress'
    BY DEF Inherited, InHand, Left, Progress, Stopping
  <2>5. Accounted'
    <3> SUFFICES ASSUME NEW c \in Child
                 PROVE  /\ sent'[c] = ran'[c] \o Code(c)' \o buf'[c]
                        /\ cpc'[c] \in {"zombie", "reaped"} => ran'[c] = sent'[c]
      BY DEF Accounted
    <3>1. CASE c # next
      BY <2>0, <3>1 DEF TypeOK, Accounted, Code
    <3>2. CASE c = next
      <4>1. cpc[c] \notin {"zombie", "reaped"}
        BY DEF Left, Stopping
      <4>2. ran[c] \o Code(c) \in Seq(Codes) /\ buf[c] \in Seq(Codes)
        BY DEF TypeOK, Code
      <4>3. sent'[c] = Append(sent[c], task) /\ buf'[c] = Append(buf[c], task)
        BY <2>0, <3>2 DEF TypeOK
      <4>4. sent[c] = (ran[c] \o Code(c)) \o buf[c]
        BY DEF Accounted
      <4>5. (ran[c] \o Code(c)) \o Append(buf[c], task)
                = Append((ran[c] \o Code(c)) \o buf[c], task)
        <5> HIDE <1>3 DEF Send, children, PoolInv
        <5> QED BY <2>0, <4>2, AppendRight
      <4>6. Code(c)' = Code(c)
        BY DEF Code
      <4> QED BY <4>1, <4>3, <4>4, <4>5, <4>6
    <3> QED BY <3>1, <3>2
  <2>6. Rounds'
    <3>1. \A c \in Child : Len(sent[c]) \in Nat
      BY DEF TypeOK
    <3>2. \A c \in Child : Len(sent'[c]) = IF c = next THEN Len(sent[c]) + 1 ELSE Len(sent[c])
      BY <2>0 DEF TypeOK
    <3>3. \A c \in 0..(size - 1) : c \in Child
      BY <2>0 DEF TypeOK, Child
    <3>4. ASSUME NEW c \in 0..(size - 1)
          PROVE  /\ c < next' => Len(sent'[c]) = Len(sent'[size - 1]) + 1
                 /\ c >= next' => Len(sent'[c]) = Len(sent'[size - 1])
      <4>1. size - 1 \in 0..(size - 1) /\ c \in Child /\ size - 1 \in Child
        BY <2>0, <3>3
      <4>2. /\ c < next => Len(sent[c]) = Len(sent[size - 1]) + 1
            /\ c >= next => Len(sent[c]) = Len(sent[size - 1])
        BY DEF Rounds
      <4>3. Len(sent[size - 1]) \in Nat /\ Len(sent[c]) \in Nat
        BY <3>1, <4>1
      <4>4. CASE next + 1 < size
        <5>1. next' = next + 1 /\ size - 1 # next
          BY <2>0, <2>1, <4>4
        <5>2. Len(sent'[size - 1]) = Len(sent[size - 1])
          BY <3>2, <4>1, <5>1
        <5>3. CASE c = next
          BY <2>0, <3>2, <4>1, <4>2, <5>1, <5>2, <5>3
        <5>4. CASE c # next
          <6>1. Len(sent'[c]) = Len(sent[c]) /\ (c < next' <=> c < next) /\ (c >= next' => c >= next)
            BY <2>0, <3>2, <4>1, <5>1, <5>4
          <6> QED BY <4>2, <5>2, <6>1
        <5> QED BY <5>3, <5>4
      <4>5. CASE next + 1 = size
        <5>1. next' = 0 /\ size - 1 = next /\ ~(c < next')
          BY <2>0, <2>1, <4>5
        <5>2. Len(sent'[size - 1]) = Len(sent[size - 1]) + 1
          BY <3>2, <4>1, <5>1
        <5>3. CASE c = next
          BY <5>1, <5>3
        <5>4. CASE c # next
          <6>1. Len(sent'[c]) = Len(sent[c]) /\ c < next
            BY <2>0, <3>2, <4>1, <4>5, <5>4
          <6> QED BY <4>2, <5>1, <5>2, <6>1
        <5> QED BY <5>3, <5>4
      <4> QED BY <2>0, <4>4, <4>5
    <3> QED BY <3>4 DEF Rounds, Starting
  <2> QED BY <2>2, <2>3, <2>4, <2>5, <2>6
<1> QED BY <1>1, <1>2, <1>3 DEF Run

(* Stop.                                                                     *)
LEMMA PoolInvStop ==
  ASSUME PoolInv, Stop
  PROVE  PoolInv'
<1> USE PoolAssumption DEF PoolInv
<1>1. CASE StopBegin
  <2> USE <1>1 DEF StopBegin, pipes, children
  <2>1. TypeOK'
    BY DEF TypeOK
  <2>2. Indices' /\ Made' /\ ParentHolds' /\ Piped'
    BY DEF TypeOK, Indices, Made, ParentHolds, Piped, Starting, Stopping, Child
  <2>3. Inherited' /\ InHand' /\ Left' /\ Accounted' /\ Rounds'
    BY DEF Inherited, InHand, Left, Accounted, Rounds, Code, Starting, Stopping
  <2>4. Progress'
    BY DEF TypeOK, Made, Progress, Child
  <2> QED BY <2>1, <2>2, <2>3, <2>4
<1>2. CASE Close
  <2> USE <1>2 DEF Close, children
  <2>0. i \in Child
    BY DEF TypeOK, Indices, Child
  <2>1. TypeOK'
    BY <2>0 DEF TypeOK
  <2>2. Indices' /\ Made' /\ ParentHolds' /\ Piped'
    BY DEF TypeOK, Indices, Made, ParentHolds, Piped, Starting, Stopping, Child
  <2>3. Inherited'
    BY <2>0 DEF TypeOK, Inherited, Child
  <2>4. InHand' /\ Left' /\ Accounted' /\ Rounds'
    BY DEF InHand, Left, Accounted, Rounds, Code, Starting, Stopping
  <2>5. Progress'
    BY <2>0 DEF TypeOK, Progress, Child
  <2> QED BY <2>1, <2>2, <2>3, <2>4, <2>5
<1>3. CASE Wait
  <2> USE <1>3 DEF Wait, pipes
  <2>0. i \in Child /\ i < size /\ size <= Num
    BY DEF TypeOK, Indices, Child
  <2>1. TypeOK'
    BY <2>0 DEF TypeOK, Child
  <2>2. Indices' /\ Made' /\ ParentHolds' /\ Piped'
    BY <2>0 DEF TypeOK, Indices, Made, ParentHolds, Piped, Starting, Stopping, Child
  <2>3. Inherited' /\ InHand' /\ Left' /\ Accounted' /\ Rounds'
    BY <2>0 DEF TypeOK, Inherited, InHand, Left, Accounted, Rounds, Code, Starting, Stopping
  <2>4. Progress'
    BY <2>0 DEF TypeOK, Made, Progress, Child
  <2> QED BY <2>1, <2>2, <2>3, <2>4
<1> QED BY <1>1, <1>2, <1>3 DEF Stop

(* The children.                                                             *)
LEMMA PoolInvWork ==
  ASSUME PoolInv, NEW c \in Child, Work(c)
  PROVE  PoolInv'
<1> USE PoolAssumption DEF PoolInv
<1>0. c \in Nat /\ c # Parent
  BY DEF Child
<1>1. CASE CloseAll(c)
  <2> USE <1>1 DEF CloseAll, parent
  <2> DEFINE held == {d \in 0..(c - 1) : c \in wends[d]}
  <2>0. /\ cpc[c] = "closing"
        /\ \E d \in Child : d <= c /\ wends' = [wends EXCEPT ![d] = @ \ {c}]
        /\ \/ cpc' = cpc
           \/ /\ held = {}
              /\ wends' = [wends EXCEPT ![c] = @ \ {c}]
              /\ cpc' = [cpc EXCEPT ![c] = "read"]
    <3>1. CASE held # {}
      <4>1. PICK d \in held : wends' = [wends EXCEPT ![d] = @ \ {c}]
        BY <3>1
      <4>2. d \in Child /\ d <= c
        BY DEF Child
      <4>3. cpc' = cpc
        BY <3>1
      <4> QED BY <4>1, <4>2, <4>3
    <3>2. CASE held = {}
      BY <3>2, <1>0
    <3> QED BY <3>1, <3>2
  <2>1. PICK d \in Child : d <= c /\ wends' = [wends EXCEPT ![d] = @ \ {c}]
    BY <2>0
  <2>2. \A e \in Child : wends'[e] \subseteq wends[e] /\ wends'[e] \cup {c} = wends[e] \cup {c}
    <3> SUFFICES ASSUME NEW e \in Child
                 PROVE  wends'[e] \subseteq wends[e] /\ wends'[e] \cup {c} = wends[e] \cup {c}
      OBVIOUS
    <3>1. wends'[e] = IF e = d THEN wends[e] \ {c} ELSE wends[e]
      BY <2>1 DEF TypeOK
    <3> QED BY <3>1
  <2>3. \A e \in Child : cpc'[e] = cpc[e] \/ (e = c /\ cpc'[e] = "read")
    BY <2>0 DEF TypeOK
  <2>4. TypeOK'
    BY <2>0, <2>1 DEF TypeOK
  <2>5. Indices' /\ Made' /\ Piped'
    BY <2>0, <2>2, <2>3 DEF Indices, Made, Piped
  <2>6. ParentHolds'
    BY <1>0, <2>2 DEF ParentHolds, Stopping
  <2>7. Inherited'
    <3> SUFFICES ASSUME NEW a \in Child, NEW b \in Child, a \in wends'[b]
                 PROVE  b <= a /\ cpc'[a] = "closing"
      BY DEF Inherited
    <3>1. a \in wends[b] /\ b <= a /\ cpc[a] = "closing"
      BY <2>2 DEF Inherited
    <3>2. CASE cpc' = cpc
      BY <3>1, <3>2
    <3>3. CASE a # c
      BY <2>3, <3>1, <3>3
    <3>4. CASE a = c /\ cpc' # cpc
      <4>1. held = {} /\ wends' = [wends EXCEPT ![c] = @ \ {c}]
        BY <2>0, <3>4
      <4>2. b # c
        BY <3>4, <4>1 DEF TypeOK
      <4>3. b \in held
        BY <1>0, <3>1, <3>4, <4>2 DEF Child
      <4> QED BY <4>1, <4>3
    <3> QED BY <3>2, <3>3, <3>4
  <2>8. InHand' /\ Left'
    BY <2>0, <2>3 DEF InHand, Left
  <2>9. Accounted'
    BY <2>0, <2>3 DEF Accounted, Code
  <2>10. Rounds'
    BY DEF Rounds
  <2>11. Progress'
    <3>1. ppc = "wait" => i \in Child
      BY DEF TypeOK, Indices, Child
    <3> QED BY <2>0, <2>2, <2>3, <3>1 DEF Progress
  <2> QED BY <2>4, <2>5, <2>6, <2>7, <2>8, <2>9, <2>10, <2>11
<1>2. CASE Read(c)
  <2> USE <1>2 DEF Read, parent
  <2>0. /\ buf[c] \in Seq(Codes) /\ Head(buf[c]) \in Codes /\ Tail(buf[c]) \in Seq(Codes)
        /\ cur[c] = None
    BY DEF TypeOK, InHand
  <2>1. TypeOK'
    BY <2>0 DEF TypeOK
  <2>2. Indices' /\ Made' /\ ParentHolds' /\ Piped' /\ Inherited'
    BY DEF TypeOK, Indices, Made, ParentHolds, Piped, Inherited, Starting, Stopping
  <2>3. InHand' /\ Left' /\ Rounds' /\ Progress'
    BY <2>0 DEF TypeOK, InHand, Left, Rounds, Progress
  <2>4. Accounted'
    <3> SUFFICES ASSUME NEW d \in Child
                 PROVE  /\ sent'[d] = ran'[d] \o Code(d)' \o buf'[d]
                        /\ cpc'[d] \in {"zombie", "reaped"} => ran'[d] = sent'[d]
      BY DEF Accounted
    <3>1. CASE d # c
      BY <3>1 DEF TypeOK, Accounted, Code
    <3>2. CASE d = c
      <4>1. cpc'[d] = "excute" /\ buf'[d] = Tail(buf[d]) /\ cur'[d] = Head(buf[d])
        BY <3>2 DEF TypeOK
      <4>2. Code(d)' = <<Head(buf[d])>> /\ Code(d) = <<>>
        BY <2>0, <3>2, <4>1 DEF Code
      <4>3. sent[d] = (ran[d] \o <<>>) \o buf[d] /\ ran[d] \in Seq(Codes)
        BY <4>2 DEF Accounted, TypeOK
      <4>4. (ran[d] \o <<>>) \o buf[d] = (ran[d] \o <<Head(buf[d])>>) \o Tail(buf[d])
        <5>1. ran[d] \o <<>> = ran[d]
          BY <4>3, EmptyRight
        <5>2. buf[d] \in Seq(Codes) /\ buf[d] # <<>>
          BY <2>0, <3>2
        <5> HIDE <1>2 DEF Read, parent, PoolInv
        <5> QED BY <4>3, <5>1, <5>2, HeadMoves
      <4> QED BY <4>1, <4>2, <4>3, <4>4
    <3> QED BY <3>1, <3>2
  <2> QED BY <2>1, <2>2, <2>3, <2>4
<1>3. CASE Excute(c)
  <2> USE <1>3 DEF Excute, parent, pipes
  <2>0. cur[c] \in Codes /\ ran[c] \in Seq(Codes)
    BY DEF TypeOK, InHand
  <2>1. TypeOK'
    BY <2>0 DEF TypeOK
  <2>2. Indices' /\ Made' /\ ParentHolds' /\ Piped' /\ Inherited'
    BY DEF TypeOK, Indices, Made, ParentHolds, Piped, Inherited, Starting, Stopping
  <2>3. InHand' /\ Left' /\ Rounds' /\ Progress'
    BY DEF TypeOK, InHand, Left, Rounds, Progress
  <2>4. Accounted'
    <3> SUFFICES ASSUME NEW d \in Child
                 PROVE  /\ sent'[d] = ran'[d] \o Code(d)' \o buf'[d]
                        /\ cpc'[d] \in {"zombie", "reaped"} => ran'[d] = sent'[d]
      BY DEF Accounted
    <3>1. CASE d # c
      BY <3>1 DEF TypeOK, Accounted, Code
    <3>2. CASE d = c
      <4>1. cpc'[d] = "read" /\ ran'[d] = Append(ran[d], cur[d]) /\ cur'[d] = None
        BY <3>2 DEF TypeOK
      <4>2. Code(d)' = <<>> /\ Code(d) = <<cur[d]>>
        BY <2>0, <3>2, <4>1 DEF Code
      <4>3. sent[d] = (ran[d] \o <<cur[d]>>) \o buf[d]
        BY <4>2 DEF Accounted
      <4>4. ran[d] \o <<cur[d]>> = Append(ran[d], cur[d]) /\ Append(ran[d], cur[d]) \in Seq(Codes)
        <5>1. ran[d] \in Seq(Codes) /\ cur[d] \in Codes
          BY <2>0, <3>2
        <5> HIDE <1>3 DEF Excute, parent, pipes, PoolInv
        <5> QED BY <5>1, OneMore
      <4>5. Append(ran[d], cur[d]) \o <<>> = Append(ran[d], cur[d])
        BY <4>4, EmptyRight
      <4> QED BY <4>1, <4>2, <4>3, <4>4, <4>5
    <3> QED BY <3>1, <3>2
  <2> QED BY <2>1, <2>2, <2>3, <2>4
<1>4. CASE Exit(c)
  <2> USE <1>4 DEF Exit, EndOfFile, parent
  <2>0. \A d \in Child : wends'[d] = wends[d]
    BY DEF TypeOK, Inherited
  <2>1. TypeOK'
    BY DEF TypeOK
  <2>2. c < size \/ (c = size /\ ppc = "insert")
    BY DEF Made
  <2>3. ppc \in Stopping
    BY <2>2 DEF ParentHolds
  <2>4. Indices' /\ Made' /\ ParentHolds' /\ Piped' /\ Inherited'
    BY <2>0, <2>3 DEF TypeOK, Indices, Made, ParentHolds, Piped, Inherited
  <2>5. InHand' /\ Left' /\ Rounds'
    BY <2>3 DEF TypeOK, InHand, Left, Rounds
  <2>6. Accounted'
    <3> SUFFICES ASSUME NEW d \in Child
                 PROVE  /\ sent'[d] = ran'[d] \o Code(d)' \o buf'[d]
                        /\ cpc'[d] \in {"zombie", "reaped"} => ran'[d] = sent'[d]
      BY DEF Accounted
    <3>1. CASE d # c
      BY <3>1 DEF TypeOK, Accounted, Code
    <3>2. CASE d = c
      <4>1. Code(d) = <<>> /\ buf[d] = <<>> /\ Code(d)' = Code(d)
        BY <3>2 DEF InHand, Code
      <4>2. sent[d] = (ran[d] \o <<>>) \o <<>> /\ ran[d] \in Seq(Codes)
        BY <4>1 DEF Accounted, TypeOK
      <4>3. sent[d] = ran[d]
        BY <4>2, EmptyRight
      <4> QED BY <4>1, <4>3 DEF Accounted
    <3> QED BY <3>1, <3>2
  <2>7. Progress'
    <3>1. ppc = "wait" => i \in Child
      BY DEF TypeOK, Indices, Child
    <3>2. ppc = "done" => cpc[c] \in {"none", "reaped"}
      BY DEF Progress
    <3> QED BY <2>0, <3>1, <3>2 DEF TypeOK, Progress
  <2> QED BY <2>1, <2>4, <2>5, <2>6, <2>7
<1> QED BY <1>1, <1>2, <1>3, <1>4 DEF Work

LEMMA PoolInvStep == PoolInv /\ [Next]_vars => PoolInv'
<1> SUFFICES ASSUME PoolInv, [Next]_vars PROVE PoolInv'
  OBVIOUS
<1>1. CASE Start \/ Run \/ Stop
  BY <1>1, PoolInvStart, PoolInvRun, PoolInvStop
<1>2. CASE \E c \in Child : Work(c)
  BY <1>2, PoolInvWork
<1>3. CASE UNCHANGED vars
  BY <1>3 DEF vars, parent, pipes, children, PoolInv, TypeOK, Indices, Made, ParentHolds,
              Piped, Inherited, InHand, Left, Accounted, Rounds, Progress, Code
<1> QED BY <1>1, <1>2, <1>3 DEF Next

LEMMA PoolInvHolds == Spec => []PoolInv
BY PoolInvInit, PoolInvStep, PTL DEF Spec

-------------------------------------------------------------------------------
(* The results.                                                              *)

(* Types, for any number of children: _next stays within _channels            *)
(* (ProcessPool.hpp's select), and i within it in Start and CloseAndWait.     *)
THEOREM TypeCorrect == Spec => []TypeOK
BY PoolInvHolds, PTL DEF PoolInv

(* A child executes exactly what its channel was sent, in order, and leaves  *)
(* when everything is executed and the parent is past its last Send.         *)
THEOREM RunsWhatWasSentCorrect == Spec => []RunsWhatWasSent
<1>1. PoolInv => RunsWhatWasSent
  BY DEF PoolInv, RunsWhatWasSent, Accounted, Left, Stopping
<1> QED BY <1>1, PoolInvHolds, PTL

(* No channel is ever more than one code ahead of another.                   *)
THEOREM BalancedCorrect == Spec => []Balanced
<1>1. PoolInv => Balanced
  <2> SUFFICES ASSUME PoolInv, NEW c \in 0..(size - 1), NEW d \in 0..(size - 1)
               PROVE  Len(sent[c]) <= Len(sent[d]) + 1
    BY DEF Balanced
  <2>1. size \in 0..Num /\ next \in Int /\ size - 1 \in Child /\ c < size
    BY PoolAssumption DEF PoolInv, TypeOK, Child
  <2>2. Len(sent[size - 1]) \in Nat
    BY <2>1 DEF PoolInv, TypeOK
  <2>3. /\ Len(sent[c]) = Len(sent[size - 1]) + 1 \/ Len(sent[c]) = Len(sent[size - 1])
        /\ Len(sent[d]) = Len(sent[size - 1]) + 1 \/ Len(sent[d]) = Len(sent[size - 1])
    BY <2>1 DEF PoolInv, Rounds
  <2> QED BY <2>2, <2>3
<1> QED BY <1>1, PoolInvHolds, PTL

(* The safety half of StopReaps.  When the parent waits for a child and the   *)
(* children are past CloseAll, nobody has the write end of its pipe, so it    *)
(* reads to the end and leaves; and when Stop is done, every child that was   *)
(* made is reaped.                                                           *)
EndComes ==
    /\ ppc = "wait" /\ (\A c \in Child : cpc[c] # "closing") => wends[i] = {}
    /\ ppc = "done" => \A c \in Child : cpc[c] \in {"none", "reaped"}

THEOREM EndComesCorrect == Spec => []EndComes
<1>1. PoolInv => EndComes
  <2> SUFFICES ASSUME PoolInv PROVE EndComes
    OBVIOUS
  <2>1. ASSUME ppc = "wait", \A c \in Child : cpc[c] # "closing"
        PROVE  wends[i] = {}
    <3>1. i \in Child /\ wends[i] \subseteq Child \cup {Parent}
      BY <2>1, PoolAssumption DEF PoolInv, TypeOK, Indices, Child
    <3>2. Parent \notin wends[i] /\ \A c \in Child : c \notin wends[i]
      BY <2>1, <3>1 DEF PoolInv, Progress, Inherited
    <3> QED BY <3>1, <3>2
  <2> QED BY <2>1 DEF EndComes, PoolInv, Progress
<1> QED BY <1>1, PoolInvHolds, PTL
================================================================================
