----------------------------- MODULE ReactorProofs -----------------------------
(* The epoll reactor for any clients, any number of descriptors, any sizes of *)
(* its buffers and any batches of epoll_wait.  ReactorInv says that whatever   *)
(* waits in the kernel is announced, and rests on the agreement of the        *)
(* descriptor table, _connections and epoll (Owned, Watched).  StreamInv       *)
(* follows the pieces of a client from its socket to its replies, and rests    *)
(* on ReactorInv.  BatchCurrent rests on Batched: a result of epoll_wait is    *)
(* about descriptors that are all different, so that no handler but its own   *)
(* touches what it is about.                                                  *)
EXTENDS Reactor, FiniteSetTheorems, SequenceTheorems, WellFoundedInduction, TLAPS

(* A connection waits in the backlog or has one descriptor, which is in       *)
(* _connections except between accept and AddConnection.                      *)
Owned ==
    /\ Listen \in conns
    /\ \A f \in Fds : file[f] \in Clients <=> f \in conns \/ (pc = "add" /\ f = newfd)
    /\ pc = "add" => newfd \in Fds \ conns
    /\ \A f, g \in Fds : file[f] = file[g] /\ file[f] \in Clients => f = g
    /\ \A f \in Fds : file[f] \in Clients => file[f] \in up
    /\ \A i, j \in DOMAIN backlog : backlog[i] = backlog[j] => i = j
    /\ \A i \in DOMAIN backlog : backlog[i] \in up /\ \A f \in Fds : file[f] # backlog[i]

(* epoll watches what _connections has, for input at least, unless it refused   *)
(* to; and nothing else.                                                      *)
Watched ==
    /\ interest[Listen] = {"IN"}
    /\ \A f \in Fds : f \in conns /\ file[f] \notin refused => "IN" \in interest[f]
    /\ \A f \in Fds : f \notin conns => interest[f] = {}

(* The thread goes back to epoll_wait with nothing left to dispatch, and calls *)
(* a Channel only while the map has it.                                       *)
Placed ==
    /\ pc = "wait" => recvs = <<>>
    /\ pc \in {"recv", "send", "enable"} => Cur \in conns \cap Fds

Distinct(s) == \A i, j \in DOMAIN s : s[i] = s[j] => i = j

(* Where the thread is in the handling of an event, and that its input bit has  *)
(* been taken then.                                                           *)
Calls == {"accept", "add", "recv", "send", "enable"}
Begun == recvs # <<>> /\ recvs[1].events \cap {"IN", "ERR"} = {}

(* Neither the ready list nor a batch names a descriptor twice, what a batch    *)
(* names is watched if it is open, and accept runs for the listener's event.    *)
Batched ==
    /\ Distinct(ready)
    /\ \A i, j \in DOMAIN recvs : recvs[i].fd = recvs[j].fd => i = j
    /\ \A i \in DOMAIN recvs : recvs[i].fd \in conns => interest[recvs[i].fd] # {}
    /\ pc \in Calls => Begun
    /\ pc \in {"accept", "add"} => Cur = Listen

SndFits == \A c \in Clients : Len(sndq[c]) <= SndCap

ReactorInv ==
    /\ TypeOK
    /\ Owned
    /\ Watched
    /\ Placed
    /\ SndFits
    /\ NoInputForgotten
    /\ NoOutputForgotten
    /\ Batched
    /\ BatchCurrent

(* The reactor has not got to the client: nothing was taken from it or sent.   *)
Fresh(c) ==
    \/ c \notin up
    \/ c \in Elements(backlog)
    \/ pc = "add" /\ file[newfd] = c

(* The pieces the reactor has taken from a client, and has decoded of them.    *)
Taken(c) == wrote[c] - Len(rcvq[c])
DecodedOf(f) == wrote[file[f]] - Len(rcvq[file[f]]) - Len(inb[f])

(* What a client wrote waits in the socket in order.                          *)
Queued(c) ==
    /\ Taken(c) \in Nat
    /\ \A i \in DOMAIN rcvq[c] : rcvq[c][i] = Taken(c) + i
    /\ Fresh(c) => Taken(c) = 0 /\ replies[c] = <<>> /\ sndq[c] = <<>>

(* What was taken and not decoded is in _inbuffer in order; what was decoded   *)
(* is answered.                                                               *)
Served(f) ==
    /\ DecodedOf(f) \in Nat
    /\ \A i \in DOMAIN inb[f] : inb[f][i] = DecodedOf(f) + i
    /\ replies[file[f]] \o sndq[file[f]] \o outb[f] =
          Answers(file[f], [i \in 1..DecodedOf(f) |-> i])

StreamInv ==
    /\ \A c \in Clients : Queued(c)
    /\ \A f \in conns \cap Fds : Served(f)

-------------------------------------------------------------------------------
(* Picking entries of a list.                                                 *)

Rank(at, j) == Cardinality({i \in at : i <= j})
Place(at, k) == CHOOSE j \in at : Rank(at, j) = k

(* The entries are numbered from 1 on in their order, with no number left out. *)
LEMMA Ranks ==
  ASSUME NEW n \in Nat, NEW at \in SUBSET (1..n)
  PROVE  /\ IsFiniteSet(at) /\ Cardinality(at) \in Nat
         /\ \A j \in at : Rank(at, j) \in 1..Cardinality(at)
         /\ \A i, j \in at : i < j => Rank(at, i) < Rank(at, j)
         /\ \A k \in 1..Cardinality(at) : Place(at, k) \in at /\ Rank(at, Place(at, k)) = k
         /\ \A j \in at : Place(at, Rank(at, j)) = j
<1> DEFINE m == Cardinality(at)
           upto(j) == {i \in at : i <= j}
<1>0. at \subseteq Int
  OBVIOUS
<1>1. IsFiniteSet(at) /\ m \in Nat
  <2>1. 1 \in Int /\ n \in Int
    OBVIOUS
  <2>2. IsFiniteSet(1..n)
    BY <2>1, FS_Interval
  <2>3. IsFiniteSet(at)
    BY <2>2, FS_Subset
  <2> QED BY <2>3, FS_CardinalityType
<1>2. \A j \in at : IsFiniteSet(upto(j)) /\ Cardinality(upto(j)) \in Nat /\ Cardinality(upto(j)) <= m
  <2> TAKE j \in at
  <2>1. upto(j) \in SUBSET at
    OBVIOUS
  <2> HIDE DEF upto
  <2> QED BY <1>1, <2>1, FS_Subset, FS_CardinalityType
<1>3. \A j \in at : Cardinality(upto(j)) # 0
  <2> TAKE j \in at
  <2>1. j \in upto(j)
    OBVIOUS
  <2> HIDE DEF upto
  <2> QED BY <1>2, <2>1, FS_EmptySet
<1>4. \A i, j \in at : i < j => Cardinality(upto(i)) < Cardinality(upto(j))
  <2> TAKE i, j \in at
  <2> SUFFICES ASSUME i < j PROVE Cardinality(upto(i)) < Cardinality(upto(j))
    OBVIOUS
  <2>0. i \in Int /\ j \in Int
    BY <1>0
  <2>1. upto(i) \in SUBSET upto(j) /\ j \in upto(j) /\ j \notin upto(i)
    <3>1. \A h \in at : h <= i => h <= j
      BY <1>0, <2>0
    <3>2. j <= j /\ ~ (j <= i)
      BY <2>0
    <3> QED BY <3>1, <3>2
  <2>2. upto(i) # upto(j)
    BY <2>1
  <2> HIDE DEF upto
  <2>3. Cardinality(upto(i)) <= Cardinality(upto(j)) /\ Cardinality(upto(i)) # Cardinality(upto(j))
    BY <1>2, <2>1, <2>2, FS_Subset
  <2> QED BY <1>2, <2>3
<1>5. \A j \in at : Rank(at, j) \in 1..m /\ Rank(at, j) = Cardinality(upto(j))
  BY <1>1, <1>2, <1>3 DEF Rank
<1> HIDE DEF upto
<1>6. \A i, j \in at : i < j => Rank(at, i) < Rank(at, j)
  BY <1>4, <1>5
<1>7. \A i, j \in at : Rank(at, i) = Rank(at, j) => i = j
  <2> TAKE i, j \in at
  <2>1. i \in Int /\ j \in Int /\ Rank(at, i) \in Int /\ Rank(at, j) \in Int
    BY <1>5
  <2>2. i < j \/ i = j \/ j < i
    BY <2>1
  <2> QED BY <1>6, <2>1, <2>2
<1>8. \A k \in 1..m : \E j \in at : Rank(at, j) = k
  <2> DEFINE r == [j \in at |-> Rank(at, j)]
  <2>1. r \in Injection(at, 1..m)
    <3>1. r \in [at -> 1..m]
      BY <1>5
    <3>2. IsInjective(r)
      BY <1>7 DEF IsInjective
    <3> QED BY <3>1, <3>2 DEF Injection
  <2>2. IsFiniteSet(1..m) /\ Cardinality(1..m) = m
    <3>1. 0 \in Int /\ 1 \in Int /\ m \in Int
      BY <1>1
    <3>2. IsFiniteSet(1..m) /\ Cardinality(1..m) = IF 1 > m THEN 0 ELSE m - 1 + 1
      BY <3>1, FS_Interval
    <3> QED BY <1>1, <3>2
  <2> HIDE DEF r
  <2>3. r \in Surjection(at, 1..m)
    BY <2>1, <2>2, FS_Injection
  <2>4. \A k \in 1..m : \E j \in at : r[j] = k
    BY <2>3 DEF Surjection
  <2> QED BY <2>4 DEF r
<1>9. \A k \in 1..m : Place(at, k) \in at /\ Rank(at, Place(at, k)) = k
  BY <1>8 DEF Place
<1>10. \A j \in at : Place(at, Rank(at, j)) = j
  BY <1>5, <1>7, <1>9
<1> QED BY <1>1, <1>5, <1>6, <1>9, <1>10

LEMMA PickedIs ==
  ASSUME NEW S, NEW s \in Seq(S), NEW at \in SUBSET DOMAIN s
  PROVE  /\ Cardinality(at) \in Nat
         /\ Picked(s, at) \in Seq(S)
         /\ Len(Picked(s, at)) = Cardinality(at)
         /\ \A k \in 1..Cardinality(at) :
               Place(at, k) \in at /\ Picked(s, at)[k] = s[Place(at, k)]
         /\ Elements(Picked(s, at)) = {s[j] : j \in at}
         /\ Distinct(s) => Distinct(Picked(s, at))
<1> DEFINE m == Cardinality(at)
<1>1. Len(s) \in Nat /\ DOMAIN s = 1..Len(s) /\ \A j \in DOMAIN s : s[j] \in S
  BY LenProperties, ElementOfSeq
<1>2. /\ m \in Nat
      /\ \A j \in at : Rank(at, j) \in 1..m /\ Place(at, Rank(at, j)) = j
      /\ \A k \in 1..m : Place(at, k) \in at /\ Rank(at, Place(at, k)) = k
  BY <1>1, Ranks
<1>3. Picked(s, at) = [k \in 1..m |-> s[Place(at, k)]]
  BY DEF Picked, Place, Rank
<1> HIDE DEF m
<1>4. \A k \in 1..m : s[Place(at, k)] \in S
  BY <1>1, <1>2
<1>5. Picked(s, at) \in [1..m -> S]
  BY <1>3, <1>4
<1>6. Picked(s, at) \in Seq(S) /\ Len(Picked(s, at)) = m /\ DOMAIN Picked(s, at) = 1..m
  BY <1>2, <1>5
<1>7. \A k \in 1..m : Picked(s, at)[k] = s[Place(at, k)]
  BY <1>3
<1>8. \A k \in 1..m : Picked(s, at)[k] \in {s[j] : j \in at}
  BY <1>2, <1>7
<1>9. \A j \in at : \E k \in 1..m : Picked(s, at)[k] = s[j]
  BY <1>2, <1>7
<1>10. Elements(Picked(s, at)) = {s[j] : j \in at}
  BY <1>6, <1>8, <1>9 DEF Elements
<1>11. Distinct(s) => Distinct(Picked(s, at))
  BY <1>2, <1>6, <1>7 DEF Distinct
<1> QED BY <1>2, <1>6, <1>7, <1>10, <1>11 DEF m

LEMMA Least ==
  ASSUME NEW T, T \subseteq Nat, T # {}
  PROVE  \E x \in T : \A y \in T : x <= y
<1>1. \E x \in T : \A y \in T : ~ (<<y, x>> \in OpToRel(<, Nat))
  BY NatLessThanWellFounded, WFMin
<1>2. PICK x \in T : \A y \in T : ~ (<<y, x>> \in OpToRel(<, Nat))
  BY <1>1, Zenon
<1>3. ASSUME NEW y \in T PROVE x <= y
  <2>1. ~ (<<y, x>> \in OpToRel(<, Nat))
    BY <1>2, Zenon
  <2>2. ~ (y < x)
    BY <2>1 DEF OpToRel
  <2> QED BY <2>2
<1> QED BY <1>3

-------------------------------------------------------------------------------
(* The kernel's lists.                                                        *)

(* What poll reports of each kind of descriptor.                              *)
LEMMA PollIs ==
  /\ "IN" \in Poll(Listen) <=> backlog # <<>>
  /\ "OUT" \notin Poll(Listen) /\ "ERR" \notin Poll(Listen)
  /\ \A f \in Fds :
        /\ "IN" \in Poll(f) <=> rcvq[file[f]] # <<>> \/ file[f] \in fin \cup rst
        /\ "OUT" \in Poll(f) <=> Len(sndq[file[f]]) < SndCap \/ file[f] \in rst
        /\ "ERR" \in Poll(f) <=> file[f] \in rst
  /\ \A f \in All : Poll(f) \subseteq Mask \cup {"ERR"}
<1>1. Listen \notin Fds
  BY ReactorAssumption
<1> QED BY <1>1 DEF Poll, Mask

LEMMA PollIsNext ==
  /\ "IN" \in Poll(Listen)' <=> backlog' # <<>>
  /\ \A f \in Fds :
        /\ "IN" \in Poll(f)' <=> rcvq'[file'[f]] # <<>> \/ file'[f] \in fin' \cup rst'
        /\ "OUT" \in Poll(f)' <=> Len(sndq'[file'[f]]) < SndCap \/ file'[f] \in rst'
        /\ "ERR" \in Poll(f)' <=> file'[f] \in rst'
<1>1. Listen \notin Fds
  BY ReactorAssumption
<1> QED BY <1>1 DEF Poll

LEMMA AppendIs ==
  ASSUME NEW S, NEW s \in Seq(S), NEW x \in S
  PROVE  /\ Append(s, x) \in Seq(S)
         /\ Elements(Append(s, x)) = Elements(s) \cup {x}
         /\ Distinct(s) /\ x \notin Elements(s) => Distinct(Append(s, x))
<1>1. /\ Append(s, x) \in Seq(S)
      /\ Len(Append(s, x)) = Len(s) + 1
      /\ \A i \in 1..Len(s) : Append(s, x)[i] = s[i]
      /\ Append(s, x)[Len(s) + 1] = x
      /\ Len(s) \in Nat /\ DOMAIN s = 1..Len(s)
      /\ DOMAIN Append(s, x) = 1..Len(s) + 1
  BY AppendProperties, LenProperties
<1>2. Elements(Append(s, x)) \subseteq Elements(s) \cup {x}
  BY <1>1 DEF Elements
<1>3. Elements(s) \subseteq Elements(Append(s, x))
  BY <1>1 DEF Elements
<1>4. x \in Elements(Append(s, x))
  BY <1>1 DEF Elements
<1>5. ASSUME Distinct(s), x \notin Elements(s), NEW i \in 1..Len(s) + 1, NEW j \in 1..Len(s) + 1,
             Append(s, x)[i] = Append(s, x)[j]
      PROVE  i = j
  <2>1. \A k \in 1..Len(s) : Append(s, x)[k] # x
    BY <1>1, <1>5 DEF Elements
  <2>2. CASE i \in 1..Len(s) /\ j \in 1..Len(s)
    BY <1>1, <1>5, <2>2 DEF Distinct
  <2>3. CASE i = Len(s) + 1 \/ j = Len(s) + 1
    BY <1>1, <1>5, <2>1, <2>3
  <2> QED BY <1>1, <2>2, <2>3
<1> QED BY <1>1, <1>2, <1>3, <1>4, <1>5 DEF Distinct

LEMMA ListedIs ==
  ASSUME ready \in Seq(All), NEW f \in All
  PROVE  /\ Listed(f) \in Seq(All)
         /\ Elements(ready) \subseteq Elements(Listed(f))
         /\ f \in Elements(Listed(f))
         /\ Distinct(ready) => Distinct(Listed(f))
BY AppendIs DEF Listed

LEMMA EdgeIs ==
  ASSUME ready \in Seq(All), NEW f \in All, NEW es, Edge(f, es)
  PROVE  /\ ready' \in Seq(All)
         /\ Elements(ready) \subseteq Elements(ready')
         /\ interest[f] \cap es # {} => f \in Elements(ready')
         /\ Distinct(ready) => Distinct(ready')
BY ListedIs DEF Edge

(* The descriptor of a client, if it has one, is the one the edge goes to.    *)
LEMMA EdgeAtIs ==
  ASSUME TypeOK, Owned, NEW c \in Clients, NEW es, EdgeAt(c, es)
  PROVE  /\ ready' \in Seq(All)
         /\ Elements(ready) \subseteq Elements(ready')
         /\ \A f \in Fds :
               file[f] = c /\ interest[f] \cap es # {} => f \in Elements(ready')
         /\ Distinct(ready) => Distinct(ready')
<1>0. ready \in Seq(All)
  BY DEF TypeOK
<1>1. CASE \E f \in Fds : file[f] = c
  <2> DEFINE g == CHOOSE f \in Fds : file[f] = c
  <2>1. g \in Fds /\ file[g] = c
    BY <1>1
  <2>2. Edge(g, es) /\ g \in All
    BY <1>1, <2>1 DEF EdgeAt, All
  <2>3. \A f \in Fds : file[f] = c => f = g
    BY <2>1 DEF Owned
  <2> HIDE DEF g
  <2> QED BY <1>0, <2>2, <2>3, EdgeIs
<1>2. CASE ~ \E f \in Fds : file[f] = c
  BY <1>0, <1>2 DEF EdgeAt
<1> QED BY <1>1, <1>2

(* What is left and what is taken when a sequence is cut after n entries.      *)
LEMMA CutIs ==
  ASSUME NEW S, NEW s \in Seq(S), NEW n \in Nat, n <= Len(s)
  PROVE  /\ Len(s) \in Nat
         /\ SubSeq(s, n + 1, Len(s)) \in Seq(S)
         /\ Len(SubSeq(s, n + 1, Len(s))) = Len(s) - n
         /\ DOMAIN SubSeq(s, n + 1, Len(s)) = 1..Len(s) - n
         /\ \A i \in 1..Len(s) - n : SubSeq(s, n + 1, Len(s))[i] = s[n + i]
         /\ SubSeq(s, 1, n) \in Seq(S)
         /\ Len(SubSeq(s, 1, n)) = n
         /\ DOMAIN SubSeq(s, 1, n) = 1..n
         /\ \A i \in 1..n : SubSeq(s, 1, n)[i] = s[i]
<1> DEFINE t == SubSeq(s, n + 1, Len(s))
           u == SubSeq(s, 1, n)
           m == n + 1
<1>1. Len(s) \in Nat /\ \A i \in 1..Len(s) : s[i] \in S
  BY LenProperties, ElementOfSeq
<1>2. m \in Int /\ Len(s) \in Int /\ \A i \in m..Len(s) : s[i] \in S
  BY <1>1
<1>3. 1 \in Int /\ n \in Int /\ \A i \in 1..n : s[i] \in S
  BY <1>1
<1>4. /\ t \in Seq(S)
      /\ Len(t) = IF m <= Len(s) THEN Len(s) - m + 1 ELSE 0
      /\ \A i \in 1..Len(s) - m + 1 : t[i] = s[m + i - 1]
  <2> HIDE DEF m
  <2>1. t = SubSeq(s, m, Len(s))
    BY DEF m
  <2> HIDE DEF t
  <2> QED BY <1>2, <2>1, SubSeqProperties
<1>5. /\ u \in Seq(S)
      /\ Len(u) = IF 1 <= n THEN n - 1 + 1 ELSE 0
      /\ \A i \in 1..n - 1 + 1 : u[i] = s[1 + i - 1]
  BY <1>3, SubSeqProperties
<1>6. DOMAIN t = 1..Len(t) /\ DOMAIN u = 1..Len(u)
  BY <1>4, <1>5, LenProperties
<1> HIDE DEF t, u
<1>7. Len(t) = Len(s) - n
  <2>1. CASE n < Len(s)
    BY <1>1, <1>4, <2>1
  <2>2. CASE n = Len(s)
    BY <1>1, <1>4, <2>2
  <2> QED BY <1>1, <2>1, <2>2
<1>8. \A i \in 1..Len(s) - n : t[i] = s[n + i]
  <2> TAKE i \in 1..Len(s) - n
  <2>1. i \in 1..Len(s) - m + 1 /\ m + i - 1 = n + i
    BY <1>1
  <2> QED BY <1>4, <2>1
<1>9. Len(u) = n
  <2>1. CASE n = 0
    BY <1>5, <2>1
  <2>2. CASE 1 <= n
    BY <1>5, <2>2
  <2> QED BY <2>1, <2>2
<1>10. \A i \in 1..n : u[i] = s[i]
  <2> TAKE i \in 1..n
  <2>1. i \in 1..n - 1 + 1 /\ 1 + i - 1 = i
    OBVIOUS
  <2> QED BY <1>5, <2>1
<1> QED BY <1>1, <1>4, <1>5, <1>6, <1>7, <1>8, <1>9, <1>10 DEF t, u

(* What was announced stays announced while the list grows and the array of    *)
(* events is left alone.                                                      *)
LEMMA StillAnnounced ==
  ASSUME Elements(ready) \subseteq Elements(ready'), recvs' = recvs
  PROVE  /\ \A f, e : Announced(f, e) => Announced(f, e)'
         /\ \A f, e : f \in Elements(ready') => Announced(f, e)'
BY DEF Announced

(* What is reported of a descriptor stays so while its client only goes on.     *)
LEMMA PollGrows ==
  ASSUME UNCHANGED file, backlog # <<>> => backlog' # <<>>,
         fin \subseteq fin', rst \subseteq rst', NEW f \in All,
         f \in Fds => /\ rcvq[file[f]] # <<>> => rcvq'[file[f]] # <<>>
                      /\ Len(sndq[file[f]]) < SndCap => Len(sndq'[file[f]]) < SndCap
  PROVE  \A e \in Poll(f) : e \in Poll(f)'
<1>1. CASE f = Listen
  BY <1>1, PollIs, PollIsNext DEF Mask, All
<1>2. CASE f \in Fds
  BY <1>2, PollIs, PollIsNext DEF Mask, All
<1> QED BY <1>1, <1>2 DEF All

(* BatchCurrent of the next state, at each descriptor.                        *)
LEMMA CurrentNext ==
  ASSUME \A i \in DOMAIN recvs' : Waits(i)' =>
            \A f : f = recvs'[i].fd => f \in conns' /\ recvs'[i].events \subseteq Poll(f)'
  PROVE  BatchCurrent'
BY DEF BatchCurrent, Waits, Poll

(* A step that leaves the array of events alone leaves the batch current if it   *)
(* touches none of the descriptors K that wait in it.                         *)
LEMMA BatchKept ==
  ASSUME Batched, BatchCurrent, recvs' = recvs, Distinct(ready'),
         NEW K, K \subseteq conns',
         \A i \in DOMAIN recvs : Waits(i) => recvs[i].fd \in K,
         \A f \in K : \A e \in Poll(f) : e \in Poll(f)',
         \A i \in DOMAIN recvs : recvs[i].fd \in conns' => interest'[recvs[i].fd] # {},
         pc' \in Calls => Begun,
         pc' \in {"accept", "add"} => Cur = Listen
  PROVE  Batched' /\ BatchCurrent'
<1>1. Batched'
  BY DEF Batched, Begun, Cur
<1>2. \A i \in DOMAIN recvs' : Waits(i)' => Waits(i)
  BY DEF Waits
<1>3. BatchCurrent'
  <2> SUFFICES ASSUME NEW i \in DOMAIN recvs, Waits(i), NEW f, f = recvs[i].fd
               PROVE  f \in conns' /\ recvs[i].events \subseteq Poll(f)'
    BY <1>2, CurrentNext
  <2>1. f \in K /\ recvs[i].events \subseteq Poll(f)
    BY DEF BatchCurrent
  <2> QED BY <2>1
<1> QED BY <1>1, <1>3

(* Once the current event is begun, the others are of other descriptors.       *)
LEMMA Others ==
  ASSUME TypeOK, Batched, BatchCurrent, Begun
  PROVE  \A i \in DOMAIN recvs : Waits(i) => recvs[i].fd \in conns \ {Cur}
<1>1. 1 \in DOMAIN recvs
  BY LenProperties, EmptySeq DEF TypeOK, Begun
<1> QED BY <1>1 DEF Waits, Begun, Batched, BatchCurrent, Cur

(* The steps within the handling of one event that open and close nothing.      *)
LEMMA BatchStays ==
  ASSUME TypeOK, Batched, BatchCurrent, pc \in Calls, pc' \notin {"accept", "add"},
         UNCHANGED <<file, interest, ready, backlog, fin, rst, conns, recvs>>,
         \A f \in conns \cap Fds :
            f # Cur => rcvq'[file[f]] = rcvq[file[f]] /\ sndq'[file[f]] = sndq[file[f]]
  PROVE  Batched' /\ BatchCurrent'
<1> DEFINE K == conns \ {Cur}
<1>1. Begun /\ Distinct(ready')
  BY DEF Batched
<1>2. \A i \in DOMAIN recvs : Waits(i) => recvs[i].fd \in K
  BY <1>1, Others
<1>3. \A f \in K : \A e \in Poll(f) : e \in Poll(f)'
  <2> TAKE f \in K
  <2>1. f \in All /\ (f \in Fds => f \in conns \cap Fds /\ f # Cur)
    BY DEF TypeOK
  <2> QED BY <2>1, PollGrows
<1>4. \A i \in DOMAIN recvs : recvs[i].fd \in conns' => interest'[recvs[i].fd] # {}
  BY DEF Batched
<1>5. K \subseteq conns'
  OBVIOUS
<1> HIDE DEF K
<1> QED BY <1>1, <1>2, <1>3, <1>4, <1>5, BatchKept

-------------------------------------------------------------------------------
(* The clients' steps.  The reactor has heard of everything before, and an     *)
(* edge lists the descriptor of what is new.                                   *)

LEMMA Heard ==
  ASSUME ReactorInv, UNCHANGED <<file, interest, server>>,
         Elements(ready) \subseteq Elements(ready'),
         backlog' # <<>> => backlog # <<>> \/ Listen \in Elements(ready'),
         \A f \in conns \cap Fds :
            /\ "IN" \in Poll(f)' /\ file[f] \notin refused =>
                  "IN" \in Poll(f) \/ f \in Elements(ready')
            /\ "OUT" \in Poll(f)' /\ "OUT" \in interest[f] =>
                  "OUT" \in Poll(f) \/ f \in Elements(ready'),
         Distinct(ready'),
         \A f \in conns : \A e \in Poll(f) : e \in Poll(f)'
  PROVE  /\ NoInputForgotten' /\ NoOutputForgotten' /\ Watched' /\ Placed'
         /\ Batched' /\ BatchCurrent'
<1>0. /\ NoInputForgotten /\ NoOutputForgotten /\ Watched /\ Placed
      /\ Batched /\ BatchCurrent
      /\ UNCHANGED <<file, interest, conns, events, inb, outb, recvs, newfd, pc, emfile, refused>>
  BY DEF ReactorInv, server
<1>1. /\ \A f, e : Announced(f, e) => Announced(f, e)'
      /\ \A f, e : f \in Elements(ready') => Announced(f, e)'
  BY <1>0, StillAnnounced
<1>2. Cur' = Cur
  BY <1>0 DEF Cur
<1>3. NoInputForgotten'
  <2> SUFFICES ASSUME pc # "lost"
               PROVE /\ \A f \in conns \cap Fds :
                           "IN" \in Poll(f)' /\ file[f] \notin refused =>
                              Announced(f, "IN")' \/ (pc = "recv" /\ Cur = f)
                     /\ backlog' # <<>> =>
                           emfile \/ Announced(Listen, "IN")' \/ pc \in {"accept", "add"}
    BY <1>0, <1>2 DEF NoInputForgotten
  <2>1. /\ \A f \in conns \cap Fds :
              "IN" \in Poll(f) /\ file[f] \notin refused =>
                 Announced(f, "IN") \/ (pc = "recv" /\ Cur = f)
        /\ backlog # <<>> =>
              emfile \/ Announced(Listen, "IN") \/ pc \in {"accept", "add"}
    BY <1>0 DEF NoInputForgotten
  <2> QED BY <1>1, <2>1
<1>4. NoOutputForgotten'
  <2> SUFFICES ASSUME pc # "lost", NEW f \in conns \cap Fds, outb[f] # <<>>
               PROVE \/ pc \in {"send", "enable"} /\ Cur = f
                     \/ /\ "OUT" \in interest[f]
                        /\ "OUT" \in Poll(f)' => Announced(f, "OUT")'
    BY <1>0, <1>2 DEF NoOutputForgotten
  <2>1. \/ pc \in {"send", "enable"} /\ Cur = f
        \/ /\ "OUT" \in interest[f]
           /\ "OUT" \in Poll(f) => Announced(f, "OUT")
    BY <1>0 DEF NoOutputForgotten
  <2> QED BY <1>1, <2>1
<1>5. Watched'
  BY <1>0 DEF Watched
<1>6. Placed'
  BY <1>0, <1>2 DEF Placed
<1>7. Batched' /\ BatchCurrent'
  <2>1. \A i \in DOMAIN recvs : Waits(i) => recvs[i].fd \in conns
    BY <1>0 DEF BatchCurrent
  <2>2. /\ \A i \in DOMAIN recvs : recvs[i].fd \in conns => interest[recvs[i].fd] # {}
        /\ pc \in Calls => Begun
        /\ pc \in {"accept", "add"} => Cur = Listen
    BY <1>0 DEF Batched
  <2> QED BY <1>0, <2>1, <2>2, BatchKept
<1> QED BY <1>3, <1>4, <1>5, <1>6, <1>7

LEMMA OwnedKept ==
  ASSUME Owned, UNCHANGED <<file, backlog, conns, newfd, pc>>, up \subseteq up'
  PROVE  Owned'
BY DEF Owned

LEMMA ConnectKeeps ==
  ASSUME ReactorInv, NEW c \in Clients, Connect(c)
  PROVE  ReactorInv'
<1>0. TypeOK /\ Owned /\ Watched /\ SndFits /\ Batched /\ BatchCurrent
  BY DEF ReactorInv
<1>1. /\ c \notin up /\ up' = up \cup {c}
      /\ backlog' = Append(backlog, c)
      /\ Edge(Listen, {"IN"})
      /\ UNCHANGED <<file, interest, rcvq, sndq, fin, rst, wrote, replies, server>>
  BY DEF Connect
<1>2. UNCHANGED <<conns, events, inb, outb, recvs, newfd, pc, emfile, refused>>
  BY <1>1 DEF server
<1>3. /\ ready' \in Seq(All)
      /\ Elements(ready) \subseteq Elements(ready')
      /\ Listen \in Elements(ready')
      /\ Distinct(ready')
  BY <1>0, <1>1, EdgeIs DEF TypeOK, Watched, Batched, All
<1>4. TypeOK'
  <2>1. backlog' \in Seq(Clients)
    BY <1>0, <1>1, AppendProperties DEF TypeOK
  <2>2. /\ up' \subseteq Clients /\ fin' \subseteq up' /\ rst' \subseteq up'
    BY <1>0, <1>1 DEF TypeOK
  <2> QED BY <1>0, <1>1, <1>2, <1>3, <2>1, <2>2 DEF TypeOK
<1>5. Owned'
  <2>0. backlog \in Seq(Clients) /\ Len(backlog) \in Nat /\ DOMAIN backlog = 1..Len(backlog)
    BY <1>0, LenProperties DEF TypeOK
  <2>1. /\ DOMAIN backlog' = 1..Len(backlog) + 1
        /\ \A i \in DOMAIN backlog : backlog'[i] = backlog[i]
        /\ backlog'[Len(backlog) + 1] = c
    <3>1. /\ backlog' \in Seq(Clients)
          /\ Len(backlog') = Len(backlog) + 1
          /\ \A i \in 1..Len(backlog) : backlog'[i] = backlog[i]
          /\ backlog'[Len(backlog) + 1] = c
      BY <1>1, <2>0, AppendProperties
    <3>2. DOMAIN backlog' = 1..Len(backlog')
      BY <3>1, LenProperties
    <3> QED BY <2>0, <3>1, <3>2
  <2>2. \A i \in DOMAIN backlog' : i \in DOMAIN backlog \/ i = Len(backlog) + 1
    BY <2>0, <2>1
  <2>3. \A i \in DOMAIN backlog : backlog[i] # c
    BY <1>0, <1>1 DEF Owned
  <2>4. \A f \in Fds : file[f] # c
    BY <1>0, <1>1 DEF Owned
  <2>5. \A i, j \in DOMAIN backlog' : backlog'[i] = backlog'[j] => i = j
    BY <1>0, <2>1, <2>2, <2>3 DEF Owned
  <2>6. \A i \in DOMAIN backlog' : backlog'[i] \in up' /\ \A f \in Fds : file'[f] # backlog'[i]
    BY <1>0, <1>1, <2>1, <2>2, <2>4 DEF Owned
  <2>7. \A f \in Fds : file'[f] \in Clients => file'[f] \in up'
    BY <1>0, <1>1 DEF Owned
  <2> QED BY <1>0, <1>1, <1>2, <2>5, <2>6, <2>7 DEF Owned
<1>6. SndFits'
  BY <1>0, <1>1, <1>2 DEF SndFits
<1>7. \A f \in conns : \A e \in Poll(f) : e \in Poll(f)'
  <2>1. backlog' # <<>>
    <3>1. backlog \in Seq(Clients) /\ backlog' = Append(backlog, c)
      BY <1>0, <1>1 DEF TypeOK
    <3> QED BY <3>1, AppendProperties
  <2>2. conns \subseteq All
    BY <1>0 DEF TypeOK
  <2> QED BY <1>1, <2>1, <2>2, PollGrows
<1>8. /\ NoInputForgotten' /\ NoOutputForgotten' /\ Watched' /\ Placed'
      /\ Batched' /\ BatchCurrent'
  BY <1>1, <1>3, <1>7, Heard, PollIs, PollIsNext
<1> QED BY <1>4, <1>5, <1>6, <1>8 DEF ReactorInv

LEMMA WriteKeeps ==
  ASSUME ReactorInv, NEW c \in Clients, Write(c)
  PROVE  ReactorInv'
<1>0. TypeOK /\ Owned /\ Watched /\ SndFits /\ Batched /\ BatchCurrent
  BY DEF ReactorInv
<1>1. /\ wrote' = [wrote EXCEPT ![c] = @ + 1]
      /\ rcvq' = [rcvq EXCEPT ![c] = Append(@, wrote[c] + 1)]
      /\ EdgeAt(c, {"IN"})
      /\ UNCHANGED <<file, interest, backlog, sndq, up, fin, rst, replies, server>>
  BY DEF Write
<1>2. UNCHANGED <<conns, events, inb, outb, recvs, newfd, pc, emfile, refused>>
  BY <1>1 DEF server
<1>3. /\ ready' \in Seq(All)
      /\ Elements(ready) \subseteq Elements(ready')
      /\ \A f \in Fds : file[f] = c /\ interest[f] \cap {"IN"} # {} => f \in Elements(ready')
      /\ Distinct(ready')
  BY <1>0, <1>1, EdgeAtIs DEF Batched
<1>4. TypeOK'
  <2>1. rcvq' \in [Clients -> Seq(Nat)] /\ wrote' \in [Clients -> Nat]
    BY <1>0, <1>1, AppendProperties DEF TypeOK
  <2> QED BY <1>0, <1>1, <1>2, <1>3, <2>1 DEF TypeOK
<1>5. Owned' /\ SndFits'
  BY <1>0, <1>1, <1>2, OwnedKept DEF SndFits
<1>6. \A f \in conns \cap Fds :
         /\ "IN" \in Poll(f)' /\ file[f] \notin refused =>
               "IN" \in Poll(f) \/ f \in Elements(ready')
         /\ "OUT" \in Poll(f)' => "OUT" \in Poll(f)
  <2> TAKE f \in conns \cap Fds
  <2>1. CASE file[f] = c
    <3>1. file[f] \notin refused => f \in Elements(ready')
      BY <1>0, <1>3, <2>1 DEF Watched
    <3> QED BY <1>1, <3>1, PollIs, PollIsNext
  <2>2. CASE file[f] # c
    <3>1. rcvq'[file[f]] = rcvq[file[f]]
      BY <1>0, <1>1, <2>2 DEF TypeOK, Owned
    <3> QED BY <1>1, <3>1, PollIs, PollIsNext
  <2> QED BY <2>1, <2>2
<1>7. \A f \in conns : \A e \in Poll(f) : e \in Poll(f)'
  <2>1. \A f \in conns \cap Fds : rcvq[file[f]] # <<>> => rcvq'[file[f]] # <<>>
    <3> TAKE f \in conns \cap Fds
    <3>1. rcvq'[c] # <<>>
      <4>1. /\ rcvq[c] \in Seq(Nat) /\ wrote[c] + 1 \in Nat
            /\ rcvq'[c] = Append(rcvq[c], wrote[c] + 1)
        BY <1>0, <1>1 DEF TypeOK
      <4> QED BY <4>1, AppendProperties
    <3>2. file[f] # c => rcvq'[file[f]] = rcvq[file[f]]
      BY <1>0, <1>1 DEF TypeOK, Owned
    <3> QED BY <3>1, <3>2
  <2>2. conns \subseteq All
    BY <1>0 DEF TypeOK
  <2> QED BY <1>1, <2>1, <2>2, PollGrows
<1>8. /\ NoInputForgotten' /\ NoOutputForgotten' /\ Watched' /\ Placed'
      /\ Batched' /\ BatchCurrent'
  BY <1>1, <1>3, <1>6, <1>7, Heard
<1> QED BY <1>4, <1>5, <1>8 DEF ReactorInv

LEMMA ShutKeeps ==
  ASSUME ReactorInv, NEW c \in Clients, Shut(c)
  PROVE  ReactorInv'
<1>0. TypeOK /\ Owned /\ Watched /\ SndFits /\ Batched /\ BatchCurrent
  BY DEF ReactorInv
<1>1. /\ c \in up /\ fin' = fin \cup {c}
      /\ EdgeAt(c, {"IN"})
      /\ UNCHANGED <<file, interest, backlog, rcvq, sndq, up, rst, wrote, replies, server>>
  BY DEF Shut
<1>2. UNCHANGED <<conns, events, inb, outb, recvs, newfd, pc, emfile, refused>>
  BY <1>1 DEF server
<1>3. /\ ready' \in Seq(All)
      /\ Elements(ready) \subseteq Elements(ready')
      /\ \A f \in Fds : file[f] = c /\ interest[f] \cap {"IN"} # {} => f \in Elements(ready')
      /\ Distinct(ready')
  BY <1>0, <1>1, EdgeAtIs DEF Batched
<1>4. TypeOK'
  BY <1>0, <1>1, <1>2, <1>3 DEF TypeOK
<1>5. Owned' /\ SndFits'
  BY <1>0, <1>1, <1>2, OwnedKept DEF SndFits
<1>6. \A f \in conns \cap Fds :
         /\ "IN" \in Poll(f)' /\ file[f] \notin refused =>
               "IN" \in Poll(f) \/ f \in Elements(ready')
         /\ "OUT" \in Poll(f)' => "OUT" \in Poll(f)
  <2> TAKE f \in conns \cap Fds
  <2>1. file[f] = c /\ file[f] \notin refused => f \in Elements(ready')
    BY <1>0, <1>3 DEF Watched
  <2> QED BY <1>1, <2>1, PollIs, PollIsNext
<1>7. \A f \in conns : \A e \in Poll(f) : e \in Poll(f)'
  <2>1. conns \subseteq All
    BY <1>0 DEF TypeOK
  <2> QED BY <1>1, <2>1, PollGrows
<1>8. /\ NoInputForgotten' /\ NoOutputForgotten' /\ Watched' /\ Placed'
      /\ Batched' /\ BatchCurrent'
  BY <1>1, <1>3, <1>6, <1>7, Heard
<1> QED BY <1>4, <1>5, <1>8 DEF ReactorInv

LEMMA ResetKeeps ==
  ASSUME ReactorInv, NEW c \in Clients, Reset(c)
  PROVE  ReactorInv'
<1>0. TypeOK /\ Owned /\ Watched /\ SndFits /\ Batched /\ BatchCurrent
  BY DEF ReactorInv
<1>1. /\ c \in up /\ rst' = rst \cup {c}
      /\ EdgeAt(c, Mask)
      /\ UNCHANGED <<file, interest, backlog, rcvq, sndq, up, fin, wrote, replies, server>>
  BY DEF Reset
<1>2. UNCHANGED <<conns, events, inb, outb, recvs, newfd, pc, emfile, refused>>
  BY <1>1 DEF server
<1>3. /\ ready' \in Seq(All)
      /\ Elements(ready) \subseteq Elements(ready')
      /\ \A f \in Fds : file[f] = c /\ interest[f] \cap Mask # {} => f \in Elements(ready')
      /\ Distinct(ready')
  BY <1>0, <1>1, EdgeAtIs DEF Batched
<1>4. TypeOK'
  BY <1>0, <1>1, <1>2, <1>3 DEF TypeOK
<1>5. Owned' /\ SndFits'
  BY <1>0, <1>1, <1>2, OwnedKept DEF SndFits
<1>6. \A f \in conns \cap Fds :
         /\ "IN" \in Poll(f)' /\ file[f] \notin refused =>
               "IN" \in Poll(f) \/ f \in Elements(ready')
         /\ "OUT" \in Poll(f)' /\ "OUT" \in interest[f] =>
               "OUT" \in Poll(f) \/ f \in Elements(ready')
  <2> TAKE f \in conns \cap Fds
  <2>1. /\ file[f] = c /\ file[f] \notin refused => f \in Elements(ready')
        /\ file[f] = c /\ "OUT" \in interest[f] => f \in Elements(ready')
    BY <1>0, <1>3 DEF Watched, Mask
  <2> QED BY <1>1, <2>1, PollIs, PollIsNext
<1>7. \A f \in conns : \A e \in Poll(f) : e \in Poll(f)'
  <2>1. conns \subseteq All
    BY <1>0 DEF TypeOK
  <2> QED BY <1>1, <2>1, PollGrows
<1>8. /\ NoInputForgotten' /\ NoOutputForgotten' /\ Watched' /\ Placed'
      /\ Batched' /\ BatchCurrent'
  BY <1>1, <1>3, <1>6, <1>7, Heard
<1> QED BY <1>4, <1>5, <1>8 DEF ReactorInv

LEMMA ReadKeeps ==
  ASSUME ReactorInv, NEW c \in Clients, Read(c)
  PROVE  ReactorInv'
<1>0. TypeOK /\ Owned /\ Watched /\ SndFits /\ Batched /\ BatchCurrent
  BY DEF ReactorInv
<1>1. /\ c \notin rst /\ sndq[c] # <<>>
      /\ replies' = [replies EXCEPT ![c] = Append(@, Head(sndq[c]))]
      /\ sndq' = [sndq EXCEPT ![c] = Tail(@)]
      /\ IF Len(sndq[c]) = SndCap THEN EdgeAt(c, {"OUT"}) ELSE ready' = ready
      /\ UNCHANGED <<file, interest, backlog, rcvq, up, fin, rst, wrote, server>>
  BY DEF Read
<1>2. UNCHANGED <<conns, events, inb, outb, recvs, newfd, pc, emfile, refused>>
  BY <1>1 DEF server
<1>3. /\ ready' \in Seq(All)
      /\ Elements(ready) \subseteq Elements(ready')
      /\ \A f \in Fds : file[f] = c /\ Len(sndq[c]) = SndCap /\ interest[f] \cap {"OUT"} # {}
                            => f \in Elements(ready')
      /\ Distinct(ready')
  <2>1. CASE Len(sndq[c]) = SndCap
    <3>1. EdgeAt(c, {"OUT"})
      BY <1>1, <2>1
    <3> QED BY <1>0, <3>1, EdgeAtIs DEF Batched
  <2>2. CASE Len(sndq[c]) # SndCap
    BY <1>0, <1>1, <2>2 DEF TypeOK, Batched
  <2> QED BY <2>1, <2>2
<1>4. /\ sndq[c] \in Seq(Nat) /\ Head(sndq[c]) \in Nat
      /\ Tail(sndq[c]) \in Seq(Nat)
      /\ Len(sndq[c]) \in Nat /\ Len(Tail(sndq[c])) = Len(sndq[c]) - 1
  BY <1>0, <1>1, HeadTailProperties, LenProperties DEF TypeOK
<1>5. TypeOK'
  <2>1. sndq' \in [Clients -> Seq(Nat)] /\ replies' \in [Clients -> Seq(Nat)]
    BY <1>0, <1>1, <1>4, AppendProperties DEF TypeOK
  <2> QED BY <1>0, <1>1, <1>2, <1>3, <2>1 DEF TypeOK
<1>6. SndCap \in Nat
  BY ReactorAssumption
<1>7. Owned'
  BY <1>0, <1>1, <1>2, OwnedKept
<1>8. SndFits'
  <2>1. sndq'[c] = Tail(sndq[c]) /\ \A d \in Clients : d # c => sndq'[d] = sndq[d]
    BY <1>0, <1>1 DEF TypeOK
  <2>2. Len(sndq[c]) <= SndCap /\ \A d \in Clients : Len(sndq[d]) <= SndCap
    BY <1>0 DEF SndFits
  <2>3. Len(sndq'[c]) <= SndCap
    BY <1>4, <1>6, <2>1, <2>2
  <2> QED BY <2>1, <2>2, <2>3 DEF SndFits
<1>9. \A f \in conns \cap Fds :
         /\ "IN" \in Poll(f)' => "IN" \in Poll(f)
         /\ "OUT" \in Poll(f)' /\ "OUT" \in interest[f] =>
               "OUT" \in Poll(f) \/ f \in Elements(ready')
  <2> TAKE f \in conns \cap Fds
  <2>1. CASE file[f] = c /\ "OUT" \in interest[f]
    <3>1. Len(sndq[c]) = SndCap \/ Len(sndq[c]) < SndCap
      BY <1>0, <1>4, <1>6 DEF SndFits
    <3>2. f \in Elements(ready') \/ "OUT" \in Poll(f)
      BY <1>3, <2>1, <3>1, PollIs
    <3> QED BY <1>1, <3>2, PollIs, PollIsNext
  <2>2. CASE file[f] # c
    <3>1. sndq'[file[f]] = sndq[file[f]]
      BY <1>0, <1>1, <2>2 DEF TypeOK, Owned
    <3> QED BY <1>1, <3>1, PollIs, PollIsNext
  <2>3. "IN" \in Poll(f)' => "IN" \in Poll(f)
    BY <1>1, PollIs, PollIsNext
  <2> QED BY <2>1, <2>2, <2>3
<1>10. \A f \in conns : \A e \in Poll(f) : e \in Poll(f)'
  <2>1. \A f \in conns \cap Fds :
           Len(sndq[file[f]]) < SndCap => Len(sndq'[file[f]]) < SndCap
    <3> TAKE f \in conns \cap Fds
    <3>1. Len(sndq'[c]) < SndCap
      <4>1. sndq'[c] = Tail(sndq[c]) /\ Len(sndq[c]) <= SndCap
        BY <1>0, <1>1 DEF SndFits, TypeOK
      <4> QED BY <1>4, <1>6, <4>1
    <3>2. file[f] # c => sndq'[file[f]] = sndq[file[f]]
      BY <1>0, <1>1 DEF TypeOK, Owned
    <3> QED BY <3>1, <3>2
  <2>2. conns \subseteq All
    BY <1>0 DEF TypeOK
  <2> QED BY <1>1, <2>1, <2>2, PollGrows
<1>11. /\ NoInputForgotten' /\ NoOutputForgotten' /\ Watched' /\ Placed'
       /\ Batched' /\ BatchCurrent'
  BY <1>1, <1>3, <1>9, <1>10, Heard
<1> QED BY <1>5, <1>7, <1>8, <1>11 DEF ReactorInv

-------------------------------------------------------------------------------
(* The dispatcher.  An event leaves the array, bit by bit, only to be handled. *)

LEMMA WaitEventsKeeps ==
  ASSUME ReactorInv, WaitEvents
  PROVE  ReactorInv'
<1> DEFINE at == {i \in DOMAIN ready : Reported(ready[i]) # {}}
           live == Picked(ready, at)
           n == IF Len(live) < RecvsSize THEN Len(live) ELSE RecvsSize
           Event == [fd : All, events : SUBSET (Mask \cup {"ERR"})]
<1>0. TypeOK /\ Owned /\ Watched /\ Placed /\ SndFits /\ Batched /\ BatchCurrent
  BY DEF ReactorInv
<1>1. /\ pc = "wait" /\ live # <<>>
      /\ recvs' = [i \in 1..n |-> [fd |-> live[i], events |-> Reported(live[i])]]
      /\ ready' = SubSeq(live, n + 1, Len(live))
      /\ pc' = "dispatch"
  BY DEF WaitEvents
<1>2. UNCHANGED <<file, interest, backlog, rcvq, sndq, up, fin, rst, wrote, replies,
                  conns, events, inb, outb, newfd, emfile, refused>>
  BY DEF WaitEvents, peers
<1>3. /\ recvs = <<>>
      /\ ready \in Seq(All)
  BY <1>0, <1>1 DEF Placed, TypeOK
<1>4. /\ live \in Seq(All)
      /\ Elements(live) = {ready[i] : i \in at}
      /\ Distinct(live)
  <2>1. at \in SUBSET DOMAIN ready
    OBVIOUS
  <2> HIDE DEF at
  <2> QED BY <1>0, <1>3, <2>1, PickedIs DEF Batched
<1>5. \A f \in Elements(ready) : Reported(f) # {} => f \in Elements(live)
  BY <1>4 DEF Elements
<1>19. \A f \in Elements(live) : Reported(f) # {}
  BY <1>4
<1> HIDE DEF live, at
<1>6. /\ Len(live) \in Nat /\ DOMAIN live = 1..Len(live)
      /\ \A i \in 1..Len(live) : live[i] \in All
  BY <1>4, LenProperties, ElementOfSeq
<1>7. n \in Nat /\ n <= Len(live)
  BY <1>6, ReactorAssumption
<1> HIDE DEF n
<1>8. \A f \in All : Reported(f) \subseteq Mask \cup {"ERR"}
  BY PollIs DEF Reported
<1>9. recvs' \in Seq(Event) /\ DOMAIN recvs' = 1..n
  <2>1. \A i \in 1..n : [fd |-> live[i], events |-> Reported(live[i])] \in Event
    BY <1>6, <1>7, <1>8
  <2> HIDE DEF Event
  <2>2. recvs' \in [1..n -> Event]
    BY <1>1, <2>1
  <2> QED BY <1>1, <1>7, <2>2
<1>10. /\ ready' \in Seq(All)
       /\ Len(ready') = Len(live) - n
       /\ DOMAIN ready' = 1..Len(live) - n
       /\ \A i \in 1..Len(live) - n : ready'[i] = live[n + i]
  <2>1. ready' = SubSeq(live, n + 1, Len(live))
    BY <1>1
  <2> QED BY <1>4, <1>7, <2>1, CutIs
<1>11. \A f \in Elements(live) : \A e \in Reported(f) : Announced(f, e)'
  <2> TAKE f \in Elements(live)
  <2> TAKE e \in Reported(f)
  <2>1. PICK i \in 1..Len(live) : live[i] = f
    BY <1>6 DEF Elements
  <2>2. CASE i <= n
    <3>1. i \in DOMAIN recvs' /\ recvs'[i] = [fd |-> f, events |-> Reported(f)]
      BY <1>1, <1>6, <1>7, <1>9, <2>1, <2>2
    <3> QED BY <3>1 DEF Announced
  <2>3. CASE ~ (i <= n)
    <3>1. i - n \in 1..Len(live) - n /\ n + (i - n) = i
      BY <1>6, <1>7, <2>3
    <3>2. i - n \in DOMAIN ready' /\ ready'[i - n] = f
      BY <1>10, <2>1, <3>1
    <3> QED BY <3>2 DEF Announced, Elements
  <2> QED BY <2>2, <2>3
<1>12. \A f \in All : \A e \in Poll(f) \cap interest[f] : Announced(f, e) => Announced(f, e)'
  <2> TAKE f \in All
  <2> TAKE e \in Poll(f) \cap interest[f]
  <2> HAVE Announced(f, e)
  <2>1. f \in Elements(ready)
    BY <1>3 DEF Announced
  <2>2. e \in Reported(f)
    BY DEF Reported
  <2> QED BY <1>5, <1>11, <2>1, <2>2
<1>13. \A f \in All : Poll(f)' = Poll(f)
  BY <1>2 DEF Poll
<1>14. TypeOK'
  BY <1>0, <1>1, <1>2, <1>9, <1>10 DEF TypeOK, PC, Event
<1>15. Owned'
  BY <1>0, <1>1, <1>2 DEF Owned
<1>16. Watched' /\ SndFits' /\ Placed'
  BY <1>0, <1>1, <1>2 DEF Watched, SndFits, Placed
<1>17. NoInputForgotten'
  <2>1. \A f \in conns \cap Fds :
           "IN" \in Poll(f)' /\ file[f] \notin refused => Announced(f, "IN")'
    <3> TAKE f \in conns \cap Fds
    <3> HAVE "IN" \in Poll(f)' /\ file[f] \notin refused
    <3>1. "IN" \in Poll(f) \cap interest[f] /\ f \in All
      BY <1>0, <1>13 DEF Watched, All
    <3>2. Announced(f, "IN")
      BY <1>1, <3>1 DEF NoInputForgotten, ReactorInv
    <3> QED BY <1>12, <3>1, <3>2
  <2>2. backlog # <<>> => emfile \/ Announced(Listen, "IN")'
    <3> HAVE backlog # <<>>
    <3>1. "IN" \in Poll(Listen) \cap interest[Listen] /\ Listen \in All
      BY <1>0, PollIs DEF Watched, All
    <3>2. emfile \/ Announced(Listen, "IN")
      BY <1>1 DEF NoInputForgotten, ReactorInv
    <3> QED BY <1>12, <3>1, <3>2
  <2> QED BY <1>2, <2>1, <2>2 DEF NoInputForgotten
<1>18. NoOutputForgotten'
  <2> SUFFICES ASSUME NEW f \in conns \cap Fds, outb[f] # <<>>
               PROVE  /\ "OUT" \in interest[f]
                      /\ "OUT" \in Poll(f)' => Announced(f, "OUT")'
    BY <1>2 DEF NoOutputForgotten
  <2>1. "OUT" \in interest[f] /\ ("OUT" \in Poll(f) => Announced(f, "OUT"))
    BY <1>1 DEF NoOutputForgotten, ReactorInv
  <2>2. f \in All
    BY DEF All
  <2> QED BY <1>12, <1>13, <2>1, <2>2
<1>20. \A i \in 1..n : /\ recvs'[i].fd = live[i] /\ recvs'[i].events = Reported(live[i])
                       /\ live[i] \in All /\ interest[live[i]] # {} /\ live[i] \in conns
  <2> TAKE i \in 1..n
  <2>1. /\ i \in 1..Len(live)
        /\ recvs'[i] = [fd |-> live[i], events |-> Reported(live[i])]
    BY <1>1, <1>6, <1>7
  <2>2. live[i] \in Elements(live) /\ live[i] \in All
    BY <1>6, <2>1 DEF Elements
  <2>3. interest[live[i]] # {}
    BY <1>19, <2>2 DEF Reported
  <2>4. live[i] \in conns
    BY <1>0, <2>2, <2>3 DEF Watched, Owned, All
  <2> QED BY <2>1, <2>2, <2>3, <2>4
<1>21. Batched'
  <2>1. \A i \in 1..n : i \in DOMAIN live
    BY <1>6, <1>7
  <2>2. \A i \in 1..Len(live) - n : n + i \in DOMAIN live
    BY <1>6, <1>7
  <2>3. \A i, j \in DOMAIN recvs' : recvs'[i].fd = recvs'[j].fd => i = j
    BY <1>4, <1>9, <1>20, <2>1 DEF Distinct
  <2>4. Distinct(ready')
    <3>1. \A i, j \in DOMAIN ready' : ready'[i] = ready'[j] => n + i = n + j
      BY <1>4, <1>10, <2>2 DEF Distinct
    <3> QED BY <1>7, <1>10, <3>1 DEF Distinct
  <2> QED BY <1>1, <1>2, <1>9, <1>20, <2>3, <2>4 DEF Batched, Calls
<1>22. BatchCurrent'
  <2>1. \A f \in All : Reported(f) \subseteq Poll(f)
    BY DEF Reported
  <2> SUFFICES ASSUME NEW i \in DOMAIN recvs', NEW f, f = recvs'[i].fd
               PROVE  f \in conns' /\ recvs'[i].events \subseteq Poll(f)'
    BY CurrentNext
  <2>2. recvs'[i].events = Reported(f) /\ f \in All /\ f \in conns
    BY <1>9, <1>20
  <2>3. Poll(f)' = Poll(f)
    BY <1>13, <2>2
  <2>4. recvs'[i].events \subseteq Poll(f)
    BY <2>1, <2>2
  <2> QED BY <1>2, <2>2, <2>3, <2>4
<1> QED BY <1>14, <1>15, <1>16, <1>17, <1>18, <1>21, <1>22 DEF ReactorInv

(* Handling some bits of the current event takes only those.                  *)
LEMMA HandledTakes ==
  ASSUME TypeOK, recvs # <<>>, NEW bits \in SUBSET Mask, Handled(bits), ready' = ready
  PROVE  /\ recvs' \in Seq([fd : All, events : SUBSET (Mask \cup {"ERR"})])
         /\ recvs' # <<>> /\ Cur \in All /\ Cur' = Cur
         /\ \A f : Announced(f, "IN") => Announced(f, "IN")' \/ (f = Cur /\ "IN" \in bits)
         /\ \A f : Announced(f, "OUT") => Announced(f, "OUT")' \/ (f = Cur /\ "OUT" \in bits)
<1> DEFINE Event == [fd : All, events : SUBSET (Mask \cup {"ERR"})]
<1>1. recvs \in Seq(Event) /\ recvs' = [recvs EXCEPT ![1].events = Due \ bits]
  BY DEF TypeOK, Handled
<1>2. /\ Len(recvs) \in Nat /\ DOMAIN recvs = 1..Len(recvs)
      /\ \A i \in 1..Len(recvs) : recvs[i] \in Event
      /\ Len(recvs) # 0
  BY <1>1, LenProperties, ElementOfSeq, EmptySeq
<1>3. 1 \in 1..Len(recvs) /\ recvs[1] \in Event
  BY <1>2
<1>4. Due \subseteq Mask \cup {"ERR"} /\ Cur \in All
  BY <1>3 DEF Due, Cur
<1>5. /\ DOMAIN recvs' = 1..Len(recvs)
      /\ recvs'[1].fd = Cur /\ recvs'[1].events = Due \ bits /\ recvs'[1] \in Event
      /\ \A i \in 1..Len(recvs) : i # 1 => recvs'[i] = recvs[i]
  BY <1>1, <1>2, <1>3, <1>4 DEF Cur
<1>6. recvs' \in Seq(Event) /\ recvs' # <<>>
  <2> HIDE DEF Event
  <2>1. recvs' \in [1..Len(recvs) -> Event]
    BY <1>1, <1>2, <1>5
  <2> QED BY <1>2, <1>3, <1>5, <2>1
<1>7. Cur' = Cur
  BY <1>5 DEF Cur
<1>8. ASSUME NEW f, NEW e \in Mask, Announced(f, e), ~ (f = Cur /\ e \in bits)
      PROVE  Announced(f, e)'
  <2>1. CASE f \in Elements(ready)
    BY <2>1 DEF Announced
  <2>2. CASE \E i \in DOMAIN recvs : recvs[i].fd = f /\ recvs[i].events \cap {e, "ERR"} # {}
    <3>1. PICK i \in DOMAIN recvs : recvs[i].fd = f /\ recvs[i].events \cap {e, "ERR"} # {}
      BY <2>2
    <3>2. CASE i = 1
      <4>1. f = Cur /\ e \in Due
        BY <3>1, <3>2 DEF Cur, Due
      <4>2. e \in Due \ bits
        BY <1>8, <4>1
      <4>3. 1 \in DOMAIN recvs' /\ recvs'[1].fd = f /\ recvs'[1].events \cap {e, "ERR"} # {}
        BY <1>3, <1>5, <4>1, <4>2
      <4> QED BY <4>3 DEF Announced
    <3>3. CASE i # 1
      <4>1. i \in DOMAIN recvs' /\ recvs'[i] = recvs[i]
        BY <1>2, <1>5, <3>1, <3>3
      <4> QED BY <3>1, <4>1 DEF Announced
    <3> QED BY <3>2, <3>3
  <2> QED BY <1>8, <2>1, <2>2 DEF Announced
<1>9. "IN" \in Mask /\ "OUT" \in Mask
  BY DEF Mask
<1> QED BY <1>4, <1>6, <1>7, <1>8, <1>9

(* The event that is begun no longer waits, the others still do.                *)
LEMMA BatchHandled ==
  ASSUME TypeOK, Batched, BatchCurrent, recvs # <<>>, NEW bits, Handled(bits), ready' = ready,
         (Due \ bits) \cap {"IN", "ERR"} = {},
         UNCHANGED <<file, interest, backlog, rcvq, sndq, fin, rst, conns>>,
         pc' \in {"accept", "add"} => Cur = Listen
  PROVE  Batched' /\ BatchCurrent'
<1> DEFINE Event == [fd : All, events : SUBSET (Mask \cup {"ERR"})]
<1>1. recvs \in Seq(Event) /\ recvs' = [recvs EXCEPT ![1].events = Due \ bits]
  BY DEF TypeOK, Handled
<1>2. /\ Len(recvs) \in Nat /\ DOMAIN recvs = 1..Len(recvs)
      /\ \A i \in 1..Len(recvs) : recvs[i] \in Event
      /\ Len(recvs) # 0
  BY <1>1, LenProperties, ElementOfSeq, EmptySeq
<1>3. /\ 1 \in DOMAIN recvs /\ DOMAIN recvs' = DOMAIN recvs
      /\ recvs'[1].fd = Cur /\ recvs'[1].events = Due \ bits
      /\ \A i \in DOMAIN recvs : i # 1 => recvs'[i] = recvs[i]
  BY <1>1, <1>2 DEF Cur
<1>4. recvs' # <<>> /\ \A i \in DOMAIN recvs : recvs'[i].fd = recvs[i].fd
  BY <1>3 DEF Cur
<1>5. Batched'
  <2>1. Begun' /\ Cur' = Cur
    BY <1>3, <1>4 DEF Begun, Cur
  <2> QED BY <1>3, <1>4, <2>1 DEF Batched
<1>6. \A f : Poll(f)' = Poll(f)
  BY DEF Poll
<1>7. BatchCurrent'
  <2> SUFFICES ASSUME NEW i \in DOMAIN recvs, Waits(i)', NEW f, f = recvs'[i].fd
               PROVE  f \in conns /\ recvs'[i].events \subseteq Poll(f)'
    BY <1>3, CurrentNext
  <2>1. i # 1
    BY <1>3 DEF Waits
  <2>2. Waits(i) /\ recvs'[i] = recvs[i]
    BY <1>2, <1>3, <2>1 DEF Waits
  <2>3. f \in conns /\ recvs[i].events \subseteq Poll(f)
    BY <2>2 DEF BatchCurrent
  <2> QED BY <1>6, <2>2, <2>3
<1> QED BY <1>5, <1>7

LEMMA DispatchInKeeps ==
  ASSUME ReactorInv, DispatchIn
  PROVE  ReactorInv'
<1>0. TypeOK /\ Owned /\ Watched /\ Placed /\ SndFits /\ Batched /\ BatchCurrent
  BY DEF ReactorInv
<1>1. /\ pc = "dispatch" /\ recvs # <<>> /\ Handled({"IN"})
      /\ pc' = CASE Cur \notin conns -> "dispatch"
                 [] Cur = Listen -> "accept"
                 [] OTHER -> "recv"
  BY DEF DispatchIn
<1>2. UNCHANGED <<file, interest, ready, backlog, rcvq, sndq, up, fin, rst, wrote, replies,
                  conns, events, inb, outb, newfd, emfile, refused>>
  BY DEF DispatchIn, kernel, peers
<1>3. /\ recvs' \in Seq([fd : All, events : SUBSET (Mask \cup {"ERR"})])
      /\ recvs' # <<>> /\ Cur \in All /\ Cur' = Cur
      /\ \A f : Announced(f, "IN") => Announced(f, "IN")' \/ f = Cur
      /\ \A f : Announced(f, "OUT") => Announced(f, "OUT")'
  <2> DEFINE bits == {"IN"}
  <2>1. bits \in SUBSET Mask
    BY DEF Mask
  <2>2. Handled(bits) /\ ready' = ready
    BY <1>1, <1>2
  <2>3. "IN" \in bits
    OBVIOUS
  <2>4. "OUT" \notin bits
    OBVIOUS
  <2>5. TypeOK /\ recvs # <<>>
    BY <1>0, <1>1
  <2> HIDE DEF bits
  <2>6. /\ recvs' \in Seq([fd : All, events : SUBSET (Mask \cup {"ERR"})])
        /\ recvs' # <<>> /\ Cur \in All /\ Cur' = Cur
    BY <2>1, <2>2, <2>5, HandledTakes
  <2>7. /\ \A f : Announced(f, "IN") => Announced(f, "IN")' \/ (f = Cur /\ "IN" \in bits)
        /\ \A f : Announced(f, "OUT") => Announced(f, "OUT")' \/ (f = Cur /\ "OUT" \in bits)
    BY <2>1, <2>2, <2>5, HandledTakes
  <2> QED BY <2>3, <2>4, <2>6, <2>7
<1>4. /\ Cur \notin conns => pc' = "dispatch"
      /\ Cur \in conns /\ Cur = Listen => pc' = "accept"
      /\ Cur \in conns /\ Cur # Listen => pc' = "recv" /\ Cur \in Fds
      /\ pc' \in {"dispatch", "accept", "recv"}
  BY <1>0, <1>1, <1>3 DEF Owned, All
<1>5. \A f \in Fds : Poll(f)' = Poll(f)
  BY <1>2, ReactorAssumption DEF Poll
<1>6. TypeOK'
  <2>1. pc' = "recv" => recvs' # <<>> /\ recvs'[1].fd \in Fds
    BY <1>3, <1>4 DEF Cur
  <2> QED BY <1>0, <1>2, <1>3, <1>4, <2>1 DEF TypeOK, PC
<1>7. Owned'
  BY <1>0, <1>1, <1>2, <1>4 DEF Owned
<1>8. Watched' /\ SndFits' /\ Placed'
  BY <1>0, <1>1, <1>2, <1>3, <1>4 DEF Watched, SndFits, Placed
<1>9. NoInputForgotten'
  <2>1. \A f \in conns \cap Fds :
           "IN" \in Poll(f)' /\ file[f] \notin refused =>
              Announced(f, "IN")' \/ (pc' = "recv" /\ Cur' = f)
    <3> TAKE f \in conns \cap Fds
    <3> HAVE "IN" \in Poll(f)' /\ file[f] \notin refused
    <3>1. Announced(f, "IN")
      BY <1>1, <1>5 DEF NoInputForgotten, ReactorInv
    <3>2. f # Listen
      BY ReactorAssumption
    <3> QED BY <1>3, <1>4, <3>1, <3>2
  <2>2. backlog # <<>> => emfile \/ Announced(Listen, "IN")' \/ pc' \in {"accept", "add"}
    <3> HAVE backlog # <<>>
    <3>1. emfile \/ Announced(Listen, "IN")
      BY <1>1 DEF NoInputForgotten, ReactorInv
    <3>2. Listen \in conns
      BY <1>0 DEF Owned
    <3> QED BY <1>3, <1>4, <3>1, <3>2
  <2> QED BY <1>2, <2>1, <2>2 DEF NoInputForgotten
<1>10. NoOutputForgotten'
  <2> SUFFICES ASSUME NEW f \in conns \cap Fds, outb[f] # <<>>
               PROVE  /\ "OUT" \in interest[f]
                      /\ "OUT" \in Poll(f)' => Announced(f, "OUT")'
    BY <1>2 DEF NoOutputForgotten
  <2>1. "OUT" \in interest[f] /\ ("OUT" \in Poll(f) => Announced(f, "OUT"))
    BY <1>1 DEF NoOutputForgotten, ReactorInv
  <2> QED BY <1>3, <1>5, <2>1
<1>11. Batched' /\ BatchCurrent'
  <2>1. (Due \ {"IN"}) \cap {"IN", "ERR"} = {}
    BY DEF Due, Mask
  <2>2. pc' \in {"accept", "add"} => Cur = Listen
    BY <1>4
  <2> QED BY <1>0, <1>1, <1>2, <2>1, <2>2, BatchHandled
<1> QED BY <1>6, <1>7, <1>8, <1>9, <1>10, <1>11 DEF ReactorInv

LEMMA DispatchOutKeeps ==
  ASSUME ReactorInv, DispatchOut
  PROVE  ReactorInv'
<1>0. TypeOK /\ Owned /\ Watched /\ Placed /\ SndFits /\ Batched /\ BatchCurrent
  BY DEF ReactorInv
<1>1. /\ pc = "dispatch" /\ recvs # <<>> /\ Handled({"OUT"}) /\ "IN" \notin Due
      /\ pc' = IF Cur \in conns \ {Listen} THEN "send" ELSE "dispatch"
  BY DEF DispatchOut
<1>2. UNCHANGED <<file, interest, ready, backlog, rcvq, sndq, up, fin, rst, wrote, replies,
                  conns, events, inb, outb, newfd, emfile, refused>>
  BY DEF DispatchOut, kernel, peers
<1>3. /\ recvs' \in Seq([fd : All, events : SUBSET (Mask \cup {"ERR"})])
      /\ recvs' # <<>> /\ Cur \in All /\ Cur' = Cur
      /\ \A f : Announced(f, "IN") => Announced(f, "IN")'
      /\ \A f : Announced(f, "OUT") => Announced(f, "OUT")' \/ f = Cur
  <2> DEFINE bits == {"OUT"}
  <2>1. bits \in SUBSET Mask
    BY DEF Mask
  <2>2. Handled(bits) /\ ready' = ready
    BY <1>1, <1>2
  <2>3. "IN" \notin bits
    OBVIOUS
  <2>4. "OUT" \in bits
    OBVIOUS
  <2>5. TypeOK /\ recvs # <<>>
    BY <1>0, <1>1
  <2> HIDE DEF bits
  <2>6. /\ recvs' \in Seq([fd : All, events : SUBSET (Mask \cup {"ERR"})])
        /\ recvs' # <<>> /\ Cur \in All /\ Cur' = Cur
    BY <2>1, <2>2, <2>5, HandledTakes
  <2>7. /\ \A f : Announced(f, "IN") => Announced(f, "IN")' \/ (f = Cur /\ "IN" \in bits)
        /\ \A f : Announced(f, "OUT") => Announced(f, "OUT")' \/ (f = Cur /\ "OUT" \in bits)
    BY <2>1, <2>2, <2>5, HandledTakes
  <2> QED BY <2>3, <2>4, <2>6, <2>7
<1>4. /\ pc' \in {"dispatch", "send"}
      /\ pc' = "send" <=> Cur \in conns \ {Listen}
      /\ pc' = "send" => Cur \in Fds
  BY <1>0, <1>1, <1>3 DEF Owned, All
<1>5. \A f \in Fds : Poll(f)' = Poll(f)
  BY <1>2, ReactorAssumption DEF Poll
<1>6. TypeOK'
  <2>1. pc' = "send" => recvs' # <<>> /\ recvs'[1].fd \in Fds
    BY <1>3, <1>4 DEF Cur
  <2> QED BY <1>0, <1>2, <1>3, <1>4, <2>1 DEF TypeOK, PC
<1>7. Owned'
  BY <1>0, <1>1, <1>2, <1>4 DEF Owned
<1>8. Watched' /\ SndFits' /\ Placed'
  BY <1>0, <1>1, <1>2, <1>3, <1>4 DEF Watched, SndFits, Placed
<1>9. NoInputForgotten'
  <2>1. \A f \in conns \cap Fds :
           "IN" \in Poll(f)' /\ file[f] \notin refused => Announced(f, "IN")'
    BY <1>1, <1>3, <1>5 DEF NoInputForgotten, ReactorInv
  <2>2. backlog # <<>> => emfile \/ Announced(Listen, "IN")'
    BY <1>1, <1>3 DEF NoInputForgotten, ReactorInv
  <2> QED BY <1>2, <2>1, <2>2 DEF NoInputForgotten
<1>10. NoOutputForgotten'
  <2> SUFFICES ASSUME NEW f \in conns \cap Fds, outb[f] # <<>>
               PROVE  \/ pc' = "send" /\ Cur' = f
                      \/ /\ "OUT" \in interest[f]
                         /\ "OUT" \in Poll(f)' => Announced(f, "OUT")'
    BY <1>2 DEF NoOutputForgotten
  <2>1. "OUT" \in interest[f] /\ ("OUT" \in Poll(f) => Announced(f, "OUT"))
    BY <1>1 DEF NoOutputForgotten, ReactorInv
  <2>2. f # Listen
    BY ReactorAssumption
  <2> QED BY <1>3, <1>4, <1>5, <2>1, <2>2
<1>11. Batched' /\ BatchCurrent'
  <2>1. (Due \ {"OUT"}) \cap {"IN", "ERR"} = {}
    BY <1>1 DEF Due, Mask
  <2>2. pc' \notin {"accept", "add"}
    BY <1>4
  <2> QED BY <1>0, <1>1, <1>2, <2>1, <2>2, BatchHandled
<1> QED BY <1>6, <1>7, <1>8, <1>9, <1>10, <1>11 DEF ReactorInv

LEMMA DispatchNextKeeps ==
  ASSUME ReactorInv, DispatchNext
  PROVE  ReactorInv'
<1> DEFINE Event == [fd : All, events : SUBSET (Mask \cup {"ERR"})]
<1>0. TypeOK /\ Owned /\ Watched /\ Placed /\ SndFits /\ Batched /\ BatchCurrent
  BY DEF ReactorInv
<1>1. /\ pc = "dispatch" /\ (recvs # <<>> => Due = {})
      /\ recvs' = IF recvs = <<>> THEN recvs ELSE Tail(recvs)
      /\ pc' = IF recvs' = <<>> THEN "wait" ELSE "dispatch"
  BY DEF DispatchNext
<1>2. UNCHANGED <<file, interest, ready, backlog, rcvq, sndq, up, fin, rst, wrote, replies,
                  conns, events, inb, outb, newfd, emfile, refused>>
  BY DEF DispatchNext, kernel, peers
<1>3. recvs \in Seq(Event)
  BY <1>0 DEF TypeOK
<1>4. /\ recvs' \in Seq(Event)
      /\ \A f : \A e \in Mask : Announced(f, e) => Announced(f, e)'
  <2>1. CASE recvs = <<>>
    BY <1>1, <1>2, <1>3, <2>1 DEF Announced
  <2>2. CASE recvs # <<>>
    <3> HIDE DEF Event
    <3>1. /\ recvs' \in Seq(Event)
          /\ Len(recvs) \in Nat /\ DOMAIN recvs = 1..Len(recvs)
          /\ Len(recvs') = Len(recvs) - 1
          /\ \A i \in 1..Len(recvs) - 1 : recvs'[i] = recvs[i + 1]
      BY <1>1, <1>3, <2>2, HeadTailProperties, LenProperties
    <3>2. DOMAIN recvs' = 1..Len(recvs')
      BY <3>1, LenProperties
    <3>3. ASSUME NEW f, NEW e \in Mask, NEW i \in DOMAIN recvs,
                 recvs[i].fd = f, recvs[i].events \cap {e, "ERR"} # {}
          PROVE  \E j \in DOMAIN recvs' : recvs'[j].fd = f /\ recvs'[j].events \cap {e, "ERR"} # {}
      <4>1. i # 1
        BY <1>1, <2>2, <3>3 DEF Due, Mask
      <4>2. i - 1 \in DOMAIN recvs' /\ recvs'[i - 1] = recvs[i]
        BY <3>1, <3>2, <4>1
      <4> QED BY <3>3, <4>2
    <3> QED BY <1>2, <3>1, <3>3 DEF Announced
  <2> QED BY <2>1, <2>2
<1>5. /\ pc' \in {"dispatch", "wait"}
      /\ pc' = "wait" => recvs' = <<>>
  BY <1>1
<1>6. \A f \in Fds : Poll(f)' = Poll(f)
  BY <1>2, ReactorAssumption DEF Poll
<1>7. TypeOK'
  BY <1>0, <1>2, <1>4, <1>5 DEF TypeOK, PC
<1>8. Owned'
  BY <1>0, <1>1, <1>2, <1>5 DEF Owned
<1>9. Watched' /\ SndFits' /\ Placed'
  BY <1>0, <1>1, <1>2, <1>5 DEF Watched, SndFits, Placed
<1>10. NoInputForgotten'
  <2>1. \A f \in conns \cap Fds :
           "IN" \in Poll(f)' /\ file[f] \notin refused => Announced(f, "IN")'
    BY <1>1, <1>4, <1>6 DEF NoInputForgotten, ReactorInv, Mask
  <2>2. backlog # <<>> => emfile \/ Announced(Listen, "IN")'
    BY <1>1, <1>4 DEF NoInputForgotten, ReactorInv, Mask
  <2> QED BY <1>2, <2>1, <2>2 DEF NoInputForgotten
<1>11. NoOutputForgotten'
  <2> SUFFICES ASSUME NEW f \in conns \cap Fds, outb[f] # <<>>
               PROVE  /\ "OUT" \in interest[f]
                      /\ "OUT" \in Poll(f)' => Announced(f, "OUT")'
    BY <1>2 DEF NoOutputForgotten
  <2>1. "OUT" \in interest[f] /\ ("OUT" \in Poll(f) => Announced(f, "OUT"))
    BY <1>1 DEF NoOutputForgotten, ReactorInv
  <2> QED BY <1>4, <1>6, <2>1 DEF Mask
<1>12. \A f : Poll(f)' = Poll(f)
  BY <1>2 DEF Poll
<1>13. \A i \in DOMAIN recvs' : i + 1 \in DOMAIN recvs /\ recvs'[i] = recvs[i + 1] /\ Waits(i + 1)
  <2>1. CASE recvs = <<>>
    BY <1>1, <2>1
  <2>2. CASE recvs # <<>>
    <3> HIDE DEF Event
    <3>1. /\ recvs' \in Seq(Event)
          /\ Len(recvs) \in Nat /\ DOMAIN recvs = 1..Len(recvs)
          /\ Len(recvs') = Len(recvs) - 1
          /\ \A i \in 1..Len(recvs) - 1 : recvs'[i] = recvs[i + 1]
      BY <1>1, <1>3, <2>2, HeadTailProperties, LenProperties
    <3>2. DOMAIN recvs' = 1..Len(recvs')
      BY <3>1, LenProperties
    <3> QED BY <3>1, <3>2 DEF Waits
  <2> QED BY <2>1, <2>2
<1>14. DOMAIN recvs' \subseteq Int
  BY <1>4, LenProperties
<1>15. Batched'
  <2>1. \A i, j \in DOMAIN recvs' : recvs'[i].fd = recvs'[j].fd => i + 1 = j + 1
    BY <1>0, <1>13 DEF Batched
  <2>2. \A i, j \in DOMAIN recvs' : recvs'[i].fd = recvs'[j].fd => i = j
    BY <1>14, <2>1
  <2> QED BY <1>0, <1>2, <1>5, <1>13, <2>2 DEF Batched, Calls
<1>16. BatchCurrent'
  <2> SUFFICES ASSUME NEW i \in DOMAIN recvs', NEW f, f = recvs'[i].fd
               PROVE  f \in conns' /\ recvs'[i].events \subseteq Poll(f)'
    BY CurrentNext
  <2>1. f \in conns /\ recvs[i + 1].events \subseteq Poll(f)
    BY <1>0, <1>13 DEF BatchCurrent
  <2> QED BY <1>2, <1>12, <1>13, <2>1
<1> QED BY <1>7, <1>8, <1>9, <1>10, <1>11, <1>15, <1>16 DEF ReactorInv

-------------------------------------------------------------------------------
(* The listener.                                                              *)

LEMMA LowestFreeIs ==
  ASSUME FreeFds # {}
  PROVE  LowestFree \in Fds /\ file[LowestFree] = None
<1>1. FreeFds \subseteq Nat
  BY ReactorAssumption DEF FreeFds
<1>2. \E f \in FreeFds : \A g \in FreeFds : f <= g
  BY <1>1, Least
<1>3. LowestFree \in FreeFds
  BY <1>2 DEF LowestFree
<1> QED BY <1>3 DEF FreeFds

LEMMA AcceptKeeps ==
  ASSUME ReactorInv, Accept
  PROVE  ReactorInv'
<1> DEFINE g == LowestFree
           c == Head(backlog)
<1>0. TypeOK /\ Owned /\ Watched /\ Placed /\ SndFits /\ Batched /\ BatchCurrent
  BY DEF ReactorInv
<1>1. /\ pc = "accept" /\ FreeFds # {} /\ backlog # <<>>
      /\ newfd' = g /\ file' = [file EXCEPT ![g] = c]
      /\ backlog' = Tail(backlog) /\ pc' = "add"
  BY DEF Accept
<1>2. UNCHANGED <<interest, ready, rcvq, sndq, up, fin, rst, wrote, replies, conns, events,
                  inb, outb, recvs, emfile, refused>>
  BY DEF Accept, peers
<1>3. g \in Fds /\ file[g] = None
  BY <1>1, LowestFreeIs
<1>4. /\ backlog \in Seq(Clients) /\ Len(backlog) \in Nat /\ DOMAIN backlog = 1..Len(backlog)
      /\ Len(backlog) # 0
  BY <1>0, <1>1, LenProperties, EmptySeq DEF TypeOK
<1>5. /\ c \in Clients /\ c = backlog[1]
      /\ backlog' \in Seq(Clients)
      /\ DOMAIN backlog' = 1..Len(backlog) - 1
      /\ \A i \in 1..Len(backlog) - 1 : backlog'[i] = backlog[i + 1]
  <2>1. /\ c \in Clients /\ backlog' \in Seq(Clients) /\ Len(backlog') = Len(backlog) - 1
        /\ \A i \in 1..Len(backlog') : backlog'[i] = backlog[i + 1]
    BY <1>1, <1>4, HeadTailProperties
  <2>2. DOMAIN backlog' = 1..Len(backlog')
    BY <2>1, LenProperties
  <2> QED BY <1>1, <1>4, <2>1, <2>2
<1> HIDE DEF g, c
<1>6. /\ file'[g] = c
      /\ \A f \in Fds : f # g => file'[f] = file[f]
  BY <1>0, <1>1, <1>3 DEF TypeOK
<1>7. g \notin conns /\ None \notin Clients
  BY <1>0, <1>3, ReactorAssumption DEF Owned
<1>8. TypeOK'
  <2>1. file' \in [Fds -> Clients \cup {None, Inherited}]
    BY <1>0, <1>1, <1>5 DEF TypeOK
  <2> QED BY <1>0, <1>1, <1>2, <1>3, <1>5, <2>1 DEF TypeOK, PC
<1>9. Owned'
  <2>1. 1 \in DOMAIN backlog /\ c \in up /\ \A f \in Fds : file[f] # c
    BY <1>0, <1>4, <1>5 DEF Owned
  <2>2. \A i \in DOMAIN backlog' : i + 1 \in DOMAIN backlog /\ backlog'[i] = backlog[i + 1]
    BY <1>4, <1>5
  <2>3. \A i \in DOMAIN backlog' : backlog'[i] # c
    <3> TAKE i \in DOMAIN backlog'
    <3>1. i + 1 # 1 /\ i + 1 \in DOMAIN backlog
      BY <1>4, <1>5, <2>2
    <3> QED BY <1>0, <1>5, <2>1, <2>2, <3>1 DEF Owned
  <2>4. \A i, j \in DOMAIN backlog' : backlog'[i] = backlog'[j] => i = j
    <3> TAKE i, j \in DOMAIN backlog'
    <3> HAVE backlog'[i] = backlog'[j]
    <3>1. i + 1 = j + 1
      BY <1>0, <2>2 DEF Owned
    <3> QED BY <1>4, <1>5, <3>1
  <2>5. \A i \in DOMAIN backlog' : backlog'[i] \in up /\ \A f \in Fds : file[f] # backlog'[i]
    BY <1>0, <2>2 DEF Owned
  <2>6. \A i \in DOMAIN backlog' : backlog'[i] \in up' /\ \A f \in Fds : file'[f] # backlog'[i]
    BY <1>2, <1>6, <2>3, <2>5
  <2>7. \A f \in Fds : file'[f] \in Clients <=> f \in conns \/ f = g
    BY <1>0, <1>1, <1>3, <1>5, <1>6, <1>7 DEF Owned
  <2>8. \A f, h \in Fds : file'[f] = file'[h] /\ file'[f] \in Clients => f = h
    BY <1>0, <1>6, <2>1 DEF Owned
  <2>9. \A f \in Fds : file'[f] \in Clients => file'[f] \in up'
    BY <1>0, <1>2, <1>6, <2>1 DEF Owned
  <2>10. Listen \in conns'
    BY <1>0, <1>2 DEF Owned
  <2>11. newfd' \in Fds \ conns'
    BY <1>1, <1>2, <1>3, <1>7
  <2> QED BY <1>1, <1>2, <2>4, <2>6, <2>7, <2>8, <2>9, <2>10, <2>11 DEF Owned
<1>10. Watched' /\ SndFits' /\ Placed'
  <2>1. Watched'
    BY <1>0, <1>2, <1>6, <1>7 DEF Watched
  <2> QED BY <1>0, <1>1, <1>2, <2>1 DEF SndFits, Placed
<1>11. \A f \in conns \cap Fds : Poll(f)' = Poll(f)
  <2>1. \A f \in conns \cap Fds : file'[f] = file[f] /\ f # Listen
    BY <1>6, <1>7, ReactorAssumption
  <2> QED BY <1>2, <2>1 DEF Poll
<1>12. \A f, e : Announced(f, e) => Announced(f, e)'
  BY <1>2 DEF Announced
<1>13. NoInputForgotten' /\ NoOutputForgotten'
  <2>1. \A f \in conns \cap Fds : file'[f] = file[f]
    BY <1>6, <1>7
  <2> QED BY <1>1, <1>2, <1>11, <1>12, <2>1 DEF NoInputForgotten, NoOutputForgotten, ReactorInv
<1>14. Batched' /\ BatchCurrent'
  <2> DEFINE K == conns \ {Cur}
  <2>1. Begun /\ Cur = Listen /\ Distinct(ready')
    BY <1>0, <1>1, <1>2 DEF Batched, Calls
  <2>2. \A i \in DOMAIN recvs : Waits(i) => recvs[i].fd \in K
    BY <1>0, <2>1, Others
  <2>3. \A f \in K : f \in conns \cap Fds
    BY <1>0, <2>1 DEF TypeOK, All
  <2>4. \A f \in K : \A e \in Poll(f) : e \in Poll(f)'
    BY <1>11, <2>3
  <2>5. \A i \in DOMAIN recvs : recvs[i].fd \in conns' => interest'[recvs[i].fd] # {}
    BY <1>0, <1>2 DEF Batched
  <2>6. K \subseteq conns'
    BY <1>2
  <2> HIDE DEF K
  <2> QED BY <1>0, <1>2, <2>1, <2>2, <2>4, <2>5, <2>6, BatchKept
<1> QED BY <1>8, <1>9, <1>10, <1>13, <1>14 DEF ReactorInv

(* The loop of the listener ends on an empty backlog or on a failed accept.    *)
LEMMA AcceptEndsKeeps ==
  ASSUME ReactorInv, AcceptDone \/ AcceptFails
  PROVE  ReactorInv'
<1>0. TypeOK /\ Owned /\ Watched /\ Placed /\ SndFits /\ Batched /\ BatchCurrent
  BY DEF ReactorInv
<1>1. /\ pc = "accept" /\ pc' = "dispatch"
      /\ emfile' \in BOOLEAN /\ (emfile => emfile')
      /\ backlog # <<>> => emfile'
  BY <1>0 DEF AcceptDone, AcceptFails, TypeOK
<1>2. UNCHANGED <<file, interest, ready, backlog, rcvq, sndq, up, fin, rst, wrote, replies,
                  conns, events, inb, outb, recvs, newfd, refused>>
  BY DEF AcceptDone, AcceptFails, kernel, peers
<1>3. TypeOK' /\ Owned' /\ Watched' /\ SndFits' /\ Placed'
  BY <1>0, <1>1, <1>2 DEF TypeOK, PC, Owned, Watched, SndFits, Placed
<1>4. \A f \in Fds : Poll(f)' = Poll(f)
  BY <1>2, ReactorAssumption DEF Poll
<1>5. \A f, e : Announced(f, e) => Announced(f, e)'
  BY <1>2 DEF Announced
<1>6. NoInputForgotten' /\ NoOutputForgotten'
  BY <1>1, <1>2, <1>4, <1>5 DEF NoInputForgotten, NoOutputForgotten, ReactorInv
<1>7. Batched' /\ BatchCurrent'
  BY <1>0, <1>1, <1>2, BatchStays DEF Calls
<1> QED BY <1>3, <1>6, <1>7 DEF ReactorInv

LEMMA AddConnectionKeeps ==
  ASSUME ReactorInv, NEW works \in BOOLEAN, AddConnection(works)
  PROVE  ReactorInv'
<1>0. TypeOK /\ Owned /\ Watched /\ Placed /\ SndFits /\ Batched /\ BatchCurrent
  BY DEF ReactorInv
<1>1. pc = "add" /\ newfd \in Fds \ conns
  BY <1>0 DEF AddConnection, Owned
<1>2. /\ conns' = conns \cup {newfd}
      /\ events' = [events EXCEPT ![newfd] = {"IN"}]
      /\ inb' = [inb EXCEPT ![newfd] = <<>>]
      /\ outb' = [outb EXCEPT ![newfd] = <<>>]
      /\ newfd' = None /\ pc' = "accept"
  BY <1>1 DEF AddConnection
<1>3. UNCHANGED <<file, backlog, rcvq, sndq, up, fin, rst, wrote, replies, recvs, emfile>>
  BY DEF AddConnection, peers
<1>4. newfd \in All /\ newfd # Listen
  BY <1>1, ReactorAssumption DEF All
<1>5. /\ ready' \in Seq(All)
      /\ Elements(ready) \subseteq Elements(ready')
      /\ Distinct(ready')
      /\ interest' \in [All -> SUBSET Mask]
      /\ \A f \in All : f # newfd => interest'[f] = interest[f]
      /\ refused' \subseteq Clients /\ refused \subseteq refused'
      /\ file[newfd] \notin refused' =>
            /\ "IN" \in interest'[newfd]
            /\ "IN" \in Poll(newfd) => newfd \in Elements(ready')
  <2>1. CASE works
    <3>1. /\ interest' = [interest EXCEPT ![newfd] = {"IN"}]
          /\ ready' = IF Poll(newfd) \cap {"IN", "ERR"} # {} THEN Listed(newfd) ELSE ready
          /\ refused' = refused
      BY <1>1, <2>1 DEF AddConnection
    <3>2. /\ ready' \in Seq(All) /\ Distinct(ready')
          /\ Elements(ready) \subseteq Elements(ready')
          /\ "IN" \in Poll(newfd) => newfd \in Elements(ready')
      BY <1>0, <1>4, <3>1, ListedIs DEF TypeOK, Batched
    <3>3. /\ interest' \in [All -> SUBSET Mask] /\ interest'[newfd] = {"IN"}
          /\ \A f \in All : f # newfd => interest'[f] = interest[f]
      BY <1>0, <1>4, <3>1 DEF TypeOK, Mask
    <3> QED BY <1>0, <3>1, <3>2, <3>3 DEF TypeOK
  <2>2. CASE ~ works
    <3>1. refused' = refused \cup {file[newfd]} /\ UNCHANGED <<interest, ready>>
      BY <1>1, <2>2 DEF AddConnection
    <3>2. file[newfd] \in Clients
      BY <1>0, <1>1 DEF Owned
    <3> QED BY <1>0, <3>1, <3>2 DEF TypeOK, Batched
  <2> QED BY <2>1, <2>2
<1>6. TypeOK'
  <2>1. events' \in [All -> SUBSET Mask]
    BY <1>0, <1>2, <1>4 DEF TypeOK, Mask
  <2>2. inb' \in [Fds -> Seq(Nat)] /\ outb' \in [Fds -> Seq(Nat)]
    BY <1>0, <1>1, <1>2 DEF TypeOK
  <2>3. conns' \subseteq All
    BY <1>0, <1>2, <1>4 DEF TypeOK
  <2> QED BY <1>0, <1>2, <1>3, <1>5, <2>1, <2>2, <2>3 DEF TypeOK, PC
<1>7. Owned'
  BY <1>0, <1>1, <1>2, <1>3 DEF Owned
<1>8. /\ outb'[newfd] = <<>>
      /\ \A f \in Fds : f # newfd => outb'[f] = outb[f]
  BY <1>0, <1>1, <1>2, <1>4 DEF TypeOK
<1>9. Watched'
  <2>1. \A f \in Fds : f \in All
    BY DEF All
  <2>2. interest'[Listen] = {"IN"}
    BY <1>0, <1>4, <1>5 DEF Watched, All
  <2>3. \A f \in Fds : f \in conns' /\ file'[f] \notin refused' => "IN" \in interest'[f]
    BY <1>0, <1>2, <1>3, <1>5, <2>1 DEF Watched
  <2>4. \A f \in Fds : f \notin conns' => interest'[f] = {}
    BY <1>0, <1>2, <1>5, <2>1 DEF Watched
  <2> QED BY <2>2, <2>3, <2>4 DEF Watched
<1>10. SndFits' /\ Placed'
  BY <1>0, <1>2, <1>3 DEF SndFits, Placed
<1>11. \A f \in Fds : Poll(f)' = Poll(f)
  BY <1>3, ReactorAssumption DEF Poll
<1>12. /\ \A f, e : Announced(f, e) => Announced(f, e)'
       /\ \A f, e : f \in Elements(ready') => Announced(f, e)'
  BY <1>3, <1>5, StillAnnounced
<1>13. NoInputForgotten'
  <2>1. \A f \in conns' \cap Fds :
           "IN" \in Poll(f)' /\ file'[f] \notin refused' => Announced(f, "IN")'
    <3> TAKE f \in conns' \cap Fds
    <3> HAVE "IN" \in Poll(f)' /\ file'[f] \notin refused'
    <3>1. CASE f = newfd
      BY <1>3, <1>5, <1>11, <1>12, <3>1
    <3>2. CASE f # newfd
      <4>1. f \in conns /\ file[f] \notin refused /\ "IN" \in Poll(f)
        BY <1>2, <1>3, <1>5, <1>11, <3>2
      <4> QED BY <1>1, <1>12, <4>1 DEF NoInputForgotten, ReactorInv
    <3> QED BY <3>1, <3>2
  <2> QED BY <1>2, <2>1 DEF NoInputForgotten
<1>14. NoOutputForgotten'
  <2> SUFFICES ASSUME NEW f \in conns' \cap Fds, outb'[f] # <<>>
               PROVE  /\ "OUT" \in interest'[f]
                      /\ "OUT" \in Poll(f)' => Announced(f, "OUT")'
    BY DEF NoOutputForgotten
  <2>1. f # newfd /\ f \in conns /\ f \in All /\ outb[f] # <<>>
    BY <1>2, <1>8 DEF All
  <2>2. "OUT" \in interest[f] /\ ("OUT" \in Poll(f) => Announced(f, "OUT"))
    BY <1>1, <2>1 DEF NoOutputForgotten, ReactorInv
  <2> QED BY <1>5, <1>11, <1>12, <2>1, <2>2
<1>15. Batched' /\ BatchCurrent'
  <2>1. Begun /\ Cur = Listen
    BY <1>0, <1>1 DEF Batched, Calls
  <2>2. \A i \in DOMAIN recvs : Waits(i) => recvs[i].fd \in conns
    BY <1>0 DEF BatchCurrent
  <2>3. \A i \in DOMAIN recvs : recvs[i].fd \in conns
    <3> TAKE i \in DOMAIN recvs
    <3>1. i \in Nat /\ i >= 1
      BY <1>0, LenProperties DEF TypeOK
    <3>2. CASE i = 1
      BY <1>0, <2>1, <3>2 DEF Cur, Owned
    <3>3. CASE i # 1
      BY <2>2, <3>1, <3>3 DEF Waits
    <3> QED BY <3>2, <3>3
  <2>4. \A f \in conns : f \in All /\ f # newfd
    BY <1>0, <1>1 DEF TypeOK
  <2>5. \A i \in DOMAIN recvs : interest'[recvs[i].fd] # {}
    BY <1>0, <1>5, <2>3, <2>4 DEF Batched
  <2>6. \A f : Poll(f)' = Poll(f)
    BY <1>3 DEF Poll
  <2>7. \A f \in conns : \A e \in Poll(f) : e \in Poll(f)'
    BY <2>6
  <2>8. conns \subseteq conns'
    BY <1>2
  <2> QED BY <1>0, <1>3, <1>5, <2>1, <2>2, <2>5, <2>7, <2>8, BatchKept
<1> QED BY <1>6, <1>7, <1>9, <1>10, <1>13, <1>14, <1>15 DEF ReactorInv

-------------------------------------------------------------------------------
(* Channel::Recver.                                                           *)

(* Where a Channel is called, the map has it and its client is the owner.      *)
LEMMA Called ==
  ASSUME TypeOK, Owned, Placed, pc \in {"recv", "send", "enable"}
  PROVE  /\ Cur \in Fds /\ Cur \in All /\ Cur \in conns
         /\ Peer \in Clients /\ Peer = file[Cur]
         /\ \A f \in conns \cap Fds : f # Cur => file[f] \in Clients /\ file[f] # Peer
         /\ recvs # <<>>
<1>1. Cur \in conns \cap Fds /\ Cur \in All
  BY DEF Placed, All
<1>2. \A f \in conns \cap Fds : file[f] \in Clients
  BY DEF Owned
<1>3. \A f \in conns \cap Fds : f # Cur => file[f] # file[Cur]
  BY <1>1, <1>2 DEF Owned
<1>4. recvs # <<>>
  BY DEF TypeOK
<1> QED BY <1>1, <1>2, <1>3, <1>4 DEF Peer

LEMMA Min2Is ==
  ASSUME NEW m \in Nat, NEW n \in Nat
  PROVE  Min2(m, n) \in Nat /\ Min2(m, n) <= m /\ Min2(m, n) <= n
BY DEF Min2

LEMMA RecvDataKeeps ==
  ASSUME ReactorInv, RecvData
  PROVE  ReactorInv'
<1> DEFINE n == Min2(RecvSize, Len(rcvq[Peer]))
<1>0. TypeOK /\ Owned /\ Watched /\ Placed /\ SndFits /\ Batched /\ BatchCurrent
  BY DEF ReactorInv
<1>1. /\ pc = "recv"
      /\ inb' = [inb EXCEPT ![Cur] = @ \o SubSeq(rcvq[Peer], 1, n)]
      /\ rcvq' = [rcvq EXCEPT ![Peer] = SubSeq(@, n + 1, Len(@))]
  BY DEF RecvData
<1>2. UNCHANGED <<file, interest, ready, backlog, sndq, up, fin, rst, wrote, replies, conns,
                  events, outb, recvs, newfd, pc, emfile, refused>>
  BY DEF RecvData, peers
<1>3. /\ Cur \in Fds /\ Cur \in conns /\ Peer \in Clients /\ Peer = file[Cur]
      /\ \A f \in conns \cap Fds : f # Cur => file[f] \in Clients /\ file[f] # Peer
  BY <1>0, <1>1, Called
<1>4. Cur' = Cur
  BY <1>2 DEF Cur
<1>5. rcvq[Peer] \in Seq(Nat) /\ inb[Cur] \in Seq(Nat)
  BY <1>0, <1>3 DEF TypeOK
<1>6. n \in Nat /\ n <= Len(rcvq[Peer])
  <2>1. Len(rcvq[Peer]) \in Nat /\ RecvSize \in Nat
    BY <1>5, LenProperties, ReactorAssumption
  <2> QED BY <2>1, Min2Is
<1> HIDE DEF n
<1>7. /\ SubSeq(rcvq[Peer], 1, n) \in Seq(Nat)
      /\ SubSeq(rcvq[Peer], n + 1, Len(rcvq[Peer])) \in Seq(Nat)
  BY <1>5, <1>6, CutIs
<1>8. TypeOK'
  <2>1. inb[Cur] \o SubSeq(rcvq[Peer], 1, n) \in Seq(Nat)
    BY <1>5, <1>7, ConcatProperties
  <2>2. inb' \in [Fds -> Seq(Nat)] /\ rcvq' \in [Clients -> Seq(Nat)]
    BY <1>0, <1>1, <1>7, <2>1 DEF TypeOK
  <2> QED BY <1>0, <1>2, <2>2 DEF TypeOK
<1>9. Owned' /\ Watched' /\ SndFits' /\ Placed'
  BY <1>0, <1>2, <1>4 DEF Owned, Watched, SndFits, Placed
<1>10. \A f \in conns \cap Fds : f # Cur => ("IN" \in Poll(f)' <=> "IN" \in Poll(f))
  <2> TAKE f \in conns \cap Fds
  <2> HAVE f # Cur
  <2>1. rcvq'[file[f]] = rcvq[file[f]]
    BY <1>0, <1>1, <1>3 DEF TypeOK
  <2> QED BY <1>2, <2>1, PollIs, PollIsNext
<1>11. \A f \in conns \cap Fds : "OUT" \in Poll(f)' <=> "OUT" \in Poll(f)
  BY <1>2, PollIs, PollIsNext
<1>12. \A f, e : Announced(f, e) => Announced(f, e)'
  BY <1>2 DEF Announced
<1>13. NoInputForgotten'
  <2>1. \A f \in conns \cap Fds :
           "IN" \in Poll(f)' /\ file[f] \notin refused => Announced(f, "IN")' \/ Cur = f
    BY <1>1, <1>10, <1>12 DEF NoInputForgotten, ReactorInv
  <2>2. backlog # <<>> => emfile \/ Announced(Listen, "IN")'
    BY <1>1, <1>12 DEF NoInputForgotten, ReactorInv
  <2> QED BY <1>1, <1>2, <1>4, <2>1, <2>2 DEF NoInputForgotten
<1>14. NoOutputForgotten'
  <2> SUFFICES ASSUME NEW f \in conns \cap Fds, outb[f] # <<>>
               PROVE  /\ "OUT" \in interest[f]
                      /\ "OUT" \in Poll(f)' => Announced(f, "OUT")'
    BY <1>2 DEF NoOutputForgotten
  <2>1. "OUT" \in interest[f] /\ ("OUT" \in Poll(f) => Announced(f, "OUT"))
    BY <1>1 DEF NoOutputForgotten, ReactorInv
  <2> QED BY <1>11, <1>12, <2>1
<1>15. Batched' /\ BatchCurrent'
  <2>1. \A f \in conns \cap Fds : f # Cur => rcvq'[file[f]] = rcvq[file[f]]
    BY <1>0, <1>1, <1>3 DEF TypeOK
  <2> QED BY <1>0, <1>1, <1>2, <2>1, BatchStays DEF Calls
<1> QED BY <1>8, <1>9, <1>13, <1>14, <1>15 DEF ReactorInv

(* Excepter forgets one connection and nothing of the others.                 *)
LEMMA DelConnectionKeeps ==
  ASSUME ReactorInv, pc = "recv", DelConnection(Cur),
         UNCHANGED <<backlog, rcvq, sndq, peers, recvs, newfd, emfile, refused>>,
         pc' \in {"dispatch", "lost"}
  PROVE  ReactorInv'
<1> DEFINE g == Cur
           at == {i \in DOMAIN ready : ready[i] # g}
<1>0. TypeOK /\ Owned /\ Watched /\ Placed /\ SndFits /\ Batched /\ BatchCurrent
  BY DEF ReactorInv
<1>1. /\ interest' = [interest EXCEPT ![g] = {}]
      /\ ready' = Picked(ready, at)
      /\ conns' = conns \ {g}
      /\ events' = [events EXCEPT ![g] = {}]
      /\ inb' = [inb EXCEPT ![g] = <<>>]
      /\ outb' = [outb EXCEPT ![g] = <<>>]
      /\ file' = [file EXCEPT ![g] = None]
  BY DEF DelConnection
<1>2. UNCHANGED <<backlog, rcvq, sndq, up, fin, rst, wrote, replies, recvs, newfd, emfile, refused>>
  BY DEF peers
<1>3. g \in Fds /\ g \in All /\ g \in conns /\ g # Listen
  BY <1>0, Called, ReactorAssumption
<1>4. None \notin Clients
  BY ReactorAssumption
<1>5. /\ ready' \in Seq(All)
      /\ Elements(ready') = {ready[i] : i \in at}
      /\ Distinct(ready')
  <2>1. ready \in Seq(All)
    BY <1>0 DEF TypeOK
  <2>2. at \in SUBSET DOMAIN ready
    OBVIOUS
  <2> HIDE DEF at
  <2> QED BY <1>0, <1>1, <2>1, <2>2, PickedIs DEF Batched
<1>6. \A f \in Elements(ready) : f # g => f \in Elements(ready')
  BY <1>5 DEF Elements
<1> HIDE DEF g, at
<1>7. /\ file'[g] = None /\ interest'[g] = {} /\ outb'[g] = <<>>
      /\ \A f \in Fds : f # g => file'[f] = file[f] /\ outb'[f] = outb[f]
      /\ \A f \in All : f # g => interest'[f] = interest[f]
  BY <1>0, <1>1, <1>3 DEF TypeOK
<1>8. TypeOK'
  <2>1. /\ interest' \in [All -> SUBSET Mask] /\ events' \in [All -> SUBSET Mask]
        /\ conns' \subseteq All
    BY <1>0, <1>1, <1>3 DEF TypeOK
  <2>2. inb' \in [Fds -> Seq(Nat)] /\ outb' \in [Fds -> Seq(Nat)]
    <3>1. inb \in [Fds -> Seq(Nat)] /\ outb \in [Fds -> Seq(Nat)] /\ <<>> \in Seq(Nat)
      BY <1>0 DEF TypeOK
    <3> QED BY <1>1, <3>1
  <2>3. file' \in [Fds -> Clients \cup {None, Inherited}]
    <3>1. file \in [Fds -> Clients \cup {None, Inherited}]
      BY <1>0 DEF TypeOK
    <3> QED BY <1>1, <3>1
  <2> QED BY <1>0, <1>2, <1>5, <2>1, <2>2, <2>3 DEF TypeOK, PC
<1>9. Owned'
  <2>1. pc # "add" /\ pc' # "add"
    OBVIOUS
  <2>2. \A f \in Fds : file'[f] \in Clients <=> f \in conns'
    BY <1>0, <1>1, <1>4, <1>7, <2>1 DEF Owned
  <2>3. \A f \in Fds : file'[f] \in Clients => f # g /\ file'[f] = file[f]
    BY <1>4, <1>7
  <2>4. \A f, h \in Fds : file'[f] = file'[h] /\ file'[f] \in Clients => f = h
    BY <1>0, <2>3 DEF Owned
  <2>5. \A f \in Fds : file'[f] \in Clients => file'[f] \in up
    BY <1>0, <2>3 DEF Owned
  <2>6. \A i \in DOMAIN backlog : backlog[i] \in up /\ \A f \in Fds : file'[f] # backlog[i]
    <3> TAKE i \in DOMAIN backlog
    <3>1. backlog[i] \in up /\ backlog[i] \in Clients /\ \A f \in Fds : file[f] # backlog[i]
      BY <1>0 DEF Owned, TypeOK
    <3> QED BY <2>3, <3>1
  <2>7. Listen \in conns'
    BY <1>0, <1>1, <1>3 DEF Owned
  <2> QED BY <1>0, <1>2, <2>1, <2>2, <2>4, <2>5, <2>6, <2>7 DEF Owned
<1>10. Watched' /\ SndFits' /\ Placed'
  <2>1. \A f \in Fds : f \in All
    BY DEF All
  <2>2. Listen \in All
    BY DEF All
  <2> QED BY <1>0, <1>1, <1>2, <1>3, <1>7, <2>1, <2>2 DEF Watched, SndFits, Placed
<1>12. \A f \in conns' : Poll(f)' = Poll(f)
  <2>1. \A f \in conns' : f \in Fds => file'[f] = file[f]
    BY <1>1, <1>7
  <2>2. \A f \in conns' : f = Listen \/ f \in Fds
    BY <1>8 DEF TypeOK, All
  <2> QED BY <1>2, <2>1, <2>2 DEF Poll
<1>13. \A f, e : Announced(f, e) /\ f # g => Announced(f, e)'
  BY <1>2, <1>6 DEF Announced
<1>14. NoInputForgotten'
  <2>1. \A f \in conns' \cap Fds :
           "IN" \in Poll(f)' /\ file'[f] \notin refused => Announced(f, "IN")'
    BY <1>1, <1>7, <1>12, <1>13 DEF NoInputForgotten, ReactorInv, g
  <2>2. backlog # <<>> => emfile \/ Announced(Listen, "IN")'
    BY <1>3, <1>13 DEF NoInputForgotten, ReactorInv
  <2> QED BY <1>2, <2>1, <2>2 DEF NoInputForgotten
<1>15. NoOutputForgotten'
  <2> SUFFICES ASSUME NEW f \in conns' \cap Fds, outb'[f] # <<>>
               PROVE  /\ "OUT" \in interest'[f]
                      /\ "OUT" \in Poll(f)' => Announced(f, "OUT")'
    BY DEF NoOutputForgotten
  <2>1. f # g /\ f \in conns /\ f \in All /\ outb[f] # <<>>
    BY <1>1, <1>7 DEF All
  <2>2. "OUT" \in interest[f] /\ ("OUT" \in Poll(f) => Announced(f, "OUT"))
    BY <2>1 DEF NoOutputForgotten, ReactorInv
  <2> QED BY <1>7, <1>12, <1>13, <2>1, <2>2
<1>16. Batched' /\ BatchCurrent'
  <2>1. Begun /\ Distinct(ready')
    BY <1>0, <1>5 DEF Batched, Calls
  <2>2. \A i \in DOMAIN recvs : Waits(i) => recvs[i].fd \in conns'
    BY <1>0, <1>1, <2>1, Others DEF g
  <2>3. \A f \in conns' : \A e \in Poll(f) : e \in Poll(f)'
    BY <1>12
  <2>4. \A f \in conns' : f \in conns /\ f \in All /\ f # g
    BY <1>0, <1>1 DEF TypeOK
  <2>5. \A i \in DOMAIN recvs : recvs[i].fd \in conns' => interest'[recvs[i].fd] # {}
    BY <1>0, <1>7, <2>4 DEF Batched
  <2>6. pc' \notin Calls /\ pc' \notin {"accept", "add"}
    BY DEF Calls
  <2> QED BY <1>0, <1>2, <2>1, <2>2, <2>3, <2>5, <2>6, BatchKept
<1> QED BY <1>8, <1>9, <1>10, <1>14, <1>15, <1>16 DEF ReactorInv

LEMMA RecvClosedKeeps ==
  ASSUME ReactorInv, RecvClosed
  PROVE  ReactorInv'
BY DelConnectionKeeps DEF RecvClosed

LEMMA RecvErrorKeeps ==
  ASSUME ReactorInv, RecvError
  PROVE  ReactorInv'
BY DelConnectionKeeps DEF RecvError

(* Decode stops after the last complete package.                              *)
LEMMA DecodedIs ==
  ASSUME NEW c \in Clients, NEW s \in Seq(Nat)
  PROVE  /\ Decoded(c, s) \in Nat /\ Decoded(c, s) <= Len(s)
         /\ \A i \in DOMAIN s : Decoded(c, s) < i => Kind(c, s[i]) = "part"
<1> DEFINE done == {i \in DOMAIN s : Kind(c, s[i]) # "part"}
           left == {Len(s) - i : i \in done}
           last(i) == i \in done /\ \A j \in done : j <= i
<1>1. Len(s) \in Nat /\ DOMAIN s = 1..Len(s)
  BY LenProperties
<1>2. Decoded(c, s) = IF done = {} THEN 0 ELSE CHOOSE i \in done : \A j \in done : j <= i
  BY DEF Decoded
<1>3. CASE done = {}
  BY <1>1, <1>2, <1>3
<1>4. CASE done # {}
  <2>1. left \subseteq Nat /\ left # {}
    BY <1>1, <1>4
  <2> HIDE DEF left
  <2>2. PICK x \in left : \A y \in left : x <= y
    BY <2>1, Least
  <2>3. PICK i \in done : x = Len(s) - i
    BY <2>2 DEF left
  <2>4. \A j \in done : Len(s) - j \in left
    BY DEF left
  <2>5. \A j \in done : j <= i
    <3> TAKE j \in done
    <3>1. Len(s) - i <= Len(s) - j
      BY <2>2, <2>3, <2>4
    <3> QED BY <1>1, <3>1
  <2>6. Decoded(c, s) \in done /\ \A j \in done : j <= Decoded(c, s)
    BY <1>2, <1>4, <2>5
  <2> QED BY <1>1, <2>6
<1> QED BY <1>3, <1>4

LEMMA AnswersAre ==
  ASSUME NEW c \in Clients, NEW s \in Seq(Nat)
  PROVE  Answers(c, s) \in Seq(Nat)
<1> DEFINE at == {i \in DOMAIN s : Kind(c, s[i]) = "good"}
<1>1. at \in SUBSET DOMAIN s
  OBVIOUS
<1>2. Answers(c, s) = Picked(s, at)
  BY DEF Answers
<1> HIDE DEF at
<1> QED BY <1>1, <1>2, PickedIs

LEMMA RecvBlocksKeeps ==
  ASSUME ReactorInv, RecvBlocks
  PROVE  ReactorInv'
<1> DEFINE n == Decoded(Peer, inb[Cur])
           kept == SubSeq(inb[Cur], n + 1, Len(inb[Cur]))
           owed == outb[Cur] \o Answers(Peer, SubSeq(inb[Cur], 1, n))
<1>0. TypeOK /\ Owned /\ Watched /\ Placed /\ SndFits /\ Batched /\ BatchCurrent
  BY DEF ReactorInv
<1>1. /\ pc = "recv" /\ rcvq[Peer] = <<>> /\ Peer \notin fin \cup rst
      /\ inb' = [inb EXCEPT ![Cur] = kept]
      /\ outb' = [outb EXCEPT ![Cur] = owed]
      /\ pc' = IF outb'[Cur] # <<>> THEN "send" ELSE "dispatch"
  BY DEF RecvBlocks
<1>2. UNCHANGED <<file, interest, ready, backlog, rcvq, sndq, up, fin, rst, wrote, replies,
                  conns, events, recvs, newfd, emfile, refused>>
  BY DEF RecvBlocks, kernel, peers
<1>3. /\ Cur \in Fds /\ Cur \in conns /\ Peer \in Clients /\ Peer = file[Cur]
      /\ recvs # <<>>
  BY <1>0, <1>1, Called
<1>4. Cur' = Cur
  BY <1>2 DEF Cur
<1>5. inb[Cur] \in Seq(Nat) /\ outb[Cur] \in Seq(Nat)
  BY <1>0, <1>3 DEF TypeOK
<1>6. n \in Nat /\ n <= Len(inb[Cur])
  BY <1>3, <1>5, DecodedIs
<1> HIDE DEF n
<1>7. kept \in Seq(Nat) /\ SubSeq(inb[Cur], 1, n) \in Seq(Nat)
  BY <1>5, <1>6, CutIs
<1>8. owed \in Seq(Nat)
  BY <1>3, <1>5, <1>7, AnswersAre, ConcatProperties
<1> HIDE DEF kept, owed
<1>9. TypeOK'
  <2>1. inb' \in [Fds -> Seq(Nat)] /\ outb' \in [Fds -> Seq(Nat)]
    BY <1>0, <1>1, <1>7, <1>8 DEF TypeOK
  <2>2. pc' \in {"send", "dispatch"} /\ recvs' # <<>> /\ recvs'[1].fd \in Fds
    BY <1>1, <1>2, <1>3 DEF Cur
  <2> QED BY <1>0, <1>2, <2>1, <2>2 DEF TypeOK, PC
<1>10. pc' \in {"send", "dispatch"} /\ (outb'[Cur] # <<>> => pc' = "send")
  BY <1>1
<1>11. Owned'
  BY <1>0, <1>1, <1>2, <1>10 DEF Owned
<1>12. Watched' /\ SndFits' /\ Placed'
  BY <1>0, <1>2, <1>3, <1>4, <1>10 DEF Watched, SndFits, Placed
<1>13. /\ \A f \in Fds : Poll(f)' = Poll(f)
       /\ "IN" \notin Poll(Cur)
  BY <1>1, <1>2, <1>3, PollIs, ReactorAssumption DEF Poll
<1>14. \A f, e : Announced(f, e) => Announced(f, e)'
  BY <1>2 DEF Announced
<1>15. NoInputForgotten'
  <2>1. \A f \in conns \cap Fds :
           "IN" \in Poll(f)' /\ file[f] \notin refused => Announced(f, "IN")'
    BY <1>1, <1>13, <1>14 DEF NoInputForgotten, ReactorInv
  <2>2. backlog # <<>> => emfile \/ Announced(Listen, "IN")'
    BY <1>1, <1>14 DEF NoInputForgotten, ReactorInv
  <2> QED BY <1>2, <2>1, <2>2 DEF NoInputForgotten
<1>16. NoOutputForgotten'
  <2> SUFFICES ASSUME NEW f \in conns \cap Fds, outb'[f] # <<>>
               PROVE  \/ pc' = "send" /\ Cur' = f
                      \/ /\ "OUT" \in interest[f]
                         /\ "OUT" \in Poll(f)' => Announced(f, "OUT")'
    BY <1>2 DEF NoOutputForgotten
  <2>1. CASE f = Cur
    BY <1>4, <1>10, <2>1
  <2>2. CASE f # Cur
    <3>1. outb[f] # <<>>
      BY <1>0, <1>1, <2>2 DEF TypeOK
    <3>2. "OUT" \in interest[f] /\ ("OUT" \in Poll(f) => Announced(f, "OUT"))
      BY <1>1, <3>1 DEF NoOutputForgotten, ReactorInv
    <3> QED BY <1>13, <1>14, <3>2
  <2> QED BY <2>1, <2>2
<1>17. Batched' /\ BatchCurrent'
  BY <1>0, <1>1, <1>2, <1>10, BatchStays DEF Calls
<1> QED BY <1>9, <1>11, <1>12, <1>15, <1>16, <1>17 DEF ReactorInv

-------------------------------------------------------------------------------
(* Channel::Sender and Reactor::EnableReadWrite.                               *)

LEMMA SendSomeKeeps ==
  ASSUME ReactorInv, SendSome
  PROVE  ReactorInv'
<1> DEFINE n == Min2(SndCap - Len(sndq[Peer]), Len(outb[Cur]))
           sent == sndq[Peer] \o SubSeq(outb[Cur], 1, n)
           left == SubSeq(outb[Cur], n + 1, Len(outb[Cur]))
<1>0. TypeOK /\ Owned /\ Watched /\ Placed /\ SndFits /\ Batched /\ BatchCurrent
  BY DEF ReactorInv
<1>1. /\ pc = "send" /\ Len(sndq[Peer]) < SndCap
      /\ sndq' = [sndq EXCEPT ![Peer] = sent]
      /\ outb' = [outb EXCEPT ![Cur] = left]
      /\ pc' = IF outb'[Cur] = <<>> THEN "enable" ELSE "send"
  BY DEF SendSome
<1>2. UNCHANGED <<file, interest, ready, backlog, rcvq, up, fin, rst, wrote, replies, conns,
                  events, inb, recvs, newfd, emfile, refused>>
  BY DEF SendSome, peers
<1>3. /\ Cur \in Fds /\ Cur \in conns /\ Peer \in Clients /\ Peer = file[Cur]
      /\ \A f \in conns \cap Fds : f # Cur => file[f] \in Clients /\ file[f] # Peer
      /\ recvs # <<>>
  BY <1>0, <1>1, Called
<1>4. Cur' = Cur
  BY <1>2 DEF Cur
<1>5. /\ sndq[Peer] \in Seq(Nat) /\ outb[Cur] \in Seq(Nat)
      /\ Len(sndq[Peer]) \in Nat /\ Len(outb[Cur]) \in Nat /\ SndCap \in Nat
  BY <1>0, <1>3, LenProperties, ReactorAssumption DEF TypeOK
<1>6. n \in Nat /\ n <= Len(outb[Cur]) /\ n <= SndCap - Len(sndq[Peer])
  <2>1. SndCap - Len(sndq[Peer]) \in Nat
    BY <1>1, <1>5
  <2> QED BY <1>5, <2>1, Min2Is
<1> HIDE DEF n
<1>7. /\ left \in Seq(Nat) /\ SubSeq(outb[Cur], 1, n) \in Seq(Nat)
      /\ Len(SubSeq(outb[Cur], 1, n)) = n
  BY <1>5, <1>6, CutIs
<1>8. sent \in Seq(Nat) /\ Len(sent) = Len(sndq[Peer]) + n
  BY <1>5, <1>7, ConcatProperties
<1> HIDE DEF sent, left
<1>9. /\ sndq'[Peer] = sent
      /\ \A d \in Clients : d # Peer => sndq'[d] = sndq[d]
      /\ \A f \in Fds : f # Cur => outb'[f] = outb[f]
  BY <1>0, <1>1, <1>3 DEF TypeOK
<1>10. pc' \in {"send", "enable"}
  BY <1>1
<1>11. TypeOK'
  <2>1. sndq' \in [Clients -> Seq(Nat)] /\ outb' \in [Fds -> Seq(Nat)]
    BY <1>0, <1>1, <1>7, <1>8 DEF TypeOK
  <2>2. recvs' # <<>> /\ recvs'[1].fd \in Fds
    BY <1>2, <1>3 DEF Cur
  <2> QED BY <1>0, <1>2, <1>10, <2>1, <2>2 DEF TypeOK, PC
<1>12. Owned'
  BY <1>0, <1>1, <1>2, <1>10 DEF Owned
<1>13. Watched' /\ Placed'
  BY <1>0, <1>2, <1>3, <1>4, <1>10 DEF Watched, Placed
<1>14. SndFits'
  <2>1. Len(sent) <= SndCap
    BY <1>5, <1>6, <1>8
  <2> QED BY <1>0, <1>9, <2>1 DEF SndFits
<1>15. \A f \in conns \cap Fds : "IN" \in Poll(f)' <=> "IN" \in Poll(f)
  BY <1>2, PollIs, PollIsNext
<1>16. \A f \in conns \cap Fds : f # Cur => ("OUT" \in Poll(f)' <=> "OUT" \in Poll(f))
  BY <1>2, <1>3, <1>9, PollIs, PollIsNext
<1>17. \A f, e : Announced(f, e) => Announced(f, e)'
  BY <1>2 DEF Announced
<1>18. NoInputForgotten'
  <2>1. \A f \in conns \cap Fds :
           "IN" \in Poll(f)' /\ file[f] \notin refused => Announced(f, "IN")'
    BY <1>1, <1>15, <1>17 DEF NoInputForgotten, ReactorInv
  <2>2. backlog # <<>> => emfile \/ Announced(Listen, "IN")'
    BY <1>1, <1>17 DEF NoInputForgotten, ReactorInv
  <2> QED BY <1>2, <2>1, <2>2 DEF NoInputForgotten
<1>19. NoOutputForgotten'
  <2> SUFFICES ASSUME NEW f \in conns \cap Fds, outb'[f] # <<>>
               PROVE  \/ Cur' = f
                      \/ /\ "OUT" \in interest[f]
                         /\ "OUT" \in Poll(f)' => Announced(f, "OUT")'
    BY <1>2, <1>10 DEF NoOutputForgotten
  <2>1. CASE f = Cur
    BY <1>4, <2>1
  <2>2. CASE f # Cur
    <3>1. outb[f] # <<>>
      BY <1>9, <2>2
    <3>2. "OUT" \in interest[f] /\ ("OUT" \in Poll(f) => Announced(f, "OUT"))
      BY <1>1, <2>2, <3>1 DEF NoOutputForgotten, ReactorInv
    <3> QED BY <1>16, <1>17, <2>2, <3>2
  <2> QED BY <2>1, <2>2
<1>20. Batched' /\ BatchCurrent'
  <2>1. \A f \in conns \cap Fds : f # Cur => sndq'[file[f]] = sndq[file[f]]
    BY <1>3, <1>9
  <2>2. pc \in Calls /\ pc' \notin {"accept", "add"}
    BY <1>1, <1>10 DEF Calls
  <2> QED BY <1>0, <1>2, <2>1, <2>2, BatchStays
<1> QED BY <1>11, <1>12, <1>13, <1>14, <1>18, <1>19, <1>20 DEF ReactorInv

(* Sender gives up for want of bytes or of room, or is lost in its loop; or the  *)
(* handler ends the process.                                                  *)
LEMMA SendEndsKeeps ==
  ASSUME ReactorInv, SendStops \/ SendError \/ HandlerDies
  PROVE  ReactorInv'
<1>0. TypeOK /\ Owned /\ Watched /\ Placed /\ SndFits /\ Batched /\ BatchCurrent
  BY DEF ReactorInv
<1>1. /\ pc \in {"recv", "send"} /\ pc' \in {"enable", "lost"}
      /\ pc' = "enable" => pc = "send"
  BY DEF SendStops, SendError, HandlerDies
<1>2. UNCHANGED <<file, interest, ready, backlog, rcvq, sndq, up, fin, rst, wrote, replies,
                  conns, events, inb, outb, recvs, newfd, emfile, refused>>
  BY DEF SendStops, SendError, HandlerDies, kernel, peers
<1>3. Cur' = Cur
  BY <1>2 DEF Cur
<1>4. TypeOK' /\ Owned' /\ Watched' /\ SndFits' /\ Placed'
  BY <1>0, <1>1, <1>2, <1>3 DEF TypeOK, PC, Owned, Watched, SndFits, Placed
<1>5. \A f \in Fds : Poll(f)' = Poll(f)
  BY <1>2, ReactorAssumption DEF Poll
<1>6. \A f, e : Announced(f, e) => Announced(f, e)'
  BY <1>2 DEF Announced
<1>7. NoInputForgotten' /\ NoOutputForgotten'
  BY <1>1, <1>2, <1>3, <1>5, <1>6 DEF NoInputForgotten, NoOutputForgotten, ReactorInv
<1>8. Batched' /\ BatchCurrent'
  BY <1>0, <1>1, <1>2, BatchStays DEF Calls
<1> QED BY <1>4, <1>7, <1>8 DEF ReactorInv

LEMMA EnableReadWriteKeeps ==
  ASSUME ReactorInv, EnableReadWrite
  PROVE  ReactorInv'
<1> DEFINE mask == {"IN"} \cup {e \in {"OUT"} : outb[Cur] # <<>>}
<1>0. TypeOK /\ Owned /\ Watched /\ Placed /\ SndFits /\ Batched /\ BatchCurrent
  BY DEF ReactorInv
<1>1. pc = "enable" /\ pc' = "dispatch"
  BY DEF EnableReadWrite
<1>2. /\ Cur \in Fds /\ Cur \in All /\ Cur \in conns /\ Cur # Listen
  BY <1>0, <1>1, Called, ReactorAssumption
<1>15. interest[Cur] # {}
  <2>1. Begun
    BY <1>0, <1>1 DEF Batched, Calls
  <2>2. 1 \in DOMAIN recvs
    BY <1>0, <2>1, LenProperties, EmptySeq DEF TypeOK, Begun
  <2> QED BY <1>0, <1>2, <2>2 DEF Batched, Cur
<1>3. /\ events' = [events EXCEPT ![Cur] = mask]
      /\ interest' = [interest EXCEPT ![Cur] = mask]
      /\ ready' = IF Poll(Cur) \cap (mask \cup {"ERR"}) # {} THEN Listed(Cur) ELSE ready
  BY <1>2, <1>15 DEF EnableReadWrite
<1>4. UNCHANGED <<file, backlog, rcvq, sndq, up, fin, rst, wrote, replies, conns, inb, outb,
                  recvs, newfd, emfile, refused>>
  BY DEF EnableReadWrite, peers
<1>5. /\ mask \subseteq Mask /\ "IN" \in mask
      /\ outb[Cur] # <<>> => "OUT" \in mask
  BY DEF Mask
<1> HIDE DEF mask
<1>6. /\ ready' \in Seq(All)
      /\ Elements(ready) \subseteq Elements(ready')
      /\ \A e \in mask \cap Poll(Cur) : Cur \in Elements(ready')
      /\ Distinct(ready')
  BY <1>0, <1>2, <1>3, ListedIs DEF TypeOK, Batched
<1>7. /\ interest'[Cur] = mask
      /\ \A f \in All : f # Cur => interest'[f] = interest[f]
  BY <1>0, <1>2, <1>3 DEF TypeOK
<1>8. TypeOK'
  <2>1. interest' \in [All -> SUBSET Mask] /\ events' \in [All -> SUBSET Mask]
    BY <1>0, <1>2, <1>3, <1>5 DEF TypeOK
  <2> QED BY <1>0, <1>1, <1>4, <1>6, <2>1 DEF TypeOK, PC
<1>9. Owned' /\ SndFits' /\ Placed'
  BY <1>0, <1>1, <1>4 DEF Owned, SndFits, Placed
<1>10. Watched'
  BY <1>0, <1>2, <1>4, <1>5, <1>7 DEF Watched, All
<1>11. \A f \in Fds : Poll(f)' = Poll(f)
  BY <1>4, ReactorAssumption DEF Poll
<1>12. /\ \A f, e : Announced(f, e) => Announced(f, e)'
       /\ \A f, e : f \in Elements(ready') => Announced(f, e)'
  BY <1>4, <1>6, StillAnnounced
<1>13. NoInputForgotten'
  <2>1. \A f \in conns \cap Fds :
           "IN" \in Poll(f)' /\ file[f] \notin refused => Announced(f, "IN")'
    BY <1>1, <1>11, <1>12 DEF NoInputForgotten, ReactorInv
  <2>2. backlog # <<>> => emfile \/ Announced(Listen, "IN")'
    BY <1>1, <1>12 DEF NoInputForgotten, ReactorInv
  <2> QED BY <1>4, <2>1, <2>2 DEF NoInputForgotten
<1>14. NoOutputForgotten'
  <2> SUFFICES ASSUME NEW f \in conns \cap Fds, outb[f] # <<>>
               PROVE  /\ "OUT" \in interest'[f]
                      /\ "OUT" \in Poll(f)' => Announced(f, "OUT")'
    BY <1>4 DEF NoOutputForgotten
  <2>1. CASE f = Cur
    <3>1. "OUT" \in mask
      BY <1>5, <2>1
    <3>2. "OUT" \in Poll(f) => Cur \in Elements(ready')
      BY <1>6, <2>1, <3>1
    <3> QED BY <1>2, <1>7, <1>11, <1>12, <2>1, <3>1, <3>2
  <2>2. CASE f # Cur
    <3>1. f \in All
      BY DEF All
    <3>2. "OUT" \in interest[f] /\ ("OUT" \in Poll(f) => Announced(f, "OUT"))
      BY <1>1, <2>2 DEF NoOutputForgotten, ReactorInv
    <3> QED BY <1>7, <1>11, <1>12, <2>2, <3>1, <3>2
  <2> QED BY <2>1, <2>2
<1>16. Batched' /\ BatchCurrent'
  <2>1. Begun /\ pc' \notin {"accept", "add"}
    BY <1>0, <1>1 DEF Batched, Calls
  <2>2. \A i \in DOMAIN recvs : Waits(i) => recvs[i].fd \in conns
    BY <1>0 DEF BatchCurrent
  <2>3. \A f : Poll(f)' = Poll(f)
    BY <1>4 DEF Poll
  <2>4. \A f \in conns : \A e \in Poll(f) : e \in Poll(f)'
    BY <2>3
  <2>5. \A f \in conns : f \in All
    BY <1>0 DEF TypeOK
  <2>6. \A i \in DOMAIN recvs : recvs[i].fd \in conns' => interest'[recvs[i].fd] # {}
    BY <1>0, <1>4, <1>5, <1>7, <2>5 DEF Batched
  <2>7. conns \subseteq conns'
    BY <1>4
  <2> QED BY <1>0, <1>4, <1>6, <2>1, <2>2, <2>4, <2>6, <2>7, BatchKept
<1> QED BY <1>8, <1>9, <1>10, <1>13, <1>14, <1>16 DEF ReactorInv

-------------------------------------------------------------------------------

LEMMA InitHolds ==
  ASSUME Init
  PROVE  ReactorInv
<1>1. /\ Listen \in Nat /\ Listen \notin Fds /\ Listen \in All
      /\ None \notin Clients /\ Inherited \notin Clients
      /\ SndCap \in Nat /\ None \notin Nat
  BY ReactorAssumption DEF All
<1>2. TypeOK
  <2>1. interest \in [All -> SUBSET Mask] /\ events \in [All -> SUBSET Mask]
    BY DEF Init, Mask
  <2>2. /\ rcvq \in [Clients -> Seq(Nat)] /\ sndq \in [Clients -> Seq(Nat)]
        /\ replies \in [Clients -> Seq(Nat)] /\ wrote \in [Clients -> Nat]
        /\ inb \in [Fds -> Seq(Nat)] /\ outb \in [Fds -> Seq(Nat)]
    BY DEF Init
  <2>3. file \in [Fds -> Clients \cup {None, Inherited}]
    BY DEF Init
  <2>4. /\ ready \in Seq(All) /\ backlog \in Seq(Clients) /\ conns \subseteq All
        /\ recvs \in Seq([fd : All, events : SUBSET (Mask \cup {"ERR"})])
        /\ up = {} /\ fin = {} /\ rst = {} /\ newfd = None /\ pc = "wait" /\ emfile = FALSE
        /\ refused = {}
    BY <1>1 DEF Init
  <2> QED BY <2>1, <2>2, <2>3, <2>4 DEF TypeOK, PC
<1>3. Owned
  <2>1. \A f \in Fds : file[f] \notin Clients /\ f \notin conns
    BY <1>1 DEF Init
  <2> QED BY <2>1 DEF Init, Owned
<1>4. Watched /\ Placed /\ SndFits
  <2>1. \A c \in Clients : Len(sndq[c]) = 0
    BY DEF Init
  <2> QED BY <1>1, <2>1 DEF Init, Watched, Placed, SndFits, All
<1>5. NoInputForgotten /\ NoOutputForgotten
  BY <1>1 DEF Init, NoInputForgotten, NoOutputForgotten
<1>6. Batched /\ BatchCurrent
  BY DEF Init, Batched, BatchCurrent, Distinct, Calls
<1> QED BY <1>2, <1>3, <1>4, <1>5, <1>6 DEF ReactorInv

LEMMA StutterKeeps ==
  ASSUME ReactorInv, UNCHANGED vars
  PROVE  ReactorInv'
<1>1. UNCHANGED <<file, interest, ready, backlog, rcvq, sndq, up, fin, rst, wrote, replies,
                  conns, events, inb, outb, recvs, newfd, pc, emfile, refused>>
  BY DEF vars, kernel, peers, server
<1>2. TypeOK' /\ Owned' /\ Watched' /\ Placed' /\ SndFits'
  BY <1>1 DEF ReactorInv, TypeOK, Owned, Watched, Placed, SndFits, Cur
<1>3. \A f \in Fds : Poll(f)' = Poll(f)
  BY <1>1, ReactorAssumption DEF Poll
<1>4. /\ \A f, e : Announced(f, e) => Announced(f, e)'
      /\ Cur' = Cur
  BY <1>1 DEF Announced, Cur
<1>5. NoInputForgotten' /\ NoOutputForgotten'
  BY <1>1, <1>3, <1>4 DEF NoInputForgotten, NoOutputForgotten, ReactorInv
<1>6. \A f : Poll(f)' = Poll(f)
  BY <1>1 DEF Poll
<1>7. Batched'
  BY <1>1, <1>4 DEF ReactorInv, Batched, Begun
<1>8. BatchCurrent'
  BY <1>1, <1>6 DEF ReactorInv, BatchCurrent, Waits
<1> QED BY <1>2, <1>5, <1>7, <1>8 DEF ReactorInv

(* Every reachable state of the server satisfies the inductive invariant.      *)
THEOREM ReactorInvariant == Spec => []ReactorInv
<1>1. Init => ReactorInv
  BY InitHolds
<1>2. ReactorInv /\ [Next]_vars => ReactorInv'
  <2> SUFFICES ASSUME ReactorInv, [Next]_vars PROVE ReactorInv'
    OBVIOUS
  <2>1. CASE Loop
    BY <2>1, WaitEventsKeeps, DispatchInKeeps, DispatchOutKeeps, DispatchNextKeeps,
       AcceptKeeps, AcceptEndsKeeps, AddConnectionKeeps, RecvDataKeeps, RecvClosedKeeps,
       RecvErrorKeeps, RecvBlocksKeeps, SendSomeKeeps, SendEndsKeeps, EnableReadWriteKeeps
       DEF Loop
  <2>2. CASE \E c \in Clients : Client(c)
    BY <2>2, ConnectKeeps, WriteKeeps, ShutKeeps, ResetKeeps, ReadKeeps DEF Client
  <2>3. CASE UNCHANGED vars
    BY <2>3, StutterKeeps
  <2> QED BY <2>1, <2>2, <2>3 DEF Next
<1> QED BY <1>1, <1>2, PTL DEF Spec

(* The variables keep their types, and Channel is called on a descriptor of a  *)
(* client and never on the listener (Reactor.hpp:55-88).                       *)
THEOREM TypeCorrect == Spec => []TypeOK
BY ReactorInvariant, PTL DEF ReactorInv

(* Whatever a client sent and the reactor has not taken, and every connection  *)
(* not accepted, is still announced, dispatched or being read, although each    *)
(* edge is told once (Channel.hpp:36-67, Listener.hpp:36-62).                   *)
THEOREM NoInputForgottenCorrect == Spec => []NoInputForgotten
BY ReactorInvariant, PTL DEF ReactorInv

(* A reply that did not fit is watched for, and room that came before          *)
(* epoll_ctl is announced (Channel.hpp:117-128, Reactor.hpp:136-151).           *)
THEOREM NoOutputForgottenCorrect == Spec => []NoOutputForgotten
BY ReactorInvariant, PTL DEF ReactorInv

(* An event of the batch that waits its turn still names an open connection and  *)
(* is still true of its socket, whatever the events before it made the reactor   *)
(* read, answer, close and accept (Reactor.hpp:46-77).                          *)
THEOREM BatchCurrentCorrect == Spec => []BatchCurrent
BY ReactorInvariant, PTL DEF ReactorInv

-------------------------------------------------------------------------------
(* The answers to two runs of pieces are those to the first, then those to the *)
(* second.                                                                    *)

LEMMA ShiftedIs ==
  ASSUME NEW m \in Nat, NEW B, B \subseteq Int, IsFiniteSet(B)
  PROVE  /\ IsFiniteSet({m + j : j \in B})
         /\ Cardinality({m + j : j \in B}) = Cardinality(B)
<1> DEFINE C == {m + j : j \in B}
           g == [j \in B |-> m + j]
<1>1. g \in [B -> C]
  OBVIOUS
<1>2. IsInjective(g)
  BY DEF IsInjective
<1>3. \A x \in C : \E j \in B : g[j] = x
  OBVIOUS
<1> HIDE DEF g, C
<1>4. g \in Bijection(B, C)
  BY <1>1, <1>2, <1>3 DEF Bijection, Injection, Surjection
<1>5. ExistsBijection(B, C)
  BY <1>4 DEF ExistsBijection
<1>6. IsFiniteSet(C) /\ Cardinality(C) = Cardinality(B)
  BY <1>5, FS_Bijection
<1> QED BY <1>6 DEF C

(* The places A of a first sequence and B of one appended at m.               *)
Joined(m, l, A, B, at) ==
    /\ A \in SUBSET (1..m) /\ B \in SUBSET (1..l)
    /\ at = A \cup {m + j : j \in B}

LEMMA RankShift ==
  ASSUME NEW m \in Nat, NEW l \in Nat, NEW A, NEW B, NEW at, Joined(m, l, A, B, at)
  PROVE  /\ at \in SUBSET (1..m + l)
         /\ Cardinality(at) = Cardinality(A) + Cardinality(B)
         /\ \A j \in A : Rank(at, j) = Rank(A, j)
         /\ \A j \in B : Rank(at, m + j) = Cardinality(A) + Rank(B, j)
<1>0. A \in SUBSET (1..m) /\ B \in SUBSET (1..l) /\ at = A \cup {m + j : j \in B}
  BY DEF Joined
<1>9. \A i : i \in at <=> i \in A \/ \E j \in B : i = m + j
  BY <1>0
<1>1. /\ IsFiniteSet(A) /\ IsFiniteSet(B)
      /\ Cardinality(A) \in Nat /\ Cardinality(B) \in Nat
  BY <1>0, Ranks
<1>2. A \subseteq Int /\ B \subseteq Int
  BY <1>0
<1>3. at \in SUBSET (1..m + l)
  <2>1. \A j \in B : m + j \in 1..m + l
    <3> TAKE j \in B
    <3>1. j \in 1..l
      BY <1>0
    <3> QED BY <3>1
  <2>2. \A j \in A : j \in 1..m + l
    BY <1>0
  <2> QED BY <1>9, <2>1, <2>2
<1>4. ASSUME NEW D \in SUBSET B
      PROVE  Cardinality(A \cup {m + j : j \in D}) = Cardinality(A) + Cardinality(D)
  <2> DEFINE C == {m + j : j \in D}
  <2>1. IsFiniteSet(D) /\ Cardinality(D) \in Nat
    BY <1>1, FS_Subset, FS_CardinalityType
  <2>2. D \subseteq Int
    BY <1>2
  <2>3. IsFiniteSet(C) /\ Cardinality(C) = Cardinality(D)
    BY <2>1, <2>2, ShiftedIs
  <2>4. \A x \in C : ~ (x <= m)
    BY <1>0
  <2>5. \A x \in A : x <= m
    BY <1>0
  <2> HIDE DEF C
  <2>6. A \cap C = {}
    BY <2>4, <2>5
  <2>7. Cardinality(A \cup C) = Cardinality(A) + Cardinality(C) - Cardinality(A \cap C)
    BY <1>1, <2>3, FS_Union
  <2>8. Cardinality(A \cap C) = 0
    BY <2>6, FS_EmptySet
  <2>9. Cardinality(A \cup C) = Cardinality(A) + Cardinality(D)
    BY <1>1, <2>1, <2>3, <2>7, <2>8
  <2> QED BY <2>9 DEF C
<1>5. Cardinality(at) = Cardinality(A) + Cardinality(B)
  <2>1. B \in SUBSET B
    OBVIOUS
  <2> QED BY <1>0, <1>4, <2>1
<1>6. ASSUME NEW j \in A PROVE Rank(at, j) = Rank(A, j)
  <2>1. \A k \in B : ~ (m + k <= j)
    BY <1>0
  <2>2. {i \in at : i <= j} = {i \in A : i <= j}
    BY <1>9, <2>1
  <2> QED BY <2>2 DEF Rank
<1>7. ASSUME NEW j \in B PROVE Rank(at, m + j) = Cardinality(A) + Rank(B, j)
  <2> DEFINE D == {i \in B : i <= j}
  <2>1. \A k \in B : m + k <= m + j <=> k <= j
    BY <1>0
  <2>2. \A i \in A : i <= m + j
    BY <1>0
  <2>3. {i \in at : i <= m + j} = A \cup {m + k : k \in D}
    <3>1. \A i : i \in at /\ i <= m + j => i \in A \cup {m + k : k \in D}
      BY <1>9, <2>1
    <3>2. \A i : i \in A \cup {m + k : k \in D} => i \in at /\ i <= m + j
      BY <1>9, <2>1, <2>2
    <3> QED BY <3>1, <3>2
  <2>4. D \in SUBSET B
    OBVIOUS
  <2>5. Rank(at, m + j) = Cardinality(A \cup {m + k : k \in D}) /\ Rank(B, j) = Cardinality(D)
    BY <2>3 DEF Rank
  <2> HIDE DEF D
  <2> QED BY <1>4, <2>4, <2>5
<1> QED BY <1>3, <1>5, <1>6, <1>7

LEMMA ConcatIs ==
  ASSUME NEW S, NEW s \in Seq(S), NEW t \in Seq(S)
  PROVE  /\ s \o t \in Seq(S) /\ Len(s \o t) = Len(s) + Len(t)
         /\ DOMAIN (s \o t) = 1..Len(s) + Len(t)
         /\ Len(s) \in Nat /\ DOMAIN s = 1..Len(s) /\ Len(t) \in Nat /\ DOMAIN t = 1..Len(t)
         /\ \A i \in 1..Len(s) : (s \o t)[i] = s[i]
         /\ \A j \in 1..Len(t) : (s \o t)[Len(s) + j] = t[j]
         /\ \A i \in 1..Len(s) + Len(t) :
               i \in 1..Len(s) \/ (i - Len(s) \in 1..Len(t) /\ Len(s) + (i - Len(s)) = i)
<1> DEFINE m == Len(s)
           l == Len(t)
           st == s \o t
<1>1. m \in Nat /\ l \in Nat /\ DOMAIN s = 1..m /\ DOMAIN t = 1..l
  BY LenProperties
<1>2. st \in Seq(S) /\ Len(st) = m + l
  BY ConcatProperties
<1>3. \A i \in 1..m + l : st[i] = IF i <= m THEN s[i] ELSE t[i - m]
  BY ConcatProperties
<1>4. DOMAIN st = 1..m + l
  BY <1>2, LenProperties
<1> HIDE DEF m, l, st
<1>5. ASSUME NEW i \in 1..m PROVE st[i] = s[i]
  <2>1. i \in 1..m + l /\ i <= m
    BY <1>1
  <2> QED BY <1>3, <2>1
<1>6. ASSUME NEW j \in 1..l PROVE st[m + j] = t[j]
  <2>1. PICK i \in 1..m + l : i = m + j
    BY <1>1
  <2>2. ~ (i <= m) /\ i - m = j
    BY <1>1, <2>1
  <2>3. st[i] = t[i - m]
    BY <1>3, <2>2
  <2> QED BY <2>1, <2>2, <2>3
<1>7. \A i \in 1..m + l : i \in 1..m \/ (i - m \in 1..l /\ m + (i - m) = i)
  BY <1>1
<1> QED BY <1>1, <1>2, <1>4, <1>5, <1>6, <1>7 DEF m, l, st

LEMMA AnswersConcat ==
  ASSUME NEW c \in Clients, NEW s \in Seq(Nat), NEW t \in Seq(Nat)
  PROVE  Answers(c, s \o t) = Answers(c, s) \o Answers(c, t)
<1> DEFINE st == s \o t
           A == {i \in DOMAIN s : Kind(c, s[i]) = "good"}
           B == {i \in DOMAIN t : Kind(c, t[i]) = "good"}
           at == {i \in DOMAIN st : Kind(c, st[i]) = "good"}
           m == Len(s)
           l == Len(t)
           p == Cardinality(A)
           q == Cardinality(B)
<1>1. /\ m \in Nat /\ l \in Nat /\ DOMAIN s = 1..m /\ DOMAIN t = 1..l
      /\ \A i \in 1..m + l : i \in 1..m \/ (i - m \in 1..l /\ m + (i - m) = i)
  BY ConcatIs
<1>2. st \in Seq(Nat) /\ Len(st) = m + l
  BY ConcatIs
<1>3. DOMAIN st = 1..m + l
  BY ConcatIs
<1>4. \A i \in 1..m : st[i] = s[i]
  BY ConcatIs
<1>5. \A j \in 1..l : st[m + j] = t[j]
  BY ConcatIs
<1> HIDE DEF st, m, l
<1>6. A \in SUBSET (1..m) /\ B \in SUBSET (1..l) /\ at \in SUBSET DOMAIN st
  BY <1>1
<1>7. at = A \cup {m + j : j \in B}
  <2>1. A \cup {m + j : j \in B} \subseteq at
    <3>1. (\A i \in 1..m : i \in 1..m + l) /\ (\A j \in 1..l : m + j \in 1..m + l)
      BY <1>1
    <3>2. A \subseteq at
      BY <1>1, <1>3, <1>4, <3>1
    <3>3. \A j \in B : m + j \in at
      BY <1>1, <1>3, <1>5, <3>1
    <3> QED BY <3>2, <3>3
  <2>2. \A i \in at : i \in A \/ i \in {m + j : j \in B}
    <3> TAKE i \in at
    <3>1. i \in 1..m + l
      BY <1>3
    <3>2. CASE i \in 1..m
      BY <1>1, <1>4, <3>2
    <3>3. CASE i \notin 1..m
      <4>1. i - m \in 1..l /\ m + (i - m) = i
        BY <1>1, <3>1, <3>3
      <4>2. i - m \in B
        BY <1>1, <1>5, <4>1
      <4> QED BY <4>1, <4>2
    <3> QED BY <3>2, <3>3
  <2> QED BY <2>1, <2>2
<1>8. /\ Answers(c, st) = Picked(st, at)
      /\ Answers(c, s) = Picked(s, A) /\ Answers(c, t) = Picked(t, B)
  BY DEF Answers
<1>9. A \in SUBSET DOMAIN s /\ B \in SUBSET DOMAIN t
  OBVIOUS
<1> HIDE DEF A, B, at
<1>10. /\ Cardinality(at) = p + q
       /\ \A j \in A : Rank(at, j) = Rank(A, j)
       /\ \A j \in B : Rank(at, m + j) = p + Rank(B, j)
  <2>1. Joined(m, l, A, B, at)
    BY <1>6, <1>7 DEF Joined
  <2> QED BY <1>1, <2>1, RankShift
<1>11. /\ p \in Nat /\ Picked(s, A) \in Seq(Nat) /\ Len(Picked(s, A)) = p
       /\ \A k \in 1..p : Place(A, k) \in A /\ Picked(s, A)[k] = s[Place(A, k)]
  BY <1>9, PickedIs
<1>12. /\ q \in Nat /\ Picked(t, B) \in Seq(Nat) /\ Len(Picked(t, B)) = q
       /\ \A k \in 1..q : Place(B, k) \in B /\ Picked(t, B)[k] = t[Place(B, k)]
  BY <1>9, PickedIs
<1>13. /\ Picked(st, at) \in Seq(Nat) /\ Len(Picked(st, at)) = Cardinality(at)
       /\ \A k \in 1..Cardinality(at) : Picked(st, at)[k] = st[Place(at, k)]
  BY <1>2, <1>6, PickedIs
<1>14. /\ \A k \in 1..p : Rank(A, Place(A, k)) = k
       /\ \A k \in 1..q : Rank(B, Place(B, k)) = k
  BY <1>1, <1>6, Ranks
<1>15. \A j \in at : Place(at, Rank(at, j)) = j
  <2>1. at \in SUBSET (1..m + l) /\ m + l \in Nat
    BY <1>1, <1>3, <1>6
  <2> QED BY <2>1, Ranks
<1> DEFINE both == Picked(s, A) \o Picked(t, B)
<1>16. /\ both \in Seq(Nat) /\ Len(both) = p + q
       /\ \A k \in 1..p : both[k] = Picked(s, A)[k]
       /\ \A k \in 1..q : both[p + k] = Picked(t, B)[k]
  <2> DEFINE x == Picked(s, A)
             y == Picked(t, B)
  <2>1. x \in Seq(Nat) /\ Len(x) = p /\ y \in Seq(Nat) /\ Len(y) = q /\ both = x \o y
    BY <1>11, <1>12
  <2> HIDE DEF x, y, p, q, both
  <2>2. x \o y \in Seq(Nat) /\ Len(x \o y) = Len(x) + Len(y)
    BY <2>1, ConcatIs
  <2>4. \A k \in 1..Len(x) : (x \o y)[k] = x[k]
    BY <2>1, ConcatIs
  <2>5. \A k \in 1..Len(y) : (x \o y)[Len(x) + k] = y[k]
    <3>1. x \in Seq(Nat) /\ y \in Seq(Nat)
      BY <2>1
    <3> QED BY <3>1, ConcatIs
  <2>3. /\ both \in Seq(Nat) /\ Len(both) = p + q
        /\ \A k \in 1..p : both[k] = x[k]
        /\ \A k \in 1..q : both[p + k] = y[k]
    BY <2>1, <2>2, <2>4, <2>5
  <2> QED BY <2>3 DEF x, y
<1> HIDE DEF both, p, q
<1>17. \A k \in 1..p + q : Picked(st, at)[k] = both[k]
  <2> TAKE k \in 1..p + q
  <2>0. Picked(st, at)[k] = st[Place(at, k)]
    BY <1>10, <1>13
  <2>1. CASE k <= p
    <3>1. k \in 1..p
      BY <1>11, <2>1
    <3> DEFINE j == Place(A, k)
    <3>2. j \in A /\ Picked(s, A)[k] = s[j] /\ Rank(A, j) = k
      BY <1>11, <1>14, <3>1
    <3> HIDE DEF j
    <3>3. j \in at /\ Rank(at, j) = k /\ j \in 1..m
      BY <1>6, <1>7, <1>10, <3>2
    <3>4. Place(at, k) = j /\ st[j] = s[j]
      BY <1>4, <1>15, <3>3
    <3> QED BY <1>16, <2>0, <3>1, <3>2, <3>4
  <2>2. CASE ~ (k <= p)
    <3>1. PICK h \in 1..q : k = p + h
      <4>1. k - p \in 1..q /\ k = p + (k - p)
        BY <1>11, <1>12, <2>2
      <4> QED BY <4>1
    <3> DEFINE j == Place(B, h)
    <3>2. j \in B /\ Picked(t, B)[h] = t[j] /\ Rank(B, j) = h
      BY <1>12, <1>14
    <3> HIDE DEF j
    <3>3. m + j \in at /\ j \in 1..l
      BY <1>6, <1>7, <3>2
    <3>4. Rank(at, m + j) = k
      BY <1>10, <3>1, <3>2
    <3>5. Place(at, k) = m + j /\ st[m + j] = t[j]
      BY <1>5, <1>15, <3>3, <3>4
    <3> QED BY <1>16, <2>0, <3>1, <3>2, <3>5
  <2> QED BY <2>1, <2>2
<1>18. Picked(st, at) = both
  <2>1. Len(Picked(st, at)) = p + q
    BY <1>10, <1>13
  <2> QED BY <1>13, <1>16, <1>17, <2>1, SeqEqual
<1> QED BY <1>8, <1>18 DEF both, st

LEMMA PiecesAre ==
  ASSUME NEW n \in Nat
  PROVE  /\ [i \in 1..n |-> i] \in Seq(Nat)
         /\ Len([i \in 1..n |-> i]) = n
         /\ DOMAIN [i \in 1..n |-> i] = 1..n
<1> DEFINE p == [i \in 1..n |-> i]
<1>1. p \in [1..n -> Nat]
  OBVIOUS
<1>2. p \in Seq(Nat) /\ Len(p) = n /\ DOMAIN p = 1..n
  BY <1>1
<1> QED BY <1>2

LEMMA AnswersGrow ==
  ASSUME NEW c \in Clients, NEW n \in Nat, NEW u \in Seq(Nat), NEW k \in Nat, Len(u) = k,
         \A i \in 1..k : u[i] = n + i
  PROVE  Answers(c, [i \in 1..n + k |-> i]) = Answers(c, [i \in 1..n |-> i]) \o Answers(c, u)
<1> DEFINE p == [i \in 1..n |-> i]
           pu == [i \in 1..n + k |-> i]
<1>1. p \in Seq(Nat) /\ Len(p) = n /\ \A i \in 1..n : p[i] = i
  BY PiecesAre
<1>2. /\ pu \in Seq(Nat) /\ Len(pu) = n + k /\ \A i \in 1..n + k : pu[i] = i
  <2>1. n + k \in Nat
    OBVIOUS
  <2> QED BY <2>1, PiecesAre
<1> HIDE DEF p, pu
<1>3. p \o u \in Seq(Nat) /\ Len(p \o u) = Len(p) + Len(u)
  BY <1>1, ConcatIs
<1>4. /\ \A i \in 1..Len(p) : (p \o u)[i] = p[i]
      /\ \A j \in 1..Len(u) : (p \o u)[Len(p) + j] = u[j]
  <2>1. p \in Seq(Nat)
    BY <1>1
  <2> QED BY <2>1, ConcatIs
<1>5. \A i \in 1..n + k : pu[i] = (p \o u)[i]
  <2> TAKE i \in 1..n + k
  <2>1. CASE i \in 1..n
    BY <1>1, <1>2, <1>4, <2>1
  <2>2. CASE i \notin 1..n
    <3>1. PICK j \in 1..k : i = n + j
      <4>1. i - n \in 1..k /\ i = n + (i - n)
        BY <2>2
      <4> QED BY <4>1
    <3>2. (p \o u)[i] = u[j]
      BY <1>1, <1>4, <3>1
    <3> QED BY <1>2, <3>1, <3>2
  <2> QED BY <2>1, <2>2
<1>6. pu = p \o u
  <2>1. Len(pu) = Len(p \o u)
    BY <1>1, <1>2, <1>3
  <2> QED BY <1>2, <1>3, <1>5, <2>1, SeqEqual
<1>7. Answers(c, pu) = Answers(c, p) \o Answers(c, u)
  BY <1>1, <1>6, AnswersConcat
<1> QED BY <1>7 DEF p, pu

LEMMA AnswersNone ==
  ASSUME NEW c \in Clients
  PROVE  Answers(c, [i \in 1..0 |-> i]) = <<>>
<1> DEFINE s == [i \in 1..0 |-> i]
           at == {i \in DOMAIN s : Kind(c, s[i]) = "good"}
<1>1. s \in Seq(Nat) /\ DOMAIN s = 1..0
  BY PiecesAre
<1>2. at \in SUBSET DOMAIN s /\ at = {}
  BY <1>1
<1>3. Answers(c, s) = Picked(s, at)
  BY DEF Answers
<1> HIDE DEF s, at
<1>4. Picked(s, at) \in Seq(Nat) /\ Len(Picked(s, at)) = Cardinality(at)
  BY <1>1, <1>2, PickedIs
<1>5. Len(Picked(s, at)) = 0
  BY <1>2, <1>4, FS_EmptySet
<1>6. Answers(c, s) = <<>>
  BY <1>3, <1>4, <1>5, EmptySeq
<1> QED BY <1>6 DEF s

(* Reading the head of what is sent does not change the whole.                *)
LEMMA ReadOrder ==
  ASSUME NEW r \in Seq(Nat), NEW s \in Seq(Nat), s # <<>>
  PROVE  Append(r, Head(s)) \o Tail(s) = r \o s
<1>1. /\ Head(s) \in Nat /\ Tail(s) \in Seq(Nat) /\ Head(s) = s[1]
      /\ Len(s) \in Nat /\ Len(s) # 0
  BY HeadTailProperties, LenProperties, EmptySeq
<1>2. <<Head(s)>> \in Seq(Nat)
  BY <1>1
<1>3. Append(r, Head(s)) = r \o <<Head(s)>>
  BY <1>1, AppendIsConcat
<1>4. <<Head(s)>> \o Tail(s) = s
  <2>1. 1 \in 1..Len(s) /\ Len(s) \in 1..Len(s)
    BY <1>1
  <2>2. SubSeq(s, 1, Len(s)) = <<s[1]>> \o SubSeq(s, 1 + 1, Len(s))
    BY <2>1, SubSeqRecursiveFirst
  <2>3. SubSeq(s, 1, Len(s)) = s
    BY SubSeqFull
  <2>4. Tail(s) = SubSeq(s, 2, Len(s)) /\ 1 + 1 = 2
    BY TailIsSubSeq
  <2> QED BY <1>1, <2>2, <2>3, <2>4
<1>5. (r \o <<Head(s)>>) \o Tail(s) = r \o (<<Head(s)>> \o Tail(s))
  BY <1>1, <1>2, ConcatAssociative
<1> QED BY <1>3, <1>4, <1>5

(* A sequence cut in two is the first part and then the second.               *)
LEMMA CutJoins ==
  ASSUME NEW s \in Seq(Nat), NEW n \in Nat, n <= Len(s)
  PROVE  SubSeq(s, 1, n) \o SubSeq(s, n + 1, Len(s)) = s
<1>1. Len(s) \in Nat
  BY LenProperties
<1>2. 1 \in 1..Len(s) + 1 /\ n \in 1 - 1..Len(s) /\ Len(s) \in n..Len(s)
  BY <1>1
<1>3. SubSeq(s, 1, n) \o SubSeq(s, n + 1, Len(s)) = SubSeq(s, 1, Len(s))
  BY <1>2, ConcatAdjacentSubSeq
<1> QED BY <1>3, SubSeqFull

-------------------------------------------------------------------------------
(* The streams.                                                               *)

LEMMA QueuedKept ==
  ASSUME NEW c, Queued(c), Fresh(c)' => Fresh(c),
         wrote'[c] = wrote[c], rcvq'[c] = rcvq[c], sndq'[c] = sndq[c], replies'[c] = replies[c]
  PROVE  Queued(c)'
BY DEF Queued, Taken

LEMMA ServedKept ==
  ASSUME NEW f, Served(f),
         file'[f] = file[f], inb'[f] = inb[f], outb'[f] = outb[f],
         wrote'[file[f]] = wrote[file[f]], rcvq'[file[f]] = rcvq[file[f]],
         sndq'[file[f]] = sndq[file[f]], replies'[file[f]] = replies[file[f]]
  PROVE  Served(f)'
BY DEF Served, DecodedOf

LEMMA StreamKept ==
  ASSUME StreamInv, UNCHANGED <<wrote, rcvq, sndq, replies>>,
         \A c \in Clients : Fresh(c)' => Fresh(c),
         \A f \in conns' \cap Fds :
            f \in conns /\ file'[f] = file[f] /\ inb'[f] = inb[f] /\ outb'[f] = outb[f]
  PROVE  StreamInv'
<1>1. \A c \in Clients : Queued(c)'
  BY QueuedKept DEF StreamInv
<1>2. \A f \in conns' \cap Fds : Served(f)'
  BY ServedKept DEF StreamInv
<1> QED BY <1>1, <1>2 DEF StreamInv

(* The client of a Channel is no longer fresh.                                *)
LEMMA NotFresh ==
  ASSUME TypeOK, Owned, NEW f \in conns \cap Fds
  PROVE  file[f] \in Clients /\ ~ Fresh(file[f])
<1>1. file[f] \in Clients /\ file[f] \in up /\ \A i \in DOMAIN backlog : file[f] # backlog[i]
  BY DEF Owned
<1>2. pc = "add" => file[newfd] # file[f]
  BY <1>1 DEF Owned
<1> QED BY <1>1, <1>2 DEF Fresh, Elements

LEMMA ClientStreams ==
  ASSUME ReactorInv, StreamInv, NEW c \in Clients, Connect(c) \/ Shut(c) \/ Reset(c)
  PROVE  StreamInv'
<1>0. backlog \in Seq(Clients)
  BY DEF ReactorInv, TypeOK
<1>1. /\ UNCHANGED <<wrote, rcvq, sndq, replies, file, server>>
      /\ \/ UNCHANGED <<up, backlog>>
         \/ c \notin up /\ up' = up \cup {c} /\ backlog' = Append(backlog, c)
  BY DEF Connect, Shut, Reset
<1>2. UNCHANGED <<conns, inb, outb, newfd, pc>>
  BY <1>1 DEF server
<1>3. \A d \in Clients : Fresh(d)' => Fresh(d)
  <2>1. CASE UNCHANGED <<up, backlog>>
    BY <1>1, <1>2, <2>1 DEF Fresh
  <2>2. CASE c \notin up /\ up' = up \cup {c} /\ backlog' = Append(backlog, c)
    <3>1. Elements(backlog') = Elements(backlog) \cup {c}
      BY <1>0, <2>2, AppendIs
    <3> QED BY <1>1, <1>2, <2>2, <3>1 DEF Fresh
  <2> QED BY <1>1, <2>1, <2>2
<1> QED BY <1>1, <1>2, <1>3, StreamKept

LEMMA WriteStreams ==
  ASSUME ReactorInv, StreamInv, NEW c \in Clients, Write(c)
  PROVE  StreamInv'
<1>0. TypeOK
  BY DEF ReactorInv
<1>1. /\ wrote' = [wrote EXCEPT ![c] = @ + 1]
      /\ rcvq' = [rcvq EXCEPT ![c] = Append(@, wrote[c] + 1)]
      /\ UNCHANGED <<sndq, replies, file, up, backlog, server>>
      /\ c \in up
  BY DEF Write
<1>2. UNCHANGED <<conns, inb, outb, newfd, pc>>
  BY <1>1 DEF server
<1>3. \A d \in Clients : Fresh(d)' <=> Fresh(d)
  BY <1>1, <1>2 DEF Fresh
<1>4. /\ wrote[c] \in Nat /\ rcvq[c] \in Seq(Nat)
      /\ wrote'[c] = wrote[c] + 1 /\ rcvq'[c] = Append(rcvq[c], wrote[c] + 1)
      /\ \A d \in Clients : d # c => wrote'[d] = wrote[d] /\ rcvq'[d] = rcvq[d]
  BY <1>0, <1>1 DEF TypeOK
<1>5. /\ Len(rcvq[c]) \in Nat /\ DOMAIN rcvq[c] = 1..Len(rcvq[c])
      /\ rcvq'[c] \in Seq(Nat) /\ Len(rcvq'[c]) = Len(rcvq[c]) + 1
      /\ \A i \in 1..Len(rcvq[c]) : rcvq'[c][i] = rcvq[c][i]
      /\ rcvq'[c][Len(rcvq[c]) + 1] = wrote[c] + 1
  <2>1. wrote[c] + 1 \in Nat
    BY <1>4
  <2> QED BY <1>4, <2>1, AppendProperties, LenProperties
<1>6. DOMAIN rcvq'[c] = 1..Len(rcvq[c]) + 1
  BY <1>5, LenProperties
<1>7. Queued(c) /\ (\A d \in Clients : Queued(d)) /\ \A f \in conns \cap Fds : Served(f)
  BY DEF StreamInv
<1>8. wrote'[c] - Len(rcvq'[c]) = wrote[c] - Len(rcvq[c])
  BY <1>4, <1>5
<1>9. Queued(c)'
  <2>1. \A i \in 1..Len(rcvq[c]) + 1 : rcvq'[c][i] = wrote[c] - Len(rcvq[c]) + i
    <3> TAKE i \in 1..Len(rcvq[c]) + 1
    <3>1. CASE i \in 1..Len(rcvq[c])
      BY <1>5, <1>7, <3>1 DEF Queued, Taken
    <3>2. CASE i = Len(rcvq[c]) + 1
      BY <1>4, <1>5, <3>2
    <3> QED BY <1>5, <3>1, <3>2
  <2> QED BY <1>1, <1>3, <1>6, <1>7, <1>8, <2>1 DEF Queued, Taken
<1>10. \A d \in Clients : Queued(d)'
  BY <1>1, <1>3, <1>4, <1>7, <1>9, QueuedKept
<1>11. \A f \in conns \cap Fds : Served(f)'
  <2> TAKE f \in conns \cap Fds
  <2>1. CASE file[f] = c
    <3>1. DecodedOf(f)' = DecodedOf(f)
      BY <1>1, <1>2, <1>8, <2>1 DEF DecodedOf
    <3> QED BY <1>1, <1>2, <1>7, <3>1 DEF Served
  <2>2. CASE file[f] # c
    <3>1. file[f] \in Clients
      BY NotFresh DEF ReactorInv
    <3> QED BY <1>1, <1>2, <1>4, <1>7, <2>2, <3>1, ServedKept
  <2> QED BY <2>1, <2>2
<1> QED BY <1>2, <1>10, <1>11 DEF StreamInv

LEMMA ReadStreams ==
  ASSUME ReactorInv, StreamInv, NEW c \in Clients, Read(c)
  PROVE  StreamInv'
<1>0. TypeOK
  BY DEF ReactorInv
<1>1. /\ sndq[c] # <<>>
      /\ replies' = [replies EXCEPT ![c] = Append(@, Head(sndq[c]))]
      /\ sndq' = [sndq EXCEPT ![c] = Tail(@)]
      /\ UNCHANGED <<wrote, rcvq, file, up, backlog, server>>
  BY DEF Read
<1>2. UNCHANGED <<conns, inb, outb, newfd, pc>>
  BY <1>1 DEF server
<1>3. \A d \in Clients : Fresh(d)' <=> Fresh(d)
  BY <1>1, <1>2 DEF Fresh
<1>4. /\ replies[c] \in Seq(Nat) /\ sndq[c] \in Seq(Nat)
      /\ replies'[c] = Append(replies[c], Head(sndq[c])) /\ sndq'[c] = Tail(sndq[c])
      /\ \A d \in Clients : d # c => replies'[d] = replies[d] /\ sndq'[d] = sndq[d]
  BY <1>0, <1>1 DEF TypeOK
<1>5. (\A d \in Clients : Queued(d)) /\ \A f \in conns \cap Fds : Served(f)
  BY DEF StreamInv
<1>6. Queued(c)'
  <2>1. ~ Fresh(c)
    BY <1>1, <1>5 DEF Queued
  <2> QED BY <1>1, <1>3, <1>5, <2>1 DEF Queued, Taken
<1>7. \A d \in Clients : Queued(d)'
  BY <1>1, <1>3, <1>4, <1>5, <1>6, QueuedKept
<1>8. replies'[c] \o sndq'[c] = replies[c] \o sndq[c]
  BY <1>1, <1>4, ReadOrder
<1>9. \A f \in conns \cap Fds : Served(f)'
  <2> TAKE f \in conns \cap Fds
  <2>1. CASE file[f] = c
    <3>1. DecodedOf(f)' = DecodedOf(f)
      BY <1>1, <1>2 DEF DecodedOf
    <3>2. Served(f) /\ file'[f] = file[f] /\ inb'[f] = inb[f] /\ outb'[f] = outb[f]
      BY <1>1, <1>2, <1>5
    <3> QED BY <1>8, <2>1, <3>1, <3>2 DEF Served
  <2>2. CASE file[f] # c
    <3>1. file[f] \in Clients
      BY NotFresh DEF ReactorInv
    <3> QED BY <1>1, <1>2, <1>4, <1>5, <2>2, <3>1, ServedKept
  <2> QED BY <2>1, <2>2
<1> QED BY <1>2, <1>7, <1>9 DEF StreamInv

(* The steps of the reactor that move no piece.                               *)
LEMMA QuietStreams ==
  ASSUME ReactorInv, StreamInv,
         \/ WaitEvents \/ DispatchIn \/ DispatchOut \/ DispatchNext
         \/ AcceptDone \/ AcceptFails \/ SendStops \/ SendError \/ HandlerDies
         \/ EnableReadWrite
  PROVE  StreamInv'
<1>1. UNCHANGED <<wrote, rcvq, sndq, replies, file, conns, inb, outb, up, backlog, newfd>>
  BY DEF WaitEvents, DispatchIn, DispatchOut, DispatchNext, AcceptDone, AcceptFails,
         SendStops, SendError, HandlerDies, EnableReadWrite, kernel, peers
<1>2. pc' # "add"
  <2>1. DispatchIn => pc' # "add"
    <3> HAVE DispatchIn
    <3>1. pc' = CASE Cur \notin conns -> "dispatch"
                  [] Cur = Listen -> "accept"
                  [] OTHER -> "recv"
      BY DEF DispatchIn
    <3>2. Cur = Listen => Cur \in conns
      BY DEF ReactorInv, Owned
    <3> QED BY <3>1, <3>2
  <2>2. ~ DispatchIn => pc' # "add"
    BY DEF WaitEvents, DispatchOut, DispatchNext, AcceptDone, AcceptFails,
           SendStops, SendError, HandlerDies, EnableReadWrite
  <2> QED BY <2>1, <2>2
<1>3. \A c \in Clients : Fresh(c)' => Fresh(c)
  BY <1>1, <1>2 DEF Fresh
<1> QED BY <1>1, <1>3, StreamKept

LEMMA StutterStreams ==
  ASSUME StreamInv, UNCHANGED vars
  PROVE  StreamInv'
<1>1. UNCHANGED <<wrote, rcvq, sndq, replies, file, conns, inb, outb, up, backlog, newfd, pc>>
  BY DEF vars, kernel, peers, server
<1>2. \A c \in Clients : Fresh(c)' => Fresh(c)
  BY <1>1 DEF Fresh
<1> QED BY <1>1, <1>2, StreamKept

LEMMA AcceptStreams ==
  ASSUME ReactorInv, StreamInv, Accept
  PROVE  StreamInv'
<1> DEFINE g == LowestFree
<1>0. TypeOK /\ Owned
  BY DEF ReactorInv
<1>1. /\ FreeFds # {} /\ backlog # <<>>
      /\ newfd' = g /\ file' = [file EXCEPT ![g] = Head(backlog)]
      /\ backlog' = Tail(backlog)
      /\ UNCHANGED <<wrote, rcvq, sndq, replies, conns, inb, outb, up>>
  BY DEF Accept, peers
<1>2. g \in Fds /\ file[g] = None
  BY <1>1, LowestFreeIs
<1> HIDE DEF g
<1>3. g \notin conns
  BY <1>0, <1>2, ReactorAssumption DEF Owned
<1>4. /\ file'[g] = Head(backlog)
      /\ \A f \in Fds : f # g => file'[f] = file[f]
  BY <1>0, <1>1, <1>2 DEF TypeOK
<1>5. Head(backlog) \in Elements(backlog) /\ Elements(backlog') \subseteq Elements(backlog)
  <2>1. backlog \in Seq(Clients)
    BY <1>0 DEF TypeOK
  <2>2. /\ Len(backlog) \in Nat /\ DOMAIN backlog = 1..Len(backlog) /\ Len(backlog) # 0
        /\ Head(backlog) = backlog[1] /\ backlog' \in Seq(Clients)
        /\ Len(backlog') = Len(backlog) - 1
        /\ \A i \in 1..Len(backlog') : backlog'[i] = backlog[i + 1]
    BY <1>1, <2>1, HeadTailProperties, LenProperties, EmptySeq
  <2>3. DOMAIN backlog' = 1..Len(backlog')
    BY <2>2, LenProperties
  <2>4. \A i \in DOMAIN backlog' : i + 1 \in DOMAIN backlog
    BY <2>2, <2>3
  <2>5. 1 \in DOMAIN backlog
    BY <2>2
  <2> QED BY <2>2, <2>3, <2>4, <2>5 DEF Elements
<1>6. \A c \in Clients : Fresh(c)' => Fresh(c)
  BY <1>1, <1>4, <1>5 DEF Fresh
<1> QED BY <1>1, <1>3, <1>4, <1>6, StreamKept

LEMMA DelConnectionStreams ==
  ASSUME ReactorInv, StreamInv, RecvClosed \/ RecvError
  PROVE  StreamInv'
<1> DEFINE g == Cur
<1>0. TypeOK /\ Owned /\ Placed /\ pc = "recv"
  BY DEF ReactorInv, RecvClosed, RecvError
<1>1. /\ conns' = conns \ {g}
      /\ inb' = [inb EXCEPT ![g] = <<>>] /\ outb' = [outb EXCEPT ![g] = <<>>]
      /\ file' = [file EXCEPT ![g] = None]
      /\ pc' # "add"
      /\ UNCHANGED <<wrote, rcvq, sndq, replies, up, backlog>>
  BY DEF RecvClosed, RecvError, DelConnection, peers
<1>2. g \in Fds
  BY <1>0, Called
<1> HIDE DEF g
<1>3. \A f \in Fds : f # g => file'[f] = file[f] /\ inb'[f] = inb[f] /\ outb'[f] = outb[f]
  BY <1>0, <1>1, <1>2 DEF TypeOK
<1>4. \A c \in Clients : Fresh(c)' => Fresh(c)
  BY <1>1 DEF Fresh
<1> QED BY <1>1, <1>3, <1>4, StreamKept

LEMMA AddConnectionStreams ==
  ASSUME ReactorInv, StreamInv, NEW works \in BOOLEAN, AddConnection(works)
  PROVE  StreamInv'
<1>0. TypeOK /\ Owned /\ pc = "add"
  BY DEF ReactorInv, AddConnection
<1>1. PICK g \in Fds \ conns, c \in Clients : g = newfd /\ c = file[g]
  BY <1>0 DEF Owned
<1>2. /\ conns' = conns \cup {g}
      /\ inb' = [inb EXCEPT ![g] = <<>>]
      /\ outb' = [outb EXCEPT ![g] = <<>>]
      /\ pc' = "accept"
      /\ UNCHANGED <<wrote, rcvq, sndq, replies, file, up, backlog>>
  BY <1>0, <1>1 DEF AddConnection, peers
<1>3. (\A d \in Clients : Queued(d)) /\ \A f \in conns \cap Fds : Served(f)
  BY DEF StreamInv
<1>4. Taken(c) = 0 /\ replies[c] = <<>> /\ sndq[c] = <<>>
  BY <1>0, <1>1, <1>3 DEF Queued, Fresh
<1>5. \A d \in Clients : Fresh(d)' => Fresh(d)
  BY <1>2 DEF Fresh
<1>6. \A d \in Clients : Queued(d)'
  BY <1>2, <1>3, <1>5, QueuedKept
<1>7. /\ inb'[g] = <<>> /\ outb'[g] = <<>>
      /\ \A f \in Fds : f # g => inb'[f] = inb[f] /\ outb'[f] = outb[f]
  BY <1>0, <1>1, <1>2 DEF TypeOK
<1>8. Served(g)'
  <2>1. Len(inb'[g]) = 0 /\ DOMAIN inb'[g] = {}
    BY <1>7, EmptySeq
  <2>2. DecodedOf(g)' = wrote[c] - Len(rcvq[c]) - Len(inb'[g])
    BY <1>1, <1>2 DEF DecodedOf
  <2>3. DecodedOf(g)' = 0
    BY <1>4, <2>1, <2>2 DEF Taken
  <2>4. <<>> \o <<>> \o <<>> = <<>>
    OBVIOUS
  <2>5. file'[g] = c /\ replies'[c] = <<>> /\ sndq'[c] = <<>>
    BY <1>1, <1>2, <1>4
  <2>6. replies'[c] \o sndq'[c] \o outb'[g] = Answers(c, [i \in 1..0 |-> i])
    BY <1>1, <1>7, <2>4, <2>5, AnswersNone
  <2> QED BY <2>1, <2>3, <2>5, <2>6 DEF Served
<1>9. \A f \in conns \cap Fds : Served(f)'
  <2> TAKE f \in conns \cap Fds
  <2>1. f # g
    BY <1>1
  <2> QED BY <1>2, <1>3, <1>7, <2>1, ServedKept
<1> QED BY <1>2, <1>6, <1>8, <1>9 DEF StreamInv

LEMMA RecvDataStreams ==
  ASSUME ReactorInv, StreamInv, RecvData
  PROVE  StreamInv'
<1>0. TypeOK /\ Owned /\ Placed /\ pc = "recv"
  BY DEF ReactorInv, RecvData
<1>20. PICK g \in Fds, c \in Clients : g = Cur /\ c = Peer
  BY <1>0, Called
<1> DEFINE n == Min2(RecvSize, Len(rcvq[c]))
           took == SubSeq(rcvq[c], 1, n)
           left == SubSeq(rcvq[c], n + 1, Len(rcvq[c]))
           L == Len(rcvq[c])
           I == Len(inb[g])
           T == wrote[c] - L
           D == DecodedOf(g)
<1>1. /\ inb' = [inb EXCEPT ![g] = @ \o took]
      /\ rcvq' = [rcvq EXCEPT ![c] = left]
      /\ UNCHANGED <<wrote, sndq, replies, file, conns, outb, up, backlog, newfd, pc>>
  BY <1>20 DEF RecvData, peers
<1>2. /\ g \in conns /\ c = file[g]
      /\ \A f \in conns \cap Fds : f # g => file[f] \in Clients /\ file[f] # c
  BY <1>0, <1>20, Called
<1>3. rcvq[c] \in Seq(Nat) /\ inb[g] \in Seq(Nat) /\ wrote[c] \in Nat
  BY <1>0, <1>2 DEF TypeOK
<1>4. L \in Nat /\ I \in Nat /\ n \in Nat /\ n <= L
  <2>1. L \in Nat /\ I \in Nat /\ RecvSize \in Nat
    BY <1>3, LenProperties, ReactorAssumption
  <2> QED BY <2>1, Min2Is
<1>5. /\ took \in Seq(Nat) /\ Len(took) = n /\ \A i \in 1..n : took[i] = rcvq[c][i]
      /\ left \in Seq(Nat) /\ Len(left) = L - n /\ DOMAIN left = 1..L - n
      /\ \A i \in 1..L - n : left[i] = rcvq[c][n + i]
  <2> DEFINE r == rcvq[c]
  <2>1. r \in Seq(Nat) /\ n \in Nat /\ n <= Len(r)
    BY <1>3, <1>4
  <2>2. took = SubSeq(r, 1, n) /\ left = SubSeq(r, n + 1, Len(r)) /\ L = Len(r)
    OBVIOUS
  <2> HIDE DEF n, r, took, left, L
  <2>3. /\ took \in Seq(Nat) /\ Len(took) = n /\ \A i \in 1..n : took[i] = r[i]
    BY <2>1, <2>2, CutIs
  <2>4. /\ SubSeq(r, n + 1, Len(r)) \in Seq(Nat) /\ Len(SubSeq(r, n + 1, Len(r))) = Len(r) - n
        /\ DOMAIN SubSeq(r, n + 1, Len(r)) = 1..Len(r) - n
        /\ \A i \in 1..Len(r) - n : SubSeq(r, n + 1, Len(r))[i] = r[n + i]
    BY <2>1, CutIs
  <2> QED BY <2>2, <2>3, <2>4 DEF r
<1>6. DOMAIN rcvq[c] = 1..L /\ DOMAIN inb[g] = 1..I
  BY <1>3, LenProperties
<1>7. (\A d \in Clients : Queued(d)) /\ \A f \in conns \cap Fds : Served(f)
  BY DEF StreamInv
<1>8. T \in Nat /\ \A i \in 1..L : rcvq[c][i] = T + i
  BY <1>2, <1>6, <1>7 DEF Queued, Taken
<1>9. D \in Nat /\ D = T - I /\ \A i \in 1..I : inb[g][i] = D + i
  BY <1>2, <1>6, <1>7 DEF Served, DecodedOf
<1>10. ~ Fresh(c)
  BY <1>0, <1>2, NotFresh
<1>11. \A d \in Clients : Fresh(d)' <=> Fresh(d)
  BY <1>1 DEF Fresh
<1>12. /\ inb'[g] = inb[g] \o took /\ rcvq'[c] = left
       /\ \A f \in Fds : f # g => inb'[f] = inb[f]
       /\ \A d \in Clients : d # c => rcvq'[d] = rcvq[d]
  BY <1>0, <1>1, <1>2 DEF TypeOK
<1>13. /\ Len(inb'[g]) = I + n /\ DOMAIN inb'[g] = 1..I + n
       /\ \A i \in 1..I : inb'[g][i] = inb[g][i]
       /\ \A j \in 1..n : inb'[g][I + j] = took[j]
       /\ \A i \in 1..I + n : i \in 1..I \/ (i - I \in 1..n /\ I + (i - I) = i)
  <2> DEFINE x == inb[g]
  <2>1. x \in Seq(Nat) /\ took \in Seq(Nat)
    BY <1>3, <1>5
  <2> HIDE DEF took, n, L, left, T, D
  <2>2. /\ Len(x \o took) = Len(x) + Len(took) /\ DOMAIN (x \o took) = 1..Len(x) + Len(took)
        /\ \A i \in 1..Len(x) : (x \o took)[i] = x[i]
    BY <2>1, ConcatIs
  <2>3. \A j \in 1..Len(took) : (x \o took)[Len(x) + j] = took[j]
    BY <2>1, ConcatIs
  <2>4. \A i \in 1..I + n : i \in 1..I \/ (i - I \in 1..n /\ I + (i - I) = i)
    BY <1>4
  <2> QED BY <1>5, <1>12, <2>2, <2>3, <2>4
<1> HIDE DEF n, took, left, L, I, T, D
<1>14. wrote[c] - Len(left) = T + n
  BY <1>3, <1>4, <1>5 DEF T
<1>15. Queued(c)'
  <2>1. wrote'[c] - Len(rcvq'[c]) = T + n
    BY <1>1, <1>12, <1>14
  <2>2. \A i \in DOMAIN left : left[i] = T + n + i
    <3> TAKE i \in DOMAIN left
    <3>1. i \in 1..L - n /\ n + i \in 1..L
      BY <1>4, <1>5
    <3>2. left[i] = T + (n + i)
      BY <1>5, <1>8, <3>1
    <3> QED BY <1>4, <1>8, <3>1, <3>2
  <2>3. T + n \in Nat
    BY <1>4, <1>8
  <2> QED BY <1>10, <1>11, <1>12, <2>1, <2>2, <2>3 DEF Queued, Taken
<1>16. \A d \in Clients : Queued(d)'
  BY <1>1, <1>7, <1>11, <1>12, <1>15, QueuedKept
<1>17. Served(g)'
  <2>1. DecodedOf(g)' = wrote[c] - Len(left) - Len(inb'[g])
    BY <1>1, <1>2, <1>12 DEF DecodedOf
  <2>2. DecodedOf(g)' = D
    BY <1>4, <1>8, <1>9, <1>13, <1>14, <2>1
  <2>3. \A i \in 1..I + n : inb'[g][i] = D + i
    <3> TAKE i \in 1..I + n
    <3>1. CASE i \in 1..I
      BY <1>9, <1>13, <3>1
    <3>2. CASE i \notin 1..I
      <4>1. PICK j \in 1..n : i = I + j
        BY <1>13, <3>2
      <4>2. j \in 1..L
        BY <1>4, <4>1
      <4>3. inb'[g][i] = T + j
        BY <1>5, <1>8, <1>13, <4>1, <4>2
      <4> QED BY <1>4, <1>8, <1>9, <4>1, <4>3
    <3> QED BY <3>1, <3>2
  <2>4. replies[c] \o sndq[c] \o outb[g] = Answers(c, [i \in 1..D |-> i])
    BY <1>2, <1>7 DEF Served, D
  <2> QED BY <1>1, <1>2, <1>9, <1>13, <2>2, <2>3, <2>4 DEF Served
<1>18. \A f \in conns \cap Fds : Served(f)'
  <2> TAKE f \in conns \cap Fds
  <2>1. CASE f # g
    BY <1>1, <1>2, <1>7, <1>12, <2>1, ServedKept
  <2> QED BY <1>17, <2>1
<1> QED BY <1>1, <1>16, <1>18 DEF StreamInv

LEMMA Grouped == \A r, s, t \in Seq(Nat) : (r \o s) \o t = r \o (s \o t)
BY ConcatAssociative

LEMMA RecvBlocksStreams ==
  ASSUME ReactorInv, StreamInv, RecvBlocks
  PROVE  StreamInv'
<1>0. TypeOK /\ Owned /\ Placed /\ pc = "recv"
  BY DEF ReactorInv, RecvBlocks
<1>1. PICK g \in Fds, c \in Clients : g = Cur /\ c = Peer
  BY <1>0, Called
<1> DEFINE s == inb[g]
           n == Decoded(c, s)
           done == SubSeq(s, 1, n)
           left == SubSeq(s, n + 1, Len(s))
           new == Answers(c, done)
           D == DecodedOf(g)
<1>2. /\ inb' = [inb EXCEPT ![g] = left]
      /\ outb' = [outb EXCEPT ![g] = outb[g] \o new]
      /\ pc' # "add"
      /\ UNCHANGED <<wrote, rcvq, sndq, replies, file, conns, up, backlog, newfd>>
  BY <1>1 DEF RecvBlocks, kernel, peers
<1>3. g \in conns /\ c = file[g]
  BY <1>0, <1>1, Called
<1>4. s \in Seq(Nat) /\ outb[g] \in Seq(Nat) /\ replies[c] \in Seq(Nat) /\ sndq[c] \in Seq(Nat)
      /\ wrote[c] \in Nat /\ rcvq[c] \in Seq(Nat)
  BY <1>0 DEF TypeOK
<1>5. n \in Nat /\ n <= Len(s) /\ Len(s) \in Nat /\ DOMAIN s = 1..Len(s)
  BY <1>4, DecodedIs, LenProperties
<1>6. /\ inb'[g] = left /\ outb'[g] = outb[g] \o new
      /\ \A f \in Fds : f # g => inb'[f] = inb[f] /\ outb'[f] = outb[f]
  BY <1>0, <1>2 DEF TypeOK
<1>7. (\A d \in Clients : Queued(d)) /\ \A f \in conns \cap Fds : Served(f)
  BY DEF StreamInv
<1>8. /\ D \in Nat /\ D = wrote[c] - Len(rcvq[c]) - Len(s)
      /\ \A i \in 1..Len(s) : s[i] = D + i
      /\ replies[c] \o sndq[c] \o outb[g] = Answers(c, [i \in 1..D |-> i])
  BY <1>3, <1>5, <1>7 DEF Served, DecodedOf
<1>9. \A d \in Clients : Fresh(d)' => Fresh(d)
  BY <1>2 DEF Fresh
<1>10. \A d \in Clients : Queued(d)'
  BY <1>2, <1>7, <1>9, QueuedKept
<1> HIDE DEF n, D, s
<1>11. /\ done \in Seq(Nat) /\ Len(done) = n /\ \A i \in 1..n : done[i] = s[i]
       /\ left \in Seq(Nat)
  BY <1>4, <1>5, CutIs
<1>12. /\ Len(left) = Len(s) - n /\ DOMAIN left = 1..Len(s) - n
       /\ \A i \in 1..Len(s) - n : left[i] = s[n + i]
  <2>1. s \in Seq(Nat) /\ n \in Nat /\ n <= Len(s)
    BY <1>4, <1>5
  <2>2. Len(left) = Len(s) - n /\ DOMAIN left = 1..Len(s) - n
    BY <2>1, CutIs
  <2>3. \A i \in 1..Len(s) - n : left[i] = s[n + i]
    BY <2>1, CutIs
  <2> QED BY <2>2, <2>3
<1> HIDE DEF done, left
<1>13. new \in Seq(Nat)
  BY <1>11, AnswersAre
<1>14. Answers(c, [i \in 1..D + n |-> i]) = Answers(c, [i \in 1..D |-> i]) \o new
  <2>1. \A i \in 1..n : done[i] = D + i
    BY <1>5, <1>8, <1>11
  <2>2. done \in Seq(Nat) /\ Len(done) = n /\ D \in Nat /\ n \in Nat
    BY <1>5, <1>8, <1>11
  <2> HIDE DEF new
  <2>3. Answers(c, [i \in 1..D + n |-> i]) =
           Answers(c, [i \in 1..D |-> i]) \o Answers(c, done)
    BY <2>1, <2>2, AnswersGrow
  <2> QED BY <2>3 DEF new
<1> HIDE DEF new
<1>15. replies[c] \o sndq[c] \o (outb[g] \o new) = Answers(c, [i \in 1..D + n |-> i])
  <2>1. replies[c] \o sndq[c] \in Seq(Nat)
    BY <1>4, ConcatProperties
  <2>2. (replies[c] \o sndq[c]) \o outb[g] \o new = (replies[c] \o sndq[c]) \o (outb[g] \o new)
    BY <1>4, <1>13, <2>1, Grouped
  <2> QED BY <1>8, <1>14, <2>2
<1>16. DecodedOf(g)' = D + n
  <2>1. DecodedOf(g)' = wrote[c] - Len(rcvq[c]) - Len(left)
    BY <1>2, <1>3, <1>6 DEF DecodedOf
  <2>2. Len(rcvq[c]) \in Nat
    BY <1>4, LenProperties
  <2> QED BY <1>4, <1>5, <1>8, <1>12, <2>1, <2>2
<1>17. Served(g)'
  <2>1. \A i \in DOMAIN left : left[i] = D + n + i
    <3> TAKE i \in DOMAIN left
    <3>1. i \in 1..Len(s) - n /\ n + i \in 1..Len(s)
      BY <1>5, <1>12
    <3>2. left[i] = D + (n + i)
      BY <1>8, <1>12, <3>1
    <3> QED BY <1>5, <1>8, <3>1, <3>2
  <2>2. D + n \in Nat
    BY <1>5, <1>8
  <2> QED BY <1>2, <1>3, <1>6, <1>15, <1>16, <2>1, <2>2 DEF Served
<1>18. \A f \in conns \cap Fds : Served(f)'
  <2> TAKE f \in conns \cap Fds
  <2>1. CASE f # g
    BY <1>2, <1>6, <1>7, <2>1, ServedKept
  <2> QED BY <1>17, <2>1
<1> QED BY <1>2, <1>10, <1>18 DEF StreamInv

LEMMA SendSomeStreams ==
  ASSUME ReactorInv, StreamInv, SendSome
  PROVE  StreamInv'
<1>0. TypeOK /\ Owned /\ Placed /\ pc = "send"
  BY DEF ReactorInv, SendSome
<1>1. PICK g \in Fds, c \in Clients : g = Cur /\ c = Peer
  BY <1>0, Called
<1> DEFINE o == outb[g]
           n == Min2(SndCap - Len(sndq[c]), Len(o))
           sent == SubSeq(o, 1, n)
           left == SubSeq(o, n + 1, Len(o))
<1>2. /\ sndq' = [sndq EXCEPT ![c] = @ \o sent]
      /\ outb' = [outb EXCEPT ![g] = left]
      /\ pc' # "add" /\ Len(sndq[c]) < SndCap
      /\ UNCHANGED <<wrote, rcvq, replies, file, conns, inb, up, backlog, newfd>>
  BY <1>1 DEF SendSome, peers
<1>3. /\ g \in conns /\ c = file[g]
      /\ \A f \in conns \cap Fds : f # g => file[f] \in Clients /\ file[f] # c
  BY <1>0, <1>1, Called
<1>4. o \in Seq(Nat) /\ replies[c] \in Seq(Nat) /\ sndq[c] \in Seq(Nat)
  BY <1>0 DEF TypeOK
<1>5. n \in Nat /\ n <= Len(o)
  <2>1. Len(o) \in Nat /\ SndCap - Len(sndq[c]) \in Nat
    BY <1>2, <1>4, LenProperties, ReactorAssumption
  <2> QED BY <2>1, Min2Is
<1>6. /\ sndq'[c] = sndq[c] \o sent /\ outb'[g] = left
      /\ \A d \in Clients : d # c => sndq'[d] = sndq[d]
      /\ \A f \in Fds : f # g => outb'[f] = outb[f]
  BY <1>0, <1>2 DEF TypeOK
<1>7. (\A d \in Clients : Queued(d)) /\ \A f \in conns \cap Fds : Served(f)
  BY DEF StreamInv
<1>8. /\ DecodedOf(g) \in Nat
      /\ \A i \in DOMAIN inb[g] : inb[g][i] = DecodedOf(g) + i
      /\ replies[c] \o sndq[c] \o o = Answers(c, [i \in 1..DecodedOf(g) |-> i])
  BY <1>3, <1>7 DEF Served
<1> HIDE DEF n, o
<1>9. sent \in Seq(Nat) /\ left \in Seq(Nat) /\ sent \o left = o
  BY <1>4, <1>5, CutIs, CutJoins
<1> HIDE DEF sent, left
<1>10. ~ Fresh(c)
  BY <1>0, <1>3, NotFresh
<1>11. \A d \in Clients : Fresh(d)' => Fresh(d)
  BY <1>2 DEF Fresh
<1>12. Queued(c)'
  BY <1>2, <1>7, <1>10, <1>11 DEF Queued, Taken
<1>13. \A d \in Clients : Queued(d)'
  BY <1>2, <1>6, <1>7, <1>11, <1>12, QueuedKept
<1>14. replies[c] \o (sndq[c] \o sent) \o left = replies[c] \o sndq[c] \o o
  <2>1. replies[c] \o sndq[c] \in Seq(Nat)
    BY <1>4, ConcatProperties
  <2>2. replies[c] \o (sndq[c] \o sent) = (replies[c] \o sndq[c]) \o sent
    BY <1>4, <1>9, Grouped
  <2>3. ((replies[c] \o sndq[c]) \o sent) \o left = (replies[c] \o sndq[c]) \o (sent \o left)
    BY <1>9, <2>1, Grouped
  <2> QED BY <1>9, <2>2, <2>3
<1>15. Served(g)'
  <2>1. DecodedOf(g)' = DecodedOf(g)
    BY <1>2 DEF DecodedOf
  <2>2. file'[g] = c /\ replies'[c] = replies[c] /\ inb'[g] = inb[g]
    BY <1>2, <1>3
  <2> QED BY <1>6, <1>8, <1>14, <2>1, <2>2 DEF Served
<1>16. \A f \in conns \cap Fds : Served(f)'
  <2> TAKE f \in conns \cap Fds
  <2>1. CASE f # g
    BY <1>2, <1>3, <1>6, <1>7, <2>1, ServedKept
  <2> QED BY <1>15, <2>1
<1> QED BY <1>2, <1>13, <1>16 DEF StreamInv

LEMMA InitStreams ==
  ASSUME Init
  PROVE  StreamInv
<1>1. \A c \in Clients : Queued(c)
  <2> TAKE c \in Clients
  <2>1. rcvq[c] = <<>> /\ sndq[c] = <<>> /\ replies[c] = <<>> /\ wrote[c] = 0
    BY DEF Init
  <2>2. Len(rcvq[c]) = 0 /\ DOMAIN rcvq[c] = {}
    BY <2>1, EmptySeq
  <2>3. Taken(c) = 0
    <3>1. Taken(c) = 0 - 0
      BY <2>1, <2>2 DEF Taken
    <3> QED BY <3>1
  <2> QED BY <2>1, <2>2, <2>3 DEF Queued
<1>2. conns \cap Fds = {}
  BY ReactorAssumption DEF Init
<1> QED BY <1>1, <1>2 DEF StreamInv

(* Nothing is lost, doubled or reordered between a client's writes and its     *)
(* replies: every reachable state satisfies StreamInv.                        *)
THEOREM StreamsInvariant == Spec => []StreamInv
<1>1. Init => StreamInv
  BY InitStreams
<1>2. ReactorInv /\ StreamInv /\ [Next]_vars => StreamInv'
  <2> SUFFICES ASSUME ReactorInv, StreamInv, [Next]_vars PROVE StreamInv'
    OBVIOUS
  <2>1. CASE Loop
    BY <2>1, QuietStreams, AcceptStreams, AddConnectionStreams, DelConnectionStreams,
       RecvDataStreams, RecvBlocksStreams, SendSomeStreams DEF Loop
  <2>2. CASE \E c \in Clients : Client(c)
    BY <2>2, ClientStreams, WriteStreams, ReadStreams DEF Client
  <2>3. CASE UNCHANGED vars
    BY <2>3, StutterStreams
  <2> QED BY <2>1, <2>2, <2>3 DEF Next
<1> QED BY <1>1, <1>2, ReactorInvariant, PTL DEF Spec

(* What a client has read, what is on its way and what its Channel holds are   *)
(* the answers to the decoded packages, in order (Channel.hpp:34-115,           *)
(* Main.cc:38-55).                                                            *)
THEOREM RepliesMatchRequestsCorrect == Spec => []RepliesMatchRequests
<1>1. StreamInv => RepliesMatchRequests
  BY DEF StreamInv, Served, DecodedOf, RepliesMatchRequests
<1> QED BY <1>1, StreamsInvariant, PTL

=============================================================================
