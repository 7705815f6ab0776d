-------------------------- MODULE EventServersProofs ---------------------------
(* The select, poll and epoll servers for any clients, any table and any     *)
(* limit of descriptors: what they watch is what is open, and nothing they    *)
(* are about to call can block.  Both rest on each connection being in one    *)
(* place (OnePlace) and on the listener being looked at first (Fresh).        *)
EXTENDS EventServers, FiniteSetTheorems, SequenceTheorems, WellFoundedInduction,
        TLAPS

Counts ==
    /\ sent \in [Clients -> Nat]
    /\ heard \in [Clients -> Nat]
    /\ inbox \in [Clients -> Nat]

(* A connection waits in the backlog or has one descriptor, and is accepted   *)
(* once; the descriptors the server started with belong to no client.         *)
OnePlace ==
    /\ \A j, k \in DOMAIN backlog : backlog[j] = backlog[k] => j = k
    /\ \A j \in DOMAIN backlog :
          /\ backlog[j] \in up \ stranded
          /\ \A f \in AllFds : owner[f] # backlog[j]
    /\ \A f \in AllFds : owner[f] # None => owner[f] \in up
    /\ \A f, g \in Open : owner[f] = owner[g] => f = g
    /\ \A f \in AllFds : f \in Opened => owner[f] = None

(* WatchesTheOpen, one descriptor at a time.                                 *)
Watched ==
    /\ kind = "epoll" =>
         \A f \in AllFds \ {Listen} :
            f \in watched <=> owner[f] # None /\ owner[f] \notin stranded
    /\ kind # "epoll" =>
         \A f \in AllFds \ {Listen} :
            (\E j \in Slots : table[j] = f) <=> owner[f] # None
    /\ \A j, k \in Slots : table[j] = table[k] /\ table[j] # defaultfd => j = k

(* The tables keep the listener in their first slot.                         *)
ListenerFirst ==
    kind # "epoll" => table[0] = Listen /\ stranded = {}

(* A descriptor is on epoll's list, and in what it reported, once.            *)
ListedOnce ==
    /\ \A j, k \in DOMAIN rdlist : rdlist[j] = rdlist[k] => j = k
    /\ \A j \in DOMAIN rdlist : rdlist[j] \in watched
    /\ \A j, k \in DOMAIN events : events[j] = events[k] => j = k

(* Until the first entry is dispatched, select's result names descriptors of *)
(* the table.                                                               *)
Fresh == kind = "select" /\ pc = "dispatch" /\ slot = 0 => result \subseteq TableFds

ServersInv ==
    /\ TypeOK
    /\ Counts
    /\ OnePlace
    /\ Watched
    /\ ListenerFirst
    /\ ListedOnce
    /\ Fresh
    /\ NeverBlocks

-------------------------------------------------------------------------------
(* The least element of a set of numbers, as the kernel and the loops take it. *)

LEMMA Least ==
  ASSUME NEW T, T \subseteq Nat, T # {}
  PROVE  \E x \in T : \A y \in T : x <= y
<1>1. \E x \in T : \A y \in T : ~ (<<y, x>> \in OpToRel(<, Nat))
  BY NatLessThanWellFounded, WFMin
<1>2. PICK x \in T : \A y \in T : ~ (<<y, x>> \in OpToRel(<, Nat))
  BY <1>1, Zenon
<1>3. ASSUME NEW y \in T PROVE x <= y
  <2>1. ~ (<<y, x>> \in OpToRel(<, Nat))
    BY <1>2, Zenon
  <2>2. ~ (y < x)
    BY <2>1 DEF OpToRel
  <2> QED BY <2>2
<1> QED BY <1>3

(* Descriptors are numbers, and the listener's is one of them.               *)
LEMMA Descriptors ==
  ASSUME limit \in Limits
  PROVE  /\ AllFds \subseteq Nat
         /\ 0..(limit - 1) \subseteq AllFds
         /\ Listen \in AllFds
         /\ Listen \in Opened
         /\ defaultfd \notin AllFds
         /\ limit \in Nat
<1>1. limit \in Nat /\ limit > Listen /\ Listen \in Nat
  BY ServersAssumption DEF Listen
<1>2. AllFds \subseteq Nat
  BY ServersAssumption DEF AllFds
<1>3. 0..(limit - 1) \subseteq AllFds
  BY DEF AllFds
<1>4. Listen \in 0..(limit - 1) /\ Listen \in Opened
  BY <1>1 DEF Opened, EpFd, Listen
<1> QED BY <1>1, <1>2, <1>3, <1>4 DEF defaultfd

LEMMA LowestFreeIsFree ==
  ASSUME TypeOK, FreeFds # {}
  PROVE  /\ LowestFree \in FreeFds
         /\ LowestFree \in AllFds /\ LowestFree \notin Opened /\ LowestFree # Listen
         /\ owner[LowestFree] = None
<1>1. FreeFds \subseteq AllFds /\ AllFds \subseteq Nat /\ Listen \in Opened
  BY Descriptors DEF TypeOK, FreeFds
<1>2. \E f \in FreeFds : \A g \in FreeFds : f <= g
  BY <1>1, Least
<1>3. LowestFree \in FreeFds
  BY <1>2 DEF LowestFree
<1> QED BY <1>1, <1>3 DEF FreeFds

LEMMA NextSlotIsPending ==
  ASSUME TypeOK, Pending # {}
  PROVE  /\ NextSlot \in Pending /\ NextSlot \in Slots
         /\ NextSlot >= slot /\ NextSlot \in Nat /\ NextSlot < Size
         /\ \A j \in Pending : NextSlot <= j
<1>1. Pending \subseteq Slots /\ Slots \subseteq Nat
  BY DEF Pending, Slots
<1>2. \E j \in Pending : \A k \in Pending : j <= k
  BY <1>1, Least
<1>3. NextSlot \in Pending /\ \A j \in Pending : NextSlot <= j
  BY <1>2 DEF NextSlot
<1>4. \A j \in Slots : j \in Nat /\ j < Size
  BY ServersAssumption DEF Slots
<1> QED BY <1>1, <1>3, <1>4 DEF Pending

-------------------------------------------------------------------------------
(* The kernel's lists.                                                       *)

Distinct(s) == \A j, k \in DOMAIN s : s[j] = s[k] => j = k

(* An arrival is put on the list if it is watched and not there.             *)
LEMMA ArrivesOnce ==
  ASSUME TypeOK, ListedOnce, NEW fs, Arrives(fs)
  PROVE  /\ rdlist' \in Seq(AllFds)
         /\ \A j, k \in DOMAIN rdlist' : rdlist'[j] = rdlist'[k] => j = k
         /\ \A j \in DOMAIN rdlist' : rdlist'[j] \in watched
<1> DEFINE new == (fs \cap watched) \ Elements(rdlist)
<1>1. CASE new = {}
  BY <1>1 DEF Arrives, TypeOK, ListedOnce
<1>2. CASE new # {}
  <2> DEFINE f == CHOOSE f \in new : TRUE
  <2>1. f \in watched /\ f \in AllFds /\ \A j \in DOMAIN rdlist : rdlist[j] # f
    BY <1>2 DEF TypeOK, Elements
  <2>2. rdlist' = Append(rdlist, f)
    BY <1>2 DEF Arrives
  <2> HIDE DEF f
  <2> QED BY <2>1, <2>2 DEF TypeOK, ListedOnce
<1> QED BY <1>1, <1>2

(* What is still ready is on the list, once, and is ready.                   *)
LEMMA StillReadyIs ==
  ASSUME TypeOK, ListedOnce, NEW live \in StillReady
  PROVE  /\ live \in Seq(AllFds)
         /\ Distinct(live)
         /\ \A j \in DOMAIN live : live[j] \in watched /\ Readable(live[j])
<1> DEFINE at == {j \in DOMAIN rdlist : Readable(rdlist[j])}
           m == Cardinality(at)
<1>1. PICK p \in [1..m -> at] :
         /\ \A a, b \in DOMAIN p : a < b => p[a] < p[b]
         /\ live = [k \in 1..m |-> rdlist[p[k]]]
  BY DEF StillReady
<1>2. m \in Nat
  <2>1. DOMAIN rdlist = 1..Len(rdlist) /\ Len(rdlist) \in Nat
    BY DEF TypeOK
  <2>2. IsFiniteSet(DOMAIN rdlist)
    BY <2>1, FS_Interval
  <2>3. IsFiniteSet(at)
    BY <2>2, FS_Subset
  <2> QED BY <2>3, FS_CardinalityType
<1> HIDE DEF m
<1>3. \A k \in 1..m : p[k] \in at /\ p[k] \in DOMAIN rdlist /\ p[k] \in Nat
  BY <1>1 DEF TypeOK
<1>4. \A k \in 1..m : live[k] = rdlist[p[k]]
  BY <1>1
<1>5. live \in Seq(AllFds) /\ DOMAIN live = 1..m
  BY <1>1, <1>2, <1>3 DEF TypeOK
<1>6. Distinct(live)
  <2> SUFFICES ASSUME NEW a \in 1..m, NEW b \in 1..m, live[a] = live[b]
               PROVE  a = b
    BY <1>5 DEF Distinct
  <2>1. p[a] = p[b]
    BY <1>3, <1>4 DEF ListedOnce
  <2>2. ~ (a < b) /\ ~ (b < a)
    BY <1>1, <1>3, <2>1
  <2> QED BY <1>2, <2>2
<1>7. \A k \in 1..m : live[k] \in watched /\ Readable(live[k])
  BY <1>3, <1>4 DEF ListedOnce
<1> QED BY <1>5, <1>6, <1>7

(* The list without its first n.                                            *)
LEMMA BackOf ==
  ASSUME NEW s \in Seq(AllFds), NEW n \in Nat, n <= Len(s)
  PROVE  /\ SubSeq(s, n + 1, Len(s)) \in Seq(AllFds)
         /\ Len(SubSeq(s, n + 1, Len(s))) = Len(s) - n
         /\ \A j \in 1..(Len(s) - n) : SubSeq(s, n + 1, Len(s))[j] = s[n + j]
<1> DEFINE back == SubSeq(s, n + 1, Len(s))
<1>1. n + 1 \in Int /\ Len(s) \in Nat /\ \A j \in (n + 1)..Len(s) : s[j] \in AllFds
  OBVIOUS
<1>2. /\ back \in Seq(AllFds)
      /\ Len(back) = IF n + 1 <= Len(s) THEN Len(s) - (n + 1) + 1 ELSE 0
      /\ \A j \in 1..(Len(s) - (n + 1) + 1) : back[j] = s[(n + 1) + j - 1]
  BY <1>1, SubSeqProperties
<1> HIDE DEF back
<1>3. Len(s) - (n + 1) + 1 = Len(s) - n
  BY <1>1
<1>4. Len(back) = Len(s) - n
  <2>1. CASE n + 1 <= Len(s)
    BY <1>2, <1>3, <2>1
  <2>2. CASE ~ (n + 1 <= Len(s))
    <3>1. n = Len(s) /\ Len(s) - n = 0
      BY <1>1, <2>2
    <3> QED BY <1>2, <2>2, <3>1
  <2> QED BY <2>1, <2>2
<1>5. ASSUME NEW j \in 1..(Len(s) - n) PROVE back[j] = s[n + j]
  <2>1. back[j] = s[(n + 1) + j - 1]
    BY <1>2, <1>3
  <2>2. (n + 1) + j - 1 = n + j
    OBVIOUS
  <2> QED BY <2>1, <2>2
<1> QED BY <1>2, <1>4, <1>5 DEF back

(* Reporting the first n of a list and putting them back behind the others.  *)
Shown(live, n) == SubSeq(live, 1, n)
Rest(live, n) == SubSeq(live, n + 1, Len(live)) \o SubSeq(live, 1, n)

LEMMA ReportAndRelist ==
  ASSUME NEW live \in Seq(AllFds), Distinct(live), NEW n \in 0..Len(live)
  PROVE  /\ Shown(live, n) \in Seq(AllFds) /\ Distinct(Shown(live, n))
         /\ \A j \in DOMAIN Shown(live, n) : \E k \in DOMAIN live : Shown(live, n)[j] = live[k]
         /\ Rest(live, n) \in Seq(AllFds) /\ Distinct(Rest(live, n))
         /\ \A j \in DOMAIN Rest(live, n) : \E k \in DOMAIN live : Rest(live, n)[j] = live[k]
<1> DEFINE shown == Shown(live, n)
           rest == Rest(live, n)
<1> DEFINE m == Len(live)
           back == SubSeq(live, n + 1, m)
<1>1. m \in Nat /\ DOMAIN live = 1..m
  OBVIOUS
<1>2. /\ shown \in Seq(AllFds) /\ Len(shown) = n /\ DOMAIN shown = 1..n
      /\ \A j \in 1..n : shown[j] = live[j]
  BY <1>1 DEF Shown
<1>3. /\ back \in Seq(AllFds) /\ Len(back) = m - n /\ DOMAIN back = 1..(m - n)
      /\ \A j \in 1..(m - n) : back[j] = live[n + j]
  <2>1. n \in Nat /\ n <= Len(live)
    BY <1>1
  <2>2. back \in Seq(AllFds) /\ Len(back) = m - n /\ \A j \in 1..(m - n) : back[j] = live[n + j]
    BY <2>1, BackOf
  <2> QED BY <2>2
<1> HIDE DEF back
<1>4. /\ rest \in Seq(AllFds) /\ DOMAIN rest = 1..m
      /\ \A j \in 1..m : rest[j] = IF j <= m - n THEN back[j] ELSE shown[j - (m - n)]
  <2>1. rest = back \o shown
    BY DEF back, Rest, Shown
  <2>2. m - n \in Nat /\ (m - n) + n = m
    BY <1>1
  <2> HIDE DEF m
  <2>3. /\ rest \in Seq(AllFds) /\ Len(rest) = Len(back) + Len(shown)
        /\ \A j \in 1..(Len(back) + Len(shown)) :
              rest[j] = IF j <= Len(back) THEN back[j] ELSE shown[j - Len(back)]
    <3>1. back \in Seq(AllFds) /\ shown \in Seq(AllFds)
      BY <1>2, <1>3
    <3>2. /\ back \o shown \in Seq(AllFds)
          /\ Len(back \o shown) = Len(back) + Len(shown)
          /\ \A j \in 1..(Len(back) + Len(shown)) :
                (back \o shown)[j] = IF j <= Len(back) THEN back[j] ELSE shown[j - Len(back)]
      BY <3>1, ConcatProperties
    <3> QED BY <2>1, <3>2
  <2>4. Len(back) = m - n /\ Len(shown) = n /\ Len(back) + Len(shown) = m
    BY <1>2, <1>3, <2>2
  <2>5. \A j \in 1..m : rest[j] = IF j <= m - n THEN back[j] ELSE shown[j - (m - n)]
    BY <2>3, <2>4
  <2>6. DOMAIN rest = 1..m
    <3>1. Len(rest) = m /\ rest \in Seq(AllFds)
      BY <2>3, <2>4
    <3>2. DOMAIN rest = 1..Len(rest)
      BY <3>1, LenProperties
    <3> QED BY <3>1, <3>2, Zenon
  <2> QED BY <2>3, <2>5, <2>6
<1> HIDE DEF m
<1>5. \A j \in 1..m : rest[j] = IF j <= m - n THEN live[n + j] ELSE live[j - (m - n)]
  <2> TAKE j \in 1..m
  <2>1. CASE j <= m - n
    <3>1. j \in 1..(m - n)
      BY <1>1, <2>1 DEF m
    <3> QED BY <1>3, <1>4, <2>1, <3>1
  <2>2. CASE ~ (j <= m - n)
    <3>1. j - (m - n) \in 1..n
      BY <1>1, <2>2 DEF m
    <3> QED BY <1>2, <1>4, <2>2, <3>1
  <2> QED BY <2>1, <2>2
<1>6. Distinct(shown)
  BY <1>1, <1>2 DEF Distinct, m
<1>7. \A j \in 1..n : j \in DOMAIN live
  BY <1>1 DEF m
<1>8. Distinct(rest)
  <2> SUFFICES ASSUME NEW a \in 1..m, NEW b \in 1..m, rest[a] = rest[b]
               PROVE  a = b
    BY <1>4 DEF Distinct
  <2> DEFINE pos(j) == IF j <= m - n THEN n + j ELSE j - (m - n)
  <2>1. n \in 0..m
    BY DEF m
  <2>2. pos(a) \in 1..m /\ pos(b) \in 1..m
    BY <1>1, <2>1
  <2>3. live[pos(a)] = live[pos(b)]
    BY <1>5
  <2>4. pos(a) = pos(b)
    BY <1>1, <2>2, <2>3 DEF Distinct
  <2> QED BY <1>1, <2>1, <2>4
<1>9. \A j \in 1..m : \E k \in DOMAIN live : rest[j] = live[k]
  <2> TAKE j \in 1..m
  <2>1. n \in 0..m
    BY DEF m
  <2>2. CASE j <= m - n
    <3>1. n + j \in DOMAIN live
      BY <1>1, <2>1, <2>2
    <3> QED BY <1>5, <2>2, <3>1
  <2>3. CASE ~ (j <= m - n)
    <3>1. j - (m - n) \in DOMAIN live
      BY <1>1, <2>1, <2>3
    <3> QED BY <1>5, <2>3, <3>1
  <2> QED BY <2>2, <2>3
<1> QED BY <1>2, <1>4, <1>6, <1>7, <1>8, <1>9

(* Taking a descriptor off the list leaves the others.                       *)
LEMMA WithoutIs ==
  ASSUME TypeOK, ListedOnce, NEW f
  PROVE  /\ Without(f) \in Seq(AllFds)
         /\ Distinct(Without(f))
         /\ \A j \in DOMAIN Without(f) : Without(f)[j] \in watched \ {f}
<1> DEFINE n == Len(rdlist)
           at == CHOOSE j \in DOMAIN rdlist : rdlist[j] = f
           s == SubSeq(rdlist, 1, at - 1)
           t == SubSeq(rdlist, at + 1, n)
<1>0. rdlist \in Seq(AllFds) /\ n \in Nat /\ DOMAIN rdlist = 1..n
  BY DEF TypeOK
<1>1. CASE f \notin Elements(rdlist)
  BY <1>0, <1>1 DEF Without, ListedOnce, Distinct, Elements
<1>2. CASE f \in Elements(rdlist)
  <2>1. at \in 1..n /\ rdlist[at] = f
    BY <1>0, <1>2 DEF Elements
  <2> HIDE DEF at, n
  <2>2. /\ s \in Seq(AllFds) /\ Len(s) = at - 1
        /\ \A j \in 1..(at - 1) : s[j] = rdlist[j]
    BY <1>0, <2>1 DEF n
  <2>3. /\ t \in Seq(AllFds) /\ Len(t) = n - at
        /\ \A j \in 1..(n - at) : t[j] = rdlist[at + j]
    <3>1. at \in Nat /\ at <= n
      BY <1>0, <2>1 DEF n
    <3> QED BY <1>0, <3>1, BackOf DEF n
  <2>4. Without(f) = s \o t
    BY <1>2 DEF Without, at, n
  <2> HIDE DEF s, t
  <2>5. /\ Without(f) \in Seq(AllFds) /\ DOMAIN Without(f) = 1..(n - 1)
        /\ \A j \in 1..(n - 1) : Without(f)[j] = rdlist[IF j < at THEN j ELSE j + 1]
    <3>1. s \o t \in Seq(AllFds) /\ Len(s \o t) = n - 1 /\ DOMAIN (s \o t) = 1..(n - 1)
      BY <1>0, <2>1, <2>2, <2>3
    <3>2. ASSUME NEW j \in 1..(n - 1)
          PROVE  (s \o t)[j] = rdlist[IF j < at THEN j ELSE j + 1]
      <4>1. CASE j < at
        BY <1>0, <2>1, <2>2, <2>3, <4>1
      <4>2. CASE ~ (j < at)
        <5>1. (s \o t)[j] = t[j - (at - 1)] /\ j - (at - 1) \in 1..(n - at)
          BY <1>0, <2>1, <2>2, <2>3, <4>2
        <5>2. at + (j - (at - 1)) = j + 1
          BY <1>0, <2>1
        <5> QED BY <2>3, <4>2, <5>1, <5>2
      <4> QED BY <4>1, <4>2
    <3> QED BY <2>4, <3>1, <3>2
  <2>6. \A j \in 1..(n - 1) : (IF j < at THEN j ELSE j + 1) \in (1..n) \ {at}
    BY <1>0, <2>1
  <2>7. Distinct(Without(f))
    <3> SUFFICES ASSUME NEW a \in 1..(n - 1), NEW b \in 1..(n - 1),
                        Without(f)[a] = Without(f)[b]
                 PROVE  a = b
      BY <2>5 DEF Distinct
    <3>1. (IF a < at THEN a ELSE a + 1) = (IF b < at THEN b ELSE b + 1)
      BY <1>0, <2>5, <2>6 DEF ListedOnce
    <3> QED BY <1>0, <2>1, <3>1
  <2>8. \A j \in 1..(n - 1) : Without(f)[j] \in watched \ {f}
    BY <1>0, <2>1, <2>5, <2>6 DEF ListedOnce
  <2> QED BY <2>5, <2>7, <2>8
<1> QED BY <1>1, <1>2

-------------------------------------------------------------------------------
(* The invariant holds at the start.                                         *)

LEMMA ServersInvInit == Init => ServersInv
<1> SUFFICES ASSUME Init PROVE ServersInv
  OBVIOUS
<1> USE ServersAssumption DEF Init
<1>0. limit \in Limits /\ Listen \in AllFds /\ defaultfd \notin AllFds /\ AllFds \subseteq Nat
  BY Descriptors
<1>1. TypeOK
  <2>1. table \in [Slots -> AllFds \cup {defaultfd}]
    BY <1>0 DEF Unused
  <2>2. owner \in [AllFds -> Clients \cup {None}]
    OBVIOUS
  <2>3. \A c \in Clients : sent[c] = heard[c] + inbox[c]
    OBVIOUS
  <2>4. watched \subseteq AllFds
    BY <1>0
  <2>5. slot \in 0..Size
    OBVIOUS
  <2> QED BY <2>1, <2>2, <2>3, <2>4, <2>5 DEF TypeOK
<1>2. Counts /\ OnePlace /\ ListedOnce /\ Fresh /\ NeverBlocks
  BY DEF Counts, OnePlace, ListedOnce, Fresh, NeverBlocks, Open
<1>3. 0 \in Slots
  BY DEF Slots
<1>4. Watched
  <2>1. ASSUME NEW f \in AllFds \ {Listen}, NEW j \in Slots
        PROVE  table[j] # f
    BY <1>0, <1>3 DEF Unused
  <2>2. \A j, k \in Slots : table[j] = table[k] /\ table[j] # defaultfd => j = k
    BY <1>3 DEF Unused
  <2> QED BY <2>1, <2>2 DEF Watched
<1>5. ListenerFirst
  BY <1>3 DEF ListenerFirst, Unused
<1> QED BY <1>1, <1>2, <1>4, <1>5 DEF ServersInv

-------------------------------------------------------------------------------
(* What the clients do.                                                      *)

(* Nothing that was ready stops being so.                                    *)
LEMMA StaysReady ==
  ASSUME UNCHANGED <<choice, owner, table, result, slot, events, pc>>,
         \A f \in AllFds : Readable(f) => Readable(f)',
         TypeOK, NeverBlocks
  PROVE  NeverBlocks'
<1>1. ASSUME pc = "dispatch", kind = "epoll" PROVE \A j \in DOMAIN events : Readable(events[j])'
  BY <1>1 DEF NeverBlocks, TypeOK
<1>2. ASSUME pc = "dispatch", kind # "epoll" PROVE \A j \in Pending : Readable(table[j])'
  <2> TAKE j \in Pending
  <2>1. table[j] \in AllFds /\ Readable(table[j])
    BY <1>2 DEF NeverBlocks, TypeOK, Pending, ReadyAt
  <2> QED BY <2>1
<1>3. Pending' = Pending
  BY DEF Pending, ReadyAt, choice
<1> QED BY <1>1, <1>2, <1>3 DEF NeverBlocks, choice

LEMMA ConnectStep ==
  ASSUME ServersInv, NEW c \in Clients, Connect(c)
  PROVE  ServersInv'
<1> USE DEF ServersInv, Connect, choice
<1>0. backlog \in Seq(Clients) /\ backlog' = Append(backlog, c) /\ c \notin up
  BY DEF TypeOK
<1>1. /\ rdlist' \in Seq(AllFds)
      /\ \A j, k \in DOMAIN rdlist' : rdlist'[j] = rdlist'[k] => j = k
      /\ \A j \in DOMAIN rdlist' : rdlist'[j] \in watched
  BY ArrivesOnce
<1>2. TypeOK'
  BY <1>0, <1>1 DEF TypeOK
<1>3. Counts' /\ ListenerFirst' /\ Fresh'
  BY DEF Counts, ListenerFirst, Fresh, TableFds
<1>4. OnePlace'
  <2>1. /\ DOMAIN backlog' = (DOMAIN backlog) \cup {Len(backlog) + 1}
        /\ \A j \in DOMAIN backlog : backlog'[j] = backlog[j] /\ j # Len(backlog) + 1
        /\ backlog'[Len(backlog) + 1] = c
    BY <1>0
  <2>2. c \notin stranded /\ \A f \in AllFds : owner[f] # c
    BY <1>0, ServersAssumption DEF TypeOK, OnePlace
  <2>3. Open' = Open /\ Opened' = Opened
    BY DEF Open, Opened
  <2>4. \A j \in DOMAIN backlog : backlog[j] # c
    BY <1>0 DEF OnePlace
  <2> QED BY <2>1, <2>2, <2>3, <2>4 DEF OnePlace
<1>5. Watched'
  BY DEF Watched
<1>6. ListedOnce'
  BY <1>1 DEF ListedOnce
<1>7. NeverBlocks'
  <2>1. \A f \in AllFds : Readable(f) => Readable(f)'
    BY <1>0 DEF Readable
  <2> QED BY <2>1, StaysReady
<1> QED BY <1>2, <1>3, <1>4, <1>5, <1>6, <1>7

LEMMA SendStep ==
  ASSUME ServersInv, NEW c \in Clients, Send(c)
  PROVE  ServersInv'
<1> USE DEF ServersInv, Send, choice
<1>0. /\ sent[c] \in Nat /\ inbox[c] \in Nat
      /\ \A d \in Clients : /\ sent'[d] = IF d = c THEN sent[d] + 1 ELSE sent[d]
                            /\ inbox'[d] = IF d = c THEN inbox[d] + 1 ELSE inbox[d]
                            /\ heard[d] \in Nat
  BY DEF Counts
<1>1. /\ rdlist' \in Seq(AllFds)
      /\ \A j, k \in DOMAIN rdlist' : rdlist'[j] = rdlist'[k] => j = k
      /\ \A j \in DOMAIN rdlist' : rdlist'[j] \in watched
  BY ArrivesOnce
<1>2. TypeOK'
  <2>1. \A d \in Clients : sent'[d] = heard'[d] + inbox'[d]
    BY <1>0 DEF TypeOK
  <2> QED BY <1>1, <2>1 DEF TypeOK
<1>3. Counts' /\ ListenerFirst' /\ Fresh'
  BY <1>0 DEF Counts, ListenerFirst, Fresh, TableFds
<1>4. OnePlace' /\ Watched'
  BY DEF OnePlace, Watched, Open, Opened
<1>5. ListedOnce'
  BY <1>1 DEF ListedOnce
<1>6. NeverBlocks'
  <2>1. ASSUME NEW f \in AllFds, Readable(f) PROVE Readable(f)'
    <3>1. CASE owner[f] # None /\ f # Listen
      <4>1. owner[f] \in Clients /\ inbox[owner[f]] \in Nat
        BY <3>1 DEF TypeOK, Counts
      <4>2. inbox[owner[f]] > 0 => inbox'[owner[f]] > 0
        BY <1>0, <4>1
      <4> QED BY <2>1, <3>1, <4>2 DEF Readable
    <3>2. CASE owner[f] = None \/ f = Listen
      BY <2>1, <3>2 DEF Readable
    <3> QED BY <3>1, <3>2
  <2> QED BY <2>1, StaysReady
<1> QED BY <1>2, <1>3, <1>4, <1>5, <1>6

LEMMA LeaveStep ==
  ASSUME ServersInv, NEW c \in Clients, Leave(c)
  PROVE  ServersInv'
<1> USE DEF ServersInv, Leave, choice
<1>1. /\ rdlist' \in Seq(AllFds)
      /\ \A j, k \in DOMAIN rdlist' : rdlist'[j] = rdlist'[k] => j = k
      /\ \A j \in DOMAIN rdlist' : rdlist'[j] \in watched
  BY ArrivesOnce
<1>2. TypeOK'
  BY <1>1 DEF TypeOK, Alive
<1>3. Counts' /\ ListenerFirst' /\ Fresh' /\ OnePlace' /\ Watched'
  BY DEF Counts, ListenerFirst, Fresh, TableFds, OnePlace, Watched, Open, Opened
<1>4. ListedOnce'
  BY <1>1 DEF ListedOnce
<1>5. NeverBlocks'
  <2>1. \A f \in AllFds : Readable(f) => Readable(f)'
    BY DEF Readable
  <2> QED BY <2>1, StaysReady
<1> QED BY <1>2, <1>3, <1>4, <1>5

-------------------------------------------------------------------------------
(* The waits.                                                                *)

LEMMA SelectWaitStep ==
  ASSUME ServersInv, SelectWait \/ SelectOverflows
  PROVE  ServersInv'
<1> USE DEF ServersInv, SelectWait, SelectOverflows, choice, kernel, clientVars
<1>1. TypeOK'
  BY ServersAssumption DEF TypeOK
<1>2. Counts' /\ ListenerFirst' /\ OnePlace' /\ Watched' /\ ListedOnce'
  BY DEF Counts, ListenerFirst, OnePlace, Watched, ListedOnce, Open, Opened
<1>3. Fresh'
  BY DEF Fresh, TableFds
<1>4. NeverBlocks'
  <2>1. ASSUME SelectWait, NEW j \in Pending' PROVE Readable(table[j])'
    BY <2>1 DEF Pending, ReadyAt, Readable
  <2> QED BY <2>1 DEF NeverBlocks
<1> QED BY <1>1, <1>2, <1>3, <1>4

LEMMA PollWaitStep ==
  ASSUME ServersInv, PollWait
  PROVE  ServersInv'
<1> USE DEF ServersInv, PollWait, choice, kernel, clientVars
<1>1. TypeOK'
  BY ServersAssumption DEF TypeOK
<1>2. Counts' /\ ListenerFirst' /\ OnePlace' /\ Watched' /\ ListedOnce' /\ Fresh'
  BY DEF Counts, ListenerFirst, OnePlace, Watched, ListedOnce, Open, Opened, Fresh
<1>3. NeverBlocks'
  <2>1. ASSUME NEW j \in Pending' PROVE Readable(table[j])'
    BY <2>1 DEF Pending, ReadyAt, Readable
  <2> QED BY <2>1 DEF NeverBlocks
<1> QED BY <1>1, <1>2, <1>3

LEMMA EpollWaitStep ==
  ASSUME ServersInv, EpollWait
  PROVE  ServersInv'
<1> USE DEF ServersInv, EpollWait, choice, clientVars
<1>1. PICK live \in StillReady :
         LET n == IF Len(live) < MaxEvents THEN Len(live) ELSE MaxEvents IN
         /\ events' = SubSeq(live, 1, n)
         /\ rdlist' = SubSeq(live, n + 1, Len(live)) \o Relist(SubSeq(live, 1, n))
  OBVIOUS
<1> DEFINE n == IF Len(live) < MaxEvents THEN Len(live) ELSE MaxEvents
<1>2. /\ live \in Seq(AllFds) /\ Distinct(live)
      /\ \A j \in DOMAIN live : live[j] \in watched /\ Readable(live[j])
  BY StillReadyIs
<1>3. n \in 0..Len(live)
  BY <1>2, ServersAssumption
<1>4. /\ events' = SubSeq(live, 1, n)
      /\ rdlist' = SubSeq(live, n + 1, Len(live)) \o events'
  BY <1>1 DEF Relist
<1> HIDE DEF n
<1>5. /\ events' \in Seq(AllFds) /\ Distinct(events')
      /\ \A j \in DOMAIN events' : \E k \in DOMAIN live : events'[j] = live[k]
      /\ rdlist' \in Seq(AllFds) /\ Distinct(rdlist')
      /\ \A j \in DOMAIN rdlist' : \E k \in DOMAIN live : rdlist'[j] = live[k]
  <2>1. events' = Shown(live, n) /\ rdlist' = Rest(live, n)
    BY <1>4 DEF Shown, Rest
  <2> HIDE DEF ServersInv, EpollWait
  <2> QED BY <1>2, <1>3, <2>1, ReportAndRelist
<1>6. TypeOK'
  BY <1>5 DEF TypeOK
<1>7. Counts' /\ ListenerFirst' /\ OnePlace' /\ Watched' /\ Fresh'
  BY DEF Counts, ListenerFirst, OnePlace, Watched, Open, Opened, Fresh
<1>8. ListedOnce'
  BY <1>2, <1>5 DEF ListedOnce, Distinct
<1>9. NeverBlocks'
  <2>1. \A j \in DOMAIN events' : Readable(events'[j])
    BY <1>2, <1>5
  <2>2. \A f : Readable(f)' = Readable(f)
    BY DEF Readable
  <2> QED BY <2>1, <2>2 DEF NeverBlocks
<1> QED BY <1>6, <1>7, <1>8, <1>9

LEMMA DispatchDoneStep ==
  ASSUME ServersInv, DispatchDone
  PROVE  ServersInv'
<1> USE DEF ServersInv, DispatchDone, choice, kernel, clientVars
<1>1. TypeOK'
  BY DEF TypeOK
<1>2. Counts' /\ ListenerFirst' /\ OnePlace' /\ Watched' /\ ListedOnce' /\ Fresh' /\ NeverBlocks'
  BY DEF Counts, ListenerFirst, OnePlace, Watched, ListedOnce, Open, Opened, Fresh, NeverBlocks
<1> QED BY <1>1, <1>2

-------------------------------------------------------------------------------
(* Accepter.                                                                 *)

(* The connection accepted had no descriptor; now it has one.                *)
LEMMA AcceptedOnePlace ==
  ASSUME ServersInv, FreeFds # {}, backlog # <<>>,
         owner' = [owner EXCEPT ![LowestFree] = Head(backlog)],
         backlog' = Tail(backlog),
         UNCHANGED <<kind, limit, up>>,
         stranded' = stranded \/ stranded' = stranded \cup {Head(backlog)}
  PROVE  /\ OnePlace'
         /\ owner' \in [AllFds -> Clients \cup {None}] /\ backlog' \in Seq(Clients)
         /\ LowestFree \in AllFds \ {Listen} /\ owner[LowestFree] = None
         /\ Head(backlog) \in up \ stranded /\ Head(backlog) # None
         /\ \A f \in AllFds : owner[f] # Head(backlog)
         /\ \A f \in AllFds : owner'[f] = IF f = LowestFree THEN Head(backlog) ELSE owner[f]
<1> USE DEF ServersInv
<1> DEFINE new == LowestFree
           c == Head(backlog)
<1>1. new \in AllFds \ {Listen} /\ owner[new] = None /\ new \notin Opened
  BY LowestFreeIsFree
<1>2. /\ backlog \in Seq(Clients) /\ c \in Clients /\ backlog' \in Seq(Clients)
      /\ c = backlog[1] /\ 1 \in DOMAIN backlog
      /\ \A j \in DOMAIN backlog' : /\ j + 1 \in DOMAIN backlog /\ j \in Nat \ {0}
                                    /\ backlog'[j] = backlog[j + 1]
  BY DEF TypeOK
<1>3. c \in up \ stranded /\ c # None /\ \A f \in AllFds : owner[f] # c
  BY <1>2, ServersAssumption DEF OnePlace
<1> HIDE DEF new, c
<1>4. \A f \in AllFds : owner'[f] = IF f = new THEN c ELSE owner[f]
  BY <1>1 DEF TypeOK, new, c
<1>5. owner' \in [AllFds -> Clients \cup {None}]
  BY <1>1, <1>2 DEF TypeOK, new, c
<1>6. \A j \in DOMAIN backlog' : backlog'[j] # c /\ backlog'[j] \in Clients
  BY <1>2 DEF OnePlace, TypeOK
<1>7. OnePlace'
  <2>1. \A j, k \in DOMAIN backlog' : backlog'[j] = backlog'[k] => j = k
    <3> TAKE j, k \in DOMAIN backlog'
    <3> HAVE backlog'[j] = backlog'[k]
    <3>1. j + 1 = k + 1
      BY <1>2 DEF OnePlace
    <3> QED BY <1>2, <3>1
  <2>2. ASSUME NEW j \in DOMAIN backlog'
        PROVE  backlog'[j] \in up' \ stranded' /\ \A f \in AllFds : owner'[f] # backlog'[j]
    <3>1. backlog'[j] \in up \ stranded /\ \A f \in AllFds : owner[f] # backlog'[j]
      BY <1>2 DEF OnePlace
    <3> QED BY <1>4, <1>6, <3>1 DEF c
  <2>3. \A f \in AllFds : owner'[f] # None => owner'[f] \in up'
    BY <1>3, <1>4 DEF OnePlace
  <2>4. \A f, g \in Open' : owner'[f] = owner'[g] => f = g
    BY <1>1, <1>3, <1>4 DEF OnePlace, Open
  <2>5. \A f \in AllFds : f \in Opened' => owner'[f] = None
    BY <1>1, <1>4 DEF OnePlace, Opened
  <2> QED BY <2>1, <2>2, <2>3, <2>4, <2>5 DEF OnePlace
<1> QED BY <1>1, <1>2, <1>3, <1>4, <1>5, <1>7 DEF new, c

LEMMA RefusedOnePlace ==
  ASSUME ServersInv, backlog # <<>>, backlog' = Tail(backlog),
         UNCHANGED <<kind, limit, up, owner, stranded>>
  PROVE  OnePlace' /\ backlog' \in Seq(Clients) /\ Head(backlog) \in up
<1> USE DEF ServersInv
<1>1. /\ backlog \in Seq(Clients) /\ backlog' \in Seq(Clients)
      /\ Head(backlog) = backlog[1] /\ 1 \in DOMAIN backlog
      /\ \A j \in DOMAIN backlog' : /\ j + 1 \in DOMAIN backlog /\ j \in Nat
                                    /\ backlog'[j] = backlog[j + 1]
  BY DEF TypeOK
<1>2. \A j, k \in DOMAIN backlog' : backlog'[j] = backlog'[k] => j = k
  <2> TAKE j, k \in DOMAIN backlog'
  <2> HAVE backlog'[j] = backlog'[k]
  <2>1. j + 1 = k + 1
    BY <1>1 DEF OnePlace
  <2> QED BY <1>1, <2>1
<1>3. Open' = Open /\ Opened' = Opened
  BY DEF Open, Opened
<1> QED BY <1>1, <1>2, <1>3 DEF OnePlace

(* select and poll: the listener is in the first slot, so what was reported  *)
(* is still as it was, and the new entry is not taken for one of them.       *)
LEMMA TableAccepterStep ==
  ASSUME ServersInv, NEW k \in {"select", "poll"}, TableAccepter(k)
  PROVE  ServersInv'
<1> USE DEF ServersInv, TableAccepter, choice, clientVars
<1>0. /\ kind = k /\ kind # "epoll" /\ pc = "dispatch" /\ Pending # {}
      /\ table[NextSlot] = Listen
  BY DEF AtSlot
<1>1. Listen \in AllFds /\ defaultfd \notin AllFds /\ 0 \in Slots /\ Slots \subseteq Nat
  BY Descriptors, ServersAssumption DEF TypeOK, Slots
<1>2. NextSlot = 0 /\ slot = 0 /\ slot' = 1
  <2>1. NextSlot \in Slots /\ NextSlot >= slot
    BY <1>0, NextSlotIsPending
  <2>2. table[0] = Listen /\ Listen # defaultfd
    BY <1>0, <1>1 DEF ListenerFirst
  <2>3. NextSlot = 0
    BY <1>0, <1>1, <2>1, <2>2 DEF Watched
  <2> QED BY <2>1, <2>3 DEF TypeOK
<1>3. slot' \in 0..Size /\ Fresh' /\ Counts' /\ ListedOnce'
  BY <1>2, ServersAssumption DEF Fresh, Counts, ListedOnce
<1>4. \A j \in Slots : j # 0 => table[j] # Listen
  BY <1>0, <1>1 DEF ListenerFirst, Watched
<1>5. ASSUME NEW j \in Slots, j \in Pending
      PROVE  table[j] \in AllFds /\ Readable(table[j])
  BY <1>0, <1>5 DEF NeverBlocks, Pending, ReadyAt, TypeOK
<1>6. CASE AcceptFails
  <2> USE <1>6 DEF AcceptFails
  <2>1. TypeOK' /\ OnePlace' /\ Watched' /\ ListenerFirst'
    BY <1>3 DEF TypeOK, OnePlace, Watched, ListenerFirst, Open, Opened
  <2>2. NeverBlocks'
    <3> SUFFICES ASSUME NEW j \in Pending' PROVE Readable(table[j])'
      BY <1>0 DEF NeverBlocks
    <3>1. j \in Slots /\ j \in Pending
      BY <1>2 DEF Pending, ReadyAt, Slots
    <3> QED BY <1>5, <3>1 DEF Readable
  <2> QED BY <1>3, <2>1, <2>2
<1>7. CASE ServerFull
  <2> USE <1>7 DEF ServerFull
  <2>0. OnePlace' /\ backlog' \in Seq(Clients) /\ Head(backlog) \in up
    BY RefusedOnePlace
  <2>1. TypeOK' /\ Watched' /\ ListenerFirst'
    BY <1>3, <2>0 DEF TypeOK, Watched, ListenerFirst
  <2>2. NeverBlocks'
    <3> SUFFICES ASSUME NEW j \in Pending' PROVE Readable(table[j])'
      BY <1>0 DEF NeverBlocks
    <3>1. j \in Slots /\ j \in Pending /\ j # 0
      BY <1>2 DEF Pending, ReadyAt, Slots
    <3> QED BY <1>4, <1>5, <3>1 DEF Readable
  <2> QED BY <1>3, <2>0, <2>1, <2>2
<1>8. CASE Enter
  <2> DEFINE pos == CHOOSE s \in FreeSlots : \A j \in FreeSlots : s <= j
             new == LowestFree
  <2>1. /\ FreeFds # {} /\ backlog # <<>> /\ FreeSlots # {}
        /\ owner' = [owner EXCEPT ![LowestFree] = Head(backlog)]
        /\ backlog' = Tail(backlog)
        /\ table' = [table EXCEPT ![pos] = new]
        /\ result' = IF kind = "poll" THEN result \ {pos} ELSE result
        /\ UNCHANGED refused
    BY <1>8 DEF Enter
  <2>2. pos \in Slots /\ table[pos] = defaultfd
    <3>1. FreeSlots \subseteq Nat
      BY <1>1 DEF FreeSlots
    <3>2. \E s \in FreeSlots : \A j \in FreeSlots : s <= j
      BY <2>1, <3>1, Least
    <3>3. pos \in FreeSlots
      BY <3>2
    <3> QED BY <3>3 DEF FreeSlots
  <2>3. /\ OnePlace'
        /\ owner' \in [AllFds -> Clients \cup {None}] /\ backlog' \in Seq(Clients)
        /\ new \in AllFds \ {Listen} /\ owner[new] = None
        /\ Head(backlog) \in up \ stranded /\ Head(backlog) # None
        /\ \A f \in AllFds : owner[f] # Head(backlog)
        /\ \A f \in AllFds : owner'[f] = IF f = new THEN Head(backlog) ELSE owner[f]
    BY <2>1, AcceptedOnePlace
  <2> HIDE DEF pos, new
  <2>4. pos # 0
    BY <1>0, <1>1, <2>2 DEF ListenerFirst
  <2>5. \A j \in Slots : table'[j] = IF j = pos THEN new ELSE table[j]
    BY <2>1, <2>2 DEF TypeOK
  <2>6. \A j \in Slots : table[j] # new
    BY <1>0, <2>3 DEF Watched
  <2>7. TypeOK'
    BY <1>3, <2>1, <2>2, <2>3 DEF TypeOK
  <2>8. ListenerFirst'
    BY <1>0, <1>1, <2>4, <2>5 DEF ListenerFirst
  <2>9. Watched'
    <3>1. ASSUME NEW f \in AllFds \ {Listen}
          PROVE  (\E j \in Slots : table'[j] = f) <=> owner'[f] # None
      <4>1. CASE f = new
        BY <2>2, <2>3, <2>5, <4>1
      <4>2. CASE f # new
        <5>1. owner'[f] = owner[f]
          BY <2>3, <4>2
        <5>2. (\E j \in Slots : table'[j] = f) <=> (\E j \in Slots : table[j] = f)
          BY <1>1, <2>2, <2>5, <4>2
        <5> QED BY <1>0, <5>1, <5>2 DEF Watched
      <4> QED BY <4>1, <4>2
    <3>2. \A i, j \in Slots : table'[i] = table'[j] /\ table'[i] # defaultfd => i = j
      BY <2>5, <2>6 DEF Watched
    <3> QED BY <1>0, <3>1, <3>2 DEF Watched
  <2>10. NeverBlocks'
    <3> SUFFICES ASSUME NEW j \in Pending' PROVE Readable(table[j])'
      BY <1>0 DEF NeverBlocks
    <3>1. /\ j \in Slots /\ j # 0 /\ table'[j] # defaultfd
          /\ (IF kind = "select" THEN table'[j] ELSE j) \in result'
      BY <1>2 DEF Pending, ReadyAt, Slots
    <3>2. CASE j = pos
      <4>1. CASE kind = "select"
        <5>1. new \in result
          BY <2>1, <2>5, <3>1, <3>2, <4>1
        <5>2. new \in TableFds
          BY <1>0, <1>2, <4>1, <5>1 DEF Fresh
        <5> QED BY <2>6, <5>2 DEF TableFds
      <4>2. CASE kind # "select"
        <5>1. kind = "poll"
          BY <1>0, <4>2
        <5> QED BY <2>1, <3>1, <3>2, <5>1
      <4> QED BY <4>1, <4>2
    <3>3. CASE j # pos
      <4>1. table'[j] = table[j]
        BY <2>5, <3>1, <3>3
      <4>2. j \in Pending
        BY <1>0, <1>1, <1>2, <2>1, <3>1, <4>1 DEF Pending, ReadyAt
      <4>3. table[j] \in AllFds /\ table[j] # Listen /\ Readable(table[j])
        BY <1>4, <1>5, <3>1, <4>2
      <4>4. owner'[table[j]] = owner[table[j]]
        BY <2>3, <2>6, <3>1, <4>3
      <4> QED BY <4>1, <4>3, <4>4 DEF Readable
    <3> QED BY <3>2, <3>3
  <2> QED BY <1>3, <2>3, <2>7, <2>8, <2>9, <2>10
<1> QED BY <1>6, <1>7, <1>8

(* epoll: the new descriptor is on no list yet.                              *)
LEMMA EpollAccepterStep ==
  ASSUME ServersInv, EpollAccepter
  PROVE  ServersInv'
<1> USE DEF ServersInv, EpollAccepter, choice, clientVars
<1> DEFINE new == LowestFree
           c == Head(backlog)
<1>0. kind = "epoll" /\ pc = "dispatch" /\ events # <<>> /\ Head(events) = Listen
  BY DEF AtEvent
<1>1. /\ events' \in Seq(AllFds)
      /\ events[1] = Listen /\ 1 \in DOMAIN events
      /\ \A j \in DOMAIN events' : /\ j + 1 \in DOMAIN events /\ j \in Nat \ {0}
                                   /\ events'[j] = events[j + 1]
  BY <1>0 DEF TypeOK
<1>2. \A j, k \in DOMAIN events' : events'[j] = events'[k] => j = k
  <2> TAKE j, k \in DOMAIN events'
  <2> HAVE events'[j] = events'[k]
  <2>1. j + 1 = k + 1
    BY <1>1 DEF ListedOnce
  <2> QED BY <1>1, <2>1
<1>3. ASSUME NEW j \in DOMAIN events'
      PROVE  events'[j] \in AllFds /\ events'[j] # Listen /\ Readable(events'[j])
  <2>1. events[j + 1] # Listen
    BY <1>1 DEF ListedOnce
  <2> QED BY <1>0, <1>1, <2>1 DEF NeverBlocks, TypeOK
<1>4. Counts' /\ ListenerFirst' /\ Fresh'
  BY <1>0 DEF Counts, ListenerFirst, Fresh
<1>5. CASE AcceptFails /\ UNCHANGED <<rdlist, watched, stranded>>
  <2> USE <1>5 DEF AcceptFails
  <2>1. TypeOK' /\ OnePlace' /\ Watched'
    BY <1>1 DEF TypeOK, OnePlace, Watched, Open, Opened
  <2>2. ListedOnce'
    BY <1>2 DEF ListedOnce
  <2>3. NeverBlocks'
    BY <1>0, <1>3 DEF NeverBlocks, Readable
  <2> QED BY <1>4, <2>1, <2>2, <2>3
<1>6. CASE /\ FreeFds # {} /\ backlog # <<>>
           /\ owner' = [owner EXCEPT ![LowestFree] = Head(backlog)]
           /\ backlog' = Tail(backlog)
           /\ \/ /\ watched' = watched \cup {LowestFree}
                 /\ rdlist' = IF inbox[Head(backlog)] > 0 \/ Head(backlog) \in gone
                              THEN Append(rdlist, LowestFree) ELSE rdlist
                 /\ UNCHANGED stranded
              \/ /\ stranded' = stranded \cup {Head(backlog)}
                 /\ UNCHANGED <<watched, rdlist>>
           /\ UNCHANGED <<refused, table, result>>
  <2>1. /\ OnePlace'
        /\ owner' \in [AllFds -> Clients \cup {None}] /\ backlog' \in Seq(Clients)
        /\ new \in AllFds \ {Listen} /\ owner[new] = None
        /\ c \in up \ stranded /\ c # None
        /\ \A f \in AllFds : owner[f] # c
        /\ \A f \in AllFds : owner'[f] = IF f = new THEN c ELSE owner[f]
    BY <1>6, AcceptedOnePlace
  <2>2. new \notin watched
    BY <1>0, <2>1 DEF Watched
  <2>3. \/ /\ watched' = watched \cup {new}
           /\ rdlist' = Append(rdlist, new) \/ rdlist' = rdlist
           /\ stranded' = stranded
        \/ /\ stranded' = stranded \cup {c}
           /\ watched' = watched /\ rdlist' = rdlist
    BY <1>6
  <2>4. UNCHANGED <<refused, table, result>>
    BY <1>6
  <2> HIDE DEF new, c, EpollAccepter
  <2>5. UNCHANGED <<kind, limit, up, gone, sent, heard, inbox, slot, pc>>
    BY DEF EpollAccepter
  <2>6. /\ rdlist' \in Seq(AllFds)
        /\ \A j, k \in DOMAIN rdlist' : rdlist'[j] = rdlist'[k] => j = k
        /\ \A j \in DOMAIN rdlist' : rdlist'[j] \in watched'
    <3>0. rdlist \in Seq(AllFds) /\ watched \subseteq watched'
      BY <2>3 DEF TypeOK
    <3>1. CASE rdlist' = rdlist
      BY <3>0, <3>1 DEF ListedOnce
    <3>2. CASE rdlist' = Append(rdlist, new) /\ watched' = watched \cup {new}
      <4>1. /\ rdlist' \in Seq(AllFds)
            /\ DOMAIN rdlist' = (DOMAIN rdlist) \cup {Len(rdlist) + 1}
            /\ \A j \in DOMAIN rdlist : rdlist'[j] = rdlist[j] /\ j # Len(rdlist) + 1
            /\ rdlist'[Len(rdlist) + 1] = new
        BY <2>1, <3>0, <3>2
      <4>2. \A j \in DOMAIN rdlist : rdlist[j] # new
        BY <2>2 DEF ListedOnce
      <4> QED BY <3>2, <4>1, <4>2 DEF ListedOnce
    <3> QED BY <2>3, <3>1, <3>2
  <2>7. Watched'
    BY <1>0, <2>1, <2>2, <2>3, <2>4, <2>5 DEF Watched
  <2>8. ListedOnce'
    BY <1>2, <2>6 DEF ListedOnce
  <2>10. TypeOK'
    <3>1. watched' \subseteq AllFds /\ stranded' \subseteq up
      BY <2>1, <2>3 DEF TypeOK
    <3> QED BY <1>1, <2>1, <2>4, <2>5, <2>6, <3>1 DEF TypeOK
  <2>9. NeverBlocks'
    <3>1. ASSUME NEW j \in DOMAIN events' PROVE Readable(events[j])'
      BY <1>3, <2>1, <2>5 DEF Readable
    <3> QED BY <1>0, <2>5, <3>1 DEF NeverBlocks
  <2> QED BY <1>4, <2>1, <2>7, <2>8, <2>9, <2>10
<1> QED BY <1>5, <1>6

-------------------------------------------------------------------------------
(* Recver.                                                                   *)

LEMMA ReceivedIs ==
  ASSUME ServersInv, NEW f \in AllFds, owner[f] # None, Receive(f), sent' = sent
  PROVE  /\ Counts' /\ owner' = owner
         /\ \A d \in Clients : sent'[d] = heard'[d] + inbox'[d]
         /\ \A d \in Clients : d # owner[f] => inbox'[d] = inbox[d]
<1> USE DEF ServersInv
<1> DEFINE c == owner[f]
           n == IF inbox[c] < RecvSize THEN inbox[c] ELSE RecvSize
<1>1. c \in Clients /\ inbox[c] \in Nat /\ heard[c] \in Nat
  BY DEF TypeOK, Counts
<1>2. n \in Nat /\ n <= inbox[c]
  BY <1>1, ServersAssumption
<1>3. /\ inbox' = [inbox EXCEPT ![c] = @ - n]
      /\ heard' = [heard EXCEPT ![c] = @ + n]
      /\ owner' = owner
  BY DEF Receive
<1> HIDE DEF n, c
<1>4. inbox[c] - n \in Nat /\ heard[c] + n \in Nat
  BY <1>1, <1>2
<1>5. Counts'
  BY <1>1, <1>3, <1>4 DEF Counts
<1>6. \A d \in Clients : d # c => inbox'[d] = inbox[d] /\ heard'[d] = heard[d]
  BY <1>1, <1>3 DEF Counts
<1>7. sent[c] = heard'[c] + inbox'[c]
  <2>1. inbox'[c] = inbox[c] - n /\ heard'[c] = heard[c] + n /\ sent[c] = heard[c] + inbox[c]
    BY <1>1, <1>3 DEF Counts, TypeOK
  <2> QED BY <1>1, <1>2, <2>1
<1> QED BY <1>3, <1>5, <1>6, <1>7 DEF c, TypeOK

LEMMA QuitOnePlace ==
  ASSUME ServersInv, NEW f \in AllFds, owner[f] # None, Quits(f),
         UNCHANGED <<kind, limit, up, backlog, stranded>>
  PROVE  /\ OnePlace' /\ owner' \in [AllFds -> Clients \cup {None}]
         /\ \A g \in AllFds : owner'[g] = IF g = f THEN None ELSE owner[g]
<1> USE DEF ServersInv
<1>1. /\ owner' \in [AllFds -> Clients \cup {None}]
      /\ \A g \in AllFds : owner'[g] = IF g = f THEN None ELSE owner[g]
  BY DEF Quits, TypeOK
<1>2. \A j \in DOMAIN backlog : backlog[j] # None
  BY ServersAssumption DEF TypeOK
<1>3. Opened' = Opened
  BY DEF Opened
<1> QED BY <1>1, <1>2, <1>3 DEF OnePlace, Open

(* The other descriptors are as ready as they were.                          *)
LEMMA OthersStayReady ==
  ASSUME ServersInv, NEW f \in AllFds, owner[f] # None, Receive(f) \/ Quits(f),
         NEW g \in AllFds, g # f, Readable(g), UNCHANGED <<backlog, gone, sent>>
  PROVE  Readable(g)'
<1> USE DEF ServersInv
<1>1. CASE Receive(f)
  <2>1. owner' = owner /\ \A d \in Clients : d # owner[f] => inbox'[d] = inbox[d]
    BY <1>1, ReceivedIs
  <2>2. CASE g = Listen
    BY <2>2 DEF Readable
  <2>3. CASE g # Listen
    <3>1. owner[g] # None /\ owner[g] \in Clients
      BY <2>3 DEF Readable, TypeOK
    <3>2. owner[g] # owner[f]
      BY <3>1 DEF OnePlace, Open
    <3>3. inbox'[owner[g]] = inbox[owner[g]]
      BY <2>1, <3>1, <3>2
    <3> QED BY <2>1, <2>3, <3>3 DEF Readable
  <2> QED BY <2>2, <2>3
<1>2. CASE Quits(f)
  <2>1. owner'[g] = owner[g] /\ inbox' = inbox
    BY <1>2 DEF Quits, TypeOK
  <2> QED BY <2>1 DEF Readable
<1> QED BY <1>1, <1>2

LEMMA TableRecverStep ==
  ASSUME ServersInv, NEW k \in {"select", "poll"}, TableRecver(k)
  PROVE  ServersInv'
<1> USE DEF ServersInv, TableRecver, choice, clientVars
<1> DEFINE s == NextSlot
           f == table[NextSlot]
<1>0. /\ kind = k /\ kind # "epoll" /\ pc = "dispatch" /\ Pending # {}
      /\ f # Listen /\ owner[f] # None
  BY DEF AtSlot
<1>1. Listen \in AllFds /\ defaultfd \notin AllFds /\ 0 \in Slots /\ Slots \subseteq Nat
  BY Descriptors, ServersAssumption DEF TypeOK, Slots
<1>2. s \in Slots /\ s >= slot /\ s \in Nat /\ s < Size /\ s \in Pending
  BY <1>0, NextSlotIsPending
<1>3. f \in AllFds /\ slot' = s + 1 /\ s # 0
  BY <1>0, <1>2 DEF Pending, ReadyAt, TypeOK, ListenerFirst
<1>4. slot' \in 0..Size /\ slot' # 0 /\ slot' > slot
  BY <1>2, <1>3, ServersAssumption DEF TypeOK
<1>5. /\ Receive(f) \/ Quits(f)
      /\ UNCHANGED <<kind, limit, backlog, rdlist, watched, up, gone, sent, refused, stranded,
                     events, pc>>
  OBVIOUS
<1>6. \A j \in Slots : j # s => table[j] # f
  BY <1>1, <1>2, <1>3 DEF Watched
<1>7. ASSUME NEW j \in Slots, j \in Pending, j # s
      PROVE  \A g \in AllFds : g = table[j] => Readable(g)'
  <2> TAKE g \in AllFds
  <2> HAVE g = table[j]
  <2>1. g # f /\ Readable(g)
    BY <1>0, <1>6, <1>7 DEF NeverBlocks
  <2> QED BY <1>0, <1>3, <1>5, <2>1, OthersStayReady
<1>8. CASE Receive(f) /\ UNCHANGED <<table, result>>
  <2>1. /\ Counts' /\ owner' = owner
        /\ \A d \in Clients : sent'[d] = heard'[d] + inbox'[d]
    BY <1>0, <1>3, <1>5, <1>8, ReceivedIs
  <2>2. TypeOK'
    BY <1>4, <1>5, <1>8, <2>1 DEF TypeOK
  <2>3. OnePlace' /\ Watched' /\ ListenerFirst' /\ ListedOnce' /\ Fresh'
    BY <1>4, <1>5, <1>8, <2>1 DEF OnePlace, Watched, ListenerFirst, ListedOnce, Fresh, Open, Opened
  <2>4. NeverBlocks'
    <3> SUFFICES ASSUME NEW j \in Pending' PROVE Readable(table[j])'
      BY <1>0 DEF NeverBlocks
    <3>1. j \in Slots /\ j >= s + 1 /\ table'[j] = table[j] /\ ReadyAt(j)
      BY <1>3, <1>5, <1>8 DEF Pending, ReadyAt
    <3>2. j \in Pending /\ j # s
      BY <1>1, <1>2, <3>1 DEF Pending, TypeOK
    <3>3. table[j] \in AllFds
      BY <3>1 DEF ReadyAt, TypeOK
    <3> QED BY <1>7, <3>1, <3>2, <3>3
  <2> QED BY <2>1, <2>2, <2>3, <2>4
<1>9. CASE Quits(f) /\ Forget(f)
  <2>1. /\ OnePlace' /\ owner' \in [AllFds -> Clients \cup {None}]
        /\ \A g \in AllFds : owner'[g] = IF g = f THEN None ELSE owner[g]
    BY <1>0, <1>3, <1>5, <1>9, QuitOnePlace
  <2>2. \A j \in Slots : table'[j] = IF table[j] = f THEN defaultfd ELSE table[j]
    BY <1>9 DEF Forget
  <2>3. inbox' = inbox /\ heard' = heard
    BY <1>9 DEF Quits
  <2>4. TypeOK'
    <3>1. table' \in [Slots -> AllFds \cup {defaultfd}]
      BY <1>9 DEF Forget, TypeOK
    <3> QED BY <1>4, <1>5, <2>1, <2>3, <3>1 DEF TypeOK
  <2>5. Counts' /\ ListedOnce' /\ Fresh'
    BY <1>4, <1>5, <2>3 DEF Counts, ListedOnce, Fresh
  <2>6. ListenerFirst'
    BY <1>0, <1>1, <1>5, <2>2 DEF ListenerFirst
  <2>7. Watched'
    <3>1. ASSUME NEW g \in AllFds \ {Listen}
          PROVE  (\E j \in Slots : table'[j] = g) <=> owner'[g] # None
      <4>1. CASE g = f
        BY <1>1, <2>1, <2>2, <4>1
      <4>2. CASE g # f
        <5>1. owner'[g] = owner[g]
          BY <2>1, <4>2
        <5>2. (\E j \in Slots : table'[j] = g) <=> (\E j \in Slots : table[j] = g)
          BY <1>1, <2>2, <4>2
        <5> QED BY <1>0, <5>1, <5>2 DEF Watched
      <4> QED BY <4>1, <4>2
    <3>2. \A i, j \in Slots : table'[i] = table'[j] /\ table'[i] # defaultfd => i = j
      BY <2>2 DEF Watched
    <3> QED BY <1>0, <1>5, <3>1, <3>2 DEF Watched
  <2>8. NeverBlocks'
    <3> SUFFICES ASSUME NEW j \in Pending' PROVE Readable(table[j])'
      BY <1>0, <1>5 DEF NeverBlocks
    <3>1. /\ j \in Slots /\ j >= s + 1 /\ table'[j] # defaultfd
          /\ (IF kind = "select" THEN table'[j] ELSE j) \in result'
      BY <1>3, <1>5 DEF Pending, ReadyAt
    <3>2. table'[j] = table[j]
      BY <2>2, <3>1
    <3>3. result' \subseteq result
      BY <1>9 DEF Forget
    <3>4. j # s /\ j >= slot
      BY <1>1, <1>2, <3>1 DEF TypeOK
    <3>5. j \in Pending
      BY <3>1, <3>2, <3>3, <3>4 DEF Pending, ReadyAt
    <3>6. table[j] \in AllFds
      BY <3>1, <3>2 DEF TypeOK
    <3> QED BY <1>7, <3>1, <3>2, <3>4, <3>5, <3>6
  <2> QED BY <2>1, <2>4, <2>5, <2>6, <2>7, <2>8
<1> QED BY <1>8, <1>9

LEMMA EpollRecverStep ==
  ASSUME ServersInv, EpollRecver
  PROVE  ServersInv'
<1> USE DEF ServersInv, EpollRecver, choice, clientVars
<1> DEFINE f == Head(events)
<1>0. kind = "epoll" /\ pc = "dispatch" /\ events # <<>> /\ f # Listen /\ owner[f] # None
  BY DEF AtEvent
<1>1. /\ events' \in Seq(AllFds) /\ f \in AllFds
      /\ events[1] = f /\ 1 \in DOMAIN events
      /\ \A j \in DOMAIN events' : /\ j + 1 \in DOMAIN events /\ j \in Nat \ {0}
                                   /\ events'[j] = events[j + 1]
  BY <1>0 DEF TypeOK
<1>2. \A j, k \in DOMAIN events' : events'[j] = events'[k] => j = k
  <2> TAKE j, k \in DOMAIN events'
  <2> HAVE events'[j] = events'[k]
  <2>1. j + 1 = k + 1
    BY <1>1 DEF ListedOnce
  <2> QED BY <1>1, <2>1
<1>3. /\ Receive(f) \/ Quits(f)
      /\ UNCHANGED <<kind, limit, backlog, up, gone, sent, refused, stranded, table, result,
                     slot, pc>>
  OBVIOUS
<1>4. NeverBlocks'
  <2>1. ASSUME NEW j \in DOMAIN events' PROVE Readable(events[j])'
    <3>1. events[j + 1] # f /\ events[j + 1] \in AllFds /\ Readable(events[j + 1])
      BY <1>0, <1>1 DEF ListedOnce, NeverBlocks, TypeOK
    <3>2. Readable(events[j + 1]) => \A g \in AllFds : g = events[j + 1] => Readable(g)'
      BY <1>0, <1>1, <1>3, <3>1, OthersStayReady
    <3>3. events'[j] = events[j + 1]
      BY <1>1
    <3> QED BY <3>1, <3>2, <3>3 DEF Readable
  <2> QED BY <1>0, <1>3, <2>1 DEF NeverBlocks
<1>5. ListenerFirst' /\ Fresh'
  BY <1>0, <1>3 DEF ListenerFirst, Fresh
<1>6. CASE Receive(f) /\ UNCHANGED <<watched, rdlist>>
  <2>1. /\ Counts' /\ owner' = owner
        /\ \A d \in Clients : sent'[d] = heard'[d] + inbox'[d]
    BY <1>0, <1>1, <1>3, <1>6, ReceivedIs
  <2>2. TypeOK'
    BY <1>1, <1>3, <1>6, <2>1 DEF TypeOK
  <2>3. OnePlace' /\ Watched'
    BY <1>3, <1>6, <2>1 DEF OnePlace, Watched, Open, Opened
  <2>4. ListedOnce'
    BY <1>2, <1>6 DEF ListedOnce
  <2> QED BY <1>4, <1>5, <2>1, <2>2, <2>3, <2>4
<1>7. CASE Quits(f) /\ watched' = watched \ {f} /\ rdlist' = Without(f)
  <2>1. /\ OnePlace' /\ owner' \in [AllFds -> Clients \cup {None}]
        /\ \A g \in AllFds : owner'[g] = IF g = f THEN None ELSE owner[g]
    BY <1>0, <1>1, <1>3, <1>7, QuitOnePlace
  <2>2. inbox' = inbox /\ heard' = heard
    BY <1>7 DEF Quits
  <2>3. /\ rdlist' \in Seq(AllFds) /\ Distinct(rdlist')
        /\ \A j \in DOMAIN rdlist' : rdlist'[j] \in watched'
    BY <1>7, WithoutIs
  <2>4. TypeOK'
    BY <1>1, <1>3, <1>7, <2>1, <2>2, <2>3 DEF TypeOK
  <2>5. Counts'
    BY <1>3, <2>2 DEF Counts
  <2>6. Watched'
    BY <1>0, <1>1, <1>3, <1>7, <2>1 DEF Watched
  <2>7. ListedOnce'
    BY <1>2, <2>3 DEF ListedOnce, Distinct
  <2> QED BY <1>4, <1>5, <2>1, <2>4, <2>5, <2>6, <2>7
<1> QED BY <1>6, <1>7

-------------------------------------------------------------------------------
LEMMA ServersInvStep == ServersInv /\ [Next]_vars => ServersInv'
<1> SUFFICES ASSUME ServersInv, [Next]_vars PROVE ServersInv'
  OBVIOUS
<1>1. ASSUME NEW c \in Clients, Connect(c) \/ Send(c) \/ Leave(c) PROVE ServersInv'
  BY <1>1, ConnectStep, SendStep, LeaveStep
<1>2. ASSUME SelectOverflows \/ SelectWait \/ PollWait \/ EpollWait \/ DispatchDone
      PROVE  ServersInv'
  BY <1>2, SelectWaitStep, PollWaitStep, EpollWaitStep, DispatchDoneStep
<1>3. ASSUME UNCHANGED vars PROVE ServersInv'
  BY <1>3 DEF vars, choice, kernel, clientVars, ServersInv, TypeOK, Counts, OnePlace, Watched,
              ListenerFirst, ListedOnce, Fresh, NeverBlocks, Open, Opened, TableFds, Pending,
              ReadyAt, Readable
<1>4. ASSUME PollFails \/ EpollWaitFails PROVE ServersInv'
  BY <1>3, <1>4 DEF PollFails, EpollWaitFails
<1>5. ASSUME Accepter PROVE ServersInv'
  BY <1>5, TableAccepterStep, EpollAccepterStep DEF Accepter, SelectAccepter, PollAccepter
<1>6. ASSUME Recver PROVE ServersInv'
  BY <1>6, TableRecverStep, EpollRecverStep DEF Recver, SelectRecver, PollRecver
<1> QED BY <1>1, <1>2, <1>3, <1>4, <1>5, <1>6 DEF Next, Server

LEMMA ServersInvHolds == Spec => []ServersInv
BY ServersInvInit, ServersInvStep, PTL DEF Spec

-------------------------------------------------------------------------------
(* The results.                                                              *)

(* Types; and what a client sent is what the server heard and what is still  *)
(* in the socket.                                                           *)
THEOREM TypeCorrect == Spec => []TypeOK
BY ServersInvHolds, PTL DEF ServersInv

(* Each of the three servers watches the listener and every open connection  *)
(* but those whose EPOLL_CTL_ADD failed, each once.                          *)
THEOREM WatchesTheOpenCorrect == Spec => []WatchesTheOpen
<1>1. ServersInv => WatchesTheOpen
  <2> SUFFICES ASSUME ServersInv PROVE WatchesTheOpen
    OBVIOUS
  <2> USE DEF ServersInv
  <2>1. Listen \in AllFds /\ Listen \in Opened /\ defaultfd \notin AllFds /\ owner[Listen] = None
    BY Descriptors DEF TypeOK, OnePlace
  <2>2. Watching \subseteq AllFds
    BY DEF Watching, TableFds, TypeOK
  <2>3. \A f \in AllFds \ {Listen} : f \in Watching <=> owner[f] # None /\ owner[f] \notin stranded
    <3>1. CASE kind = "epoll"
      BY <3>1 DEF Watching, Watched
    <3>2. CASE kind # "epoll"
      BY <2>1, <3>2 DEF Watching, TableFds, Watched, ListenerFirst
    <3> QED BY <3>1, <3>2
  <2>4. Watching \ {Listen} = {f \in Open : owner[f] \notin stranded}
    BY <2>1, <2>2, <2>3 DEF Open
  <2>5. kind # "epoll" => Listen \in Watching
    <3>1. 0 \in Slots
      BY ServersAssumption DEF Slots
    <3> QED BY <2>1, <3>1 DEF Watching, TableFds, ListenerFirst
  <2> QED BY <2>4, <2>5 DEF WatchesTheOpen, Watched
<1> QED BY <1>1, ServersInvHolds, PTL

(* Every entry the Dispatcher has still to look at is ready now, so no        *)
(* accept and no recv blocks.                                                *)
THEOREM NeverBlocksCorrect == Spec => []NeverBlocks
BY ServersInvHolds, PTL DEF ServersInv
================================================================================
