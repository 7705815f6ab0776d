----------------------------- MODULE QueuesProofs -----------------------------
(***************************************************************************)
(* The two queues between the threads of test_03_25, for any number of      *)
(* producers, consumers and items and any capacity.                         *)
(*                                                                         *)
(* RingQueue, on two semaphores: types, no race on a slot, and that it      *)
(* implements BoundedFifo.                                                  *)
(*                                                                         *)
(* BlockQueue, on two condition variables: types and counters, the two      *)
(* no-lost-wakeup invariants (with `while' and with `if'), and, with        *)
(* `while', that it implements BoundedFifo.                                 *)
(***************************************************************************)
EXTENDS BlockQueue, RingQueue, FiniteSetTheorems, TLAPS

-----------------------------------------------------------------------------
(* RingQueue.                                                              *)

(* Producers that took a place and did not fill it; that filled it and did  *)
(* not post it.  Consumers that took a datum and did not read it; that read *)
(* it and did not give the place back.                                      *)
Filling  == At(Producers, {"lock", "access"})
Filled   == At(Producers, {"advance", "V"})
Reading  == At(Consumers, {"lock", "access"})
Freeing  == At(Consumers, {"advance", "V"})

HandSet == \A p \in Producers : pc[p] # "idle" => hand[p] \in Items

MutexHeld ==
    /\ \A p \in Producers : pmutex = p <=> pc[p] \in {"access", "advance"}
    /\ \A c \in Consumers : cmutex = c <=> pc[c] \in {"access", "advance"}

(* The data between the sides: posted, written and not posted, or claimed.  *)
DataCount ==
    Len(sent) = Len(got) + datasem + Cardinality(Filled) + Cardinality(Reading)

(* The places: free, claimed, read and not posted, or holding data.         *)
BlankCount ==
    blanksem + Cardinality(Filling) + Cardinality(Freeing) + Len(sent)
        = Cap + Len(got)

(* The indices follow the number of items written and read; the thread     *)
(* between the access and `++_step' is one item ahead of its index.         *)
ProducerIndex ==
    /\ (\E p \in Producers : pc[p] = "advance")
          => Len(sent) > 0 /\ pstep = (Len(sent) - 1) % Cap
    /\ (\A p \in Producers : pc[p] # "advance") => pstep = Len(sent) % Cap

ConsumerIndex ==
    /\ (\E c \in Consumers : pc[c] = "advance")
          => Len(got) > 0 /\ cstep = (Len(got) - 1) % Cap
    /\ (\A c \in Consumers : pc[c] # "advance") => cstep = Len(got) % Cap

(* Each item written and not yet read is in its slot.                       *)
Slots ==
    \A k \in Nat : Len(got) < k /\ k <= Len(sent) => rq[(k - 1) % Cap] = sent[k]

RingInv ==
    /\ RingTypeOK
    /\ HandSet
    /\ MutexHeld
    /\ DataCount
    /\ BlankCount
    /\ ProducerIndex
    /\ ConsumerIndex
    /\ Slots

-------------------------------------------------------------------------------
(* Arithmetic of the ring.                                                 *)

(* Division with remainder, as the provers know it.                         *)
LEMMA Division ==
  ASSUME NEW a \in Nat, NEW n \in Nat \ {0}
  PROVE  /\ a = n * (a \div n) + (a % n)
         /\ a % n \in 0..(n - 1)
         /\ a \div n \in Nat
  OBVIOUS

(* A multiple of n smaller than n is zero.                                  *)
LEMMA SmallMultiple ==
  ASSUME NEW n \in Nat \ {0}, NEW k \in Int, NEW r \in Int, r < n, -n < r, n * k = r
  PROVE  k = 0 /\ r = 0
<1>1. CASE k >= 1
  <2>1. n * k >= n
    BY <1>1
  <2> QED BY <2>1
<1>2. CASE k <= -1
  <2>1. n * k <= -n
    BY <1>2
  <2> QED BY <2>1
<1>3. CASE k = 0
  BY <1>3
<1> QED BY <1>1, <1>2, <1>3

(* Fewer than n places apart, two positions are two slots.                  *)
LEMMA SlotsDiffer ==
  ASSUME NEW n \in Nat \ {0}, NEW a \in Nat, NEW b \in Nat, a < b, b - a < n
  PROVE  a % n # b % n
<1> SUFFICES ASSUME a % n = b % n PROVE FALSE
  OBVIOUS
<1> DEFINE j == a \div n
           k == b \div n
<1>1. a = n * j + (a % n) /\ b = n * k + (a % n) /\ j \in Nat /\ k \in Nat
  BY Division
<1>2. n * (k - j) = b - a
  <2>1. a % n \in Int /\ n * j \in Int /\ n * k \in Int
    BY <1>1, Division
  <2>2. n * (k - j) = n * k - n * j
    BY <1>1
  <2> HIDE DEF j, k
  <2> QED BY <1>1, <2>1, <2>2
<1>3. b - a = 0
  <2>1. k - j \in Int /\ b - a \in Int /\ -n < b - a
    BY <1>1
  <2> HIDE DEF j, k
  <2> QED BY <1>2, <2>1, SmallMultiple
<1> QED BY <1>3

(* Advancing an index modulo n advances the position.                       *)
LEMMA StepAdvances ==
  ASSUME NEW n \in Nat \ {0}, NEW a \in Nat
  PROVE  ((a % n) + 1) % n = (a + 1) % n
<1> DEFINE j == a \div n
           r == a % n
<1>1. a = n * j + r /\ r \in 0..(n - 1) /\ j \in Nat
  BY Division
<1>2. CASE r + 1 < n
  <2>1. (r + 1) % n = r + 1
    BY <1>1, <1>2
  <2> DEFINE s == (a + 1) % n
             k == (a + 1) \div n
  <2>2. a + 1 = n * k + s /\ s \in 0..(n - 1) /\ k \in Nat
    <3>1. a + 1 \in Nat
      OBVIOUS
    <3> QED BY <3>1, Division
  <2>3. n * (k - j) = r + 1 - s
    <3>1. n * (k - j) = n * k - n * j /\ n * k \in Int /\ n * j \in Int
      BY <1>1, <2>2
    <3> HIDE DEF j, k, r, s
    <3> QED BY <1>1, <2>2, <3>1
  <2>4. r + 1 - s = 0
    <3>1. k - j \in Int /\ r + 1 - s \in Int /\ r + 1 - s < n /\ -n < r + 1 - s
      BY <1>1, <1>2, <2>2
    <3> HIDE DEF j, k, r, s
    <3> QED BY <2>3, <3>1, SmallMultiple
  <2> QED BY <1>1, <2>1, <2>2, <2>4
<1>3. CASE r + 1 = n
  <2>1. (r + 1) % n = 0
    BY <1>3
  <2> DEFINE s == (a + 1) % n
             k == (a + 1) \div n
  <2>2. a + 1 = n * k + s /\ s \in 0..(n - 1) /\ k \in Nat
    <3>1. a + 1 \in Nat
      OBVIOUS
    <3> QED BY <3>1, Division
  <2>3. n * ((j + 1) - k) = s
    <3>1. n * ((j + 1) - k) = n * j + n - n * k /\ n * k \in Int /\ n * j \in Int
      BY <1>1, <2>2
    <3> HIDE DEF j, k, r, s
    <3> QED BY <1>1, <1>3, <2>2, <3>1
  <2>4. s = 0
    <3>1. (j + 1) - k \in Int /\ s \in Int /\ s < n /\ -n < s
      BY <1>1, <2>2
    <3> HIDE DEF j, k, r, s
    <3> QED BY <2>3, <3>1, SmallMultiple
  <2> QED BY <2>1, <2>4
<1> QED BY <1>1, <1>2, <1>3

-------------------------------------------------------------------------------
(* Counting threads at a place.                                            *)

(* The threads at a place can be counted.                                   *)
LEMMA AtFinite ==
  ASSUME NEW S, IsFiniteSet(S), NEW places
  PROVE  IsFiniteSet(At(S, places)) /\ Cardinality(At(S, places)) \in Nat
  BY FS_Subset, FS_CardinalityType DEF At

(* A thread that comes to a place adds one to it ...                        *)
LEMMA AtEnter ==
  ASSUME RingTypeOK, NEW S \in SUBSET (Producers \cup Consumers), IsFiniteSet(S),
         NEW places, NEW t \in S, NEW to,
         pc' = [pc EXCEPT ![t] = to], pc[t] \notin places, to \in places
  PROVE  Cardinality(At(S, places)') = Cardinality(At(S, places)) + 1
<1>1. At(S, places)' = At(S, places) \cup {t} /\ t \notin At(S, places)
  BY DEF At, RingTypeOK
<1> QED BY <1>1, AtFinite, FS_AddElement

(* ... one that leaves takes one away from a positive number ...            *)
LEMMA AtLeave ==
  ASSUME RingTypeOK, NEW S \in SUBSET (Producers \cup Consumers), IsFiniteSet(S),
         NEW places, NEW t \in S, NEW to,
         pc' = [pc EXCEPT ![t] = to], pc[t] \in places, to \notin places
  PROVE  /\ Cardinality(At(S, places)') = Cardinality(At(S, places)) - 1
         /\ Cardinality(At(S, places)) > 0
<1>1. At(S, places)' = At(S, places) \ {t} /\ t \in At(S, places)
  BY DEF At, RingTypeOK
<1>2. IsFiniteSet(At(S, places)) /\ Cardinality(At(S, places)) \in Nat
  BY AtFinite
<1>3. Cardinality(At(S, places)) # 0
  BY <1>1, <1>2, FS_EmptySet
<1>4. Cardinality(At(S, places) \ {t}) = Cardinality(At(S, places)) - 1
  BY <1>1, <1>2, FS_RemoveElement
<1> QED BY <1>1, <1>2, <1>3, <1>4

(* ... as a producer does, and a consumer, of the threads of its side ...   *)
LEMMA ProducerLeaves ==
  ASSUME RingTypeOK, NEW places, NEW p \in Producers, NEW to,
         pc' = [pc EXCEPT ![p] = to], pc[p] \in places, to \notin places
  PROVE  Cardinality(At(Producers, places)') = Cardinality(At(Producers, places)) - 1
<1>1. Producers \in SUBSET (Producers \cup Consumers) /\ IsFiniteSet(Producers)
  BY QueueAssumption, RingAssumption
<1> QED BY <1>1, AtLeave

(* A consumer leaving takes one away from the consumers at the place.       *)
LEMMA ConsumerLeaves ==
  ASSUME RingTypeOK, NEW places, NEW c \in Consumers, NEW to,
         pc' = [pc EXCEPT ![c] = to], pc[c] \in places, to \notin places
  PROVE  Cardinality(At(Consumers, places)') = Cardinality(At(Consumers, places)) - 1
<1>1. Consumers \in SUBSET (Producers \cup Consumers) /\ IsFiniteSet(Consumers)
  BY QueueAssumption, RingAssumption
<1> QED BY <1>1, AtLeave

(* ... and any other move leaves the place as it was.                       *)
LEMMA AtKeep ==
  ASSUME RingTypeOK, NEW S \in SUBSET (Producers \cup Consumers), NEW places,
         NEW t \in Producers \cup Consumers, NEW to,
         pc' = [pc EXCEPT ![t] = to],
         t \notin S \/ (pc[t] \in places <=> to \in places)
  PROVE  At(S, places)' = At(S, places)
  BY DEF At, RingTypeOK

-------------------------------------------------------------------------------
(* What the accounting says of a thread inside the ring.                   *)

(* All the counts of the accounting are natural numbers.                    *)
LEMMA Numbers ==
  ASSUME RingTypeOK
  PROVE  /\ Len(sent) \in Nat /\ Len(got) \in Nat
         /\ IsFiniteSet(Filling) /\ Cardinality(Filling) \in Nat
         /\ IsFiniteSet(Filled) /\ Cardinality(Filled) \in Nat
         /\ IsFiniteSet(Reading) /\ Cardinality(Reading) \in Nat
         /\ IsFiniteSet(Freeing) /\ Cardinality(Freeing) \in Nat
  BY QueueAssumption, RingAssumption, AtFinite DEF RingTypeOK, Filling, Filled, Reading, Freeing

(* The histories are never more than _cap apart.                            *)
LEMMA Occupied ==
  ASSUME RingInv
  PROVE  Len(got) <= Len(sent) /\ Len(sent) <= Len(got) + Cap
  BY Numbers, QueueAssumption, RingAssumption DEF RingInv, DataCount, BlankCount, RingTypeOK

(* A producer that holds a place finds one free ...                         *)
LEMMA RoomToFill ==
  ASSUME RingInv, NEW p \in Producers, pc[p] \in {"lock", "access"}
  PROVE  Len(sent) < Len(got) + Cap
<1>1. p \in Filling
  BY DEF Filling, At
<1>2. Cardinality(Filling) # 0
  BY <1>1, Numbers, FS_EmptySet DEF RingInv
<1> QED BY <1>2, Numbers, QueueAssumption, RingAssumption DEF RingInv, BlankCount, RingTypeOK

(* ... and a consumer that claimed a datum finds one written.               *)
LEMMA DataToRead ==
  ASSUME RingInv, NEW c \in Consumers, pc[c] \in {"lock", "access"}
  PROVE  Len(got) < Len(sent)
<1>1. c \in Reading
  BY DEF Reading, At
<1>2. Cardinality(Reading) # 0
  BY <1>1, Numbers, FS_EmptySet DEF RingInv
<1> QED BY <1>2, Numbers, QueueAssumption, RingAssumption DEF RingInv, DataCount, RingTypeOK

(* The thread inside finds its index where the history says.                *)
LEMMA ProducerAtIndex ==
  ASSUME RingInv, NEW p \in Producers, pc[p] = "access"
  PROVE  pstep = Len(sent) % Cap
<1>1. \A r \in Producers : pc[r] # "advance"
  BY QueueAssumption, RingAssumption DEF RingInv, MutexHeld
<1> QED BY <1>1 DEF RingInv, ProducerIndex

(* The consumer inside finds _c_step at the number of items read, modulo    *)
(* _cap.                                                                    *)
LEMMA ConsumerAtIndex ==
  ASSUME RingInv, NEW c \in Consumers, pc[c] = "access"
  PROVE  cstep = Len(got) % Cap
<1>1. \A d \in Consumers : pc[d] # "advance"
  BY QueueAssumption, RingAssumption DEF RingInv, MutexHeld
<1> QED BY <1>1 DEF RingInv, ConsumerIndex

(* What a consumer reads is the oldest item not yet read.                   *)
LEMMA ReadsOldest ==
  ASSUME RingInv, NEW c \in Consumers, pc[c] = "access"
  PROVE  rq[cstep] = sent[Len(got) + 1] /\ rq[cstep] \in Items
<1>1. Len(got) < Len(sent) /\ cstep = Len(got) % Cap
  BY DataToRead, ConsumerAtIndex
<1>2. Len(got) + 1 \in Nat /\ (Len(got) + 1) - 1 = Len(got)
      /\ Len(got) + 1 <= Len(sent) /\ Len(got) < Len(got) + 1
  BY <1>1, Numbers DEF RingInv
<1>3. rq[cstep] = sent[Len(got) + 1]
  BY <1>1, <1>2 DEF RingInv, Slots
<1>4. sent[Len(got) + 1] \in Items
  BY <1>2 DEF RingInv, RingTypeOK
<1> QED BY <1>3, <1>4

-------------------------------------------------------------------------------
(* Every step keeps RingInv.  First the steps that touch neither the ring   *)
(* nor the counts.                                                          *)

(* A step that moves thread t without crossing the border of a counted set. *)
LEMMA SameCounts ==
  ASSUME RingInv, NEW t \in Producers \cup Consumers, NEW to,
         pc' = [pc EXCEPT ![t] = to],
         pc[t] \in {"lock", "access"} <=> to \in {"lock", "access"},
         pc[t] \in {"advance", "V"} <=> to \in {"advance", "V"}
  PROVE  UNCHANGED <<Filling, Filled, Reading, Freeing>>
  BY AtKeep DEF RingInv, Filling, Filled, Reading, Freeing

(* A producer that gets an item keeps the accounting.                       *)
LEMMA ProduceStep ==
  ASSUME RingInv, NEW p \in Producers, NEW x \in Items, RingProduce(p, x)
  PROVE  RingInv'
<1> USE DEF RingProduce, RingInv
<1>1. UNCHANGED <<Filling, Filled, Reading, Freeing>>
  BY SameCounts
<1>2. DataCount' /\ BlankCount'
  BY <1>1 DEF DataCount, BlankCount
<1>3. RingTypeOK'
  BY DEF RingTypeOK, PC
<1>4. HandSet' /\ MutexHeld'
  BY QueueAssumption, RingAssumption DEF RingTypeOK, HandSet, MutexHeld
<1>5. ProducerIndex' /\ ConsumerIndex' /\ Slots'
  BY QueueAssumption, RingAssumption
     DEF RingTypeOK, ProducerIndex, ConsumerIndex, Slots
<1> QED BY <1>2, <1>3, <1>4, <1>5

(* P on _blank_sem turns a blank into a place being filled.                 *)
LEMMA BlankPStep ==
  ASSUME RingInv, NEW p \in Producers, BlankP(p)
  PROVE  RingInv'
<1> USE DEF BlankP, RingInv
<1>1. Cardinality(Filling') = Cardinality(Filling) + 1
  BY QueueAssumption, RingAssumption, AtEnter DEF Filling
<1>2. UNCHANGED <<Filled, Reading, Freeing>>
  BY QueueAssumption, RingAssumption, AtKeep DEF Filled, Reading, Freeing
<1>3. DataCount'
  BY <1>2 DEF DataCount
<1>4. BlankCount'
  BY <1>1, <1>2, Numbers, QueueAssumption, RingAssumption DEF BlankCount, RingTypeOK
<1>5. RingTypeOK'
  BY DEF RingTypeOK, PC
<1>6. HandSet' /\ MutexHeld'
  BY QueueAssumption, RingAssumption DEF RingTypeOK, HandSet, MutexHeld
<1>7. ProducerIndex' /\ ConsumerIndex' /\ Slots'
  BY QueueAssumption, RingAssumption
     DEF RingTypeOK, ProducerIndex, ConsumerIndex, Slots
<1> QED BY <1>3, <1>4, <1>5, <1>6, <1>7

(* Taking _p_mutex keeps the accounting, and one producer inside.           *)
LEMMA ProducerLockStep ==
  ASSUME RingInv, NEW p \in Producers, ProducerLock(p)
  PROVE  RingInv'
<1> USE DEF ProducerLock, RingInv
<1>1. UNCHANGED <<Filling, Filled, Reading, Freeing>>
  BY SameCounts
<1>2. DataCount' /\ BlankCount'
  BY <1>1 DEF DataCount, BlankCount
<1>3. RingTypeOK'
  BY DEF RingTypeOK, PC
<1>4. HandSet' /\ MutexHeld'
  BY QueueAssumption, RingAssumption DEF RingTypeOK, HandSet, MutexHeld
<1>5. ProducerIndex' /\ ConsumerIndex' /\ Slots'
  BY QueueAssumption, RingAssumption
     DEF RingTypeOK, ProducerIndex, ConsumerIndex, Slots
<1> QED BY <1>2, <1>3, <1>4, <1>5

(* V on _data_sem turns a filled place into a datum.                        *)
LEMMA DataVStep ==
  ASSUME RingInv, NEW p \in Producers, DataV(p)
  PROVE  RingInv'
<1>a. RingTypeOK /\ pc[p] = "V" /\ pc' = [pc EXCEPT ![p] = "idle"]
  BY DEF DataV, RingInv
<1>b. Cardinality(Filled') = Cardinality(Filled) - 1
  BY <1>a, ProducerLeaves DEF Filled
<1> USE DEF DataV, RingInv
<1>1. Cardinality(Filled') = Cardinality(Filled) - 1
  BY <1>b
<1>2. UNCHANGED <<Filling, Reading, Freeing>>
  BY QueueAssumption, RingAssumption, AtKeep DEF Filling, Reading, Freeing
<1>3. DataCount'
  BY <1>1, <1>2, Numbers, QueueAssumption, RingAssumption DEF DataCount, RingTypeOK
<1>4. BlankCount'
  BY <1>2 DEF BlankCount
<1>5. RingTypeOK'
  BY DEF RingTypeOK, PC
<1>6. HandSet' /\ MutexHeld'
  BY QueueAssumption, RingAssumption DEF RingTypeOK, HandSet, MutexHeld
<1>7. ProducerIndex' /\ ConsumerIndex' /\ Slots'
  BY QueueAssumption, RingAssumption
     DEF RingTypeOK, ProducerIndex, ConsumerIndex, Slots
<1> QED BY <1>3, <1>4, <1>5, <1>6, <1>7

(* P on _data_sem turns a datum into a place being read.                    *)
LEMMA DataPStep ==
  ASSUME RingInv, NEW c \in Consumers, DataP(c)
  PROVE  RingInv'
<1> USE DEF DataP, RingInv
<1>1. Cardinality(Reading') = Cardinality(Reading) + 1
  BY QueueAssumption, RingAssumption, AtEnter DEF Reading
<1>2. UNCHANGED <<Filling, Filled, Freeing>>
  BY QueueAssumption, RingAssumption, AtKeep DEF Filling, Filled, Freeing
<1>3. DataCount'
  BY <1>1, <1>2, Numbers, QueueAssumption, RingAssumption DEF DataCount, RingTypeOK
<1>4. BlankCount'
  BY <1>2 DEF BlankCount
<1>5. RingTypeOK'
  BY DEF RingTypeOK, PC
<1>6. HandSet' /\ MutexHeld'
  BY QueueAssumption, RingAssumption DEF RingTypeOK, HandSet, MutexHeld
<1>7. ProducerIndex' /\ ConsumerIndex' /\ Slots'
  BY QueueAssumption, RingAssumption
     DEF RingTypeOK, ProducerIndex, ConsumerIndex, Slots
<1> QED BY <1>3, <1>4, <1>5, <1>6, <1>7

(* Taking _c_mutex keeps the accounting, and one consumer inside.           *)
LEMMA ConsumerLockStep ==
  ASSUME RingInv, NEW c \in Consumers, ConsumerLock(c)
  PROVE  RingInv'
<1> USE DEF ConsumerLock, RingInv
<1>1. UNCHANGED <<Filling, Filled, Reading, Freeing>>
  BY SameCounts
<1>2. DataCount' /\ BlankCount'
  BY <1>1 DEF DataCount, BlankCount
<1>3. RingTypeOK'
  BY DEF RingTypeOK, PC
<1>4. HandSet' /\ MutexHeld'
  BY QueueAssumption, RingAssumption DEF RingTypeOK, HandSet, MutexHeld
<1>5. ProducerIndex' /\ ConsumerIndex' /\ Slots'
  BY QueueAssumption, RingAssumption
     DEF RingTypeOK, ProducerIndex, ConsumerIndex, Slots
<1> QED BY <1>2, <1>3, <1>4, <1>5

(* V on _blank_sem turns a read place into a blank.                         *)
LEMMA BlankVStep ==
  ASSUME RingInv, NEW c \in Consumers, BlankV(c)
  PROVE  RingInv'
<1>a. RingTypeOK /\ pc[c] = "V" /\ pc' = [pc EXCEPT ![c] = "idle"]
  BY DEF BlankV, RingInv
<1>b. Cardinality(Freeing') = Cardinality(Freeing) - 1
  BY <1>a, ConsumerLeaves DEF Freeing
<1> USE DEF BlankV, RingInv
<1>1. Cardinality(Freeing') = Cardinality(Freeing) - 1
  BY <1>b
<1>2. UNCHANGED <<Filling, Filled, Reading>>
  BY QueueAssumption, RingAssumption, AtKeep DEF Filling, Filled, Reading
<1>3. DataCount'
  BY <1>2 DEF DataCount
<1>4. BlankCount'
  BY <1>1, <1>2, Numbers, QueueAssumption, RingAssumption DEF BlankCount, RingTypeOK
<1>5. RingTypeOK'
  BY DEF RingTypeOK, PC
<1>6. HandSet' /\ MutexHeld'
  BY QueueAssumption, RingAssumption DEF RingTypeOK, HandSet, MutexHeld
<1>7. ProducerIndex' /\ ConsumerIndex' /\ Slots'
  BY QueueAssumption, RingAssumption
     DEF RingTypeOK, ProducerIndex, ConsumerIndex, Slots
<1> QED BY <1>3, <1>4, <1>5, <1>6, <1>7

-------------------------------------------------------------------------------
(* The accesses.                                                           *)

(* A producer writes into a slot that holds nothing still to be read.       *)
LEMMA WriteSlotStep ==
  ASSUME RingInv, NEW p \in Producers, WriteSlot(p)
  PROVE  RingInv'
<1>a. RingTypeOK /\ pc[p] = "access" /\ pc' = [pc EXCEPT ![p] = "advance"]
  BY DEF WriteSlot, RingInv
<1>b. Cardinality(Filling') = Cardinality(Filling) - 1
  BY <1>a, ProducerLeaves DEF Filling
<1> USE DEF WriteSlot, RingInv
<1>0. /\ pstep = Len(sent) % Cap
      /\ Len(sent) < Len(got) + Cap
      /\ Len(sent) \in Nat /\ Len(got) \in Nat
      /\ hand[p] \in Items
  BY ProducerAtIndex, RoomToFill, Numbers DEF HandSet
<1>1. Len(sent') = Len(sent) + 1 /\ sent'[Len(sent) + 1] = hand[p]
      /\ \A k \in 1..Len(sent) : sent'[k] = sent[k]
  BY <1>0 DEF RingTypeOK
<1>2. Cardinality(Filling') = Cardinality(Filling) - 1
  BY <1>b
<1>3. Cardinality(Filled') = Cardinality(Filled) + 1
  BY QueueAssumption, RingAssumption, AtEnter DEF Filled
<1>4. UNCHANGED <<Reading, Freeing>>
  BY QueueAssumption, RingAssumption, AtKeep DEF Reading, Freeing
<1>5. DataCount'
  BY <1>0, <1>1, <1>3, <1>4, Numbers DEF DataCount, RingTypeOK
<1>6. BlankCount'
  <2>1. /\ blanksem \in Nat /\ Cap \in Nat /\ Len(sent) \in Nat /\ Len(got) \in Nat
        /\ Cardinality(Filling) \in Nat /\ Cardinality(Freeing) \in Nat
    BY Numbers, QueueAssumption, RingAssumption DEF RingTypeOK
  <2>2. blanksem + Cardinality(Filling) + Cardinality(Freeing) + Len(sent)
          = Cap + Len(got)
    BY DEF BlankCount
  <2>3. blanksem' + (Cardinality(Filling) - 1) + Cardinality(Freeing)
          + (Len(sent) + 1) = Cap + Len(got)
    <3>1. blanksem' = blanksem
      OBVIOUS
    <3> HIDE DEF WriteSlot, RingInv
    <3> QED BY <2>1, <2>2, <3>1
  <2>4. got' = got
    OBVIOUS
  <2> QED BY <1>1, <1>2, <1>4, <2>3, <2>4 DEF BlankCount
<1>7. RingTypeOK'
  BY <1>0 DEF RingTypeOK, PC
<1>8. HandSet' /\ MutexHeld'
  BY QueueAssumption, RingAssumption DEF RingTypeOK, HandSet, MutexHeld
<1>9. ProducerIndex'
  <2>1. Len(sent') > 0 /\ pstep' = (Len(sent') - 1) % Cap
    BY <1>0, <1>1
  <2>2. pc'[p] = "advance"
    BY DEF RingTypeOK
  <2> QED BY <2>1, <2>2 DEF ProducerIndex
<1>10. ConsumerIndex'
  BY QueueAssumption, RingAssumption DEF RingTypeOK, ConsumerIndex
<1>11. Slots'
  <2> SUFFICES ASSUME NEW k \in Nat, Len(got) < k, k <= Len(sent')
               PROVE  rq'[(k - 1) % Cap] = sent'[k]
    BY DEF Slots
  <2>1. CASE k = Len(sent) + 1
    BY <1>0, <1>1, <2>1 DEF RingTypeOK
  <2>2. CASE k # Len(sent) + 1
    <3>1. k - 1 \in Nat /\ k - 1 < Len(sent) /\ Len(sent) - (k - 1) < Cap
          /\ k \in 1..Len(sent)
      BY <1>0, <1>1, <2>2, QueueAssumption, RingAssumption
    <3>2. (k - 1) % Cap # pstep
      BY <1>0, <3>1, SlotsDiffer, QueueAssumption, RingAssumption
    <3>3. rq'[(k - 1) % Cap] = rq[(k - 1) % Cap]
      BY <3>1, <3>2, Division, QueueAssumption, RingAssumption DEF RingTypeOK, Slot
    <3>4. rq[(k - 1) % Cap] = sent[k]
      BY <3>1 DEF Slots
    <3> QED BY <1>1, <3>1, <3>3, <3>4
  <2> QED BY <2>1, <2>2
<1> QED BY <1>5, <1>6, <1>7, <1>8, <1>9, <1>10, <1>11

(* A consumer reads the oldest item and nobody is writing that slot.        *)
LEMMA ReadSlotStep ==
  ASSUME RingInv, NEW c \in Consumers, ReadSlot(c)
  PROVE  RingInv'
<1>a. RingTypeOK /\ pc[c] = "access" /\ pc' = [pc EXCEPT ![c] = "advance"]
  BY DEF ReadSlot, RingInv
<1>b. Cardinality(Reading') = Cardinality(Reading) - 1
  BY <1>a, ConsumerLeaves DEF Reading
<1> USE DEF ReadSlot, RingInv
<1>0. /\ cstep = Len(got) % Cap
      /\ Len(got) < Len(sent)
      /\ Len(sent) \in Nat /\ Len(got) \in Nat
      /\ rq[cstep] \in Items
  BY ConsumerAtIndex, DataToRead, ReadsOldest, Numbers
<1>1. Len(got') = Len(got) + 1
  BY <1>0 DEF RingTypeOK
<1>2. Cardinality(Reading') = Cardinality(Reading) - 1
  BY <1>b
<1>3. Cardinality(Freeing') = Cardinality(Freeing) + 1
  BY QueueAssumption, RingAssumption, AtEnter DEF Freeing
<1>4. UNCHANGED <<Filling, Filled>>
  BY QueueAssumption, RingAssumption, AtKeep DEF Filling, Filled
<1>5. DataCount'
  BY <1>0, <1>1, <1>2, <1>4, Numbers DEF DataCount, RingTypeOK
<1>6. BlankCount'
  <2>1. /\ blanksem \in Nat /\ Cap \in Nat /\ Len(sent) \in Nat /\ Len(got) \in Nat
        /\ Cardinality(Filling) \in Nat /\ Cardinality(Freeing) \in Nat
    BY Numbers, QueueAssumption, RingAssumption DEF RingTypeOK
  <2>2. blanksem + Cardinality(Filling) + Cardinality(Freeing) + Len(sent)
          = Cap + Len(got)
    BY DEF BlankCount
  <2>3. blanksem' + Cardinality(Filling) + (Cardinality(Freeing) + 1) + Len(sent')
          = Cap + (Len(got) + 1)
    BY <2>1, <2>2
  <2> QED BY <1>1, <1>3, <1>4, <2>3 DEF BlankCount
<1>7. RingTypeOK'
  BY <1>0 DEF RingTypeOK, PC
<1>8. HandSet' /\ MutexHeld'
  BY QueueAssumption, RingAssumption DEF RingTypeOK, HandSet, MutexHeld
<1>9. ConsumerIndex'
  <2>1. Len(got') > 0 /\ cstep' = (Len(got') - 1) % Cap
    BY <1>0, <1>1
  <2>2. pc'[c] = "advance"
    BY DEF RingTypeOK
  <2> QED BY <2>1, <2>2 DEF ConsumerIndex
<1>10. ProducerIndex'
  BY QueueAssumption, RingAssumption DEF RingTypeOK, ProducerIndex
<1>11. Slots'
  BY <1>0, <1>1 DEF Slots
<1> QED BY <1>5, <1>6, <1>7, <1>8, <1>9, <1>10, <1>11

-------------------------------------------------------------------------------
(* The advances of the two indices.                                        *)

(* _p_step moves to the next slot, wrapping at _cap.                        *)
LEMMA ProducerAdvanceStep ==
  ASSUME RingInv, NEW p \in Producers, ProducerAdvance(p)
  PROVE  RingInv'
<1> USE DEF ProducerAdvance, RingInv
<1>1. UNCHANGED <<Filling, Filled, Reading, Freeing>>
  BY SameCounts
<1>2. DataCount' /\ BlankCount'
  BY <1>1 DEF DataCount, BlankCount
<1>3. Len(sent) \in Nat /\ Len(sent) > 0 /\ pstep = (Len(sent) - 1) % Cap
  BY Numbers DEF ProducerIndex
<1>4. pstep' = Len(sent) % Cap
  <2>1. Len(sent) - 1 \in Nat /\ (Len(sent) - 1) + 1 = Len(sent)
    BY <1>3
  <2> QED BY <1>3, <2>1, StepAdvances, QueueAssumption, RingAssumption DEF NextStep
<1>5. pstep' \in Slot
  BY <1>3, <1>4, Division, QueueAssumption, RingAssumption DEF Slot
<1>6. RingTypeOK'
  BY <1>5 DEF RingTypeOK, PC
<1>7. HandSet' /\ MutexHeld'
  BY QueueAssumption, RingAssumption DEF RingTypeOK, HandSet, MutexHeld
<1>8. \A r \in Producers : pc'[r] # "advance"
  BY QueueAssumption, RingAssumption DEF MutexHeld, RingTypeOK
<1>9. ProducerIndex' /\ ConsumerIndex' /\ Slots'
  BY <1>4, <1>8, QueueAssumption, RingAssumption
     DEF RingTypeOK, ProducerIndex, ConsumerIndex, Slots
<1> QED BY <1>2, <1>6, <1>7, <1>9

(* _c_step moves to the next slot, wrapping at _cap.                        *)
LEMMA ConsumerAdvanceStep ==
  ASSUME RingInv, NEW c \in Consumers, ConsumerAdvance(c)
  PROVE  RingInv'
<1> USE DEF ConsumerAdvance, RingInv
<1>1. UNCHANGED <<Filling, Filled, Reading, Freeing>>
  BY SameCounts
<1>2. DataCount' /\ BlankCount'
  BY <1>1 DEF DataCount, BlankCount
<1>3. Len(got) \in Nat /\ Len(got) > 0 /\ cstep = (Len(got) - 1) % Cap
  BY Numbers DEF ConsumerIndex
<1>4. cstep' = Len(got) % Cap
  <2>1. Len(got) - 1 \in Nat /\ (Len(got) - 1) + 1 = Len(got)
    BY <1>3
  <2> QED BY <1>3, <2>1, StepAdvances, QueueAssumption, RingAssumption DEF NextStep
<1>5. cstep' \in Slot
  BY <1>3, <1>4, Division, QueueAssumption, RingAssumption DEF Slot
<1>6. RingTypeOK'
  BY <1>5 DEF RingTypeOK, PC
<1>7. HandSet' /\ MutexHeld'
  BY QueueAssumption, RingAssumption DEF RingTypeOK, HandSet, MutexHeld
<1>8. \A d \in Consumers : pc'[d] # "advance"
  BY QueueAssumption, RingAssumption DEF MutexHeld, RingTypeOK
<1>9. ProducerIndex' /\ ConsumerIndex' /\ Slots'
  BY <1>4, <1>8, QueueAssumption, RingAssumption
     DEF RingTypeOK, ProducerIndex, ConsumerIndex, Slots
<1> QED BY <1>2, <1>6, <1>7, <1>9

-------------------------------------------------------------------------------
(* The theorems.                                                           *)

(* A new ring is all blanks.                                                *)
LEMMA RingInvInit == RingInit => RingInv
<1> SUFFICES ASSUME RingInit PROVE RingInv
  OBVIOUS
<1>1. RingTypeOK
  <2>1. /\ rq \in [Slot -> Items \cup {None}]
        /\ pc \in [Producers \cup Consumers -> PC]
        /\ hand \in [Producers -> Items \cup {None}]
    BY DEF RingInit, PC
  <2>2. sent \in Seq(Items) /\ got \in Seq(Items) /\ 0 \in Slot
    BY QueueAssumption, RingAssumption DEF RingInit, Slot
  <2> QED BY <2>1, <2>2, QueueAssumption, RingAssumption DEF RingInit, RingTypeOK
<1>2. HandSet /\ MutexHeld
  BY QueueAssumption, RingAssumption DEF RingInit, HandSet, MutexHeld
<1>3. Filling = {} /\ Filled = {} /\ Reading = {} /\ Freeing = {}
  BY DEF RingInit, Filling, Filled, Reading, Freeing, At
<1>4. DataCount /\ BlankCount
  BY <1>3, FS_EmptySet, QueueAssumption, RingAssumption
     DEF RingInit, DataCount, BlankCount
<1>5. 0 % Cap = 0
  BY QueueAssumption, RingAssumption
<1>6. ProducerIndex /\ ConsumerIndex /\ Slots
  BY <1>5 DEF RingInit, ProducerIndex, ConsumerIndex, Slots
<1> QED BY <1>1, <1>2, <1>4, <1>6 DEF RingInv

(* Every step of Equeue and Pop keeps the accounting of the ring.           *)
LEMMA RingInvStep == RingInv /\ [RingNext]_ringVars => RingInv'
<1>1. ASSUME RingInv, UNCHANGED ringVars PROVE RingInv'
  <2>1. UNCHANGED <<Filling, Filled, Reading, Freeing>>
    BY <1>1 DEF ringVars, Filling, Filled, Reading, Freeing, At
  <2> QED BY <1>1, <2>1 DEF ringVars, RingInv, RingTypeOK, HandSet, MutexHeld, DataCount,
          BlankCount, ProducerIndex, ConsumerIndex, Slots
<1> QED
  BY <1>1, ProduceStep, BlankPStep, ProducerLockStep, WriteSlotStep,
     ProducerAdvanceStep, DataVStep, DataPStep, ConsumerLockStep, ReadSlotStep,
     ConsumerAdvanceStep, BlankVStep DEF RingNext, RingEqueue, RingPop

(* The accounting, the indices and the contents of the slots.               *)
THEOREM RingCorrect == RingSpec => []RingInv
  BY RingInvInit, RingInvStep, PTL DEF RingSpec

(* TypeOK holds in every reachable state of the ring.                       *)
THEOREM RingTypeCorrect == RingSpec => []RingTypeOK
<1>1. RingInv => RingTypeOK
  BY DEF RingInv
<1> QED BY RingCorrect, <1>1, PTL

(* No slot is written while it is read, for any capacity and any number of  *)
(* threads.                                                                 *)
THEOREM NoSlotRaceCorrect == RingSpec => []NoSlotRace
<1>1. ASSUME RingInv PROVE NoSlotRace
  <2>1. ASSUME NEW p \in At(Producers, {"access"}), NEW c \in At(Consumers, {"access"})
        PROVE  pstep # cstep
    <3>1. /\ p \in Producers /\ pc[p] = "access"
          /\ c \in Consumers /\ pc[c] = "access"
      BY <2>1 DEF At
    <3>2. /\ pstep = Len(sent) % Cap /\ cstep = Len(got) % Cap
          /\ Len(got) < Len(sent) /\ Len(sent) < Len(got) + Cap
          /\ Len(got) \in Nat /\ Len(sent) \in Nat
      BY <1>1, <3>1, ProducerAtIndex, ConsumerAtIndex, RoomToFill, DataToRead,
         Numbers DEF RingInv
    <3>3. Len(sent) - Len(got) < Cap
      BY <3>2, QueueAssumption, RingAssumption
    <3> QED BY <3>2, <3>3, SlotsDiffer, QueueAssumption, RingAssumption
  <2>2. ASSUME NEW p \in At(Producers, {"access", "advance"}),
               NEW r \in At(Producers, {"access", "advance"})
        PROVE  p = r
    BY <1>1, <2>2 DEF At, RingInv, MutexHeld
  <2>3. ASSUME NEW c \in At(Consumers, {"access", "advance"}),
               NEW d \in At(Consumers, {"access", "advance"})
        PROVE  c = d
    BY <1>1, <2>3 DEF At, RingInv, MutexHeld
  <2> QED BY <2>1, <2>2, <2>3 DEF NoSlotRace
<1> QED BY RingCorrect, <1>1, PTL

-------------------------------------------------------------------------------
(* The refinement of BoundedFifo.                                          *)

(* The slots in use hold the items sent and not read, in their order.       *)
Content ==
    /\ InRing \in Seq(Items)
    /\ Len(InRing) = Len(sent) - Len(got)
    /\ \A k \in 1..Len(InRing) : InRing[k] = sent[Len(got) + k]

LEMMA RingHoldsContent == RingInv => Content
<1> SUFFICES ASSUME RingInv PROVE Content
  OBVIOUS
<1> DEFINE n == Len(sent) - Len(got)
<1>1. Len(sent) \in Nat /\ Len(got) \in Nat /\ n \in Nat /\ sent \in Seq(Items)
  BY Numbers, Occupied DEF RingInv, RingTypeOK
<1>2. ASSUME NEW k \in 1..n
      PROVE  /\ rq[(Len(got) + k - 1) % Cap] = sent[Len(got) + k]
             /\ sent[Len(got) + k] \in Items
  <2>1. Len(got) + k \in 1..Len(sent)
    BY <1>1
  <2>2. rq[(Len(got) + k - 1) % Cap] = sent[Len(got) + k]
    BY <1>1, <2>1 DEF RingInv, Slots
  <2> QED BY <1>1, <2>1, <2>2
<1>3. InRing = [k \in 1..n |-> sent[Len(got) + k]]
  BY <1>2 DEF InRing
<1> HIDE DEF n
<1>4. InRing \in Seq(Items) /\ Len(InRing) = n
  BY <1>1, <1>2, <1>3
<1> QED BY <1>3, <1>4 DEF n, Content

(* Sequences of one length that agree at every place are one.               *)
LEMMA SequencesAgree ==
  ASSUME NEW S, NEW s \in Seq(S), NEW t \in Seq(S), Len(s) = Len(t),
         \A k \in 1..Len(s) : s[k] = t[k]
  PROVE  s = t
  OBVIOUS

(* Writing a slot puts the item behind the others ...                       *)
LEMMA WriteIsPut ==
  ASSUME RingInv, Content, Content', NEW p \in Producers, WriteSlot(p)
  PROVE  \E x \in Items : RingFifo!Put(x)
<1> DEFINE x == hand[p]
<1>1. x \in Items /\ Len(sent) < Len(got) + Cap
  BY RoomToFill DEF WriteSlot, RingInv, HandSet
<1>2. got' = got /\ sent' = Append(sent, x) /\ sent \in Seq(Items)
  BY DEF WriteSlot, RingInv, RingTypeOK
<1>3. Len(sent) \in Nat /\ Len(got) \in Nat /\ Len(got) <= Len(sent)
  BY Numbers, Occupied DEF RingInv
<1> HIDE DEF x
<1>4. /\ Len(InRing) = Len(sent) - Len(got) /\ Len(InRing) \in Nat
      /\ Len(InRing) < Cap /\ Len(InRing') = Len(InRing) + 1
      /\ InRing \in Seq(Items)
  BY <1>1, <1>2, <1>3, QueueAssumption, RingAssumption DEF Content
<1>5. ASSUME NEW k \in 1..Len(InRing') PROVE InRing'[k] = Append(InRing, x)[k]
  <2>1. /\ InRing'[k] = sent'[Len(got) + k]
        /\ k \in 1..(Len(InRing) + 1) /\ Len(got) + k \in 1..(Len(sent) + 1)
    <3>1. InRing'[k] = sent'[Len(got) + k]
      BY <1>2 DEF Content
    <3>2. k \in 1..(Len(InRing) + 1)
      BY <1>4
    <3> QED BY <1>3, <1>4, <3>1, <3>2
  <2>2. CASE k = Len(InRing')
    BY <1>1, <1>2, <1>3, <1>4, <2>1, <2>2 DEF Content
  <2>3. CASE k # Len(InRing')
    <3>1. k \in 1..Len(InRing) /\ Len(got) + k \in 1..Len(sent)
      BY <1>3, <1>4, <2>3 DEF Content
    <3>2. sent'[Len(got) + k] = sent[Len(got) + k] /\ Append(InRing, x)[k] = InRing[k]
      BY <1>1, <1>2, <3>1 DEF Content
    <3> QED BY <2>1, <3>1, <3>2 DEF Content
  <2> QED BY <2>2, <2>3
<1>6. InRing' = Append(InRing, x)
  <2>1. Append(InRing, x) \in Seq(Items) /\ Len(Append(InRing, x)) = Len(InRing')
    BY <1>1, <1>4
  <2> QED BY <1>5, <2>1, SequencesAgree DEF Content
<1> QED BY <1>1, <1>2, <1>4, <1>6 DEF RingFifo!Put

(* ... and reading one takes the first.                                     *)
LEMMA ReadIsGet ==
  ASSUME RingInv, Content, Content', NEW c \in Consumers, ReadSlot(c)
  PROVE  RingFifo!Get
<1>1. /\ Len(got) < Len(sent) /\ rq[cstep] = sent[Len(got) + 1]
      /\ rq[cstep] \in Items
  BY DataToRead, ReadsOldest DEF ReadSlot
<1>2. got' = Append(got, rq[cstep]) /\ sent' = sent /\ got \in Seq(Items)
  BY DEF ReadSlot, RingInv, RingTypeOK
<1>3. Len(sent) \in Nat /\ Len(got) \in Nat /\ Len(got') = Len(got) + 1
  BY <1>1, <1>2, Numbers DEF RingInv
<1>4. /\ InRing \in Seq(Items) /\ InRing' \in Seq(Items)
      /\ Len(InRing) \in Nat /\ Len(InRing) > 0 /\ Len(InRing') = Len(InRing) - 1
  BY <1>1, <1>2, <1>3 DEF Content
<1>5. Head(InRing) = rq[cstep] /\ InRing # <<>>
  BY <1>1, <1>4 DEF Content
<1>6. Tail(InRing) \in Seq(Items) /\ Len(Tail(InRing)) = Len(InRing')
  BY <1>4, <1>5
<1>7. ASSUME NEW k \in 1..Len(InRing') PROVE InRing'[k] = Tail(InRing)[k]
  <2>1. Tail(InRing)[k] = InRing[k + 1] /\ k + 1 \in 1..Len(InRing)
    BY <1>4, <1>5, <1>6
  <2>2. Len(got') + k = Len(got) + (k + 1)
    BY <1>3, <1>4
  <2> QED BY <1>2, <2>1, <2>2 DEF Content
<1>8. InRing' = Tail(InRing)
  BY <1>4, <1>6, <1>7, SequencesAgree
<1> QED BY <1>2, <1>5, <1>8 DEF RingFifo!Get

(* The slots of the ring are a bounded first-in first-out channel, for any  *)
(* capacity and any number of threads.                                      *)
THEOREM RingFifoCorrect == RingSpec => RingImplementsFifo
<1>1. RingInit => RingFifo!Init
  BY DEF RingInit, InRing, RingFifo!Init
<1>2. ASSUME RingInv, Content, Content', [RingNext]_ringVars
      PROVE  [RingFifo!Next]_<<InRing, got>>
  <2>1. ASSUME NEW p \in Producers, WriteSlot(p) PROVE RingFifo!Next
    BY <1>2, <2>1, WriteIsPut DEF RingFifo!Next
  <2>2. ASSUME NEW c \in Consumers, ReadSlot(c) PROVE RingFifo!Next
    BY <1>2, <2>2, ReadIsGet DEF RingFifo!Next
  <2>3. ASSUME NEW p \in Producers,
               (\E x \in Items : RingProduce(p, x)) \/ BlankP(p) \/ ProducerLock(p)
                 \/ ProducerAdvance(p) \/ DataV(p)
        PROVE  UNCHANGED <<rq, sent, got>>
    BY <2>3 DEF RingProduce, BlankP, ProducerLock, ProducerAdvance, DataV
  <2>4. ASSUME NEW c \in Consumers,
               DataP(c) \/ ConsumerLock(c) \/ ConsumerAdvance(c) \/ BlankV(c)
        PROVE  UNCHANGED <<rq, sent, got>>
    BY <2>4 DEF DataP, ConsumerLock, ConsumerAdvance, BlankV
  <2>5. CASE UNCHANGED ringVars
    BY <2>5 DEF ringVars, InRing
  <2>6. ASSUME UNCHANGED <<rq, sent, got>> PROVE UNCHANGED <<InRing, got>>
    BY <2>6 DEF InRing
  <2> QED BY <1>2, <2>1, <2>2, <2>3, <2>4, <2>5, <2>6 DEF RingNext, RingEqueue, RingPop
<1>3. RingInv /\ Content /\ Content' /\ [RingNext]_ringVars => [RingFifo!Next]_<<InRing, got>>
  BY <1>2
<1>4. RingSpec => []Content
  BY RingCorrect, RingHoldsContent, PTL
<1> QED BY RingCorrect, <1>1, <1>3, <1>4, PTL DEF RingSpec, RingImplementsFifo, RingFifo!Spec

-----------------------------------------------------------------------------
(* BlockQueue.                                                             *)

(* _psleep_num and _csleep_num count the threads inside Wait.               *)
Counters ==
    /\ psleepnum = Cardinality(pasleep)
    /\ csleepnum = Cardinality(casleep)

CountInv == TypeOK /\ Counters

(* _q is what was sent and not yet received; with `while' it fits.          *)
Between ==
    /\ Len(sent) = Len(got) + Len(q)
    /\ \A i \in 1..Len(q) : q[i] = sent[Len(got) + i]
    /\ Recheck => Len(q) <= Cap

-------------------------------------------------------------------------------
(* The sleepers of either side are finitely many.                           *)
LEMMA AsleepFinite ==
  ASSUME TypeOK
  PROVE  /\ IsFiniteSet(pasleep) /\ IsFiniteSet(casleep)
         /\ Cardinality(pasleep) \in Nat /\ Cardinality(casleep) \in Nat
  BY QueueAssumption, FS_Subset, FS_CardinalityType DEF TypeOK

(* A thread leaves a set of n threads, or joins it.                         *)
LEMMA LeaveCount ==
  ASSUME NEW S, IsFiniteSet(S), NEW t \in S
  PROVE  /\ Cardinality(S \ {t}) = Cardinality(S) - 1
         /\ Cardinality(S) \in Nat \ {0}
  BY FS_RemoveElement, FS_EmptySet, FS_CardinalityType

(* The woken sleepers when one waiter t of W is woken.                      *)
LEMMA WokenCount ==
  ASSUME NEW S, IsFiniteSet(S), NEW W \in SUBSET S, NEW t \in W
  PROVE  /\ Cardinality(S \ (W \ {t})) = Cardinality(S \ W) + 1
         /\ Cardinality(S \ W) \in Nat
<1>1. S \ (W \ {t}) = (S \ W) \cup {t}
  OBVIOUS
<1>2. IsFiniteSet(S \ W)
  BY FS_Subset
<1> QED BY <1>1, <1>2, FS_AddElement, FS_CardinalityType

(* The woken sleepers when a woken sleeper t of S leaves the wait.          *)
LEMMA ResumedCount ==
  ASSUME NEW S, IsFiniteSet(S), NEW W \in SUBSET S, NEW t \in S \ W
  PROVE  /\ Cardinality((S \ {t}) \ W) = Cardinality(S \ W) - 1
         /\ Cardinality(S \ W) \in Nat
<1>1. (S \ {t}) \ W = (S \ W) \ {t}
  OBVIOUS
<1>2. IsFiniteSet(S \ W)
  BY FS_Subset
<1> QED BY <1>1, <1>2, LeaveCount

(* A signal to a side some of whose sleepers wait wakes exactly one.        *)
LEMMA SignalWakesOne ==
  ASSUME NEW W, NEW V \in AfterSignal(W), W # {}
  PROVE  \E t \in W : V = W \ {t}
  BY DEF AfterSignal

(* A signal puts no thread to sleep.                                        *)
LEMMA SignalShrinks ==
  ASSUME NEW W, NEW V \in AfterSignal(W)
  PROVE  V \subseteq W
  BY DEF AfterSignal

-------------------------------------------------------------------------------
(* Types and counters.                                                     *)

(* The tail of Equeue keeps the types and only wakes consumers.             *)
LEMMA PushTyped ==
  ASSUME TypeOK, NEW p \in Producers, Push(p)
  PROVE  /\ q' \in Seq(Items) /\ sent' \in Seq(Items)
         /\ hand' \in [Producers -> SUBSET Items]
         /\ cwait' \subseteq cwait /\ pwait' = pwait
<1>1. PICK x \in hand[p] : q' = Append(q, x) /\ sent' = Append(sent, x)
  BY DEF Push
<1>2. x \in Items
  BY DEF TypeOK
<1> QED BY <1>1, <1>2, SignalShrinks DEF Push, SignalConsumer, TypeOK

(* The tail of Pop keeps the types and only wakes producers.                *)
LEMMA TakeTyped ==
  ASSUME TypeOK, ~IsEmpty, Take
  PROVE  /\ q' \in Seq(Items) /\ got' \in Seq(Items)
         /\ pwait' \subseteq pwait /\ cwait' = cwait
<1>1. Head(q) \in Items /\ Tail(q) \in Seq(Items)
  BY DEF TypeOK, IsEmpty
<1> QED BY <1>1, SignalShrinks DEF Take, SignalProducer, TypeOK

(* Every step of Equeue and Pop keeps the two sleeper counters exact.       *)
LEMMA CountStep ==
  ASSUME CountInv, [Next]_vars
  PROVE  CountInv'
<1> USE DEF CountInv, TypeOK, Counters
<1>1. ASSUME NEW p \in Producers, NEW x \in Items, Produce(p, x) PROVE CountInv'
  BY <1>1 DEF Produce
<1>2. ASSUME NEW p \in Producers, EqueueSleep(p) PROVE CountInv'
  <2>1. Cardinality(pasleep') = Cardinality(pasleep) + 1
    BY <1>2, AsleepFinite, FS_AddElement DEF EqueueSleep
  <2> QED BY <1>2, <2>1 DEF EqueueSleep
<1>3. ASSUME NEW p \in Producers, EqueuePush(p) PROVE CountInv'
  BY <1>3, PushTyped DEF EqueuePush
<1>4. ASSUME NEW p \in Producers, EqueueSleepAgain(p) PROVE CountInv'
  BY <1>4 DEF EqueueSleepAgain
<1>5. ASSUME NEW p \in Producers, EqueueResume(p) PROVE CountInv'
  <2>1. /\ Cardinality(pasleep') = Cardinality(pasleep) - 1
        /\ Cardinality(pasleep) \in Nat \ {0}
    BY <1>5, AsleepFinite, LeaveCount DEF EqueueResume
  <2>2. pwait' \subseteq pasleep'
    BY <1>5, PushTyped DEF EqueueResume
  <2> QED BY <1>5, <2>1, <2>2, PushTyped DEF EqueueResume
<1>6. ASSUME NEW c \in Consumers, PopSleep(c) PROVE CountInv'
  <2>1. Cardinality(casleep') = Cardinality(casleep) + 1
    BY <1>6, AsleepFinite, FS_AddElement DEF PopSleep
  <2> QED BY <1>6, <2>1 DEF PopSleep
<1>7. ASSUME NEW c \in Consumers, PopTake(c) PROVE CountInv'
  BY <1>7, TakeTyped DEF PopTake
<1>8. ASSUME NEW c \in Consumers, PopSleepAgain(c) PROVE CountInv'
  BY <1>8 DEF PopSleepAgain
<1>9. ASSUME NEW c \in Consumers, PopResume(c) PROVE CountInv'
  <2>1. /\ Cardinality(casleep') = Cardinality(casleep) - 1
        /\ Cardinality(casleep) \in Nat \ {0}
    BY <1>9, AsleepFinite, LeaveCount DEF PopResume
  <2>2. cwait' \subseteq casleep'
    BY <1>9, TakeTyped DEF PopResume
  <2> QED BY <1>9, <2>1, <2>2, TakeTyped DEF PopResume
<1>10. CASE SpuriousWakeup
  BY <1>10 DEF SpuriousWakeup
<1>11. CASE UNCHANGED vars
  BY <1>11 DEF vars
<1> QED
  BY <1>1, <1>2, <1>3, <1>4, <1>5, <1>6, <1>7, <1>8, <1>9, <1>10, <1>11
     DEF Next, Equeue, Pop

(* A new queue has no sleepers and counts none.                             *)
LEMMA CountInit == Init => CountInv
<1> SUFFICES ASSUME Init PROVE CountInv
  OBVIOUS
<1>1. Counters
  BY FS_EmptySet DEF Init, Counters
<1>2. TypeOK
  BY DEF Init, TypeOK
<1> QED BY <1>1, <1>2 DEF CountInv

(* Types hold and the two counters count the sleepers, woken or not.        *)
THEOREM CountCorrect == Spec => []CountInv
  BY CountInit, CountStep, PTL DEF Spec

(* TypeOK holds in every reachable state of the queue.                      *)
THEOREM BlockTypeCorrect == Spec => []TypeOK
<1>1. CountInv => TypeOK
  BY DEF CountInv
<1> QED BY CountCorrect, <1>1, PTL

-------------------------------------------------------------------------------
(* No lost wakeup.                                                         *)

(* Equeue adds one item to _q.                                              *)
LEMMA PushLength ==
  ASSUME TypeOK, NEW p \in Producers, Push(p)
  PROVE  Len(q') = Len(q) + 1 /\ Len(q) \in Nat
  BY DEF Push, TypeOK

(* Pop takes one item from a _q that has one.                               *)
LEMMA TakeLength ==
  ASSUME TypeOK, ~IsEmpty, Take
  PROVE  Len(q') = Len(q) - 1 /\ Len(q) \in Nat /\ Len(q) > 0
  BY DEF Take, TypeOK, IsEmpty

(* A push that finds sleeping consumers wakes one more of them.             *)
LEMMA PushWakes ==
  ASSUME CountInv, NEW p \in Producers, Push(p), casleep' = casleep, cwait' # {}
  PROVE  /\ cwait # {}
         /\ Cardinality(casleep' \ cwait') = Cardinality(casleep \ cwait) + 1
         /\ Cardinality(casleep \ cwait) \in Nat
<1> USE DEF CountInv
<1>1. cwait' \subseteq cwait /\ cwait # {}
  BY PushTyped
<1>2. csleepnum > 0
  BY <1>1, AsleepFinite, FS_EmptySet DEF Counters, TypeOK
<1>3. PICK t \in cwait : cwait' = cwait \ {t}
  BY <1>1, <1>2, SignalWakesOne DEF Push, SignalConsumer
<1> QED BY <1>1, <1>3, AsleepFinite, WokenCount DEF TypeOK

(* A pop that finds sleeping producers wakes one more of them.              *)
LEMMA TakeWakes ==
  ASSUME CountInv, ~IsEmpty, Take, pasleep' = pasleep, pwait' # {}
  PROVE  /\ pwait # {}
         /\ Cardinality(pasleep' \ pwait') = Cardinality(pasleep \ pwait) + 1
         /\ Cardinality(pasleep \ pwait) \in Nat
<1> USE DEF CountInv
<1>1. pwait' \subseteq pwait /\ pwait # {}
  BY TakeTyped
<1>2. psleepnum > 0
  BY <1>1, AsleepFinite, FS_EmptySet DEF Counters, TypeOK
<1>3. PICK t \in pwait : pwait' = pwait \ {t}
  BY <1>1, <1>2, SignalWakesOne DEF Take, SignalProducer
<1> QED BY <1>1, <1>3, AsleepFinite, WokenCount DEF TypeOK

(* The woken sleepers of either side can be counted.                        *)
LEMMA WokenFinite ==
  ASSUME TypeOK
  PROVE  /\ Cardinality(casleep \ cwait) \in Nat
         /\ Cardinality(pasleep \ pwait) \in Nat
  BY AsleepFinite, FS_Subset, FS_CardinalityType

(* No step of Equeue or Pop leaves an item beside an unwoken consumer.      *)
LEMMA ItemsHaveTakersStep ==
  ASSUME CountInv, CountInv', ItemsHaveTakers, [Next]_vars
  PROVE  ItemsHaveTakers'
<1> USE DEF CountInv, ItemsHaveTakers
<1> SUFFICES ASSUME cwait' # {}
             PROVE  Len(q') <= Cardinality(casleep' \ cwait')
  OBVIOUS
<1>1. ASSUME NEW p \in Producers, EqueuePush(p) \/ EqueueResume(p)
      PROVE  Len(q') <= Cardinality(casleep' \ cwait')
  <2>1. Push(p) /\ casleep' = casleep
    BY <1>1 DEF EqueuePush, EqueueResume
  <2>2. /\ cwait # {}
        /\ Cardinality(casleep' \ cwait') = Cardinality(casleep \ cwait) + 1
        /\ Cardinality(casleep \ cwait) \in Nat
    BY <2>1, PushWakes
  <2>3. Len(q') = Len(q) + 1 /\ Len(q) \in Nat
    BY <2>1, PushLength
  <2> QED BY <2>2, <2>3
<1>2. ASSUME NEW c \in Consumers, PopSleep(c) \/ PopSleepAgain(c)
      PROVE  Len(q') <= Cardinality(casleep' \ cwait')
  <2>1. Len(q') = 0
    BY <1>2 DEF PopSleep, PopSleepAgain, IsEmpty
  <2>2. Cardinality(casleep' \ cwait') \in Nat
    <3>1. casleep' \ cwait' \subseteq Consumers
      BY DEF TypeOK
    <3> QED BY <3>1, QueueAssumption, FS_Subset, FS_CardinalityType
  <2> QED BY <2>1, WokenFinite, <2>2
<1>3. ASSUME NEW c \in Consumers, PopTake(c)
      PROVE  Len(q') <= Cardinality(casleep' \ cwait')
  <2>1. Take /\ ~IsEmpty /\ casleep' = casleep
    BY <1>3 DEF PopTake
  <2> QED BY <2>1, TakeLength, TakeTyped, WokenFinite
<1>4. ASSUME NEW c \in Consumers, PopResume(c)
      PROVE  Len(q') <= Cardinality(casleep' \ cwait')
  <2>1. Take /\ ~IsEmpty /\ casleep' = casleep \ {c} /\ c \in casleep \ cwait
    BY <1>4 DEF PopResume
  <2>2. Cardinality(casleep' \ cwait) = Cardinality(casleep \ cwait) - 1
    BY <2>1, AsleepFinite, ResumedCount DEF TypeOK
  <2> QED BY <2>1, <2>2, TakeLength, TakeTyped, WokenFinite
<1>5. CASE SpuriousWakeup
  <2>1. CASE UNCHANGED <<casleep, cwait, q>>
    BY <2>1
  <2>2. CASE q' = q /\ casleep' = casleep /\ \E c \in cwait : cwait' = cwait \ {c}
    <3>1. PICK c \in cwait : cwait' = cwait \ {c}
      BY <2>2
    <3>2. Cardinality(casleep' \ cwait') = Cardinality(casleep \ cwait) + 1
      BY <2>2, <3>1, AsleepFinite, WokenCount DEF TypeOK
    <3>3. Len(q) \in Nat
      BY DEF TypeOK
    <3> QED BY <2>2, <3>1, <3>2, <3>3, WokenFinite
  <2> QED BY <1>5, <2>1, <2>2 DEF SpuriousWakeup
<1>6. ASSUME UNCHANGED <<casleep, cwait, q>>
      PROVE  Len(q') <= Cardinality(casleep' \ cwait')
  BY <1>6
<1>7. ASSUME NEW p \in Producers, NEW x \in Items,
             Produce(p, x) \/ EqueueSleep(p) \/ EqueueSleepAgain(p)
      PROVE  UNCHANGED <<casleep, cwait, q>>
  BY <1>7 DEF Produce, EqueueSleep, EqueueSleepAgain
<1>8. ASSUME NEW p \in Producers, EqueueSleep(p) \/ EqueueSleepAgain(p)
      PROVE  UNCHANGED <<casleep, cwait, q>>
  BY <1>8 DEF EqueueSleep, EqueueSleepAgain
<1>9. CASE UNCHANGED vars
  BY <1>6, <1>9 DEF vars
<1> QED BY <1>1, <1>2, <1>3, <1>4, <1>5, <1>6, <1>7, <1>8, <1>9
        DEF Next, Equeue, Pop

(* No step of Equeue or Pop leaves a place beside an unwoken producer.      *)
LEMMA RoomHasUsersStep ==
  ASSUME CountInv, CountInv', RoomHasUsers, [Next]_vars
  PROVE  RoomHasUsers'
<1> USE QueueAssumption DEF CountInv, RoomHasUsers
<1> SUFFICES ASSUME pwait' # {}
             PROVE  Cap - Len(q') <= Cardinality(pasleep' \ pwait')
  OBVIOUS
<1>0. Len(q) \in Nat
  BY DEF TypeOK
<1>1. ASSUME NEW c \in Consumers, PopTake(c) \/ PopResume(c)
      PROVE  Cap - Len(q') <= Cardinality(pasleep' \ pwait')
  <2>1. Take /\ ~IsEmpty /\ pasleep' = pasleep
    BY <1>1 DEF PopTake, PopResume
  <2>2. /\ pwait # {}
        /\ Cardinality(pasleep' \ pwait') = Cardinality(pasleep \ pwait) + 1
        /\ Cardinality(pasleep \ pwait) \in Nat
    BY <2>1, TakeWakes
  <2>3. Len(q') = Len(q) - 1
    BY <2>1, TakeLength
  <2> QED BY <1>0, <2>2, <2>3
<1>2. ASSUME NEW p \in Producers, EqueueSleep(p) \/ EqueueSleepAgain(p)
      PROVE  Cap - Len(q') <= Cardinality(pasleep' \ pwait')
  <2>1. Cap - Len(q') <= 0
    BY <1>0, <1>2 DEF EqueueSleep, EqueueSleepAgain, IsFull
  <2>2. Cardinality(pasleep' \ pwait') \in Nat
    <3>1. pasleep' \ pwait' \subseteq Producers
      BY DEF TypeOK
    <3> QED BY <3>1, QueueAssumption, FS_Subset, FS_CardinalityType
  <2>3. Cap - Len(q') \in Int
    BY <1>0, <1>2 DEF EqueueSleep, EqueueSleepAgain
  <2> QED BY <2>1, <2>2, <2>3
<1>3. ASSUME NEW p \in Producers, EqueuePush(p)
      PROVE  Cap - Len(q') <= Cardinality(pasleep' \ pwait')
  <2>1. Push(p) /\ pasleep' = pasleep
    BY <1>3 DEF EqueuePush
  <2>2. Len(q') = Len(q) + 1 /\ pwait' = pwait
    BY <2>1, PushLength, PushTyped
  <2>3. Cap - Len(q) <= Cardinality(pasleep \ pwait)
    BY <2>2
  <2> QED BY <1>0, <2>1, <2>2, <2>3, WokenFinite
<1>4. ASSUME NEW p \in Producers, EqueueResume(p)
      PROVE  Cap - Len(q') <= Cardinality(pasleep' \ pwait')
  <2>1. Push(p) /\ pasleep' = pasleep \ {p} /\ p \in pasleep \ pwait
    BY <1>4 DEF EqueueResume
  <2>2. Cardinality(pasleep' \ pwait) = Cardinality(pasleep \ pwait) - 1
    BY <2>1, AsleepFinite, ResumedCount DEF TypeOK
  <2>3. Len(q') = Len(q) + 1 /\ pwait' = pwait
    BY <2>1, PushLength, PushTyped
  <2>4. Cap - Len(q) <= Cardinality(pasleep \ pwait)
    BY <2>3
  <2> QED BY <1>0, <2>2, <2>3, <2>4, WokenFinite
<1>5. CASE SpuriousWakeup
  <2>1. CASE UNCHANGED <<pasleep, pwait, q>>
    BY <2>1
  <2>2. CASE q' = q /\ pasleep' = pasleep /\ \E p \in pwait : pwait' = pwait \ {p}
    <3>1. PICK p \in pwait : pwait' = pwait \ {p}
      BY <2>2
    <3>2. Cardinality(pasleep' \ pwait') = Cardinality(pasleep \ pwait) + 1
      BY <2>2, <3>1, AsleepFinite, WokenCount DEF TypeOK
    <3> QED BY <1>0, <2>2, <3>1, <3>2, WokenFinite
  <2> QED BY <1>5, <2>1, <2>2 DEF SpuriousWakeup
<1>6. ASSUME UNCHANGED <<pasleep, pwait, q>>
      PROVE  Cap - Len(q') <= Cardinality(pasleep' \ pwait')
  BY <1>6
<1>7. ASSUME NEW p \in Producers, NEW x \in Items, Produce(p, x)
      PROVE  UNCHANGED <<pasleep, pwait, q>>
  BY <1>7 DEF Produce
<1>8. ASSUME NEW c \in Consumers, PopSleep(c) \/ PopSleepAgain(c)
      PROVE  UNCHANGED <<pasleep, pwait, q>>
  BY <1>8 DEF PopSleep, PopSleepAgain
<1>9. CASE UNCHANGED vars
  BY <1>6, <1>9 DEF vars
<1> QED BY <1>1, <1>2, <1>3, <1>4, <1>5, <1>6, <1>7, <1>8, <1>9
        DEF Next, Equeue, Pop

(* While a consumer sleeps unwoken, each queued item has a woken consumer   *)
(* on its way: the signal sent only when _csleep_num > 0 is enough.         *)
THEOREM ItemsHaveTakersCorrect == Spec => []ItemsHaveTakers
<1>1. Init => ItemsHaveTakers
  BY DEF Init, ItemsHaveTakers
<1>2. CountInv /\ CountInv' /\ ItemsHaveTakers /\ [Next]_vars => ItemsHaveTakers'
  BY ItemsHaveTakersStep
<1> QED BY CountCorrect, <1>1, <1>2, PTL DEF Spec

(* While a producer sleeps unwoken, each free place has a woken producer    *)
(* on its way.                                                              *)
THEOREM RoomHasUsersCorrect == Spec => []RoomHasUsers
<1>1. Init => RoomHasUsers
  BY DEF Init, RoomHasUsers
<1>2. CountInv /\ CountInv' /\ RoomHasUsers /\ [Next]_vars => RoomHasUsers'
  BY RoomHasUsersStep
<1> QED BY CountCorrect, <1>1, <1>2, PTL DEF Spec

-------------------------------------------------------------------------------
(* The refinement of BoundedFifo.                                          *)

(* A push into a queue with room is a Put ...                               *)
LEMMA PushIsPut ==
  ASSUME TypeOK, Between, NEW p \in Producers, Push(p), got' = got,
         Recheck => Len(q) < Cap
  PROVE  Between' /\ (Recheck => \E x \in Items : Fifo!Put(x))
<1>1. PICK x \in hand[p] : q' = Append(q, x) /\ sent' = Append(sent, x)
  BY DEF Push
<1>2. x \in Items
  BY DEF TypeOK
<1>3. /\ Len(q) \in Nat /\ Len(sent) \in Nat /\ Len(got) \in Nat
      /\ Len(sent) = Len(got) + Len(q)
      /\ Len(q') = Len(q) + 1 /\ Len(sent') = Len(sent) + 1
  <2>1. Len(q) \in Nat /\ Len(sent) \in Nat /\ Len(got) \in Nat
    BY DEF TypeOK
  <2>2. Len(q') = Len(q) + 1
    BY <1>1, <1>2 DEF TypeOK
  <2>3. Len(sent') = Len(sent) + 1
    BY <1>1, <1>2 DEF TypeOK
  <2> QED BY <2>1, <2>2, <2>3 DEF Between
<1>4. ASSUME NEW i \in 1..Len(q') PROVE q'[i] = sent'[Len(got') + i]
  <2>1. CASE i = Len(q')
    BY <1>1, <1>2, <1>3, <2>1 DEF TypeOK
  <2>2. CASE i # Len(q')
    <3>1. i \in 1..Len(q) /\ Len(got) + i \in 1..Len(sent)
      BY <1>3, <2>2
    <3>2. q'[i] = q[i] /\ sent'[Len(got) + i] = sent[Len(got) + i]
      BY <1>1, <1>2, <3>1 DEF TypeOK
    <3> QED BY <3>1, <3>2 DEF Between
  <2> QED BY <2>1, <2>2
<1>5. Between'
  <2>1. Recheck => Len(q') <= Cap
    <3>1. CASE Recheck
      BY <1>3, <3>1, QueueAssumption
    <3> QED BY <3>1
  <2>2. Len(sent') = Len(got') + Len(q')
    BY <1>3
  <2> QED BY <1>4, <2>1, <2>2 DEF Between
<1>6. ASSUME Recheck PROVE Fifo!Put(x)
  BY <1>1, <1>6 DEF Fifo!Put
<1> QED BY <1>2, <1>5, <1>6

(* ... and a pop is a Get.                                                  *)
LEMMA TakeIsGet ==
  ASSUME TypeOK, Between, ~IsEmpty, Take, sent' = sent
  PROVE  Between' /\ Fifo!Get
<1>1. /\ Len(q) \in Nat /\ Len(sent) \in Nat /\ Len(got) \in Nat
      /\ Len(q) > 0
      /\ Len(sent) = Len(got) + Len(q)
  BY DEF TypeOK, Between, IsEmpty
<1>2. Head(q) = q[1] /\ q[1] = sent[Len(got) + 1] /\ Head(q) \in Items
  BY <1>1 DEF Between, TypeOK
<1>3. /\ got' = Append(got, sent[Len(got) + 1])
      /\ Len(got') = Len(got) + 1
      /\ Len(q') = Len(q) - 1
      /\ \A i \in 1..Len(q') : q'[i] = q[i + 1]
  BY <1>1, <1>2 DEF Take, TypeOK
<1>4. ASSUME NEW i \in 1..Len(q') PROVE q'[i] = sent'[Len(got') + i]
  <2>0. Len(got') = Len(got) + 1 /\ Len(q') = Len(q) - 1 /\ i \in 1..Len(q')
    BY <1>3
  <2>1. i + 1 \in 1..Len(q) /\ Len(got') + i = Len(got) + (i + 1)
    BY <1>1, <2>0
  <2> QED BY <1>3, <2>1 DEF Between
<1>5. Len(sent') = Len(got') + Len(q')
  BY <1>1, <1>3
<1>6. Recheck => Len(q') <= Cap
  BY <1>1, <1>3, QueueAssumption DEF Between
<1>7. Fifo!Get
  BY DEF Take, IsEmpty, Fifo!Get
<1> QED BY <1>4, <1>5, <1>6, <1>7 DEF Between

(* Each step keeps _q between the two histories and is a Put, a Get or a    *)
(* stutter of the abstract channel.                                         *)
LEMMA FifoStep ==
  ASSUME TypeOK, Between, [Next]_vars
  PROVE  Between' /\ (Recheck => [Fifo!Next]_<<q, got>>)
<1>1. ASSUME NEW p \in Producers, EqueuePush(p) \/ EqueueResume(p)
      PROVE  Between' /\ (Recheck => [Fifo!Next]_<<q, got>>)
  <2>1. Push(p) /\ got' = got
    BY <1>1 DEF EqueuePush, EqueueResume
  <2>2. Recheck => Len(q) < Cap
    BY <1>1, QueueAssumption DEF EqueuePush, EqueueResume, IsFull, TypeOK
  <2> QED BY <2>1, <2>2, PushIsPut DEF Fifo!Next
<1>2. ASSUME NEW c \in Consumers, PopTake(c) \/ PopResume(c)
      PROVE  Between' /\ (Recheck => [Fifo!Next]_<<q, got>>)
  <2>1. Take /\ ~IsEmpty /\ sent' = sent
    BY <1>2 DEF PopTake, PopResume
  <2> QED BY <2>1, TakeIsGet DEF Fifo!Next
<1>3. ASSUME UNCHANGED <<q, sent, got>>
      PROVE  Between' /\ (Recheck => [Fifo!Next]_<<q, got>>)
  BY <1>3 DEF Between
<1>4. ASSUME NEW p \in Producers, NEW x \in Items, Produce(p, x)
      PROVE  UNCHANGED <<q, sent, got>>
  BY <1>4 DEF Produce
<1>5. ASSUME NEW p \in Producers, EqueueSleep(p) \/ EqueueSleepAgain(p)
      PROVE  UNCHANGED <<q, sent, got>>
  BY <1>5 DEF EqueueSleep, EqueueSleepAgain
<1>6. ASSUME NEW c \in Consumers, PopSleep(c) \/ PopSleepAgain(c)
      PROVE  UNCHANGED <<q, sent, got>>
  BY <1>6 DEF PopSleep, PopSleepAgain
<1>7. ASSUME SpuriousWakeup \/ UNCHANGED vars PROVE UNCHANGED <<q, sent, got>>
  BY <1>7 DEF SpuriousWakeup, vars
<1> QED BY <1>1, <1>2, <1>3, <1>4, <1>5, <1>6, <1>7 DEF Next, Equeue, Pop

(* _q is always what was pushed and not yet popped, in order.               *)
THEOREM BetweenCorrect == Spec => []Between
<1>1. Init => Between
  BY QueueAssumption DEF Init, Between
<1>2. TypeOK /\ Between /\ [Next]_vars => Between'
  BY FifoStep
<1> QED BY BlockTypeCorrect, <1>1, <1>2, PTL DEF Spec

(* With `while' around the waits the queue is a bounded first-in first-out  *)
(* channel, whatever wakes the threads and in whatever order.               *)
THEOREM BlockFifoCorrect == ASSUME Recheck PROVE Spec => ImplementsFifo
<1>1. Init => Fifo!Init
  BY DEF Init, Fifo!Init
<1>2. TypeOK /\ Between /\ [Next]_vars => [Fifo!Next]_<<q, got>>
  BY FifoStep
<1> QED
  BY BlockTypeCorrect, BetweenCorrect, <1>1, <1>2, PTL
     DEF Spec, ImplementsFifo, Fifo!Spec

(* With `while' the capacity is never exceeded.                             *)
THEOREM CapacityCorrect == ASSUME Recheck PROVE Spec => []CapacityKept
<1>1. Between => CapacityKept
  BY DEF Between, CapacityKept
<1> QED BY BetweenCorrect, <1>1, PTL
===============================================================================
