------------------------------ MODULE RingQueue -------------------------------
(***************************************************************************)
(* The ring queue of test_03_25/Sem_Ring (RingQueue.hpp on Sem.hpp): two    *)
(* counting semaphores share out the places and the data, and one mutex per *)
(* side orders the threads of that side.  No lock is shared by the sides:   *)
(* a producer writes _rq[_p_step] while a consumer may be reading           *)
(* _rq[_c_step], so the slot access is a step of its own (a thread at pc    *)
(* "access" is inside it).                                                  *)
(***************************************************************************)
EXTENDS QueueThreads

CONSTANT None       \* no thread; the value T() of an untouched slot

ASSUME RingAssumption ==
    /\ Producers \cap Consumers = {}
    /\ None \notin Producers \cup Consumers \cup Items

VARIABLES
    rq,             \* _rq
    blanksem,       \* value of _blank_sem
    datasem,        \* value of _data_sem
    pstep, cstep,   \* _p_step, _c_step
    pmutex, cmutex, \* holders of _p_mutex, _c_mutex
    pc              \* where each thread is in Equeue or Pop

ringVars == <<rq, blanksem, datasem, pstep, cstep, pmutex, cmutex, pc, hand, todo,
          sent, got>>

Slot == 0..(Cap - 1)

PC == {"idle", "P", "lock", "access", "advance", "V"}

RingTypeOK ==
    /\ rq \in [Slot -> Items \cup {None}]
    /\ blanksem \in Nat
    /\ datasem \in Nat
    /\ pstep \in Slot
    /\ cstep \in Slot
    /\ pmutex \in Producers \cup {None}
    /\ cmutex \in Consumers \cup {None}
    /\ pc \in [Producers \cup Consumers -> PC]
    /\ hand \in [Producers -> Items \cup {None}]
    /\ todo \subseteq Items
    /\ sent \in Seq(Items)
    /\ got \in Seq(Items)

RingInit ==
    /\ rq = [i \in Slot |-> None]
    /\ blanksem = Cap
    /\ datasem = 0
    /\ pstep = 0
    /\ cstep = 0
    /\ pmutex = None
    /\ cmutex = None
    /\ pc = [t \in Producers \cup Consumers |-> "idle"]
    /\ hand = [p \in Producers |-> None]
    /\ todo = Items
    /\ sent = <<>>
    /\ got = <<>>

-------------------------------------------------------------------------------
(* Equeue                                                                  *)

RingProduce(p, x) ==
    /\ pc[p] = "idle"
    /\ x \in todo
    /\ todo' = todo \ {x}
    /\ hand' = [hand EXCEPT ![p] = x]
    /\ pc' = [pc EXCEPT ![p] = "P"]
    /\ UNCHANGED <<rq, blanksem, datasem, pstep, cstep, pmutex, cmutex, sent, got>>

BlankP(p) ==
    /\ pc[p] = "P"
    /\ blanksem > 0
    /\ blanksem' = blanksem - 1
    /\ pc' = [pc EXCEPT ![p] = "lock"]
    /\ UNCHANGED <<rq, datasem, pstep, cstep, pmutex, cmutex, hand, todo, sent, got>>

ProducerLock(p) ==
    /\ pc[p] = "lock"
    /\ pmutex = None
    /\ pmutex' = p
    /\ pc' = [pc EXCEPT ![p] = "access"]
    /\ UNCHANGED <<rq, blanksem, datasem, pstep, cstep, cmutex, hand, todo, sent,
                   got>>

WriteSlot(p) ==
    /\ pc[p] = "access"
    /\ rq' = [rq EXCEPT ![pstep] = hand[p]]
    /\ sent' = Append(sent, hand[p])
    /\ pc' = [pc EXCEPT ![p] = "advance"]
    /\ UNCHANGED <<blanksem, datasem, pstep, cstep, pmutex, cmutex, hand, todo, got>>

\* The index does not wrap.
NextStepMutant(i) == i + 1

\* `++_step; _step %= _cap'
NextStep(i) == (i + 1) % Cap

ProducerAdvance(p) ==
    /\ pc[p] = "advance"
    /\ pstep' = NextStep(pstep)
    /\ pmutex' = None
    /\ pc' = [pc EXCEPT ![p] = "V"]
    /\ UNCHANGED <<rq, blanksem, datasem, cstep, cmutex, hand, todo, sent, got>>

\* The wrong semaphore is posted.
DataVMutant(p) ==
    /\ pc[p] = "V"
    /\ blanksem' = blanksem + 1
    /\ hand' = [hand EXCEPT ![p] = None]
    /\ pc' = [pc EXCEPT ![p] = "idle"]
    /\ UNCHANGED <<rq, datasem, pstep, cstep, pmutex, cmutex, todo, sent, got>>

DataV(p) ==
    /\ pc[p] = "V"
    /\ datasem' = datasem + 1
    /\ hand' = [hand EXCEPT ![p] = None]
    /\ pc' = [pc EXCEPT ![p] = "idle"]
    /\ UNCHANGED <<rq, blanksem, pstep, cstep, pmutex, cmutex, todo, sent, got>>

-------------------------------------------------------------------------------
(* Pop                                                                     *)

\* The place is given back before the mutex is asked for, not after the read.
DataPMutant(c) ==
    /\ pc[c] = "idle"
    /\ datasem > 0
    /\ datasem' = datasem - 1
    /\ blanksem' = blanksem + 1
    /\ pc' = [pc EXCEPT ![c] = "lock"]
    /\ UNCHANGED <<rq, pstep, cstep, pmutex, cmutex, hand, todo, sent, got>>

\* The loop of Main.cc calls Pop again and again: "idle" is before the P.
DataP(c) ==
    /\ pc[c] = "idle"
    /\ datasem > 0
    /\ datasem' = datasem - 1
    /\ pc' = [pc EXCEPT ![c] = "lock"]
    /\ UNCHANGED <<rq, blanksem, pstep, cstep, pmutex, cmutex, hand, todo, sent, got>>

\* No mutex on the consumers' side.
ConsumerLockMutant(c) ==
    /\ pc[c] = "lock"
    /\ cmutex' = c
    /\ pc' = [pc EXCEPT ![c] = "access"]
    /\ UNCHANGED <<rq, blanksem, datasem, pstep, cstep, pmutex, hand, todo, sent,
                   got>>

ConsumerLock(c) ==
    /\ pc[c] = "lock"
    /\ cmutex = None
    /\ cmutex' = c
    /\ pc' = [pc EXCEPT ![c] = "access"]
    /\ UNCHANGED <<rq, blanksem, datasem, pstep, cstep, pmutex, hand, todo, sent,
                   got>>

ReadSlot(c) ==
    /\ pc[c] = "access"
    /\ got' = Append(got, rq[cstep])
    /\ pc' = [pc EXCEPT ![c] = "advance"]
    /\ UNCHANGED <<rq, blanksem, datasem, pstep, cstep, pmutex, cmutex, hand, todo,
                   sent>>

ConsumerAdvance(c) ==
    /\ pc[c] = "advance"
    /\ cstep' = NextStep(cstep)
    /\ cmutex' = None
    /\ pc' = [pc EXCEPT ![c] = "V"]
    /\ UNCHANGED <<rq, blanksem, datasem, pstep, pmutex, hand, todo, sent, got>>

\* The place is never given back.
BlankVMutant(c) ==
    /\ pc[c] = "V"
    /\ pc' = [pc EXCEPT ![c] = "idle"]
    /\ UNCHANGED <<rq, blanksem, datasem, pstep, cstep, pmutex, cmutex, hand, todo,
                   sent, got>>

BlankV(c) ==
    /\ pc[c] = "V"
    /\ blanksem' = blanksem + 1
    /\ pc' = [pc EXCEPT ![c] = "idle"]
    /\ UNCHANGED <<rq, datasem, pstep, cstep, pmutex, cmutex, hand, todo, sent, got>>

-------------------------------------------------------------------------------
RingEqueue(p) ==
    \/ BlankP(p)
    \/ ProducerLock(p)
    \/ WriteSlot(p)
    \/ ProducerAdvance(p)
    \/ DataV(p)

RingPop(c) ==
    \/ DataP(c)
    \/ ConsumerLock(c)
    \/ ReadSlot(c)
    \/ ConsumerAdvance(c)
    \/ BlankV(c)

RingNext ==
    \/ \E p \in Producers : RingEqueue(p) \/ \E x \in Items : RingProduce(p, x)
    \/ \E c \in Consumers : RingPop(c)

RingSpec == RingInit /\ [][RingNext]_ringVars

(* Threads run; one that asks for a semaphore or a mutex that is free again *)
(* and again gets it in the end.                                            *)
RingFairness ==
    /\ \A p \in Producers :
        /\ WF_ringVars(RingEqueue(p))
        /\ SF_ringVars(BlankP(p) \/ ProducerLock(p))
    /\ \A c \in Consumers :
        /\ WF_ringVars(RingPop(c))
        /\ SF_ringVars(DataP(c) \/ ConsumerLock(c))

RingFairSpec == RingSpec /\ RingFairness

-------------------------------------------------------------------------------
(* Properties                                                              *)

At(threads, places) == {t \in threads : pc[t] \in places}

(* The two mutexes do not exclude the sides from each other; the semaphores *)
(* and the two indices do: no slot is written while it is read, and each    *)
(* side has one thread at a time inside the ring.                           *)
NoSlotRace ==
    /\ \A p \in At(Producers, {"access"}), c \in At(Consumers, {"access"}) :
           pstep # cstep
    /\ \A p, r \in At(Producers, {"access", "advance"}) : p = r
    /\ \A c, d \in At(Consumers, {"access", "advance"}) : c = d

\* What the slots hold between the oldest item not read and the last one written.
InRing ==
    [k \in 1..(Len(sent) - Len(got)) |-> rq[(Len(got) + k - 1) % Cap]]

RingFifo == INSTANCE BoundedFifo WITH channel <- InRing, received <- got

(* The slots of the ring are a bounded first-in first-out channel: no item  *)
(* is overwritten before it is read, read twice, or read before it is       *)
(* written, though the semaphores are taken before the mutex and posted     *)
(* after it.                                                                *)
RingImplementsFifo == RingFifo!Spec

(* Every item given to Equeue is popped in the end.                         *)
RingEveryItemArrives ==
    \A x \in Items : (\E p \in Producers : hand[p] = x)
                        ~> \E i \in 1..Len(got) : got[i] = x
===============================================================================
