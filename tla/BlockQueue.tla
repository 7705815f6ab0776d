------------------------------ MODULE BlockQueue ------------------------------
(***************************************************************************)
(* The blocking queue of test_03_25/Cond (BlockQueue.hpp): one mutex, one   *)
(* condition variable per side, and a signal only when the counter of the   *)
(* other side's sleepers is positive.  test_03_23/CP holds an earlier copy  *)
(* of the class whose waits are guarded by `if' instead of `while': that is *)
(* Recheck = FALSE.                                                         *)
(*                                                                         *)
(* Every field is used under _mutex only, so what a thread does between     *)
(* taking the mutex and giving it up (by unlocking or by waiting) is one    *)
(* step.  A thread is "asleep" while it is inside Cond::Wait; pwait and     *)
(* cwait are the sleepers nothing has woken yet.  A producer's hand is a    *)
(* set of 0 or 1 items.                                                    *)
(***************************************************************************)
EXTENDS QueueThreads

CONSTANT Recheck    \* TRUE: `while (IsFull())', FALSE: `if (IsFull())'

ASSUME RecheckAssumption == Recheck \in BOOLEAN

VARIABLES
    q,              \* _q
    psleepnum,      \* _psleep_num
    csleepnum,      \* _csleep_num
    pasleep,        \* producers inside _full_cond.Wait
    casleep,        \* consumers inside _empty_cond.Wait
    pwait,          \* those of pasleep that are not woken
    cwait           \* those of casleep that are not woken

vars == <<q, psleepnum, csleepnum, pasleep, casleep, pwait, cwait, hand, todo,
          sent, got>>

TypeOK ==
    /\ q \in Seq(Items)
    /\ psleepnum \in Nat
    /\ csleepnum \in Nat
    /\ pasleep \subseteq Producers
    /\ casleep \subseteq Consumers
    /\ pwait \subseteq pasleep
    /\ cwait \subseteq casleep
    /\ hand \in [Producers -> SUBSET Items]
    /\ todo \subseteq Items
    /\ sent \in Seq(Items)
    /\ got \in Seq(Items)

Init ==
    /\ q = <<>>
    /\ psleepnum = 0
    /\ csleepnum = 0
    /\ pasleep = {}
    /\ casleep = {}
    /\ pwait = {}
    /\ cwait = {}
    /\ hand = [p \in Producers |-> {}]
    /\ todo = Items
    /\ sent = <<>>
    /\ got = <<>>

\* `size() > _cap': the queue takes one item more than it has room for.
IsFullMutant == Len(q) > Cap

IsFull  == Len(q) >= Cap
IsEmpty == q = <<>>

\* What a signal may leave waiting: one waiter is woken, if there is one.
AfterSignal(s) == IF s = {} THEN {{}} ELSE {s \ {t} : t \in s}

\* One condition variable instead of two: the signal may wake the wrong side.
SignalConsumerMutant == pwait' \in AfterSignal(pwait) /\ UNCHANGED cwait

\* `if (_csleep_num > 0) _empty_cond.Signal()'
SignalConsumer ==
    /\ IF csleepnum > 0 THEN cwait' \in AfterSignal(cwait) ELSE UNCHANGED cwait
    /\ UNCHANGED pwait

\* `>= 2' where the code has `> 0': a single sleeper is forgotten.
SignalProducerMutant ==
    /\ IF psleepnum > 1 THEN pwait' \in AfterSignal(pwait) ELSE UNCHANGED pwait
    /\ UNCHANGED cwait

\* `if (_psleep_num > 0) _full_cond.Signal()'
SignalProducer ==
    /\ IF psleepnum > 0 THEN pwait' \in AfterSignal(pwait) ELSE UNCHANGED pwait
    /\ UNCHANGED cwait

-------------------------------------------------------------------------------
(* Equeue                                                                  *)

Produce(p, x) ==
    /\ hand[p] = {}
    /\ x \in todo
    /\ hand' = [hand EXCEPT ![p] = {x}]
    /\ todo' = todo \ {x}
    /\ UNCHANGED <<q, psleepnum, csleepnum, pasleep, casleep, pwait, cwait, sent,
                   got>>

\* The tail of Equeue, after the wait: push, then wake a consumer.
Push(p) ==
    /\ \E x \in hand[p] : q' = Append(q, x) /\ sent' = Append(sent, x)
    /\ hand' = [hand EXCEPT ![p] = {}]
    /\ SignalConsumer

\* The counter is not advanced before the wait.
EqueueSleepMutant(p) ==
    /\ hand[p] # {}
    /\ p \notin pasleep
    /\ IsFull
    /\ pasleep' = pasleep \cup {p}
    /\ pwait' = pwait \cup {p}
    /\ UNCHANGED <<q, psleepnum, csleepnum, casleep, cwait, hand, todo, sent, got>>

EqueueSleep(p) ==
    /\ hand[p] # {}
    /\ p \notin pasleep
    /\ IsFull
    /\ psleepnum' = psleepnum + 1
    /\ pasleep' = pasleep \cup {p}
    /\ pwait' = pwait \cup {p}
    /\ UNCHANGED <<q, csleepnum, casleep, cwait, hand, todo, sent, got>>

EqueuePush(p) ==
    /\ hand[p] # {}
    /\ p \notin pasleep
    /\ ~IsFull
    /\ Push(p)
    /\ UNCHANGED <<psleepnum, csleepnum, pasleep, casleep, todo, got>>

\* A woken producer has the mutex again: `while' looks once more ...
EqueueSleepAgain(p) ==
    /\ p \in pasleep \ pwait
    /\ Recheck /\ IsFull
    /\ pwait' = pwait \cup {p}
    /\ UNCHANGED <<q, psleepnum, csleepnum, pasleep, casleep, cwait, hand, todo,
                   sent, got>>

\* ... and `if' does not.
EqueueResume(p) ==
    /\ p \in pasleep \ pwait
    /\ ~(Recheck /\ IsFull)
    /\ psleepnum' = psleepnum - 1
    /\ pasleep' = pasleep \ {p}
    /\ Push(p)
    /\ UNCHANGED <<csleepnum, casleep, todo, got>>

-------------------------------------------------------------------------------
(* Pop                                                                     *)

\* The tail of Pop: front, pop, then wake a producer.
Take ==
    /\ got' = Append(got, Head(q))
    /\ q' = Tail(q)
    /\ SignalProducer

PopSleep(c) ==
    /\ c \notin casleep
    /\ IsEmpty
    /\ csleepnum' = csleepnum + 1
    /\ casleep' = casleep \cup {c}
    /\ cwait' = cwait \cup {c}
    /\ UNCHANGED <<q, psleepnum, pasleep, pwait, hand, todo, sent, got>>

PopTake(c) ==
    /\ c \notin casleep
    /\ ~IsEmpty
    /\ Take
    /\ UNCHANGED <<psleepnum, csleepnum, pasleep, casleep, hand, todo, sent>>

PopSleepAgain(c) ==
    /\ c \in casleep \ cwait
    /\ Recheck /\ IsEmpty
    /\ cwait' = cwait \cup {c}
    /\ UNCHANGED <<q, psleepnum, csleepnum, pasleep, casleep, pwait, hand, todo,
                   sent, got>>

\* With `if' a woken consumer may call front() on an empty queue, which is
\* undefined: the model has no such step and stops that consumer there.
PopResume(c) ==
    /\ c \in casleep \ cwait
    /\ ~IsEmpty
    /\ csleepnum' = csleepnum - 1
    /\ casleep' = casleep \ {c}
    /\ Take
    /\ UNCHANGED <<psleepnum, pasleep, hand, todo, sent>>

-------------------------------------------------------------------------------
\* POSIX: a condition wait may return though nothing signalled it.
SpuriousWakeup ==
    \/ /\ \E p \in pwait : pwait' = pwait \ {p}
       /\ UNCHANGED <<q, psleepnum, csleepnum, pasleep, casleep, cwait, hand,
                      todo, sent, got>>
    \/ /\ \E c \in cwait : cwait' = cwait \ {c}
       /\ UNCHANGED <<q, psleepnum, csleepnum, pasleep, casleep, pwait, hand,
                      todo, sent, got>>

Equeue(p) == EqueueSleep(p) \/ EqueuePush(p) \/ EqueueSleepAgain(p) \/ EqueueResume(p)
Pop(c)    == PopSleep(c) \/ PopTake(c) \/ PopSleepAgain(c) \/ PopResume(c)

Next ==
    \/ \E p \in Producers : Equeue(p) \/ \E x \in Items : Produce(p, x)
    \/ \E c \in Consumers : Pop(c)
    \/ SpuriousWakeup

Spec == Init /\ [][Next]_vars

(* Both loops of Main.cc run forever and the mutex is free between two      *)
(* steps, so each thread gets it in the end; nobody owes a spurious wakeup. *)
Fairness ==
    /\ \A p \in Producers : WF_vars(Equeue(p))
    /\ \A c \in Consumers : WF_vars(Pop(c))

FairSpec == Spec /\ Fairness

-------------------------------------------------------------------------------
(* Properties                                                              *)

Fifo == INSTANCE BoundedFifo WITH channel <- q, received <- got

(* The queue is a bounded first-in first-out channel (the comment of line   *)
(* 41: after the wait there is room for certain).                           *)
ImplementsFifo == Fifo!Spec

(* No lost wakeup, consumers' side: while a consumer sleeps unwoken, every  *)
(* queued item has a woken consumer on its way to it.                       *)
ItemsHaveTakers ==
    cwait # {} => Len(q) <= Cardinality(casleep \ cwait)

(* No lost wakeup, producers' side: while a producer sleeps unwoken, every  *)
(* free place has a woken producer on its way to it.                        *)
RoomHasUsers ==
    pwait # {} => Cap - Len(q) <= Cardinality(pasleep \ pwait)

(* The comment on _cap: the capacity is never exceeded.                     *)
CapacityKept == Len(q) <= Cap

(* Every item a producer calls Equeue with is popped in the end: neither    *)
(* side is left asleep beside work it could do.                             *)
EveryItemArrives ==
    \A x \in Items : (\E p \in Producers : x \in hand[p])
                        ~> \E i \in 1..Len(got) : got[i] = x
===============================================================================
