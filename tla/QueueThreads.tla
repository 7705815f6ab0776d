----------------------------- MODULE QueueThreads ------------------------------
(* What the two queues of test_03_25 have in common: the threads of their   *)
(* main functions, what these send and a history of it.  RingQueue's names  *)
(* begin with Ring where BlockQueue has one of the same name.               *)
EXTENDS Integers, Sequences, FiniteSets

CONSTANTS
    Producers, Consumers,   \* threads that call Equeue, threads that call Pop
    Cap,                    \* _cap; gcap = 5 in the code
    Items                   \* what can be sent, each item once

ASSUME QueueAssumption ==
    /\ IsFiniteSet(Producers)
    /\ IsFiniteSet(Consumers)
    /\ Cap \in Nat \ {0}

VARIABLES
    hand,           \* the argument of each producer's Equeue
    todo,           \* items no producer has produced yet
    sent,           \* history: what was put into the queue, in order
    got             \* history: what was taken from the queue, in order
===============================================================================
