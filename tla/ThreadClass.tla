--------------------------------- MODULE ThreadClass ---------------------------------
(***************************************************************************)
(* One object of the classes that wrap a pthread: Thread of test_03_20, the   *)
(* same with setname in test_03_31 ("Thread"), and Thread<T> of test_05_03    *)
(* ("session").  Its owner calls the methods in any order; threads end by     *)
(* themselves.  A call with a pthread_t that names no thread is undefined.    *)
(***************************************************************************)
EXTENDS Naturals, Sequences

CONSTANTS
    MaxCalls        \* calls of the owner (a bound of the model)

VARIABLES
    class,
    isdetach, isrunning,    \* _isdetach, _isrunning
    tid,        \* _tid: index of a thread, 0, or Dangling
    threads,    \* the threads made: alive, over (to be joined), gone; detached
    failed,     \* history: a pthread_create has failed
    calls,      \* history: the methods called
    undefined

vars == <<class, isdetach, isrunning, tid, threads, failed, calls, undefined>>

Dangling == MaxCalls + 1

Init ==
    /\ class \in {"Thread", "session"}
    /\ isdetach = FALSE /\ isrunning = FALSE
    /\ tid = 0
    /\ threads = <<>>
    /\ failed = FALSE
    /\ calls = <<>>
    /\ undefined = FALSE

\* The owner calls a method while nothing undefined has happened.
Call(method) ==
    /\ ~undefined /\ Len(calls) < MaxCalls
    /\ calls' = Append(calls, method)
    /\ UNCHANGED class

Names(i) == i \in DOMAIN threads /\ threads[i].state # "gone"

\* A detached thread that is over is gone.
Leaves(th) == [th EXCEPT !.state = IF th.detached THEN "gone" ELSE "over"]

Detached(th) ==
    [state |-> IF th.state = "over" THEN "gone" ELSE th.state, detached |-> TRUE]

-----------------------------------------------------------------------------
(* pthreads. *)

\* pthread_create writes _tid before it can fail for lack of threads.
Create(works) ==
    IF works
    THEN /\ threads' = Append(threads, [state |-> "alive", detached |-> FALSE])
         /\ tid' = Len(threads) + 1
         /\ UNCHANGED failed
    ELSE /\ tid' \in {tid, Dangling}
         /\ failed' = TRUE
         /\ UNCHANGED threads

\* pthread_join waits for the end, and fails for a detached thread.
JoinPthread ==
    IF ~Names(tid)
    THEN undefined' = TRUE /\ UNCHANGED threads
    ELSE /\ UNCHANGED undefined
         /\ IF threads[tid].detached THEN UNCHANGED threads
            ELSE /\ threads[tid].state = "over"
                 /\ threads' = [threads EXCEPT ![tid].state = "gone"]

ThreadEnds(i) ==
    /\ threads[i].state = "alive"
    /\ threads' = [threads EXCEPT ![i] = Leaves(@)]
    /\ UNCHANGED <<class, isdetach, isrunning, tid, failed, calls, undefined>>

-----------------------------------------------------------------------------
(* Thread. *)

\* EnableDetach does nothing for a running thread.
Detach ==
    /\ class = "Thread" /\ Call("Detach")
    /\ isdetach' = (isdetach \/ ~isrunning)
    /\ IF isdetach \/ ~isrunning THEN UNCHANGED <<threads, undefined>>
       ELSE IF ~Names(tid) THEN undefined' = TRUE /\ UNCHANGED threads
       ELSE /\ threads' = [threads EXCEPT ![tid] = Detached(@)]
            /\ UNCHANGED undefined
    /\ UNCHANGED <<isrunning, tid, failed>>

\* Of a failure it only complains; Detach of a detached object returns at once, so
\* that a thread detached beforehand is not detached at all.
Start(works) ==
    /\ class = "Thread" /\ Call("Start")
    /\ IF isrunning THEN works /\ UNCHANGED <<threads, tid, failed>> ELSE Create(works)
    /\ isrunning' = TRUE
    /\ UNCHANGED <<isdetach, undefined>>

\* pthread_cancel of a thread that is over may fail or not.
Stop(works) ==
    /\ class = "Thread" /\ Call("Stop")
    /\ IF ~isrunning THEN works /\ UNCHANGED <<isrunning, threads, undefined>>
       ELSE IF ~Names(tid) THEN undefined' = TRUE /\ works /\ UNCHANGED <<isrunning, threads>>
       ELSE /\ works \/ threads[tid].state = "over"
            /\ isrunning' = ~works
            /\ threads' = [threads EXCEPT ![tid] = IF @.state = "alive" THEN Leaves(@) ELSE @]
            /\ UNCHANGED undefined
    /\ UNCHANGED <<isdetach, tid, failed>>

\* _isrunning is left as it is.
Join ==
    /\ class = "Thread" /\ Call("Join")
    /\ IF isdetach THEN UNCHANGED <<threads, undefined>> ELSE JoinPthread
    /\ UNCHANGED <<isdetach, isrunning, tid, failed>>

-----------------------------------------------------------------------------
(* Thread<T> of test_05_03. *)

SessionStart(works) ==
    /\ class = "session" /\ Call("Start")
    /\ Create(works)
    /\ isrunning' = (isrunning \/ works)
    /\ UNCHANGED <<isdetach, undefined>>

\* Join without its guard.
JoinableMutant == TRUE

Joinable == isrunning

SessionJoin ==
    /\ class = "session" /\ Call("Join")
    /\ IF Joinable
       THEN /\ JoinPthread
            /\ isrunning' = (threads' = threads)
       ELSE UNCHANGED <<threads, undefined, isrunning>>
    /\ UNCHANGED <<isdetach, tid, failed>>

Next ==
    \/ Detach \/ Join \/ SessionJoin
    \/ \E works \in BOOLEAN : Start(works) \/ Stop(works) \/ SessionStart(works)
    \/ \E i \in DOMAIN threads : ThreadEnds(i)

-----------------------------------------------------------------------------
(* Properties. *)

TypeOK ==
    /\ tid \in 0..Dangling
    /\ threads \in Seq([state : {"alive", "over", "gone"}, detached : BOOLEAN])
    /\ isdetach \in BOOLEAN /\ isrunning \in BOOLEAN

\* Some call of `first' came before some call of `second'.
Before(first, second) ==
    \E i, j \in DOMAIN calls : i < j /\ calls[i] = first /\ calls[j] = second

JoinsFirst ==
    \E j \in DOMAIN calls : calls[j] = "Join" /\ \A i \in 1..(j - 1) : calls[i] # "Start"

(* What an owner has to keep so that nothing undefined happens: with Thread, that *)
(* pthread_create works, Join follows Start and is called once and last, and    *)
(* Detach comes before Start or not at all; with Thread<T> only that Start is called once,    *)
(* for its Join knows whether there is something to join.  And a thread that    *)
(* Detach said to be detached before Start never is: nobody frees it.           *)
CallsDefined ==
    /\ undefined =>
         IF class = "session" THEN Before("Start", "Start")
         ELSE failed \/ Before("Start", "Detach") \/ JoinsFirst \/ Before("Join", "Join")
              \/ Before("Join", "Stop")
    /\ isdetach /\ ~Before("Start", "Detach") =>
          \A i \in DOMAIN threads : ~threads[i].detached /\ threads[i].state # "gone"

Called(method) == \E i \in DOMAIN calls : calls[i] = method

ObjectTypes ==
    /\ TypeOK
    /\ class \in {"Thread", "session"}
    /\ failed \in BOOLEAN /\ undefined \in BOOLEAN
    /\ calls \in Seq({"Start", "Detach", "Stop", "Join"})
    /\ Len(threads) <= Len(calls) /\ Len(calls) <= MaxCalls

\* Before Start there is nothing, and Detach is all that makes an object detached.
Beginning ==
    /\ ~Called("Start") => threads = <<>> /\ ~isrunning
    /\ isdetach => Called("Detach") /\ class = "Thread"

NoneDetached == \A i \in DOMAIN threads : ~threads[i].detached

IdNames ==
    /\ class = "session" =>
          /\ NoneDetached
          /\ isrunning /\ ~Before("Start", "Start") => Names(tid)
    /\ class = "Thread" /\ ~Before("Start", "Detach") =>
          /\ NoneDetached
          /\ ~failed /\ Called("Start") /\ ~Called("Join") => Names(tid)

(* What it rests on: the id of an object names its thread from Start to Join, as *)
(* long as the owner keeps to the order, and no thread is detached but by a      *)
(* Detach after Start.                                                          *)
ObjectInv == ObjectTypes /\ Beginning /\ IdNames /\ CallsDefined
=============================================================================
