--------------------------- MODULE ThreadPoolProofs ---------------------------
(* Safety of ThreadPool for any set of workers, clients and tasks, proved   *)
(* in three layers: who holds the mutex and who is counted as asleep        *)
(* (SleepInv), the order of creation, start and stop (LifeInv), and what    *)
(* the queue promises (PoolInv).                                            *)
EXTENDS ThreadPool, FiniteSetTheorems, TLAPS

(* _mutex is held exactly by the worker between its lock and its unlock.    *)
MutexHeld == \A w \in Workers : mutex = w <=> wpc[w] \in {"check", "decide"}

(* Only a worker inside _cond.Wait can be unwoken.                          *)
WaitersAsleep == waiting \subseteq Asleep

(* What Enqueue carries: the argument is set from the call to the push.     *)
ArgSet ==
    \A c \in Clients :
        /\ cpc[c] = "push" => op[c] = "Enqueue"
        /\ op[c] = "Enqueue" /\ cpc[c] # "idle" => arg[c] \in Tasks

(* A running worker runs a task.                                            *)
CurSet == \A w \in Workers : wpc[w] = "run" => cur[w] \in Tasks

SleepInv == TypeOK /\ ArgSet /\ CurSet /\ MutexHeld /\ WaitersAsleep /\ SleeperCount

-------------------------------------------------------------------------------
(* Asleep is finite, so that its cardinality is a number.                   *)
LEMMA AsleepFinite == IsFiniteSet(Asleep) /\ Cardinality(Asleep) \in Nat
  BY PoolAssumption, FS_Subset, FS_CardinalityType DEF Asleep

(* A worker that enters the wait adds one sleeper.                          *)
LEMMA SleepCounts ==
  ASSUME TypeOK, NEW w \in Workers, wpc[w] # "wait",
         wpc' = [wpc EXCEPT ![w] = "wait"]
  PROVE  Cardinality(Asleep') = Cardinality(Asleep) + 1
<1>1. Asleep' = Asleep \cup {w}
  BY DEF Asleep, TypeOK
<1>2. w \notin Asleep
  BY DEF Asleep
<1> QED BY <1>1, <1>2, AsleepFinite, FS_AddElement

(* A worker that leaves the wait takes one away.                            *)
LEMMA WakeCounts ==
  ASSUME TypeOK, NEW w \in Workers, wpc[w] = "wait", NEW to, to # "wait",
         wpc' = [wpc EXCEPT ![w] = to]
  PROVE  /\ Cardinality(Asleep') = Cardinality(Asleep) - 1
         /\ Cardinality(Asleep) \in Nat \ {0}
<1>1. Asleep' = Asleep \ {w}
  BY DEF Asleep, TypeOK
<1>2. w \in Asleep
  BY DEF Asleep
<1>3. Cardinality(Asleep) # 0
  BY <1>2, AsleepFinite, FS_EmptySet
<1> QED BY <1>1, <1>2, <1>3, AsleepFinite, FS_RemoveElement

(* Any other move of a worker leaves the sleepers as they are.              *)
LEMMA OtherKeepsAsleep ==
  ASSUME TypeOK, NEW w \in Workers, wpc[w] # "wait", NEW to, to # "wait",
         wpc' = [wpc EXCEPT ![w] = to]
  PROVE  Asleep' = Asleep
  BY DEF Asleep, TypeOK

(* The whole pool asleep is what _sleepernum == _threads.size() says.       *)
LEMMA AllAsleepIsDue ==
  ASSUME SleeperCount, Workers \subseteq Asleep
  PROVE  SignalDue(sleepernum)
<1>1. Asleep = Workers
  BY DEF Asleep
<1> QED BY <1>1 DEF SleeperCount, SignalDue

-------------------------------------------------------------------------------
(* First layer.                                                            *)

(* Before the first GetInstance nobody sleeps.                              *)
LEMMA SleepInit == Init => SleepInv
<1> SUFFICES ASSUME Init PROVE SleepInv
  OBVIOUS
<1>1. TypeOK
  <2>1. /\ wpc \in [Workers -> WorkerPC]
        /\ cur \in [Workers -> Tasks \cup {None}]
        /\ cpc \in [Clients -> ClientPC]
        /\ op \in [Clients -> Operation]
        /\ arg \in [Clients -> Tasks \cup {None}]
    BY DEF Init, WorkerPC, ClientPC, Operation
  <2>2. taskq \in Seq(Tasks)
    BY DEF Init
  <2> QED BY <2>1, <2>2 DEF Init, TypeOK
<1>4. ArgSet /\ CurSet /\ MutexHeld /\ WaitersAsleep
  BY PoolAssumption DEF Init, ArgSet, CurSet, MutexHeld, WaitersAsleep
<1>2. Asleep = {}
  BY DEF Init, Asleep
<1>3. SleeperCount
  BY <1>2, FS_EmptySet DEF Init, SleeperCount
<1> QED BY <1>1, <1>3, <1>4 DEF SleepInv

(* The steps of a client leave the workers, their mutex and _sleepernum     *)
(* alone, but may wake sleepers.                                            *)
LEMMA ClientSleep ==
  ASSUME SleepInv, NEW c \in Clients,
         Call(c) \/ GetInstance(c) \/ Enqueue(c) \/ Stop(c) \/ Join(c)
  PROVE  SleepInv'
<1> USE PoolAssumption DEF SleepInv, TypeOK, poolVars, workerVars, clientVars,
                           history
<1> DEFINE Same == UNCHANGED <<wpc, cur, mutex, sleepernum, waiting>>
<1>same. ASSUME Same PROVE (CurSet /\ MutexHeld /\ WaitersAsleep /\ SleeperCount)'
  BY <1>same DEF CurSet, MutexHeld, WaitersAsleep, SleeperCount, Asleep
<1>1. ASSUME NEW t \in Tasks, CallEnqueue(c, t) PROVE SleepInv'
  BY <1>1, <1>same DEF CallEnqueue, FirstLook, ArgSet, ClientPC, Operation
<1>2. CASE CallStop(c)
  BY <1>2, <1>same DEF CallStop, FirstLook, ArgSet, ClientPC, Operation
<1>3. CASE CallJoin(c)
  BY <1>3, <1>same DEF CallJoin, FirstLook, ArgSet, ClientPC, Operation
<1>4. CASE GetLock(c)
  BY <1>4, <1>same DEF GetLock, ArgSet, ClientPC
<1>5. CASE GetFound(c)
  BY <1>5, <1>same DEF GetFound, ArgSet, ClientPC
<1>6. CASE GetCreate(c)
  BY <1>6, <1>same DEF GetCreate, ArgSet, ClientPC
<1>7. CASE Start(c)
  BY <1>7, <1>same DEF Start, ArgSet, ClientPC
<1>8. ASSUME NEW w \in Workers, SpawnThread(c, w) PROVE SleepInv'
  <2> PICK to \in {"lock", "failed"} : wpc' = [wpc EXCEPT ![w] = to]
    BY <1>8 DEF SpawnThread
  <2>1. Asleep' = Asleep
    BY <1>8, OtherKeepsAsleep DEF SpawnThread
  <2>2. TypeOK' /\ ArgSet' /\ CurSet' /\ MutexHeld'
    BY <1>8 DEF SpawnThread, ArgSet, CurSet, MutexHeld, WorkerPC
  <2> QED BY <1>8, <2>1, <2>2 DEF SpawnThread, WaitersAsleep, SleeperCount
<1>9. CASE SpawnDone(c)
  BY <1>9, <1>same DEF SpawnDone, ArgSet, ClientPC
<1>10. CASE EnqueueCheck(c)
  BY <1>10, <1>same DEF EnqueueCheck, ArgSet, ClientPC
<1>11. CASE EnqueuePush(c)
  <2>1. waiting' \subseteq waiting
    BY <1>11 DEF EnqueuePush, AfterSignal
  <2>2. arg[c] \in Tasks
    BY <1>11 DEF EnqueuePush, ArgSet
  <2>3. TypeOK'
    BY <1>11, <2>1, <2>2 DEF EnqueuePush, ClientPC
  <2>4. ArgSet'
    BY <1>11 DEF EnqueuePush, ArgSet
  <2>5. (CurSet /\ MutexHeld /\ WaitersAsleep /\ SleeperCount)'
    BY <1>11, <2>1
       DEF EnqueuePush, CurSet, MutexHeld, WaitersAsleep, SleeperCount, Asleep
  <2> QED BY <2>3, <2>4, <2>5
<1>12. CASE StopCheck(c)
  BY <1>12, <1>same DEF StopCheck, ArgSet, ClientPC
<1>13. CASE StopWrite(c)
  BY <1>13, <1>same DEF StopWrite, ArgSet, ClientPC
<1>14. CASE WakeAllThread(c)
  BY <1>14 DEF WakeAllThread, ArgSet, CurSet, ClientPC, MutexHeld, WaitersAsleep,
     SleeperCount, Asleep
<1>15. CASE JoinEnter(c)
  BY <1>15, <1>same DEF JoinEnter, ArgSet, ClientPC
<1>16. CASE JoinReturn(c)
  BY <1>16, <1>same DEF JoinReturn, ArgSet, ClientPC
<1>17. CASE JoinCrash(c)
  BY <1>17, <1>same DEF JoinCrash, ArgSet, ClientPC
<1> QED
  BY <1>1, <1>2, <1>3, <1>4, <1>5, <1>6, <1>7, <1>8, <1>9, <1>10, <1>11, <1>12,
     <1>13, <1>14, <1>15, <1>16, <1>17 DEF Call, GetInstance, Enqueue, Stop, Join

(* The steps of a worker keep the count of sleepers and the mutex right.    *)
LEMMA WorkerSleepInv ==
  ASSUME SleepInv, NEW w \in Workers, WorkerStep(w) \/ SpuriousWakeup(w)
  PROVE  SleepInv'
<1> USE PoolAssumption DEF SleepInv, TypeOK, poolVars, workerVars, clientVars,
                           history
<1>1. CASE WorkerLock(w)
  <2>1. Asleep' = Asleep
    BY <1>1, OtherKeepsAsleep DEF WorkerLock
  <2>2. TypeOK' /\ ArgSet' /\ CurSet' /\ MutexHeld'
    BY <1>1 DEF WorkerLock, ArgSet, CurSet, MutexHeld, WorkerPC
  <2> QED BY <1>1, <2>1, <2>2 DEF WorkerLock, WaitersAsleep, SleeperCount
<1>2. CASE WorkerSleep(w)
  <2>1. Cardinality(Asleep') = Cardinality(Asleep) + 1
    BY <1>2, SleepCounts DEF WorkerSleep
  <2>2. TypeOK' /\ ArgSet' /\ CurSet' /\ MutexHeld'
    BY <1>2 DEF WorkerSleep, ArgSet, CurSet, MutexHeld, WorkerPC
  <2>3. WaitersAsleep'
    BY <1>2 DEF WorkerSleep, WaitersAsleep, Asleep
  <2> QED BY <1>2, <2>1, <2>2, <2>3 DEF WorkerSleep, SleeperCount
<1>3. CASE WorkerGo(w)
  <2>1. Asleep' = Asleep
    BY <1>3, OtherKeepsAsleep DEF WorkerGo
  <2>2. TypeOK' /\ ArgSet' /\ CurSet' /\ MutexHeld'
    BY <1>3 DEF WorkerGo, ArgSet, CurSet, MutexHeld, WorkerPC
  <2> QED BY <1>3, <2>1, <2>2 DEF WorkerGo, WaitersAsleep, SleeperCount
<1>4. CASE WorkerWake(w)
  <2>1. /\ Cardinality(Asleep') = Cardinality(Asleep) - 1
        /\ Cardinality(Asleep) \in Nat \ {0}
    BY <1>4, WakeCounts DEF WorkerWake
  <2>2. sleepernum' \in Nat /\ SleeperCount'
    BY <1>4, <2>1 DEF WorkerWake, SleeperCount
  <2>3. TypeOK' /\ ArgSet' /\ CurSet' /\ MutexHeld'
    BY <1>4, <2>2 DEF WorkerWake, ArgSet, CurSet, MutexHeld, WorkerPC
  <2>4. WaitersAsleep'
    BY <1>4 DEF WorkerWake, WaitersAsleep, Asleep
  <2> QED BY <2>2, <2>3, <2>4
<1>5. CASE WorkerExit(w)
  <2>1. Asleep' = Asleep
    BY <1>5, OtherKeepsAsleep DEF WorkerExit
  <2>2. TypeOK' /\ ArgSet' /\ CurSet' /\ MutexHeld'
    BY <1>5 DEF WorkerExit, ArgSet, CurSet, MutexHeld, WorkerPC
  <2> QED BY <1>5, <2>1, <2>2 DEF WorkerExit, WaitersAsleep, SleeperCount
<1>6. CASE WorkerTake(w)
  <2>1. Asleep' = Asleep
    BY <1>6, OtherKeepsAsleep DEF WorkerTake
  <2>2. TypeOK' /\ ArgSet' /\ CurSet' /\ MutexHeld'
    BY <1>6 DEF WorkerTake, ArgSet, CurSet, MutexHeld, WorkerPC
  <2> QED BY <1>6, <2>1, <2>2 DEF WorkerTake, WaitersAsleep, SleeperCount
<1>7. CASE WorkerRun(w)
  <2>1. Asleep' = Asleep
    BY <1>7, OtherKeepsAsleep DEF WorkerRun
  <2>2. TypeOK' /\ ArgSet' /\ CurSet' /\ MutexHeld'
    BY <1>7 DEF WorkerRun, ArgSet, CurSet, MutexHeld, WorkerPC
  <2> QED BY <1>7, <2>1, <2>2 DEF WorkerRun, WaitersAsleep, SleeperCount
<1>8. CASE SpuriousWakeup(w)
  BY <1>8 DEF SpuriousWakeup, ArgSet, CurSet, MutexHeld, WaitersAsleep, SleeperCount,
     Asleep
<1> QED
  BY <1>1, <1>2, <1>3, <1>4, <1>5, <1>6, <1>7, <1>8 DEF WorkerStep

(* A stuttering step keeps SleepInv.                                        *)
LEMMA SleepStutter == ASSUME SleepInv, UNCHANGED vars PROVE SleepInv'
  BY DEF SleepInv, TypeOK, ArgSet, CurSet, MutexHeld, WaitersAsleep, SleeperCount, Asleep,
     vars

(* Types, the mutex discipline of the workers and the exact count of the    *)
(* sleepers, for any number of workers, clients and tasks.                  *)
THEOREM SleepCorrect == Spec => []SleepInv
<1>1. SleepInv /\ [Next]_vars => SleepInv'
  BY ClientSleep, WorkerSleepInv, SleepStutter DEF Next, Steps, Crashed
<1> QED BY SleepInit, <1>1, PTL DEF Spec

(* TypeOK and SleeperCount hold in every reachable state.                   *)
THEOREM TypeCorrect == Spec => []TypeOK
<1>1. SleepInv => TypeOK
  BY DEF SleepInv
<1> QED BY SleepCorrect, <1>1, PTL

(* _sleepernum is the number of workers inside _cond.Wait.                  *)
THEOREM SleeperCountCorrect == Spec => []SleeperCount
<1>1. SleepInv => SleeperCount
  BY DEF SleepInv
<1> QED BY SleepCorrect, <1>1, PTL


-------------------------------------------------------------------------------
(* Second layer: creation, start and stop happen once and in this order.   *)

(* GetInstance is past `_is_running = true'.                                *)
Started == inc /\ \A c \in Clients : cpc[c] # "start"

(* _lock is held exactly between the two mutex operations of GetInstance.   *)
LockHeld ==
    \A c \in Clients : lock = c <=> cpc[c] \in {"getcheck", "start", "spawn"}

(* Whoever starts or uses the pool does so after it was published.          *)
StartAfterCreate ==
    \A c \in Clients : cpc[c] \in {"start", "spawn", "enter"} => inc

(* Before Start nothing of the pool has moved.                              *)
BeforeStart ==
    ~Started => /\ ~isRunning
                /\ ~stopped
                /\ \A w \in Workers : wpc[w] = "unstarted"
                /\ \A c \in Clients : cpc[c] # "stopwrite"

(* After Start the flag is true until Stop, and never again.                *)
AfterStart == Started => (isRunning <=> ~stopped)

LifeInv == LockHeld /\ StartAfterCreate /\ BeforeStart /\ AfterStart

(* No step starts the pool twice, before it exists or after a Stop.         *)
LEMMA LifeStep ==
  ASSUME SleepInv, LifeInv, [Next]_vars
  PROVE  LifeInv'
<1> USE PoolAssumption DEF SleepInv, TypeOK, poolVars, workerVars, clientVars,
                           history, LifeInv
<1>1. ASSUME NEW c \in Clients,
             \/ \E t \in Tasks : CallEnqueue(c, t)
             \/ CallStop(c)
             \/ CallJoin(c)
      PROVE  LifeInv'
  BY <1>1 DEF CallEnqueue, CallStop, CallJoin, FirstLook, Started, LockHeld,
     StartAfterCreate, BeforeStart, AfterStart
<1>2. ASSUME NEW c \in Clients, GetLock(c) \/ GetFound(c) \/ SpawnDone(c)
      PROVE  LifeInv'
  BY <1>2 DEF GetLock, GetFound, SpawnDone, Started, LockHeld,
     StartAfterCreate, BeforeStart, AfterStart
<1>3. ASSUME NEW c \in Clients, GetCreate(c) PROVE LifeInv'
  BY <1>3 DEF GetCreate, Started, LockHeld, StartAfterCreate, BeforeStart,
     AfterStart
<1>4. ASSUME NEW c \in Clients, Start(c) PROVE LifeInv'
  BY <1>4 DEF Start, Started, LockHeld, StartAfterCreate, BeforeStart, AfterStart
<1>5. ASSUME NEW c \in Clients, NEW w \in Workers, SpawnThread(c, w)
      PROVE  LifeInv'
  <2>1. Started
    BY <1>5 DEF SpawnThread, Started, LockHeld, StartAfterCreate
  <2> QED BY <1>5, <2>1 DEF SpawnThread, Started, LockHeld, StartAfterCreate,
          BeforeStart, AfterStart
<1>6. ASSUME NEW c \in Clients, EnqueueCheck(c) \/ EnqueuePush(c)
      PROVE  LifeInv'
  BY <1>6 DEF EnqueueCheck, EnqueuePush, Started, LockHeld, StartAfterCreate,
     BeforeStart, AfterStart
<1>7. ASSUME NEW c \in Clients, StopCheck(c) PROVE LifeInv'
  BY <1>7 DEF StopCheck, Started, LockHeld, StartAfterCreate, BeforeStart,
     AfterStart
<1>8. ASSUME NEW c \in Clients, StopWrite(c) PROVE LifeInv'
  BY <1>8 DEF StopWrite, Started, LockHeld, StartAfterCreate, BeforeStart,
     AfterStart
<1>9. ASSUME NEW c \in Clients,
             WakeAllThread(c) \/ JoinEnter(c) \/ JoinReturn(c)
             \/ JoinCrash(c)
      PROVE  LifeInv'
  BY <1>9 DEF WakeAllThread, JoinEnter, JoinReturn, JoinCrash, Started, LockHeld,
     StartAfterCreate, BeforeStart, AfterStart
<1>10. ASSUME NEW w \in Workers, WorkerStep(w) \/ SpuriousWakeup(w)
       PROVE  LifeInv'
  <2>1. UNCHANGED <<inc, cpc, lock, isRunning, stopped>>
    BY <1>10 DEF WorkerStep, SpuriousWakeup, WorkerLock, WorkerSleep, WorkerGo,
       WorkerWake, WorkerExit, WorkerTake, WorkerRun
  <2>2. wpc[w] # "unstarted"
    BY <1>10 DEF WorkerStep, SpuriousWakeup, WorkerLock, WorkerSleep, WorkerGo,
       WorkerWake, WorkerExit, WorkerTake, WorkerRun, WaitersAsleep, Asleep
  <2>3. Started
    BY <2>2 DEF BeforeStart
  <2> QED BY <2>1, <2>3 DEF Started, LockHeld, StartAfterCreate, BeforeStart,
          AfterStart
<1>11. CASE UNCHANGED vars
  BY <1>11 DEF vars, Started, LockHeld, StartAfterCreate, BeforeStart, AfterStart
<1> QED
  BY <1>1, <1>2, <1>3, <1>4, <1>5, <1>6, <1>7, <1>8, <1>9, <1>10, <1>11
     DEF Next, Steps, Crashed, Call, GetInstance, Enqueue, Stop, Join

(* The flag is raised once, after the pool was published, under _lock, and  *)
(* is down for good after the first Stop.                                   *)
THEOREM LifeCorrect == Spec => []LifeInv
<1>1. Init => LifeInv
  BY PoolAssumption DEF Init, LifeInv, Started, LockHeld, StartAfterCreate,
     BeforeStart, AfterStart
<1>2. SleepInv /\ LifeInv /\ [Next]_vars => LifeInv'
  BY LifeStep
<1> QED BY SleepCorrect, <1>1, <1>2, PTL DEF Spec

-------------------------------------------------------------------------------
(* Third layer: what the queue promises.                                   *)

(* The task in a client's hands is nobody else's and was not pushed before. *)
HeldOnce ==
    /\ early \cap todo = {}
    /\ \A c \in Clients : arg[c] # None =>
          /\ arg[c] \notin todo \cup early
          /\ \A d \in Clients \ {c} : arg[d] # arg[c]

(* A worker past the loop has a task, or the pool has stopped.              *)
PastTheLoop ==
    \A w \in Workers : wpc[w] = "decide" => taskq # <<>> \/ ~isRunning

ExitAfterStop == \A w \in Workers : wpc[w] = "exited" => stopped

PoolInv ==
    /\ HeldOnce
    /\ PastTheLoop
    /\ ExitAfterStop
    /\ NoLostWakeup
    /\ StopReachesSleepers
    /\ DrainedOnExit


(* The steps of GetInstance, Stop and Join touch neither the queue nor the  *)
(* tasks in hand.                                                           *)
LEMMA QuietClient ==
  ASSUME NEW c \in Clients,
         GetInstance(c) \/ Stop(c) \/ Join(c) \/ CallStop(c) \/ CallJoin(c)
  PROVE  UNCHANGED <<taskq, arg, todo, early, cur>>
  BY DEF GetInstance, Stop, Join, CallStop, CallJoin, GetLock, GetFound, GetCreate,
     Start, SpawnThread, SpawnDone, StopCheck, StopWrite, WakeAllThread, JoinEnter,
     JoinReturn, JoinCrash, poolVars, workerVars, clientVars, history

(* A worker touches neither the clients nor the flag.                       *)
LEMMA WorkerFrame ==
  ASSUME NEW w \in Workers, WorkerStep(w) \/ SpuriousWakeup(w)
  PROVE  /\ UNCHANGED <<isRunning, cpc, arg, todo, early, stopped>>
         /\ taskq' = taskq \/ WorkerTake(w)
  BY DEF WorkerStep, SpuriousWakeup, WorkerLock, WorkerSleep, WorkerGo, WorkerWake,
     WorkerExit, WorkerTake, WorkerRun, poolVars, workerVars, clientVars, history

(* A client only moves a worker by creating it.                             *)
LEMMA ClientFrame ==
  ASSUME NEW c \in Clients,
         Call(c) \/ GetInstance(c) \/ Enqueue(c) \/ Stop(c) \/ Join(c)
  PROVE  /\ wpc' = wpc \/ \E w \in Workers : SpawnThread(c, w)
         /\ waiting' = waiting \/ EnqueuePush(c) \/ WakeAllThread(c)
         /\ taskq' = taskq \/ EnqueuePush(c)
         /\ isRunning' = isRunning \/ Start(c) \/ StopWrite(c)
         /\ stopped' = stopped \/ StopWrite(c)
         /\ early' = early \/ EnqueuePush(c)
  BY DEF Call, GetInstance, Enqueue, Stop, Join, CallEnqueue, CallStop, CallJoin,
     GetLock, GetFound, GetCreate, Start, SpawnThread, SpawnDone, EnqueueCheck,
     EnqueuePush, StopCheck, StopWrite, WakeAllThread, JoinEnter, JoinReturn, JoinCrash,
     poolVars, workerVars, clientVars, history

(* No step puts one task in two places.                                     *)
LEMMA HeldOnceStep ==
  ASSUME SleepInv, HeldOnce, [Next]_vars
  PROVE  HeldOnce'
<1> USE PoolAssumption DEF SleepInv, TypeOK, HeldOnce
<1>1. ASSUME NEW c \in Clients, NEW t \in Tasks, CallEnqueue(c, t)
      PROVE  HeldOnce'
  BY <1>1 DEF CallEnqueue, history
<1>2. ASSUME NEW c \in Clients, EnqueueCheck(c) PROVE HeldOnce'
  BY <1>2 DEF EnqueueCheck, history
<1>3. ASSUME NEW c \in Clients, EnqueuePush(c) PROVE HeldOnce'
  <2>1. arg[c] # None
    BY <1>3 DEF EnqueuePush, ArgSet
  <2> QED BY <1>3, <2>1 DEF EnqueuePush
<1>4. ASSUME NEW c \in Clients,
             GetInstance(c) \/ Stop(c) \/ Join(c) \/ CallStop(c) \/ CallJoin(c)
      PROVE  HeldOnce'
  BY <1>4, QuietClient
<1>5. ASSUME NEW w \in Workers, WorkerStep(w) \/ SpuriousWakeup(w)
      PROVE  HeldOnce'
  BY <1>5, WorkerFrame
<1>6. CASE UNCHANGED vars
  BY <1>6 DEF vars
<1> QED BY <1>1, <1>2, <1>3, <1>4, <1>5, <1>6 DEF Next, Steps, Crashed, Call, Enqueue

(* A worker past the loop of line 108 keeps its reason: a task, or the      *)
(* stop.                                                                    *)
LEMMA PastTheLoopStep ==
  ASSUME SleepInv, LifeInv, PastTheLoop, [Next]_vars
  PROVE  PastTheLoop'
<1> USE PoolAssumption DEF SleepInv, TypeOK, PastTheLoop, LifeInv
<1>1. ASSUME NEW c \in Clients, Start(c) PROVE PastTheLoop'
  BY <1>1 DEF Start, BeforeStart, Started, workerVars
<1>2. ASSUME NEW c \in Clients, EnqueuePush(c) PROVE PastTheLoop'
  <2>1. \A w \in Workers : wpc[w] # "decide"
    BY <1>2 DEF EnqueuePush, MutexHeld
  <2> QED BY <1>2, <2>1 DEF EnqueuePush, workerVars
<1>3. ASSUME NEW c \in Clients, NEW w \in Workers, SpawnThread(c, w)
      PROVE  PastTheLoop'
  BY <1>3 DEF SpawnThread, poolVars
<1>4. ASSUME NEW c \in Clients, StopWrite(c) PROVE PastTheLoop'
  BY <1>4 DEF StopWrite
<1>5. ASSUME NEW c \in Clients, UNCHANGED <<wpc, taskq, isRunning>>
      PROVE PastTheLoop'
  BY <1>5
<1>6. ASSUME NEW w \in Workers, WorkerStep(w) \/ SpuriousWakeup(w)
      PROVE  PastTheLoop'
  <2>1. CASE WorkerGo(w)
    BY <2>1 DEF WorkerGo, MustSleep, poolVars
  <2>2. CASE WorkerTake(w)
    <3>1. \A v \in Workers \ {w} : wpc[v] # "decide"
      BY <2>2 DEF WorkerTake, MutexHeld
    <3> QED BY <2>2, <3>1 DEF WorkerTake
  <2>3. CASE ~WorkerGo(w) /\ ~WorkerTake(w)
    BY <1>6, <2>3 DEF WorkerStep, SpuriousWakeup, WorkerLock, WorkerSleep,
       WorkerWake, WorkerExit, WorkerRun, poolVars, workerVars
  <2> QED BY <2>1, <2>2, <2>3
<1>7. CASE UNCHANGED vars
  BY <1>7 DEF vars
<1> QED BY <1>1, <1>2, <1>3, <1>4, <1>5, <1>6, <1>7, ClientFrame DEF Next, Steps, Crashed

(* No worker leaves HandlerTask before Stop.                                *)
LEMMA ExitAfterStopStep ==
  ASSUME SleepInv, LifeInv, ExitAfterStop, [Next]_vars
  PROVE  ExitAfterStop'
<1> USE DEF SleepInv, TypeOK, ExitAfterStop
<1>1. ASSUME NEW c \in Clients,
             Call(c) \/ GetInstance(c) \/ Enqueue(c) \/ Stop(c) \/ Join(c)
      PROVE  ExitAfterStop'
  <2>1. stopped => stopped'
    BY <1>1, ClientFrame DEF StopWrite
  <2>2. \A w \in Workers : wpc'[w] = "exited" => wpc[w] = "exited"
    BY <1>1, ClientFrame DEF SpawnThread
  <2> QED BY <2>1, <2>2
<1>2. ASSUME NEW w \in Workers, WorkerExit(w) PROVE ExitAfterStop'
  <2>1. stopped
    BY <1>2 DEF WorkerExit, ExitDue, LifeInv, BeforeStart, AfterStart
  <2> QED BY <1>2, <2>1 DEF WorkerExit, history
<1>3. ASSUME NEW w \in Workers, WorkerStep(w) \/ SpuriousWakeup(w), ~WorkerExit(w)
      PROVE  ExitAfterStop'
  BY <1>3 DEF WorkerStep, SpuriousWakeup, WorkerLock, WorkerSleep, WorkerGo,
     WorkerWake, WorkerTake, WorkerRun, workerVars, history
<1>4. CASE UNCHANGED vars
  BY <1>4 DEF vars
<1> QED BY <1>1, <1>2, <1>3, <1>4 DEF Next, Steps, Crashed


(* No step leaves a queued task with every thread blocked and unwoken.      *)
LEMMA NoLostWakeupStep ==
  ASSUME SleepInv, LifeInv, ExitAfterStop, NoLostWakeup, [Next]_vars
  PROVE  NoLostWakeup'
<1> USE PoolAssumption DEF SleepInv, TypeOK, NoLostWakeup, AllCreated
<1>1. ASSUME NEW c \in Clients, EnqueuePush(c) PROVE NoLostWakeup'
  <2> SUFFICES ASSUME AllCreated
               PROVE  \E w \in Workers : w \notin waiting'
    BY <1>1 DEF EnqueuePush, workerVars
  <2>1. waiting' \subseteq waiting
    BY <1>1 DEF EnqueuePush, AfterSignal
  <2>2. CASE Workers \subseteq waiting
    \* Everybody is blocked: the signal is due, and takes one waiter out.
    <3>1. SignalDue(sleepernum)
      BY <2>2, AllAsleepIsDue DEF WaitersAsleep
    <3>2. waiting # {} /\ waiting \subseteq Workers
      BY <2>2
    <3>3. waiting' \in AfterSignal(waiting)
      BY <1>1, <3>1 DEF EnqueuePush
    <3>4. PICK w \in waiting : waiting' = waiting \ {w}
      BY <3>2, <3>3 DEF AfterSignal
    <3> QED BY <3>2, <3>4
  <2>3. CASE ~(Workers \subseteq waiting)
    BY <2>1, <2>3
  <2> QED BY <2>2, <2>3
<1>2. ASSUME NEW c \in Clients, Start(c) PROVE NoLostWakeup'
  <2>1. \A w \in Workers : wpc[w] = "unstarted"
    BY <1>2 DEF Start, LifeInv, BeforeStart, Started
  <2>2. waiting = {}
    BY <2>1 DEF WaitersAsleep, Asleep
  <2> QED BY <1>2, <2>1, <2>2 DEF Start, workerVars
<1>3. ASSUME NEW c \in Clients, NEW w \in Workers, SpawnThread(c, w)
      PROVE  NoLostWakeup'
  <2>1. w \notin waiting
    BY <1>3 DEF SpawnThread, WaitersAsleep, Asleep
  <2> QED BY <1>3, <2>1 DEF SpawnThread, poolVars
<1>4. ASSUME NEW c \in Clients, StopWrite(c) PROVE NoLostWakeup'
  BY <1>4 DEF StopWrite
<1>5. ASSUME NEW c \in Clients, WakeAllThread(c) PROVE NoLostWakeup'
  <2>1. waiting' \subseteq waiting
    BY <1>5 DEF WakeAllThread
  <2> QED BY <1>5, <2>1 DEF WakeAllThread, workerVars
<1>6. ASSUME UNCHANGED <<wpc, taskq, isRunning, waiting>> PROVE NoLostWakeup'
  BY <1>6
<1>7. ASSUME NEW w \in Workers, WorkerSleep(w) PROVE NoLostWakeup'
  BY <1>7 DEF WorkerSleep, MustSleep
<1>8. ASSUME NEW w \in Workers, WorkerExit(w) PROVE NoLostWakeup'
  BY <1>8 DEF WorkerExit, ExitDue
<1>9. ASSUME NEW w \in Workers, SpuriousWakeup(w) PROVE NoLostWakeup'
  BY <1>9 DEF SpuriousWakeup, workerVars
<1>10. ASSUME NEW w \in Workers, WorkerTake(w) PROVE NoLostWakeup'
  <2>1. w \notin waiting
    BY <1>10 DEF WorkerTake, WaitersAsleep, Asleep
  <2> QED BY <1>10, <2>1 DEF WorkerTake
<1>11. ASSUME NEW w \in Workers,
              WorkerLock(w) \/ WorkerGo(w) \/ WorkerWake(w) \/ WorkerRun(w)
       PROVE  NoLostWakeup'
  BY <1>11 DEF WorkerLock, WorkerGo, WorkerWake, WorkerRun, poolVars
<1>12. CASE UNCHANGED vars
  BY <1>6, <1>12 DEF vars
<1> QED
  BY <1>1, <1>2, <1>3, <1>4, <1>5, <1>6, <1>7, <1>8, <1>9, <1>10, <1>11, <1>12,
     ClientFrame DEF Next, Steps, Crashed, WorkerStep

(* After the write of Stop a blocked worker has a broadcast coming.         *)
LEMMA StopReachesSleepersStep ==
  ASSUME SleepInv, LifeInv, StopReachesSleepers, [Next]_vars
  PROVE  StopReachesSleepers'
<1> USE DEF SleepInv, TypeOK, StopReachesSleepers
<1>1. ASSUME NEW c \in Clients, StopWrite(c) PROVE StopReachesSleepers'
  BY <1>1 DEF StopWrite
<1>2. ASSUME NEW c \in Clients, WakeAllThread(c) PROVE StopReachesSleepers'
  \* With no sleeper counted nobody waits, so the broadcast can be skipped.
  <2>1. waiting' = {}
    <3>1. CASE sleepernum > 0
      BY <1>2, <3>1 DEF WakeAllThread
    <3>2. CASE sleepernum = 0
      <4>1. Asleep = {}
        BY <3>2, AsleepFinite, FS_EmptySet DEF SleeperCount
      <4> QED BY <1>2, <3>2, <4>1 DEF WakeAllThread, WaitersAsleep
    <3> QED BY <3>1, <3>2
  <2> QED BY <2>1
<1>3. ASSUME NEW c \in Clients,
             Call(c) \/ GetInstance(c) \/ Enqueue(c) \/ Stop(c) \/ Join(c),
             ~StopWrite(c), ~WakeAllThread(c)
      PROVE  StopReachesSleepers'
  <2>1. stopped' = stopped /\ waiting' \subseteq waiting
    BY <1>3, ClientFrame DEF EnqueuePush, AfterSignal
  <2>2. \A d \in Clients : cpc[d] = "stopwake" => cpc'[d] = "stopwake"
    BY <1>3 DEF Call, GetInstance, Enqueue, Stop, Join, CallEnqueue, CallStop,
       CallJoin, FirstLook, GetLock, GetFound, GetCreate, Start, SpawnThread,
       SpawnDone, EnqueueCheck, EnqueuePush, StopCheck, JoinEnter, JoinReturn, JoinCrash,
       clientVars
  <2> QED BY <2>1, <2>2
<1>4. ASSUME NEW w \in Workers, WorkerSleep(w) PROVE StopReachesSleepers'
  <2>1. ~stopped
    BY <1>4 DEF WorkerSleep, MustSleep, LifeInv, BeforeStart, AfterStart
  <2> QED BY <1>4, <2>1 DEF WorkerSleep, history
<1>5. ASSUME NEW w \in Workers, WorkerStep(w) \/ SpuriousWakeup(w), ~WorkerSleep(w)
      PROVE  StopReachesSleepers'
  <2>1. waiting' \subseteq waiting
    BY <1>5 DEF WorkerStep, SpuriousWakeup, WorkerLock, WorkerGo, WorkerWake,
       WorkerExit, WorkerTake, WorkerRun, poolVars
  <2> QED BY <1>5, <2>1, WorkerFrame
<1>6. CASE UNCHANGED vars
  BY <1>6 DEF vars
<1> QED BY <1>1, <1>2, <1>3, <1>4, <1>5, <1>6 DEF Next, Steps, Crashed

(* No step strands a task that was pushed while the pool was running.       *)
LEMMA DrainedOnExitStep ==
  ASSUME SleepInv, LifeInv, HeldOnce, ExitAfterStop, DrainedOnExit, [Next]_vars
  PROVE  DrainedOnExit'
<1> USE DEF SleepInv, TypeOK, DrainedOnExit
<1>1. ASSUME NEW c \in Clients, EnqueuePush(c) PROVE DrainedOnExit'
  <2> SUFFICES ASSUME NEW w \in Workers, wpc[w] = "exited",
                      NEW i \in 1..Len(taskq')
               PROVE  taskq'[i] \notin early'
    BY <1>1 DEF EnqueuePush, workerVars
  <2>1. early' = early
    \* A worker has left, so the flag is down and the push is late.
    BY <1>1 DEF EnqueuePush, ExitAfterStop, LifeInv, BeforeStart, AfterStart
  <2>2. arg[c] \in Tasks /\ arg[c] \notin early
    BY <1>1, PoolAssumption DEF EnqueuePush, ArgSet, HeldOnce
  <2>3. \A k \in 1..Len(taskq) : taskq[k] \notin early
    BY DEF DrainedOnExit
  <2>4. taskq' = Append(taskq, arg[c])
    BY <1>1 DEF EnqueuePush
  <2> QED BY <2>1, <2>2, <2>3, <2>4
<1>2. ASSUME NEW c \in Clients,
             Call(c) \/ GetInstance(c) \/ Enqueue(c) \/ Stop(c) \/ Join(c),
             ~EnqueuePush(c)
      PROVE  DrainedOnExit'
  <2>1. taskq' = taskq /\ early' = early
    BY <1>2, ClientFrame
  <2>2. \A w \in Workers : wpc'[w] = "exited" => wpc[w] = "exited"
    BY <1>2, ClientFrame DEF SpawnThread
  <2> QED BY <2>1, <2>2
<1>3. ASSUME NEW w \in Workers, WorkerExit(w) PROVE DrainedOnExit'
  BY <1>3 DEF WorkerExit, ExitDue
<1>4. ASSUME NEW w \in Workers, WorkerTake(w) PROVE DrainedOnExit'
  <2>1. \A v \in Workers : wpc'[v] = "exited" => wpc[v] = "exited"
    BY <1>4 DEF WorkerTake
  <2>2. /\ Len(taskq') = Len(taskq) - 1
        /\ \A i \in 1..Len(taskq') : taskq'[i] = taskq[i + 1]
    BY <1>4 DEF WorkerTake
  <2>3. early' = early
    BY <1>4 DEF WorkerTake, history
  <2>4. Len(taskq) \in Nat
    OBVIOUS
  <2> QED BY <2>1, <2>2, <2>3, <2>4
<1>5. ASSUME NEW w \in Workers, WorkerStep(w) \/ SpuriousWakeup(w),
             ~WorkerExit(w), ~WorkerTake(w)
      PROVE  DrainedOnExit'
  <2>1. \A v \in Workers : wpc'[v] = "exited" => wpc[v] = "exited"
    BY <1>5 DEF WorkerStep, SpuriousWakeup, WorkerLock, WorkerSleep, WorkerGo,
       WorkerWake, WorkerRun, workerVars
  <2> QED BY <1>5, <2>1, WorkerFrame
<1>6. CASE UNCHANGED vars
  BY <1>6 DEF vars
<1> QED BY <1>1, <1>2, <1>3, <1>4, <1>5, <1>6 DEF Next, Steps, Crashed

-------------------------------------------------------------------------------
(* The three layers together.                                              *)
THEOREM PoolCorrect == Spec => []PoolInv
<1>1. Init => PoolInv
  BY PoolAssumption DEF Init, PoolInv, HeldOnce, PastTheLoop, ExitAfterStop,
     NoLostWakeup, StopReachesSleepers, DrainedOnExit
<1>2. SleepInv /\ LifeInv /\ PoolInv /\ [Next]_vars => PoolInv'
  BY HeldOnceStep, PastTheLoopStep, ExitAfterStopStep, NoLostWakeupStep,
     StopReachesSleepersStep, DrainedOnExitStep DEF PoolInv
<1> QED BY SleepCorrect, LifeCorrect, <1>1, <1>2, PTL DEF Spec

(* While the pool runs a queued task never leaves all the threads blocked   *)
(* and unwoken, though Enqueue signals only when all of them are asleep.    *)
THEOREM NoLostWakeupCorrect == Spec => []NoLostWakeup
<1>1. PoolInv => NoLostWakeup
  BY DEF PoolInv
<1> QED BY PoolCorrect, <1>1, PTL

(* front() is never called on an empty queue.                               *)
THEOREM FrontExistsCorrect == Spec => []FrontExists
<1>1. PoolInv => FrontExists
  BY DEF PoolInv, PastTheLoop, FrontExists, ExitDue
<1> QED BY PoolCorrect, <1>1, PTL

(* A Stop that cleared the flag still owes the broadcast while a worker is  *)
(* blocked.                                                                 *)
THEOREM StopReachesSleepersCorrect == Spec => []StopReachesSleepers
<1>1. PoolInv => StopReachesSleepers
  BY DEF PoolInv
<1> QED BY PoolCorrect, <1>1, PTL

(* No worker leaves a task behind that was pushed while the pool ran.       *)
THEOREM DrainedOnExitCorrect == Spec => []DrainedOnExit
<1>1. PoolInv => DrainedOnExit
  BY DEF PoolInv
<1> QED BY PoolCorrect, <1>1, PTL

(* Enqueue refuses a task only after Stop or inside the creation window.    *)
THEOREM RefusalWindowCorrect == Spec => RefusalWindow
<1> DEFINE Window == rejected' # rejected
                       => stopped \/ \E c \in Clients : cpc[c] = "start"
<1>1. ASSUME LifeInv, [Next]_vars PROVE Window
  <2>1. ASSUME NEW c \in Clients, EnqueueCheck(c) PROVE Window
    <3>1. CASE isRunning
      BY <2>1, <3>1 DEF EnqueueCheck
    <3>2. CASE ~isRunning
      <4>1. inc
        BY <2>1, <1>1 DEF EnqueueCheck, LifeInv, StartAfterCreate
      <4> QED BY <1>1, <3>2, <4>1 DEF LifeInv, AfterStart, Started
    <3> QED BY <3>1, <3>2
  <2>2. ASSUME NEW c \in Clients,
               Call(c) \/ GetInstance(c) \/ EnqueuePush(c) \/ Stop(c) \/ Join(c)
        PROVE  Window
    BY <2>2 DEF Call, GetInstance, Stop, Join, CallEnqueue, CallStop, CallJoin,
       GetLock, GetFound, GetCreate, Start, SpawnThread, SpawnDone, EnqueuePush,
       StopCheck, StopWrite, WakeAllThread, JoinEnter, JoinReturn, JoinCrash, clientVars
  <2>3. ASSUME NEW w \in Workers, WorkerStep(w) \/ SpuriousWakeup(w) PROVE Window
    BY <2>3 DEF WorkerStep, SpuriousWakeup, WorkerLock, WorkerSleep, WorkerGo,
       WorkerWake, WorkerExit, WorkerTake, WorkerRun, clientVars
  <2>4. CASE UNCHANGED vars
    BY <2>4 DEF vars
  <2> QED BY <1>1, <2>1, <2>2, <2>3, <2>4 DEF Next, Steps, Crashed, Enqueue
<1>2. LifeInv /\ [Next]_vars => [Window]_vars
  BY <1>1
<1> QED BY LifeCorrect, <1>2, PTL DEF Spec, RefusalWindow

===============================================================================
