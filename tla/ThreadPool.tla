------------------------------ MODULE ThreadPool ------------------------------
(***************************************************************************)
(* The singleton thread pool of test_03_31/ThreadPool (ThreadPool.hpp on   *)
(* Thread.hpp, Mutex.hpp and Cond.hpp): client threads reach the one       *)
(* instance through GetInstance, hand it tasks with Enqueue, and may Stop  *)
(* and Join it; the workers run HandlerTask.                               *)
(*                                                                         *)
(* A step is what one thread does between two points where another thread  *)
(* can interfere: taking or releasing a mutex, waiting on the condition    *)
(* variable, and every access to `inc' and `_is_running', which the code   *)
(* makes without holding `_mutex'.  `waiting' is the set of workers inside *)
(* pthread_cond_wait that nothing has woken yet; a woken worker is still   *)
(* at wpc "wait" until it gets the mutex back.                             *)
(***************************************************************************)
EXTENDS Naturals, Sequences, FiniteSets

CONSTANTS
    Workers,      \* the elements of _threads; gnum = 5 in the code
    Clients,      \* threads that call the public functions
    Tasks,        \* task_t objects, each submitted once
    MayFail,      \* TRUE: pthread_create may fail (Thread::Start only logs it)
    None          \* no thread, no task

ASSUME PoolAssumption ==
    /\ IsFiniteSet(Workers)
    /\ Workers # {}
    /\ Workers \cap Clients = {}
    /\ MayFail \in BOOLEAN
    /\ None \notin Workers \cup Clients \cup Tasks

VARIABLES
    inc,          \* the static pointer is set
    lock,         \* holder of the static Mutex _lock
    isRunning,    \* _is_running
    mutex,        \* holder of _mutex
    taskq,        \* _taskq
    sleepernum,   \* _sleepernum
    waiting,      \* workers blocked in _cond.Wait that are not woken
    wpc,          \* where each worker is in HandlerTask
    cur,          \* the local `t' of each worker
    cpc,          \* where each client is
    op,           \* the public function each client is calling
    arg,          \* the task each client is handing to Enqueue
    todo,         \* tasks nobody submitted yet
    done,         \* tasks that were run
    rejected,     \* tasks for which Enqueue returned false
    early,        \* history: tasks pushed while _is_running was true
    stopped,      \* history: Stop wrote _is_running = false
    joining       \* history: Join was called (pthread_join twice is undefined)

vars == <<inc, lock, isRunning, mutex, taskq, sleepernum, waiting, wpc, cur,
          cpc, op, arg, todo, done, rejected, early, stopped, joining>>

poolVars   == <<isRunning, mutex, taskq, sleepernum, waiting>>
workerVars == <<wpc, cur, done>>
clientVars == <<cpc, op, arg, todo, rejected, joining>>
history    == <<early, stopped>>

WorkerPC == {"unstarted", "failed", "lock", "check", "wait", "decide", "run",
             "exited"}
ClientPC == {"idle", "getlock", "getcheck", "start", "spawn", "enter",
             "push", "stopwrite", "stopwake", "join", "crashed"}
Operation == {"Enqueue", "Stop", "Join"}

TypeOK ==
    /\ inc \in BOOLEAN
    /\ lock \in Clients \cup {None}
    /\ isRunning \in BOOLEAN
    /\ mutex \in Workers \cup {None}
    /\ taskq \in Seq(Tasks)
    /\ sleepernum \in Nat
    /\ waiting \subseteq Workers
    /\ wpc \in [Workers -> WorkerPC]
    /\ cur \in [Workers -> Tasks \cup {None}]
    /\ cpc \in [Clients -> ClientPC]
    /\ op \in [Clients -> Operation]
    /\ arg \in [Clients -> Tasks \cup {None}]
    /\ todo \subseteq Tasks
    /\ done \subseteq Tasks
    /\ rejected \subseteq Tasks
    /\ early \subseteq Tasks
    /\ stopped \in BOOLEAN
    /\ joining \in BOOLEAN

Init ==
    /\ inc = FALSE
    /\ lock = None
    /\ isRunning = FALSE
    /\ mutex = None
    /\ taskq = <<>>
    /\ sleepernum = 0
    /\ waiting = {}
    /\ wpc = [w \in Workers |-> "unstarted"]
    /\ cur = [w \in Workers |-> None]
    /\ cpc = [c \in Clients |-> "idle"]
    /\ op = [c \in Clients |-> "Enqueue"]
    /\ arg = [c \in Clients |-> None]
    /\ todo = Tasks
    /\ done = {}
    /\ rejected = {}
    /\ early = {}
    /\ stopped = FALSE
    /\ joining = FALSE

-------------------------------------------------------------------------------
(* Clients: GetInstance()->Enqueue(t), GetInstance()->Stop(),              *)
(* GetInstance()->Join().                                                  *)

(* Calling one reads `inc' without _lock, the first look of the             *)
(* double-checked locking.                                                 *)

FirstLook == IF inc THEN "enter" ELSE "getlock"

CallEnqueue(c, t) ==
    /\ cpc[c] = "idle"
    /\ t \in todo
    /\ todo' = todo \ {t}
    /\ cpc' = [cpc EXCEPT ![c] = FirstLook]
    /\ op' = [op EXCEPT ![c] = "Enqueue"]
    /\ arg' = [arg EXCEPT ![c] = t]
    /\ UNCHANGED <<inc, lock, poolVars, workerVars, rejected, history, joining>>

CallStop(c) ==
    /\ cpc[c] = "idle"
    /\ cpc' = [cpc EXCEPT ![c] = FirstLook]
    /\ op' = [op EXCEPT ![c] = "Stop"]
    /\ UNCHANGED <<inc, lock, poolVars, workerVars, arg, todo, rejected,
                   history, joining>>

CallJoin(c) ==
    /\ cpc[c] = "idle"
    /\ ~joining
    /\ joining' = TRUE
    /\ cpc' = [cpc EXCEPT ![c] = FirstLook]
    /\ op' = [op EXCEPT ![c] = "Join"]
    /\ UNCHANGED <<inc, lock, poolVars, workerVars, arg, todo, rejected, history>>

GetLock(c) ==
    /\ cpc[c] = "getlock"
    /\ lock = None
    /\ lock' = c
    /\ cpc' = [cpc EXCEPT ![c] = "getcheck"]
    /\ UNCHANGED <<inc, poolVars, workerVars, op, arg, todo, rejected, history,
                   joining>>

\* The second look, under _lock: the loser of the race leaves ...
GetFound(c) ==
    /\ cpc[c] = "getcheck"
    /\ inc
    /\ lock' = None
    /\ cpc' = [cpc EXCEPT ![c] = "enter"]
    /\ UNCHANGED <<inc, poolVars, workerVars, op, arg, todo, rejected, history,
                   joining>>

\* ... and the winner publishes the pool.  `inc' is assigned before Start runs.
GetCreate(c) ==
    /\ cpc[c] = "getcheck"
    /\ ~inc
    /\ inc' = TRUE
    /\ cpc' = [cpc EXCEPT ![c] = "start"]
    /\ UNCHANGED <<lock, poolVars, workerVars, op, arg, todo, rejected, history,
                   joining>>

\* A pool that starts its threads before it calls itself running.
StartLateMutant(c) ==
    /\ cpc[c] = "start"
    /\ cpc' = [cpc EXCEPT ![c] = "spawn"]
    /\ UNCHANGED <<inc, lock, poolVars, workerVars, op, arg, todo, rejected,
                   history, joining>>

\* Start: _is_running = true, then the loop over _threads.
Start(c) ==
    /\ cpc[c] = "start"
    /\ isRunning' = TRUE
    /\ cpc' = [cpc EXCEPT ![c] = "spawn"]
    /\ UNCHANGED <<inc, lock, mutex, taskq, sleepernum, waiting, workerVars, op,
                   arg, todo, rejected, history, joining>>

SpawnThread(c, w) ==
    /\ cpc[c] = "spawn"
    /\ wpc[w] = "unstarted"
    /\ \E to \in {"lock"} \cup (IF MayFail THEN {"failed"} ELSE {}) :
           wpc' = [wpc EXCEPT ![w] = to]
    /\ UNCHANGED <<inc, lock, poolVars, cur, done, clientVars, history>>

SpawnDone(c) ==
    /\ cpc[c] = "spawn"
    /\ \A w \in Workers : wpc[w] # "unstarted"
    /\ lock' = None
    /\ cpc' = [cpc EXCEPT ![c] = "enter"]
    /\ UNCHANGED <<inc, poolVars, workerVars, op, arg, todo, rejected, history,
                   joining>>

-------------------------------------------------------------------------------
(* Enqueue                                                                 *)

\* `if (_is_running)', read without the mutex.
EnqueueCheck(c) ==
    /\ cpc[c] = "enter"
    /\ op[c] = "Enqueue"
    /\ cpc' = [cpc EXCEPT ![c] = IF isRunning THEN "push" ELSE "idle"]
    /\ rejected' = IF isRunning THEN rejected ELSE rejected \cup {arg[c]}
    /\ arg' = IF isRunning THEN arg ELSE [arg EXCEPT ![c] = None]
    /\ UNCHANGED <<inc, lock, poolVars, workerVars, op, todo, history, joining>>

\* What pthread_cond_signal may leave waiting: it wakes one waiter, if any.
AfterSignal(s) == IF s = {} THEN {{}} ELSE {s \ {w} : w \in s}

\* One off: the caller counted as one of the threads.
SignalDueMutant(n) == n + 1 = Cardinality(Workers)

\* Enqueue signals only when every thread of the pool is asleep.
SignalDue(n) == n = Cardinality(Workers)

EnqueuePush(c) ==
    /\ cpc[c] = "push"
    /\ mutex = None
    /\ taskq' = Append(taskq, arg[c])
    /\ IF SignalDue(sleepernum)
         THEN waiting' \in AfterSignal(waiting)
         ELSE UNCHANGED waiting
    /\ early' = IF isRunning THEN early \cup {arg[c]} ELSE early
    /\ cpc' = [cpc EXCEPT ![c] = "idle"]
    /\ arg' = [arg EXCEPT ![c] = None]
    /\ UNCHANGED <<inc, lock, isRunning, mutex, sleepernum, workerVars, op, todo,
                   rejected, stopped, joining>>

-------------------------------------------------------------------------------
(* Stop and Join                                                           *)

StopCheck(c) ==
    /\ cpc[c] = "enter"
    /\ op[c] = "Stop"
    /\ cpc' = [cpc EXCEPT ![c] = IF isRunning THEN "stopwrite" ELSE "idle"]
    /\ UNCHANGED <<inc, lock, poolVars, workerVars, op, arg, todo, rejected,
                   history, joining>>

\* Stop without WakeAllThread.
StopWriteMutant(c) ==
    /\ cpc[c] = "stopwrite"
    /\ isRunning' = FALSE
    /\ stopped' = TRUE
    /\ cpc' = [cpc EXCEPT ![c] = "idle"]
    /\ UNCHANGED <<inc, lock, mutex, taskq, sleepernum, waiting, workerVars, op,
                   arg, todo, rejected, early, joining>>

StopWrite(c) ==
    /\ cpc[c] = "stopwrite"
    /\ isRunning' = FALSE
    /\ stopped' = TRUE
    /\ cpc' = [cpc EXCEPT ![c] = "stopwake"]
    /\ UNCHANGED <<inc, lock, mutex, taskq, sleepernum, waiting, workerVars, op,
                   arg, todo, rejected, early, joining>>

WakeAllThread(c) ==
    /\ cpc[c] = "stopwake"
    /\ mutex = None
    /\ waiting' = IF sleepernum > 0 THEN {} ELSE waiting
    /\ cpc' = [cpc EXCEPT ![c] = "idle"]
    /\ UNCHANGED <<inc, lock, isRunning, mutex, taskq, sleepernum, workerVars,
                   op, arg, todo, rejected, history, joining>>

JoinEnter(c) ==
    /\ cpc[c] = "enter"
    /\ op[c] = "Join"
    /\ cpc' = [cpc EXCEPT ![c] = "join"]
    /\ UNCHANGED <<inc, lock, poolVars, workerVars, op, arg, todo, rejected,
                   history, joining>>

\* pthread_join on every thread in turn.
JoinReturn(c) ==
    /\ cpc[c] = "join"
    /\ \A w \in Workers : wpc[w] = "exited"
    /\ cpc' = [cpc EXCEPT ![c] = "idle"]
    /\ UNCHANGED <<inc, lock, poolVars, workerVars, op, arg, todo, rejected,
                   history, joining>>

\* A thread that is not there, because pthread_create failed or another client
\* is still in Start, has 0 or nothing for its _tid: pthread_join is undefined,
\* and here ends the process.
JoinCrash(c) ==
    /\ cpc[c] = "join"
    /\ \E w \in Workers : wpc[w] \in {"unstarted", "failed"}
    /\ cpc' = [cpc EXCEPT ![c] = "crashed"]
    /\ UNCHANGED <<inc, lock, poolVars, workerVars, op, arg, todo, rejected,
                   history, joining>>

Alive == \A c \in Clients : cpc[c] # "crashed"

-------------------------------------------------------------------------------
(* Workers: HandlerTask                                                    *)

WorkerLock(w) ==
    /\ wpc[w] = "lock"
    /\ mutex = None
    /\ mutex' = w
    /\ wpc' = [wpc EXCEPT ![w] = "check"]
    /\ UNCHANGED <<inc, lock, isRunning, taskq, sleepernum, waiting, cur, done,
                   clientVars, history>>

\* `while (_taskq.empty() && _is_running == true)'
MustSleep == taskq = <<>> /\ isRunning

\* The counter is not advanced before the wait.
WorkerSleepMutant(w) ==
    /\ wpc[w] = "check"
    /\ MustSleep
    /\ waiting' = waiting \cup {w}
    /\ mutex' = None
    /\ wpc' = [wpc EXCEPT ![w] = "wait"]
    /\ UNCHANGED <<inc, lock, isRunning, taskq, sleepernum, cur, done, clientVars,
                   history>>

WorkerSleep(w) ==
    /\ wpc[w] = "check"
    /\ MustSleep
    /\ sleepernum' = sleepernum + 1
    /\ waiting' = waiting \cup {w}
    /\ mutex' = None
    /\ wpc' = [wpc EXCEPT ![w] = "wait"]
    /\ UNCHANGED <<inc, lock, isRunning, taskq, cur, done, clientVars, history>>

WorkerGo(w) ==
    /\ wpc[w] = "check"
    /\ ~MustSleep
    /\ wpc' = [wpc EXCEPT ![w] = "decide"]
    /\ UNCHANGED <<inc, lock, poolVars, cur, done, clientVars, history>>

\* POSIX lets a condition wait return though nothing signalled it.
SpuriousWakeup(w) ==
    /\ w \in waiting
    /\ waiting' = waiting \ {w}
    /\ UNCHANGED <<inc, lock, isRunning, mutex, taskq, sleepernum, workerVars,
                   clientVars, history>>

\* An `if' where the code has a `while': the woken worker does not look again.
WorkerWakeMutant(w) ==
    /\ wpc[w] = "wait"
    /\ w \notin waiting
    /\ mutex = None
    /\ mutex' = w
    /\ sleepernum' = sleepernum - 1
    /\ wpc' = [wpc EXCEPT ![w] = "decide"]
    /\ UNCHANGED <<inc, lock, isRunning, taskq, waiting, cur, done, clientVars,
                   history>>

\* A woken worker gets the mutex back and re-evaluates the loop condition.
WorkerWake(w) ==
    /\ wpc[w] = "wait"
    /\ w \notin waiting
    /\ mutex = None
    /\ mutex' = w
    /\ sleepernum' = sleepernum - 1
    /\ wpc' = [wpc EXCEPT ![w] = "check"]
    /\ UNCHANGED <<inc, lock, isRunning, taskq, waiting, cur, done, clientVars,
                   history>>

\* A worker that leaves as soon as the pool stops, whatever is still queued.
ExitDueMutant == ~isRunning

ExitDue == ~isRunning /\ taskq = <<>>

WorkerExit(w) ==
    /\ wpc[w] = "decide"
    /\ ExitDue
    /\ mutex' = None
    /\ wpc' = [wpc EXCEPT ![w] = "exited"]
    /\ UNCHANGED <<inc, lock, isRunning, taskq, sleepernum, waiting, cur, done,
                   clientVars, history>>

\* front() and pop(): on an empty queue they are undefined (see FrontExists).
WorkerTake(w) ==
    /\ wpc[w] = "decide"
    /\ ~ExitDue
    /\ taskq # <<>>
    /\ cur' = [cur EXCEPT ![w] = Head(taskq)]
    /\ taskq' = Tail(taskq)
    /\ mutex' = None
    /\ wpc' = [wpc EXCEPT ![w] = "run"]
    /\ UNCHANGED <<inc, lock, isRunning, sleepernum, waiting, done, clientVars,
                   history>>

\* t(), outside the critical section.
WorkerRun(w) ==
    /\ wpc[w] = "run"
    /\ done' = done \cup {cur[w]}
    /\ cur' = [cur EXCEPT ![w] = None]
    /\ wpc' = [wpc EXCEPT ![w] = "lock"]
    /\ UNCHANGED <<inc, lock, poolVars, clientVars, history>>

-------------------------------------------------------------------------------
WorkerStep(w) ==
    \/ WorkerLock(w)
    \/ WorkerSleep(w)
    \/ WorkerGo(w)
    \/ WorkerWake(w)
    \/ WorkerExit(w)
    \/ WorkerTake(w)
    \/ WorkerRun(w)

GetInstance(c) ==
    \/ GetLock(c)
    \/ GetFound(c)
    \/ GetCreate(c)
    \/ Start(c)
    \/ \E w \in Workers : SpawnThread(c, w)
    \/ SpawnDone(c)

Enqueue(c) == EnqueueCheck(c) \/ EnqueuePush(c)
Stop(c)    == StopCheck(c) \/ StopWrite(c) \/ WakeAllThread(c)
Join(c)    == JoinEnter(c) \/ JoinReturn(c) \/ JoinCrash(c)

Call(c) ==
    \/ \E t \in Tasks : CallEnqueue(c, t)
    \/ CallStop(c)
    \/ CallJoin(c)

Steps ==
    \/ \E c \in Clients :
          \/ Call(c) \/ GetInstance(c) \/ Enqueue(c) \/ Stop(c) \/ Join(c)
    \/ \E w \in Workers : WorkerStep(w) \/ SpuriousWakeup(w)

\* Nothing runs in a process that has crashed.
Crashed == ~Alive /\ UNCHANGED vars

Next == (Alive /\ Steps) \/ Crashed

Spec == Init /\ [][Next]_vars

(* The steps that wait for _mutex, of a client and of a worker.             *)
ClientLocks(c) == EnqueuePush(c) \/ WakeAllThread(c)
WorkerLocks(w) == WorkerLock(w) \/ WorkerWake(w)

(* Threads are scheduled and tasks return: every started call and every     *)
(* worker keeps moving.  A thread that asks for a mutex that is free again  *)
(* and again gets it in the end (strong fairness); nobody owes a call, a    *)
(* Stop or a spurious wakeup.                                               *)
Fairness ==
    /\ \A c \in Clients :
        /\ WF_vars(Alive /\ (GetInstance(c) \/ Enqueue(c) \/ Stop(c) \/ Join(c)))
        /\ SF_vars(Alive /\ ClientLocks(c))
    /\ \A w \in Workers :
        /\ WF_vars(Alive /\ WorkerStep(w))
        /\ SF_vars(Alive /\ WorkerLocks(w))

FairSpec == Spec /\ Fairness

-------------------------------------------------------------------------------
(* Properties                                                              *)

Asleep == {w \in Workers : wpc[w] = "wait"}
AllCreated == \A w \in Workers : wpc[w] # "failed"

(* _sleepernum counts the workers inside _cond.Wait, woken or not.          *)
SleeperCount == sleepernum = Cardinality(Asleep)

(* Enqueue signals only when _sleepernum equals _threads.size(); still,     *)
(* while the pool runs and every pthread_create worked, a queued task never *)
(* leaves all the threads blocked with nobody woken (the lost wakeup).      *)
NoLostWakeup ==
    isRunning /\ taskq # <<>> /\ AllCreated
        => \E w \in Workers : wpc[w] # "failed" /\ w \notin waiting

(* The comment before front(): there is a task for the worker that neither  *)
(* sleeps nor exits, whatever woke it (line 123).                           *)
FrontExists ==
    \A w \in Workers : wpc[w] = "decide" /\ ~ExitDue => taskq # <<>>

(* Stop loses no worker: once it has cleared _is_running, a worker still    *)
(* blocked has a Stop on its way to the broadcast.                          *)
StopReachesSleepers ==
    stopped /\ waiting # {} => \E c \in Clients : cpc[c] = "stopwake"

(* Stop drains: a worker leaves only when everything pushed while the pool  *)
(* was running has been taken, so a task the last worker leaves behind came *)
(* from an Enqueue that checked before Stop and pushed after it.            *)
DrainedOnExit ==
    (\E w \in Workers : wpc[w] = "exited")
        => \A i \in 1..Len(taskq) : taskq[i] \notin early

(* A task is refused only after Stop, or in the one window of GetInstance   *)
(* between `inc = new ...' and `_is_running = true', never while the        *)
(* threads are being created.                                               *)
RefusalWindow ==
    [][rejected' # rejected
         => stopped \/ \E c \in Clients : cpc[c] = "start"]_vars

(* A task pushed while the pool was running is run in the end, unless a     *)
(* pthread_create failed: _sleepernum then never reaches _threads.size().   *)
(* (Nor is anything run after a Join that crashed, here and in the next.)    *)
EarlyTasksRun ==
    \A t \in Tasks : t \in early ~> t \in done \/ ~AllCreated \/ ~Alive

(* After Stop every thread that exists leaves HandlerTask, so Join returns. *)
StopDrains ==
    stopped ~> (\A w \in Workers : wpc[w] \in {"exited", "failed"}) \/ ~Alive
===============================================================================
