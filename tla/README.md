# TLA+ verification of linux_system_learning

The repository is a day-by-day course in Linux system programming: each `test_MM_DD` directory holds
a program of its own.  Most are a few lines around one system call; about a dozen are small systems
with threads, processes, shared memory, queues, sockets or event loops.  This directory models those,
checks them with TLC, and proves with TLAPS every safety invariant that the passing runs check, for every
number of threads, processes, clients and descriptors and every capacity: of the thread pool, the two queues,
the process pool, the reactor, the select, poll and epoll servers, the accept loops, and the eighteen programs
of `MCPrograms`, among them the log server's chain, the IPC objects, the servers of pages, sessions,
calculations, datagrams and the chat, the shells, the buffered files and the loggers.

Contents: [inventory](#inventory) · [modules](#modules-and-how-they-correspond-to-the-code) ·
[runs](#runs-bounds-and-results) · [fairness](#fairness) · [proofs](#proofs) ·
[findings](#findings) · [not modelled](#what-is-not-modelled) · [plan](#plan)

## Running

    tlc -workers 2 -config MCThreadPool.cfg MCThreadPool     # one model-checking run
    tlapm ThreadPoolProofs.tla                               # one proof module

`PROJECT.json` lists the runs, what each property would catch (a mutant of the code for every
property), the source lines behind every definition, the hazards and the theorems.

## Inventory

| Component (source) | State | Operations | Hard because | Correct when |
|---|---|---|---|---|
| **ThreadPool** `test_03_31/ThreadPool` (copied into the chat and echo servers) | task queue, `_is_running`, `_sleepernum`, threads, the singleton | `GetInstance`, `Start`, `Enqueue`, `Stop`, `Join`, `HandlerTask` | a flag read outside the lock, a signal sent only when *all* threads sleep, publication before start, failing `pthread_create` | no lost wakeup, no pop of an empty queue, Stop drains |
| **BlockQueue** `test_03_25/Cond`, older copy `test_03_23/CP` | `_q`, `_cap`, two sleeper counts | `Equeue`, `Pop` | spurious wakeups, overtaking, signals that depend on counts | a bounded FIFO; nobody asleep beside work |
| **RingQueue** `test_03_25/Sem_Ring` | ring, two steps, two semaphores, two mutexes | `Equeue`, `Pop` | P outside the lock: threads between P and V at once | no slot written while read; a bounded FIFO |
| **Reactor** `test_06_18/Server` | `_connections`, per-channel buffers and event masks, kernel sockets, epoll's ready list | `Loop`, `Dispatcher`, `AddConnection`, `DelConnection`, `EnableReadWrite`, `Listener::Recver`, `Channel::Recver`, `Sender` | edge triggering, partial reads and writes, descriptors closed and reused within a batch, resets, requests that end the handler, a failing `epoll_ctl` | every readiness acted on; each request answered once and in order |
| **ProcessPool** `test_03_05/ProcessPool` | channels, `_next`, pipes and who holds their ends | `Start`, `Run`, `Stop`, the child's `Work` | write ends inherited by younger brothers, blocking pipes, failing fork | tasks run once, in order, evenly; Stop ends and reaps |
| **NetCal** `test_04_16/NetCal` | two byte streams and two buffers | `GetRequest`, `GetResponse`, forking `TcpServer::Start` | responses in pieces, a peer that goes away | a call returns with the answer to its request |
| **ChatServer** `test_04_03/3.Chatserver` | `_online_user`, the pool's queue | `MessageRoute`, `AddUser`, `DeleteUser` | a vector shared by five threads without a lock; lost and reordered datagrams | a user is on the list from its first message to its QUIT |
| **EventServers** `test_06_05`, `test_06_06`, `test_06_12` | table of descriptors (select, poll), epoll set | `Start`, `Dispatcher`, `Accepter`, `Recver` | tables at their limit, stale result sets, descriptor numbers of 1024 and more | every ready client served; table and kernel agree |
| **HttpSession** `test_05_03/session`, `test_05_03/cookie` | session map, counter, pool | `HandlerHttp`, `AddSession`, `GetSession`, `ProcessConnection` | unlocked map, ids that collide, cookies that outlive the server, descriptors left open | one session per login, its owner's |
| **Http** `test_04_20` | files, routes | request parsing, routing, `MakeResponse` | one `Recv` for a whole request; files replaced between two looks | what is announced is what is sent |
| **TcpEchoServer** `test_04_15` | one detached thread per connection | `Run`, `Service`, `Excute` | `popen` copies every socket, SIGPIPE | sockets closed by all who have them |
| **LogBackupChain** `test_03_18` | System V queue, log file, archives | `Send`, `Recv`, the handlers, `Backup` | names by the second, a queue that outlives its server, a child that outlives its father | no line lost |
| **SysVIpc** `test_03_26`, `test_03_07` | semaphore set, segment, fifo | create, attach, P, V, remove | creation races, removal in use, kills between P and V | pairs unbroken, everything written is read, removed once |
| **DictServer** `test_04_03/2. dictserver` | a read-only map | `LoadDict`, `Translate`, `Start` | datagrams lost, repeated, reordered; an unknown word | the answer shown is one's own |
| **Logger** `Log.hpp` (twelve copies) | a strategy or style, a mutex, `localtime`'s one result | `SyncLog`, `WriteLog` | threads, or processes with a mutex each | lines whole, in order, once |
| **Shell** `test_02_22`, `test_02_13` | command line, `g_argv`, redirection, `lastcode`, environment | `RedirCheck`, `CommandParse`, built-ins, `Excute` | blank lines, the end of the input, too many words | output goes where it was sent |
| **MyStdio** `test_03_01` | `MYFILE` | `MyFopen`, `MyFwrite`, `MyFFlush`, `MyFclose` | short writes, kills, the buffer's end | file and buffer are what was written |
| **SyscallExercises** | counters, masks, pipes, a segment | one program each | threads, handlers and children that meet | see `ThreadExercises`, `SignalExercises`, `ChildExercises`, `ThreadClass` |
| **Rewrites** `Test/` | as the servers above | second versions of them | sockets nobody closes | as above |
| **Daemon** `test_04_16/NetCal/Daemon.hpp` | – | `Daemon` | nobody calls it | – |

How they interact: the servers hand work to the ThreadPool as tasks (chat, session); ThreadPool and
BlockQueue use the `Cond` and `Mutex` wrappers, RingQueue the `Sem` wrapper; the reactor calls the
protocol handler through a callback and its connections call back into the reactor
(`DelConnection`, `EnableReadWrite`); clients and servers meet only through sockets or pipes.  A
connection of NetCal or Http is two questions that do not depend on each other: who holds its socket
(module TcpServers, every accept loop), and what is said on it (Calculator, Http, HttpSession).

## Modules and how they correspond to the code

Every module has one action per step of a thread that others can see: a critical section is one step
from getting the mutex to giving it back or waiting, an access outside any lock is a step of its own,
and so is a system call.  Payloads are opaque values.

**ThreadPool.tla.**  `wpc[w]` is a worker's place in `HandlerTask`: `lock`, `check` (holding the
mutex, before the `while` of line 108), `wait` (inside `_cond.Wait`), `decide` (line 117), `run`,
`exited`, and `unstarted` or `failed` before `pthread_create` or when it fails.  `waiting` is the set of threads the
kernel has not woken; `WorkerWake` takes the mutex again.  `cpc[c]` is a client's place in its call,
`op` and `arg` the call.  `GetInstance` is kept whole: `inc` is published by `GetCreate`, `Start` then
sets `_is_running` and `SpawnThread` creates the threads one at a time, each of which may fail.
`EnqueueCheck` reads the flag without the lock, `EnqueuePush` is the locked part.  `JoinCrash` is a Join of a thread
that is not there (another client is still in `Start`, or `pthread_create` failed): its `_tid` names nothing, the process ends, and
`Next` is `Crashed` from then on.  `early`, `done`,
`rejected`, `stopped` are history.

**QueueThreads.tla** holds what both queues have in common: the threads, the items, the history.

**BlockQueue.tla** and **BoundedFifo.tla.**  `psleepnum` and `csleepnum` are the two counts, `pasleep` and
`casleep` the threads inside the waits, `pwait` and `cwait` those of them that nothing has woken.  The constant `Recheck` selects `while` (test_03_25) or `if`
(test_03_23).  `BoundedFifo` is the abstract specification: put when there is room, get when there is
an item, in order; `ImplementsFifo` is the refinement, which maps the channel to `q`.

**RingQueue.tla.**  Its names begin with `Ring` where `BlockQueue` has one of the same name, so that one module of proofs
can extend both.  A thread is at `P`, `lock`, `access`, `advance`, `V`; writing and reading a
slot lasts from one step to the next, so an overlap is a state.  The two semaphores are numbers.  `InRing` is the refinement mapping to
`BoundedFifo`: the contents of the slots from the oldest item not read to the last one written.

**Reactor.tla.**  One reactor thread (`pc`), the kernel's sockets and epoll, and clients.  Kernel
and clients are marked external and follow Linux: `EPOLL_CTL_ADD`/`MOD` list a descriptor at once if it
is ready for the new mask; an arrival lists it again; a descriptor that epoll_wait has looked at leaves
the list; writability is an edge only from full to not full.  Descriptor numbers are allocated lowest
first and reused.  A piece of a client's stream is `part`, `good` or `bad`, so that packages arrive
split and joined, or `fatal`: a header on which `std::stoi` throws, JSON of another type than `asInt` converts, or
INT_MIN / -1, which nothing catches (`HandlerDies`).  `lost` is the state after that and after a failed `recv` or `send` (see hazards):
the process has ended, or goes on with a destroyed object.  `AddConnection(works)` keeps the connection when `epoll_ctl` fails, as the
code does; `refused` are the clients this has happened to.

**ProcessPool.tla.**  `wends[c]`, `rends[c]`: the processes with that end of pipe c open; `Fork`
copies the parent's.  `CloseAll` closes a child's copies one at a time.  `ppc` is the parent's place in
`Start`, `Run` and `CloseAndWait`.

**NetCal.tla** (one connection).  `toServer`, `toClient` are the streams, in units of which a package
has `PackageLen`; a `Recv` takes any non-empty prefix up to `RecvSize`.

**ChatServer.tla** and **ChatClient.tla.**  A datagram may be lost or overtaken.  An access to
`_online_user` has a begin and an end; overlapping accesses of which one is a change may crash the
server, and of two changes at once an insertion may be lost (`Overwritten`), the outcomes a racing `push_back` and
`erase` can have.  `overlapped`,
`raced` and `erased` are history: two messages of one peer routed at once, two accesses at once, a
QUIT that took somebody off.  ChatClient has main's six calls and the two threads; `id` says whether
main has stored the receiver's thread id that `Send` cancels.

**EventServers.tla.**  `kind` chooses select, poll or level-triggered epoll; `table` is `_fd_arr` or
`_fds`, `watched` epoll's interest set and `rdlist` its ready list.  `result` and `events` are what the
wait returned and `slot` the Dispatcher's place in it, while clients go on.  `limit` is the limit of
descriptors, which each server meets differently: select's set is too small for the number (the model
ends there: the write is outside the array), poll refuses a table larger than the limit, epoll cannot
add a descriptor.

**TcpServers.tla.**  Seven accept loops.  `held[p]` is the set of sockets that process p has; fork and
`popen` copy it, close and exit empty it; a connection ends for its client when no process holds it.
`lpc` is the accepting thread's place, `first` the child's and `worker` the grandchild's, thread's or
task's.  `fork`, `pthread_create` and `accept` may fail.  A client that has reset its connection is told of once: by a `recv` that fails or a
`send` that does; from then on it is `gone` as one that has closed: `recv` returns 0, and `send` raises SIGPIPE for the whole process.

**Calculator.tla.**  Request, Response, `Encode`, `Decode` and `Cal::Execute` as operators over streams
of units, with ints of `Width` bits and digits of base `Base`; both servers and the client that
shows the answers.  `Traps` is the division that raises SIGFPE.
Only what the clients' `Serialize` and `Encode` make is sent; malformed requests are the reactor's `fatal` pieces.

**Http.tla.**  One request from `Recv` to the answer.  The three looks at a file's size and the reading of it
are steps of their own, and `Replace` (external) may come between any two.

**HttpSession.tla.**  A task for each browser's request: `number++` is a read and a write, the id is chosen, the
session inserted; a browser keeps its cookie through a restart.  An
insertion into the map while another task is in it sets `broken`, after which nothing is promised.

**LogChain.tla.**  The kernel's queue (`qid`, `queue`), servers at `spc` in the chain of handlers, and the
child that `Backup` forks (`archiver`): rename, tar, remove, each of which may fail.  A kill leaves the
queue and the child behind; `Ipcrm` is the user's.

**SemWriters.tla, SharedMemory.tla, NamedPipe.tla.**  System V semaphores with `semadj` (`undo`), removal of the set
under a process that uses it, and the second set that the child then makes; a segment with its mode and
its users, written one letter and printed one letter at a time; a fifo of both versions, with the window between the last
writer's close and the reader's `read`, and that between the reader's return and its close.

**UdpServers.tla.**  `net` holds datagrams with a copy number; any may be lost, repeated or taken first.
`LoadDict` makes the map from the lines of the file, `Translate` is what the code does with it: it returns the question.

**Shell.tla, MyStdio.tla, Logger.tla.**  The shell's line is a sequence of tokens (`Typed`, `Behind`; `WordsOf` is what
`strtok` makes of it; the byte in front of a line that begins with `>`, which `RedirCheck` looks at and may clear, changes nothing, because
such a line has no word and ends the shell) and its loop one step per function of `main`; a child's output is what its program writes.  A MYFILE's buffer and the disk are
sequences of characters.  In Logger, threads share `tm`, the mutex and a stream's buffer; processes have
their own; `Places` are the places of a logger's lines in its file.

**ThreadClass.tla, ThreadExercises.tla, SignalExercises.tla, ChildExercises.tla.**  The methods of the three
`Thread` classes called in any order; tickets, a condition variable without a condition, a vector of
threads, a counter read without a lock; masks, pending and real-time signals, the alarm and the SIGCHLD
handler; fathers and children that poll, read or share a segment.

**MCPrograms.tla** checks these small programs and ChatServer's invariant in one run: they have nothing
to do with each other, so `program` is chosen in the initial state, and the variables `r1`, `r2`, ...
stand for those of the chosen module.  Those that serve or write, with the constants and inputs they need, are instances in
**Services.tla**, which `MCPrograms` extends: so they can be proved about without the others.

## Runs, bounds and results

| Run | Module, bounds | Checks | Result |
|---|---|---|---|
| `thread_pool` | 2 workers, 2 clients, 2 tasks, create may fail | types; `NoLostWakeup`, `FrontExists`, `DrainedOnExit`, `RefusalWindow`; `EarlyTasksRun`, `StopDrains` | holds |
| `block_queue` | 2 producers, 2 consumers, capacity 2, 4 items, `while` | types; `ItemsHaveTakers`, `RoomHasUsers`, refinement, `EveryItemArrives` | holds |
| `cp_block_queue_if` | the same with capacity 1 and `if` | `CapacityKept` | **violated** |
| `ring_queue` | 3 producers, 2 consumers, capacity 2, 4 items | types (`RingTypeOK`); `NoSlotRace`, refinement (`RingImplementsFifo`), `RingEveryItemArrives` | holds |
| `reactor` | 2 clients (a reader with three pieces, one that never reads with a refused, a good and a fatal one), 2 descriptors that may be taken already, 1 piece per recv, send buffer of 1, 2 events per wait | types; `NoInputForgotten`, `NoOutputForgotten`, `RepliesMatchRequests`, `BatchCurrent`; `RequestsAnswered`, `GoneForgotten` | holds |
| `process_pool` | 3 children, 5 rounds, pipes of 1 code, pipe and fork may fail | types; `RunsWhatWasSent`, `Balanced`; `StopReaps` | holds |
| `event_servers` | 3 clients (who send 2, 1 and 0 pieces), 3 slots, `FD_SETSIZE` 3, 2 events per wait, 2, 3 or 5 descriptors, one of them taken | types; `WatchesTheOpen`, `NeverBlocks`; `EveryoneHeard` | holds |
| `tcp_servers` | 7 servers, 2 clients of 2 requests, 2 or 3 sockets, 1 pool thread | `SocketsOwned` (with the types); `AcceptsAgain`, `WaitingEnds` | holds |
| `programs` | 18 programs, bounds below | `SharedDataWhole`, `LinesKept`, `AnswersWhole`, `OutputKept`, `ThreadsOrdered` (each with the modules' types); `Ends` | holds |
| `chat_delete_user` | 2 clients, 2 workers | `CertainlyOnline` | **violated** |
| `netcal_partial_response` | 2 calls, packages of 2 units | `IncompleteReadsOn` | **violated** |
| `http_session_stale_login` | 1 browser, 3 requests, 1 restart | `LoginMaintainsSession` | **violated** |

Why these bounds are enough to meet the hard cases:

* Two workers and two clients are the least with which a signal can go to one thread while another
  is between its check and its sleep, and with which one client can find the pool another is just
  creating; a third worker adds no new relation of the count to the set of sleepers.
* Two producers and two consumers let a woken thread be overtaken by one that never slept, on both
  sides; capacity 2 keeps *full* and *empty* apart, four items wrap a ring of two slots twice.
  Three producers on two slots put one more thread between P and V than there are slots.
* The reactor's buffers of one piece make every send and every recv partial; two events per wait with
  a listener and two clients leave an event behind in the ready list; two descriptors are reused, and
  with one inherited `accept` fails.  `BatchCurrent` needs a batch of two: the first event's handler reads, answers, closes or
  accepts while the second waits.
* With two descriptors an event server has its listener and nothing else (epoll not even its own
  descriptor), with three room for one client (none beside epoll's), with five the table is full before the
  descriptors are and select passes its `FD_SETSIZE`; two events per wait leave a ready client
  for the next one, and a second piece after a short `recv` must be reported again.
* Two connections let a process inherit, or a command of one client hold, the other's socket; with two
  sockets per process `accept` fails while one client is served.
* The programs: two log servers make the second start and the child of a killed one; three lines with
  `_maxline` 1 two backups, in one second or two.  Two rounds of the semaphore; two servers
  and two clients of the segment; two messages of two writers in a pipe that holds two.  Ints of 3 bits
  (-4..3) in every operation at both limits, and streams of two requests cut everywhere.  Two UDP clients,
  two questions, one duplicate.  Two browsers, two ids (which collide), one restart.  One replacement of a file while its request is
  served.  Two orders to the shell, the second after any first; texts of at most two
  characters in a buffer of three; two loggers of two lines over a change of the minute; five calls of a
  Thread's methods, three threads for three tickets.  The buffers, pipes and alphabets are the least that
  can be full, half full and empty.
* Three children make one that inherits two write ends; five rounds pass the end of the list.

Deadlock is checked in `thread_pool`, `block_queue` and `cp_block_queue_if`.  It is off where the
system may rightly stop: the ring queue when the items are used up, the reactor, the event servers and the
accept loops when no client does anything more, the process pool when main is done, the chat, the calculator and
the session server when the users are, and the programs when they end.

Items, texts, rounds, stream lengths and calls are the bounds on counters; each is a constant in
a guard.  No symmetry is used.

## Fairness

* Threads and processes are scheduled: weak fairness of each thread's step.  Every liveness property
  assumes at least this, and the kernel gives it.
* A thread that asks for a mutex again and again when it is free gets it: strong fairness of the
  locking steps (ThreadPool, BlockQueue, RingQueue), and of P on a semaphore that is posted again and
  again.  pthread mutexes and semaphores do not promise FIFO, but on Linux a waiter is woken and retries.
* In `tcp_servers` a command ends and a client takes what has arrived; in `programs` the log server and its
  child, the pipe's reader, the semaphore's father and child and the three threads of the chat client are scheduled; the father gets
  the semaphore if it is free again and again (strong fairness of its P).
* Never assumed: that a client calls, that Stop is called, that a spurious wakeup happens, that a
  client of a server writes, closes or resets, that anybody is killed or not killed, that a datagram arrives, that time passes.  Only the clients in `Readers` are assumed to read on.

## Proofs

The theorems hold for any finite sets of threads or clients and any sizes.  The assumptions on the constants are
named in the modules that declare these (`PoolAssumption`, `QueueAssumption`, `RecheckAssumption`, `RingAssumption`,
`ReactorAssumption`, `ServersAssumption`, `ProgramsAssumption`, and in `Services` one per program that needs one,
`HttpAssumption` to `LoggersAssumption`); TLC evaluates them.  They say only that sets of threads are finite and disjoint, that capacities
and buffers are positive, that descriptors are numbers and that values which stand for nothing (`Nothing`, `"none"`,
`"nobody"`, `"server"`) are no clients, files, ids, loggers or times.  Besides:

* the alphabet is shorter than the segment (26 letters, 4096 bytes: `Shm.hpp`), the father has a round to do (50:
  `Writer.cc`), and the handlers registered leave a place of their table empty (3 of 5: `proc.c`);
* the file sizes of Http have a positive limit;
* an int has at least 3 bits, since the requests of `Batches` hold numbers from -4 to 3, and the base of the digits is at least 2.
  `CalculatorAssumption` states of powers what is used of them (2^w = 2 * 2^(w-1), b^0 = 1, b^(k+1) = b * b^k):
  tlapm has no arithmetic of `^`.

What is a definition of the instance and not a constant stays as it is in the theorems too: the calculator's `Batches`, the shell's
`Orders`, the dictionary's file, the texts of MyStdio and the clock of the loggers.

**ThreadPoolProofs** has three layers.  `SleepInv` (types, the mutex is held exactly between a
worker's lock and unlock, `_sleepernum` is the number of workers inside `_cond.Wait`) is inductive by
itself.  `LifeInv` orders creation, start and stop: no thread exists before `_is_running`, nothing
stops before the start.  On both rests `PoolInv`, whose parts are needed together: `NoLostWakeup`
needs that the signal is sent when the count *equals* the number of threads and that a signalled
thread is outside `waiting` until it has looked at the queue; `DrainedOnExit` needs `ExitAfterStop`,
that a worker exits only after it has seen the queue empty and the flag cleared, and that after that only clients whose
check came before Stop can push.  `RefusalWindow` is an action property from the same invariant.

**QueuesProofs** is about both queues.  For the ring, `RingInv` says that the blank semaphore, the data semaphore and the threads between P
and V count every slot once, that the steps are the numbers of items put and got modulo the capacity,
and that the slots from the one to the other hold the items put and not yet got.  Mutual exclusion of slots needs the
arithmetic lemma that two numbers less than a capacity apart have different remainders
(`SlotsDiffer`).  The refinement maps the channel to `InRing`: `Content`, a consequence of `RingInv`, says that the slots are
the items sent and not read, so that writing a slot appends to the channel and reading one takes its head.
For the blocking queue, `CountInv` says that the two counts are the cardinalities of the sets of threads inside
their waits.  `ItemsHaveTakers` and `RoomHasUsers` then say that, while somebody sleeps unwoken, each
item (each free place) has a woken thread on its way; they are inductive over `CountInv`, with the
lemma that a signal with a positive count wakes exactly one sleeper.  `Between` (0 ≤ length ≤ capacity) gives
the refinement `BlockFifoCorrect` and `CapacityCorrect`, both under `Recheck`: without it the run
`cp_block_queue_if` refutes them.

**ProcessPoolProofs.**  `PoolInv` has a part per question.  `Rounds` says that the channels before `_next` are one
task ahead of the last one and the others level with it, which makes `Balanced` inductive: `Balanced` alone is not.
`RunsWhatWasSent` is `Accounted` (sent = run, then in hand, then in the pipe) together with `Left`: a child leaves only
when the parent is past its last `Send`, because until then the parent has the write end (`ParentHolds`).
`Inherited` says that a child keeps only ends of its elder brothers' pipes and its own, until it has
closed them.  `Piped` was found by a failed step: without it nothing says that the pipe of a child still to be made is
closed everywhere.  `EndComesCorrect` is the safety half of `StopReaps`.

**EventServersProofs.**  `ServersInv` needs three facts about descriptors: a connection is in the backlog or has one
descriptor (`OnePlace`), the table or the interest set names the open ones once each (`Watched`), and epoll's ready list
and its result name a descriptor once (`ListedOnce`).  `WatchesTheOpen` follows from `Watched`; `NeverBlocks` is
inductive beside them, since only the server takes what a client sent, and its `select` case needs
`Fresh`: the listener is dispatched first, before an accept changes the table under the result.

**TcpServersProofs.**  `Table` lists the accepting process's sockets at each of its places, `Children` those of the
processes it makes, `Once` says that a connection is waiting, being accepted or served, and once; `SocketsOwned` follows.
The proof attempt found `ProcessOf` written as a `CASE` with overlapping guards, of which TLA+
may choose either; it is an `IF` now.

**ReactorProofs** has two layers.  `ReactorInv` starts from the agreement of three tables: the kernel's descriptors,
`_connections` and epoll's interests (`Owned`, `Watched`); they differ only between `accept` and `AddConnection`, and
with `Placed` (a Channel is called only while `_connections` has it) this carries `NoInputForgotten`, `NoOutputForgotten` and
`BatchCurrent`, which are inductive together.  `BatchCurrent` rests on `Batched`: epoll names a descriptor once in a batch, so that no handler but
its own takes what an event is about, and the listener accepts only while its own event is the current one.  `StreamInv` numbers a client's pieces: those in the
socket (`Queued`), those in `_inbuffer`, and those decoded, whose answers are what was read, what is in flight and what is
in `_outbuffer` (`Served`).  Decoding is a cut at the last package's end, and its lemmas (`DecodedIs`, `AnswersConcat`)
say that the answers to two runs of pieces are those to the first, then those to the second.

**ProgramsProofs** proves the five invariants of `MCPrograms`, whose behaviours are of one program each, from one inductive
invariant per program, which stands in the program's module.  Those for `AnswersWhole` and `OutputKept` come
from ServicesProofs, below.
`ChainInv` (log): `LinesKept` needs that a second's backup is the child's own (`BackupsApart`: without two backups
in one second the suffix is new, and what is removed is in the archive), that a server's hands are full while it saves
(`HandsFull`) and that whoever uses the queue was given it (`QueueKnown`, found by a failed step: without it a `Send` to
queue 0 loses a line).  `WritersInv` (semaphore): a process has a unit exactly
between P and V, the value is 0 while it has one, and never both have one; that the child is unborn until the father is past the fork is what makes
`SetVal` harmless.  `SegmentInv` (shared memory): a byte is 0 or its own letter, a server has shown the bytes it
passed, and a server at work has the segment.  `PipeInv` (pipe): what was read and what is in the pipe are together, for
each writer that is not late, its messages from the first to the last in order.  The proof is about the places of a
message in a sequence (`Before`), for which `AllReadAtTheEnd` is stated with places, not with `SelectSeq`.
For `ThreadsOrdered`: `ObjectInv` (Thread classes) says that the id names the object's thread from Start to Join as
long as the owner keeps to the order, and that only a Detach after Start detaches.  `ClientInv` (chat's client): a thread
that is not there is why a call had failed, and only the sender cancels, as the last thing it does.  `ThreadsInv`
(tickets, numbers, vector, flag): the mutex is held from the test or the wakeup to the change, so what was printed and the
count differ by at most the one who is in between, and no more was printed than wakeups are not owed.  `SignalsInv`: a
signal sent is handled, waits or is in hand, what is blocked is not in hand, and before the alarm is set or the child made
there is nothing (found by two failed steps).  `ChildrenInv`: of ProcessA's texts one at most is still to be shown, and
of the terminal's characters a read drops one, no newline only where the buffer was full.

**ServicesProofs** has the inductive invariants of the programs in `Services`, in a module of its own because the
cost of every step of a proof grows with the definitions in scope.  For `OutputKept`:
`FileInv` (MyStdio): as long as no `write` was short, disk and buffer together are what was written, and the buffer is
empty behind a line's end.  `LogInv` (Logger): whoever is writing a line has the mutex of its process and its line alone is in
the stream, so lines and separators alternate in a file; a logger's lines are in it in turn, all but those lost; and without
an overlap in `localtime` the struct holds a thread's time until it has formatted it (`TimesShown`).  `ShellInv` (both shells): the order
is still in the line, or in `argv` and `redir`, and the files are as before it until the child opens one (`OrderParsed`,
`OrderRun`); no program changes a file it was not sent to.
For `AnswersWhole`: `PageInv` (Http): what is known of the answer at each look at the file, and that the three looks
agree if nobody replaced a file (`SizesKept`).  `RouteInv` (chat): only a peer's own worker puts it on the list, and whoever changes the
list is alone in it, as long as nothing overlapped or raced.  `UdpInv`: every datagram on its way belongs to a question that was
asked; without duplicates there is one for each client that waits.  `SessionInv`: an id that is made is its maker's
until the answer, a number read is given to one session unless two tasks read it at once, and a browser none of whose requests was cut
off logs in once.  `CalcInv`: there are numbers `done` of requests answered and `got` of answers shown such that the server's buffer and the
stream to it hold exactly the requests after `done`, and the client's buffer, the stream to it and the answer under way
exactly the answers `got + 1` to `done` (`Asks`, `Answers`).  On it rests that `Decode` cuts a stream where `Encode` had joined
it, however it arrives in pieces; and that `stoi` undoes `to_string` for the lengths that occur.

Induction.  The library's induction rules take a predicate as a parameter, which the provers here cannot instantiate.
Where an induction over the natural numbers was needed, lemma `Smallest` of ServicesProofs (a set of naturals has a least member, from the
well-foundedness of <) gives it as the choice of a least counterexample.  A recursive function is defined only once a function that satisfies its
equation is shown to exist; that is done for the bounded lengths that occur (the digits of a length, the requests of a
batch), with such a function written down.
In the modules with theorems, lists are filtered by `Picked`, `StillReady` and `Without`, which number the entries to keep, and
a logger's lines are found by their places, because `SelectSeq` is defined by recursion over data.

Only model-checked: liveness, which is outside the provers' reach (`EarlyTasksRun`, `StopDrains`, `EveryItemArrives`,
`RingEveryItemArrives`, `RequestsAnswered`, `GoneForgotten`, `StopReaps`, `EveryoneHeard`, `AcceptsAgain`, `WaitingEnds`, `Ends`).
Every invariant and action property and both refinements that a passing run checks is a theorem.

## Findings

1. `cp_block_queue_if`: the queue of test_03_23 tests with `if` before it waits; one spurious wakeup
   or one overtaking producer exceeds the capacity (`test_03_23/CP/BlockQueue.hpp:29`).
2. `chat_delete_user`: `DeleteUser` erases the first user, not the one that quits
   (`test_04_03/3.Chatserver/Route.hpp:37`).  One client's QUIT takes another off the list while that one's message is
   being routed, and of its sender line 60's comment (`certainly online now`) is not true.
3. `netcal_partial_response`: `GetResponse` spins for ever on a response that arrived in part
   (`test_04_16/NetCal/Protocol.hpp:277`).
4. `http_session_stale_login`: `/login` with the sessionid of an earlier run of the server is answered without a
   session (`test_05_03/session/HttpProtocol.hpp:254`).

Without a run, because the model says it in one line: the dictionary does not translate.  `Translate` finds the word's meaning, logs it, and
returns the word (`test_04_03/2. dictserver/Dict.hpp:61`, `62`), so that every answer is the question twice, though
`UdpServer.cc:22` says that the dictionary object provides the translation.  `Translate` and `Answer` of UdpServers are what the
code does, and `OwnAnswers` (in `AnswersWhole`) says only that this answer reaches the client that asked.

The models also contain, as steps, defects that no property above counts as a violation: a client's
reset ends the reactor (`Channel.hpp:65`, `106`), and so does a request on which `stoi` or `asInt` throws or the division traps
(`Protocol.hpp:147`); a connection whose `EPOLL_CTL_ADD` failed is kept and never read (`Epoller.hpp:31`); a Join while the pool is being
made ends the process (`ThreadPool.hpp:94`); `MyFopen` with mode `"a"` truncates as `"w"` does (`mystdio.c:34`), which no text of the repository
contradicts; a task accepted between Stop's store and the last
worker's exit is stranded (`ThreadPool.hpp:133`); one failed `pthread_create` silences the signals
(`ThreadPool.hpp:139`); a pool of no children divides by zero (`ProcessPool.hpp:66`).
Two of the chat server's threads that insert at once may lose a user (`Overwritten`) or crash it (`ListRight`, `raced`).
In the other programs the property names the premise that the defect breaks: two backups in one second
(`LinesKept`, `named.twice`), messages of one peer at once (`ListRight`, `overlapped`), one user number read twice or one id given twice
(`SessionsOwned`, `raced` and `collided`), the smallest int divided by -1 (`ResultsRight`, `Traps`), a word nobody
knows (`OwnAnswers`), a blank line to the shell and the end of its input (`KnownEnds`), a QUIT before main has the id
(`CrashKnown`, `early`), writers that open a pipe after its reader saw the end (`MessageRead`, `late`),
files replaced in the middle of an answer (`AnswersWhole` of Http, `changes`),
two threads in `localtime` (`LinesWhole`, `overlap`), short writes (`WrittenKept`, `short`),
`Detach` before `Start` (`CallsDefined`), a handler that never returns (`SignalsKept`), a second fork that fails
(`AcceptsAgain`), sockets that the session server loses (`SocketsOwned`, `lost`).

Beside the mutants that `PROJECT.json` lists, one per property of a run, some modules keep others that were used to
see that a part of a conjunction can fail: `CreateMutant` (LogChain), `UnitsMutant` (SemWriters),
`NotFoundLengthMutant` (Http), `LogsInMutant` (HttpSession), `ReplyMutant` (UdpServers), `NoRedirMutant` (Shell),
`EmptiedMutant` (MyStdio), `JoinableMutant` (ThreadClass), `CancelMutant` (ChatClient), `DataVMutant` (RingQueue).

## What is not modelled

* `Daemon.hpp`: nobody calls it (NetCal's main calls the C library's `daemon`).
* The exercises that call `open`, `write`, `dup2`, `readdir`, `getenv` or `printf` once, or in one straight line, and end: a
  state machine of them has one behaviour.  Programs that exist only as comments.
* The text of log lines, headers and answers, JSON, addresses and byte order: no property depends on
  them.  Lengths, framing and arithmetic, on which some do, are in Calculator and Http.
* Signals to the servers other than SIGPIPE, SIGFPE and kills; running out of memory; `Cond::Wait`'s branch for a
  failing `pthread_cond_wait` (`Cond.hpp:21`), which Linux never takes.
* Undefined behaviour ends a model (`crashed`, `thrown`, `overrun`, `undefined`, `broken`) unless its outcomes
  are named above; what the process does afterwards is not followed.
* In the reactor, a header with a negative length, which `Decode` accepts and cuts at a place no client meant; and whatever a process does after `lost`.
* Malformed requests to the calculator of `Calculator.tla` (see the reactor's `fatal` pieces) and to NetCal.
* `_outbuffer` of the reactor's channels has no limit in the code, and the model bounds what a client sends instead.

## Plan

1. *Done:* ThreadPool, BlockQueue, RingQueue with proofs; Reactor, ProcessPool; the violation modules.
2. *Done:* EventServers; TcpServers, every accept loop with its processes, threads and tasks.
3. *Done:* the programs of `MCPrograms`: IPC, log chain, page, session and chat servers, calculator, UDP, shells, buffered files,
   loggers, threads, signals and children.
4. *Done:* proofs of ProcessPool, EventServers, TcpServers and Reactor, and of the five invariants of `MCPrograms`.
5. *Done:* faults of the reactor's clients beyond resets, failing `epoll_ctl`.  Left: a third client in `reactor`, if a smaller state can be
   found; negative lengths.
