------------------------------- MODULE ThreadExercises -------------------------------
(***************************************************************************)
(* Four small programs with threads: tickets (test_03_23/Lock), a condition   *)
(* variable without a condition (test_03_23/Cond), a vector of threads        *)
(* (test_03_19) and a counter that main reads (test_03_16).                   *)
(***************************************************************************)
EXTENDS Naturals, Sequences, FiniteSets

CONSTANTS
    Threads,        \* numbers 1..n: they are made and joined in order
    Tickets,        \* tickets at first; rounds of the counter
    MaxSignals      \* signals main sends, spurious wakeups (a bound of the model)

VARIABLES
    kind,       \* tickets, cond, vector, flag
    made,       \* pthread_create called
    tids,       \* the threads main has an id of
    joined,     \* threads joined
    pc,         \* of the threads
    holder,     \* of the mutex; 0 for nobody
    count,      \* ticket, cnt, flag
    out,        \* what was printed: tickets sold, results, what main saw
    wakeups,    \* history: signals that woke a thread, spurious wakeups
    signals,    \* history: signals sent, and wakeups of nobody
    overrun     \* a join with an id that is none

vars == <<kind, made, tids, joined, pc, holder, count, out, wakeups, signals, overrun>>

Nobody == 0
First == CASE kind = "tickets" -> Tickets [] OTHER -> 100

Init ==
    /\ kind \in {"tickets", "cond", "vector", "flag"}
    /\ made = 0 /\ tids = <<>> /\ joined = 0
    /\ pc = [t \in Threads |-> "none"]
    /\ holder = Nobody
    /\ count = First
    /\ out = <<>>
    /\ wakeups = 0 /\ signals = 0
    /\ overrun = FALSE

To(t, at) == pc' = [pc EXCEPT ![t] = at]
Number == IF kind = "flag" THEN 1 ELSE Cardinality(Threads)

-----------------------------------------------------------------------------
(* main: it makes the threads one by one and joins them one by one. *)

\* Where a thread begins.
Entry == CASE kind = "vector" -> "run" [] kind = "flag" -> "add" [] OTHER -> "lock"

\* Only cond and vector look at the result; the others use the id they have.
Create(works) ==
    /\ made < Number
    /\ made' = made + 1
    /\ pc' = IF works THEN [pc EXCEPT ![made + 1] = Entry] ELSE pc
    /\ tids' = IF works \/ kind \notin {"cond", "vector"} THEN Append(tids, made + 1) ELSE tids
    /\ UNCHANGED <<kind, joined, holder, count, out, wakeups, signals, overrun>>

\* vector counts to num, not to the size; cond signals for ever instead.
JoinNext ==
    LET i == joined + 1
        bad == i > Len(tids) \/ pc[tids[i]] = "none"
    IN  /\ made = Number /\ kind # "cond" /\ joined < Number /\ ~overrun
        /\ IF bad THEN TRUE ELSE pc[tids[i]] = "over"
        /\ overrun' = bad
        /\ joined' = IF bad THEN joined ELSE i
        /\ UNCHANGED <<kind, made, tids, pc, holder, count, out, wakeups, signals>>

\* main prints the counter while the thread adds to it.
Look ==
    /\ kind = "flag" /\ joined = 0 /\ made = Number /\ Len(out) < 2
    /\ out' = Append(out, count)
    /\ UNCHANGED <<kind, made, tids, joined, pc, holder, count, wakeups, signals, overrun>>

Waiting == {t \in Threads : pc[t] = "wait"}

\* A signal wakes one that waits, or nobody.
Signal(t) ==
    /\ kind = "cond" /\ made = Number /\ signals < MaxSignals
    /\ signals' = signals + 1
    /\ IF Waiting = {} THEN UNCHANGED <<pc, wakeups>>
       ELSE t \in Waiting /\ To(t, "relock") /\ wakeups' = wakeups + 1
    /\ UNCHANGED <<kind, made, tids, joined, holder, count, out, overrun>>

-----------------------------------------------------------------------------
(* The threads. *)

\* Lock without the mutex.
FreeMutant(t) == TRUE

Free(t) == holder = Nobody

Lock(t, at) == Free(t) /\ holder' = t /\ To(t, at)
Unlock(t, at) == holder' = Nobody /\ To(t, at)

\* LockGuard's constructor; routine's lock and wait.
Enter(t) ==
    /\ pc[t] = "lock"
    /\ \/ kind = "tickets" /\ Lock(t, "test")
       \/ kind = "cond" /\ Free(t) /\ To(t, "wait") /\ UNCHANGED holder
    /\ UNCHANGED <<kind, made, tids, joined, count, out, wakeups, signals, overrun>>

Test(t) ==
    /\ pc[t] = "test"
    /\ IF count > 0 THEN To(t, "print") /\ UNCHANGED holder ELSE Unlock(t, "over")
    /\ UNCHANGED <<kind, made, tids, joined, count, out, wakeups, signals, overrun>>

\* pthread_cond_wait may return for nothing.
Spurious(t) ==
    /\ pc[t] = "wait" /\ signals < MaxSignals
    /\ To(t, "relock")
    /\ signals' = signals + 1 /\ wakeups' = wakeups + 1
    /\ UNCHANGED <<kind, made, tids, joined, holder, count, out, overrun>>

\* ... with the mutex.
Woken(t) ==
    /\ pc[t] = "relock"
    /\ Lock(t, "print")
    /\ UNCHANGED <<kind, made, tids, joined, count, out, wakeups, signals, overrun>>

PrintCount(t) ==
    /\ pc[t] = "print"
    /\ out' = Append(out, count)
    /\ To(t, "change")
    /\ UNCHANGED <<kind, made, tids, joined, holder, count, wakeups, signals, overrun>>

\* ticket--, cnt++, and the end of the guard's scope.
Change(t) ==
    /\ pc[t] = "change"
    /\ count' = IF kind = "tickets" THEN count - 1 ELSE count + 1
    /\ Unlock(t, "lock")
    /\ UNCHANGED <<kind, made, tids, joined, out, wakeups, signals, overrun>>

\* test_03_16: flag++ without a lock, by one thread.
Add(t) ==
    /\ pc[t] = "add"
    /\ IF count < First + Tickets THEN count' = count + 1 /\ UNCHANGED pc
       ELSE To(t, "over") /\ UNCHANGED count
    /\ UNCHANGED <<kind, made, tids, joined, holder, out, wakeups, signals, overrun>>

Run(t) ==
    /\ pc[t] = "run"
    /\ To(t, "over")
    /\ UNCHANGED <<kind, made, tids, joined, holder, count, out, wakeups, signals, overrun>>

Next ==
    \/ JoinNext \/ Look
    \/ \E works \in BOOLEAN : Create(works)
    \/ \E t \in Threads : \/ Signal(t) \/ Enter(t) \/ Test(t) \/ Spurious(t) \/ Woken(t)
                          \/ PrintCount(t) \/ Change(t) \/ Add(t) \/ Run(t)

-----------------------------------------------------------------------------
(* Properties. *)

TypeOK ==
    /\ pc \in [Threads -> {"none", "lock", "test", "wait", "relock", "print", "change",
                           "add", "run", "over"}]
    /\ holder \in Threads \cup {Nobody}
    /\ joined \in 0..Len(tids)

(* Every ticket is sold once, in order, and none below 1 (route); the results of *)
(* the condition variable's threads are 100, 101, ..., each for a wakeup; what  *)
(* main sees of the counter never goes back, and main is through its joins      *)
(* when all threads are over, with the whole count, unless a thread could not   *)
(* be made, in which case it joins with an id that names none.                  *)
CountsOrdered ==
    /\ kind = "tickets" => out = [i \in DOMAIN out |-> Tickets + 1 - i] /\ Len(out) <= Tickets
    /\ kind = "cond" => out = [i \in DOMAIN out |-> 99 + i] /\ Len(out) <= wakeups
    /\ kind = "flag" => \A i \in DOMAIN out : i > 1 => out[i - 1] <= out[i]
    /\ joined = Number =>
          /\ \A t \in 1..made : pc[t] = "over"
          /\ kind = "tickets" => Len(out) = Tickets
          /\ kind = "flag" => count = First + Tickets
    /\ overrun => \E t \in 1..Number : pc[t] = "none"

\* Whoever has taken a ticket or printed a number and not yet changed the count,
\* and who was woken and has not printed.
Changing == IF \E t \in Threads : pc[t] = "change" THEN 1 ELSE 0
Owed == {t \in Threads : pc[t] \in {"relock", "print"}}

\* Where a thread of each program can be.
Places == CASE kind = "tickets" -> {"none", "lock", "test", "print", "change", "over"}
            [] kind = "cond" -> {"none", "lock", "wait", "relock", "print", "change"}
            [] kind = "vector" -> {"none", "run", "over"}
            [] OTHER -> {"none", "add", "over"}

ThreadTypes ==
    /\ TypeOK
    /\ kind \in {"tickets", "cond", "vector", "flag"}
    /\ made \in 0..Number /\ tids \in Seq(1..made) /\ Len(tids) <= made
    /\ count \in Nat /\ out \in Seq(Nat) /\ wakeups \in Nat /\ overrun \in BOOLEAN

Located == \A t \in Threads : pc[t] \in Places /\ (pc[t] # "none" => t <= made)

MutexHeld == \A t \in Threads : holder = t <=> pc[t] \in {"test", "print", "change"}

IdsKnown ==
    /\ Len(tids) = made => \A i \in 1..made : tids[i] = i
    /\ Len(tids) < made => \E t \in 1..made : pc[t] = "none"
    /\ \A i \in 1..joined : pc[tids[i]] = "over"
    /\ joined > 0 \/ overrun => made = Number
    /\ overrun => \E t \in 1..Number : pc[t] = "none"

TicketsInv ==
    /\ Len(out) + count = Tickets + Changing
    /\ \A i \in DOMAIN out : out[i] = Tickets + 1 - i
    /\ \A t \in Threads : pc[t] \in {"print", "change"} => count > 0
    /\ \A t \in Threads : pc[t] = "over" => count = 0

CondInv ==
    /\ count + Changing = First + Len(out)
    /\ \A i \in DOMAIN out : out[i] = 99 + i
    /\ Len(out) + Cardinality(Owed) <= wakeups

FlagInv ==
    /\ count <= First + Tickets
    /\ \A i \in DOMAIN out : out[i] <= count /\ (i > 1 => out[i - 1] <= out[i])
    /\ \A t \in Threads : pc[t] = "over" => count = First + Tickets

(* What it rests on: the mutex is held from the test or the wakeup to the change,  *)
(* so what was printed and the count go together; and main's ids are those of the *)
(* threads made unless one could not be made.                                   *)
ThreadsInv ==
    /\ ThreadTypes /\ Located /\ MutexHeld /\ IdsKnown
    /\ kind = "tickets" => TicketsInv
    /\ kind = "cond" => CondInv
    /\ kind = "flag" => FlagInv
=============================================================================
