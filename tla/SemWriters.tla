------------------------------- MODULE SemWriters -------------------------------
(***************************************************************************)
(* test_03_26: a father and a child print pairs of letters, "FF" and "CC",   *)
(* under a System V semaphore with SEM_UNDO.  The father makes the set before *)
(* it forks, the child looks it up, and the father's last reference removes   *)
(* it.  Either may be killed at any time.                                     *)
(***************************************************************************)
EXTENDS Naturals, FiniteSets

CONSTANTS
    Rounds      \* of the father (50)

Father == "father"
Child == "child"
Writers == {Father, Child}
Letters == {"F", "C"}

VARIABLES
    wpc,        \* each process's place
    root,       \* whether they run as root: a set of mode 0 can be used
    sem,        \* the set's generation and its value; generation 0: there is none
    semid,      \* the generation each process holds, 0 for a null pointer
    undo,       \* semadj of each process
    round,      \* rounds the father has left
    half        \* history: the letter printed without its second; "torn" when
                \* the other letter came between

vars == <<wpc, root, sem, semid, undo, round, half>>

None == [gen |-> 0, val |-> 0]

\* An earlier run may have left its set behind, with its unit given back by
\* SEM_UNDO, or the one a late child made.
Init ==
    /\ wpc = [p \in Writers |-> IF p = Father THEN "build" ELSE "unborn"]
    /\ root \in BOOLEAN
    /\ sem \in {None, [gen |-> 1, val |-> 1], [gen |-> 3, val |-> 0]}
    /\ semid = [p \in Writers |-> 0]
    /\ undo = [p \in Writers |-> 0]
    /\ round = Rounds
    /\ half = "none"

Goto(p, place) == wpc' = [wpc EXCEPT ![p] = place]

-----------------------------------------------------------------------------
(* SemaphoreBuilder::Build. *)

\* BUILD_SEM: with IPC_EXCL; if the set exists the pointer is null.
FatherBuild ==
    /\ wpc[Father] = "build"
    /\ IF sem = None
       THEN sem' = [gen |-> 2, val |-> 0] /\ semid' = [semid EXCEPT ![Father] = 2]
       ELSE UNCHANGED <<sem, semid>>
    /\ Goto(Father, IF sem = None THEN "setval" ELSE "fork")
    /\ UNCHANGED <<root, undo, round, half>>

\* SetVal(2).
UnitsMutant == 2

\* The value the father's builder was given.
Units == 1

\* semctl SETVAL, before the only other user exists.
SetVal ==
    /\ wpc[Father] = "setval"
    /\ sem' = [sem EXCEPT !.val = Units]
    /\ Goto(Father, "fork")
    /\ UNCHANGED <<root, semid, undo, round, half>>

\* The child has a copy of fsem too, but leaves by exit(0) without running
\* its destructor.
Fork ==
    /\ wpc[Father] = "fork"
    /\ \/ wpc' = [wpc EXCEPT ![Father] = "P", ![Child] = "build"]
       \/ Goto(Father, "P")
    /\ UNCHANGED <<root, sem, semid, undo, round, half>>

\* GET_SEM: without a set, IPC_CREAT makes one of value and mode 0.
ChildBuild ==
    LET got == IF sem = None THEN [gen |-> 3, val |-> 0] ELSE sem IN
    /\ wpc[Child] = "build"
    /\ sem' = got
    /\ semid' = [semid EXCEPT ![Child] = got.gen]
    /\ Goto(Child, "P")
    /\ UNCHANGED <<root, undo, round, half>>

-----------------------------------------------------------------------------
(* Semaphore::pv and the two loops. *)

Usable(p) == semid[p] = sem.gen /\ (semid[p] = 3 => root)

\* fsem is null: the program dies.
Crash(p) ==
    /\ wpc[p] = "P"
    /\ semid[p] = 0
    /\ Goto(p, "dead")
    /\ UNCHANGED <<root, sem, semid, undo, round, half>>

\* semop fails: exit(0).
OpFails(p) ==
    /\ wpc[p] \in {"P", "V"}
    /\ semid[p] # 0 /\ ~Usable(p)
    /\ Goto(p, "dead")
    /\ undo' = [undo EXCEPT ![p] = 0]
    /\ UNCHANGED <<root, sem, semid, round, half>>

P(p) ==
    /\ wpc[p] = "P"
    /\ semid[p] # 0 /\ Usable(p)
    /\ sem.val > 0
    /\ sem' = [sem EXCEPT !.val = @ - 1]
    /\ undo' = [undo EXCEPT ![p] = @ + 1]
    /\ Goto(p, "first")
    /\ UNCHANGED <<root, semid, round, half>>

Letter(p) == IF p = Father THEN "F" ELSE "C"

\* printf and fflush of one letter.
PrintLetters(p) ==
    /\ wpc[p] \in {"first", "second"}
    /\ half' = CASE half = "none" -> Letter(p)
                 [] half = Letter(p) -> "none"
                 [] OTHER -> "torn"
    /\ Goto(p, IF wpc[p] = "first" THEN "second" ELSE "V")
    /\ UNCHANGED <<root, sem, semid, undo, round>>

\* The father counts its rounds, the child goes on for ever.
V(p) ==
    /\ wpc[p] = "V"
    /\ Usable(p)
    /\ sem' = [sem EXCEPT !.val = @ + 1]
    /\ undo' = [undo EXCEPT ![p] = @ - 1]
    /\ round' = IF p = Father THEN round - 1 ELSE round
    /\ Goto(p, IF p = Father /\ round = 1 THEN "remove" ELSE "P")
    /\ UNCHANGED <<root, semid, half>>

\* ~Semaphore at the end of main: IPC_RMID, whoever waits on the set.
Remove ==
    /\ wpc[Father] = "remove"
    /\ sem' = None
    /\ Goto(Father, "done")
    /\ UNCHANGED <<root, semid, undo, round, half>>

\* Without SEM_UNDO.
GiveBackMutant(p) == 0

\* What the kernel gives back when a process ends.
GiveBack(p) == IF semid[p] = sem.gen THEN undo[p] ELSE 0

Kill(p) ==
    /\ wpc[p] \notin {"unborn", "dead", "done", "killed"}
    /\ sem' = IF sem = None THEN sem ELSE [sem EXCEPT !.val = @ + GiveBack(p)]
    /\ undo' = [undo EXCEPT ![p] = 0]
    /\ Goto(p, "killed")
    /\ UNCHANGED <<root, semid, round, half>>

Step(p) == Crash(p) \/ OpFails(p) \/ P(p) \/ PrintLetters(p) \/ V(p)
FatherStep == FatherBuild \/ SetVal \/ Fork \/ Step(Father) \/ Remove
ChildStep == ChildBuild \/ Step(Child)

Next == FatherStep \/ ChildStep \/ \E p \in Writers : Kill(p)

-----------------------------------------------------------------------------
(* Properties. *)

Places == {"unborn", "build", "setval", "fork", "P", "first", "second", "V",
           "remove", "done", "dead", "killed"}

TypeOK ==
    /\ wpc \in [Writers -> Places]
    /\ sem.gen \in 0..3 /\ sem.val \in 0..1
    /\ semid \in [Writers -> 0..3]
    /\ undo \in [Writers -> 0..1]
    /\ round \in 0..Rounds
    /\ half \in Letters \cup {"none", "torn"}

(* The comment at Writer.cc:14: C and F come in pairs.  It survives the       *)
(* removal of the set under a child that is between its two letters, the set *)
(* left by an earlier run, and the one the child makes by mistake; only a    *)
(* killed process leaves half a pair.                                        *)
PairsTogether ==
    (\A p \in Writers : wpc[p] # "killed") =>
        /\ half # "torn"
        /\ half # "none" => \E p \in Writers : half = Letter(p) /\ wpc[p] = "second"

(* A unit is taken between P and V and nowhere else; the set that is there    *)
(* has no more units than it began with; the father's set stays until its     *)
(* destructor; and half a pair is in the hand of who prints.                  *)
Taken(p) == undo[p] = 1
Inside == {"first", "second", "V"}

SetKept ==
    /\ sem \in [gen : 0..3, val : 0..1] /\ (sem.gen = 0 => sem = None)
    /\ semid[Father] \in {0, 2}
    /\ semid[Father] = 2 /\ wpc[Father] # "done" => sem.gen = 2
    /\ semid[Child] # 0 => semid[Child] = sem.gen \/ wpc[Father] = "done"
    /\ wpc[Father] \in {"build", "setval", "fork"} => wpc[Child] = "unborn"
    /\ wpc[Father] = "build" => semid[Father] = 0
    /\ wpc[Father] = "setval" => semid[Father] = 2
    /\ wpc[Child] = "unborn" => semid[Child] = 0

UnitsKept ==
    /\ \A p \in Writers : Taken(p) <=> wpc[p] \in Inside
    /\ \A p \in Writers : Taken(p) => semid[p] # 0
    /\ \A p \in Writers : Taken(p) /\ semid[p] = sem.gen => sem.val = 0
    /\ ~ (Taken(Father) /\ Taken(Child))

WritersInv ==
    /\ TypeOK
    /\ SetKept
    /\ UnitsKept
    /\ wpc[Father] \notin {"remove", "done", "dead", "killed"} => round > 0
    /\ PairsTogether
    /\ (\A p \in Writers : wpc[p] # "killed") =>
          \A p \in Writers : wpc[p] = "second" => half = Letter(p)

(* SEM_UNDO: the father gets through its rounds although the child may be     *)
(* killed between P and V.                                                   *)
FatherEnds == wpc[Father] \in {"done", "dead", "killed"}
=============================================================================
