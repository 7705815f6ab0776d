------------------------------ MODULE SignalExercises ------------------------------
(***************************************************************************)
(* Programs that catch and block signals: testSig.cc ("catch"), signalSave    *)
(* ("save") and the alarm of test_03_09 ("alarm"), test_signal of Test        *)
(* ("block") and the SIGCHLD handler of test_03_13 ("child").  A signal that  *)
(* waits is remembered once, a real-time one as often as it was sent.         *)
(***************************************************************************)
EXTENDS Naturals, Sequences

CONSTANTS
    MaxSent,        \* signals of each kind sent (a bound of the model)
    Rounds,         \* rounds of signalSave until it unblocks; 10 in the code
    MaxRings        \* alarms until the run is cut off (a bound of the model)

VARIABLES
    kind,
    ppc,        \* main: setup, mask, loop; killed
    inside,     \* the signal whose handler runs, or none
    mask, pending,
    sent, handled,  \* history, by signal
    rounds,     \* cnt
    shown,      \* what Printpending showed last
    armed,      \* alarm's timer
    ran,        \* history: the functions run by the handler
    child       \* alive, zombie, reaped

vars == <<kind, ppc, inside, mask, pending, sent, handled, rounds, shown, armed, ran, child>>

Signals == {"INT", "RT40", "ALRM", "CHLD"}
RealTime == {"RT40"}
None == "none"
funcs == <<"sche", "MemManager", "Fflush">>

\* What a program handles, and what it blocks.
Handled == CASE kind \in {"save", "catch"} -> {"INT"}
             [] kind = "alarm" -> {"ALRM"} [] kind = "child" -> {"CHLD"} [] OTHER -> {}
block == CASE kind = "save" -> {"INT"} [] kind = "block" -> {"INT", "RT40"} [] OTHER -> {}

\* What others send.
Sendable == CASE kind \in {"save", "catch"} -> {"INT"}
              [] kind = "block" -> {"INT", "RT40"} [] OTHER -> {}

Zero == [s \in Signals |-> 0]

Init ==
    /\ kind \in {"catch", "save", "alarm", "block", "child"}
    /\ ppc = "setup" /\ inside = None
    /\ mask = {} /\ pending = Zero /\ sent = Zero /\ handled = Zero
    /\ rounds = 0 /\ shown = FALSE
    /\ armed = FALSE /\ ran = <<>>
    /\ child = "none"

Running == ppc # "killed"

-----------------------------------------------------------------------------
(* The kernel. *)

Raise(s) == pending' = [pending EXCEPT ![s] = IF s \in RealTime THEN @ + 1 ELSE 1]

Send(s) ==
    /\ Running /\ s \in Sendable /\ sent[s] < MaxSent
    /\ Raise(s)
    /\ sent' = [sent EXCEPT ![s] = @ + 1]
    /\ UNCHANGED <<kind, ppc, inside, mask, handled, rounds, shown, armed, ran, child>>

\* Without a handler it ends the process.
Deliver(s) ==
    /\ Running /\ pending[s] > 0
    /\ s \notin mask /\ inside = None
    /\ pending' = [pending EXCEPT ![s] = @ - 1]
    /\ IF s \in Handled /\ ppc # "setup"
       THEN inside' = s /\ UNCHANGED ppc
       ELSE ppc' = "killed" /\ UNCHANGED inside
    /\ ran' = IF s = "ALRM" THEN <<>> ELSE ran
    /\ UNCHANGED <<kind, mask, sent, handled, rounds, shown, armed, child>>

Ring ==
    /\ Running /\ armed
    /\ Raise("ALRM")
    /\ sent' = [sent EXCEPT !["ALRM"] = @ + 1]
    /\ armed' = FALSE
    /\ UNCHANGED <<kind, ppc, inside, mask, handled, rounds, shown, ran, child>>

ChildEnds ==
    /\ Running /\ child = "alive"
    /\ child' = "zombie"
    /\ Raise("CHLD")
    /\ sent' = [sent EXCEPT !["CHLD"] = @ + 1]
    /\ UNCHANGED <<kind, ppc, inside, mask, handled, rounds, shown, armed, ran>>

-----------------------------------------------------------------------------
(* main. *)

\* signal(); test_signal has no handler.
Setup ==
    /\ Running /\ ppc = "setup"
    /\ ppc' = IF block = {} THEN "arm" ELSE "mask"
    /\ UNCHANGED <<kind, inside, mask, pending, sent, handled, rounds, shown, armed, ran, child>>

Block ==
    /\ Running /\ ppc = "mask" /\ inside = None
    /\ mask' = block
    /\ ppc' = "loop"
    /\ UNCHANGED <<kind, inside, pending, sent, handled, rounds, shown, armed, ran, child>>

\* alarm(1), or fork.
Arm ==
    /\ Running /\ ppc = "arm" /\ inside = None
    /\ armed' = (kind = "alarm")
    /\ child' = IF kind = "child" THEN "alive" ELSE "none"
    /\ ppc' = "loop"
    /\ UNCHANGED <<kind, inside, mask, pending, sent, handled, rounds, shown, ran>>

\* signalSave's round: the signals that wait are shown, in one round the block ends.
Printpending ==
    /\ Running /\ kind = "save" /\ ppc = "loop" /\ inside = None /\ rounds <= Rounds
    /\ shown' = (pending["INT"] > 0)
    /\ mask' = IF rounds = Rounds THEN {} ELSE mask
    /\ rounds' = rounds + 1
    /\ UNCHANGED <<kind, ppc, inside, pending, sent, handled, armed, ran, child>>

-----------------------------------------------------------------------------
(* The handlers. *)

\* They print; signalSave's shows what waits by now.
handler ==
    /\ inside = "INT"
    /\ handled' = [handled EXCEPT !["INT"] = @ + 1]
    /\ shown' = IF kind = "save" THEN pending["INT"] > 0 ELSE shown
    /\ inside' = None
    /\ UNCHANGED <<kind, ppc, mask, pending, sent, rounds, armed, ran, child>>

CallFunc ==
    /\ inside = "ALRM" /\ Len(ran) < Len(funcs)
    /\ ran' = Append(ran, funcs[Len(ran) + 1])
    /\ UNCHANGED <<kind, ppc, inside, mask, pending, sent, handled, rounds, shown, armed, child>>

\* handlerSig arms the alarm again, and that is what keeps the program going.
Rearm ==
    /\ inside = "ALRM" /\ Len(ran) = Len(funcs) /\ handled["ALRM"] < MaxRings
    /\ handled' = [handled EXCEPT !["ALRM"] = @ + 1]
    /\ armed' = TRUE
    /\ inside' = None
    /\ UNCHANGED <<kind, ppc, mask, pending, sent, rounds, shown, ran, child>>

\* WaitAll: after a child it asks again; while one lives it returns, and when there
\* is none left waitpid fails, again and again.
WaitAll ==
    /\ inside = "CHLD"
    /\ \/ /\ child = "zombie" /\ child' = "reaped"
          /\ handled' = [handled EXCEPT !["CHLD"] = @ + 1]
          /\ UNCHANGED inside
       \/ /\ child = "alive" /\ inside' = None
          /\ UNCHANGED <<child, handled>>
    /\ UNCHANGED <<kind, ppc, mask, pending, sent, rounds, shown, armed, ran>>

Next ==
    \/ \E s \in Signals : Send(s) \/ Deliver(s)
    \/ Ring \/ ChildEnds \/ Setup \/ Block \/ Arm \/ Printpending
    \/ handler \/ CallFunc \/ Rearm \/ WaitAll

-----------------------------------------------------------------------------
(* Properties. *)

TypeOK ==
    /\ ppc \in {"setup", "mask", "arm", "loop", "killed"}
    /\ inside \in Signals \cup {None}
    /\ mask \subseteq Signals
    /\ child \in {"none", "alive", "zombie", "reaped"}

(* No signal is forgotten and none is handled that was not sent; a signal blocked  *)
(* from the start stays until the block ends, those of real time all of them;    *)
(* the alarm is armed, on its way or being handled at every moment, its functions *)
(* run in their order; and WaitAll never returns once the one child is reaped.   *)
SignalsKept ==
    /\ \A s \in Signals :
          /\ handled[s] <= sent[s]
          /\ Running /\ sent[s] > 0 => handled[s] > 0 \/ pending[s] > 0 \/ inside = s
    /\ kind = "save" /\ mask # {} => inside = None
    /\ kind = "block" /\ mask # {} => pending["RT40"] = sent["RT40"]
    /\ kind = "alarm" /\ ppc = "loop" => armed \/ pending["ALRM"] > 0 \/ inside = "ALRM"
    /\ inside = "ALRM" => ran = SubSeq(funcs, 1, Len(ran))
    /\ child = "reaped" => inside = "CHLD"
    /\ ppc = "killed" => kind \in {"catch", "save", "block"}

\* The signals a program gets.
Own == CASE kind \in {"save", "catch"} -> {"INT"} [] kind = "block" -> {"INT", "RT40"}
         [] kind = "alarm" -> {"ALRM"} [] OTHER -> {"CHLD"}

SignalTypes ==
    /\ TypeOK
    /\ kind \in {"catch", "save", "alarm", "block", "child"}
    /\ pending \in [Signals -> Nat] /\ sent \in [Signals -> Nat] /\ handled \in [Signals -> Nat]
    /\ armed \in BOOLEAN
    /\ ran \in Seq({"sche", "MemManager", "Fflush"})

OwnOnly == \A s \in Signals : pending[s] > 0 \/ sent[s] > 0 \/ inside = s => s \in Own

Accounted ==
    \A s \in Signals \ {"CHLD"} :
        handled[s] + pending[s] + (IF inside = s THEN 1 ELSE 0) <= sent[s]

Remembered ==
    \A s \in Signals :
        Running /\ sent[s] > 0 => handled[s] > 0 \/ pending[s] > 0 \/ inside = s

ChildCounted ==
    /\ handled["CHLD"] = IF child = "reaped" THEN 1 ELSE 0
    /\ sent["CHLD"] = IF child \in {"zombie", "reaped"} THEN 1 ELSE 0
    /\ pending["CHLD"] > 0 \/ inside = "CHLD" => child \in {"zombie", "reaped"}
    /\ child = "reaped" => inside = "CHLD"
    /\ child # "none" => kind = "child"

Masked ==
    /\ mask \in {{}, block}
    /\ mask # {} => ppc = "loop" /\ inside = None
    /\ kind = "block" /\ Running => pending["RT40"] = sent["RT40"]

Started ==
    /\ kind \in {"alarm", "child"} /\ ppc # "loop" =>
          /\ ~armed /\ child = "none" /\ inside = None
          /\ \A s \in Signals : pending[s] = 0
    /\ ppc = "mask" => block # {}
    /\ armed => kind = "alarm"
    /\ kind = "alarm" /\ ppc = "loop" => armed \/ pending["ALRM"] > 0 \/ inside = "ALRM"
    /\ ppc = "killed" => kind \in {"catch", "save", "block"}

RanInOrder ==
    inside = "ALRM" => Len(ran) <= Len(funcs) /\ \A i \in DOMAIN ran : ran[i] = funcs[i]

(* What it rests on: a signal that was sent is handled, waits or is in hand, and   *)
(* the child's is in hand for good; what a program blocks is not in hand; and    *)
(* before the alarm or the child is made there is nothing.                      *)
SignalsInv ==
    /\ SignalTypes /\ OwnOnly /\ Accounted /\ Remembered
    /\ ChildCounted /\ Masked /\ Started /\ RanInOrder
=============================================================================
