--------------------------------- MODULE ChatClient ---------------------------------
(***************************************************************************)
(* The client of the chat (test_04_03/3.Chatserver/UdpClient.cc): main makes  *)
(* a thread that receives and one that sends, stores the receiver's id and    *)
(* joins both; the sender cancels that id when the user types QUIT.           *)
(***************************************************************************)
EXTENDS Naturals

CONSTANTS
    MaxInputs,      \* lines the user types (a bound of the model)
    MaxDatagrams    \* datagrams that come (a bound of the model)

VARIABLES
    mpc,        \* main's next call
    rpc,        \* the receiver: none, recv, print, over, gone
    sendpc,     \* the sender: none, inline, input, cancel, over, gone
    id,         \* TRUE once it holds the receiver's id; zero before
    cancelled,  \* pthread_cancel has been called for the receiver
    inputs, arrived, shown,     \* history: lines typed, datagrams come and printed
    failed,     \* history: a pthread_create has failed
    early,      \* history: QUIT was typed before id was stored
    crashed

vars == <<mpc, rpc, sendpc, id, cancelled, inputs, arrived, shown, failed, early, crashed>>

Init ==
    /\ mpc = "recver"
    /\ rpc = "none" /\ sendpc = "none"
    /\ id = FALSE /\ cancelled = FALSE
    /\ inputs = 0 /\ arrived = 0 /\ shown = 0
    /\ failed = FALSE /\ early = FALSE /\ crashed = FALSE

-----------------------------------------------------------------------------
(* main. *)

\* Thread::Start complains of a failure and main goes on.
StartRecver(works) ==
    /\ ~crashed /\ mpc = "recver"
    /\ rpc' = IF works THEN "recv" ELSE "none"
    /\ failed' = ~works
    /\ mpc' = "sender"
    /\ UNCHANGED <<sendpc, id, cancelled, inputs, arrived, shown, early, crashed>>

StartSender(works) ==
    /\ ~crashed /\ mpc = "sender"
    /\ sendpc' = IF works THEN "inline" ELSE "none"
    /\ failed' = (failed \/ ~works)
    /\ mpc' = "id"
    /\ UNCHANGED <<rpc, id, cancelled, inputs, arrived, shown, early, crashed>>

StoreId ==
    /\ ~crashed /\ mpc = "id"
    /\ id' = (rpc # "none")
    /\ mpc' = "joinrecver"
    /\ UNCHANGED <<rpc, sendpc, cancelled, inputs, arrived, shown, failed, early, crashed>>

\* Joining a thread that was never made is undefined: it ends here.
JoinRecver ==
    /\ ~crashed /\ mpc = "joinrecver" /\ rpc \in {"over", "none"}
    /\ crashed' = (rpc = "none")
    /\ rpc' = "gone"
    /\ mpc' = "joinsender"
    /\ UNCHANGED <<sendpc, id, cancelled, inputs, arrived, shown, failed, early>>

JoinSender ==
    /\ ~crashed /\ mpc = "joinsender" /\ sendpc \in {"over", "none"}
    /\ crashed' = (sendpc = "none")
    /\ sendpc' = "gone"
    /\ mpc' = "done"
    /\ UNCHANGED <<rpc, id, cancelled, inputs, arrived, shown, failed, early>>

-----------------------------------------------------------------------------
(* The threads. *)

Arrive ==
    /\ ~crashed /\ arrived < MaxDatagrams
    /\ arrived' = arrived + 1
    /\ UNCHANGED <<mpc, rpc, sendpc, id, cancelled, inputs, shown, failed, early, crashed>>

Recv ==
    /\ ~crashed /\ rpc = "recv" /\ shown < arrived
    /\ rpc' = "print"
    /\ UNCHANGED <<mpc, sendpc, id, cancelled, inputs, arrived, shown, failed, early, crashed>>

ShowText ==
    /\ ~crashed /\ rpc = "print"
    /\ shown' = shown + 1
    /\ rpc' = "recv"
    /\ UNCHANGED <<mpc, sendpc, id, cancelled, inputs, arrived, failed, early, crashed>>

\* recvfrom is where a cancelled thread ends.
EndRecv ==
    /\ ~crashed /\ rpc = "recv" /\ cancelled
    /\ rpc' = "over"
    /\ UNCHANGED <<mpc, sendpc, id, cancelled, inputs, arrived, shown, failed, early, crashed>>

Inline ==
    /\ ~crashed /\ sendpc = "inline"
    /\ sendpc' = "input"
    /\ UNCHANGED <<mpc, rpc, id, cancelled, inputs, arrived, shown, failed, early, crashed>>

\* Any line is sent, QUIT too; at the end of the input nothing is typed any more.
Input(quits) ==
    /\ ~crashed /\ sendpc = "input" /\ inputs < MaxInputs
    /\ inputs' = inputs + 1
    /\ sendpc' = IF quits THEN "cancel" ELSE "input"
    /\ UNCHANGED <<mpc, rpc, id, cancelled, arrived, shown, failed, early, crashed>>

\* The sender leaves without the cancel.
CancelMutant == UNCHANGED <<cancelled, crashed>>

\* pthread_cancel of zero reads what is not there.
Cancel == cancelled' = id /\ crashed' = ~id

EndSend ==
    /\ ~crashed /\ sendpc = "cancel"
    /\ Cancel
    /\ early' = ~id
    /\ sendpc' = "over"
    /\ UNCHANGED <<mpc, rpc, id, inputs, arrived, shown, failed>>

RecvStep == Recv \/ ShowText \/ EndRecv
SendStep == Inline \/ EndSend
MainStep == StoreId \/ JoinRecver \/ JoinSender
            \/ \E works \in BOOLEAN : StartRecver(works) \/ StartSender(works)

Next == RecvStep \/ SendStep \/ MainStep \/ Arrive \/ \E quits \in BOOLEAN : Input(quits)

-----------------------------------------------------------------------------
(* Properties. *)

TypeOK ==
    /\ mpc \in {"recver", "sender", "id", "joinrecver", "joinsender", "done"}
    /\ rpc \in {"none", "recv", "print", "over", "gone"}
    /\ sendpc \in {"none", "inline", "input", "cancel", "over", "gone"}
    /\ shown \in 0..arrived

(* The client stops working only for a thread that could not be made or a QUIT   *)
(* that came before main had stored the id; main returns when both threads are  *)
(* over, and nothing that was printed is printed again.                         *)
CrashKnown ==
    /\ crashed => failed \/ early
    /\ mpc = "done" /\ ~crashed => rpc = "gone" /\ sendpc = "gone" /\ cancelled

\* A QUIT that finds the id, and the end of the client.
QuitTyped == sendpc = "cancel" /\ id /\ ~failed
ClientOver == mpc = "done" \/ crashed

(* What it rests on: who was not made is why a call had failed, the receiver    *)
(* leaves only when it is cancelled, and only the sender cancels, as the last    *)
(* thing it does.                                                               *)
ClientTypes ==
    /\ TypeOK /\ arrived \in Nat
    /\ id \in BOOLEAN /\ cancelled \in BOOLEAN /\ failed \in BOOLEAN
    /\ early \in BOOLEAN /\ crashed \in BOOLEAN

Made ==
    /\ mpc = "recver" => rpc = "none" /\ ~crashed
    /\ mpc \in {"recver", "sender"} => sendpc = "none"
    /\ rpc = "none" /\ mpc # "recver" => failed
    /\ sendpc = "none" /\ mpc \notin {"recver", "sender"} => failed

Left ==
    /\ rpc = "gone" <=> mpc \in {"joinsender", "done"}
    /\ sendpc = "gone" <=> mpc = "done"
    /\ rpc \in {"over", "gone"} => cancelled \/ crashed
    /\ cancelled => sendpc \in {"over", "gone"}
    /\ early => crashed
    /\ rpc = "print" => shown < arrived

ClientInv == ClientTypes /\ Made /\ Left /\ CrashKnown
=============================================================================
