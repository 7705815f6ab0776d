----------------------------- MODULE BoundedFifo ------------------------------
(* What the blocking queue and the ring queue promise their callers: items  *)
(* are received in the order they were sent, each one once, none that was   *)
(* not sent, and at most Cap of them are under way.                         *)
EXTENDS Naturals, Sequences

CONSTANTS Items, Cap

VARIABLES
    channel,    \* the items under way, oldest first
    received    \* everything taken out so far, oldest first

Init == channel = <<>> /\ received = <<>>

Put(x) ==
    /\ Len(channel) < Cap
    /\ channel' = Append(channel, x)
    /\ UNCHANGED received

Get ==
    /\ channel # <<>>
    /\ received' = Append(received, Head(channel))
    /\ channel' = Tail(channel)

Next == (\E x \in Items : Put(x)) \/ Get

Spec == Init /\ [][Next]_<<channel, received>>
===============================================================================
