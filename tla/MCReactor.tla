------------------------------- MODULE MCReactor -------------------------------
(* The finite instance of Reactor for TLC: c1 reads, and its replies outgrow  *)
(* the send buffer; c2 never reads, and its last piece ends the handler.  The  *)
(* process may have inherited one of the two descriptors or both, so that a   *)
(* descriptor is reused, one client waits for the other to close, or accept   *)
(* fails; and epoll_ctl may refuse any connection.                            *)
EXTENDS Reactor

CONSTANTS c1, c2

MCStream == [c \in Clients |-> IF c = c1 THEN <<"part", "good", "good">>
                                         ELSE <<"bad", "good", "fatal">>]
===============================================================================
