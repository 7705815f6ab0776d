---------------------------- MODULE MCEventServers -----------------------------
(* EventServers on a small instance: a client that sends twice, one that     *)
(* sends once and one that only connects.                                   *)
EXTENDS EventServers
CONSTANTS c1, c2, c3
MCSends == [c \in Clients |-> CASE c = c1 -> 2 [] c = c2 -> 1 [] OTHER -> 0]
=============================================================================
