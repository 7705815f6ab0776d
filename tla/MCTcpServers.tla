------------------------------ MODULE MCTcpServers ------------------------------
(***************************************************************************)
(* The accept loops with two connections, and room for one or both of them    *)
(* beside the listening socket.                                               *)
(***************************************************************************)
EXTENDS TcpServers
=============================================================================
