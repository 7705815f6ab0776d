----------------------------- MODULE MCChatServer -----------------------------
(* The finite instance of ChatServer for TLC: two clients, two workers.        *)
EXTENDS ChatServer
===============================================================================
