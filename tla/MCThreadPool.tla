----------------------------- MODULE MCThreadPool -----------------------------
(* The finite instance of ThreadPool for TLC: two workers are enough to     *)
(* tell "all asleep" from "some asleep", two clients to race Enqueue with   *)
(* Stop and with the creation of the pool.                                  *)
EXTENDS ThreadPool
===============================================================================
