----------------------------- MODULE MCProcessPool -----------------------------
(* The finite instance of ProcessPool for TLC: three children, so that one    *)
(* inherits two write ends, and more rounds than children.                    *)
EXTENDS ProcessPool
===============================================================================
