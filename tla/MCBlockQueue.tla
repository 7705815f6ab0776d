----------------------------- MODULE MCBlockQueue -----------------------------
(* Finite instances of BlockQueue for TLC: two threads per side, so that a  *)
(* woken thread can be overtaken by one of its own side.                    *)
EXTENDS BlockQueue
===============================================================================
