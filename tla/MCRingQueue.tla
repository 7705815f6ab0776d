----------------------------- MODULE MCRingQueue ------------------------------
(* The finite instance of RingQueue for TLC: two producers, two consumers,  *)
(* two slots and enough items to go around the ring.                        *)
EXTENDS RingQueue
===============================================================================
