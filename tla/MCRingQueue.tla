---------------------------- MODULE MCRingQueue ----------------------------
(* Constant values for model checking RingQueue.                           *)
EXTENDS RingQueue

CONSTANTS a, b, c

Elems == {a, b, c}
=============================================================================
