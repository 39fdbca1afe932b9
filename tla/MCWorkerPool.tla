---------------------------- MODULE MCWorkerPool ----------------------------
(* Instances of WorkerPool for TLC: the cfg files name the model values. *)
EXTENDS WorkerPool

CONSTANTS g1, g2, g3, g4

\* Out of range on both sides of 0..Ceiling, and in it.
Sizes == {0 - 1, 1, 2, 3}
=============================================================================
