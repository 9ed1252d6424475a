------------------------- MODULE MCWorkerRegistry -------------------------
(* WorkerRegistry for TLC: rooms are interchangeable.                      *)
EXTENDS WorkerRegistry, TLC

Symmetry == Permutations(Rooms)
=============================================================================
