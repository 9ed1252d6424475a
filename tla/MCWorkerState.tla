--------------------------- MODULE MCWorkerState ---------------------------
(* WorkerState for TLC: tabs and tables are interchangeable.               *)
EXTENDS WorkerState, TLC

Symmetry == Permutations(Tabs) \union Permutations(Tables)
=============================================================================
