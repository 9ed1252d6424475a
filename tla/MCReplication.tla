--------------------------- MODULE MCReplication ---------------------------
(* Two clients are enough for every pairwise conflict; the clients, cells *)
(* and values are interchangeable.                                         *)
EXTENDS Replication, TLC

Symmetry == Permutations(Clients) \cup Permutations(Value) \cup Permutations(CellIds)
=============================================================================
