---------------------------- MODULE MCSendQueue ----------------------------
(* The worker with a plaintext outbox, a network that may swallow a        *)
(* request and two cells, so that a write, the cell it refreshes and a     *)
(* second write during the flight all fit; the tab with an encrypted       *)
(* outbox and one cell.                                                    *)
EXTENDS SendQueue

MCEnvs ==
  {[host |-> "worker", sealed |-> FALSE, hang |-> TRUE, cells |-> CellIds],
   [host |-> "tab", sealed |-> TRUE, hang |-> FALSE,
    cells |-> {CHOOSE c \in CellIds : TRUE}]}
=============================================================================
