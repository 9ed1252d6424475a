---------------------------- MODULE MCColdStart ----------------------------
(* ColdStart for TLC: three rooms and hosts.                                *)
EXTENDS ColdStart

\* The backlog encrypted, its keys late, every write refreshing another cell.
Steady ==
  [cells |-> 4, events |-> 5, backlog |-> 5, grace |-> 1, skew |-> 0, limit |-> 5,
   bumping |-> TRUE, sealed |-> "backlog", retrying |-> FALSE, session |-> FALSE]

\* Stream order and timestamps disagree by as much as the margin allows.
Skewed ==
  [cells |-> 3, events |-> 4, backlog |-> 2, grace |-> 3, skew |-> 3, limit |-> 4,
   bumping |-> TRUE, sealed |-> "never", retrying |-> FALSE, session |-> FALSE]

\* A gappy stream, a second sync loop, writes that refresh nothing.
Faulty ==
  [cells |-> 2, events |-> 3, backlog |-> 1, grace |-> 1, skew |-> 1, limit |-> 1,
   bumping |-> FALSE, sealed |-> "backlog", retrying |-> TRUE, session |-> TRUE]

MCEnvs == {Steady, Skewed, Faulty}
=============================================================================
