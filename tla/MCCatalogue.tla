---------------------------- MODULE MCCatalogue ----------------------------
(***************************************************************************)
(* Two tables and two views of the first, of which one is there from the   *)
(* start, with a condition; the views are boards or grids.                 *)
(***************************************************************************)
EXTENDS Catalogue

MCOf(v) == "t1"

Made(name, col) == [live |-> TRUE, name |-> name, filters |-> {"x"}, group |-> col]
Unmade == [live |-> FALSE, name |-> None, filters |-> {}, group |-> None]

Full ==
  [tables |-> [t \in Tables |-> [live |-> TRUE, name |-> t]],
   views |-> [v \in Views |-> IF v = "v1" THEN Made(v, "c1") ELSE Unmade],
   order |-> <<"t1", "t2">>, gone |-> {}]

\* The tables have not arrived.
Bare == [Full EXCEPT !.tables = [t \in Tables |-> [live |-> FALSE, name |-> t]],
                     !.views = [v \in Views |-> Unmade]]

Env(start, host, boards, unsealed, seeded, o, a) ==
  [start |-> start, host |-> host, boards |-> boards, unsealed |-> unsealed, seeded |-> seeded,
   ops |-> o, arrivals |-> a]

\* Each surrounding with two things asked for, or with one and a change from
\* elsewhere; a tab's own store meets two changes.
MCEnvs ==
  {Env(Full, "tab", Views, FALSE, FALSE, 2, 0), Env(Full, "tab", Views, FALSE, FALSE, 1, 2),
   Env(Full, "worker", Views, TRUE, FALSE, 2, 0), Env(Full, "worker", Views, TRUE, FALSE, 1, 1),
   Env(Full, "tab", {}, TRUE, FALSE, 1, 1), Env(Bare, "worker", {}, FALSE, TRUE, 1, 1)}
=============================================================================
