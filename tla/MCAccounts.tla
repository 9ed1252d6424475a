------------------------------ MODULE MCAccounts ------------------------------
(* Accounts on small instances: one tab, two accounts. *)
EXTENDS Accounts

CONSTANTS alice, bob

Surroundings(o, f) == [oauth |-> o, faults |-> f]

PassingEnvs == {Surroundings({}, {}), Surroundings(Users, {}),
                Surroundings({}, {"first_sync"}), Surroundings({}, {"unsettled"}),
                Surroundings({bob}, {"overlap"})}
InterruptedEnvs == {Surroundings({}, {"interrupted"})}
=============================================================================
