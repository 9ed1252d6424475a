------------------------------- MODULE MCBilling -------------------------------
(* Billing on small instances: one account, each mishap in behaviours of its own. *)
EXTENDS Billing

CONSTANT ann

PassingEnvs == {{}, {"truncated"}, {"resubscribe"}, {"outage"}, {"lag"}, {"reorder"}}
MidSweepEnvs == {{"midsweep"}}
=============================================================================
