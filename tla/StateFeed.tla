------------------------------ MODULE StateFeed ------------------------------
(***************************************************************************)
(* What the shared worker promises every tab about the workspace, with the *)
(* ports, the subscriptions and the kinds of push left out: a tab shows    *)
(* states of the one workspace, never an older one after a newer one, is   *)
(* told of its own write only when it shows it, and an open tab does not   *)
(* stay behind for ever.  WorkerState implements it.                       *)
(***************************************************************************)
EXTENDS Naturals

CONSTANT Tabs

VARIABLES
  version,    \* changes made to the workspace
  open,       \* tabs whose page is open
  shown,      \* per tab, the state it shows
  told        \* per tab, the changes it has been told are done

vars == <<version, open, shown, told>>

Init ==
  /\ version = 0 /\ open = Tabs
  /\ shown = [t \in Tabs |-> 0] /\ told = [t \in Tabs |-> {}]

Change ==
  /\ version' = version + 1
  /\ UNCHANGED <<open, shown, told>>

\* A tab moves to the present state, or to one between.
CatchUp(t) ==
  /\ t \in open
  /\ \E v \in shown[t]..version :
       v > shown[t] /\ shown' = [shown EXCEPT ![t] = v]
  /\ UNCHANGED <<version, open, told>>

Tell(t) ==
  /\ t \in open
  /\ \E v \in 0..shown[t] : told' = [told EXCEPT ![t] = @ \union {v}]
  /\ UNCHANGED <<version, open, shown>>

Close(t) ==
  /\ t \in open
  /\ open' = open \ {t}
  /\ UNCHANGED <<version, shown, told>>

Next == Change \/ \E t \in Tabs : CatchUp(t) \/ Tell(t) \/ Close(t)

Spec == Init /\ [][Next]_vars

FairSpec == Spec /\ \A t \in Tabs : WF_vars(CatchUp(t))
=============================================================================
