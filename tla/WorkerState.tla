---------------------------- MODULE WorkerState ----------------------------
(***************************************************************************)
(* How tabs see the worker's workspace: requests go to the worker over one *)
(* port per tab, state bundles and answers come back over it in order.     *)
(*                                                                         *)
(*   worker/dispatch.ts        run (subscribe, call), pushState,           *)
(*                             queueStateFor, disconnect                   *)
(*   worker/workerWorkspace.ts createWorkerWorkspace, noteTable            *)
(*   worker/matrixWorker.ts    post, drop, onmessage                       *)
(*   worker/client.ts          send, port.onmessage                        *)
(*                                                                         *)
(* The workspace's contents are a version number; a bundle is the version  *)
(* it was materialised at and the tables whose rows it carries.            *)
(***************************************************************************)
EXTENDS Naturals, Sequences

CONSTANTS
  Tabs,         \* connected tabs
  Tables,       \* tables of the workspace
  MaxVersion    \* bound on changes to the workspace

ASSUME MaxVersionAssumption == MaxVersion \in Nat

VARIABLES
  version,    \* worker: changes applied to the workspace so far
  subs,       \* worker: per tab, tables subscribed; None without a subscription
  queued,     \* worker: a deferred push is scheduled (queuedPushes)
  running,    \* worker: per tab, versions its unfinished writes produced
  toWorker,   \* per tab, requests on their way to the worker
  toTab,      \* per tab, messages on their way to the tab
  alive,      \* tabs whose page is open
  noted,      \* per tab, tables it has read rows of
  resub,      \* per tab, a resubscribe is scheduled (pendingResubscribe)
  bundle,     \* per tab, the bundle it reads from
  acked,      \* per tab, versions its answered writes produced
  begun       \* changes begun so far (bounds the model)

vars == <<version, subs, queued, running, toWorker, toTab, alive, noted, resub,
          bundle, acked, begun>>
worker == <<version, subs, queued, running>>

None == [on |-> FALSE, tables |-> {}]
NoBundle == [version |-> 0, tables |-> {}]

\* A tab's handle starts by subscribing to no table.
Init ==
  /\ version = 0 /\ queued = FALSE
  /\ subs = [t \in Tabs |-> None] /\ running = [t \in Tabs |-> {}]
  /\ toWorker = [t \in Tabs |-> <<[kind |-> "subscribe", tables |-> {}]>>]
  /\ toTab = [t \in Tabs |-> << >>]
  /\ alive = Tabs
  /\ noted = [t \in Tabs |-> {}] /\ resub = [t \in Tabs |-> FALSE]
  /\ bundle = [t \in Tabs |-> NoBundle]
  /\ acked = [t \in Tabs |-> {}] /\ begun = 0

-----------------------------------------------------------------------------
(* The tab.                                                                *)

\* getTableRows: a table not read before is noted, and a subscribe scheduled.
ReadTable(t, x) ==
  /\ t \in alive /\ x \notin noted[t]
  /\ noted' = [noted EXCEPT ![t] = @ \union {x}]
  /\ resub' = [resub EXCEPT ![t] = TRUE]
  /\ UNCHANGED <<worker, toWorker, toTab, alive, bundle, acked, begun>>

Resubscribe(t) ==
  /\ t \in alive /\ resub[t]
  /\ resub' = [resub EXCEPT ![t] = FALSE]
  /\ toWorker' = [toWorker EXCEPT ![t] = Append(@, [kind |-> "subscribe", tables |-> noted[t]])]
  /\ UNCHANGED <<worker, toTab, alive, noted, bundle, acked, begun>>

Write(t) ==
  /\ t \in alive /\ begun < MaxVersion
  /\ begun' = begun + 1
  /\ toWorker' = [toWorker EXCEPT ![t] = Append(@, [kind |-> "write", tables |-> {}])]
  /\ UNCHANGED <<worker, toTab, alive, noted, resub, bundle, acked>>

Receive(t) ==
  LET msg == Head(toTab[t]) IN
  /\ t \in alive /\ toTab[t] # << >>
  /\ toTab' = [toTab EXCEPT ![t] = Tail(@)]
  /\ \/ /\ msg.kind = "state"
        /\ bundle' = [bundle EXCEPT ![t] = [version |-> msg.version, tables |-> msg.tables]]
        /\ UNCHANGED acked
     \/ /\ msg.kind = "answer"
        /\ acked' = [acked EXCEPT ![t] = @ \union {msg.version}]
        /\ UNCHANGED bundle
  /\ UNCHANGED <<worker, toWorker, alive, noted, resub, begun>>

\* pagehide: a goodbye is posted, unless the page went down too fast.
Leave(t) ==
  /\ t \in alive
  /\ alive' = alive \ {t}
  /\ \/ toWorker' = [toWorker EXCEPT ![t] = Append(@, [kind |-> "bye", tables |-> {}])]
     \/ UNCHANGED toWorker
  /\ toTab' = [toTab EXCEPT ![t] = << >>]
  /\ UNCHANGED <<worker, noted, resub, bundle, acked, begun>>

-----------------------------------------------------------------------------
(* The worker.                                                             *)

\* pushState: every subscribed tab is sent the state as it is now, with the
\* rows it asked for. Posting to a page that is gone goes nowhere.
Pushed(ports, v) ==
  [t \in Tabs |->
     IF subs[t].on /\ t \in alive
     THEN Append(ports[t], [kind |-> "state", version |-> v, tables |-> subs[t].tables])
     ELSE ports[t]]

Answered(ports, t, v) ==
  IF t \in alive
  THEN [ports EXCEPT ![t] = Append(@, [kind |-> "answer", version |-> v, tables |-> {}])]
  ELSE ports

HandleSubscribeQuietly(t) ==
  LET msg == Head(toWorker[t]) IN
  /\ toWorker[t] # << >> /\ msg.kind = "subscribe"
  /\ toWorker' = [toWorker EXCEPT ![t] = Tail(@)]
  /\ subs' = [subs EXCEPT ![t] = [on |-> TRUE, tables |-> msg.tables]]
  /\ UNCHANGED <<version, queued, running, toTab, alive, noted, resub, bundle, acked, begun>>

\* workspace.subscribe: the table set is replaced, and a push follows the answer.
HandleSubscribe(t) ==
  LET msg == Head(toWorker[t]) IN
  /\ toWorker[t] # << >> /\ msg.kind = "subscribe"
  /\ toWorker' = [toWorker EXCEPT ![t] = Tail(@)]
  /\ subs' = [subs EXCEPT ![t] = [on |-> TRUE, tables |-> msg.tables]]
  /\ queued' = TRUE
  /\ UNCHANGED <<version, running, toTab, alive, noted, resub, bundle, acked, begun>>

\* A write method changes the workspace at once and may go on to await.
HandleWrite(t) ==
  /\ toWorker[t] # << >> /\ Head(toWorker[t]).kind = "write"
  /\ toWorker' = [toWorker EXCEPT ![t] = Tail(@)]
  /\ version' = version + 1
  /\ running' = [running EXCEPT ![t] = @ \union {version + 1}]
  /\ UNCHANGED <<subs, queued, toTab, alive, noted, resub, bundle, acked, begun>>

WriteDoneDeferred(t, v) ==
  /\ v \in running[t]
  /\ running' = [running EXCEPT ![t] = @ \ {v}]
  /\ toTab' = Answered(toTab, t, v)
  /\ queued' = TRUE
  /\ UNCHANGED <<version, subs, toWorker, alive, noted, resub, bundle, acked, begun>>

WriteDoneSilently(t, v) ==
  /\ v \in running[t]
  /\ running' = [running EXCEPT ![t] = @ \ {v}]
  /\ toTab' = Answered(toTab, t, v)
  /\ UNCHANGED <<version, subs, queued, toWorker, alive, noted, resub, bundle, acked, begun>>

\* The write resolves: state is pushed first, then the answer is posted.
WriteDone(t, v) ==
  /\ v \in running[t]
  /\ running' = [running EXCEPT ![t] = @ \ {v}]
  /\ toTab' = Answered(Pushed(toTab, version), t, v)
  /\ UNCHANGED <<version, subs, queued, toWorker, alive, noted, resub, bundle, acked, begun>>

HandleBye(t) ==
  /\ toWorker[t] # << >> /\ Head(toWorker[t]).kind = "bye"
  /\ toWorker' = [toWorker EXCEPT ![t] = Tail(@)]
  /\ subs' = [subs EXCEPT ![t] = None]
  /\ UNCHANGED <<version, queued, running, toTab, alive, noted, resub, bundle, acked, begun>>

DeferredPush ==
  /\ queued
  /\ queued' = FALSE
  /\ toTab' = Pushed(toTab, version)
  /\ UNCHANGED <<version, subs, running, toWorker, alive, noted, resub, bundle, acked, begun>>

\* startSync's callback: a remote change, pushed at once.
SyncChange ==
  /\ begun < MaxVersion
  /\ begun' = begun + 1
  /\ version' = version + 1
  /\ toTab' = Pushed(toTab, version + 1)
  /\ UNCHANGED <<subs, queued, running, toWorker, alive, noted, resub, bundle, acked>>

Handle(t) ==
  \/ HandleSubscribe(t) \/ HandleWrite(t) \/ HandleBye(t)
  \/ \E v \in running[t] : WriteDone(t, v)

Next ==
  \/ SyncChange \/ DeferredPush
  \/ \E t \in Tabs :
       \/ Handle(t)
       \/ Receive(t) \/ Write(t) \/ Resubscribe(t) \/ Leave(t)
       \/ \E x \in Tables : ReadTable(t, x)

Spec == Init /\ [][Next]_vars

\* Messages are delivered, timers fire, and a write's own wait is bounded.
Fairness ==
  /\ WF_vars(DeferredPush)
  /\ \A t \in Tabs :
       WF_vars(Handle(t)) /\ WF_vars(Receive(t)) /\ WF_vars(Resubscribe(t))

FairSpec == Spec /\ Fairness

-----------------------------------------------------------------------------
(* Properties.                                                             *)

Message == [kind : {"state", "answer"}, version : 0..MaxVersion, tables : SUBSET Tables]

\* Every message is well formed, no tab is ahead of the worker, and a tab holds
\* rows only of tables it has read (dispatch.ts, pushState).
TypeOK ==
  /\ version \in 0..begun /\ begun \in 0..MaxVersion
  /\ \A t \in Tabs :
       /\ toTab[t] \in Seq(Message)
       /\ bundle[t].version <= version
       /\ subs[t].tables \subseteq noted[t] /\ bundle[t].tables \subseteq noted[t]

\* A tab reads its own writes: by the time a write's promise resolves, the
\* bundle the tab reads from includes it (dispatch.ts pushes before it answers;
\* Sidebar.handleCreateTable reads the new table right after awaiting it).
ReadYourWrites ==
  \A t \in Tabs : \A v \in acked[t] : bundle[t].version >= v

\* What a tab shows never goes back in time, whichever of the three kinds of
\* push its bundles come from (dispatch.ts, pushState).
NeverBackwards ==
  [][\A t \in Tabs : bundle'[t].version >= bundle[t].version]_vars

\* Rows of a table that a tab reads arrive without the tab asking twice
\* (workerWorkspace.ts, noteTable).
RowsArrive ==
  \A t \in Tabs, x \in Tables :
    (x \in noted[t]) ~> (x \in bundle[t].tables \/ t \notin alive)

Feed == INSTANCE StateFeed WITH
  open  <- alive,
  shown <- [t \in Tabs |-> bundle[t].version],
  told  <- acked

\* All of it is one feed of states per tab: ports, demand-driven reads and the
\* three kinds of push together never show, repeat or announce anything that
\* StateFeed would not, and every change reaches every open tab, whoever made it
\* (dispatch.ts, client.ts, useTable.ts).
ImplementsFeed == Feed!FairSpec
=============================================================================
