---------------------------- MODULE Worker_proofs ----------------------------
(***************************************************************************)
(* The shared worker.  The first part is about its state pushes: a tab     *)
(* reads its own writes and never goes back, for any number of tabs,       *)
(* tables and changes.  The second, at the end, is about its registry, for *)
(* every set of accounts and rooms and any number of sessions and          *)
(* workspaces built.                                                       *)
(*                                                                         *)
(* The pushes: the state messages on a port are in order and no older than *)
(* what the tab shows, and every answer comes after a state that includes  *)
(* its write.  That a state precedes the answer needs the tab to be        *)
(* subscribed when its write is handled, which the order of requests on    *)
(* its port gives: the first one is the subscription.                      *)
(***************************************************************************)
EXTENDS WorkerState, WorkerRegistry, FiniteSetTheorems, SequenceTheorems, TLAPS

ToTabMsg == [kind : {"state", "answer"}, version : Nat, tables : SUBSET Tables]
ToWorkerMsg == [kind : {"subscribe", "write", "bye"}, tables : SUBSET Tables]

Types ==
  /\ version \in Nat
  /\ subs \in [Tabs -> [on : BOOLEAN, tables : SUBSET Tables]]
  /\ running \in [Tabs -> SUBSET Nat]
  /\ toWorker \in [Tabs -> Seq(ToWorkerMsg)]
  /\ toTab \in [Tabs -> Seq(ToTabMsg)]
  /\ noted \in [Tabs -> SUBSET Tables]
  /\ resub \in [Tabs -> BOOLEAN]
  /\ bundle \in [Tabs -> [version : Nat, tables : SUBSET Tables]]
  /\ acked \in [Tabs -> SUBSET Nat]

(* A port q towards a tab that shows version b, the workspace being at n.  *)
InOrder(q, b, n) ==
  /\ b <= n
  /\ \A i \in 1..Len(q) : q[i].version <= n
  /\ \A i \in 1..Len(q) : q[i].kind = "state" => b <= q[i].version
  /\ \A i, j \in 1..Len(q) :
       i < j /\ q[i].kind = "state" /\ q[j].kind = "state" => q[i].version <= q[j].version
  /\ \A j \in 1..Len(q) : q[j].kind = "answer" =>
       \/ q[j].version <= b
       \/ \E i \in 1..Len(q) : i < j /\ q[i].kind = "state" /\ q[j].version <= q[i].version

(* An open tab's write is handled only after its subscription.             *)
Subscribed(t) ==
  t \in alive =>
    /\ \A i \in 1..Len(toWorker[t]) : toWorker[t][i].kind # "bye"
    /\ \/ subs[t].on
       \/ /\ running[t] = {} /\ toWorker[t] # << >>
          /\ toWorker[t][1].kind = "subscribe"

PortInv ==
  \A t \in Tabs :
    /\ Subscribed(t)
    /\ \A v \in running[t] : v <= version
    /\ InOrder(toTab[t], bundle[t].version, version)
    /\ \A v \in acked[t] : v <= bundle[t].version

-----------------------------------------------------------------------------
(* What happens to one port.                                               *)

\* Taking the first message off a port.
LEMMA TailFacts ==
  ASSUME NEW S, NEW q \in Seq(S), q # << >>
  PROVE  /\ Tail(q) \in Seq(S) /\ Len(q) \in Nat \ {0} /\ Len(Tail(q)) = Len(q) - 1
         /\ \A i \in 1..Len(Tail(q)) : Tail(q)[i] = q[i + 1] /\ i + 1 \in 1..Len(q)
         /\ Head(q) = q[1] /\ 1 \in 1..Len(q) /\ q[1] \in S
BY HeadTailProperties

\* Every message on a port carries a version.
LEMMA MsgTypes ==
  ASSUME NEW q \in Seq(ToTabMsg), NEW i \in 1..Len(q)
  PROVE  q[i] \in ToTabMsg /\ q[i].version \in Nat /\ q[i].kind \in {"state", "answer"}
<1>1. q[i] \in ToTabMsg
  OBVIOUS
<1>2. QED BY <1>1 DEF ToTabMsg

\* The workspace moves on while the port is left alone.
LEMMA OrderStays ==
  ASSUME NEW q \in Seq(ToTabMsg), NEW b \in Nat, NEW n \in Nat, NEW m \in Nat,
         InOrder(q, b, n), n <= m
  PROVE  InOrder(q, b, m)
<1>1. \A i \in 1..Len(q) : q[i].version \in Nat
  BY MsgTypes
<1>2. QED BY <1>1 DEF InOrder

\* A push puts the present state at the end (pushState).
LEMMA OrderPush ==
  ASSUME NEW q \in Seq(ToTabMsg), NEW b \in Nat, NEW n \in Nat, NEW m \in Nat,
         NEW T \in SUBSET Tables, InOrder(q, b, n), n <= m
  PROVE  /\ Append(q, [kind |-> "state", version |-> m, tables |-> T]) \in Seq(ToTabMsg)
         /\ InOrder(Append(q, [kind |-> "state", version |-> m, tables |-> T]), b, m)
<1> DEFINE e == [kind |-> "state", version |-> m, tables |-> T]
           p == Append(q, e)
<1>1. e \in ToTabMsg /\ e.kind = "state" /\ e.version = m
  BY DEF ToTabMsg
<1> HIDE DEF e
<1>2. /\ p \in Seq(ToTabMsg) /\ Len(p) = Len(q) + 1 /\ Len(q) \in Nat
      /\ \A i \in 1..Len(q) : p[i] = q[i]
      /\ p[Len(q) + 1] = e
  BY <1>1
<1>3. \A i \in 1..Len(q) : q[i].version \in Nat
  BY MsgTypes
<1> HIDE DEF p
<1>4. InOrder(p, b, m)
  <2>1. b <= m /\ \A i \in 1..Len(p) : p[i].version <= m
    BY <1>1, <1>2, <1>3 DEF InOrder
  <2>2. \A i \in 1..Len(p) : p[i].kind = "state" => b <= p[i].version
    BY <1>1, <1>2, <1>3 DEF InOrder
  <2>3. ASSUME NEW i \in 1..Len(p), NEW j \in 1..Len(p), i < j,
               p[i].kind = "state", p[j].kind = "state"
        PROVE  p[i].version <= p[j].version
    <3>1. i \in 1..Len(q) /\ p[i] = q[i]
      BY <1>2, <2>3
    <3>2. CASE j = Len(q) + 1
      BY <1>1, <1>2, <1>3, <3>1, <3>2 DEF InOrder
    <3>3. CASE j \in 1..Len(q)
      BY <1>2, <2>3, <3>1, <3>3 DEF InOrder
    <3>4. QED BY <1>2, <3>2, <3>3
  <2>4. ASSUME NEW j \in 1..Len(p), p[j].kind = "answer"
        PROVE  \/ p[j].version <= b
               \/ \E i \in 1..Len(p) :
                    i < j /\ p[i].kind = "state" /\ p[j].version <= p[i].version
    <3>1. j \in 1..Len(q) /\ p[j] = q[j]
      BY <1>1, <1>2, <2>4
    <3>2. CASE q[j].version <= b
      BY <3>1, <3>2
    <3>3. CASE \E i \in 1..Len(q) : i < j /\ q[i].kind = "state" /\ q[j].version <= q[i].version
      BY <1>2, <3>1, <3>3
    <3>4. QED BY <2>4, <3>1, <3>2, <3>3 DEF InOrder
  <2>5. QED BY <2>1, <2>2, <2>3, <2>4 DEF InOrder
<1>5. QED BY <1>2, <1>4 DEF p, e

\* An answer that follows the present state is in order (run, case "call").
LEMMA OrderAnswer ==
  ASSUME NEW q \in Seq(ToTabMsg), NEW b \in Nat, NEW n \in Nat, NEW v \in Nat,
         InOrder(q, b, n), v <= n, Len(q) > 0,
         q[Len(q)].kind = "state", q[Len(q)].version = n
  PROVE  /\ Append(q, [kind |-> "answer", version |-> v, tables |-> {}]) \in Seq(ToTabMsg)
         /\ InOrder(Append(q, [kind |-> "answer", version |-> v, tables |-> {}]), b, n)
<1> DEFINE e == [kind |-> "answer", version |-> v, tables |-> {}]
           p == Append(q, e)
<1>1. e \in ToTabMsg /\ e.kind = "answer" /\ e.version = v
  BY DEF ToTabMsg
<1> HIDE DEF e
<1>2. /\ p \in Seq(ToTabMsg) /\ Len(p) = Len(q) + 1 /\ Len(q) \in Nat
      /\ \A i \in 1..Len(q) : p[i] = q[i]
      /\ p[Len(q) + 1] = e
  BY <1>1
<1> HIDE DEF p
<1>3. InOrder(p, b, n)
  <2>1. b <= n /\ \A i \in 1..Len(p) : p[i].version <= n
    BY <1>1, <1>2 DEF InOrder
  <2>2. \A i \in 1..Len(p) : p[i].kind = "state" => b <= p[i].version
    BY <1>1, <1>2 DEF InOrder
  <2>3. \A i, j \in 1..Len(p) :
          i < j /\ p[i].kind = "state" /\ p[j].kind = "state" => p[i].version <= p[j].version
    BY <1>1, <1>2 DEF InOrder
  <2>4. ASSUME NEW j \in 1..Len(p), p[j].kind = "answer"
        PROVE  \/ p[j].version <= b
               \/ \E i \in 1..Len(p) :
                    i < j /\ p[i].kind = "state" /\ p[j].version <= p[i].version
    <3>1. CASE j = Len(q) + 1
      BY <1>1, <1>2, <3>1
    <3>2. CASE j \in 1..Len(q)
      BY <1>2, <2>4, <3>2 DEF InOrder
    <3>3. QED BY <1>2, <3>1, <3>2
  <2>5. QED BY <2>1, <2>2, <2>3, <2>4 DEF InOrder
<1>4. QED BY <1>2, <1>3 DEF p, e

\* The tab takes the first message (client.ts, port.onmessage).
LEMMA OrderReceive ==
  ASSUME NEW q \in Seq(ToTabMsg), NEW b \in Nat, NEW n \in Nat,
         InOrder(q, b, n), q # << >>
  PROVE  /\ Head(q) \in ToTabMsg /\ Tail(q) \in Seq(ToTabMsg)
         /\ Head(q).kind = "state" =>
              b <= Head(q).version /\ InOrder(Tail(q), Head(q).version, n)
         /\ Head(q).kind = "answer" =>
              Head(q).version <= b /\ InOrder(Tail(q), b, n)
<1> DEFINE p == Tail(q)
<1>1. /\ p \in Seq(ToTabMsg) /\ Len(q) \in Nat \ {0} /\ Len(p) = Len(q) - 1
      /\ \A i \in 1..Len(p) : p[i] = q[i + 1] /\ i + 1 \in 1..Len(q)
      /\ Head(q) = q[1] /\ q[1] \in ToTabMsg
  BY TailFacts
<1> HIDE DEF p
<1>2. \A i \in 1..Len(q) : q[i].version \in Nat
  BY MsgTypes
<1>3. ASSUME NEW i \in 1..Len(p), NEW j \in 1..Len(p), i < j,
             p[i].kind = "state", p[j].kind = "state"
      PROVE  p[i].version <= p[j].version
  <2>1. /\ p[i] = q[i + 1] /\ i + 1 \in 1..Len(q)
        /\ p[j] = q[j + 1] /\ j + 1 \in 1..Len(q)
        /\ i + 1 < j + 1
    BY <1>1, <1>3
  <2>2. QED BY <1>3, <2>1 DEF InOrder
<1>4. CASE q[1].kind = "state"
  <2>1. b <= q[1].version /\ q[1].version <= n
    BY <1>1, <1>4 DEF InOrder
  <2>2. \A i \in 1..Len(p) : p[i].version <= n
    BY <1>1 DEF InOrder
  <2>3. \A i \in 1..Len(p) : p[i].kind = "state" => q[1].version <= p[i].version
    BY <1>1, <1>4 DEF InOrder
  <2>4. ASSUME NEW j \in 1..Len(p), p[j].kind = "answer"
        PROVE  \/ p[j].version <= q[1].version
               \/ \E i \in 1..Len(p) :
                    i < j /\ p[i].kind = "state" /\ p[j].version <= p[i].version
    <3>1. CASE q[j + 1].version <= b
      BY <1>1, <1>2, <2>1, <3>1
    <3>2. CASE \E i \in 1..Len(q) :
                 i < j + 1 /\ q[i].kind = "state" /\ q[j + 1].version <= q[i].version
      <4>1. PICK i \in 1..Len(q) :
                 i < j + 1 /\ q[i].kind = "state" /\ q[j + 1].version <= q[i].version
        BY <3>2
      <4>2. CASE i = 1
        BY <1>1, <4>1, <4>2
      <4>3. CASE i # 1
        <5>1. i - 1 \in 1..Len(p) /\ p[i - 1] = q[i] /\ i - 1 < j
          BY <1>1, <4>1, <4>3
        <5>2. QED BY <1>1, <4>1, <5>1
      <4>4. QED BY <4>2, <4>3
    <3>3. QED BY <1>1, <2>4, <3>1, <3>2 DEF InOrder
  <2>5. InOrder(p, q[1].version, n)
    BY <1>3, <2>1, <2>2, <2>3, <2>4 DEF InOrder
  <2>6. QED BY <1>1, <1>4, <2>1, <2>5 DEF p
<1>5. CASE q[1].kind = "answer"
  <2>1. q[1].version <= b /\ b <= n
    BY <1>1, <1>5 DEF InOrder
  <2>2. \A i \in 1..Len(p) : p[i].version <= n
    BY <1>1 DEF InOrder
  <2>3. \A i \in 1..Len(p) : p[i].kind = "state" => b <= p[i].version
    BY <1>1 DEF InOrder
  <2>4. ASSUME NEW j \in 1..Len(p), p[j].kind = "answer"
        PROVE  \/ p[j].version <= b
               \/ \E i \in 1..Len(p) :
                    i < j /\ p[i].kind = "state" /\ p[j].version <= p[i].version
    <3>1. CASE q[j + 1].version <= b
      BY <1>1, <3>1
    <3>2. CASE \E i \in 1..Len(q) :
                 i < j + 1 /\ q[i].kind = "state" /\ q[j + 1].version <= q[i].version
      <4>1. PICK i \in 1..Len(q) :
                 i < j + 1 /\ q[i].kind = "state" /\ q[j + 1].version <= q[i].version
        BY <3>2
      <4>2. i - 1 \in 1..Len(p) /\ p[i - 1] = q[i] /\ i - 1 < j
        BY <1>1, <1>5, <4>1
      <4>3. QED BY <1>1, <4>1, <4>2
    <3>3. QED BY <1>1, <2>4, <3>1, <3>2 DEF InOrder
  <2>5. InOrder(p, b, n)
    BY <1>3, <2>1, <2>2, <2>3, <2>4 DEF InOrder
  <2>6. QED BY <1>1, <1>5, <2>1, <2>5 DEF p
<1>6. QED BY <1>1, <1>4, <1>5 DEF ToTabMsg, p

-----------------------------------------------------------------------------
(* What a push and an answer do to all ports.                              *)

\* pushState keeps every port well typed and in order, and leaves the present
\* state last on the port of a subscribed open tab.
LEMMA PushedPorts ==
  ASSUME Types, PortInv, NEW m \in Nat, version <= m
  PROVE  /\ Pushed(toTab, m) \in [Tabs -> Seq(ToTabMsg)]
         /\ \A t \in Tabs :
              /\ InOrder(Pushed(toTab, m)[t], bundle[t].version, m)
              /\ t \in alive /\ subs[t].on =>
                   LET q == Pushed(toTab, m)[t]
                   IN  Len(q) > 0 /\ q[Len(q)].kind = "state" /\ q[Len(q)].version = m
<1> DEFINE P == Pushed(toTab, m)
<1>1. ASSUME NEW t \in Tabs
      PROVE  /\ P[t] \in Seq(ToTabMsg) /\ InOrder(P[t], bundle[t].version, m)
             /\ t \in alive /\ subs[t].on =>
                  Len(P[t]) > 0 /\ P[t][Len(P[t])].kind = "state" /\ P[t][Len(P[t])].version = m
  <2>1. /\ toTab[t] \in Seq(ToTabMsg) /\ bundle[t].version \in Nat /\ version \in Nat
        /\ subs[t].tables \in SUBSET Tables
        /\ InOrder(toTab[t], bundle[t].version, version)
    BY DEF Types, PortInv
  <2>2. CASE subs[t].on /\ t \in alive
    <3> DEFINE e == [kind |-> "state", version |-> m, tables |-> subs[t].tables]
    <3>1. P[t] = Append(toTab[t], e)
      BY <2>2 DEF Pushed
    <3>2. P[t] \in Seq(ToTabMsg) /\ InOrder(P[t], bundle[t].version, m)
      BY <2>1, <3>1, OrderPush
    <3>3. e \in ToTabMsg /\ e.kind = "state" /\ e.version = m
      BY <2>1 DEF ToTabMsg
    <3> HIDE DEF e
    <3>4. Len(P[t]) = Len(toTab[t]) + 1 /\ P[t][Len(toTab[t]) + 1] = e /\ Len(toTab[t]) \in Nat
      BY <2>1, <3>1, <3>3
    <3>5. QED BY <3>2, <3>3, <3>4
  <2>3. CASE ~(subs[t].on /\ t \in alive)
    BY <2>1, <2>3, OrderStays DEF Pushed
  <2>4. QED BY <2>2, <2>3
<1>2. P \in [Tabs -> Seq(ToTabMsg)]
  BY <1>1 DEF Pushed
<1>3. QED BY <1>1, <1>2

\* The push and the answer that end a write (dispatch.ts, run).
LEMMA AnsweredPorts ==
  ASSUME Types, PortInv, NEW t \in Tabs, NEW v \in running[t]
  PROVE  /\ Answered(Pushed(toTab, version), t, v) \in [Tabs -> Seq(ToTabMsg)]
         /\ \A s \in Tabs :
              InOrder(Answered(Pushed(toTab, version), t, v)[s], bundle[s].version, version)
<1> DEFINE P == Pushed(toTab, version)
           A == Answered(P, t, v)
<1>1. version \in Nat /\ v \in Nat /\ v <= version /\ bundle[t].version \in Nat
  BY DEF Types, PortInv
<1>2. /\ P \in [Tabs -> Seq(ToTabMsg)]
      /\ \A s \in Tabs : InOrder(P[s], bundle[s].version, version)
      /\ t \in alive /\ subs[t].on =>
           Len(P[t]) > 0 /\ P[t][Len(P[t])].kind = "state" /\ P[t][Len(P[t])].version = version
  BY <1>1, PushedPorts
<1> HIDE DEF P
<1>3. CASE t \notin alive
  BY <1>2, <1>3 DEF Answered, P
<1>4. CASE t \in alive
  <2>1. subs[t].on
    BY <1>4 DEF PortInv, Subscribed
  <2> DEFINE q == Append(P[t], [kind |-> "answer", version |-> v, tables |-> {}])
  <2>2. q \in Seq(ToTabMsg) /\ InOrder(q, bundle[t].version, version)
    BY <1>1, <1>2, <1>4, <2>1, OrderAnswer
  <2>3. A = [P EXCEPT ![t] = q]
    BY <1>4 DEF Answered
  <2> HIDE DEF q, A
  <2>4. A \in [Tabs -> Seq(ToTabMsg)]
    BY <1>2, <2>2, <2>3
  <2>5. \A s \in Tabs : InOrder(A[s], bundle[s].version, version)
    BY <1>2, <2>2, <2>3
  <2>6. QED BY <2>4, <2>5 DEF A, P
<1>5. QED BY <1>3, <1>4

-----------------------------------------------------------------------------
(* The steps.                                                              *)

Inv == Types /\ PortInv

\* The ports towards the tabs are left alone, the workspace moves to m.
LEMMA PortsStay ==
  ASSUME Types, PortInv, NEW m \in Nat, version <= m, NEW t \in Tabs
  PROVE  InOrder(toTab[t], bundle[t].version, m)
BY OrderStays DEF Types, PortInv

\* A request posted by an open tab, other than a goodbye, goes behind the others.
LEMMA Posted ==
  ASSUME Types, PortInv, NEW t \in Tabs, NEW msg \in ToWorkerMsg, msg.kind # "bye",
         toWorker' = [toWorker EXCEPT ![t] = Append(@, msg)],
         UNCHANGED <<subs, running, alive>>
  PROVE  /\ toWorker' \in [Tabs -> Seq(ToWorkerMsg)]
         /\ \A s \in Tabs : Subscribed(s)'
<1>1. toWorker[t] \in Seq(ToWorkerMsg) /\ toWorker'[t] = Append(toWorker[t], msg)
  BY DEF Types
<1>2. /\ toWorker'[t] \in Seq(ToWorkerMsg)
      /\ Len(toWorker[t]) \in Nat /\ Len(toWorker'[t]) = Len(toWorker[t]) + 1
      /\ \A i \in 1..Len(toWorker[t]) : toWorker'[t][i] = toWorker[t][i]
      /\ toWorker'[t][Len(toWorker[t]) + 1] = msg
  BY <1>1
<1>3. Subscribed(t)'
  <2> SUFFICES ASSUME t \in alive'
               PROVE  /\ \A i \in 1..Len(toWorker'[t]) : toWorker'[t][i].kind # "bye"
                      /\ \/ subs'[t].on
                         \/ /\ running'[t] = {} /\ toWorker'[t] # << >>
                            /\ toWorker'[t][1].kind = "subscribe"
    BY DEF Subscribed
  <2>1. Subscribed(t) /\ t \in alive
    BY DEF PortInv
  <2>2. \A i \in 1..Len(toWorker'[t]) : toWorker'[t][i].kind # "bye"
    BY <1>2, <2>1 DEF Subscribed
  <2>3. CASE subs[t].on
    BY <2>2, <2>3
  <2>4. CASE ~subs[t].on
    <3>1. running[t] = {} /\ toWorker[t] # << >> /\ toWorker[t][1].kind = "subscribe"
      BY <2>1, <2>4 DEF Subscribed
    <3>2. 1 \in 1..Len(toWorker[t])
      BY <1>1, <1>2, <3>1
    <3>3. QED BY <1>2, <2>2, <3>1, <3>2
  <2>5. QED BY <2>3, <2>4
<1>4. ASSUME NEW s \in Tabs, s # t PROVE Subscribed(s)'
  <2>1. toWorker'[s] = toWorker[s]
    BY <1>4 DEF Types
  <2>2. QED BY <2>1 DEF PortInv, Subscribed
<1>5. QED BY <1>2, <1>3, <1>4 DEF Types

\* The worker takes the first request off a port.
LEMMA Taken ==
  ASSUME Types, PortInv, NEW t \in Tabs, toWorker[t] # << >>,
         toWorker' = [toWorker EXCEPT ![t] = Tail(@)]
  PROVE  /\ toWorker' \in [Tabs -> Seq(ToWorkerMsg)]
         /\ Head(toWorker[t]) \in ToWorkerMsg
         /\ toWorker[t][1] = Head(toWorker[t])
         /\ t \in alive => Head(toWorker[t]).kind # "bye"
         /\ t \in alive => \A i \in 1..Len(toWorker'[t]) : toWorker'[t][i].kind # "bye"
         /\ \A s \in Tabs \ {t} : toWorker'[s] = toWorker[s]
<1>1. toWorker[t] \in Seq(ToWorkerMsg) /\ toWorker'[t] = Tail(toWorker[t])
  BY DEF Types
<1>2. /\ toWorker'[t] \in Seq(ToWorkerMsg) /\ Len(toWorker[t]) \in Nat \ {0}
      /\ Len(toWorker'[t]) = Len(toWorker[t]) - 1
      /\ \A i \in 1..Len(toWorker'[t]) :
           toWorker'[t][i] = toWorker[t][i + 1] /\ i + 1 \in 1..Len(toWorker[t])
      /\ Head(toWorker[t]) = toWorker[t][1] /\ 1 \in 1..Len(toWorker[t])
      /\ toWorker[t][1] \in ToWorkerMsg
  <2>1. toWorker[t] \in Seq(ToWorkerMsg) /\ toWorker[t] # << >>
    BY <1>1
  <2>2. QED BY <1>1, <2>1, TailFacts
<1>3. t \in alive => \A i \in 1..Len(toWorker[t]) : toWorker[t][i].kind # "bye"
  BY DEF PortInv, Subscribed
<1>4. QED BY <1>2, <1>3 DEF Types

\* Subscriptions and requests are left alone.
LEMMA SubscribedStays ==
  ASSUME PortInv, UNCHANGED <<subs, running, toWorker, alive>>
  PROVE  \A s \in Tabs : Subscribed(s)'
BY DEF PortInv, Subscribed

\* Every step keeps the ports typed and in order.
LEMMA InvStep ==
  ASSUME Inv, [Next]_vars
  PROVE  Inv'
<1> USE DEF Inv
<1> version \in Nat
  BY DEF Types
<1>1. CASE SyncChange
  <2>1. /\ version' = version + 1 /\ toTab' = Pushed(toTab, version + 1)
        /\ UNCHANGED <<subs, running, toWorker, alive, noted, resub, bundle, acked>>
    BY <1>1 DEF SyncChange
  <2>2. /\ toTab' \in [Tabs -> Seq(ToTabMsg)]
        /\ \A t \in Tabs : InOrder(toTab'[t], bundle[t].version, version + 1)
    BY <2>1, PushedPorts
  <2>3. Types'
    BY <2>1, <2>2 DEF Types
  <2>4. \A t \in Tabs : \A v \in running[t] : v <= version + 1
    BY DEF Types, PortInv
  <2>5. \A t \in Tabs : Subscribed(t)'
    BY <2>1, SubscribedStays
  <2>6. QED BY <2>1, <2>2, <2>3, <2>4, <2>5 DEF PortInv
<1>2. CASE DeferredPush
  <2>1. /\ toTab' = Pushed(toTab, version)
        /\ UNCHANGED <<version, subs, running, toWorker, alive, noted, resub, bundle, acked>>
    BY <1>2 DEF DeferredPush
  <2>2. /\ toTab' \in [Tabs -> Seq(ToTabMsg)]
        /\ \A t \in Tabs : InOrder(toTab'[t], bundle[t].version, version)
    BY <2>1, PushedPorts
  <2>3. Types'
    BY <2>1, <2>2 DEF Types
  <2>4. \A t \in Tabs : Subscribed(t)'
    BY <2>1, SubscribedStays
  <2>5. QED BY <2>1, <2>2, <2>3, <2>4 DEF PortInv
<1>3. ASSUME NEW t \in Tabs, HandleSubscribe(t) PROVE Inv'
  <2> DEFINE msg == Head(toWorker[t])
  <2>1. /\ toWorker[t] # << >> /\ toWorker' = [toWorker EXCEPT ![t] = Tail(@)]
        /\ subs' = [subs EXCEPT ![t] = [on |-> TRUE, tables |-> msg.tables]]
        /\ UNCHANGED <<version, running, toTab, alive, noted, resub, bundle, acked>>
    BY <1>3 DEF HandleSubscribe
  <2>2. /\ toWorker' \in [Tabs -> Seq(ToWorkerMsg)] /\ msg \in ToWorkerMsg
        /\ t \in alive => \A i \in 1..Len(toWorker'[t]) : toWorker'[t][i].kind # "bye"
        /\ \A s \in Tabs \ {t} : toWorker'[s] = toWorker[s]
    BY <2>1, Taken
  <2>3. msg.tables \in SUBSET Tables
    BY <2>2 DEF ToWorkerMsg
  <2> HIDE DEF msg
  <2>4. Types'
    BY <2>1, <2>2, <2>3 DEF Types
  <2>5. subs'[t].on /\ \A s \in Tabs \ {t} : subs'[s] = subs[s]
    BY <2>1 DEF Types
  <2>6. \A s \in Tabs : Subscribed(s)'
    BY <2>1, <2>2, <2>5 DEF PortInv, Subscribed
  <2>7. QED BY <2>1, <2>4, <2>6 DEF PortInv
<1>4. ASSUME NEW t \in Tabs, HandleWrite(t) PROVE Inv'
  <2>1. /\ toWorker[t] # << >> /\ toWorker' = [toWorker EXCEPT ![t] = Tail(@)]
        /\ Head(toWorker[t]).kind = "write"
        /\ version' = version + 1
        /\ running' = [running EXCEPT ![t] = @ \union {version + 1}]
        /\ UNCHANGED <<subs, toTab, alive, noted, resub, bundle, acked>>
    BY <1>4 DEF HandleWrite
  <2>2. /\ toWorker' \in [Tabs -> Seq(ToWorkerMsg)] /\ toWorker[t][1] = Head(toWorker[t])
        /\ t \in alive => \A i \in 1..Len(toWorker'[t]) : toWorker'[t][i].kind # "bye"
        /\ \A s \in Tabs \ {t} : toWorker'[s] = toWorker[s]
    BY <2>1, Taken
  <2>3. Types'
    BY <2>1, <2>2 DEF Types
  <2>4. \A s \in Tabs \ {t} : running'[s] = running[s]
    BY <2>1 DEF Types
  <2>5. t \in alive => subs[t].on
    BY <2>1, <2>2 DEF PortInv, Subscribed
  <2>6. \A s \in Tabs : Subscribed(s)'
    BY <2>1, <2>2, <2>4, <2>5 DEF PortInv, Subscribed
  <2>7. \A s \in Tabs : \A v \in running'[s] : v <= version'
    BY <2>1 DEF Types, PortInv
  <2>8. \A s \in Tabs : InOrder(toTab[s], bundle[s].version, version + 1)
    BY PortsStay
  <2>9. QED BY <2>1, <2>3, <2>6, <2>7, <2>8 DEF PortInv
<1>5. ASSUME NEW t \in Tabs, HandleBye(t) PROVE Inv'
  <2>1. /\ toWorker[t] # << >> /\ toWorker' = [toWorker EXCEPT ![t] = Tail(@)]
        /\ Head(toWorker[t]).kind = "bye"
        /\ subs' = [subs EXCEPT ![t] = None]
        /\ UNCHANGED <<version, running, toTab, alive, noted, resub, bundle, acked>>
    BY <1>5 DEF HandleBye
  <2>2. /\ toWorker' \in [Tabs -> Seq(ToWorkerMsg)]
        /\ t \notin alive
        /\ \A s \in Tabs \ {t} : toWorker'[s] = toWorker[s]
    BY <2>1, Taken
  <2>3. Types'
    BY <2>1, <2>2 DEF Types, None
  <2>4. \A s \in Tabs \ {t} : subs'[s] = subs[s]
    BY <2>1 DEF Types
  <2>5. \A s \in Tabs : Subscribed(s)'
    BY <2>1, <2>2, <2>4 DEF PortInv, Subscribed
  <2>6. QED BY <2>1, <2>3, <2>5 DEF PortInv
<1>6. ASSUME NEW t \in Tabs, NEW v \in running[t], WriteDone(t, v) PROVE Inv'
  <2>1. /\ running' = [running EXCEPT ![t] = @ \ {v}]
        /\ toTab' = Answered(Pushed(toTab, version), t, v)
        /\ UNCHANGED <<version, subs, toWorker, alive, noted, resub, bundle, acked>>
    BY <1>6 DEF WriteDone
  <2>2. /\ toTab' \in [Tabs -> Seq(ToTabMsg)]
        /\ \A s \in Tabs : InOrder(toTab'[s], bundle[s].version, version)
    BY <2>1, AnsweredPorts
  <2>3. Types'
    BY <2>1, <2>2 DEF Types
  <2>4. \A s \in Tabs : running'[s] \subseteq running[s]
    BY <2>1 DEF Types
  <2>5. \A s \in Tabs : Subscribed(s)'
    BY <2>1, <2>4 DEF PortInv, Subscribed
  <2>6. QED BY <2>1, <2>2, <2>3, <2>4, <2>5 DEF PortInv
<1>7. ASSUME NEW t \in Tabs, Receive(t) PROVE Inv'
  <2> DEFINE msg == Head(toTab[t])
  <2>1. /\ toTab[t] # << >> /\ toTab' = [toTab EXCEPT ![t] = Tail(@)]
        /\ UNCHANGED <<version, subs, running, toWorker, alive, noted, resub>>
    BY <1>7 DEF Receive, worker
  <2>2. /\ msg \in ToTabMsg /\ Tail(toTab[t]) \in Seq(ToTabMsg)
        /\ msg.kind = "state" =>
             bundle[t].version <= msg.version /\ InOrder(Tail(toTab[t]), msg.version, version)
        /\ msg.kind = "answer" =>
             msg.version <= bundle[t].version /\ InOrder(Tail(toTab[t]), bundle[t].version, version)
    <3>1. /\ toTab[t] \in Seq(ToTabMsg) /\ bundle[t].version \in Nat
          /\ InOrder(toTab[t], bundle[t].version, version)
      BY DEF Types, PortInv
    <3>2. QED BY <2>1, <3>1, OrderReceive
  <2>3. msg.version \in Nat /\ msg.tables \in SUBSET Tables
    BY <2>2 DEF ToTabMsg
  <2>4. \/ /\ msg.kind = "state"
           /\ bundle' = [bundle EXCEPT ![t] = [version |-> msg.version, tables |-> msg.tables]]
           /\ UNCHANGED acked
        \/ /\ msg.kind = "answer"
           /\ acked' = [acked EXCEPT ![t] = @ \union {msg.version}]
           /\ UNCHANGED bundle
    BY <1>7 DEF Receive
  <2> HIDE DEF msg
  <2>5. /\ toTab' \in [Tabs -> Seq(ToTabMsg)] /\ toTab'[t] = Tail(toTab[t])
        /\ \A s \in Tabs \ {t} : toTab'[s] = toTab[s]
    BY <2>1, <2>2 DEF Types
  <2>6. \A s \in Tabs : Subscribed(s)'
    BY <2>1, SubscribedStays
  <2>7. CASE msg.kind = "state"
    <3>1. /\ bundle' \in [Tabs -> [version : Nat, tables : SUBSET Tables]]
          /\ bundle'[t].version = msg.version
          /\ \A s \in Tabs \ {t} : bundle'[s] = bundle[s]
          /\ acked' = acked
      <4> DEFINE e == [version |-> msg.version, tables |-> msg.tables]
      <4>1. e \in [version : Nat, tables : SUBSET Tables] /\ e.version = msg.version
        BY <2>3
      <4>2. bundle' = [bundle EXCEPT ![t] = e] /\ acked' = acked
        BY <2>4, <2>7
      <4> HIDE DEF e
      <4>3. QED BY <4>1, <4>2 DEF Types
    <3>2. Types'
      BY <2>1, <2>5, <3>1 DEF Types
    <3>3. InOrder(toTab'[t], bundle'[t].version, version)
      BY <2>2, <2>5, <2>7, <3>1
    <3>4. \A s \in Tabs : bundle[s].version <= bundle'[s].version
      <4>1. bundle[t].version <= bundle'[t].version
        BY <2>2, <2>7, <3>1
      <4>2. \A s \in Tabs \ {t} : bundle[s].version <= bundle'[s].version
        <5>1. \A s \in Tabs : bundle[s].version \in Nat
          BY DEF Types
        <5>2. QED BY <3>1, <5>1
      <4>3. QED BY <4>1, <4>2
    <3>5. \A s \in Tabs : \A w \in acked[s] : w <= bundle'[s].version
      BY <3>1, <3>2, <3>4 DEF PortInv, Types
    <3>6. QED BY <2>1, <2>5, <2>6, <3>1, <3>2, <3>3, <3>5 DEF PortInv
  <2>8. CASE msg.kind = "answer"
    <3>1. acked' = [acked EXCEPT ![t] = @ \union {msg.version}] /\ bundle' = bundle
      BY <2>4, <2>8
    <3>2. Types'
      BY <2>1, <2>3, <2>5, <3>1 DEF Types
    <3>3. \A s \in Tabs : \A w \in acked'[s] : w <= bundle[s].version
      BY <2>2, <2>8, <3>1 DEF PortInv, Types
    <3>4. \A s \in Tabs : InOrder(toTab'[s], bundle[s].version, version)
      BY <2>2, <2>5, <2>8 DEF PortInv
    <3>5. QED BY <2>1, <2>6, <3>1, <3>2, <3>3, <3>4 DEF PortInv
  <2>9. QED BY <2>4, <2>7, <2>8
<1>8. ASSUME NEW t \in Tabs, Write(t) PROVE Inv'
  <2> DEFINE msg == [kind |-> "write", tables |-> {}]
  <2>1. /\ toWorker' = [toWorker EXCEPT ![t] = Append(@, msg)]
        /\ UNCHANGED <<version, subs, running, toTab, alive, noted, resub, bundle, acked>>
    BY <1>8 DEF Write, worker
  <2>2. msg \in ToWorkerMsg /\ msg.kind # "bye"
    BY DEF ToWorkerMsg
  <2> HIDE DEF msg
  <2>3. toWorker' \in [Tabs -> Seq(ToWorkerMsg)] /\ \A s \in Tabs : Subscribed(s)'
    BY <2>1, <2>2, Posted
  <2>4. QED BY <2>1, <2>3 DEF Types, PortInv
<1>9. ASSUME NEW t \in Tabs, Resubscribe(t) PROVE Inv'
  <2> DEFINE msg == [kind |-> "subscribe", tables |-> noted[t]]
  <2>1. /\ toWorker' = [toWorker EXCEPT ![t] = Append(@, msg)]
        /\ resub' = [resub EXCEPT ![t] = FALSE]
        /\ UNCHANGED <<version, subs, running, toTab, alive, noted, bundle, acked>>
    BY <1>9 DEF Resubscribe, worker
  <2>2. msg \in ToWorkerMsg /\ msg.kind # "bye"
    BY DEF ToWorkerMsg, Types
  <2> HIDE DEF msg
  <2>3. toWorker' \in [Tabs -> Seq(ToWorkerMsg)] /\ \A s \in Tabs : Subscribed(s)'
    BY <2>1, <2>2, Posted
  <2>4. QED BY <2>1, <2>3 DEF Types, PortInv
<1>10. ASSUME NEW t \in Tabs, Leave(t) PROVE Inv'
  <2>1. /\ alive' = alive \ {t}
        /\ toTab' = [toTab EXCEPT ![t] = << >>]
        /\ UNCHANGED <<version, subs, running, noted, resub, bundle, acked>>
    BY <1>10 DEF Leave, worker
  <2>2. toWorker' \in [Tabs -> Seq(ToWorkerMsg)] /\ \A s \in Tabs \ {t} : toWorker'[s] = toWorker[s]
    <3>1. CASE toWorker' = toWorker
      BY <3>1 DEF Types
    <3>2. CASE toWorker' = [toWorker EXCEPT ![t] = Append(@, [kind |-> "bye", tables |-> {}])]
      <4>1. [kind |-> "bye", tables |-> {}] \in ToWorkerMsg
        BY DEF ToWorkerMsg
      <4>2. Append(toWorker[t], [kind |-> "bye", tables |-> {}]) \in Seq(ToWorkerMsg)
        BY <4>1 DEF Types
      <4>3. QED BY <3>2, <4>2 DEF Types
    <3>3. QED BY <1>10, <3>1, <3>2 DEF Leave
  <2>3. /\ toTab' \in [Tabs -> Seq(ToTabMsg)] /\ toTab'[t] = << >>
        /\ \A s \in Tabs \ {t} : toTab'[s] = toTab[s]
    BY <2>1 DEF Types
  <2>4. Types'
    BY <2>1, <2>2, <2>3 DEF Types
  <2>5. \A s \in Tabs : Subscribed(s)'
    BY <2>1, <2>2 DEF PortInv, Subscribed
  <2>6. InOrder(toTab'[t], bundle[t].version, version)
    BY <2>3 DEF PortInv, InOrder
  <2>7. \A s \in Tabs : InOrder(toTab'[s], bundle[s].version, version)
    BY <2>3, <2>6 DEF PortInv
  <2>8. QED BY <2>1, <2>4, <2>5, <2>7 DEF PortInv
<1>11. ASSUME NEW t \in Tabs, NEW x \in Tables, ReadTable(t, x) PROVE Inv'
  <2>1. /\ noted' = [noted EXCEPT ![t] = @ \union {x}]
        /\ resub' = [resub EXCEPT ![t] = TRUE]
        /\ UNCHANGED <<version, subs, running, toWorker, toTab, alive, bundle, acked>>
    BY <1>11 DEF ReadTable, worker
  <2>2. \A s \in Tabs : Subscribed(s)'
    BY <2>1, SubscribedStays
  <2>3. QED BY <2>1, <2>2 DEF Types, PortInv
<1>12. CASE UNCHANGED vars
  <2>1. UNCHANGED <<version, subs, running, toWorker, toTab, alive, noted, resub, bundle, acked>>
    BY <1>12 DEF vars
  <2>2. \A s \in Tabs : Subscribed(s)'
    BY <2>1, SubscribedStays
  <2>3. QED BY <2>1, <2>2 DEF Types, PortInv
<1>13. QED
  BY <1>1, <1>2, <1>3, <1>4, <1>5, <1>6, <1>7, <1>8, <1>9, <1>10, <1>11, <1>12
  DEF Next, Handle

\* The first request on every port is a subscription.
LEMMA InvInit == Init => Inv
<1> SUFFICES ASSUME Init PROVE Inv
  OBVIOUS
<1> DEFINE msg == [kind |-> "subscribe", tables |-> {}]
<1>1. msg \in ToWorkerMsg /\ msg.kind = "subscribe"
  BY DEF ToWorkerMsg
<1> HIDE DEF msg
<1>2. <<msg>> \in Seq(ToWorkerMsg) /\ Len(<<msg>>) = 1 /\ <<msg>>[1] = msg /\ <<msg>> # << >>
  BY <1>1
<1>3. \A t \in Tabs : toWorker[t] = <<msg>>
  BY DEF Init, msg
<1>4. Types
  BY <1>2, <1>3 DEF Init, Types, None, NoBundle, msg
<1>5. \A t \in Tabs : Subscribed(t)
  BY <1>1, <1>2, <1>3 DEF Init, Subscribed
<1>6. \A t \in Tabs : InOrder(toTab[t], bundle[t].version, version)
  <2>1. \A t \in Tabs : toTab[t] = << >> /\ bundle[t] = NoBundle
    BY DEF Init
  <2>2. version = 0 /\ NoBundle.version = 0 /\ Len(<< >>) = 0
    BY DEF Init, NoBundle
  <2>3. InOrder(<< >>, 0, 0)
    BY <2>2 DEF InOrder
  <2>4. ASSUME NEW t \in Tabs PROVE InOrder(toTab[t], bundle[t].version, version)
    <3>1. toTab[t] = << >> /\ bundle[t].version = 0 /\ version = 0
      BY <2>1, <2>2
    <3>2. QED BY <2>3, <3>1, Zenon
  <2>5. QED BY <2>4
<1>7. QED BY <1>4, <1>5, <1>6 DEF Init, Inv, PortInv

\* Ports are in order in every reachable state.
LEMMA PortsInOrder == Spec => []Inv
BY InvInit, InvStep, PTL DEF Spec

\* A tab reads its own writes: when a write's promise resolves, the bundle the
\* tab reads from includes it (dispatch.ts pushes before it answers).
THEOREM TabReadsItsWrites == Spec => []ReadYourWrites
<1>1. Inv => ReadYourWrites
  <2> SUFFICES ASSUME Inv, NEW t \in Tabs, NEW v \in acked[t]
               PROVE  bundle[t].version >= v
    BY DEF ReadYourWrites
  <2>1. v \in Nat /\ bundle[t].version \in Nat /\ v <= bundle[t].version
    BY DEF Inv, Types, PortInv
  <2>2. QED BY <2>1
<1>2. QED BY <1>1, PortsInOrder, PTL

\* What a tab shows never goes back in time (dispatch.ts, pushState; client.ts).
THEOREM TabNeverGoesBack == Spec => NeverBackwards
<1>1. ASSUME Inv, Inv', [Next]_vars, NEW t \in Tabs
      PROVE  bundle'[t].version >= bundle[t].version
  <2>1. bundle[t].version \in Nat /\ bundle'[t].version \in Nat
    BY <1>1 DEF Inv, Types
  <2>2. CASE bundle' = bundle
    BY <2>1, <2>2
  <2>3. ASSUME NEW s \in Tabs, Receive(s) PROVE bundle'[t].version >= bundle[t].version
    <3> DEFINE msg == Head(toTab[s])
    <3>1. /\ toTab[s] \in Seq(ToTabMsg) /\ bundle[s].version \in Nat /\ version \in Nat
          /\ InOrder(toTab[s], bundle[s].version, version) /\ toTab[s] # << >>
      BY <1>1, <2>3 DEF Inv, Types, PortInv, Receive
    <3>2. /\ msg \in ToTabMsg
          /\ msg.kind = "state" => bundle[s].version <= msg.version
      BY <3>1, OrderReceive
    <3>3. msg.version \in Nat
      BY <3>2 DEF ToTabMsg
    <3>4. \/ bundle' = bundle
          \/ /\ msg.kind = "state"
             /\ bundle' = [bundle EXCEPT ![s] = [version |-> msg.version, tables |-> msg.tables]]
      BY <2>3 DEF Receive
    <3> HIDE DEF msg
    <3>5. QED BY <1>1, <2>1, <3>2, <3>3, <3>4 DEF Inv, Types
  <2>4. bundle' = bundle \/ \E s \in Tabs : Receive(s)
    BY <1>1 DEF Next, vars, worker, SyncChange, DeferredPush, Handle, HandleSubscribe,
       HandleWrite, HandleBye, WriteDone, Write, Resubscribe, Leave, ReadTable
  <2>5. QED BY <2>2, <2>3, <2>4
<1>2. Inv /\ Inv' /\ [Next]_vars => \A t \in Tabs : bundle'[t].version >= bundle[t].version
  BY <1>1
<1>3. QED BY <1>2, PortsInOrder, PTL DEF Spec, NeverBackwards

-----------------------------------------------------------------------------
(* Implementation of the feed.                                             *)

\* What a tab takes off its port it may show, or be told of (client.ts,
\* port.onmessage).
LEMMA ReceiveFeeds ==
  ASSUME Inv, NEW t \in Tabs, Receive(t)
  PROVE  Feed!CatchUp(t) \/ Feed!Tell(t) \/ UNCHANGED Feed!vars
<1> DEFINE msg   == Head(toTab[t])
           shown == [s \in Tabs |-> bundle[s].version]
<1>1. /\ toTab[t] \in Seq(ToTabMsg) /\ toTab[t] # << >>
      /\ bundle[t].version \in Nat /\ version \in Nat
      /\ InOrder(toTab[t], bundle[t].version, version)
  BY DEF Inv, Types, PortInv, Receive
<1>2. /\ msg \in ToTabMsg /\ msg.version \in Nat
      /\ msg.kind = "state" => bundle[t].version <= msg.version
      /\ msg.kind = "answer" => msg.version <= bundle[t].version
  BY <1>1, OrderReceive DEF ToTabMsg
<1>3. msg.version <= version
  <2>1. msg = toTab[t][1] /\ 1 \in 1..Len(toTab[t])
    BY <1>1, TailFacts
  <2>2. QED BY <1>1, <2>1 DEF InOrder
<1>4. /\ t \in alive /\ UNCHANGED <<version, alive>>
      /\ \/ /\ msg.kind = "state"
            /\ bundle' = [bundle EXCEPT ![t] = [version |-> msg.version, tables |-> msg.tables]]
            /\ UNCHANGED acked
         \/ /\ msg.kind = "answer"
            /\ acked' = [acked EXCEPT ![t] = @ \union {msg.version}]
            /\ UNCHANGED bundle
  BY DEF Receive, worker
<1> HIDE DEF msg
<1>5. CASE msg.kind = "state"
  <2>1. shown' = [shown EXCEPT ![t] = msg.version]
    <3> DEFINE e == [version |-> msg.version, tables |-> msg.tables]
    <3>1. bundle' = [bundle EXCEPT ![t] = e] /\ e.version = msg.version
      BY <1>4, <1>5
    <3> HIDE DEF e
    <3>2. bundle'[t].version = msg.version /\ \A s \in Tabs \ {t} : bundle'[s] = bundle[s]
      BY <3>1 DEF Inv, Types
    <3>3. QED BY <3>2
  <2>2. shown[t] = bundle[t].version /\ shown \in [Tabs -> Nat]
    BY DEF Inv, Types
  <2> HIDE DEF shown
  <2>3. CASE msg.version = shown[t]
    <3>1. shown' = shown
      BY <2>1, <2>2, <2>3
    <3>2. QED BY <1>4, <1>5, <3>1 DEF Feed!vars, shown
  <2>4. CASE msg.version # shown[t]
    <3>1. msg.version \in shown[t]..version /\ msg.version > shown[t]
      BY <1>1, <1>2, <1>3, <1>5, <2>2, <2>4
    <3>2. QED BY <1>4, <1>5, <2>1, <3>1 DEF Feed!CatchUp, shown
  <2>5. QED BY <2>3, <2>4
<1>6. CASE msg.kind = "answer"
  <2>1. shown' = shown /\ shown[t] = bundle[t].version
    BY <1>4, <1>6
  <2> HIDE DEF shown
  <2>2. msg.version \in 0..shown[t]
    BY <1>1, <1>2, <1>6, <2>1
  <2>3. QED BY <1>4, <1>6, <2>1, <2>2 DEF Feed!Tell, shown
<1>7. QED BY <1>4, <1>5, <1>6

\* Every step of the worker and the tabs is a step of the feed or leaves it as it
\* is (dispatch.ts, client.ts).
LEMMA StepFeeds ==
  ASSUME Inv, [Next]_vars
  PROVE  [Feed!Next]_Feed!vars
<1>1. CASE SyncChange
  BY <1>1 DEF SyncChange, Feed!Next, Feed!Change
<1>2. CASE \E t \in Tabs : HandleWrite(t)
  BY <1>2 DEF HandleWrite, Feed!Next, Feed!Change
<1>3. CASE \E t \in Tabs : Receive(t)
  BY <1>3, ReceiveFeeds DEF Feed!Next
<1>4. CASE \E t \in Tabs : Leave(t)
  BY <1>4 DEF Leave, worker, Feed!Next, Feed!Close
<1>5. CASE UNCHANGED <<version, alive, bundle, acked>>
  BY <1>5 DEF Feed!vars
<1>6. QED
  BY <1>1, <1>2, <1>3, <1>4, <1>5
  DEF Next, vars, worker, DeferredPush, Handle, HandleSubscribe, HandleBye, WriteDone,
      Write, Resubscribe, ReadTable

\* The ports, subscriptions and pushes of the shared worker implement the feed of
\* states that a tab may rely on (dispatch.ts, workerWorkspace.ts, client.ts).
THEOREM ImplementsStateFeed == Spec => Feed!Spec
<1>1. Init => Feed!Init
  BY DEF Init, Feed!Init, NoBundle
<1>2. Inv /\ [Next]_vars => [Feed!Next]_Feed!vars
  BY StepFeeds
<1>3. QED BY <1>1, <1>2, PortsInOrder, PTL DEF Spec, Feed!Spec
-----------------------------------------------------------------------------
(* The registry.  None of its properties is inductive.  One session per    *)
(* account rests on what `sessions`, the dispatcher's maps and the two     *)
(* kinds of build in flight say of each other (CurrentInv); one workspace  *)
(* per session and the use of an answered open rest on the open in flight  *)
(* still being the only claim on its place in the registry (OpeningInv,    *)
(* WorkspaceInv).                                                          *)

\* What the registry's variables range over.
RegistryType ==
  /\ sessions \in Seq(Users) /\ Len(sessions) <= MaxSessions
  /\ current \in [Users -> Nat]
  /\ restoring \subseteq Users /\ logins \subseteq Users
  /\ workspaces \in Seq([session : SessionIds, room : Rooms])
  /\ registered \in [SessionIds -> [Rooms -> Nat]]
  /\ opening \in [Users -> [Rooms -> [session : Nat, ws : Nat]]]

\* The map names a session of the account. For an account that signed in once,
\* that is the only one, and nothing that could build another is in flight: a
\* keyed build runs only for a stored account, a login only for one that was not.
CurrentInv ==
  /\ \A u \in Users : current[u] # 0 =>
       current[u] \in 1..Len(sessions) /\ sessions[current[u]] = u
  /\ \A u \in Users \ resigned :
       /\ \A i \in 1..Len(sessions) : sessions[i] = u => i = current[u]
       /\ u \in restoring => current[u] = 0 /\ u \in Saved
       /\ u \in logins => current[u] = 0 /\ u \notin Saved

\* The open in flight o, of account u for room r, holds a session of its account
\* whose place for the room is free, the present one unless the account signed in
\* again or out; and once its workspace exists it is of that session and room.
Opens(o, u, r) ==
  /\ o.session \in 1..Len(sessions)
  /\ sessions[o.session] = u
  /\ registered[o.session][r] = 0
  /\ u \notin resigned => current[u] = o.session
  /\ o.ws # 0 => /\ o.ws \in 1..Len(workspaces)
                 /\ workspaces[o.ws] = [session |-> o.session, room |-> r]

\* So does every open in flight.
OpeningInv ==
  \A u \in Users, r \in Rooms : opening[u][r] # Idle => Opens(opening[u][r], u, r)

\* Workspace w is where its session and room say: in the map, or in the open
\* that is about to put it there.
Placed(w, s, r) == registered[s][r] = w \/ opening[sessions[s]][r] = [session |-> s, ws |-> w]

\* Every workspace that runs has its place.
WorkspaceInv ==
  \A w \in 1..Len(workspaces) :
    /\ workspaces[w].session \in 1..Len(sessions)
    /\ Placed(w, workspaces[w].session, workspaces[w].room)

RegistryInv == RegistryType /\ CurrentInv /\ OpeningInv /\ WorkspaceInv

\* An account that can be restored has a session that runs, or had one stored.
LEMMA StoredMeans ==
  ASSUME RegistryInv, NEW u \in Users \ resigned
  PROVE  /\ Stored(u) /\ current[u] = 0 => u \in Saved
         /\ ~Stored(u) => current[u] = 0 /\ u \notin Saved
<1>1. Len(sessions) \in Nat /\ DOMAIN sessions = 1..Len(sessions)
  BY DEF RegistryInv, RegistryType
<1>2. QED BY <1>1 DEF RegistryInv, CurrentInv, Stored

\* Installing the session of an account with none, by the only build in flight
\* for it, or of one that is left aside, keeps the invariant (install).
LEMMA InstallKeeps ==
  ASSUME RegistryInv, NEW u \in Users, Install(u),
         restoring' \subseteq restoring, logins' \subseteq logins,
         u \in resigned \/ (current[u] = 0 /\ u \notin restoring' /\ u \notin logins')
  PROVE  RegistryInv'
<1> PICK n \in Nat : n = Len(sessions)
  BY DEF RegistryInv, RegistryType
<1>1. /\ sessions' = Append(sessions, u) /\ n < MaxSessions
      /\ current' = [current EXCEPT ![u] = n + 1]
      /\ UNCHANGED <<workspaces, registered, opening, persisted, resigned>>
  BY DEF Install
<1>2. /\ sessions' \in Seq(Users) /\ Len(sessions') = n + 1 /\ sessions'[n + 1] = u
      /\ \A i \in 1..n : sessions'[i] = sessions[i]
      /\ \A i \in 1..(n + 1) : i = n + 1 \/ i \in 1..n
      /\ \A i \in 1..n : i \in 1..(n + 1) /\ i # n + 1 /\ i # 0
  BY <1>1 DEF RegistryInv, RegistryType
<1>3. \A v \in Users : current'[v] = IF v = u THEN n + 1 ELSE current[v]
  BY <1>1 DEF RegistryInv, RegistryType
<1>4. RegistryType'
  <2>1. n + 1 <= MaxSessions
    BY <1>1, RegistryAssumption
  <2>2. current' \in [Users -> Nat]
    BY <1>1 DEF RegistryInv, RegistryType
  <2>3. QED BY <1>1, <1>2, <2>1, <2>2 DEF RegistryInv, RegistryType
<1>5. CurrentInv'
  <2>1. n + 1 \in 1..(n + 1)
    OBVIOUS
  <2>2. ASSUME NEW v \in Users, current'[v] # 0
        PROVE  current'[v] \in 1..Len(sessions') /\ sessions'[current'[v]] = v
    BY <1>2, <1>3, <2>1, <2>2 DEF RegistryInv, CurrentInv
  <2>3. ASSUME NEW v \in Users \ resigned
        PROVE  /\ \A i \in 1..Len(sessions') : sessions'[i] = v => i = current'[v]
               /\ v \in restoring' => current'[v] = 0 /\ v \in Saved
               /\ v \in logins' => current'[v] = 0 /\ v \notin Saved
    <3>1. CASE v = u
      <4>1. \A i \in 1..n : sessions[i] # u
        BY <1>2, <3>1 DEF RegistryInv, CurrentInv
      <4>2. QED BY <1>2, <1>3, <3>1, <4>1
    <3>2. CASE v # u
      BY <1>2, <1>3, <3>2 DEF RegistryInv, CurrentInv
    <3>3. QED BY <3>1, <3>2
  <2>4. QED BY <1>1, <2>2, <2>3 DEF CurrentInv
<1>6. OpeningInv'
  <2> SUFFICES ASSUME NEW v \in Users, NEW r \in Rooms, opening[v][r] # Idle
               PROVE  Opens(opening[v][r], v, r)'
    BY <1>1 DEF OpeningInv
  <2> DEFINE o == opening[v][r]
  <2>1. Opens(o, v, r)
    BY DEF RegistryInv, OpeningInv
  <2>2. v \notin resigned => v # u
    BY <1>2, <2>1 DEF Opens
  <2>3. QED BY <1>1, <1>2, <1>3, <2>1, <2>2 DEF Opens
<1>7. WorkspaceInv'
  BY <1>1, <1>2 DEF RegistryInv, WorkspaceInv, Placed
<1>8. QED BY <1>4, <1>5, <1>6, <1>7 DEF RegistryInv

\* A step that builds nothing and touches neither the workspaces nor the opens
\* keeps the invariant when it keeps CurrentInv.
LEMMA SessionStepKeeps ==
  ASSUME RegistryInv, UNCHANGED <<sessions, workspaces, registered, opening>>,
         restoring' \subseteq Users, logins' \subseteq Users,
         current' \in [Users -> Nat], resigned \subseteq resigned',
         \A u \in Users \ resigned' : current'[u] = current[u],
         CurrentInv'
  PROVE  RegistryInv'
<1>1. RegistryType'
  BY DEF RegistryInv, RegistryType
<1>2. OpeningInv'
  BY DEF RegistryInv, OpeningInv, Opens
<1>3. WorkspaceInv'
  BY DEF RegistryInv, WorkspaceInv, Placed
<1>4. QED BY <1>1, <1>2, <1>3 DEF RegistryInv

\* What a session step may do to an account that signed in once.
LEMMA SessionKeeps ==
  ASSUME RegistryInv, NEW u \in Users, Session(u)
  PROVE  RegistryInv'
<1> USE DEF RegistryInv
<1>1. CASE Restore(u)
  <2>1. CurrentInv'
    BY <1>1, StoredMeans DEF Restore, CurrentInv
  <2>2. QED BY <1>1, <2>1, SessionStepKeeps DEF Restore, RegistryType
<1>2. CASE Login(u)
  <2>1. CurrentInv'
    BY <1>2, StoredMeans DEF Login, CurrentInv
  <2>2. QED BY <1>2, <2>1, SessionStepKeeps DEF Login, RegistryType
<1>3. CASE Restored(u)
  <2>1. u \in resigned \/ (current[u] = 0 /\ u \notin logins)
    BY <1>3 DEF Restored, CurrentInv
  <2>2. QED BY <1>3, <2>1, InstallKeeps DEF Restored
<1>4. CASE LoggedIn(u)
  <2>1. u \in resigned \/ (current[u] = 0 /\ u \notin restoring)
    BY <1>4 DEF LoggedIn, CurrentInv
  <2>2. QED BY <1>4, <2>1, InstallKeeps DEF LoggedIn
<1>5. CASE CreateFails(u)
  <2>1. CurrentInv'
    BY <1>5 DEF CreateFails, CurrentInv
  <2>2. QED BY <1>5, <2>1, SessionStepKeeps DEF CreateFails, RegistryType
<1>6. CASE DestroySession(u)
  <2>1. \A v \in Users : current'[v] = IF v = u THEN 0 ELSE current[v]
    BY <1>6 DEF DestroySession, RegistryType
  <2>2. CurrentInv'
    BY <1>6, <2>1 DEF DestroySession, CurrentInv
  <2>3. current' \in [Users -> Nat]
    BY <1>6 DEF DestroySession, RegistryType
  <2>4. QED BY <1>6, <2>1, <2>2, <2>3, SessionStepKeeps DEF DestroySession, RegistryType
<1>7. QED BY <1>1, <1>2, <1>3, <1>4, <1>5, <1>6 DEF Session

-----------------------------------------------------------------------------
\* The numbers and rooms that the invariant lets appear.
LEMMA RegistryFacts ==
  ASSUME RegistryInv
  PROVE  /\ Len(sessions) \in Nat /\ DOMAIN sessions = 1..Len(sessions)
         /\ Len(workspaces) \in Nat /\ DOMAIN workspaces = 1..Len(workspaces)
         /\ \A s \in 1..Len(sessions) : s \in SessionIds /\ s # 0 /\ sessions[s] \in Users
         /\ \A w \in 1..Len(workspaces) :
              /\ w # 0 /\ workspaces[w] \in [session : SessionIds, room : Rooms]
              /\ workspaces[w].session \in 1..Len(sessions) /\ workspaces[w].room \in Rooms
         /\ Idle \in [session : Nat, ws : Nat]
<1>1. /\ Len(sessions) \in Nat /\ DOMAIN sessions = 1..Len(sessions) /\ Len(sessions) <= MaxSessions
      /\ Len(workspaces) \in Nat /\ DOMAIN workspaces = 1..Len(workspaces)
  BY DEF RegistryInv, RegistryType
<1>2. \A s \in 1..Len(sessions) : s \in SessionIds /\ s # 0 /\ sessions[s] \in Users
  BY <1>1, RegistryAssumption DEF RegistryInv, RegistryType, SessionIds
<1>3. \A w \in 1..Len(workspaces) : workspaces[w] \in [session : SessionIds, room : Rooms]
  <2> DEFINE S == [session : SessionIds, room : Rooms]
  <2>1. workspaces \in Seq(S)
    BY DEF RegistryInv, RegistryType
  <2> HIDE DEF S
  <2>2. \A w \in 1..Len(workspaces) : workspaces[w] \in S
    BY <2>1
  <2>3. QED BY <2>2 DEF S
<1>4. \A w \in 1..Len(workspaces) : workspaces[w].session \in 1..Len(sessions)
  BY DEF RegistryInv, WorkspaceInv
<1>5. \A w \in 1..Len(workspaces) : workspaces[w].room \in Rooms /\ w # 0
  BY <1>1, <1>3
<1>6. QED BY <1>1, <1>2, <1>3, <1>4, <1>5 DEF Idle

\* Replacing the open in flight for one account and room.
LEMMA OpeningAt ==
  ASSUME RegistryType, NEW u \in Users, NEW r \in Rooms, NEW o \in [session : Nat, ws : Nat],
         opening' = [opening EXCEPT ![u][r] = o]
  PROVE  /\ opening' \in [Users -> [Rooms -> [session : Nat, ws : Nat]]]
         /\ \A v \in Users, q \in Rooms :
              opening'[v][q] = IF v = u /\ q = r THEN o ELSE opening[v][q]
BY DEF RegistryType

\* An open that starts claims the place of its session, which is free
\* (openWorkspace's two joins).
LEMMA OpenWorkspaceKeeps ==
  ASSUME RegistryInv, NEW u \in Users, NEW r \in Rooms, OpenWorkspace(u, r)
  PROVE  RegistryInv'
<1> DEFINE o == [session |-> current[u], ws |-> 0]
<1>1. /\ current[u] # 0 /\ registered[current[u]][r] = 0 /\ opening[u][r] = Idle
      /\ opening' = [opening EXCEPT ![u][r] = o]
      /\ UNCHANGED <<sessions, current, restoring, logins, workspaces, registered, resigned>>
  BY DEF OpenWorkspace
<1>2. o \in [session : Nat, ws : Nat] /\ o.session = current[u] /\ o.ws = 0
  BY DEF RegistryInv, RegistryType
<1> HIDE DEF o
<1>3. /\ opening' \in [Users -> [Rooms -> [session : Nat, ws : Nat]]]
      /\ \A v \in Users, q \in Rooms :
           opening'[v][q] = IF v = u /\ q = r THEN o ELSE opening[v][q]
  BY <1>1, <1>2, OpeningAt DEF RegistryInv
<1>4. RegistryType' /\ CurrentInv'
  BY <1>1, <1>3 DEF RegistryInv, RegistryType, CurrentInv
<1>5. OpeningInv'
  <2>1. Opens(o, u, r)
    BY <1>1, <1>2 DEF RegistryInv, CurrentInv, Opens
  <2>2. QED BY <1>1, <1>3, <2>1 DEF RegistryInv, OpeningInv, Opens
<1>6. WorkspaceInv'
  <2> SUFFICES ASSUME NEW w \in 1..Len(workspaces)
               PROVE  Placed(w, workspaces[w].session, workspaces[w].room)'
    BY <1>1 DEF RegistryInv, WorkspaceInv
  <2>1. /\ workspaces[w].session \in 1..Len(sessions) /\ workspaces[w].room \in Rooms
        /\ sessions[workspaces[w].session] \in Users /\ w # 0
    BY RegistryFacts
  <2>2. Placed(w, workspaces[w].session, workspaces[w].room)
    BY DEF RegistryInv, WorkspaceInv
  <2>3. QED BY <1>1, <1>3, <2>1, <2>2 DEF Placed, Idle
<1>7. QED BY <1>4, <1>5, <1>6 DEF RegistryInv

\* The workspace an open creates is placed by that open.
LEMMA CreatedKeeps ==
  ASSUME RegistryInv, NEW u \in Users, NEW r \in Rooms, Created(u, r)
  PROVE  RegistryInv'
<1> PICK n \in Nat : n = Len(workspaces)
  BY DEF RegistryInv, RegistryType
<1> PICK s \in Nat : s = opening[u][r].session
  BY DEF RegistryInv, RegistryType
<1> DEFINE o == [session |-> s, ws |-> n + 1]
<1>1. /\ opening[u][r] # Idle /\ opening[u][r].ws = 0
      /\ workspaces' = Append(workspaces, [session |-> s, room |-> r])
      /\ opening' = [opening EXCEPT ![u][r].ws = n + 1]
      /\ UNCHANGED <<sessions, current, restoring, logins, registered, resigned>>
  BY DEF Created
<1>2. Opens(opening[u][r], u, r)
  BY <1>1 DEF RegistryInv, OpeningInv
<1>3. s \in Nat /\ s \in SessionIds /\ s \in 1..Len(sessions)
  BY <1>2, RegistryFacts DEF Opens
<1>4. /\ opening' \in [Users -> [Rooms -> [session : Nat, ws : Nat]]]
      /\ \A v \in Users, q \in Rooms :
           opening'[v][q] = IF v = u /\ q = r THEN o ELSE opening[v][q]
  <2>1. opening[u][r] \in [session : Nat, ws : Nat] /\ o \in [session : Nat, ws : Nat]
    BY DEF RegistryInv, RegistryType
  <2>2. opening' = [opening EXCEPT ![u][r] = o]
    <3>1. [opening[u][r] EXCEPT !.ws = n + 1] = o
      BY <2>1
    <3>2. opening' = [opening EXCEPT ![u] = [opening[u] EXCEPT ![r] = [opening[u][r] EXCEPT !.ws = n + 1]]]
      BY <1>1
    <3> HIDE DEF o
    <3>3. QED BY <3>1, <3>2
  <2> HIDE DEF o
  <2>3. QED BY <2>1, <2>2, OpeningAt DEF RegistryInv
<1>5. /\ workspaces' \in Seq([session : SessionIds, room : Rooms])
      /\ Len(workspaces') = n + 1 /\ workspaces'[n + 1] = [session |-> s, room |-> r]
      /\ \A w \in 1..n : workspaces'[w] = workspaces[w]
      /\ \A w \in 1..(n + 1) : w = n + 1 \/ w \in 1..n
      /\ \A w \in 1..n : w \in 1..(n + 1) /\ w # n + 1 /\ w # 0
  <2>1. [session |-> s, room |-> r] \in [session : SessionIds, room : Rooms]
    BY <1>3
  <2> DEFINE S == [session : SessionIds, room : Rooms]
             e == [session |-> s, room |-> r]
  <2>2. workspaces \in Seq(S) /\ e \in S /\ workspaces' = Append(workspaces, e)
    BY <1>1, <2>1 DEF RegistryInv, RegistryType
  <2> HIDE DEF S, e
  <2>3. /\ workspaces' \in Seq(S) /\ Len(workspaces') = n + 1 /\ workspaces'[n + 1] = e
        /\ \A w \in 1..n : workspaces'[w] = workspaces[w]
    BY <2>2
  <2>4. QED BY <2>3 DEF S, e
<1>6. o.session = s /\ o.ws = n + 1 /\ n + 1 # 0
  OBVIOUS
<1>7. RegistryType' /\ CurrentInv'
  BY <1>1, <1>4, <1>5 DEF RegistryInv, RegistryType, CurrentInv
<1> HIDE DEF o
<1>8. OpeningInv'
  <2>1. Opens(o, u, r)'
    BY <1>1, <1>2, <1>5, <1>6 DEF Opens
  <2>2. ASSUME NEW v \in Users, NEW q \in Rooms, opening[v][q] # Idle
        PROVE  Opens(opening[v][q], v, q) /\ (opening'[v][q] = opening[v][q]
                                               => Opens(opening[v][q], v, q)')
    BY <1>1, <1>5, <2>2 DEF RegistryInv, OpeningInv, Opens
  <2>3. ASSUME NEW v \in Users, NEW q \in Rooms, opening'[v][q] # Idle
        PROVE  Opens(opening[v][q], v, q)'
    <3>1. CASE v = u /\ q = r
      <4>1. opening'[v][q] = o
        BY <1>4, <3>1
      <4>2. QED BY <2>1, <3>1, <4>1 DEF Opens
    <3>2. CASE ~(v = u /\ q = r)
      <4>1. opening'[v][q] = opening[v][q]
        BY <1>4, <3>2
      <4>2. QED BY <2>2, <2>3, <4>1 DEF Opens
    <3>3. QED BY <3>1, <3>2
  <2>4. QED BY <2>3 DEF OpeningInv, Idle
<1>9. WorkspaceInv'
  <2>1. Placed(n + 1, s, r)'
    <3>1. sessions[s] = u
      BY <1>2 DEF Opens
    <3>2. QED BY <1>1, <1>4, <3>1 DEF Placed, o
  <2>2. ASSUME NEW w \in 1..n
        PROVE  /\ workspaces[w].session \in 1..Len(sessions)
               /\ Placed(w, workspaces[w].session, workspaces[w].room)'
    <3>1. /\ workspaces[w].session \in 1..Len(sessions) /\ workspaces[w].room \in Rooms
          /\ sessions[workspaces[w].session] \in Users
      BY RegistryFacts
    <3>2. Placed(w, workspaces[w].session, workspaces[w].room)
      BY DEF RegistryInv, WorkspaceInv
    <3>3. opening[u][r] # [session |-> workspaces[w].session, ws |-> w]
      BY <1>1, <1>5
    <3>4. QED BY <1>1, <1>4, <1>5, <3>1, <3>2, <3>3 DEF Placed
  <2>3. QED BY <1>1, <1>3, <1>5, <2>1, <2>2 DEF WorkspaceInv, Placed
<1>10. QED BY <1>7, <1>8, <1>9 DEF RegistryInv

\* An open that fails had no workspace to place.
LEMMA OpenFailsKeeps ==
  ASSUME RegistryInv, NEW u \in Users, NEW r \in Rooms, OpenFails(u, r)
  PROVE  RegistryInv'
<1>1. /\ opening[u][r].ws = 0
      /\ opening' = [opening EXCEPT ![u][r] = Idle]
      /\ UNCHANGED <<sessions, current, restoring, logins, workspaces, registered, resigned>>
  BY DEF OpenFails
<1>2. /\ opening' \in [Users -> [Rooms -> [session : Nat, ws : Nat]]]
      /\ \A v \in Users, q \in Rooms :
           opening'[v][q] = IF v = u /\ q = r THEN Idle ELSE opening[v][q]
  <2>1. RegistryType /\ Idle \in [session : Nat, ws : Nat]
    BY RegistryFacts DEF RegistryInv
  <2>2. QED BY <1>1, <2>1, OpeningAt
<1>3. RegistryType' /\ CurrentInv'
  BY <1>1, <1>2 DEF RegistryInv, RegistryType, CurrentInv
<1>4. OpeningInv'
  BY <1>1, <1>2 DEF RegistryInv, OpeningInv, Opens
<1>5. WorkspaceInv'
  <2> SUFFICES ASSUME NEW w \in 1..Len(workspaces)
               PROVE  Placed(w, workspaces[w].session, workspaces[w].room)'
    BY <1>1 DEF RegistryInv, WorkspaceInv
  <2>1. /\ workspaces[w].session \in 1..Len(sessions) /\ workspaces[w].room \in Rooms
        /\ sessions[workspaces[w].session] \in Users /\ w # 0
    BY RegistryFacts
  <2>2. Placed(w, workspaces[w].session, workspaces[w].room)
    BY DEF RegistryInv, WorkspaceInv
  <2>3. QED BY <1>1, <1>2, <2>1, <2>2 DEF Placed
<1>6. QED BY <1>3, <1>4, <1>5 DEF RegistryInv

\* An open that is answered moves its workspace from the open to the map.
LEMMA OpenedKeeps ==
  ASSUME RegistryInv, NEW u \in Users, NEW r \in Rooms, Opened(u, r)
  PROVE  /\ RegistryInv'
         /\ u \notin resigned => current[u] # 0 /\ registered'[current[u]][r] # 0
<1> DEFINE s == opening[u][r].session
           x == opening[u][r].ws
<1>1. /\ x # 0 /\ opening[u][r] # Idle
      /\ registered' = [registered EXCEPT ![s][r] = x]
      /\ opening' = [opening EXCEPT ![u][r] = Idle]
      /\ UNCHANGED <<sessions, current, restoring, logins, workspaces, resigned>>
  BY DEF Opened, Idle
<1>2. Opens(opening[u][r], u, r)
  BY <1>1 DEF RegistryInv, OpeningInv
<1>3. s \in SessionIds /\ s # 0 /\ x \in Nat
  BY <1>2, RegistryAssumption DEF Opens, RegistryInv, RegistryType, SessionIds
<1>4. /\ opening' \in [Users -> [Rooms -> [session : Nat, ws : Nat]]]
      /\ \A v \in Users, q \in Rooms :
           opening'[v][q] = IF v = u /\ q = r THEN Idle ELSE opening[v][q]
  <2>1. RegistryType /\ Idle \in [session : Nat, ws : Nat]
    BY RegistryFacts DEF RegistryInv
  <2>2. QED BY <1>1, <2>1, OpeningAt
<1>5. /\ registered' \in [SessionIds -> [Rooms -> Nat]]
      /\ \A t \in SessionIds, q \in Rooms :
           registered'[t][q] = IF t = s /\ q = r THEN x ELSE registered[t][q]
  BY <1>1, <1>3 DEF RegistryInv, RegistryType
<1>6. RegistryType' /\ CurrentInv'
  BY <1>1, <1>4, <1>5 DEF RegistryInv, RegistryType, CurrentInv
<1>7. OpeningInv'
  <2> SUFFICES ASSUME NEW v \in Users, NEW q \in Rooms, opening'[v][q] # Idle
               PROVE  Opens(opening[v][q], v, q)'
    BY DEF OpeningInv, Idle
  <2>1. ~(v = u /\ q = r) /\ opening'[v][q] = opening[v][q]
    BY <1>4
  <2>2. Opens(opening[v][q], v, q)
    BY <2>1 DEF RegistryInv, OpeningInv
  <2>3. ~(opening[v][q].session = s /\ q = r) /\ opening[v][q].session \in SessionIds
    <3>1. opening[v][q].session = s /\ q = r => v = u
      BY <1>2, <2>2 DEF Opens
    <3>2. QED BY <2>1, <2>2, <3>1, RegistryFacts DEF Opens
  <2>4. QED BY <1>1, <1>5, <2>1, <2>2, <2>3 DEF Opens
<1>8. WorkspaceInv'
  <2> SUFFICES ASSUME NEW w \in 1..Len(workspaces)
               PROVE  Placed(w, workspaces[w].session, workspaces[w].room)'
    BY <1>1 DEF RegistryInv, WorkspaceInv
  <2> DEFINE t == workspaces[w].session
             q == workspaces[w].room
  <2>1. /\ t \in 1..Len(sessions) /\ q \in Rooms /\ t \in SessionIds
        /\ sessions[t] \in Users /\ w # 0
    BY RegistryFacts
  <2>2. Placed(w, t, q)
    BY DEF RegistryInv, WorkspaceInv
  <2>3. CASE opening[sessions[t]][q] = [session |-> t, ws |-> w]
    <3>1. CASE sessions[t] = u /\ q = r
      <4>1. t = s /\ w = x
        BY <2>3, <3>1
      <4>2. registered'[t][q] = w
        BY <1>5, <2>1, <3>1, <4>1
      <4>3. QED BY <1>1, <4>2 DEF Placed
    <3>2. CASE ~(sessions[t] = u /\ q = r)
      BY <1>1, <1>4, <2>1, <2>3, <3>2 DEF Placed
    <3>3. QED BY <3>1, <3>2
  <2>4. CASE registered[t][q] = w
    <3>1. ~(t = s /\ q = r)
      BY <1>2, <2>1, <2>4 DEF Opens
    <3>2. QED BY <1>1, <1>5, <2>1, <2>4, <3>1 DEF Placed
  <2>5. QED BY <2>2, <2>3, <2>4 DEF Placed
<1>9. u \notin resigned => current[u] # 0 /\ registered'[current[u]][r] # 0
  BY <1>1, <1>2, <1>3, <1>5 DEF Opens
<1>10. QED BY <1>6, <1>7, <1>8, <1>9 DEF RegistryInv

-----------------------------------------------------------------------------
\* The registry's four invariants hold in every reachable state.
THEOREM RegistryConsistent == RegistrySpec => []RegistryInv
<1>1. RegistryInit => RegistryInv
  <2> SUFFICES ASSUME RegistryInit PROVE RegistryInv
    OBVIOUS
  <2>1. Len(sessions) = 0 /\ Len(workspaces) = 0 /\ sessions \in Seq(Users)
        /\ workspaces \in Seq([session : SessionIds, room : Rooms])
    BY DEF RegistryInit
  <2>2. RegistryType
    BY <2>1, RegistryAssumption DEF RegistryInit, RegistryType, Idle
  <2>3. CurrentInv
    BY <2>1 DEF RegistryInit, CurrentInv
  <2>4. OpeningInv /\ WorkspaceInv
    BY <2>1 DEF RegistryInit, OpeningInv, WorkspaceInv
  <2>5. QED BY <2>2, <2>3, <2>4 DEF RegistryInv
<1>2. RegistryInv /\ [RegistryNext]_registryVars => RegistryInv'
  <2> SUFFICES ASSUME RegistryInv, [RegistryNext]_registryVars PROVE RegistryInv'
    OBVIOUS
  <2>1. ASSUME NEW u \in Users, Session(u) PROVE RegistryInv'
    BY <2>1, SessionKeeps
  <2>2. ASSUME NEW u \in Users, NEW r \in Rooms, OpenWorkspace(u, r) PROVE RegistryInv'
    BY <2>2, OpenWorkspaceKeeps
  <2>3. ASSUME NEW u \in Users, NEW r \in Rooms, Created(u, r) PROVE RegistryInv'
    BY <2>3, CreatedKeeps
  <2>4. ASSUME NEW u \in Users, NEW r \in Rooms, OpenFails(u, r) PROVE RegistryInv'
    BY <2>4, OpenFailsKeeps
  <2>5. ASSUME NEW u \in Users, NEW r \in Rooms, Opened(u, r) PROVE RegistryInv'
    BY <2>5, OpenedKeeps
  <2>6. CASE UNCHANGED registryVars
    <3>1. RegistryType' /\ CurrentInv'
      BY <2>6 DEF registryVars, RegistryInv, RegistryType, CurrentInv
    <3>2. OpeningInv' /\ WorkspaceInv'
      BY <2>6 DEF registryVars, RegistryInv, OpeningInv, Opens, WorkspaceInv, Placed
    <3>3. QED BY <3>1, <3>2 DEF RegistryInv
  <2>7. QED BY <2>1, <2>2, <2>3, <2>4, <2>5, <2>6 DEF RegistryNext
<1>3. QED BY <1>1, <1>2, PTL DEF RegistrySpec

\* However the requests of the tabs interleave, an account that signed in once
\* has at most one MatrixSession, one being built included (createSession's join
\* of a build in flight; dispatch.ts, invariant 1).
THEOREM OneSession == RegistrySpec => []OneSessionPerAccount
<1>1. RegistryInv => OneSessionPerAccount
  <2> SUFFICES ASSUME RegistryInv, NEW u \in Users \ resigned
               PROVE  Cardinality(Sessions(u)) + Cardinality({u} \intersect restoring) <= 1
    BY DEF OneSessionPerAccount
  <2>1. DOMAIN sessions = 1..Len(sessions) /\ 0 \notin 1..Len(sessions)
    BY DEF RegistryInv, RegistryType
  <2>2. Sessions(u) \subseteq {current[u]}
    BY <2>1 DEF RegistryInv, CurrentInv, Sessions
  <2>3. Cardinality({}) = 0 /\ Cardinality({u}) = 1 /\ Cardinality({current[u]}) = 1
    BY FS_EmptySet, FS_Singleton
  <2>4. CASE u \in restoring
    <3>1. Sessions(u) = {} /\ {u} \intersect restoring = {u}
      BY <2>1, <2>2, <2>4 DEF RegistryInv, CurrentInv, Sessions
    <3>2. QED BY <2>3, <3>1
  <2>5. CASE u \notin restoring
    <3>1. /\ {u} \intersect restoring = {}
          /\ Sessions(u) = {} \/ Sessions(u) = {current[u]}
      BY <2>2, <2>5
    <3>2. QED BY <2>3, <3>1
  <2>6. QED BY <2>4, <2>5
<1>2. QED BY <1>1, RegistryConsistent, PTL

\* However many tabs open a room at once, a session runs one ConnectedWorkspace
\* for it (openWorkspace's joins; dispatch.ts, invariant 2 within an account).
THEOREM OneWorkspace == RegistrySpec => []OneWorkspacePerSession
<1>1. RegistryInv => OneWorkspacePerSession
  <2> SUFFICES ASSUME RegistryInv, NEW r \in Rooms,
                      NEW v \in Running(r), NEW w \in Running(r),
                      workspaces[v].session = workspaces[w].session
               PROVE  v = w
    BY DEF OneWorkspacePerSession
  <2> DEFINE s == workspaces[v].session
  <2>1. /\ v \in 1..Len(workspaces) /\ w \in 1..Len(workspaces) /\ v # 0 /\ w # 0
        /\ workspaces[v].room = r /\ workspaces[w].room = r
    BY RegistryFacts DEF Running
  <2>2. s \in 1..Len(sessions) /\ s # 0 /\ sessions[s] \in Users
    BY <2>1, RegistryFacts
  <2>3. Placed(v, s, r) /\ Placed(w, s, r)
    BY <2>1 DEF RegistryInv, WorkspaceInv
  <2>4. CASE registered[s][r] = v /\ registered[s][r] = w
    BY <2>4
  <2>5. CASE opening[sessions[s]][r] = [session |-> s, ws |-> v]
             \/ opening[sessions[s]][r] = [session |-> s, ws |-> w]
    <3>1. opening[sessions[s]][r] # Idle /\ opening[sessions[s]][r].session = s
      BY <2>2, <2>5 DEF Idle
    <3>2. Opens(opening[sessions[s]][r], sessions[s], r)
      BY <2>2, <3>1 DEF RegistryInv, OpeningInv
    <3>3. registered[s][r] = 0
      BY <3>1, <3>2 DEF Opens
    <3>4. QED BY <2>1, <2>3, <3>3 DEF Placed
  <2>6. QED BY <2>3, <2>4, <2>5 DEF Placed
<1>2. QED BY <1>1, RegistryConsistent, PTL

\* When an open is answered, the handle resolves to a workspace of the account's
\* present session: registration comes last, and nothing but a new sign-in or a
\* sign-out replaces the session meanwhile (openWorkspace).
THEOREM OpenedWorks == RegistrySpec => OpenedIsUsable
<1>1. RegistryInv /\ [RegistryNext]_registryVars =>
        [\A u \in Users \ resigned, r \in Rooms :
           Opened(u, r) => current[u] # 0 /\ registered'[current[u]][r] # 0]_registryVars
  BY OpenedKeeps
<1>2. QED BY <1>1, RegistryConsistent, PTL DEF RegistrySpec, OpenedIsUsable
=============================================================================
