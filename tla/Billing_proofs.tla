--------------------------- MODULE Billing_proofs ---------------------------
(***************************************************************************)
(* What the billing Worker guarantees for every set of accounts and every  *)
(* number of subscriptions, webhook handlers and lapses, in each of the    *)
(* surroundings its three safety properties speak of.                      *)
(*                                                                         *)
(* Each property needs what the Worker's invocations hold between their    *)
(* awaits: what the sweep read (SparedInv), what /delete-account still has *)
(* to cancel (UnbilledInv), and what the last delivery under way will do   *)
(* to an account's lock (AccessInv).                                       *)
(***************************************************************************)
EXTENDS Billing, SequenceTheorems, TLAPS

\* What the variables range over.
Status  == {"none", "active", "past_due", "canceled"}
Account == [age : 0..2, locked : BOOLEAN, gone : BOOLEAN, linked : BOOLEAN]
Event   == [id : Subs, status : Status]
Hook    == [user : Users, lock : BOOLEAN, locked : BOOLEAN]
Sweep   == [step : {"idle", "index", "lock"}, overdue : SUBSET Users, deletable : SUBSET Users,
            paying : SUBSET Users, everPaid : SUBSET Users, complete : BOOLEAN]
Deletion == [step : {"idle", "cancel", "unlink", "deactivate"}, ids : SUBSET Subs]

\* The types.
BillingType ==
  /\ mas \in [Users -> Account]
  /\ subs \in [Subs -> [user : Users, status : Status]]
  /\ found \in [Subs -> Status]
  /\ events \in Seq(Event)
  /\ hooks \subseteq Hook
  /\ pages \subseteq Users \X {"redirected", "locked", "open"}
  /\ sweep \in Sweep
  /\ del \in [Users -> Deletion]
  /\ erasedBy \in [Users -> {"none", "sweep", "owner"}]

\* Editing one account.
LEMMA AccountEdits ==
  ASSUME NEW m \in [Users -> Account], NEW u \in Users
  PROVE  /\ \A b \in BOOLEAN :
              LET n == [m EXCEPT ![u].locked = b] IN
              /\ n \in [Users -> Account]
              /\ \A v \in Users : /\ n[v].locked = IF v = u THEN b ELSE m[v].locked
                                  /\ n[v].gone = m[v].gone
         /\ \A b \in BOOLEAN :
              LET n == [m EXCEPT ![u].linked = b] IN
              /\ n \in [Users -> Account]
              /\ \A v \in Users : n[v].locked = m[v].locked /\ n[v].gone = m[v].gone
         /\ LET n == [m EXCEPT ![u].gone = TRUE] IN
              /\ n \in [Users -> Account]
              /\ \A v \in Users : /\ n[v].gone = IF v = u THEN TRUE ELSE m[v].gone
                                  /\ n[v].locked = m[v].locked
         /\ m[u].age < 2 =>
              LET n == [m EXCEPT ![u].age = @ + 1] IN
              /\ n \in [Users -> Account]
              /\ \A v \in Users : n[v].locked = m[v].locked /\ n[v].gone = m[v].gone
<1> DEFINE a == m[u]
<1>1. a \in Account /\ \A v \in Users : m[v] \in Account
  OBVIOUS
<1>2. \A b \in BOOLEAN : /\ [a EXCEPT !.locked = b] \in Account
                         /\ [a EXCEPT !.linked = b] \in Account
                         /\ [a EXCEPT !.gone = b] \in Account
  BY DEF Account
<1>3. a.age < 2 => [a EXCEPT !.age = @ + 1] \in Account
  BY DEF Account
<1>4. /\ \A b \in BOOLEAN : [a EXCEPT !.locked = b].locked = b /\ [a EXCEPT !.locked = b].gone = a.gone
      /\ \A b \in BOOLEAN : /\ [a EXCEPT !.linked = b].locked = a.locked
                            /\ [a EXCEPT !.linked = b].gone = a.gone
      /\ [a EXCEPT !.gone = TRUE].gone = TRUE /\ [a EXCEPT !.gone = TRUE].locked = a.locked
      /\ [a EXCEPT !.age = @ + 1].locked = a.locked /\ [a EXCEPT !.age = @ + 1].gone = a.gone
  BY <1>1 DEF Account
<1>5. QED BY <1>1, <1>2, <1>3, <1>4

\* What changing a subscription's status does: to Stripe, to its events, and to
\* the search index unless that lags.
LEMMA ChangedEffect ==
  ASSUME BillingType, NEW i \in Subs, NEW st \in Status, Changed(i, st)
  PROVE  /\ subs' \in [Subs -> [user : Users, status : Status]] /\ found' \in [Subs -> Status]
         /\ \A j \in Subs : /\ subs'[j].user = subs[j].user
                            /\ subs'[j].status = IF j = i THEN st ELSE subs[j].status
         /\ events' \in Seq(Event) /\ events' = Append(events, [id |-> i, status |-> st])
         /\ \A j \in Subs : found'[j] = IF j = i /\ "lag" \notin faults THEN st ELSE found[j]
<1>1. /\ subs' = [subs EXCEPT ![i].status = st]
      /\ events' = Append(events, [id |-> i, status |-> st])
      /\ found' = IF "lag" \in faults THEN found ELSE [found EXCEPT ![i] = st]
  BY DEF Changed
<1>2. subs' \in [Subs -> [user : Users, status : Status]]
  BY <1>1 DEF BillingType
<1>3. \A j \in Subs : /\ subs'[j].user = subs[j].user
                      /\ subs'[j].status = IF j = i THEN st ELSE subs[j].status
  BY <1>1 DEF BillingType
<1>4. [id |-> i, status |-> st] \in Event
  BY DEF Event
<1>5. events' \in Seq(Event)
  BY <1>1, <1>4 DEF BillingType
<1>6. QED BY <1>1, <1>2, <1>3, <1>5 DEF BillingType

\* Deletions in progress, taken to another step.
LEMMA DeletionEdits ==
  ASSUME NEW d \in [Users -> Deletion], NEW u \in Users
  PROVE  /\ NoDel \in Deletion /\ NoDel.step = "idle"
         /\ \A st \in {"idle", "cancel", "unlink", "deactivate"} :
              LET e == [d EXCEPT ![u].step = st] IN
              /\ e \in [Users -> Deletion]
              /\ \A v \in Users : /\ e[v].step = IF v = u THEN st ELSE d[v].step
                                  /\ e[v].ids = d[v].ids
<1>1. /\ d[u] \in Deletion /\ \A v \in Users : d[v] \in Deletion
      /\ NoDel \in Deletion /\ NoDel.step = "idle"
  BY DEF NoDel, Deletion
<1>2. \A st \in {"idle", "cancel", "unlink", "deactivate"} :
        /\ [d[u] EXCEPT !.step = st] \in Deletion
        /\ [d[u] EXCEPT !.step = st].step = st /\ [d[u] EXCEPT !.step = st].ids = d[u].ids
  BY <1>1 DEF Deletion
<1>3. QED BY <1>1, <1>2

\* One subscription fewer to cancel.
LEMMA DeletionShrinks ==
  ASSUME BillingType, NEW u \in Users, NEW i, del' = [del EXCEPT ![u].ids = @ \ {i}]
  PROVE  /\ del' \in [Users -> Deletion]
         /\ \A v \in Users : /\ del'[v].step = del[v].step
                             /\ del'[v].ids = IF v = u THEN del[v].ids \ {i} ELSE del[v].ids
<1> DEFINE x == [del[u] EXCEPT !.ids = @ \ {i}]
<1>1. del[u] \in Deletion
  BY DEF BillingType
<1>2. x \in Deletion /\ x.step = del[u].step /\ x.ids = del[u].ids \ {i}
  BY <1>1 DEF Deletion
<1>3. del' = [del EXCEPT ![u] = x]
  OBVIOUS
<1> HIDE DEF x
<1>4. del' \in [Users -> Deletion] /\ \A v \in Users : del'[v] = IF v = u THEN x ELSE del[v]
  BY <1>2, <1>3 DEF BillingType
<1>5. QED BY <1>2, <1>4

\* Dropping one event from the queue.
LEMMA DropEvent ==
  ASSUME NEW S, NEW t \in Seq(S), NEW k \in 1..Len(t)
  PROVE  SubSeq(t, 1, k - 1) \o SubSeq(t, k + 1, Len(t)) \in Seq(S)
<1>1. Len(t) \in Nat /\ k \in Nat /\ \A i \in 1..Len(t) : t[i] \in S
  BY LenProperties, ElementOfSeq
<1>2. SubSeq(t, 1, k - 1) \in Seq(S) /\ SubSeq(t, k + 1, Len(t)) \in Seq(S)
  BY <1>1, SubSeqProperties
<1>3. QED BY <1>2, ConcatProperties

\* Every handler, cron step and customer keeps the types.
LEMMA TypeStep ==
  ASSUME BillingType, [Next]_vars
  PROVE  BillingType'
<1> USE DEF BillingType
<1>2. CASE Sweeping
  <2>1. CASE SweepLists
    <3>1. sweep' \in Sweep
      BY <2>1 DEF SweepLists, Sweep, Idle
    <3>2. QED BY <2>1, <3>1 DEF SweepLists
  <2>2. CASE SubscriptionIndex
    <3> DEFINE P(S) == {u \in Users : \E i \in S \cap SubsOf(u) : InGoodStanding(subs[i].status)}
               E(S) == {u \in Users : S \cap SubsOf(u) # {}}
    <3>1. PICK S : sweep' = [sweep EXCEPT !.step = "lock", !.paying = P(S), !.everPaid = E(S),
                                          !.complete = S = Subs]
      BY <2>2 DEF SubscriptionIndex
    <3>2. P(S) \in SUBSET Users /\ E(S) \in SUBSET Users /\ (S = Subs) \in BOOLEAN
      OBVIOUS
    <3> HIDE DEF P, E
    <3>3. sweep' \in Sweep
      BY <3>1, <3>2 DEF Sweep
    <3>4. QED BY <2>2, <3>3 DEF SubscriptionIndex
  <2>3. CASE SweepEnds
    BY <2>3 DEF SweepEnds, Sweep, Idle
  <2>4. ASSUME NEW u \in Users, SweepLocks(u) PROVE BillingType'
    <3>1. sweep' \in Sweep
      BY <2>4 DEF SweepLocks, Sweep
    <3>2. mas' \in [Users -> Account]
      BY <2>4, AccountEdits DEF SweepLocks, SetLock
    <3>3. QED BY <2>4, <3>1, <3>2 DEF SweepLocks
  <2>5. ASSUME NEW u \in Users, SweepDeletes(u) PROVE BillingType'
    <3>1. sweep' \in Sweep
      BY <2>5 DEF SweepDeletes, Sweep
    <3>2. mas' \in [Users -> Account]
      BY <2>5, AccountEdits DEF SweepDeletes
    <3>3. erasedBy' \in [Users -> {"none", "sweep", "owner"}]
      BY <2>5 DEF SweepDeletes
    <3>4. QED BY <2>5, <3>1, <3>2, <3>3 DEF SweepDeletes
  <2>6. QED BY <1>2, <2>1, <2>2, <2>3, <2>4, <2>5 DEF Sweeping
<1>3. CASE Handling
  <2>1. ASSUME NEW k \in 1..Len(events), Webhook(k) PROVE BillingType'
    <3>1. events[k] \in Event
      BY ElementOfSeq
    <3>2. /\ events[k].id \in Subs /\ subs[events[k].id].user \in Users
          /\ mas[subs[events[k].id].user].locked \in BOOLEAN
          /\ (~InGoodStanding(events[k].status)) \in BOOLEAN
      BY <3>1 DEF Event, Account, InGoodStanding
    <3>3. hooks' \subseteq Hook
      <4> DEFINE h == [user |-> subs[events[k].id].user,
                       lock |-> ~InGoodStanding(events[k].status),
                       locked |-> mas[subs[events[k].id].user].locked]
      <4>1. hooks' = hooks \cup {h}
        BY <2>1 DEF Webhook
      <4>2. h \in Hook
        BY <3>2 DEF Hook
      <4>3. QED BY <4>1, <4>2
    <3>4. events' \in Seq(Event)
      <4> DEFINE rest == SubSeq(events, 1, k - 1) \o SubSeq(events, k + 1, Len(events))
      <4>1. events' = rest \/ events' = events
        BY <2>1 DEF Webhook
      <4>2. rest \in Seq(Event)
        BY DropEvent
      <4> HIDE DEF rest
      <4>3. QED BY <4>1, <4>2
    <3>5. QED BY <2>1, <3>3, <3>4 DEF Webhook
  <2>2. ASSUME NEW h \in hooks, WebhookSets(h) PROVE BillingType'
    <3>1. h.user \in Users /\ h.lock \in BOOLEAN
      BY DEF Hook
    <3>2. mas' \in [Users -> Account]
      BY <2>2, <3>1, AccountEdits DEF WebhookSets, SetLock
    <3>3. QED BY <2>2, <3>2 DEF WebhookSets
  <2>3. ASSUME NEW p \in pages, SuccessLooksUp(p) \/ Success(p) PROVE BillingType'
    <3>1. p[1] \in Users
      OBVIOUS
    <3>2. CASE SuccessLooksUp(p)
      BY <3>1, <3>2 DEF SuccessLooksUp
    <3>3. CASE Success(p)
      <4>1. mas' \in [Users -> Account]
        BY <3>1, <3>3, AccountEdits DEF Success, SetLock
      <4>2. QED BY <3>3, <4>1 DEF Success
    <3>4. QED BY <2>3, <3>2, <3>3
  <2>4. QED BY <1>3, <2>1, <2>2, <2>3 DEF Handling
<1>4. CASE SweepFails
  BY <1>4 DEF SweepFails, Sweep, Idle
<1>5. CASE SearchCatchesUp
  <2>1. found' \in [Subs -> Status]
    BY <1>5 DEF SearchCatchesUp
  <2>2. QED BY <1>5, <2>1 DEF SearchCatchesUp
<1>6. ASSUME NEW u \in Users, Age(u) PROVE BillingType'
  <2>1. mas' \in [Users -> Account]
    BY <1>6, AccountEdits DEF Age
  <2>2. QED BY <1>6, <2>1 DEF Age
<1>7. ASSUME NEW u \in Users, NEW i \in Subs, Checkout(u, i) PROVE BillingType'
  <2>1. pages' \subseteq Users \X {"redirected", "locked", "open"}
    BY <1>7 DEF Checkout
  <2>2. Changed(i, "active") /\ "active" \in Status
    BY <1>7 DEF Checkout, Status
  <2>3. QED BY <1>7, <2>1, <2>2, ChangedEffect DEF Checkout
<1>8. ASSUME NEW u \in Users, NEW i \in Subs, Portal(u, i) PROVE BillingType'
  <2>1. Changed(i, "canceled") /\ "canceled" \in Status
    BY <1>8 DEF Portal, Status
  <2>2. QED BY <1>8, <2>1, ChangedEffect DEF Portal
<1>9. ASSUME NEW u \in Users, DeleteAccount(u) PROVE BillingType'
  BY <1>9 DEF DeleteAccount, Deletion
<1>10. ASSUME NEW u \in Users, CancelSubscriptions(u) PROVE BillingType'
  <2>1. UNCHANGED <<mas, hooks, pages, sweep, erasedBy>>
    BY <1>10 DEF CancelSubscriptions
  <2>2. CASE del' = [del EXCEPT ![u].step = "unlink"] /\ UNCHANGED <<subs, events, found>>
    BY <2>1, <2>2, DeletionEdits
  <2>3. ASSUME NEW i \in del[u].ids, del' = [del EXCEPT ![u].ids = @ \ {i}],
               Changed(i, "canceled") \/ UNCHANGED <<subs, events, found>>
        PROVE  BillingType'
    <3>1. i \in Subs /\ "canceled" \in Status
      BY DEF Deletion, Status
    <3>2. del' \in [Users -> Deletion]
      BY <2>3, DeletionShrinks
    <3>3. QED BY <2>1, <2>3, <3>1, <3>2, ChangedEffect
  <2>4. QED BY <1>10, <2>2, <2>3 DEF CancelSubscriptions
<1>11. ASSUME NEW u \in Users, UnlinkUpstream(u) PROVE BillingType'
  <2>1. del' \in [Users -> Deletion]
    BY <1>11, DeletionEdits DEF UnlinkUpstream
  <2>2. PICK l \in BOOLEAN : mas' = [mas EXCEPT ![u].linked = @ /\ l]
    BY <1>11 DEF UnlinkUpstream
  <2>3. (mas[u].linked /\ l) \in BOOLEAN
    OBVIOUS
  <2>4. mas' \in [Users -> Account]
    BY <2>2, <2>3, AccountEdits
  <2>5. QED BY <1>11, <2>1, <2>4 DEF UnlinkUpstream
<1>12. ASSUME NEW u \in Users, Deactivate(u) PROVE BillingType'
  <2>1. del' \in [Users -> Deletion]
    BY <1>12, DeletionEdits DEF Deactivate
  <2>2. mas' \in [Users -> Account]
    BY <1>12, AccountEdits DEF Deactivate
  <2>3. erasedBy' \in [Users -> {"none", "sweep", "owner"}]
    BY <1>12 DEF Deactivate
  <2>4. QED BY <1>12, <2>1, <2>2, <2>3 DEF Deactivate
<1>13. ASSUME NEW u \in Users, DeleteFails(u) PROVE BillingType'
  BY <1>13, DeletionEdits DEF DeleteFails
<1>14. ASSUME NEW i \in Subs, Renewal(i) PROVE BillingType'
  <2>1. PICK st \in Status : Changed(i, st)
    BY <1>14 DEF Renewal, Status
  <2>2. QED BY <1>14, <2>1, ChangedEffect DEF Renewal
<1>15. ASSUME NEW p \in pages, SuccessFails(p) PROVE BillingType'
  BY <1>15 DEF SuccessFails
<1>16. CASE UNCHANGED vars
  BY <1>16 DEF vars
<1>17. QED
  BY <1>2, <1>3, <1>4, <1>5, <1>6, <1>7, <1>8, <1>9, <1>10, <1>11, <1>12, <1>13,
     <1>14, <1>15, <1>16 DEF Next

-----------------------------------------------------------------------------
\* What the search finds, and what a deletion goes on to cancel, are
\* subscriptions that exist, the latter of the account to delete.
SearchInv ==
  /\ \A i \in Subs : found[i] # "none" => subs[i].status # "none"
  /\ \A u \in Users : \A i \in del[u].ids : subs[i].user = u /\ subs[i].status # "none"

\* A live subscription moves to another status, by a renewal, at the portal or
\* by a deletion; nothing of an account or of the Worker changes but the list of
\* a deletion.
Moves(i, st) ==
  /\ subs[i].status \in {"active", "past_due"} /\ st # subs[i].status
  /\ st = "active" => MayPay
  /\ Changed(i, st)
  /\ UNCHANGED <<mas, hooks, pages, sweep, erasedBy>>
  /\ \A u \in Users : /\ del'[u].step = del[u].step
                       /\ \/ del'[u].ids = del[u].ids
                          \/ (st = "canceled" /\ del'[u].ids = del[u].ids \ {i})

\* A subscription is created by a checkout; every other change of one is a move.
LEMMA StripeStep ==
  ASSUME BillingType, SearchInv, [Next]_vars
  PROVE  \/ subs' = subs
         \/ \E u \in Users, i \in Subs : Checkout(u, i)
         \/ \E i \in Subs : \E st \in {"active", "past_due", "canceled"} : Moves(i, st)
<1>1. CASE Sweeping \/ SweepFails \/ SearchCatchesUp
  BY <1>1 DEF Sweeping, SweepLists, SubscriptionIndex, SweepEnds, SweepLocks, SweepDeletes,
              SweepFails, SearchCatchesUp
<1>2. CASE Handling \/ \E p \in pages : SuccessFails(p)
  BY <1>2 DEF Handling, Webhook, WebhookSets, SuccessLooksUp, Success, SuccessFails
<1>3. ASSUME NEW u \in Users,
             Age(u) \/ DeleteAccount(u) \/ UnlinkUpstream(u) \/ Deactivate(u) \/ DeleteFails(u)
      PROVE  subs' = subs
  BY <1>3 DEF Age, DeleteAccount, UnlinkUpstream, Deactivate, DeleteFails
<1>4. ASSUME NEW u \in Users, NEW i \in Subs, Portal(u, i)
      PROVE  Moves(i, "canceled")
  BY <1>4 DEF Portal, Moves
<1>5. ASSUME NEW i \in Subs, Renewal(i)
      PROVE  \E st \in {"active", "past_due", "canceled"} : Moves(i, st)
  <2>1. UNCHANGED <<mas, hooks, pages, sweep, del, erasedBy>>
    BY <1>5 DEF Renewal
  <2>2. CASE subs[i].status = "active" /\ Changed(i, "past_due")
    BY <2>1, <2>2 DEF Moves
  <2>3. CASE subs[i].status = "past_due" /\ MayPay /\ Changed(i, "active")
    BY <2>1, <2>3 DEF Moves
  <2>4. CASE subs[i].status = "past_due" /\ Changed(i, "canceled")
    BY <2>1, <2>4 DEF Moves
  <2>5. QED BY <1>5, <2>2, <2>3, <2>4 DEF Renewal
<1>6. ASSUME NEW u \in Users, CancelSubscriptions(u)
      PROVE  subs' = subs \/ \E i \in Subs : Moves(i, "canceled")
  <2>1. ASSUME NEW i \in del[u].ids, del' = [del EXCEPT ![u].ids = @ \ {i}],
               subs[i].status # "canceled", Changed(i, "canceled"),
               UNCHANGED <<mas, hooks, pages, sweep, erasedBy>>
        PROVE  i \in Subs /\ Moves(i, "canceled")
    <3>1. i \in Subs /\ subs[i].status \in {"active", "past_due"}
      BY <2>1 DEF BillingType, Deletion, Status, SearchInv
    <3>2. \A v \in Users : /\ del'[v].step = del[v].step
                           /\ del'[v].ids = IF v = u THEN del[v].ids \ {i} ELSE del[v].ids
      BY <2>1, DeletionShrinks
    <3>3. QED BY <2>1, <3>1, <3>2 DEF Moves
  <2>2. \/ subs' = subs
        \/ \E i \in del[u].ids : /\ del' = [del EXCEPT ![u].ids = @ \ {i}]
                                 /\ subs[i].status # "canceled" /\ Changed(i, "canceled")
                                 /\ UNCHANGED <<mas, hooks, pages, sweep, erasedBy>>
    BY <1>6 DEF CancelSubscriptions
  <2>3. QED BY <2>1, <2>2
<1>7. CASE UNCHANGED vars
  BY <1>7 DEF vars
<1>8. QED BY <1>1, <1>2, <1>3, <1>4, <1>5, <1>6, <1>7 DEF Next

\* What each kind of change leaves of a subscription.
LEMMA StripeEffect ==
  ASSUME BillingType, SearchInv, [Next]_vars, NEW j \in Subs
  PROVE  subs'[j].user = subs[j].user /\ (subs'[j].status = "none" => subs[j].status = "none")
<1>1. ASSUME NEW u \in Users, NEW i \in Subs, Checkout(u, i)
      PROVE  subs'[j].user = subs[j].user /\ (subs'[j].status = "none" => subs[j].status = "none")
  <2>1. Changed(i, "active") /\ "active" \in Status
    BY <1>1 DEF Checkout, Status
  <2>2. QED BY <2>1, ChangedEffect
<1>2. ASSUME NEW i \in Subs, NEW st \in {"active", "past_due", "canceled"}, Moves(i, st)
      PROVE  subs'[j].user = subs[j].user /\ (subs'[j].status = "none" => subs[j].status = "none")
  BY <1>2, ChangedEffect DEF Moves, Status
<1>3. QED BY <1>1, <1>2, StripeStep

\* The search and the deletions stay within the subscriptions that exist.
LEMMA SearchStep ==
  ASSUME BillingType, BillingType', SearchInv, [Next]_vars
  PROVE  SearchInv'
<1>1. \A j \in Subs : subs'[j].user = subs[j].user
                      /\ (subs'[j].status = "none" => subs[j].status = "none")
  BY StripeEffect
<1>2. \A u \in Users : del[u].ids \subseteq Subs
  BY DEF BillingType, Deletion
<1>3. ASSUME found' = found, \A u \in Users : del'[u].ids \subseteq del[u].ids
      PROVE  SearchInv'
  BY <1>1, <1>2, <1>3 DEF SearchInv
<1>4. CASE Sweeping \/ SweepFails
  BY <1>3, <1>4 DEF Sweeping, SweepLists, SubscriptionIndex, SweepEnds, SweepLocks, SweepDeletes,
                    SweepFails
<1>5. CASE Handling \/ \E p \in pages : SuccessFails(p)
  BY <1>3, <1>5 DEF Handling, Webhook, WebhookSets, SuccessLooksUp, Success, SuccessFails
<1>6. CASE SearchCatchesUp
  BY <1>1, <1>2, <1>6 DEF SearchCatchesUp, SearchInv
<1>7. ASSUME NEW u \in Users, Age(u) PROVE SearchInv'
  BY <1>3, <1>7 DEF Age
<1>8. ASSUME NEW u \in Users, NEW i \in Subs, Checkout(u, i) PROVE SearchInv'
  <2>1. Changed(i, "active") /\ "active" \in Status /\ del' = del
    BY <1>8 DEF Checkout, Status
  <2>2. \A j \in Subs : /\ found'[j] \in {found[j]} \/ subs'[j].status # "none"
                        /\ subs'[j].status = IF j = i THEN "active" ELSE subs[j].status
    BY <2>1, ChangedEffect
  <2>3. QED BY <1>1, <1>2, <2>1, <2>2 DEF SearchInv
<1>9. ASSUME NEW u \in Users, NEW i \in Subs, Portal(u, i) PROVE SearchInv'
  <2>1. Changed(i, "canceled") /\ "canceled" \in Status /\ del' = del
    BY <1>9 DEF Portal, Status
  <2>2. \A j \in Subs : found'[j] = found[j] \/ subs'[j].status # "none"
    BY <2>1, ChangedEffect
  <2>3. QED BY <1>1, <1>2, <2>1, <2>2 DEF SearchInv
<1>10. ASSUME NEW u \in Users, DeleteAccount(u) PROVE SearchInv'
  <2>1. \A v \in Users : \A i \in del'[v].ids :
          i \in del[v].ids \/ (i \in Subs /\ subs[i].user = v /\ found[i] # "none")
    BY <1>10 DEF DeleteAccount, BillingType
  <2>2. subs' = subs /\ found' = found
    BY <1>10 DEF DeleteAccount
  <2>3. QED BY <1>2, <2>1, <2>2 DEF SearchInv
<1>11. ASSUME NEW u \in Users, CancelSubscriptions(u) PROVE SearchInv'
  <2>1. CASE del' = [del EXCEPT ![u].step = "unlink"] /\ UNCHANGED <<subs, events, found>>
    BY <1>3, <2>1, DeletionEdits DEF BillingType
  <2>2. ASSUME NEW i \in del[u].ids, del' = [del EXCEPT ![u].ids = @ \ {i}],
               Changed(i, "canceled") \/ UNCHANGED <<subs, events, found>>
        PROVE  SearchInv'
    <3>1. i \in Subs /\ "canceled" \in Status
      BY <1>2 DEF Status
    <3>2. \A v \in Users : del'[v].ids \subseteq del[v].ids
      BY <2>2, DeletionShrinks
    <3>3. CASE UNCHANGED <<subs, events, found>>
      BY <1>3, <3>2, <3>3
    <3>4. CASE Changed(i, "canceled")
      <4>1. \A j \in Subs : found'[j] = found[j] \/ subs'[j].status # "none"
        BY <3>1, <3>4, ChangedEffect
      <4>2. QED BY <1>1, <1>2, <3>2, <4>1 DEF SearchInv
    <3>5. QED BY <2>2, <3>3, <3>4
  <2>3. QED BY <1>11, <2>1, <2>2 DEF CancelSubscriptions
<1>12. ASSUME NEW u \in Users, UnlinkUpstream(u) PROVE SearchInv'
  <2>1. \A v \in Users : del'[v].ids = del[v].ids
    BY <1>12, DeletionEdits DEF UnlinkUpstream, BillingType
  <2>2. QED BY <1>3, <1>12, <2>1 DEF UnlinkUpstream
<1>13. ASSUME NEW u \in Users, Deactivate(u) \/ DeleteFails(u) PROVE SearchInv'
  <2>1. \A v \in Users : del'[v].ids \subseteq del[v].ids
    BY <1>13 DEF Deactivate, DeleteFails, BillingType, NoDel
  <2>2. QED BY <1>3, <1>13, <2>1 DEF Deactivate, DeleteFails
<1>14. ASSUME NEW i \in Subs, Renewal(i) PROVE SearchInv'
  <2>1. PICK st \in Status \ {"none"} : Changed(i, st) /\ del' = del
    BY <1>14 DEF Renewal, Status
  <2>2. \A j \in Subs : found'[j] = found[j] \/ subs'[j].status # "none"
    BY <2>1, ChangedEffect
  <2>3. QED BY <1>1, <1>2, <2>1, <2>2 DEF SearchInv
<1>15. CASE UNCHANGED vars
  BY <1>3, <1>15 DEF vars
<1>16. QED
  BY <1>4, <1>5, <1>6, <1>7, <1>8, <1>9, <1>10, <1>11, <1>12, <1>13, <1>14, <1>15 DEF Next

-----------------------------------------------------------------------------
(* The strengthening behind CustomersNotErased: whoever the sweep erased    *)
(* is erased, so can buy nothing any more, and never had; and what the      *)
(* sweep read is still true when it deletes, since no payment lands in      *)
(* between.                                                                 *)
SparedInv == "midsweep" \notin faults =>
  /\ \A u \in Users : erasedBy[u] = "sweep" => mas[u].gone /\ ~EverPaid(u)
  /\ sweep.step = "lock" /\ sweep.complete =>
       \A u \in Users : EverPaid(u) => u \in sweep.everPaid

\* Who has ever paid is a matter of Stripe alone, and changes with a checkout.
LEMMA PaidStays ==
  ASSUME BillingType, SearchInv, [Next]_vars, NEW u \in Users,
         \A i \in Subs : ~Checkout(u, i)
  PROVE  EverPaid(u)' => EverPaid(u)
<1>1. CASE subs' = subs
  BY <1>1 DEF EverPaid, SubsOf
<1>2. ASSUME NEW v \in Users, NEW i \in Subs, Checkout(v, i)
      PROVE  EverPaid(u)' => EverPaid(u)
  <2>1. Changed(i, "active") /\ "active" \in Status /\ subs[i].user = v /\ v # u
    BY <1>2 DEF Checkout, Status
  <2>2. \A j \in Subs : /\ subs'[j].user = subs[j].user
                        /\ j # i => subs'[j].status = subs[j].status
    BY <2>1, ChangedEffect
  <2>3. QED BY <2>1, <2>2 DEF EverPaid, SubsOf
<1>3. ASSUME NEW i \in Subs, NEW st \in {"active", "past_due", "canceled"}, Moves(i, st)
      PROVE  EverPaid(u)' => EverPaid(u)
  <2>1. Changed(i, st) /\ st \in Status /\ subs[i].status # "none"
    BY <1>3 DEF Moves, Status
  <2>2. \A j \in Subs : /\ subs'[j].user = subs[j].user
                        /\ j # i => subs'[j].status = subs[j].status
    BY <2>1, ChangedEffect
  <2>3. QED BY <2>1, <2>2 DEF EverPaid, SubsOf
<1>4. QED BY <1>1, <1>2, <1>3, StripeStep

\* A checkout is by an account that exists and, with payments during a sweep
\* left aside, while no sweep is running.
LEMMA SparedCheckout ==
  ASSUME BillingType, SearchInv, SparedInv, "midsweep" \notin faults, faults' = faults,
         [Next]_vars, NEW u \in Users, NEW i \in Subs, Checkout(u, i)
  PROVE  SparedInv'
<1>1. /\ ~mas[u].gone /\ sweep = Idle
      /\ UNCHANGED <<mas, sweep, erasedBy>>
  BY DEF Checkout, MayPay
<1>2. erasedBy[u] # "sweep" /\ sweep.step = "idle"
  BY <1>1 DEF SparedInv, Idle
<1>3. \A v \in Users \ {u} : \A j \in Subs : ~Checkout(v, j)
  <2>1. /\ subs[i].user = u /\ subs[i].status = "none" /\ subs' = [subs EXCEPT ![i].status = "active"]
    BY DEF Checkout, Changed
  <2>2. subs'[i].status = "active"
    BY <2>1 DEF BillingType
  <2>3. ASSUME NEW v \in Users \ {u}, NEW j \in Subs, Checkout(v, j) PROVE FALSE
    <3>1. /\ subs[j].user = v /\ subs[j].status = "none"
          /\ subs' = [subs EXCEPT ![j].status = "active"]
      BY <2>3 DEF Checkout, Changed
    <3>2. i # j /\ subs'[i].status = subs[i].status
      BY <2>1, <3>1 DEF BillingType
    <3>3. QED BY <2>1, <2>2, <3>2
  <2>4. QED BY <2>3
<1>4. \A v \in Users \ {u} : EverPaid(v)' => EverPaid(v)
  BY <1>3, PaidStays
<1>5. QED BY <1>1, <1>2, <1>4 DEF SparedInv

\* Every step spares the customers.
LEMMA SparedStep ==
  ASSUME BillingType, SearchInv, SparedInv, [Next]_vars
  PROVE  SparedInv'
<1> SUFFICES ASSUME "midsweep" \notin faults, faults' = faults PROVE SparedInv'
  BY DEF SparedInv, Next, vars
<1>1. CASE \E u \in Users, i \in Subs : Checkout(u, i)
  BY <1>1, SparedCheckout
<1>2. CASE ~ \E u \in Users, i \in Subs : Checkout(u, i)
  <2>1. \A u \in Users : EverPaid(u)' => EverPaid(u)
    BY <1>2, PaidStays
  <2>2. ASSUME \A u \in Users : /\ erasedBy'[u] = "sweep" => erasedBy[u] = "sweep"
                                /\ mas[u].gone => mas'[u].gone,
               sweep' = sweep \/ sweep'.step # "lock"
        PROVE  SparedInv'
    BY <2>1, <2>2 DEF SparedInv
  <2>3. CASE SweepLists \/ SweepEnds \/ SweepFails
    <3>1. UNCHANGED <<mas, erasedBy>>
      BY <2>3 DEF SweepLists, SweepEnds, SweepFails
    <3>2. SweepLists => sweep'.step = "index"
      BY DEF SweepLists, Idle
    <3>3. SweepEnds \/ SweepFails => sweep'.step = "idle"
      BY DEF SweepEnds, SweepFails, Idle
    <3>4. QED BY <2>2, <2>3, <3>1, <3>2, <3>3
  <2>4. CASE SubscriptionIndex
    <3>1. UNCHANGED <<mas, subs, erasedBy>>
      BY <2>4 DEF SubscriptionIndex
    <3>2. sweep'.complete => \A u \in Users : EverPaid(u) => u \in sweep'.everPaid
      <4> DEFINE P(S) == {u \in Users : \E i \in S \cap SubsOf(u) : InGoodStanding(subs[i].status)}
                 E(S) == {u \in Users : S \cap SubsOf(u) # {}}
      <4>1. PICK S : sweep' = [sweep EXCEPT !.step = "lock", !.paying = P(S), !.everPaid = E(S),
                                            !.complete = S = Subs]
        BY <2>4 DEF SubscriptionIndex
      <4>2. sweep'.everPaid = E(S) /\ (sweep'.complete => S = Subs)
        <5> HIDE DEF P, E
        <5>1. QED BY <4>1 DEF BillingType, Sweep
      <4>3. QED BY <4>2 DEF EverPaid, SubsOf
    <3>3. QED BY <2>1, <3>1, <3>2 DEF SparedInv
  <2>5. ASSUME NEW u \in Users, SweepLocks(u) PROVE SparedInv'
    <3>1. erasedBy' = erasedBy /\ \A v \in Users : mas'[v].gone = mas[v].gone
      BY <2>5, AccountEdits DEF SweepLocks, SetLock, BillingType
    <3>2. /\ sweep'.step = sweep.step /\ sweep'.complete = sweep.complete
          /\ sweep'.everPaid = sweep.everPaid
      BY <2>5 DEF SweepLocks, BillingType, Sweep
    <3>3. QED BY <2>1, <3>1, <3>2 DEF SparedInv
  <2>6. ASSUME NEW u \in Users, SweepDeletes(u) PROVE SparedInv'
    <3>1. /\ sweep.step = "lock" /\ sweep'.step = sweep.step /\ sweep'.complete = sweep.complete
          /\ sweep'.everPaid = sweep.everPaid
      BY <2>6 DEF SweepDeletes, BillingType, Sweep
    <3>2. CASE erasedBy' = erasedBy /\ mas' = mas
      BY <2>1, <3>1, <3>2 DEF SparedInv
    <3>3. CASE /\ sweep.complete /\ u \notin sweep.everPaid
               /\ mas' = [mas EXCEPT ![u].gone = TRUE]
               /\ erasedBy' = [erasedBy EXCEPT ![u] = "sweep"]
      <4>1. ~EverPaid(u)
        BY <3>1, <3>3 DEF SparedInv
      <4>2. \A v \in Users : /\ mas'[v].gone = IF v = u THEN TRUE ELSE mas[v].gone
                             /\ erasedBy'[v] = IF v = u THEN "sweep" ELSE erasedBy[v]
        BY <3>3, AccountEdits DEF BillingType
      <4>3. QED BY <2>1, <3>1, <4>1, <4>2 DEF SparedInv
    <3>4. QED BY <2>6, <3>2, <3>3 DEF SweepDeletes
  <2>7. CASE Handling
    <3>1. erasedBy' = erasedBy /\ sweep' = sweep
      BY <2>7 DEF Handling, Webhook, WebhookSets, SuccessLooksUp, Success
    <3>2. \A v \in Users : mas'[v].gone = mas[v].gone
      <4>1. \/ mas' = mas
            \/ \E w \in Users : \E b \in BOOLEAN : mas' = [mas EXCEPT ![w].locked = b]
        <5>1. \A h \in hooks : h.user \in Users /\ h.lock \in BOOLEAN
          BY DEF BillingType, Hook
        <5>2. \A p \in pages : p[1] \in Users
          BY DEF BillingType
        <5>3. QED
          BY <2>7, <5>1, <5>2 DEF Handling, Webhook, WebhookSets, SuccessLooksUp, Success, SetLock
      <4>2. ASSUME NEW w \in Users, NEW b \in BOOLEAN, mas' = [mas EXCEPT ![w].locked = b]
            PROVE  \A v \in Users : mas'[v].gone = mas[v].gone
        BY <4>2, AccountEdits DEF BillingType
      <4>3. QED BY <4>1, <4>2
    <3>3. QED BY <2>2, <3>1, <3>2
  <2>8. CASE SearchCatchesUp \/ (\E p \in pages : SuccessFails(p)) \/ UNCHANGED vars
    BY <2>2, <2>8 DEF SearchCatchesUp, SuccessFails, vars
  <2>9. ASSUME NEW u \in Users, Age(u) \/ UnlinkUpstream(u) PROVE SparedInv'
    <3>1. erasedBy' = erasedBy /\ sweep' = sweep
      BY <2>9 DEF Age, UnlinkUpstream
    <3>2. \A v \in Users : mas'[v].gone = mas[v].gone
      <4>1. CASE Age(u)
        BY <4>1, AccountEdits DEF Age, BillingType
      <4>2. CASE UnlinkUpstream(u)
        <5>1. PICK l \in BOOLEAN : mas' = [mas EXCEPT ![u].linked = mas[u].linked /\ l]
          BY <4>2 DEF UnlinkUpstream
        <5>2. (mas[u].linked /\ l) \in BOOLEAN
          OBVIOUS
        <5>3. QED BY <5>1, <5>2, AccountEdits DEF BillingType
      <4>3. QED BY <2>9, <4>1, <4>2
    <3>3. QED BY <2>2, <3>1, <3>2
  <2>10. ASSUME NEW u \in Users, DeleteAccount(u) \/ CancelSubscriptions(u) \/ DeleteFails(u)
         PROVE  SparedInv'
    BY <2>2, <2>10 DEF DeleteAccount, CancelSubscriptions, DeleteFails
  <2>11. ASSUME NEW u \in Users, Deactivate(u) PROVE SparedInv'
    <3>1. sweep' = sweep /\ \A v \in Users : mas[v].gone => mas'[v].gone
      BY <2>11, AccountEdits DEF Deactivate, BillingType
    <3>2. \A v \in Users : erasedBy'[v] = "sweep" => erasedBy[v] = "sweep"
      BY <2>11 DEF Deactivate, BillingType
    <3>3. QED BY <2>2, <3>1, <3>2
  <2>12. ASSUME NEW i \in Subs, Renewal(i) \/ \E u \in Users : Portal(u, i) PROVE SparedInv'
    BY <2>2, <2>12 DEF Renewal, Portal
  <2>13. QED
    BY <1>2, <2>3, <2>4, <2>5, <2>6, <2>7, <2>8, <2>9, <2>10, <2>11, <2>12 DEF Next, Sweeping
<1>3. QED BY <1>1, <1>2

-----------------------------------------------------------------------------
(* The strengthening behind NoBillingAfterErasure: a subscription that is   *)
(* still billed is of an account that exists, and a deletion in progress    *)
(* has it on its list, for as long as its step is to cancel.                *)
Billed(i) == subs[i].status \in {"active", "past_due"}

\* Account u may still have the live subscription i.
MayBill(u, i) ==
  /\ ~mas[u].gone
  /\ del[u].step \in {"idle", "cancel"}
  /\ del[u].step = "cancel" => i \in del[u].ids

UnbilledInv == faults \cap {"lag", "midsweep"} = {} =>
  \A i \in Subs : found[i] = subs[i].status /\ (Billed(i) => MayBill(subs[i].user, i))

\* Only the owner's deletion and the sweep's erase an account, the sweep only one
\* that its complete list says never paid.
LEMMA GoneStep ==
  ASSUME BillingType, [Next]_vars, NEW v \in Users
  PROVE  \/ mas'[v].gone = mas[v].gone
         \/ Deactivate(v)
         \/ SweepDeletes(v) /\ sweep.complete /\ v \notin sweep.everPaid
<1>1. CASE mas' = mas
  BY <1>1
<1>2. ASSUME NEW w \in Users, NEW b \in BOOLEAN,
             mas' = [mas EXCEPT ![w].locked = b] \/ mas' = [mas EXCEPT ![w].linked = b]
      PROVE  mas'[v].gone = mas[v].gone
  <2>1. mas \in [Users -> Account]
    BY DEF BillingType
  <2>2. CASE mas' = [mas EXCEPT ![w].locked = b]
    BY <2>1, <2>2, AccountEdits
  <2>3. CASE mas' = [mas EXCEPT ![w].linked = b]
    BY <2>1, <2>3, AccountEdits
  <2>4. QED BY <1>2, <2>2, <2>3
<1>3. CASE Sweeping
  <2>1. CASE SweepLists \/ SubscriptionIndex \/ SweepEnds
    BY <1>1, <2>1 DEF SweepLists, SubscriptionIndex, SweepEnds
  <2>2. ASSUME NEW u \in Users, SweepLocks(u) PROVE mas'[v].gone = mas[v].gone
    BY <1>1, <1>2, <2>2 DEF SweepLocks, SetLock
  <2>3. ASSUME NEW u \in Users, SweepDeletes(u)
        PROVE  \/ mas'[v].gone = mas[v].gone
               \/ SweepDeletes(v) /\ sweep.complete /\ v \notin sweep.everPaid
    <3>1. CASE mas' = mas
      BY <3>1
    <3>2. CASE mas' = [mas EXCEPT ![u].gone = TRUE] /\ sweep.complete /\ u \notin sweep.everPaid
      <4>1. mas'[v].gone = IF v = u THEN TRUE ELSE mas[v].gone
        BY <3>2, AccountEdits DEF BillingType
      <4>2. QED BY <2>3, <3>2, <4>1
    <3>3. QED BY <2>3, <3>1, <3>2 DEF SweepDeletes
  <2>4. QED BY <1>3, <2>1, <2>2, <2>3 DEF Sweeping
<1>4. CASE Handling
  <2>1. \A h \in hooks : h.user \in Users /\ h.lock \in BOOLEAN
    BY DEF BillingType, Hook
  <2>2. \A p \in pages : p[1] \in Users
    BY DEF BillingType
  <2>3. QED
    BY <1>1, <1>2, <1>4, <2>1, <2>2
       DEF Handling, Webhook, WebhookSets, SuccessLooksUp, Success, SetLock
<1>5. CASE SweepFails \/ SearchCatchesUp \/ (\E p \in pages : SuccessFails(p)) \/ UNCHANGED vars
  BY <1>1, <1>5 DEF SweepFails, SearchCatchesUp, SuccessFails, vars
<1>6. ASSUME NEW u \in Users, Age(u) PROVE mas'[v].gone = mas[v].gone
  BY <1>6, AccountEdits DEF Age, BillingType
<1>7. ASSUME NEW u \in Users, UnlinkUpstream(u) PROVE mas'[v].gone = mas[v].gone
  <2>1. PICK l \in BOOLEAN : mas' = [mas EXCEPT ![u].linked = mas[u].linked /\ l]
    BY <1>7 DEF UnlinkUpstream
  <2>2. (mas[u].linked /\ l) \in BOOLEAN
    OBVIOUS
  <2>3. QED BY <1>2, <2>1, <2>2
<1>8. ASSUME NEW u \in Users, Deactivate(u) PROVE mas'[v].gone = mas[v].gone \/ Deactivate(v)
  <2>1. mas'[v].gone = IF v = u THEN TRUE ELSE mas[v].gone
    BY <1>8, AccountEdits DEF Deactivate, BillingType
  <2>2. QED BY <1>8, <2>1
<1>9. ASSUME NEW u \in Users, DeleteAccount(u) \/ CancelSubscriptions(u) \/ DeleteFails(u)
      PROVE  mas' = mas
  BY <1>9 DEF DeleteAccount, CancelSubscriptions, DeleteFails
<1>10. ASSUME NEW i \in Subs, Renewal(i) \/ \E u \in Users : Portal(u, i) \/ Checkout(u, i)
       PROVE  mas' = mas
  BY <1>10 DEF Renewal, Portal, Checkout
<1>11. QED
  BY <1>1, <1>3, <1>4, <1>5, <1>6, <1>7, <1>8, <1>9, <1>10 DEF Next

\* Every step keeps the erased accounts free of bills.
LEMMA UnbilledStep ==
  ASSUME BillingType, BillingType', SearchInv, SparedInv, UnbilledInv, [Next]_vars
  PROVE  UnbilledInv'
<1> SUFFICES ASSUME faults \cap {"lag", "midsweep"} = {}, faults' = faults, NEW i \in Subs
             PROVE  found'[i] = subs'[i].status /\ (Billed(i)' => MayBill(subs[i].user, i)')
  BY DEF UnbilledInv, Next, vars
<1> PICK u \in Users : u = subs[i].user
  BY DEF BillingType
<1>1. subs'[i].user = u
  BY StripeEffect
<1>2. found[i] = subs[i].status /\ (Billed(i) => MayBill(u, i))
  BY DEF UnbilledInv
<1>3. "lag" \notin faults /\ "midsweep" \notin faults
  OBVIOUS
<1>4. Billed(i) => mas'[u].gone = mas[u].gone
  <2>1. Billed(i) => ~Deactivate(u)
    BY <1>2 DEF MayBill, Deactivate
  <2>2. Billed(i) => EverPaid(u)
    BY DEF EverPaid, SubsOf, Billed
  <2>3. Billed(i) => ~(SweepDeletes(u) /\ sweep.complete /\ u \notin sweep.everPaid)
    BY <1>3, <2>2 DEF SparedInv, SweepDeletes
  <2>4. QED BY <2>1, <2>3, GoneStep
<1>5. ASSUME subs' = subs, found' = found, del' = del
      PROVE  found'[i] = subs'[i].status /\ (Billed(i)' => MayBill(subs[i].user, i)')
  BY <1>1, <1>2, <1>4, <1>5 DEF Billed, MayBill
<1>6. ASSUME NEW j \in Subs, NEW st \in Status, Changed(j, st)
      PROVE  found'[i] = subs'[i].status /\ (i # j => (Billed(i)' <=> Billed(i)))
             /\ (i = j => subs'[i].status = st)
  BY <1>2, <1>3, <1>6, ChangedEffect DEF Billed
<1>7. CASE \E v \in Users, j \in Subs : Checkout(v, j)
  <2> PICK v \in Users, j \in Subs : Checkout(v, j)
    BY <1>7
  <2>1. /\ ~mas[v].gone /\ del[v] = NoDel /\ subs[j].user = v /\ mas' = mas /\ del' = del
        /\ Changed(j, "active") /\ "active" \in Status
    BY DEF Checkout, Status
  <2>2. i = j => MayBill(u, i)'
    BY <2>1 DEF MayBill, NoDel
  <2>3. i # j /\ Billed(i) => MayBill(u, i)'
    BY <1>2, <2>1 DEF MayBill
  <2>4. QED BY <1>1, <1>6, <2>1, <2>2, <2>3
<1>8. CASE \E j \in Subs : \E st \in {"active", "past_due", "canceled"} : Moves(j, st)
  <2> PICK j \in Subs, st \in {"active", "past_due", "canceled"} : Moves(j, st)
    BY <1>8
  <2>1. Changed(j, st) /\ st \in Status /\ mas' = mas
    BY DEF Moves, Status
  <2>2. Billed(i)' => Billed(i) /\ (i # j \/ st # "canceled")
    BY <1>6, <2>1 DEF Billed, Moves
  <2>3. /\ del'[u].step = del[u].step
        /\ del'[u].ids = del[u].ids \/ (st = "canceled" /\ del'[u].ids = del[u].ids \ {j})
    BY DEF Moves
  <2>4. Billed(i)' => MayBill(u, i)'
    BY <1>2, <2>1, <2>2, <2>3 DEF MayBill
  <2>5. QED BY <1>1, <1>6, <2>1, <2>4
<1>9. CASE Sweeping \/ SweepFails
  BY <1>5, <1>9 DEF Sweeping, SweepLists, SubscriptionIndex, SweepEnds, SweepLocks, SweepDeletes,
                    SweepFails
<1>10. CASE Handling \/ \E p \in pages : SuccessFails(p)
  BY <1>5, <1>10 DEF Handling, Webhook, WebhookSets, SuccessLooksUp, Success, SuccessFails
<1>11. CASE SearchCatchesUp
  <2>1. subs' = subs /\ del' = del /\ mas' = mas /\ found'[i] = subs[i].status
    BY <1>11 DEF SearchCatchesUp
  <2>2. QED BY <1>1, <1>2, <2>1 DEF Billed, MayBill
<1>12. ASSUME NEW v \in Users, Age(v)
       PROVE  found'[i] = subs'[i].status /\ (Billed(i)' => MayBill(subs[i].user, i)')
  BY <1>5, <1>12 DEF Age
<1>13. ASSUME NEW v \in Users, DeleteAccount(v)
       PROVE  found'[i] = subs'[i].status /\ (Billed(i)' => MayBill(subs[i].user, i)')
  <2>1. UNCHANGED <<mas, subs, found>>
    BY <1>13 DEF DeleteAccount
  <2>2. del'[u] = IF v = u
          THEN [step |-> "cancel",
                ids |-> {j \in Subs : subs[j].user = v /\ found[j] \in {"active", "past_due"}}]
          ELSE del[u]
    BY <1>13 DEF DeleteAccount, BillingType
  <2>3. Billed(i) => MayBill(u, i)'
    <3>1. CASE v = u
      <4>1. del'[u].step = "cancel" /\ (Billed(i) => i \in del'[u].ids)
        BY <1>2, <2>2, <3>1 DEF Billed
      <4>2. QED BY <1>2, <2>1, <4>1 DEF MayBill
    <3>2. CASE v # u
      BY <1>2, <2>1, <2>2, <3>2 DEF MayBill
    <3>3. QED BY <3>1, <3>2
  <2>4. QED BY <1>1, <1>2, <2>1, <2>3 DEF Billed
<1>14. ASSUME NEW v \in Users, CancelSubscriptions(v), subs' = subs
       PROVE  found'[i] = subs'[i].status /\ (Billed(i)' => MayBill(subs[i].user, i)')
  <2>1. mas' = mas
    BY <1>14 DEF CancelSubscriptions
  <2>2. Billed(i) => MayBill(u, i)'
    <3>1. CASE del[v].ids = {} /\ del' = [del EXCEPT ![v].step = "unlink"]
      <4>1. del'[u].step = (IF u = v THEN "unlink" ELSE del[u].step) /\ del'[u].ids = del[u].ids
        BY <3>1, DeletionEdits DEF BillingType
      <4>2. Billed(i) => u # v
        BY <1>2, <1>14, <3>1 DEF MayBill, CancelSubscriptions
      <4>3. QED BY <1>2, <2>1, <4>1, <4>2 DEF MayBill
    <3>2. ASSUME NEW j \in del[v].ids, del' = [del EXCEPT ![v].ids = @ \ {j}],
                 subs[j].status = "canceled"
          PROVE  Billed(i) => MayBill(u, i)'
      <4>0. \A w \in Users : /\ del'[w].step = del[w].step
                              /\ del'[w].ids = IF w = v THEN del[w].ids \ {j} ELSE del[w].ids
        BY <3>2, DeletionShrinks
      <4>1. del'[u].step = del[u].step
            /\ del'[u].ids = IF u = v THEN del[u].ids \ {j} ELSE del[u].ids
        BY <4>0
      <4>2. Billed(i) => i # j
        BY <3>2 DEF Billed
      <4>3. QED BY <1>2, <2>1, <4>1, <4>2 DEF MayBill
    <3>3. ASSUME NEW j \in del[v].ids, subs[j].status # "canceled", Changed(j, "canceled")
          PROVE  FALSE
      <4>1. j \in Subs /\ "canceled" \in Status
        BY DEF BillingType, Deletion, Status
      <4>2. subs'[j].status = "canceled"
        BY <3>3, <4>1, ChangedEffect
      <4>3. QED BY <1>14, <3>3, <4>2
    <3>4. QED BY <1>14, <3>1, <3>2, <3>3 DEF CancelSubscriptions
  <2>3. found'[i] = subs'[i].status
    <3>1. CASE found' = found
      BY <1>2, <1>14, <3>1
    <3>2. ASSUME NEW j \in del[v].ids, Changed(j, "canceled")
          PROVE  found'[i] = subs'[i].status
      <4>1. j \in Subs /\ "canceled" \in Status
        BY DEF BillingType, Deletion, Status
      <4>2. QED BY <1>6, <3>2, <4>1
    <3>3. QED BY <1>14, <3>1, <3>2 DEF CancelSubscriptions
  <2>4. QED BY <1>1, <1>14, <2>2, <2>3 DEF Billed
<1>15. ASSUME NEW v \in Users, UnlinkUpstream(v)
       PROVE  found'[i] = subs'[i].status /\ (Billed(i)' => MayBill(subs[i].user, i)')
  <2>1. UNCHANGED <<subs, found>> /\ del[v].step = "unlink"
    BY <1>15 DEF UnlinkUpstream
  <2>2. Billed(i) => u # v
    BY <1>2, <2>1 DEF MayBill
  <2>3. u # v => del'[u] = del[u]
    BY <1>15 DEF UnlinkUpstream, BillingType
  <2>4. QED BY <1>1, <1>2, <1>4, <2>1, <2>2, <2>3 DEF Billed, MayBill
<1>16. ASSUME NEW v \in Users, Deactivate(v) \/ DeleteFails(v)
       PROVE  found'[i] = subs'[i].status /\ (Billed(i)' => MayBill(subs[i].user, i)')
  <2>1. UNCHANGED <<subs, found>> /\ del' = [del EXCEPT ![v] = NoDel]
    BY <1>16 DEF Deactivate, DeleteFails
  <2>2. del'[u] = del[u] \/ del'[u].step = "idle"
    BY <2>1 DEF BillingType, NoDel
  <2>3. QED BY <1>1, <1>2, <1>4, <2>1, <2>2 DEF Billed, MayBill
<1>17. ASSUME NEW j \in Subs, Renewal(j) \/ \E v \in Users : Portal(v, j), subs' = subs
       PROVE  FALSE
  <2>1. PICK st \in Status : Changed(j, st) /\ st # subs[j].status
    BY <1>17 DEF Renewal, Portal, Status
  <2>2. subs'[j].status = st
    BY <2>1, ChangedEffect
  <2>3. QED BY <1>17, <2>1, <2>2
<1>18. CASE UNCHANGED vars
  BY <1>5, <1>18 DEF vars
<1>19. QED
  <2>1. CASE subs' = subs
    BY <1>7, <1>9, <1>10, <1>11, <1>12, <1>13, <1>14, <1>15, <1>16, <1>17, <1>18, <2>1 DEF Next
  <2>2. QED BY <1>7, <1>8, <2>1, StripeStep

-----------------------------------------------------------------------------
(* The strengthening behind PayingIsActive, when events arrive one at a     *)
(* time and in order: the last event under way for a paying account says    *)
(* that it pays, the handler of that event unlocks the account if it is     *)
(* locked, and the running sweep spares it.                                 *)
For(u, k)     == subs[events[k].id].user = u
Waiting(u)    == \E k \in 1..Len(events) : For(u, k)
LastFor(u, k) == For(u, k) /\ \A m \in 1..Len(events) : m > k => ~For(u, m)

\* The sweep in progress does not lock u.
SparedBySweep(u) == sweep.step = "lock" => u \in sweep.paying

\* What is still to be delivered for u ends in good standing.
EndsActive(u) == \A k \in 1..Len(events) : LastFor(u, k) => events[k].status = "active"

\* When nothing is left to deliver, u is unlocked or the last handler unlocks it.
Unlocked(u) ==
  ~Waiting(u) =>
    /\ \A h \in hooks : h.user = u => ~h.lock /\ (h.locked \/ ~mas[u].locked)
    /\ (\A h \in hooks : h.user # u) => ~mas[u].locked

OneLive == \A i, j \in Subs : Billed(i) /\ Billed(j) /\ subs[i].user = subs[j].user => i = j

AccessInv == faults \subseteq {"outage", "lag"} =>
  /\ \A g, h \in hooks : g = h
  /\ OneLive
  /\ \A u \in Users : Paying(u) => SparedBySweep(u) /\ EndsActive(u) /\ Unlocked(u)

\* Paying, without the set of subscriptions it is defined by.
LEMMA PayingMeans ==
  ASSUME NEW u
  PROVE  Paying(u) <=> \E i \in Subs : subs[i].user = u /\ subs[i].status = "active"
  BY DEF Paying, SubsOf

\* The queue without its first event.
LEMMA DropFirst ==
  ASSUME NEW S, NEW t \in Seq(S), 1 \in 1..Len(t),
         NEW r, r = SubSeq(t, 1, 0) \o SubSeq(t, 2, Len(t))
  PROVE  Len(r) = Len(t) - 1 /\ \A k \in 1..Len(r) : r[k] = t[k + 1]
<1> DEFINE a == SubSeq(t, 1, 0)
           b == SubSeq(t, 2, Len(t))
<1> PICK n \in Nat : n = Len(t)
  BY LenProperties
<1>1. n >= 1 /\ \A k \in 2..n : t[k] \in S
  BY ElementOfSeq
<1>2. a \in Seq(S) /\ Len(a) = 0
  BY SubSeqProperties
<1>3. /\ b \in Seq(S) /\ Len(b) = IF 2 <= n THEN n - 2 + 1 ELSE 0
      /\ \A k \in 1..(n - 2 + 1) : b[k] = t[2 + k - 1]
  BY <1>1, SubSeqProperties
<1>4. r = a \o b
  OBVIOUS
<1> HIDE DEF a, b
<1>5. Len(b) = n - 1 /\ \A k \in 1..(n - 1) : b[k] = t[k + 1]
  BY <1>1, <1>3
<1>6. Len(r) = Len(b) /\ \A k \in 1..Len(b) : r[k] = b[k]
  BY <1>2, <1>3, <1>4, ConcatProperties
<1>7. QED BY <1>5, <1>6

\* Steps that neither change a subscription nor deliver an event, lock no paying
\* account, and let the sweep know who pays.
LEMMA QuietStep ==
  ASSUME AccessInv, UNCHANGED <<faults, subs, events>>,
         faults \subseteq {"outage", "lag"} =>
           \A u \in Users : Paying(u) =>
             /\ sweep'.step = "lock" => u \in sweep'.paying
             /\ \/ hooks' = hooks /\ (mas'[u].locked => mas[u].locked)
                \/ Unlocked(u)',
         \A g, h \in hooks' : g \in hooks /\ h \in hooks
  PROVE  AccessInv'
<1> SUFFICES ASSUME faults \subseteq {"outage", "lag"} PROVE AccessInv'
  BY DEF AccessInv
<1>1. \A g, h \in hooks' : g = h
  BY DEF AccessInv
<1>2. OneLive'
  BY DEF AccessInv, OneLive, Billed
<1>3. ASSUME NEW u \in Users, Paying(u)'
      PROVE  SparedBySweep(u)' /\ EndsActive(u)' /\ Unlocked(u)'
  <2>1. Paying(u)
    BY <1>3 DEF Paying, SubsOf
  <2>2. SparedBySweep(u)'
    BY <2>1 DEF SparedBySweep
  <2>3. EndsActive(u)'
    BY <2>1 DEF AccessInv, EndsActive, LastFor, For
  <2>4. Unlocked(u)'
    <3>1. CASE hooks' = hooks /\ (mas'[u].locked => mas[u].locked)
      <4>1. Unlocked(u) /\ (Waiting(u)' <=> Waiting(u))
        BY <2>1 DEF AccessInv, Waiting, For
      <4>2. QED BY <3>1, <4>1 DEF Unlocked
    <3>2. QED BY <2>1, <3>1
  <2>5. QED BY <2>2, <2>3, <2>4
<1>4. QED BY <1>1, <1>2, <1>3 DEF AccessInv

\* A change of subscription i: its account's last event is the one just queued,
\* every other account is told what it was.
LEMMA ChangeStep ==
  ASSUME BillingType, AccessInv, NEW i \in Subs, NEW st \in Status, Changed(i, st),
         NEW v \in Users, v = subs[i].user,
         UNCHANGED <<faults, mas, hooks, sweep>>, faults \subseteq {"outage", "lag"},
         OneLive', Paying(v)' => st = "active" /\ SparedBySweep(v)
  PROVE  AccessInv'
<1>1. /\ events \in Seq(Event) /\ events' = Append(events, [id |-> i, status |-> st])
      /\ [id |-> i, status |-> st] \in Event
      /\ \A j \in Subs : /\ subs'[j].user = subs[j].user
                         /\ subs'[j].status = IF j = i THEN st ELSE subs[j].status
  BY ChangedEffect DEF BillingType, Event
<1> PICK n \in Nat : n = Len(events) + 1
  BY <1>1, LenProperties
<1>2. /\ Len(events) \in Nat /\ n = Len(events) + 1 /\ Len(events') = n
      /\ \A k \in 1..Len(events) : events'[k] = events[k] /\ events[k].id \in Subs
      /\ events'[n].id = i /\ events'[n].status = st
  <2>1. \A k \in 1..Len(events) : events[k] \in Event
    BY <1>1, ElementOfSeq
  <2>2. Len(events) \in Nat /\ Len(events') = Len(events) + 1
        /\ (\A k \in 1..Len(events) : events'[k] = events[k])
        /\ events'[Len(events) + 1] = [id |-> i, status |-> st]
    BY <1>1, AppendProperties, LenProperties
  <2>3. QED BY <2>1, <2>2 DEF Event
<1>3. \A u \in Users : /\ \A k \in 1..Len(events) : For(u, k)' <=> For(u, k)
                       /\ For(u, n)' <=> u = v
  BY <1>1, <1>2 DEF For
<1>4. ASSUME NEW u \in Users, Paying(u)', u = v
      PROVE  SparedBySweep(u)' /\ EndsActive(u)' /\ Unlocked(u)'
  <2>1. st = "active" /\ SparedBySweep(u)'
    BY <1>4 DEF SparedBySweep
  <2>2. For(u, n)' /\ n \in 1..Len(events')
    BY <1>2, <1>3, <1>4
  <2>3. Waiting(u)'
    BY <2>2 DEF Waiting
  <2>4. ASSUME NEW k \in 1..Len(events'), LastFor(u, k)' PROVE k = n
    BY <1>2, <2>2, <2>4 DEF LastFor
  <2>5. EndsActive(u)'
    BY <1>2, <2>1, <2>4 DEF EndsActive
  <2>6. QED BY <2>1, <2>3, <2>5 DEF Unlocked
<1>5. ASSUME NEW u \in Users, Paying(u)', u # v
      PROVE  SparedBySweep(u)' /\ EndsActive(u)' /\ Unlocked(u)'
  <2>1. Paying(u)
    <3>1. (\E j \in Subs : subs[j].user = u /\ subs[j].status = "active")'
      BY <1>5 DEF Paying, SubsOf
    <3>2. QED BY <1>1, <1>5, <3>1, PayingMeans
  <2>2. SparedBySweep(u) /\ EndsActive(u) /\ Unlocked(u)
    BY <2>1 DEF AccessInv
  <2>3. ~For(u, n)' /\ \A k \in 1..Len(events) : For(u, k)' <=> For(u, k)
    BY <1>3, <1>5
  <2>4. Waiting(u)' <=> Waiting(u)
    BY <1>2, <2>3 DEF Waiting
  <2>5. ASSUME NEW k \in 1..Len(events'), LastFor(u, k)'
        PROVE  events'[k].status = "active"
    <3>1. k \in 1..Len(events) /\ For(u, k)
      BY <1>2, <2>3, <2>5 DEF LastFor
    <3>2. LastFor(u, k)
      BY <1>2, <2>3, <2>5, <3>1 DEF LastFor
    <3>3. QED BY <1>2, <2>2, <3>1, <3>2 DEF EndsActive
  <2>6. QED BY <2>2, <2>4, <2>5 DEF SparedBySweep, EndsActive, Unlocked
<1>6. QED BY <1>4, <1>5 DEF AccessInv

\* The delivery of the oldest event.
LEMMA DeliveryStep ==
  ASSUME BillingType, AccessInv, NEW k \in 1..Len(events), Webhook(k), UNCHANGED faults
  PROVE  AccessInv'
<1> SUFFICES ASSUME faults \subseteq {"outage", "lag"} PROVE AccessInv'
  BY DEF AccessInv
<1> DEFINE w == subs[events[1].id].user
           h == [user |-> w, lock |-> ~InGoodStanding(events[1].status), locked |-> mas[w].locked]
<1>1. /\ k = 1 /\ hooks = {} /\ UNCHANGED <<subs, mas, sweep>>
      /\ hooks' = {h}
      /\ events' = SubSeq(events, 1, 0) \o SubSeq(events, 2, Len(events))
  <2>1. "reorder" \notin faults
    OBVIOUS
  <2>2. /\ k = 1 /\ hooks = {} /\ UNCHANGED <<subs, mas, sweep>>
        /\ hooks' = hooks \cup {[user |-> subs[events[k].id].user,
                                 lock |-> ~InGoodStanding(events[k].status),
                                 locked |-> mas[subs[events[k].id].user].locked]}
        /\ events' = SubSeq(events, 1, k - 1) \o SubSeq(events, k + 1, Len(events))
    BY <2>1 DEF Webhook
  <2>3. k - 1 = 0 /\ k + 1 = 2
    BY <2>2
  <2>4. events' = SubSeq(events, 1, 0) \o SubSeq(events, 2, Len(events))
    BY <2>2, <2>3, Zenon
  <2>5. QED BY <2>2, <2>4
<1>2. Len(events') = Len(events) - 1 /\ \A m \in 1..Len(events') : events'[m] = events[m + 1]
  <2>1. events \in Seq(Event) /\ 1 \in 1..Len(events)
    BY <1>1 DEF BillingType
  <2>2. QED BY <1>1, <2>1, DropFirst
<1>3. Len(events) \in Nat /\ Len(events) >= 1
  BY LenProperties DEF BillingType
<1>4. h.user = w /\ h.lock = ~InGoodStanding(events[1].status) /\ h.locked = mas[w].locked
  OBVIOUS
<1> HIDE DEF h
<1>5. \A u \in Users : \A m \in 1..Len(events') : For(u, m)' <=> For(u, m + 1)
  BY <1>1, <1>2 DEF For
<1>6. ASSUME NEW u \in Users, Paying(u)'
      PROVE  SparedBySweep(u)' /\ EndsActive(u)' /\ Unlocked(u)'
  <2>1. Paying(u)
    BY <1>1, <1>6 DEF Paying, SubsOf
  <2>2. SparedBySweep(u) /\ EndsActive(u) /\ Unlocked(u)
    BY <2>1 DEF AccessInv
  <2>3. ASSUME NEW m \in 1..Len(events'), LastFor(u, m)'
        PROVE  events'[m].status = "active"
    <3>1. m + 1 \in 1..Len(events) /\ For(u, m + 1)
      BY <1>2, <1>3, <1>5, <2>3 DEF LastFor
    <3>2. ASSUME NEW x \in 1..Len(events), x > m + 1 PROVE ~For(u, x)
      <4> PICK y \in 1..Len(events') : x = y + 1 /\ y > m
        <5>1. x - 1 \in 1..Len(events') /\ x = (x - 1) + 1 /\ x - 1 > m
          BY <1>2, <1>3, <3>2
        <5>2. QED BY <5>1
      <4>1. QED BY <1>5, <2>3 DEF LastFor
    <3>3. LastFor(u, m + 1)
      BY <3>1, <3>2 DEF LastFor
    <3>4. QED BY <1>2, <2>2, <3>1, <3>3 DEF EndsActive
  <2>4. ASSUME ~Waiting(u)'
        PROVE  /\ h.user = u => ~h.lock /\ (h.locked \/ ~mas[u].locked)
               /\ h.user # u => ~mas[u].locked
    <3>1. \A x \in 1..Len(events) : x > 1 => ~For(u, x)
      <4>1. ASSUME NEW x \in 1..Len(events), x > 1 PROVE ~For(u, x)
        <5> PICK y \in 1..Len(events') : x = y + 1
          <6>1. x - 1 \in 1..Len(events') /\ x = (x - 1) + 1
            BY <1>2, <1>3, <4>1
          <6>2. QED BY <6>1
        <5>1. QED BY <1>5, <2>4 DEF Waiting
      <4>2. QED BY <4>1
    <3>2. CASE w = u
      <4>1. LastFor(u, 1)
        BY <3>1, <3>2 DEF LastFor, For
      <4>2. events[1].status = "active"
        BY <1>3, <2>2, <4>1 DEF EndsActive
      <4>3. QED BY <1>4, <3>2, <4>2 DEF InGoodStanding
    <3>3. CASE w # u
      <4>1. ~Waiting(u)
        BY <1>3, <3>1, <3>3 DEF Waiting, For
      <4>2. QED BY <1>1, <1>4, <2>2, <3>3, <4>1 DEF Unlocked
    <3>4. QED BY <3>2, <3>3
  <2>5. Unlocked(u)'
    BY <1>1, <2>4 DEF Unlocked
  <2>6. QED BY <1>1, <2>2, <2>3, <2>5 DEF SparedBySweep, EndsActive
<1>7. (\A f, g \in hooks : f = g)' /\ OneLive'
  BY <1>1 DEF AccessInv, OneLive, Billed
<1>8. QED BY <1>6, <1>7 DEF AccessInv

\* A handler's write: unlocking the account it read, unless that was unlocked.
LEMMA HandlerStep ==
  ASSUME BillingType, AccessInv, NEW h \in hooks, WebhookSets(h), UNCHANGED faults
  PROVE  AccessInv'
<1>1. UNCHANGED <<subs, events, sweep>> /\ hooks' = hooks \ {h}
  BY DEF WebhookSets
<1>2. h.user \in Users /\ h.lock \in BOOLEAN /\ h.locked \in BOOLEAN
  BY DEF BillingType, Hook
<1>3. \A u \in Users :
        mas'[u].locked = IF h.lock # h.locked /\ u = h.user THEN h.lock ELSE mas[u].locked
  <2>1. CASE mas' = [mas EXCEPT ![h.user].locked = h.lock] /\ h.lock # h.locked
    BY <1>2, <2>1, AccountEdits DEF BillingType
  <2>2. QED BY <2>1 DEF WebhookSets, SetLock
<1>4. ASSUME faults \subseteq {"outage", "lag"}, NEW u \in Users, Paying(u)
      PROVE  (sweep'.step = "lock" => u \in sweep'.paying) /\ Unlocked(u)'
  <2>1. SparedBySweep(u) /\ Unlocked(u) /\ hooks' = {}
    BY <1>1, <1>4 DEF AccessInv
  <2>2. Waiting(u)' <=> Waiting(u)
    BY <1>1 DEF Waiting, For
  <2>3. ASSUME ~Waiting(u) PROVE ~mas'[u].locked
    <3>1. CASE h.user = u
      <4>1. ~h.lock /\ (h.locked \/ ~mas[u].locked)
        BY <2>1, <2>3, <3>1 DEF Unlocked
      <4>2. QED BY <1>2, <1>3, <3>1, <4>1
    <3>2. CASE h.user # u
      <4>1. \A g \in hooks : g.user # u
        BY <1>4, <3>2 DEF AccessInv
      <4>2. QED BY <1>3, <2>1, <2>3, <3>2, <4>1 DEF Unlocked
    <3>3. QED BY <3>1, <3>2
  <2>4. QED BY <1>1, <2>1, <2>2, <2>3 DEF SparedBySweep, Unlocked
<1>5. QED BY <1>1, <1>4, QuietStep

\* Every step keeps what the last delivery will do.
LEMMA AccessStep ==
  ASSUME BillingType, BillingType', SearchInv, AccessInv, [Next]_vars
  PROVE  AccessInv'
<1> SUFFICES ASSUME faults \subseteq {"outage", "lag"}, faults' = faults PROVE AccessInv'
  BY DEF AccessInv, Next, vars
<1>1. /\ "midsweep" \notin faults /\ "reorder" \notin faults /\ "resubscribe" \notin faults
      /\ "truncated" \notin faults
  OBVIOUS
<1>2. MayPay => sweep.step = "idle"
  BY <1>1 DEF MayPay, Idle
<1>3. ASSUME UNCHANGED <<subs, events, hooks>>,
             \A u \in Users : Paying(u) =>
               (sweep'.step = "lock" => u \in sweep'.paying) /\ (mas'[u].locked => mas[u].locked)
      PROVE  AccessInv'
  BY <1>3, QuietStep
<1>4. ASSUME UNCHANGED <<subs, events, hooks, sweep>>,
             \A u \in Users : mas'[u].locked => mas[u].locked
      PROVE  AccessInv'
  BY <1>3, <1>4 DEF AccessInv, SparedBySweep
<1>5. ASSUME NEW u \in Users, NEW i \in Subs, Checkout(u, i) PROVE AccessInv'
  <2>1. /\ Changed(i, "active") /\ "active" \in Status /\ subs[i].user = u
        /\ UNCHANGED <<mas, hooks, sweep>> /\ MayPay
        /\ \A j \in SubsOf(u) : subs[j].status = "canceled"
    BY <1>1, <1>5 DEF Checkout, Status
  <2>2. \A j \in Subs : /\ subs'[j].user = subs[j].user
                        /\ subs'[j].status = IF j = i THEN "active" ELSE subs[j].status
    BY <2>1, ChangedEffect
  <2>3. \A j \in Subs : subs[j].user = u => ~Billed(j)
    BY <2>1 DEF SubsOf, Billed
  <2>4. OneLive'
    BY <2>1, <2>2, <2>3 DEF AccessInv, OneLive, Billed
  <2>5. SparedBySweep(u)
    BY <1>2, <2>1 DEF SparedBySweep
  <2>6. QED BY <2>1, <2>4, <2>5, ChangeStep
<1>6. ASSUME NEW i \in Subs, NEW st \in {"active", "past_due", "canceled"}, Moves(i, st)
      PROVE  AccessInv'
  <2>1. /\ Changed(i, st) /\ st \in Status /\ UNCHANGED <<mas, hooks, sweep>>
        /\ Billed(i) /\ (st = "active" => MayPay)
    BY <1>6 DEF Moves, Status, Billed
  <2>2. \A j \in Subs : /\ subs'[j].user = subs[j].user
                        /\ subs'[j].status = IF j = i THEN st ELSE subs[j].status
    BY <2>1, ChangedEffect
  <2>3. OneLive'
    BY <2>1, <2>2 DEF AccessInv, OneLive, Billed
  <2> PICK v \in Users : v = subs[i].user
    BY DEF BillingType
  <2>4. Paying(v)' => st = "active"
    <3>1. ASSUME Paying(v)', st # "active" PROVE FALSE
      <4>1. PICK j \in Subs : subs'[j].user = v /\ subs'[j].status = "active"
        BY <3>1 DEF Paying, SubsOf
      <4>2. j # i /\ Billed(j) /\ subs[j].user = v
        BY <2>2, <3>1, <4>1 DEF Billed
      <4>3. QED BY <2>1, <4>2 DEF AccessInv, OneLive
    <3>2. QED BY <3>1
  <2>5. st = "active" => SparedBySweep(v)
    BY <1>2, <2>1 DEF SparedBySweep
  <2>6. QED BY <2>1, <2>3, <2>4, <2>5, ChangeStep
<1>7. CASE Sweeping \/ SweepFails
  <2>1. UNCHANGED <<subs, events, hooks>>
    BY <1>7 DEF Sweeping, SweepLists, SubscriptionIndex, SweepEnds, SweepLocks, SweepDeletes,
                SweepFails
  <2>2. CASE SweepLists \/ SweepEnds \/ SweepFails
    <3>1. mas' = mas /\ sweep'.step # "lock"
      <4>1. CASE SweepLists
        <5>1. PICK O, D : sweep' = [Idle EXCEPT !.step = "index", !.overdue = O, !.deletable = D]
          BY <4>1 DEF SweepLists
        <5>2. sweep'.step = "index"
          BY <5>1 DEF Idle
        <5>3. QED BY <4>1, <5>2 DEF SweepLists
      <4>2. CASE SweepEnds \/ SweepFails
        BY <4>2 DEF SweepEnds, SweepFails, Idle
      <4>3. QED BY <2>2, <4>1, <4>2
    <3>2. QED BY <1>3, <2>1, <3>1
  <2>3. CASE SubscriptionIndex
    <3> DEFINE P == {u \in Users : \E i \in Subs \cap SubsOf(u) : InGoodStanding(subs[i].status)}
               E == {u \in Users : Subs \cap SubsOf(u) # {}}
    <3>1. mas' = mas /\ sweep' = [sweep EXCEPT !.step = "lock", !.paying = P, !.everPaid = E,
                                               !.complete = Subs = Subs]
      BY <1>1, <2>3 DEF SubscriptionIndex
    <3>2. sweep'.paying = P
      <4> HIDE DEF P, E
      <4>1. QED BY <3>1 DEF BillingType, Sweep
    <3>3. \A u \in Users : Paying(u) => u \in sweep'.paying
      BY <3>2 DEF Paying, SubsOf, InGoodStanding
    <3>4. QED BY <1>3, <2>1, <3>1, <3>3
  <2>4. ASSUME NEW v \in Users, SweepLocks(v) PROVE AccessInv'
    <3>1. /\ sweep'.step = "lock" /\ sweep.step = "lock" /\ sweep'.paying = sweep.paying
          /\ mas' = IF v \in sweep.paying THEN mas ELSE SetLock(v, TRUE)
      BY <2>4 DEF SweepLocks, BillingType, Sweep
    <3>2. \A u \in Users : u \in sweep.paying => mas'[u].locked = mas[u].locked
      <4>1. CASE v \in sweep.paying
        BY <3>1, <4>1
      <4>2. CASE v \notin sweep.paying /\ mas' = [mas EXCEPT ![v].locked = TRUE]
        <5>1. \A u \in Users : mas'[u].locked = IF u = v THEN TRUE ELSE mas[u].locked
          BY <4>2, AccountEdits DEF BillingType
        <5>2. QED BY <4>2, <5>1
      <4>3. QED BY <3>1, <4>1, <4>2 DEF SetLock
    <3>3. \A u \in Users : Paying(u) => u \in sweep.paying
      BY <3>1 DEF AccessInv, SparedBySweep
    <3>4. QED BY <1>3, <2>1, <3>1, <3>2, <3>3
  <2>5. ASSUME NEW v \in Users, SweepDeletes(v) PROVE AccessInv'
    <3>1. sweep.step = "lock" /\ sweep'.paying = sweep.paying
      BY <2>5 DEF SweepDeletes, BillingType, Sweep
    <3>2. \A u \in Users : mas'[u].locked = mas[u].locked
      <4>1. CASE mas' = [mas EXCEPT ![v].gone = TRUE]
        BY <4>1, AccountEdits DEF BillingType
      <4>2. QED BY <2>5, <4>1 DEF SweepDeletes
    <3>3. \A u \in Users : Paying(u) => u \in sweep.paying
      BY <3>1 DEF AccessInv, SparedBySweep
    <3>4. QED BY <1>3, <2>1, <3>1, <3>2, <3>3
  <2>6. QED BY <1>7, <2>2, <2>3, <2>4, <2>5 DEF Sweeping
<1>8. CASE Handling
  <2>1. ASSUME NEW p \in pages, SuccessLooksUp(p) \/ Success(p) PROVE AccessInv'
    <3>1. UNCHANGED <<subs, events, hooks, sweep>>
      BY <2>1 DEF SuccessLooksUp, Success
    <3>2. \A u \in Users : mas'[u].locked => mas[u].locked
      <4>1. p[1] \in Users
        BY DEF BillingType
      <4>2. CASE mas' = [mas EXCEPT ![p[1]].locked = FALSE]
        BY <4>1, <4>2, AccountEdits DEF BillingType
      <4>3. QED BY <2>1, <4>2 DEF SuccessLooksUp, Success, SetLock
    <3>3. QED BY <1>4, <3>1, <3>2
  <2>2. QED BY <1>8, <2>1, DeliveryStep, HandlerStep DEF Handling
<1>9. CASE SearchCatchesUp \/ (\E p \in pages : SuccessFails(p)) \/ UNCHANGED vars
  BY <1>4, <1>9 DEF SearchCatchesUp, SuccessFails, vars
<1>10. ASSUME NEW u \in Users, DeleteAccount(u) \/ DeleteFails(u) PROVE AccessInv'
  BY <1>4, <1>10 DEF DeleteAccount, DeleteFails
<1>11. ASSUME NEW u \in Users, Age(u) \/ UnlinkUpstream(u) \/ Deactivate(u) PROVE AccessInv'
  <2>1. UNCHANGED <<subs, events, hooks, sweep>>
    BY <1>11 DEF Age, UnlinkUpstream, Deactivate
  <2>2. mas \in [Users -> Account]
    BY DEF BillingType
  <2>3. CASE Age(u)
    <3>1. \A v \in Users : mas'[v].locked = mas[v].locked
      BY <2>2, <2>3, AccountEdits DEF Age
    <3>2. QED BY <1>4, <2>1, <3>1
  <2>4. CASE UnlinkUpstream(u)
    <3>1. PICK b \in BOOLEAN : mas' = [mas EXCEPT ![u].linked = mas[u].linked /\ b]
      BY <2>4 DEF UnlinkUpstream
    <3>2. (mas[u].linked /\ b) \in BOOLEAN
      OBVIOUS
    <3>3. \A v \in Users : mas'[v].locked = mas[v].locked
      BY <2>2, <3>1, <3>2, AccountEdits
    <3>4. QED BY <1>4, <2>1, <3>3
  <2>5. CASE Deactivate(u)
    <3>1. \A v \in Users : mas'[v].locked = mas[v].locked
      BY <2>2, <2>5, AccountEdits DEF Deactivate
    <3>2. QED BY <1>4, <2>1, <3>1
  <2>6. QED BY <1>11, <2>3, <2>4, <2>5
<1>12. ASSUME NEW u \in Users, CancelSubscriptions(u), subs' = subs PROVE AccessInv'
  <2>1. UNCHANGED <<mas, hooks, sweep>>
    BY <1>12 DEF CancelSubscriptions
  <2>2. events' = events
    <3>1. ASSUME NEW j \in del[u].ids, subs[j].status # "canceled", Changed(j, "canceled")
          PROVE  FALSE
      <4>1. j \in Subs /\ "canceled" \in Status
        BY DEF BillingType, Deletion, Status
      <4>2. subs'[j].status = "canceled"
        BY <3>1, <4>1, ChangedEffect
      <4>3. QED BY <1>12, <3>1, <4>2
    <3>2. QED BY <1>12, <3>1 DEF CancelSubscriptions
  <2>3. QED BY <1>4, <1>12, <2>1, <2>2
<1>13. ASSUME NEW j \in Subs, Renewal(j) \/ \E v \in Users : Portal(v, j), subs' = subs
       PROVE  FALSE
  <2>1. PICK st \in Status : Changed(j, st) /\ st # subs[j].status
    BY <1>13 DEF Renewal, Portal, Status
  <2>2. subs'[j].status = st
    BY <2>1, ChangedEffect
  <2>3. QED BY <1>13, <2>1, <2>2
<1>14. QED
  <2>1. CASE subs' = subs
    BY <1>5, <1>7, <1>8, <1>9, <1>10, <1>11, <1>12, <1>13, <2>1 DEF Next
  <2>2. QED BY <1>5, <1>6, <2>1, StripeStep

-----------------------------------------------------------------------------
(* The theorems.                                                           *)

\* All of it together is inductive.
BillingInv == BillingType /\ SearchInv /\ SparedInv /\ UnbilledInv /\ AccessInv

\* Nobody has paid for anything yet.
LEMMA BillingInit ==
  ASSUME Init PROVE BillingInv
<1> USE BillingAssumption
<1>1. BillingType
  BY DEF Init, BillingType, Account, Status, Sweep, Idle, Deletion, NoDel
<1>2. \A i \in Subs : subs[i].status = "none" /\ found[i] = "none"
  BY DEF Init
<1>3. /\ \A u \in Users : /\ del[u] = NoDel /\ mas[u].gone = FALSE /\ mas[u].locked = FALSE
                          /\ erasedBy[u] = "none"
      /\ hooks = {} /\ events = <<>> /\ sweep = Idle
  BY DEF Init
<1>4. SearchInv
  BY <1>2, <1>3 DEF SearchInv, NoDel
<1>5. SparedInv
  BY <1>3 DEF SparedInv, Idle
<1>6. UnbilledInv
  BY <1>2 DEF UnbilledInv, Billed
<1>7. AccessInv
  <2>1. OneLive
    BY <1>2 DEF OneLive, Billed
  <2>2. \A u \in Users : ~Paying(u)
    BY <1>2 DEF Paying, SubsOf
  <2>3. QED BY <1>3, <2>1, <2>2 DEF AccessInv
<1>8. QED BY <1>1, <1>4, <1>5, <1>6, <1>7 DEF BillingInv

\* In every surrounding, the Worker, Stripe and MAS stay within the types and keep
\* what the three guarantees rest on.
THEOREM BillingConsistent == Spec => []BillingInv
<1>1. Init => BillingInv
  BY BillingInit
<1>2. BillingInv /\ [Next]_vars => BillingInv'
  BY TypeStep, SearchStep, SparedStep, UnbilledStep, AccessStep DEF BillingInv
<1>3. QED BY <1>1, <1>2, PTL DEF Spec

\* "Lock, never deactivate - except never-paid accounts": however the list of
\* subscriptions is cut off and whatever fails half-way, the sweep erases nobody
\* who ever had a subscription.
THEOREM CustomersSpared == Spec => []CustomersNotErased
<1>1. BillingInv => CustomersNotErased
  BY DEF BillingInv, SparedInv, CustomersNotErased
<1>2. QED BY <1>1, BillingConsistent, PTL

\* An erased account, and one whose deletion is past the cancellation, is billed
\* for nothing, whatever fails and is tried again.
THEOREM ErasedUnbilled == Spec => []NoBillingAfterErasure
<1>1. BillingInv => NoBillingAfterErasure
  <2> SUFFICES ASSUME BillingInv, faults \cap {"lag", "midsweep"} = {}, NEW u \in Users,
                      mas[u].gone \/ del[u].step \in {"unlink", "deactivate"},
                      NEW i \in SubsOf(u)
               PROVE  subs[i].status = "canceled"
    BY DEF NoBillingAfterErasure
  <2>1. i \in Subs /\ subs[i].user = u /\ subs[i].status \in Status \ {"none"}
    BY DEF SubsOf, BillingInv, BillingType
  <2>2. ~Billed(i)
    BY <2>1 DEF BillingInv, UnbilledInv, MayBill
  <2>3. QED BY <2>1, <2>2 DEF Billed, Status
<1>2. QED BY <1>1, BillingConsistent, PTL

\* Once every delivery is handled and no sweep runs, whoever pays is unlocked,
\* and /status says "active" when the search index is up to date.
THEOREM PayersActive == Spec => []PayingIsActive
<1>1. BillingInv => PayingIsActive
  <2> SUFFICES ASSUME BillingInv, faults \subseteq {"outage", "lag"}, Settled, NEW u \in Users,
                      Paying(u)
               PROVE  /\ ~mas[u].locked
                      /\ found = [i \in Subs |-> subs[i].status] => StatusOf(u) = "active"
    BY DEF PayingIsActive
  <2>1. ~Waiting(u)
    BY DEF Waiting, Settled
  <2>2. ~mas[u].locked
    BY <2>1 DEF BillingInv, AccessInv, Unlocked, Settled
  <2>3. PICK i \in Subs : subs[i].user = u /\ subs[i].status = "active"
    BY DEF Paying, SubsOf
  <2>4. QED BY <2>2, <2>3 DEF StatusOf
<1>2. QED BY <1>1, BillingConsistent, PTL
=============================================================================
