------------------------------- MODULE Billing -------------------------------
(***************************************************************************)
(* The billing Worker (billing/src/index.ts) between Stripe and the        *)
(* Matrix authentication service (MAS): checkout, the /success page, the   *)
(* subscription webhook, the daily sweep that locks unpaid accounts and    *)
(* erases never-paid ones, /delete-account and /status, with the app's     *)
(* side of them (ui/src/lib/billing.ts, components/TrialStatus.tsx).       *)
(*                                                                         *)
(* Worker invocations run concurrently and keep nothing between requests:  *)
(* every await is a point where another invocation, Stripe or a customer   *)
(* may act.  Stripe and MAS are external; their state is what the Worker   *)
(* reads back from them.                                                   *)
(***************************************************************************)
EXTENDS Integers, Sequences, FiniteSets

CONSTANTS Users,        \* accounts on the hosted homeserver
          Exempt,       \* admins and EXEMPT_USERNAMES
          MaxSubs,      \* bound: subscriptions ever created
          MaxHooks,     \* bound: webhook handlers at work at once
          MaxLapses,    \* bound: failed renewals and cancellations
          ApplyDeletes, \* DELETE_MODE = 'apply'
          Envs          \* the surroundings a behaviour may run in

Subs == 1..MaxSubs

\* reorder: webhook deliveries overlap, repeat and overtake each other;
\* resubscribe: a customer whose subscription is live or past due buys another; midsweep: a
\* payment lands while a sweep is running; truncated: the subscription list hits
\* its page cap; lag: the search index is behind the subscriptions; outage: a
\* request of the Worker fails.
Mishaps == {"reorder", "resubscribe", "midsweep", "truncated", "lag", "outage"}

ASSUME BillingAssumption ==
  /\ Exempt \subseteq Users
  /\ {MaxSubs, MaxHooks, MaxLapses} \subseteq Nat
  /\ ApplyDeletes \in BOOLEAN
  /\ Envs \subseteq SUBSET Mishaps

VARIABLES
  faults,   \* fixed: the mishaps of this behaviour
  mas,      \* MAS: per account its age (0 in trial, 1 past trial and grace, 2
            \* past DELETE_AFTER_DAYS too), locked_at, deactivated_at
  subs,     \* Stripe: who each subscription is for, and its status
  found,    \* Stripe: the statuses as the search index has them
  lapses,   \* Stripe: failed renewals and cancellations so far
  events,   \* webhook events waiting for delivery, oldest first
  hooks,    \* webhook handlers between their read and their write
  pages,    \* /success handlers between their read and their write
  sweep,    \* the sweep in progress
  del,      \* /delete-account in progress, per account
  erasedBy  \* history: who erased an account

vars == <<faults, mas, subs, found, lapses, events, hooks, pages, sweep, del, erasedBy>>

Idle == [step |-> "idle", overdue |-> {}, deletable |-> {}, paying |-> {},
         everPaid |-> {}, complete |-> TRUE]
NoDel == [step |-> "idle", ids |-> {}]

Init ==
  /\ faults \in Envs
  /\ mas = [u \in Users |-> [age |-> 0, locked |-> FALSE, gone |-> FALSE, linked |-> TRUE]]
  /\ subs \in [Subs -> [user : Users, status : {"none"}]]
  /\ found = [i \in Subs |-> "none"]
  /\ lapses = 0
  /\ events = <<>>
  /\ hooks = {} /\ pages = {} /\ sweep = Idle
  /\ del = [u \in Users |-> NoDel]
  /\ erasedBy = [u \in Users |-> "none"]

SubsOf(u) == {i \in Subs : subs[i].user = u /\ subs[i].status # "none"}
Paying(u) == \E i \in SubsOf(u) : subs[i].status = "active"
EverPaid(u) == SubsOf(u) # {}

-----------------------------------------------------------------------------
(* Time, customers and Stripe.                                             *)

Age(u) ==
  /\ mas[u].age < 2
  /\ mas' = [mas EXCEPT ![u].age = @ + 1]
  /\ UNCHANGED <<subs, found, lapses, events, hooks, pages, sweep, del, erasedBy>>

\* A subscription lapses; Stripe queues an event carrying the status of that
\* moment, and the search index has it at once unless it lags.
Changed(i, status) ==
  /\ subs' = [subs EXCEPT ![i].status = status]
  /\ events' = Append(events, [id |-> i, status |-> status])
  /\ found' = IF "lag" \in faults THEN found ELSE [found EXCEPT ![i] = status]

MayPay == sweep = Idle \/ "midsweep" \in faults

\* status: what the app's badge and gate are told.
StatusOf(u) ==
  IF mas[u].locked THEN "locked"
  ELSE IF \E i \in Subs : subs[i].user = u /\ found[i] = "active" THEN "active" ELSE "trial"

\* TrialBadge and TrialGate both lead to the checkout.
SubscribeOffered(u) == StatusOf(u) \in {"trial", "locked"}

\* /checkout or /subscribe, and the payment at Stripe.  The browser then opens
\* /success, or never does.
Checkout(u, i) ==
  /\ ~mas[u].gone /\ del[u] = NoDel /\ MayPay
  /\ \/ SubscribeOffered(u) /\ \A j \in SubsOf(u) : subs[j].status = "canceled"
     \/ "resubscribe" \in faults
  /\ subs[i] = [user |-> u, status |-> "none"]
  /\ Changed(i, "active")
  /\ pages' \in {pages, pages \cup {<<u, "redirected">>}}
  /\ UNCHANGED <<mas, lapses, hooks, sweep, del, erasedBy>>

\* A renewal fails, and is later retried with success or given up.
Renewal(i) ==
  /\ \/ subs[i].status = "active" /\ lapses < MaxLapses
        /\ Changed(i, "past_due") /\ lapses' = lapses + 1
     \/ subs[i].status = "past_due" /\ MayPay /\ Changed(i, "active") /\ UNCHANGED lapses
     \/ subs[i].status = "past_due" /\ Changed(i, "canceled") /\ UNCHANGED lapses
  /\ UNCHANGED <<mas, hooks, pages, sweep, del, erasedBy>>

\* authenticate: the homeserver vouches for the caller, whose own account it is,
\* locked or not.
Authenticated(u) == ~mas[u].gone

\* portal: the customer of a subscription the search finds, and there they cancel.
Portal(u, i) ==
  /\ Authenticated(u) /\ subs[i].user = u /\ found[i] # "none"
  /\ subs[i].status = "active" /\ lapses < MaxLapses
  /\ Changed(i, "canceled") /\ lapses' = lapses + 1
  /\ UNCHANGED <<mas, hooks, pages, sweep, del, erasedBy>>

SearchCatchesUp ==
  /\ found # [i \in Subs |-> subs[i].status]
  /\ found' = [i \in Subs |-> subs[i].status]
  /\ UNCHANGED <<mas, subs, lapses, events, hooks, pages, sweep, del, erasedBy>>

-----------------------------------------------------------------------------
(* Unlocking on payment, locking on lapse.                                 *)

SetLock(u, lock) == [mas EXCEPT ![u].locked = lock]

\* success: look the account up, then unlock it at once if it was locked.
SuccessLooksUp(p) ==
  /\ p[2] = "redirected"
  /\ pages' = (pages \ {p}) \cup {<<p[1], IF mas[p[1]].locked THEN "locked" ELSE "open">>}
  /\ UNCHANGED <<mas, subs, found, lapses, events, hooks, sweep, del, erasedBy>>

Success(p) ==
  /\ p[2] # "redirected"
  /\ pages' = pages \ {p}
  /\ mas' = IF p[2] = "locked" THEN SetLock(p[1], FALSE) ELSE mas
  /\ UNCHANGED <<subs, found, lapses, events, hooks, sweep, del, erasedBy>>

\* The failure is logged and the page served all the same.
SuccessFails(p) ==
  /\ "outage" \in faults
  /\ pages' = pages \ {p}
  /\ UNCHANGED <<mas, subs, found, lapses, events, hooks, sweep, del, erasedBy>>

InGoodStanding(status) == status = "active"   \* 'active' or 'trialing'

\* webhook: the event's own status decides; look the account up ...
Webhook(k) ==
  LET e == events[k]
      u == subs[e.id].user
  IN /\ Cardinality(hooks) < MaxHooks
     /\ "reorder" \in faults \/ (k = 1 /\ hooks = {})
     /\ hooks' = hooks \cup {[user |-> u, lock |-> ~InGoodStanding(e.status),
                              locked |-> mas[u].locked]}
     /\ \/ events' = SubSeq(events, 1, k - 1) \o SubSeq(events, k + 1, Len(events))
        \/ "reorder" \in faults /\ UNCHANGED events       \* delivered once more
     /\ UNCHANGED <<mas, subs, found, lapses, pages, sweep, del, erasedBy>>

\* Mutant: the webhook only ever locks.
NeverUnlocks(h) ==
  /\ hooks' = hooks \ {h}
  /\ mas' = IF h.lock THEN SetLock(h.user, TRUE) ELSE mas
  /\ UNCHANGED <<subs, found, lapses, events, pages, sweep, del, erasedBy>>

\* ... and lock or unlock if that is a change.
WebhookSets(h) ==
  /\ hooks' = hooks \ {h}
  /\ mas' = IF h.lock # h.locked THEN SetLock(h.user, h.lock) ELSE mas
  /\ UNCHANGED <<subs, found, lapses, events, pages, sweep, del, erasedBy>>

-----------------------------------------------------------------------------
(* The sweep.                                                              *)

\* Mutant: the grace period is applied twice.
GraceTwice ==
  /\ sweep = Idle
  /\ sweep' = [Idle EXCEPT
       !.step = "index",
       !.overdue = {u \in Users \ Exempt : ~mas[u].locked /\ mas[u].age >= 2},
       !.deletable = {u \in Users \ Exempt : mas[u].locked /\ ~mas[u].gone /\ mas[u].age = 2}]
  /\ sweep'.overdue \cup sweep'.deletable # {}
  /\ UNCHANGED <<mas, subs, found, lapses, events, hooks, pages, del, erasedBy>>

\* List the users, and who of them is overdue or deletable.
SweepLists ==
  /\ sweep = Idle
  /\ sweep' = [Idle EXCEPT
       !.step = "index",
       !.overdue = {u \in Users \ Exempt : ~mas[u].locked /\ mas[u].age >= 1},
       !.deletable = {u \in Users \ Exempt : mas[u].locked /\ ~mas[u].gone /\ mas[u].age = 2}]
  /\ sweep'.overdue \cup sweep'.deletable # {}
  /\ UNCHANGED <<mas, subs, found, lapses, events, hooks, pages, del, erasedBy>>

\* Mutant: a capped list counts as the whole list.
CapIgnored ==
  /\ sweep.step = "index"
  /\ \E S \in {Subs} \cup (IF "truncated" \in faults THEN SUBSET Subs ELSE {}) :
       sweep' = [sweep EXCEPT !.step = "lock",
         !.paying = {u \in Users : \E i \in S \cap SubsOf(u) : InGoodStanding(subs[i].status)},
         !.everPaid = {u \in Users : S \cap SubsOf(u) # {}}]
  /\ UNCHANGED <<mas, subs, found, lapses, events, hooks, pages, del, erasedBy>>

\* subscriptionIndex, read last.  A list that hits the page cap misses some.
SubscriptionIndex ==
  /\ sweep.step = "index"
  /\ \E S \in {Subs} \cup (IF "truncated" \in faults THEN SUBSET Subs ELSE {}) :
       sweep' = [sweep EXCEPT !.step = "lock",
         !.paying = {u \in Users : \E i \in S \cap SubsOf(u) : InGoodStanding(subs[i].status)},
         !.everPaid = {u \in Users : S \cap SubsOf(u) # {}},
         !.complete = S = Subs]
  /\ UNCHANGED <<mas, subs, found, lapses, events, hooks, pages, del, erasedBy>>

SweepLocks(u) ==
  /\ sweep.step = "lock" /\ u \in sweep.overdue
  /\ sweep' = [sweep EXCEPT !.overdue = @ \ {u}]
  /\ mas' = IF u \in sweep.paying THEN mas ELSE SetLock(u, TRUE)
  /\ UNCHANGED <<subs, found, lapses, events, hooks, pages, del, erasedBy>>

\* Deletion fails closed on an incomplete index and spares whoever ever paid.
SweepDeletes(u) ==
  LET erase == ApplyDeletes /\ sweep.complete /\ u \notin sweep.everPaid IN
  /\ sweep.step = "lock" /\ sweep.overdue = {} /\ u \in sweep.deletable
  /\ sweep' = [sweep EXCEPT !.deletable = @ \ {u}]
  /\ mas' = IF erase THEN [mas EXCEPT ![u].gone = TRUE] ELSE mas
  /\ erasedBy' = IF erase THEN [erasedBy EXCEPT ![u] = "sweep"] ELSE erasedBy
  /\ UNCHANGED <<subs, found, lapses, events, hooks, pages, del>>

SweepEnds ==
  /\ sweep.step = "lock" /\ sweep.overdue = {} /\ sweep.deletable = {}
  /\ sweep' = Idle
  /\ UNCHANGED <<mas, subs, found, lapses, events, hooks, pages, del, erasedBy>>

\* A request throws and the invocation is over; the next cron starts afresh.
SweepFails ==
  /\ "outage" \in faults /\ sweep # Idle
  /\ sweep' = Idle
  /\ UNCHANGED <<mas, subs, found, lapses, events, hooks, pages, del, erasedBy>>

-----------------------------------------------------------------------------
(* /delete-account.                                                        *)

\* Search: the subscriptions that are not canceled already.
DeleteAccount(u) ==
  /\ Authenticated(u) /\ del[u] = NoDel
  /\ del' = [del EXCEPT ![u] = [step |-> "cancel",
               ids |-> {i \in Subs : subs[i].user = u /\ found[i] \in {"active", "past_due"}}]]
  /\ UNCHANGED <<mas, subs, found, lapses, events, hooks, pages, sweep, erasedBy>>

\* Mutant: only the first subscription found is cancelled.
CancelsFirstOnly(u) ==
  /\ del[u].step = "cancel"
  /\ IF del[u].ids = {}
     THEN del' = [del EXCEPT ![u].step = "unlink"] /\ UNCHANGED <<subs, events, found>>
     ELSE LET i == CHOOSE j \in del[u].ids : TRUE IN
          /\ Changed(i, "canceled")
          /\ del' = [del EXCEPT ![u].ids = {}]
  /\ UNCHANGED <<mas, lapses, hooks, pages, sweep, erasedBy>>

\* Cancel every one of them, one request each.
CancelSubscriptions(u) ==
  /\ del[u].step = "cancel"
  /\ \/ del[u].ids = {} /\ del' = [del EXCEPT ![u].step = "unlink"]
        /\ UNCHANGED <<subs, events, found>>
     \/ \E i \in del[u].ids :
          /\ IF subs[i].status = "canceled" THEN UNCHANGED <<subs, events, found>>
             ELSE Changed(i, "canceled")
          /\ del' = [del EXCEPT ![u].ids = @ \ {i}]
  /\ UNCHANGED <<mas, lapses, hooks, pages, sweep, erasedBy>>

\* masUnlinkUpstream: best effort per link.
UnlinkUpstream(u) ==
  /\ del[u].step = "unlink"
  /\ del' = [del EXCEPT ![u].step = "deactivate"]
  /\ \E l \in {FALSE} \cup (IF "outage" \in faults THEN {TRUE} ELSE {}) :
       mas' = [mas EXCEPT ![u].linked = @ /\ l]
  /\ UNCHANGED <<subs, found, lapses, events, hooks, pages, sweep, erasedBy>>

Deactivate(u) ==
  /\ del[u].step = "deactivate"
  /\ del' = [del EXCEPT ![u] = NoDel]
  /\ mas' = [mas EXCEPT ![u].gone = TRUE]
  /\ erasedBy' = [erasedBy EXCEPT ![u] = IF mas[u].gone THEN @ ELSE "owner"]
  /\ UNCHANGED <<subs, found, lapses, events, hooks, pages, sweep>>

\* cancel_failed or deactivate_failed: the owner is told and may try again.
DeleteFails(u) ==
  /\ "outage" \in faults /\ del[u] # NoDel
  /\ del' = [del EXCEPT ![u] = NoDel]
  /\ UNCHANGED <<mas, subs, found, lapses, events, hooks, pages, sweep, erasedBy>>

-----------------------------------------------------------------------------
Sweeping ==
  \/ SweepLists \/ SubscriptionIndex \/ SweepEnds
  \/ \E u \in Users : SweepLocks(u) \/ SweepDeletes(u)

Handling ==
  \/ \E k \in 1..Len(events) : Webhook(k)
  \/ \E h \in hooks : WebhookSets(h)
  \/ \E p \in pages : SuccessLooksUp(p) \/ Success(p)

Next ==
  /\ UNCHANGED faults
  /\ \/ Sweeping \/ Handling \/ SweepFails \/ SearchCatchesUp
     \/ \E u \in Users : \/ Age(u) \/ \E i \in Subs : Checkout(u, i) \/ Portal(u, i)
                         \/ DeleteAccount(u) \/ CancelSubscriptions(u) \/ UnlinkUpstream(u)
                         \/ Deactivate(u) \/ DeleteFails(u)
     \/ \E i \in Subs : Renewal(i)
     \/ \E p \in pages : SuccessFails(p)

\* The cron fires daily and Stripe redelivers until it is answered.
Fairness == WF_vars(UNCHANGED faults /\ Sweeping) /\ WF_vars(UNCHANGED faults /\ Handling)

Spec == Init /\ [][Next]_vars /\ Fairness

-----------------------------------------------------------------------------
(* What the Worker promises.                                               *)

Settled == events = <<>> /\ hooks = {} /\ pages = {} /\ sweep = Idle

\* "Lock, never deactivate - except never-paid accounts": the sweep erases nobody
\* who ever had a subscription, however Stripe's list is cut off and whatever
\* fails half-way.
CustomersNotErased ==
  "midsweep" \notin faults =>
    \A u \in Users : erasedBy[u] = "sweep" => ~EverPaid(u)

\* deleteAccount: "cancel EVERY subscription ... leaving one live would keep
\* charging": an erased account is not billed, with several subscriptions and
\* with attempts that fail and are repeated; and an attempt that gets past the
\* cancellation may say "You are not being charged".
NoBillingAfterErasure ==
  faults \cap {"lag", "midsweep"} = {} =>
    \A u \in Users : mas[u].gone \/ del[u].step \in {"unlink", "deactivate"} =>
      \A i \in SubsOf(u) : subs[i].status = "canceled"

\* Once every delivery is handled, a customer in good standing has access and
\* /status says so.
PayingIsActive ==
  faults \subseteq {"outage", "lag"} /\ Settled =>
    \A u \in Users : Paying(u) /\ ~mas[u].gone =>
      ~mas[u].locked /\ (found = [i \in Subs |-> subs[i].status] => StatusOf(u) = "active")

\* The sweep reads Stripe last, and "anything that still slips through self-heals:
\* the subscription webhook and /success both unlock within seconds".
SelfHeals == Settled => \A u \in Users : Paying(u) /\ ~mas[u].gone => ~mas[u].locked

\* The trial ends: an account that is past trial and grace and not in good
\* standing is locked by some sweep, unless it pays first.
UnpaidGetsLocked ==
  \A u \in Users \ Exempt :
    (mas[u].age >= 1 /\ ~Paying(u) /\ faults \cap {"outage", "reorder"} = {})
      ~> (mas[u].locked \/ Paying(u) \/ mas[u].gone)
=============================================================================
