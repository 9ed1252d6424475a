# Verification of the collaborative tables application

This directory models the parts of the application in which several actors,
failures and message orders meet, checks them with TLC on small instances, and
proves the central results with TLAPS for every value of the constants.
Paths below are relative to the repository. `BM` is
`crates/app-core/src/bridge_matrix.rs`, `WS` is
`crates/app-core/src/workspace.rs`, `UA` is `ui/src/hooks/useAuth.ts`.

## 1. The system

A workspace is a set of tables in one end-to-end encrypted Matrix room. Every
edit is a *cell update* with a hybrid logical timestamp; updates travel as
batch events; a client's state is the last-writer-wins fold of the room's
timeline. The homeserver stores and orders encrypted events and knows who is in
the room; everything else is decided by clients. The Rust core is compiled to
WASM and, in the default set-up, runs in one SharedWorker that serves all tabs
of the browser; without SharedWorker each tab hosts its own client. A hosted
deployment adds one small server, the billing worker.

```
 sidebar, views, routes   (Catalogue)     sign-in, unlock, sign-out (Accounts)
 grid, board, entry form  (TableEditing)  recovery, passkeys, emoji (DeviceTrust)
    |                                     roles, links, lists       (Membership)
 tab 1   tab 2                    (WorkerState, StateFeed: requests, bundles, answers)
    \     /
  SharedWorker dispatcher         (WorkerRegistry: sessions and workspaces)
      |
  ConnectedWorkspace --- outbox record in IndexedDB      (SendQueue)
      |        |   \---- snapshot record in IndexedDB    (ColdStart)
   flush task  sync loop
      |        |
   Matrix room (homeserver, external) ---- other devices (Replication)

   Stripe, authentication service (external) --- billing worker (Billing)
```

### Inventory

| Component | State | Operations | Hard behaviour | Correct when |
|---|---|---|---|---|
| Cells (`cell.rs`, `table.rs`) | value, timestamp, origin_server_ts per cell | resolve, apply an update | order of application | the fold is independent of order and duplication |
| Clock and bumping writes (`WS`, `compaction.rs`) | `timestamp_counter` | draw, observe, write with refreshed cells | skewed wall clocks, reload | a later write beats what its author had seen |
| Send queue and outbox (`BM`, `worker/dispatch.ts`, `lib/outboxStore.ts`, `hooks/useTable.ts`) | coalescing queue, `flushing`, batch in flight, IndexedDB record | enqueue, flush, retry, revert, mirror, replay, clear | awaits between reading and using state; crash; lost answers | no edit disappears without being sent or refused |
| Cold start (`BM`, `snapshot.rs`, `tables-over-matrix/src/lib.rs`) | cells, marker, undecryptable list, snapshot | backward walk, save, load, retry, integrity check | late keys, reordered timestamps, crash between snapshots | the state has no hole that nobody reports |
| Sync loops (`BM`, `sync_watchdog.rs`) | the SDK client's sync token | request, respond, abandon, restart | two loops over one token, responses that leave events out | every event is delivered to the workspace |
| Worker registry (`worker/dispatch.ts`) | sessions, workspaces, builds in flight | restore, login, install, destroy, open | tabs acting at the same moment across awaits | one client per account, one workspace per room |
| Worker state (`worker/dispatch.ts`, `workerWorkspace.ts`, `client.ts`) | subscriptions, bundles | subscribe, read, write, push, leave | answers and pushes race | a tab reads its own writes, never goes back, gets every change |
| Table editing (`useTable.ts`, `TableView.tsx`, `KanbanView.tsx`, `EntryView.tsx`) | optimistic rows, recent edits, pending count, selection | edit, bulk edit, delete, drop, shadow row, form, columns | re-reads while writes are in flight | what is typed stays, what is shown ends up as stored |
| Fractional index (`fractionalIndex.ts`, `fractional_index.rs`) | none | key between two keys | adjacent and equal keys | the key lies strictly between |
| Tables, views, sidebar (`Sidebar.tsx`, `ViewRouter.tsx`, `App.tsx`, `KanbanView.tsx`, `views.rs`, `schema.rs`) | system tables; the sidebar's lists, the route, a board's draft | create, rename, delete, reorder, import, save, fork, regroup | lists and routes shown ahead of answers, others' changes, refusals | the shell settles on what is stored, nothing is undone on the way |
| Accounts (`UA`, `storeReaper.ts`, `atRestCrypto.ts`, `deviceKey.ts`) | account pool, device key, stores, gates, refs of a tab | sign in, restore, unlock, seal, switch, remove, sign out, refresh | every operation awaits several times; the tab may close at each | what is sealed opens, no store in use is deleted, no unreadable session goes live |
| Recovery, passkeys, verification (`UA`, `passkeyWrap.ts`, `VerifyDeviceScreen.tsx`, `BM`) | secret storage, wrap record, gates, verification | set up, show, enrol, unlock, rotate, reset, verify | two devices, closing at the wrong moment | the user holds the key in force, offered ways in work |
| Roles, invitations, links (`BM`, `invite.rs`, `matrix.rs`, `useAutoAdmit.ts`, `JoinPage.tsx`, `WorkspacesPage.tsx`) | members, roles, link uses, each client's store of them | change role, leave, delete, invite, mint, revoke, knock, admit, accept | every client decides from a lagging store | somebody can administer an occupied workspace, a link admits within its count, the door opens |
| Billing (`billing/src/index.ts`, `lib/billing.ts`) | Stripe's subscriptions, account locks | checkout, webhook, sweep, success page, deletion, status | concurrent invocations, a lagging search index | payers have access, others are locked, customers are not erased |
| Formulas, filters, CSV, CLI, local-only bridge, history, connection health, widgets, infrastructure | see `PROJECT.json` | | | |

`PROJECT.json` lists all of them with their files and status, and under
`hazards` the places in the code where an order of events, a crash or a limit
matters that a test would hardly reach.

## 2. Modules

| Module | Models | State |
|---|---|---|
| `CellLww` | cells, `resolve_lww`, applying a batch, observing timestamps, `merge_pending`, removal of what was sent | none (operators) |
| `SendQueue` | one client's send pipeline, from the edit to the room and the disk | memory, IndexedDB, room |
| `Replication` | several clients over one room | room; cells, clock, queue, flight, cursor per client |
| `ColdStart` | one device over many openings of one room | room, keys, token; walk, state, marker, snapshot |
| `WorkerRegistry` | the dispatcher's sessions and workspaces | the dispatcher's maps and everything that runs |
| `WorkerState` | tabs and the worker's pushes | ports, subscriptions, bundles |
| `StateFeed` | what the worker promises a tab (abstract) | version; what each tab shows and was told |
| `FractionalIndex` | `midpoint` and `keyBetween` | none (operators) |
| `TableEditing` | a table open in a tab | core, grid, calls in flight, conflict flags, form |
| `Catalogue` | sidebar, routes, saved views | store, what the tab reads, calls in flight, page |
| `Accounts` | the accounts of a browser profile | pool, stores, device key, worker, tabs |
| `DeviceTrust` | recovery, passkeys and verification on several devices | server secrets, wraps, devices, verifications |
| `Membership` | who is in a workspace and how they got in | room, every client's store, pages, link |
| `Billing` | the billing worker, Stripe and the authentication service | subscriptions, locks, handlers in progress |
| `SendQueue_proofs`, `Workspace_proofs`, `ColdStart_proofs`, `Worker_proofs`, `Billing_proofs`, `Membership_proofs`, `DeviceTrust_proofs`, `Accounts_proofs` | the theorems (section 4) | |
| `MC*` | instances for TLC: symmetry sets and the surroundings to check; other values are in the `.cfg` files | |

`map` in `PROJECT.json` ties every definition to the lines it models.
Definitions placed right before the one they resemble are plausible bugs: they
are used only to show that a property notices them.

JavaScript and WASM are single threaded: what happens between two awaits is one
action, in every module. A value that changes how the code runs but not during a
run (who hosts the client, whether a key exists, which mishap may happen) is a
record or set `env` chosen at the start from the constant `Envs`; a property that
holds only in some surroundings names them in its hypothesis, and section 3 says
what happens in the others.

### CellLww
A cell is a record of value, timestamp and server timestamp. `Option<u64>` is
encoded by 0 for `None`, which the comparison treats as the code's match does. A
missing cell is the record `Absent`, which every real update beats because the
clock never hands out timestamp 0. Batches, queues and tables are functions from
cell identifiers to cells.

### SendQueue
The awaits, and so the boundaries between actions, are the send
(`FlushWake`, `ServerAccepts`, `Sent`/`Retryable`/`Rejected`), the fetch of the
timeline after a rejection (`Revert`), the encryption of a save (`SealDone`) and
the IndexedDB transactions (`IdbCommit`, in the order they were created).
`UpdateCell` is `updateCell` with everything it calls: apply, enqueue, mirror,
schedule. `Crash` loses memory and uncommitted transactions; a request already
out may still land. `Open` is `openWorkspace` with replay, the save that the
queue listener starts and the clear that follows it. `env.host` chooses the
worker's mirror or the tab's, `env.sealed` whether an at-rest key exists,
`env.hang` whether a request may never settle.

### Replication
`UpdateCell` stamps the user's cell and any set of refreshed cells with
timestamps above the clock: the wall clock is arbitrary. `ServerAppends` is
external and gives an event an origin_server_ts at least `OtsGap` after the last
one. `SyncNext` delivers the next event, the client's own included. `Retryable`
after the event has landed is a lost answer, so that the batch is sent again as
a second event. `Reload` gathers the room and restores the queue or loses it.
`about` and the notes in the room's events are history variables: they record
what the author had seen and whether a cell was refreshed rather than edited,
and no action depends on them.

### ColdStart
An event is its stream position; it has the set of cells it writes and an
origin_server_ts that may trail the position by up to `env.skew`. Values are left
out: `have` is the set of events folded into the state, and a cell's value is
that of its newest event in there, which is what `CellLww`'s resolution gives
whatever the order of application. The room's writers are taken one at a time,
so stream order is timestamp order; concurrent writers are `Replication`'s
subject. `GatherPage` is one turn of `gather_history`'s loop with its three ends:
the start of the room, the marker with its grace margin, and coverage.
`SaveSnapshot` happens at any moment, as the debounced save does, and is one
step. `SyncResponse`, `SyncRestart` and `SessionSync` share the client's token.

### WorkerRegistry
`sessions` and `workspaces` are everything that was built and still runs (their
loops have no handle to stop them), `current` and `registered` the dispatcher's
maps. An open holds the session it found at its start across three awaits
(`OpenWorkspace`, `Created`, `Opened`).

### WorkerState and StateFeed
One ordered port per tab and direction. The workspace is a version number; a
bundle is the version and the set of tables whose rows it carries. The three
kinds of push are the deferred one (`DeferredPush`), the one before a write's
answer (`WriteDone`) and the one from the sync stream (`SyncChange`). `running`
holds writes that go on awaiting after their change is made, so answers may come
in another order than the writes.

`StateFeed` is what a tab can rely on without knowing any of that: the workspace
changes, a tab catches up to some newer state, is told of a change only when it
shows it, and an open tab does not stay behind for ever. `WorkerState` implements
it under the mapping that reads a tab's state off its bundle and what it was told
off its answered writes (`ImplementsFeed`).

### TableEditing and FractionalIndex
`core` is what the workspace handle answers now, `grid` what is on screen, and
`calls` the writes that have been made and not yet answered; a write is applied
to the core and answered in two steps (`ApplyWrite`, `WriteLands`), and the
worker's pushed bundle bumps `signal` in between. `SyncEffect` is the hook's
effect with its early return while a write is pending. Each user action is the
whole handler: `UpdateCell` patches the row, remembers the edit, calls and, when
it is the last in flight, re-reads. `DropLands` connects the drop handlers with
`midpoint`: a row ends where it was dropped only if keys stay splittable.

### Catalogue
`store` is the workspace as its client holds it and `seen` what the tab reads: the
same thing in a tab, the last pushed bundle under the worker. A call carries what
it was made with, is `Run` (applied, or refused when the room turns out not to be
encrypted) and answered later. `RunEffects` is the effect on the path and the
sync count. `Ask` and `Dismiss` are the prompts: what a rename writes depends on
whether the view is read before or after them.

### Accounts
The pool of accounts is in localStorage and every tab has a React copy of it. An
operation of a tab (`SignIn`, `RestoreSession`, `Unlock`, `SwitchAccount`, ...) is a record in
`tab[t].ops`, and each continuation after an await is a step, so another
operation, a token refresh or the end of the page may come between any two.
A data key is identified with the store it encrypts and a recovery key with the
generation of secret storage it belongs to, so that "opens" is an equation.

### DeviceTrust
`ssss` is the secret that opens secret storage, `wraps` the record of passkey
wraps in account data, `held` what the user has been shown and confirmed. The
gates of `VerifyDeviceScreen` are guards over a device's `prompt`. `sas` is an
incoming verification with the peer's half of the protocol (`PeerSteps`) as
external steps and the tick loop of `runVerificationLoop` as the code's.

### Membership
`room` is the homeserver's truth, `seen[u]` each client's store, brought up to
date only by `Sync(u)`. Every operation checks against `seen` and is accepted or
refused by `room`. `StartSweep`, `NextKnock`, `AdmitKnock` are `useAutoAdmit`'s
effect with its `handled` set and `admit_knock` with its two requests; `OpenLink`
to `FinishAccept` is the join page; `StartRefresh` and `FinishRefresh` the
workspace list's overlapping reads.

### Billing
Invocations keep nothing: `hooks`, `pages`, `sweep` and `del` are the handlers
between their reads and their writes. `found` is Stripe's search index, which may
trail `subs`.

## 3. Runs

### Passing

| Run | Checks | Instance |
|---|---|---|
| `send_queue` | what flies stays queued, a drained client shows the room, no edit leaves the disk early, the queue drains | the worker with a plain outbox, hung requests and 2 cells; the tab with an encrypted outbox, requests that settle and 1 cell; 2 values, clock 3, 1 outbox write in flight when an edit is made |
| `replication` | convergence, causal order, queued write shows | 2 clients, 2 cells that refresh each other, clock 2, 2 events |
| `cold_start` | no silent hole, an unreadable event is read in the end | three surroundings: 4 cells, 5 events and late keys; skew and grace 3; a gappy stream, a second loop, unrefreshed writes, retries. 2 openings |
| `worker_registry` | one session per account, one workspace per session and room, an answered open is usable | 2 accounts, 2 rooms, 3 sessions, 3 workspaces |
| `worker_state` | a tab reads its own writes, rows arrive, the whole implements `StateFeed` | 2 tabs, 1 table, 1 change |
| `editing` | in-flight edits stay on screen, a quiet screen shows what is stored, formula tables catch up, drops land, no false conflict | 3 rows, 2 values, base 4 digits, 3 user actions, 1 change by others; 15 surroundings |
| `catalogue` | the shell settles, a rename undoes nothing, a draft is kept | 2 tables, 2 views, 2 conditions, 2 columns; 6 surroundings of two requests, or one request and changes from elsewhere |
| `accounts` | sealed entries open, the save screen is safe, stores in use are kept, a silent restore reads, an unreadable session is gated | 1 tab, 2 accounts, 3 logins, 2 recovery keys, 2 device keys; password and OAuth undisturbed, then password accounts whose first sync fails or whose status does not settle, and mixed accounts with two operations of the tab at once |
| `devices` | the user holds the key in force, offered passkeys open, enrolments are kept, verifications end | 2 devices, 2 keys, 2 passkeys; 8 calm surroundings and 7 with mishaps |
| `membership` | no stranded workspace, uses cover admissions, the door opens, the list settles | 3 people; 12 surroundings |
| `billing` | customers are not erased, nobody erased is billed, payers are active, unpaid accounts get locked | 1 account, 2 subscriptions, 2 webhook handlers at once, 1 lapse; each mishap in turn |

### Why the bounds are enough to be interesting

*SendQueue.* A clock of 3 with two cells allows an edit, a second edit to the
same cell while the first is in flight, and a refresh of the other cell. Crash
and reopen are unbounded.

*Replication.* Two clients and two timestamps give concurrent edits, an edit
made after seeing another, and a tie; two events leave room for a batch sent
twice. The proofs remove the bounds.

*ColdStart.* The coverage stop is only wrong when a page has no new cell while
another cell has not been met, so there must be more cells than a page carries:
with four cells, two per event and one event per page, a page that could not be
read is one that the guard on unreadable events has to notice. With
`skew = grace = 3` an event can hide behind one whose timestamp is older than
the marker, so the margin itself is exercised; without the margin the property
fails. Two openings are what a snapshot and its use need. The proof removes these
bounds but for one: at most `3 * PageSize + 1` cells (section 4).

*WorkerRegistry.* Two accounts, two rooms and three sessions allow an account to
be replaced while it, or the other one, opens. Accounts that have signed in a
second time or out (`resigned`) are exempt from two of the properties, for which
the code makes no provision (see below); their steps interleave with the others'
all the same.

*WorkerState.* One change, by a tab or from the room, meets the three kinds of
push and the subscription on the way; it is liveness that keeps the bound low,
and the safety half of the refinement is proved for any number of changes. One
table suffices because tables do not interact in a push.

*TableEditing.* Three rows are what a drop between two others needs; base 4 and
three drops reach keys of several digits and gaps that must be split again. Three
actions allow a write to be in flight while a second is made and a third answer
arrives. Each surrounding pairs the handlers that share state.

*Catalogue.* Two requests overlap in every order of answers, or one with changes
from elsewhere; two tables are what an order and a fallback route need, two views
what an overtaken page needs.

*Accounts.* Two accounts make switching and removal possible, a third login a
store that replaces another. One tab is enough for the properties, whose races
are between the continuations of one page and its ends; a second tab's writes to
the pool are among the counterexamples below.

*DeviceTrust.* One device that has the key and one at the gate, or both set up at
the same time; two keys allow one rotation or reset, two passkeys an enrolment on
each device.

*Membership.* Three people are an admin, a successor and somebody outside. The
surroundings say who acts and what may go wrong, since all of it at once is out
of reach; each starts the handlers it is about.

*Billing.* One account suffices for what concerns one account; two subscriptions
are what resubscribing and cancelling "every subscription" need, two handlers an
overtaken delivery. The exemptions of administrators are a parameter (`Exempt`)
that the instance leaves empty.

Deadlock is checked for `SendQueue` and `Replication`. The others may stop: the
bounds on events, sessions, changes and actions end the behaviours, and tabs may
all have left.

### Fairness

* `SendQueue`: timers fire and awaited promises resume (weak fairness of the
  task's own steps); a send that is repeated for ever is accepted and answered
  now and then (strong fairness of `ServerAccepts` and `Sent`). The second is an
  assumption on the homeserver that the backoff loop is built on, not something
  the code brings about. Edits and crashes are never forced.
* `ColdStart`: the gather runs to its end; the sync loop is supervised by the
  watchdog and goes on; the banner of the in-tab client retries while something
  is unread; keys arrive; among the repeated fetches of a readable event one
  succeeds (strong fairness).
* `WorkerState`: messages on an open port are delivered, timers fire, a write's
  wait is bounded by the code. `StateFeed` asks that an open tab that is behind
  catches up.
* `DeviceTrust`: the ticks of the verification loop and the timer after success
  fire, and the other client goes on. The user is never obliged to do anything.
* `Membership`: syncs arrive, requests are answered, the pollers tick and the
  list's effects run. A sweep of the knocks is cut by a sync tick only, so it is
  not cut for ever (strong fairness of `NextKnock`). Of people it is assumed only
  that who was sent to the sign-in page signs in.
* `Billing`: the daily cron fires and goes on, and deliveries are handled, since
  Stripe repeats them.

`Replication`, `WorkerRegistry`, `Accounts`, `TableEditing` and `Catalogue` state
safety only; `ScreenSettles` and `ShellSettles` say what holds once nothing is
under way.

### The violation

`replication_stale_bump` checks one statement of `architecture.md` and finds a
behaviour of the code that contradicts it: a client refreshing a cell it has not
yet seen edited undoes the edit everywhere. The quotation is under `findings` in
`PROJECT.json`.

### Counterexamples that can be replayed

`tlc -config <cfg> <module>` shows each of these.

| Configuration | Property | What happens | Said otherwise at |
|---|---|---|---|
| `MCBillingMidSweep`, `MCBilling` | `SelfHeals` | A payment and its webhook land between the sweep's read of Stripe and its lock: the webhook finds nothing to unlock, the lock follows, and nothing unlocks the payer. | `billing/src/index.ts:626` |
| `MCDeviceTrustReveal`, `MCDeviceTrust` | `RevealedKeyOpens` | The account view shows the passkey's own output as the recovery key; secret storage is keyed with a random key, which the passkey only wraps. | `UA:1214` |
| `MCMembershipLimit`, `MCMembership` | `LimitHolds` | An admin's client that has not heard of a use admits on the old count. | `invite.rs:76` |
| `MCAccountsInterrupted`, `MCAccounts` | `NoPromptForRemoved` | An account removed while its restore awaits gets a gate raised by the continuation. | `UA:1825` |

### Where the properties stop

The hypotheses of the properties leave situations aside in which the code does
not keep them. Dropping the hypothesis, in the surroundings given, makes TLC show
each of these.

| Property | Surroundings | What happens | Said otherwise at |
|---|---|---|---|
| `FateKept` | encrypted outbox, `MaxWrites = 2` | Encrypted saves wait for the cipher before they open their transaction (`outboxStore.ts:96`), so an older save can commit last. | `dispatch.ts:424` |
| `FateKept` | the reopen's clear included | The clear that `openWorkspace` issues commits after the save that the replay started; the mirror then considers the queue saved, and until it is sent the replayed edit is only in memory (`dispatch.ts:509`). | `docs/adr/0003-optimistic-lww-reconciliation.md:71` |
| `DrainedShowsRoom` | refused writes included | An edit made while a rejected send fetches the timeline is hidden by the revert's newer timestamp here, and sent to everybody else (`BM:3288`). | `BM:3279` |
| `QueueDrains` | requests may hang | A send that never settles stops the queue until a reload (no timeout). | `docs/adr/0003-optimistic-lww-reconciliation.md:57` |
| `Convergence` | `OtsGap = 0`, `MaxTs = MaxEvents = 3`, one cell | Writes equal in both timestamps resolve by order of application (`cell.rs:75`), and a cold start applies backwards. | `WS:631`, `BM:1560` |
| `NoSilentHole` | 2 cells, 3 events, backlog 2, skew and grace 2, keys late at any time | The fast path does not count an unreadable event whose timestamp is older than the marker, although it came after the snapshot (`BM:1458`). | `BM:1462` |
| `NoSilentHole` | 3 cells, 3 events, backlog 1, one event per response | A sync response that leaves events out moves the marker past them (`BM:1640`). | `dispatch.ts:90` |
| `NoSilentHole` | 2 cells, 4 events, backlog 1, the session's loop running | A restarted workspace request begins where the session's loop has got to (`BM:1330`). | `sync_watchdog.rs:67` |
| `NoSilentHole` | 3 cells, 4 events, backlog 3, unrefreshed writes | Discrete operations refresh nothing, so a page without new cells need not mean coverage (`BM:1488`). | `BM:1365` |
| `NoSilentHole` | 5 cells, 8 events before the first open, one event per page | A page's cells have all been written again above it, while an older cell is still further back (`BM:1488`); needs more cells than `3 * PageSize + 1`. | `BM:1365` |
| `NoSilentHole` | retries, keys late at any time | The retry's end replaces the list and drops an entry added meanwhile (`BM:2830`). | `BM:2786` |
| `StuckIsRead` | no retries | The worker's proxy offers no `retryUndecryptable` (`workerWorkspace.ts:207`), so a late key helps only at the next open. | `EncryptionWarningBanner.tsx:24` |
| `SealedOpens`, `SilentRestoreReads` | password accounts, `"overlap"` | The sign-in form can be submitted while the restore with the device key awaits, since `loading` starts false for an encrypted entry (`UA:602`); what the restore then puts into the refs is not the login's. | `UA:882`, `UA:1090` |
| `SaveScreenIsSafe`, `GateWhenUnreadable` | password accounts, `"overlap"` | The same: the operation that finishes last decides the session and the gate, whichever account the other was about. | `VerifyDeviceScreen.tsx:591`, `UA:1619` |
| `OneWorkspacePerRoom` | as in `worker_registry` | Two accounts in one room get two workspaces over one outbox record (`dispatch.ts:466`). | `dispatch.ts:12` |
| `OneSessionPerAccount` | for all `Users` | A second sign-in builds a second client beside the first (`dispatch.ts:335`). | `dispatch.ts:8` |
| `OpenedIsUsable` | for all `Users` | A session replaced during an open leaves the workspace out of reach (`dispatch.ts:519`). | `useTable.ts:609` |

The other modules name their exceptions in the comments of the properties. What
lies behind them, as the models show it:

* *Editing.* A sync re-read passed over while a write is in flight is not made up
  for in a table without formulas (`useTable.ts:394`). A deletion that lands last
  reads nothing again. A refused write restores the whole row over other edits in
  flight and flags them. A drop reads before its write is applied, so a second
  drop can compute the same key; a board whose second write fails leaves the
  first. Under the worker the shadow row's refresh shows older values. A bulk
  selection survives a filter that hides its rows.
* *Catalogue.* A board that saves, regroups or applies settings reads the view it
  wrote when the answer comes, whichever board is then open
  (`KanbanView.tsx:387`). Saving a board writes the cached name and grouping over
  newer ones, and saving a deleted view brings it back. A new view under an
  existing view's name replaces it. `create_view` does not write an emptied
  filter list (`views.rs:265`). In an unencrypted room an in-tab change is
  applied, refused, and no list is told. Under the worker a rename can be made
  from a bundle that others' filters have not reached.
* *Accounts.* Switching to, or arriving from, an OAuth account inherits the
  at-rest keys in memory. Two tabs writing the pool lose one of the writes
  (`UA:1359`). A tab closed at the verify gate leaves a plain entry beside an
  encrypted store. Sign-out while a restore is in flight leaves the restored
  session live in the worker. `recoveryStatus` that does not settle lets an
  unreadable session through.
* *Recovery and devices.* A tab closed, or the key window dismissed, at the wrong
  moment leaves a key in force that the user never saw, or passkey wraps of the
  old key. Overlapping enrolments lose a wrap (`UA:823`), although
  `passkeyWrap.ts:84` promises otherwise. A verification that succeeds dismisses whatever gate is
  up (`UA:1306`). A cancelled verification comes back when the awaited step of
  the loop returns (`UA:1303`).
* *Membership.* Two admins leaving at once, or a successor who declines, strand a
  workspace. So does a departure that meets a link: the last one in the room
  leaves without naming a successor, or an admin deletes it, while somebody is
  being let in through the link (the proof of `NobodyStranded` failed there, and
  TLC then found the behaviour; the hypothesis had missed it). A stale store also refuses a departure that would be fine. A knock
  that failed once is never retried by the same client (`useAutoAdmit.ts`,
  `handled`), and editors' clients cannot admit although they try. Re-following a
  link as a member waits for ever. Revoking a link races its admissions: the use
  written last brings the link back.
* *Billing.* A delivery that overtakes a newer one, and the deletion of an old
  subscription after a new one was bought, lock a payer; an index cut off at the
  cap does too. Deletion and checkout go by the search index, which may lag.

## 4. Proofs

All theorems are about the specifications that TLC checks, without changes, and
hold for every set of cells, values and clients and every bound. The
assumptions are the named `ASSUME`s of the modules (types of the constants;
`CellIds` finite in `SendQueue`; `NoValue` is not a value; in `Membership` nobody
starts with two roles) and, where written in the theorem, `OtsGap >= 1`.

`SendQueue_proofs` and `Workspace_proofs` open with the lemmas on `CellLww`'s
resolution that they need: applying, merging and removing keep types, what stays
in a cell beats what was there and what came, the clock covers what it has
observed.

`SendQueue_proofs`
* `TypeCorrect` and `FlusherNeverMissing` are inductive as they stand; for the
  second, every step that fills the queue also schedules, and only a wake-up
  that finds the queue empty ends the task.
* `InFlightCovered` needs the types only: a batch is a copy of the queue, and the
  queue's timestamps do not go down while the batch flies.
* `FateKeptPlaintext` says that with a plaintext outbox no step drops an edit
  from the disk before it is in the room or refused, the reopen's clear excepted.
  A statement about one commit is not inductive, for the record that is replaced
  was written several steps before. `ChainInv` describes the whole chain of
  transactions: each waiting save is *settled* with respect to the record that
  will be on disk when it commits (`Links`), the queue in memory with respect to
  the last one (`LastLink`), and a batch that has landed is in the room. Room and
  refusals only grow (`NextGrows`), so links stay settled.
* `MirrorFaithful`: `MirrorInv` adds that the last queue handed over is the queue
  in memory and that it is the last transaction in the chain.
* `DrainedShows`: a client that has drained its queue shows the room. The hard
  part is a crash: after it the client shows the room again, but an older copy of
  an edit may come back from the disk, or land late, and must not undo a newer
  one. `DrainInv` therefore says that there is one log of what was ever written
  (`Recorded`: one value per cell and timestamp, none above the clock) which the
  room, the memory and every record on its way to the disk are copies out of, and
  that what a cell shows is in the room or queued (`Accounted`). Equal timestamps
  then mean equal values, wherever a copy has been.

`Workspace_proofs`, on `Replication`
* `ClockNeverBehind` and `CausalWritesWin` follow from `ClockInv`: the cursor is
  within the room, the clock covers what is shown, queued and received, and every
  note on a queued, flying or received write holds of the room. The causal order
  alone is not inductive: it speaks of events in the room, and their notes must
  already hold while the write is still in the queue.
* `QueuedShows` and `Converges` follow from `ShownInv`: what a client shows beats
  everything it has heard (`AboveHeard`); it comes from the room or from its own
  queue (`Origin`); what flies is queued (`FlightQueued`); queued writes bear no
  server timestamp (`PendingUnstamped`). For `Converges`, server timestamps grow
  along the room (`OtsIncreases`), so that two cells which beat each other are the
  same cell of the same event. This is where `OtsGap >= 1` is needed; without it
  the statement is false (section 3).

`Workspace_proofs`, on `Catalogue`
* `SidebarSettles` follows from `RereadDue`: the lists are right and the page is on
  nothing that is gone (`Settled`), or an effect is due, or a call is under way
  whose answer has the lists read again (`Rereads`). The property alone is not
  inductive: it says nothing while a deletion is shown ahead of its answer. A call
  of a tab's own store has changed what the tab reads before it is answered, so the
  invariant needs that only an integrity check ever waits there
  (`TabSettlesAtOnce`). A tab that finds its room unencrypted keeps a change with no
  such call, which is why the property leaves it out.
* `RenameKeepsView`: the call a rename makes is the only new one of its step
  (calls are numbered), and `WriteBack` shows that writing a view with the
  configuration just read, but for the name, changes the name only, empty lists
  included, although the code does not write those.
* `ConditionsKept`: `ScreenTypes` says that no view, no conditions; so the steps
  that leave a page lose none that are not the view's.

Of a table's identifier no type is kept: what the sidebar lists of a table comes out
of `SelectSeq`, whose induction is out of reach, and it is not needed, since an
identifier a workspace does not have changes nothing of it (`PutType`). The
assumptions used are that no view is called `None` and that a behaviour starts from
a well-typed store.

`ColdStart_proofs`: `NoHole` follows from `ColdStartCurrent`, whose invariant
`ColdInv` takes two arguments together.
* The marker. What a device holds is `Current` up to some position of the stream
  that its marker never passes. The snapshot has such a position (`SnapInv`), the
  walk one for what it has left behind (`WalkInv`), and a live workspace the one
  its sync has reached (`LiveInv`, `RetryInv` while a retry awaits). A crash falls
  back on the snapshot's.
* Coverage. A page without a fresh cell may end the walk because every write
  refreshes the stalest other cell (`RoomInv`). `CoverageSound` counts: were a
  written cell still behind the page, each event since would have refreshed some
  other cell, no cell twice while a staler one remained; two pages' worth of
  events and a page whose cells have all been written again above it then need
  `3 * PageSize + 2` cells.

Both speak of the newest of a set of positions, so `Max` and `Min` must have
values: `LeastNatural` gets that from the well-foundedness of `<`, and `MaxOf` and
`MinOf` from it. The bound on the cells was found by the attempt: the property had
none, the count did not close, and TLC produced the room with 5 cells of section 3.
So were the restrictions on late keys: those of the backlog may always be late,
those of any event only where no timestamp trails the stream and no retry is
offered.
The bound says how far the argument goes with one refresh per write, which is
what the model gives: a page is 1000 events in the code, and an edit of one cell
refreshes up to 16 others, which covers a room much sooner; an import that writes
many cells per event and refreshes few has no such margin.

`Worker_proofs`, about `WorkerState` and `WorkerRegistry`
* `TabReadsItsWrites` and `TabNeverGoesBack` follow from `PortInv`: on every port
  the states are in order and no older than what the tab shows, and every answer
  comes after a state that includes its write or is already included
  (`InOrder`). That the state precedes the answer needs the tab to be subscribed
  when its write is handled (`Subscribed`): its first request is the
  subscription, and only a goodbye, which an open tab does not send, ends it.
* `ImplementsStateFeed`: the initial states map to the feed's, and every step maps
  to one of the feed's steps or to none (`StepFeeds`). What a tab takes off its
  port is a state it may move to or a change it may be told of (`ReceiveFeeds`),
  which is what `PortInv` is for.
* `OneSession`, `OneWorkspace` and `OpenedWorks` follow from `RegistryInv`, which no
  one of them implies. A running workspace has a place (`WorkspaceInv`): the map of
  its session, or the open in flight that will put it there. An open in flight
  (`OpeningInv`) holds a session of its account whose place for the room is still
  free, the present one unless the account signed in again or out. And whatever
  builds a session is the only thing that can build one for that account
  (`CurrentInv`): a restore runs for a stored account, a login for one that was
  not.

`Billing_proofs`: each property has its own strengthening, and `BillingInv` is
their conjunction with the types.
* `CustomersSpared` (`SparedInv`): what the sweep read of who ever paid is still
  true when it deletes, and an erased account can buy nothing.
* `ErasedUnbilled` (`UnbilledInv`): a subscription that is still billed belongs to
  an account that exists, and is on the list of a deletion that is cancelling.
  This is why the list may be shortened only by what Stripe has cancelled.
* `PayersActive` (`AccessInv`): the last event under way for a paying account says
  that it pays (`EndsActive`), the handler that is between its read and its write
  will unlock it (`Unlocked`), and the sweep's list of payers has it
  (`SparedBySweep`). The property speaks only of moments when nothing is under
  way, so it says nothing inductive by itself.

`Membership_proofs`: an operation decides from its client's store and acts on the
room some awaits later, so the invariants say what each decision guarantees until
then. `UsesCovered` (`UsesInv`): the use about to be recorded is the link's next
one, and a recorded use belongs to the person about to be let in. `NobodyStranded`
(`StrandInv`): an operation on its way out knows who is in the room (`KnowsRoom`),
has only added admins (`Grants`), and leaves an admin or nobody behind
(`LedWithout`, `KickSafe`, `GoSafe`). The attempt to prove it showed that the
property's hypothesis was too weak (section 3); it now leaves departures that meet
a link aside.

`DeviceTrust_proofs`: the three properties speak of keys in six places (the
server's secret, the wraps, the user's memory, and per device a screen, an
operation and a shown reset). `TrustInv` says
* which of them a device may fill at each await and screen (`Sound`), so that an
  operation never meets another's key;
* where keys come from (`SourceInv`): none is newer than the last one generated,
  and a wrapped or typed key is one the user holds (`Given`);
* what an enrolment in flight carries (`EnrolInv`): one at a time, and with every
  wrap of the record, which is `EnrolmentsStay`;
* that every key carried is the one in force, and that while a reset clears the
  wraps only the device that resets knows the new key (`GateInv`), which is
  `PasskeysOpen`;
* and `HeldKeyOpens` itself, which is `HeldOpens`.

The module has many actions, and most of them do nothing to keys. `StepKinds`
proves once that every step is one of twelve kinds (a quiet step of one device, a
new key, a key confirmed, a wrap stored, ...); each part of the invariant then has
one proof per kind.

`Accounts_proofs`, for a profile with one open tab (`OneTab`; a second tab writes
its own copy of the pool, section 3): five properties out of one invariant,
`AccountsInv`, in three layers of which each relies on the one before.
* `StoreInv`, for every kind of account, failure and overlap: an open page shows
  the pool; every store an entry names exists, is its own account's and is not to
  be deleted (`Kept`); the store of a login under way is new and no two logins
  share one (`NewInv`). This is `StoresKept`. That a login's store is new takes the
  least unused number to exist, hence well-foundedness. It is false of a user who
  removes an account while an operation of it awaits, which brings the entry back.
* `PlainInv`: OAuth accounts seal nothing and no at-rest key is ever in memory,
  which makes `EnvelopeOpens` and `SilentRestores` empty of them, as they should be.
* `PasswordInv`, for password accounts and one operation of the tab at a time:
  what is in the refs belongs to the operation under way (`OpInv`, one case per
  operation) or to the gate that is up (`PromptInv`); the wraps and the blob of an
  entry are under one key, never that of a client that cannot read (`EntryInv`).
  Each of the last three properties adds what it needs in its own surroundings:
  that no gate is missing (`GateInv`, `GatesStand`), that an account has one store
  as long as no first sync fails (`OneStoreInv`, `SilentRestores`), and that the
  data key in memory is the session's own while a session is being steered to a
  gate (`KeyInv`, `EnvelopeOpens` and `SaveScreenSafe`).

A data key is known by the store it encrypts, so the layers above `StoreInv` need
its `Kept`: a new login's key is new because its store is. The proof has one lemma
per action; actions that only seal, only restore, or leave the entries as they are
share a lemma that says what such a step has to show (`SealStep`, `RestoreStep`,
`StoreStep`).

Only model-checked:
* everything temporal under fairness (`QueueDrains`, `StuckIsRead`, `RowsArrive`,
  the catching up in `ImplementsFeed`, `VerificationEnds`, `DoorOpens`,
  `ListSettles`, `UnpaidGetsLocked`), which the prover does not support;
* `TableEditing`, which computes drops with `FractionalIndex`; that module is
  recursive, which the prover cannot use either;
* `Accounts` with more than one tab and with mixed kinds of accounts, but for what
  `StoreInv` says of the latter;
* the violations, which are counterexamples.

## 5. Not modelled

* Values, formulas, filters and CSV: functions of values without state; the
  models tell values apart and no more. `TableEditing` has one computed column.
* Sizes: the byte budget of a write's refreshes and the limit of an event.
* Cryptography, WebAuthn, the SDK's verification machine, Stripe, the homeserver:
  external, as the code sees them. An encryption is an await, a key may come
  late, a request may be refused or its answer lost.
* History: `state_as_of`, `rollback_updates` and `record_revert` compute on a
  timeline that has been fetched and keep no state.
* The local-only bridge and the demo: the same workspace without a room.
* The CLI: one command per process over the same core; its own walk repeats the
  rules of `gather_history`.
* Connection health, rendering, keyboard navigation, cell widgets.
* Deployment scripts and the site.

Some hazards of the code join two modules: a token refreshed while edits are in
flight, an outbox record read without its key, two tabs mirroring their queues
into one record. They are listed with a note, as is what a module leaves out.

## 6. What is left

* Proofs: `InFlightShown` of `TableEditing`, once `FractionalIndex` is written with
  recursive functions.
* Deletion over the replicated cells: the schema rows' `deleted` and `deleted_at`,
  the cutoffs that reads and refreshes take from them (`WS:178`), and re-creation.
  The statement to aim at is that a re-created column or table shows nothing its
  deleter had seen; a refresh by a client that has not heard of the deletion is
  its hard case (`WS:501`).
* Compositions: `SendQueue` with the key's lifetime of `Accounts`, and with a
  second mirror; `Catalogue` over `StateFeed` instead of its own push.
* An abstract specification worth stating: a *durable register per cell*, to
  which an acknowledged write is eventually applied or reported as refused, with
  `SendQueue` (plain outbox, without the reopen's clear) as its implementation.
