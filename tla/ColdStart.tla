----------------------------- MODULE ColdStart -----------------------------
(***************************************************************************)
(* How one device comes to hold a room's state and keeps holding it: the   *)
(* backward walk over the timeline on open, bounded by the snapshot's      *)
(* marker and by coverage; the sync stream after it; the events it could   *)
(* not decrypt and their retries; the snapshot it leaves for the next      *)
(* open; the on-demand integrity check.                                    *)
(*                                                                         *)
(*   bridge_matrix.rs  initial_sync, create, gather_history, start_sync,   *)
(*                     sync_loop, snapshot, retry_undecryptable,           *)
(*                     check_integrity                                     *)
(*   snapshot.rs       is_fast_path_usable, integrity_diff                 *)
(*   tables-over-matrix lib.rs  backfill_caught_up, REORDER_GRACE_MS       *)
(*   workspace.rs      select_global_bump_candidates (what a write carries)*)
(*                                                                         *)
(* An event is its stream position; it carries a set of cells and an       *)
(* origin_server_ts. Values are left out: the device's state is the set    *)
(* `have` of events folded into it, a cell's value being that of its       *)
(* newest event there (CellLww shows that order of application is moot).   *)
(* The writers of the room are taken one at a time, so stream order is     *)
(* timestamp order; concurrent writers are Replication's subject.          *)
(***************************************************************************)
EXTENDS Integers, Sequences, FiniteSets, FiniteSetsExt

CONSTANTS
  Envs,           \* the surroundings the device may run in
  MaxOpens,       \* bound on how often the device opens the workspace
  PageSize        \* events per page of /messages

\* A room and a host. Numbers: how many cells are written, the room's final
\* length, the events it holds before the device first opens it,
\* REORDER_GRACE_MS, how far an event's origin_server_ts can trail the stream,
\* the events one sync response can carry. Switches: every write refreshes a
\* stalest other cell; which events can arrive before their key;
\* the host offers retryUndecryptable to the banner (the in-tab client does, the
\* worker's proxy does not); the session's own sync loop is running too.
Surroundings ==
  [cells : Nat, events : Nat, backlog : Nat, grace : Nat, skew : Nat,
   limit : Nat \ {0}, bumping : BOOLEAN, sealed : {"never", "backlog", "any"},
   retrying : BOOLEAN, session : BOOLEAN]

ASSUME ColdStartAssumption ==
  /\ Envs \subseteq Surroundings
  /\ MaxOpens \in Nat /\ PageSize \in Nat \ {0}

VARIABLES
  env,        \* the surroundings, fixed when the run starts
  room,       \* external: the timeline, in stream order
  locked,     \* external: events whose room key has not reached the device
  token,      \* external: the SDK client's sync token, shared by its loops
  phase,      \* "closed", "gather", "live"
  walk,       \* gather_history's locals
  have,       \* events folded into the workspace
  stuck,      \* ConnectedWorkspace::undecryptable
  marker,     \* ConnectedWorkspace::marker_ts
  since,      \* where the workspace loop's running sync request started
  retry,      \* retry_undecryptable's locals
  snap,       \* the persisted snapshot
  opens       \* how often the workspace has been opened

vars == <<env, room, locked, token, phase, walk, have, stuck, marker, since, retry,
          snap, opens>>

CellIds   == 1..env.cells
Positions == 1..Len(room)
Ots(i)    == room[i].ots
Writes(c) == {i \in Positions : c \in room[i].cells}
Newest(S) == IF S = {} THEN 0 ELSE Max(S)
Raised(m, S) == Newest({m} \union {Ots(i) : i \in S})

NoSnap  == [marker |-> 0, have |-> {}, unread |-> 0]
NoWalk  == [below |-> 0, seen |-> {}, fast |-> FALSE, stop |-> 0]
NoRetry == [on |-> FALSE, todo |-> {}, still |-> {}]

Init ==
  /\ env \in Envs
  /\ room = << >> /\ locked = {} /\ token = 0
  /\ phase = "closed" /\ walk = NoWalk
  /\ have = {} /\ stuck = {} /\ marker = 0 /\ since = 0
  /\ retry = NoRetry /\ snap = NoSnap /\ opens = 0

-----------------------------------------------------------------------------
(* The room, as other clients write it.                                    *)

Live == {c \in CellIds : Writes(c) # {}}

\* select_global_bump_candidates: the cells not refreshed for longest, the
\* one being written left aside.
Stalest(c) ==
  {b \in Live \ {c} : \A d \in Live \ {c} : Newest(Writes(b)) <= Newest(Writes(d))}

\* What one write puts on the wire: the user's cell, and a refreshed one.
Carried(c) ==
  IF env.bumping /\ Stalest(c) # {} THEN {{c, b} : b \in Stalest(c)} ELSE {{c}}

Append1(cells, late, sealed) ==
  LET n == Len(room) + 1 IN
  /\ room' = Append(room, [ots |-> n - late, cells |-> cells])
  /\ locked' = IF sealed THEN locked \union {n} ELSE locked

\* Cells are numbered in the order they are first written, which loses nothing:
\* no step tells one cell from another.
Arrive(c, late, sealed) ==
  /\ c <= Cardinality(Live) + 1
  /\ Len(room) < env.events
  /\ sealed => env.sealed = "any" \/ (env.sealed = "backlog" /\ Len(room) < env.backlog)
  /\ late <= Len(room)
  /\ \E cells \in Carried(c) : Append1(cells, late, sealed)
  /\ UNCHANGED <<env, token, phase, walk, have, stuck, marker, since, retry, snap, opens>>

\* A to-device key or a backup restore brings an event's key.
KeyArrives ==
  /\ \E i \in locked : locked' = locked \ {i}
  /\ UNCHANGED <<env, room, token, phase, walk, have, stuck, marker, since, retry, snap, opens>>

-----------------------------------------------------------------------------
(* Opening the workspace.                                                  *)

\* WorkspaceSnapshot::is_fast_path_usable
Usable(s) == s # NoSnap /\ s.unread = 0

\* What create starts from: the snapshot, or nothing.
Base(s) == IF Usable(s) THEN s ELSE NoSnap

\* The session's initial sync, then the head of ConnectedWorkspace::create.
Open ==
  /\ phase = "closed" /\ opens < MaxOpens /\ Len(room) >= env.backlog
  /\ opens' = opens + 1
  /\ phase' = "gather"
  /\ token' = Len(room)
  /\ have' = Base(snap).have
  /\ marker' = Base(snap).marker
  /\ walk' = [below |-> 0, seen |-> {}, fast |-> Usable(snap), stop |-> Base(snap).marker]
  /\ stuck' = {}
  /\ UNCHANGED <<env, room, locked, since, retry, snap>>

CaughtUp(page) ==
  walk.fast /\ page # {} /\ Min({Ots(i) : i \in page}) + env.grace < walk.stop

CoveredUnguarded(fresh, unread, seen) == fresh = {} /\ seen # {}

\* The page held no cell that a newer page had not, and nothing unreadable.
Covered(fresh, unread, seen) == fresh = {} /\ unread = {} /\ seen # {}

\* The unreadable events of a page that are counted.
Unread(page) == {i \in page \intersect locked : ~walk.fast \/ Ots(i) >= walk.stop}

\* One turn of gather_history's loop. The first page starts at the newest
\* event; when the walk is over the workspace exists and starts its own loop,
\* whose first request runs from the client's token.
GatherPage ==
  LET top   == IF walk.below = 0 THEN Len(room) ELSE walk.below - 1
      low   == Newest({1, top - PageSize + 1})
      page  == low..top
      read  == page \ locked
      cells == UNION {room[i].cells : i \in read}
      seen  == walk.seen \union cells
      done  == \/ low = 1
               \/ CaughtUp(page)
               \/ Covered(cells \ walk.seen, Unread(page), seen)
  IN
  /\ phase = "gather"
  /\ have' = have \union read
  /\ marker' = Raised(marker, read)
  /\ stuck' = stuck \union Unread(page)
  /\ phase' = IF done THEN "live" ELSE "gather"
  /\ walk' = IF done THEN NoWalk ELSE [walk EXCEPT !.below = low, !.seen = seen]
  /\ since' = IF done THEN token ELSE since
  /\ UNCHANGED <<env, room, locked, token, retry, snap, opens>>

-----------------------------------------------------------------------------
(* Following the room.                                                     *)

\* The timeline a sync from position p brings: the newest env.limit events.
Delivered(p) == {i \in Positions : i > p /\ i > Len(room) - env.limit}

\* start_sync's callback, and sync_loop going round for the next request.
SyncResponse ==
  LET new  == Delivered(since)
      read == new \ locked
  IN
  /\ phase = "live" /\ since < Len(room)
  /\ have' = have \union read
  /\ marker' = Raised(marker, read)
  /\ stuck' = stuck \union (new \intersect locked)
  /\ token' = Len(room)
  /\ since' = Len(room)
  /\ UNCHANGED <<env, room, locked, phase, walk, retry, snap, opens>>

\* The request fails or the watchdog drops it; after the backoff the loop asks
\* again, from whatever the client's token is by then.
SyncRestart ==
  /\ phase = "live" /\ since # token
  /\ since' = token
  /\ UNCHANGED <<env, room, locked, token, phase, walk, have, stuck, marker, retry, snap, opens>>

\* The session loop's response: the token moves, the workspace hears nothing.
SessionSync ==
  /\ env.session /\ phase # "closed" /\ token < Len(room)
  /\ token' = Len(room)
  /\ UNCHANGED <<env, room, locked, phase, walk, have, stuck, marker, since, retry, snap, opens>>

-----------------------------------------------------------------------------
(* Retrying what could not be read: the list is copied, each event is      *)
(* fetched again across an await, and the list is replaced at the end.     *)

RetryStart ==
  /\ env.retrying /\ phase = "live" /\ ~retry.on /\ stuck # {}
  /\ retry' = [on |-> TRUE, todo |-> stuck, still |-> {}]
  /\ UNCHANGED <<env, room, locked, token, phase, walk, have, stuck, marker, since, snap, opens>>

RetryRead(i) ==
  /\ retry.on /\ i \in retry.todo \ locked
  /\ retry' = [retry EXCEPT !.todo = @ \ {i}]
  /\ have' = have \union {i}
  /\ marker' = Raised(marker, {i})
  /\ UNCHANGED <<env, room, locked, token, phase, walk, stuck, since, snap, opens>>

\* The fetch failed, or the key is still missing.
RetryStillStuck(i) ==
  /\ retry.on /\ i \in retry.todo
  /\ retry' = [retry EXCEPT !.todo = @ \ {i}, !.still = @ \union {i}]
  /\ UNCHANGED <<env, room, locked, token, phase, walk, have, stuck, marker, since, snap, opens>>

RetryEndForgets ==
  /\ retry.on /\ retry.todo = {}
  /\ stuck' = {}
  /\ retry' = NoRetry
  /\ UNCHANGED <<env, room, locked, token, phase, walk, have, marker, since, snap, opens>>

RetryEnd ==
  /\ retry.on /\ retry.todo = {}
  /\ stuck' = retry.still
  /\ retry' = NoRetry
  /\ UNCHANGED <<env, room, locked, token, phase, walk, have, marker, since, snap, opens>>

-----------------------------------------------------------------------------
(* Snapshot, integrity check, end of the process.                          *)

SaveSnapshot ==
  /\ phase = "live"
  /\ snap' = [marker |-> marker, have |-> have, unread |-> Cardinality(stuck)]
  /\ UNCHANGED <<env, room, locked, token, phase, walk, have, stuck, marker, since, retry, opens>>

\* check_integrity: a full walk into a workspace of its own, whose winning
\* cells are applied where the device has none or an older one.
CheckIntegrity ==
  /\ phase = "live"
  /\ have' = have \union
       {i \in Positions \ locked :
          \E c \in room[i].cells : i = Newest(Writes(c) \ locked)}
  /\ UNCHANGED <<env, room, locked, token, phase, walk, stuck, marker, since, retry, snap, opens>>

Crash ==
  /\ phase # "closed"
  /\ phase' = "closed" /\ walk' = NoWalk /\ retry' = NoRetry
  /\ have' = {} /\ stuck' = {} /\ marker' = 0 /\ since' = 0
  /\ UNCHANGED <<env, room, locked, token, snap, opens>>

Retry == RetryStart \/ RetryEnd \/ \E i \in retry.todo : RetryRead(i) \/ RetryStillStuck(i)

Next ==
  \/ \E c \in CellIds, late \in 0..env.skew, sealed \in BOOLEAN : Arrive(c, late, sealed)
  \/ KeyArrives
  \/ Open \/ GatherPage
  \/ SyncResponse \/ SyncRestart \/ SessionSync
  \/ Retry
  \/ SaveSnapshot \/ CheckIntegrity
  \/ Crash

Spec == Init /\ [][Next]_vars

\* The last event that can be unreadable to a reader that can retry.
LastSealed ==
  Newest({IF e.sealed = "backlog" THEN e.backlog ELSE e.events : e \in {f \in Envs : f.retrying}})

\* The gather runs to its end, the sync loop is supervised, the banner retries
\* for as long as something is unread, and sooner or later a key arrives and a
\* fetch of a readable event succeeds.
Fairness ==
  /\ WF_vars(GatherPage)
  /\ WF_vars(SyncResponse)
  /\ WF_vars(KeyArrives)
  /\ WF_vars(RetryStart) /\ WF_vars(RetryEnd)
  /\ \A i \in 1..LastSealed : SF_vars(RetryRead(i)) /\ WF_vars(RetryStillStuck(i))

FairSpec == Spec /\ Fairness

-----------------------------------------------------------------------------
(* Properties.                                                             *)

\* Where the walk's two early stops are sound.  Every write refreshes, and the
\* cells are few enough for a page without fresh ones to mean that the refreshes
\* have been all round: with one more, those of the page can have been written
\* again since, and a cell older than the page is never reached.  The clocks trail
\* by no more than the grace margin, no sync response leaves a gap, one loop
\* follows the room.  Where events come unreadable at any time, no retry awaits a
\* fetch meanwhile, and none is older than a marker set before it.
Undisturbed ==
  /\ env.bumping /\ env.cells <= 3 * PageSize + 1
  /\ env.skew <= env.grace
  /\ env.limit >= env.events /\ ~env.session
  /\ env.sealed = "any" => env.skew = 0 /\ ~env.retrying

\* In such surroundings a live workspace has no silent hole: for every cell the
\* room held when the sync stream last answered, the newest event writing it has
\* been applied, or is listed as unreadable so that the banner shows and the next
\* open walks the whole room (gather_history's marker and coverage stops,
\* start_sync, retry_undecryptable, snapshot).
NoSilentHole ==
  Undisturbed /\ phase = "live" =>
    \A c \in CellIds :
      LET known == {i \in Writes(c) : i <= since} IN
      known # {} => \E i \in Writes(c) : i >= Max(known) /\ i \in have \union stuck

\* Where the host offers the retry, what could not be read is read in the end: an
\* event on the list is applied once its key is there, unless the workspace is
\* closed first (retry_undecryptable, called while the banner is up).
StuckIsRead ==
  env.retrying => \A i \in 1..LastSealed : (i \in stuck) ~> (i \in have \/ phase = "closed")
=============================================================================
