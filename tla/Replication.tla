---------------------------- MODULE Replication ----------------------------
(***************************************************************************)
(* Several clients editing one workspace through one room timeline.        *)
(*                                                                         *)
(* Each client keeps materialised cells, a hybrid logical clock, the       *)
(* coalescing send queue and one batch in flight; the homeserver (external)*)
(* appends a batch to the room with its own timestamp; the sync stream     *)
(* hands every client the room's events in order, its own included; a      *)
(* reload gathers the room anew and replays the outbox.                    *)
(*                                                                         *)
(*   workspace.rs      next_timestamp, observe_timestamp, apply_update,    *)
(*                     update_cell_with_bump                               *)
(*   bridge_matrix.rs  create, startSync, enqueue_updates, flush_pending   *)
(*                                                                         *)
(* How the outbox survives a crash and what a rejected send does are       *)
(* SendQueue's subject, how the gather walks the timeline ColdStart's;     *)
(* here a reload restores the queue or loses it, and sees the whole room.  *)
(***************************************************************************)
EXTENDS CellLww, Sequences

CONSTANTS
  Clients,      \* devices with the workspace open
  CellIds,      \* cells of the workspace
  MaxTs,        \* bound on timestamps
  MaxEvents,    \* bound on the room's length
  OtsGap        \* least distance of two events' origin_server_ts

ASSUME ReplicationAssumption ==
  /\ MaxTs \in Nat /\ MaxEvents \in Nat
  /\ OtsGap \in Nat

VARIABLES
  room,       \* external: the timeline, a sequence of batch events
  cells,      \* per client: the materialised workspace
  clock,      \* per client: timestamp_counter
  pending,    \* per client: the send queue
  about,      \* per client: what is known of each queued write (history)
  flight,     \* per client: the batch being sent, with its history
  phase,      \* per client: "idle", "send", "landed"
  cursor      \* per client: how many room events the stream has delivered

vars == <<room, cells, clock, pending, about, flight, phase, cursor>>

Empty == [c \in CellIds |-> Absent]
Queue == [CellIds -> Cell]

(* History of a write, used by properties only: how many room events its   *)
(* author had applied, and whether it is a refresh rather than an edit.    *)
Note   == [seen : Nat, bump : BOOLEAN]
Notes  == [CellIds -> Note]
NoNote == [c \in CellIds |-> [seen |-> 0, bump |-> FALSE]]

\* The history of what is still queued.
Kept(q, notes) == [c \in CellIds |-> IF q[c] = Absent THEN NoNote[c] ELSE notes[c]]

Flight == [batch : Queue, about : Notes]
Event  == [batch : Queue, about : Notes, ots : Nat]

LastOts == IF room = << >> THEN 0 ELSE room[Len(room)].ots

At(i, c) == Received(room[i].batch[c], room[i].ots)

TypeOK ==
  /\ room \in Seq(Event)
  /\ cells \in [Clients -> Queue]
  /\ clock \in [Clients -> Nat]
  /\ pending \in [Clients -> Queue]
  /\ about \in [Clients -> Notes]
  /\ flight \in [Clients -> Flight]
  /\ phase \in [Clients -> {"idle", "send", "landed"}]
  /\ cursor \in [Clients -> Nat]

NoFlight == [batch |-> Empty, about |-> NoNote]

Init ==
  /\ room = << >>
  /\ cells = [k \in Clients |-> Empty]
  /\ clock = [k \in Clients |-> 0]
  /\ pending = [k \in Clients |-> Empty]
  /\ about = [k \in Clients |-> NoNote]
  /\ flight = [k \in Clients |-> NoFlight]
  /\ phase = [k \in Clients |-> "idle"]
  /\ cursor = [k \in Clients |-> 0]

---------------------------------------------------------------------------
(* The hybrid logical clock.  next_timestamp is max(counter + 1, now); the *)
(* wall clock is arbitrary (it may be skewed, or step back), so a draw is  *)
(* any timestamp above the counter.  Stamps(k, S, user) are the results of *)
(* drawing one timestamp per cell of S, the user's own cell first.         *)
Stamps(k, S, user) ==
  {s \in [S -> (clock[k] + 1)..MaxTs] :
     /\ \A c, d \in S : c # d => s[c] # s[d]
     /\ \A c \in S : s[user] <= s[c]}

(* update_cell_with_bump and enqueue_updates: the user's write and the     *)
(* refreshed cells (their current values under fresh timestamps) are       *)
(* applied and queued together.                                            *)
UpdateCell(k, user, v, bumps, s) ==
  LET S == bumps \cup {user}
      b == [c \in CellIds |->
              IF c = user THEN NewUpdate(v, s[c])
              ELSE IF c \in bumps THEN NewUpdate(cells[k][c].value, s[c])
              ELSE Absent]
  IN /\ \A c \in bumps : cells[k][c] # Absent
     /\ s \in Stamps(k, S, user)
     /\ cells' = [cells EXCEPT ![k] = ApplyBatch(@, b)]
     /\ \E n \in Observed(clock[k], b) : clock' = [clock EXCEPT ![k] = n]
     /\ pending' = [pending EXCEPT ![k] = MergePending(@, b)]
     /\ about' = [about EXCEPT ![k] =
          [c \in CellIds |-> IF c \in S THEN [seen |-> cursor[k], bump |-> c # user]
                             ELSE @[c]]]
     /\ UNCHANGED <<room, flight, phase, cursor>>

---------------------------------------------------------------------------
\* flush_pending: copy the queue and start the send.
FlushStart(k) ==
  /\ phase[k] = "idle" /\ pending[k] # Empty
  /\ flight' = [flight EXCEPT ![k] = [batch |-> pending[k], about |-> about[k]]]
  /\ phase' = [phase EXCEPT ![k] = "send"]
  /\ UNCHANGED <<room, cells, clock, pending, about, cursor>>

\* External: the homeserver stamps the event and appends it.
ServerAppends(k, ots) ==
  /\ phase[k] = "send" /\ Len(room) < MaxEvents
  /\ ots >= LastOts + OtsGap /\ ots >= 1
  /\ room' = Append(room, [batch |-> flight[k].batch, about |-> flight[k].about,
                           ots |-> ots])
  /\ phase' = [phase EXCEPT ![k] = "landed"]
  /\ UNCHANGED <<cells, clock, pending, about, flight, cursor>>

Sent(k) ==
  /\ phase[k] = "landed"
  /\ pending' = [pending EXCEPT ![k] = RemoveSent(@, flight[k].batch)]
  /\ about' = [about EXCEPT ![k] = Kept(RemoveSent(pending[k], flight[k].batch), @)]
  /\ phase' = [phase EXCEPT ![k] = "idle"]
  /\ flight' = [flight EXCEPT ![k] = NoFlight]
  /\ UNCHANGED <<room, cells, clock, cursor>>

\* The request failed, or its answer was lost after the event landed: the
\* queue still holds the batch and the next pass sends it as a new event.
Retryable(k) ==
  /\ phase[k] \in {"send", "landed"}
  /\ phase' = [phase EXCEPT ![k] = "idle"]
  /\ flight' = [flight EXCEPT ![k] = NoFlight]
  /\ UNCHANGED <<room, cells, clock, pending, about, cursor>>

---------------------------------------------------------------------------
\* startSync's callback for the next event of the room.
SyncNext(k) ==
  LET i == cursor[k] + 1
      b == [c \in CellIds |-> At(i, c)]
  IN /\ i <= Len(room)
     /\ cells' = [cells EXCEPT ![k] = ApplyBatch(@, b)]
     /\ \E n \in Observed(clock[k], b) : clock' = [clock EXCEPT ![k] = n]
     /\ cursor' = [cursor EXCEPT ![k] = i]
     /\ UNCHANGED <<room, pending, about, flight, phase>>

(* What create() materialises from the room: it walks backwards and        *)
(* applies each event it meets, so of two cells that tie completely the    *)
(* older one, applied last, stays.                                         *)
Gathered(m) ==
  \A c \in CellIds :
    \/ m[c] = Absent /\ \A i \in 1..Len(room) : At(i, c) = Absent
    \/ \E i \in 1..Len(room) :
         /\ m[c] = At(i, c) /\ At(i, c) # Absent
         /\ \A j \in 1..Len(room) :
              WinsOver(At(i, c), At(j, c)) /\ (WinsOver(At(j, c), At(i, c)) => i <= j)

Heard == {Absent} \cup {At(i, c) : i \in 1..Len(room), c \in CellIds}

\* Mutated form: the clock starts over after a reload.
SeedClockZero(m, q) == {0}

\* The replayed history and outbox seed the clock.
SeedClock(m, q) == UNION {Observed(n, q) : n \in Observed(0, m)}

\* Mutated form: the replayed writes are queued again but not shown.
ReplayedQueueOnly(m, q) == m

\* restorePendingUpdates applies the replayed writes before it queues them.
Replayed(m, q) == ApplyBatch(m, q)

\* A crash or reload and the cold start after it.  The outbox restores the
\* queue; saved is FALSE when its last write had not reached the disk.
Reload(k, m, saved) ==
  LET q == IF saved THEN pending[k] ELSE Empty
  IN /\ Gathered(m)
     /\ cells' = [cells EXCEPT ![k] = Replayed(m, q)]
     /\ \E n \in SeedClock(m, q) : clock' = [clock EXCEPT ![k] = n]
     /\ pending' = [pending EXCEPT ![k] = q]
     /\ about' = [about EXCEPT ![k] = Kept(q, @)]
     /\ phase' = [phase EXCEPT ![k] = "idle"]
     /\ flight' = [flight EXCEPT ![k] = NoFlight]
     /\ cursor' = [cursor EXCEPT ![k] = Len(room)]
     /\ UNCHANGED room

---------------------------------------------------------------------------
Edit(k) ==
  \E user \in CellIds, v \in Value :
    \E bumps \in SUBSET (CellIds \ {user}) :
      \E s \in Stamps(k, bumps \cup {user}, user) : UpdateCell(k, user, v, bumps, s)

Step(k) ==
  \/ Edit(k)
  \/ FlushStart(k)
  \/ \E ots \in (LastOts + OtsGap)..(LastOts + 1) : ServerAppends(k, ots)
  \/ Sent(k) \/ Retryable(k) \/ SyncNext(k)
  \/ \E m \in [CellIds -> Heard], saved \in BOOLEAN : Reload(k, m, saved)

Next == \E k \in Clients : Step(k)

Spec == Init /\ [][Next]_vars

---------------------------------------------------------------------------
(* Properties.                                                             *)

\* The clock is never behind a cell the client shows or has queued, so the
\* next local write wins against everything the client has seen
\* (observe_timestamp; "timestamps drawn later are strictly greater than any
\* already written", workspace.rs:220).
ClockCovers ==
  \A k \in Clients, c \in CellIds :
    /\ cells[k][c].timestamp <= clock[k]
    /\ pending[k][c].timestamp <= clock[k]

Quiet(k) == pending[k] = Empty /\ cursor[k] = Len(room)

\* Two clients with nothing left to send or to receive show the same values,
\* whatever the interleaving, the skew of their clocks, lost answers,
\* duplicate sends and reloads on the way (README: LWW convergence).
Convergence ==
  \A j, k \in Clients : Quiet(j) /\ Quiet(k) =>
    \A c \in CellIds : cells[j][c].value = cells[k][c].value

\* An edit made by someone who had seen another write to the same cell beats
\* it at every client: the clock respects what its owner has observed.
CausalOrder ==
  \A j \in 1..Len(room) : \A c \in CellIds :
    room[j].batch[c] # Absent =>
      \A i \in 1..Len(room) :
        i <= room[j].about[c].seen =>
          room[i].batch[c].timestamp < room[j].batch[c].timestamp

\* No client's own queued write is hidden by something older: what a client
\* shows for a cell it has queued is that write or a later one.
QueuedWriteShows ==
  \A k \in Clients, c \in CellIds :
    pending[k][c] # Absent =>
      cells[k][c] = pending[k][c] \/ WinsOver(cells[k][c], pending[k][c])

Winner(c, S) ==
  {i \in S : At(i, c) # Absent /\ \A j \in S : WinsOver(At(i, c), At(j, c))}

\* Refreshing stale cells changes no value: the room's winner for a cell is
\* the winner among the users' own edits ("No coordination required ... a bump
\* is just a regular cell.update with the same value", architecture.md:94).
BumpsChangeNothing ==
  \A c \in CellIds :
    LET edits == {i \in 1..Len(room) : ~room[i].about[c].bump}
    IN \A i \in Winner(c, 1..Len(room)), j \in Winner(c, edits) :
         room[i].batch[c].value = room[j].batch[c].value
=============================================================================
