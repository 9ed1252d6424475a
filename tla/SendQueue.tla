----------------------------- MODULE SendQueue -----------------------------
(***************************************************************************)
(* The durable send pipeline of one browser client: an edit is applied     *)
(* locally, coalesced into the pending queue, mirrored to the IndexedDB    *)
(* outbox, flushed to the room by one background task, and replayed from   *)
(* the outbox after a crash or reload.                                     *)
(*                                                                         *)
(*   bridge_matrix.rs   updateCell, enqueue_updates, schedule_flush,       *)
(*                      flush_pending, send_batch, restorePendingUpdates   *)
(*   worker/dispatch.ts persistOutbox, openWorkspace (host "worker")     *)
(*   hooks/useTable.ts  the same duties in the tab   (host "tab")        *)
(*   lib/outboxStore.ts saveOutbox / loadOutbox / clearOutbox              *)
(*                                                                         *)
(* JavaScript and WASM are single-threaded, so everything between two      *)
(* awaits is one step; the awaits are the send, the timeline fetch of a    *)
(* rejected send, encryptString, and the IndexedDB transactions.           *)
(***************************************************************************)
EXTENDS CellLww, Sequences, FiniteSets

CONSTANTS
  CellIds,          \* cells of the workspace
  MaxTs,            \* bound on the logical clock
  MaxWrites,        \* bound on outbox writes in flight when an edit is made
  Envs              \* the surroundings the client may run in

\* Who owns the queue (the SharedWorker, or the tab as a fallback); whether an
\* at-rest key exists, so that outbox saves are encrypted first; whether a
\* request may never settle (sync_watchdog.rs: sends have no timeout); the cells
\* the user edits.
Surroundings ==
  [host : {"worker", "tab"}, sealed : BOOLEAN, hang : BOOLEAN, cells : SUBSET CellIds]

ASSUME SendQueueAssumption ==
  /\ MaxTs \in Nat /\ MaxWrites \in Nat
  /\ IsFiniteSet(CellIds)
  /\ Envs \subseteq Surroundings

VARIABLES
  env,          \* the surroundings, fixed when the client starts
  alive,        \* the worker (or tab) and its memory exist
  cells,        \* the materialised workspace
  clock,        \* Workspace::timestamp_counter
  pending,      \* the coalescing queue, ConnectedWorkspace::pending
  flush,        \* where the flush task is; "idle" is flushing == false
  batch,        \* the queue snapshot the flush task is sending
  lastOutbox,   \* last queue handed to saveOutbox: << >> or << queue >>
  sealing,      \* saves inside encryptString
  idb,          \* outbox transactions in IndexedDB's FIFO order
  outbox,       \* the persisted record
  room,         \* external: the room's winning cell per id
  refused,      \* newest timestamp per cell the server permanently rejected
  dirty,        \* a rejected write could not be reverted (timeline fetch failed)
  cleared       \* the last committed outbox transaction was the reopen's clear

memory == <<cells, clock, pending, flush, batch, lastOutbox>>
disk   == <<sealing, idb, outbox, cleared>>
vars   == <<env, alive, memory, disk, room, refused, dirty>>

Empty == [c \in CellIds |-> Absent]
Queue == [CellIds -> Cell]

FlushState == {"idle", "sleep", "send", "landed", "revert", "hung"}

Save(q) == [kind |-> "save", queue |-> q]
Clear   == [kind |-> "clear", queue |-> Empty]
Write   == [kind : {"save", "clear"}, queue : Queue]

OriginTs == 1     \* one writer: server timestamps never decide anything here

MaxOf(a, b) == IF a >= b THEN a ELSE b

TypeOK ==
  /\ env \in Surroundings
  /\ alive \in BOOLEAN
  /\ cells \in Queue /\ pending \in Queue /\ batch \in Queue
  /\ outbox \in Queue /\ room \in Queue
  /\ clock \in Nat
  /\ flush \in FlushState
  /\ lastOutbox \in Seq(Queue) /\ Len(lastOutbox) <= 1
  /\ sealing \subseteq Queue
  /\ idb \in Seq(Write)
  /\ refused \in [CellIds -> Nat]
  /\ dirty \in BOOLEAN /\ cleared \in BOOLEAN

Init ==
  /\ env \in Envs
  /\ alive = FALSE
  /\ cells = Empty /\ pending = Empty /\ batch = Empty
  /\ clock = 0 /\ flush = "idle" /\ lastOutbox = << >>
  /\ sealing = {} /\ idb = << >> /\ outbox = Empty /\ cleared = FALSE
  /\ room = Empty
  /\ refused = [c \in CellIds |-> 0]
  /\ dirty = FALSE

---------------------------------------------------------------------------
(* persistOutbox / the tab's mirror: skip an unchanged queue, otherwise    *)
(* start saveOutbox.  A non-empty queue is encrypted before its            *)
(* transaction is opened; an empty one goes straight to clearOutbox.       *)
StartSave(q) ==
  IF env.sealed /\ q # Empty
  THEN sealing' = sealing \cup {q} /\ UNCHANGED idb
  ELSE idb' = Append(idb, Save(q)) /\ UNCHANGED sealing

Mirror(q) ==
  IF lastOutbox = <<q>>
  THEN UNCHANGED <<lastOutbox, sealing, idb>>
  ELSE lastOutbox' = <<q>> /\ StartSave(q)

\* schedule_flush: start the task unless one is running.
ScheduleFlush == flush' = IF flush = "idle" THEN "sleep" ELSE flush

---------------------------------------------------------------------------
(* updateCell: apply the write, and the stale cell it refreshes, under     *)
(* fresh timestamps; enqueue both; mirror; schedule.  bump = c is a write  *)
(* with nothing to refresh.  Which cells are refreshed is ColdStart's      *)
(* subject.                                                                *)
UpdateCell(c, v, bump) ==
  LET b == [d \in CellIds |->
              CASE d = c -> NewUpdate(v, clock + 1)
                [] d = bump /\ d # c -> NewUpdate(cells[d].value, clock + 2)
                [] OTHER -> Absent]
  IN /\ alive
     /\ (IF bump = c THEN clock + 1 ELSE clock + 2) <= MaxTs
     /\ Len(idb) + Cardinality(sealing) < MaxWrites
     /\ bump = c \/ cells[bump] # Absent
     /\ cells' = ApplyBatch(cells, b)
     /\ clock' = IF bump = c THEN clock + 1 ELSE clock + 2
     /\ pending' = MergePending(pending, b)
     /\ Mirror(pending')
     /\ ScheduleFlush
     /\ UNCHANGED <<env, alive, batch, outbox, cleared, room, refused, dirty>>

---------------------------------------------------------------------------
(* flush_pending, from one sleep to the next.                              *)

\* Mutated form: the queue is drained into the batch before the send.
TakeDraining == batch' = pending /\ pending' = Empty

\* The queue is copied, not drained: the entries stay while the send flies.
Take == batch' = pending /\ UNCHANGED pending

FlushWake ==
  /\ alive /\ flush = "sleep"
  /\ IF pending = Empty
     THEN flush' = "idle" /\ UNCHANGED <<pending, batch>>
     ELSE flush' = "send" /\ Take
  /\ UNCHANGED <<env, alive, cells, clock, lastOutbox, disk, room, refused, dirty>>

\* External: the homeserver appends the batch event; the answer is still out.
ServerAccepts ==
  /\ alive /\ flush = "send"
  /\ room' = ApplyBatch(room, ReceivedBatch(batch, OriginTs))
  /\ flush' = "landed"
  /\ UNCHANGED <<env, alive, cells, clock, pending, batch, lastOutbox, disk, refused, dirty>>

\* SendOutcome::Sent.
Sent ==
  /\ alive /\ flush = "landed"
  /\ pending' = RemoveSent(pending, batch)
  /\ Mirror(pending')
  /\ batch' = Empty
  /\ flush' = "sleep"
  /\ UNCHANGED <<env, alive, cells, clock, outbox, cleared, room, refused, dirty>>

\* SendOutcome::Retryable, before the server saw the event or after (the
\* answer was lost): nothing was drained, so the task only backs off.
Retryable ==
  /\ alive /\ flush \in {"send", "landed"}
  /\ batch' = Empty
  /\ flush' = "sleep"
  /\ UNCHANGED <<env, alive, cells, clock, pending, lastOutbox, disk, room, refused, dirty>>

\* SendOutcome::Rejected: a permanent error.  The timeline is fetched next.
Rejected ==
  /\ alive /\ flush = "send"
  /\ flush' = "revert"
  /\ UNCHANGED <<env, alive, cells, clock, pending, batch, lastOutbox, disk, room, refused, dirty>>

(* The rest of the Rejected arm: the fetched timeline's value of every     *)
(* rejected cell is applied locally under a fresh timestamp (drawn in the  *)
(* batch's arbitrary order) and never enqueued; a failed fetch skips that. *)
(* Then the entries are dropped and the queue is mirrored.                 *)
InBatch == {c \in CellIds : batch[c] # Absent}

FreshStamps == {s \in [InBatch -> (clock + 1)..(clock + Cardinality(InBatch))] :
                  \A c, d \in InBatch : c # d => s[c] # s[d]}

ConvergedValues(s) ==
  [c \in CellIds |-> IF c \in InBatch THEN NewUpdate(room[c].value, s[c]) ELSE Absent]

Revert(fetched) ==
  /\ alive /\ flush = "revert"
  /\ IF fetched
     THEN /\ clock + Cardinality(InBatch) <= MaxTs
          /\ clock' = clock + Cardinality(InBatch)
          /\ \E s \in FreshStamps : cells' = ApplyBatch(cells, ConvergedValues(s))
          /\ UNCHANGED dirty
     ELSE dirty' = TRUE /\ UNCHANGED <<clock, cells>>
  /\ pending' = RemoveSent(pending, batch)
  /\ Mirror(pending')
  /\ refused' = [c \in CellIds |-> MaxOf(refused[c], batch[c].timestamp)]
  /\ batch' = Empty
  /\ flush' = "sleep"
  /\ UNCHANGED <<env, alive, outbox, cleared, room>>

\* External: the connection dies without a reset and room.send never settles.
RequestHangs ==
  /\ env.hang
  /\ alive /\ flush = "send"
  /\ flush' = "hung"
  /\ UNCHANGED <<env, alive, cells, clock, pending, batch, lastOutbox, disk, room, refused, dirty>>

---------------------------------------------------------------------------
(* IndexedDB.                                                              *)

\* encryptString resolves: the save's transaction is created now.
SealDone(q) ==
  /\ alive /\ q \in sealing
  /\ sealing' = sealing \ {q}
  /\ idb' = Append(idb, Save(q))
  /\ UNCHANGED <<env, alive, memory, outbox, cleared, room, refused, dirty>>

IdbCommit ==
  /\ alive /\ idb # << >>
  /\ outbox' = Head(idb).queue
  /\ cleared' = (Head(idb).kind = "clear")
  /\ idb' = Tail(idb)
  /\ UNCHANGED <<env, alive, memory, sealing, room, refused, dirty>>

\* The tab's mirror effect: a 3 s interval, and a fresh lastMirrored whenever
\* the effect is re-created, so it may save a queue it has saved before.
MirrorTick ==
  /\ env.host = "tab" /\ alive
  /\ sealing = {} /\ idb = << >>
  /\ lastOutbox' = <<pending>>
  /\ StartSave(pending)
  /\ UNCHANGED <<env, alive, cells, clock, pending, flush, batch, outbox, cleared,
                 room, refused, dirty>>

---------------------------------------------------------------------------
\* The sync stream delivers what the room holds (the echo of sent writes).
Sync ==
  /\ alive
  /\ cells' = ApplyBatch(cells, room)
  /\ clock' \in Observed(clock, room)
  /\ UNCHANGED <<env, alive, pending, flush, batch, lastOutbox, disk, room, refused, dirty>>

\* A reload, tab close or worker termination.  A request in flight may still
\* reach the homeserver; IndexedDB transactions that did not commit are gone.
Crash ==
  /\ alive
  /\ alive' = FALSE
  /\ room' \in {room} \cup
       (IF flush = "send" THEN {ApplyBatch(room, ReceivedBatch(batch, OriginTs))} ELSE {})
  /\ cells' = Empty /\ pending' = Empty /\ batch' = Empty
  /\ clock' = 0 /\ flush' = "idle" /\ lastOutbox' = << >>
  /\ sealing' = {} /\ idb' = << >>
  /\ dirty' = FALSE
  /\ UNCHANGED <<env, outbox, cleared, refused>>

\* What restorePendingUpdates puts into the send queue.
QueuedOnOpen == outbox

(* openWorkspace: gather the room, replay the outbox (apply and enqueue),  *)
(* then clearOutbox.  The worker has registered its queue listener before  *)
(* the replay, so the replay itself starts a save, ahead of the clear; the *)
(* tab registers its mirror only afterwards.                               *)
Open ==
  LET saved == outbox # Empty
      mirrored == saved /\ env.host = "worker"
  IN /\ ~alive
     /\ alive' = TRUE
     /\ cells' = ApplyBatch(ApplyBatch(Empty, room), outbox)
     /\ \E n \in Observed(0, room) : clock' \in Observed(n, outbox)
     /\ pending' = QueuedOnOpen
     /\ flush' = IF saved THEN "sleep" ELSE "idle"
     /\ lastOutbox' = IF mirrored THEN <<QueuedOnOpen>> ELSE << >>
     /\ sealing' = IF mirrored /\ env.sealed THEN {QueuedOnOpen} ELSE {}
     /\ idb' = IF mirrored /\ ~env.sealed THEN <<Save(QueuedOnOpen), Clear>> ELSE <<Clear>>
     /\ UNCHANGED <<env, batch, outbox, cleared, room, refused, dirty>>

---------------------------------------------------------------------------
Edit ==
  \E c, bump \in CellIds, v \in Value : {c, bump} \subseteq env.cells /\ UpdateCell(c, v, bump)

Next ==
  \/ Edit
  \/ FlushWake \/ ServerAccepts \/ Sent \/ Retryable \/ Rejected
  \/ \E fetched \in BOOLEAN : Revert(fetched)
  \/ RequestHangs
  \/ \E q \in sealing : SealDone(q)
  \/ IdbCommit \/ MirrorTick
  \/ Sync \/ Crash \/ Open

Spec == Init /\ [][Next]_vars

(* Timers and awaited promises run; a send that is retried for ever is     *)
(* accepted and answered now and then, which is all the backoff loop       *)
(* assumes of the homeserver.  Nothing makes an edit or a crash happen.    *)
Fairness ==
  /\ WF_vars(FlushWake)
  /\ WF_vars(\E fetched \in BOOLEAN : Revert(fetched))
  /\ SF_vars(ServerAccepts)
  /\ SF_vars(Sent)
  /\ WF_vars(IdbCommit)
  /\ WF_vars(Sync)

FairSpec == Spec /\ Fairness

---------------------------------------------------------------------------
(* Properties.                                                             *)

\* A queue that holds an edit always has a flush task working on it: the
\* `flushing` flag can neither be left set by a dead task nor be missed by an
\* enqueue racing the task's exit (schedule_flush, bridge_matrix.rs:2983).
QueueHasFlusher == alive /\ pending # Empty => flush # "idle"

\* While a send is in flight its updates are still queued (or superseded by a
\* newer write to the same cell), so the outbox mirror covers them: the
\* window of issue 980ac596 stays closed (flush_pending).
InFlightStaysQueued ==
  flush \in {"send", "landed", "revert", "hung"} =>
    \A c \in CellIds : batch[c].timestamp <= pending[c].timestamp

\* With a plaintext outbox, once the mirror's transactions have committed the
\* record on disk is the queue in memory (persistOutbox).  The reopen's own clear
\* is the exception.
MirrorMatchesQueue ==
  ~env.sealed /\ alive /\ idb = << >> /\ sealing = {} /\ lastOutbox # << >> /\ ~cleared
    => outbox = pending

\* How far the fate of a cell's writes is settled: in the room, on disk, or
\* reported to the user as rejected.
Fate(c) == MaxOf(MaxOf(room[c].timestamp, outbox[c].timestamp), refused[c])

ReopenClearCommits == idb # << >> /\ Head(idb).kind = "clear" /\ idb' = Tail(idb)

\* With a plaintext outbox an edit that has reached the disk is never dropped
\* from it before the room has it or the server has refused it, crashes included
\* (outbox mirror, ADR 0003 phase 1), leaving aside the clear openWorkspace issues.
FateKept ==
  [][env.sealed \/ ReopenClearCommits \/ \A c \in CellIds : Fate(c)' >= Fate(c)]_vars

InStep ==
  /\ alive /\ pending = Empty /\ flush = "idle" /\ ~dirty
  /\ ApplyBatch(cells, room) = cells

ShowsRoom == \A c \in CellIds : cells[c].value = room[c].value

\* With the queue drained and the stream caught up, and nothing rejected, the
\* client shows exactly what the room holds: no edit was dropped on the way.
DrainedShowsRoom == InStep /\ (\A c \in CellIds : refused[c] = 0) => ShowsRoom

\* Where a request always settles, every queued edit leaves the queue, unless the
\* client stops first: the retry loop of flush_pending makes progress.
QueueDrains ==
  (~env.hang /\ alive /\ pending # Empty) ~> (~alive \/ pending = Empty)
=============================================================================
