------------------------------ MODULE CellLww ------------------------------
(***************************************************************************)
(* Cells, last-write-wins resolution and the coalescing send queue's two   *)
(* elementary operations, as constant-level operators.                     *)
(*                                                                         *)
(* A cell carries the hybrid-logical timestamp of the write that produced  *)
(* it and the homeserver's origin_server_ts, which only breaks ties.       *)
(* Option<u64> is encoded with NoServerTs for None: an origin_server_ts is *)
(* at least 1, so `Some` beats `None` exactly as the code's match does.    *)
(* The clock never hands out timestamp 0, so a cell that does not exist is *)
(* the record Absent, which every real update beats.                       *)
(*                                                                         *)
(* A batch (an event, the send queue, a materialised table) is a function  *)
(* from cell identifiers to cells, Absent where it says nothing.           *)
(***************************************************************************)
EXTENDS Naturals

CONSTANTS
  Value,      \* the JSON values a user can write
  NoValue     \* serde_json Value::Null, and what a missing cell reads as

ASSUME NoValueAssumption == NoValue \notin Value

NoServerTs == 0

Absent == [value |-> NoValue, timestamp |-> 0, server_timestamp |-> NoServerTs]

Cell == {Absent} \cup
  [value : Value \cup {NoValue}, timestamp : Nat \ {0}, server_timestamp : Nat]

\* A local write: CellUpdate::new leaves server_timestamp empty.
NewUpdate(v, ts) ==
  [value |-> v, timestamp |-> ts, server_timestamp |-> NoServerTs]

\* What a receiver makes of an update: origin_server_ts is filled in from the
\* event envelope, never from the wire content.
Received(u, ots) == IF u = Absent THEN Absent ELSE [u EXCEPT !.server_timestamp = ots]

ReceivedBatch(b, ots) == [c \in DOMAIN b |-> Received(b[c], ots)]

---------------------------------------------------------------------------
\* Cell::wins_over / resolve_lww with `a` the incoming cell: a complete tie
\* goes to the incoming one.
WinsOver(a, b) ==
  \/ a.timestamp > b.timestamp
  \/ /\ a.timestamp = b.timestamp
     /\ a.server_timestamp >= b.server_timestamp

\* Table::apply_update on every cell of a batch.  A batch holds one update per
\* cell, so the order inside it cannot matter.
ApplyBatch(cells, b) ==
  [c \in DOMAIN cells |-> IF WinsOver(b[c], cells[c]) THEN b[c] ELSE cells[c]]

---------------------------------------------------------------------------

\* observe_timestamp over every update of a batch: the one-element set holding
\* the clock's new reading.
Observed(now, b) ==
  {n \in {now} \cup {b[c].timestamp : c \in DOMAIN b} :
     n >= now /\ \A c \in DOMAIN b : n >= b[c].timestamp}

---------------------------------------------------------------------------
\* merge_pending: the entry with the highest timestamp per cell stays.
MergePending(pending, b) ==
  [c \in DOMAIN pending |->
     IF b[c].timestamp > pending[c].timestamp THEN b[c] ELSE pending[c]]

\* Mutated form: every key of the sent batch is removed, whatever it holds now.
RemoveSentBlindly(pending, sent) ==
  [c \in DOMAIN pending |-> IF sent[c] # Absent THEN Absent ELSE pending[c]]

\* Mutated form: the comparison is strict, so an unchanged entry stays queued.
RemoveSentStrictly(pending, sent) ==
  [c \in DOMAIN pending |->
     IF pending[c].timestamp < sent[c].timestamp THEN Absent ELSE pending[c]]

\* The Sent and Rejected arms of flush_pending: an entry leaves the queue only
\* if it is no newer than what the batch carried.
RemoveSent(pending, sent) ==
  [c \in DOMAIN pending |->
     IF pending[c].timestamp <= sent[c].timestamp THEN Absent ELSE pending[c]]
=============================================================================
