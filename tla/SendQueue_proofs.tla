------------------------- MODULE SendQueue_proofs --------------------------
(***************************************************************************)
(* What holds of the send pipeline for every set of cells, every bound,    *)
(* both hosts, encrypted or not, with or without hanging requests.         *)
(*                                                                         *)
(* TypeOK is inductive.  QueueHasFlusher and InFlightStaysQueued are each  *)
(* inductive relative to it.  MirrorMatchesQueue is not: it needs to know  *)
(* what the last transaction in IndexedDB's queue will write, which is     *)
(* MirrorInv.  FateKept reads the disk as a chain (ChainInv), and          *)
(* DrainedShowsRoom reads every copy of a cell as an entry of one log of   *)
(* writes (DrainInv).                                                      *)
(***************************************************************************)
EXTENDS SendQueue, FiniteSetTheorems, SequenceTheorems, TLAPS

-----------------------------------------------------------------------------
(* Last-write-wins resolution (CellLww): WinsOver is a total preorder; what *)
(* ApplyBatch, MergePending and RemoveSent return is well typed and never   *)
(* older than what it replaces.                                             *)

\* A missing cell is a cell, and it is the only one with timestamp 0.
LEMMA AbsentType ==
  /\ Absent \in Cell
  /\ \A u \in Cell : u.timestamp = 0 <=> u = Absent
  /\ \A u \in Cell : u.timestamp \in Nat /\ u.server_timestamp \in Nat
                     /\ u.value \in Value \cup {NoValue}
BY DEF Cell, Absent, NoServerTs

\* A fresh local write (CellUpdate::new) is a cell and is not Absent.
LEMMA NewUpdateType ==
  ASSUME NEW v \in Value \cup {NoValue}, NEW n \in Nat \ {0}
  PROVE  /\ NewUpdate(v, n) \in Cell
         /\ NewUpdate(v, n) # Absent
         /\ NewUpdate(v, n).timestamp = n
         /\ NewUpdate(v, n).server_timestamp = 0
BY DEF NewUpdate, Cell, Absent, NoServerTs

\* Receiving (into_update) keeps the timestamp and the value.
LEMMA ReceivedType ==
  ASSUME NEW u \in Cell, NEW ots \in Nat
  PROVE  /\ Received(u, ots) \in Cell
         /\ Received(u, ots).timestamp = u.timestamp
         /\ Received(u, ots).value = u.value
         /\ Received(u, ots) = Absent <=> u = Absent
         /\ u # Absent => Received(u, ots).server_timestamp = ots
BY DEF Received, Cell, Absent, NoServerTs

\* resolve_lww compares any two cells, and the comparison is transitive: it
\* is a total preorder, so the winner of a set does not depend on how it is
\* folded, up to complete ties.
LEMMA WinsOverPreorder ==
  ASSUME NEW a \in Cell, NEW b \in Cell, NEW c \in Cell
  PROVE  /\ WinsOver(a, a)
         /\ WinsOver(a, b) \/ WinsOver(b, a)
         /\ WinsOver(a, b) /\ WinsOver(b, c) => WinsOver(a, c)
         /\ WinsOver(a, b) => a.timestamp >= b.timestamp
BY AbsentType DEF WinsOver

\* Applying a batch (Table::apply_update) is well typed, and each resulting
\* cell wins over both of the cells it was resolved from.
LEMMA ApplyBatchType ==
  ASSUME NEW S, NEW held \in [S -> Cell], NEW b \in [S -> Cell]
  PROVE  /\ ApplyBatch(held, b) \in [S -> Cell]
         /\ \A c \in S : /\ ApplyBatch(held, b)[c] \in {held[c], b[c]}
                         /\ WinsOver(ApplyBatch(held, b)[c], held[c])
                         /\ WinsOver(ApplyBatch(held, b)[c], b[c])
                         /\ b[c] = Absent => ApplyBatch(held, b)[c] = held[c]
<1>1. \A c \in S : ApplyBatch(held, b)[c] =
                     IF WinsOver(b[c], held[c]) THEN b[c] ELSE held[c]
  BY DEF ApplyBatch
<1>2. ApplyBatch(held, b) \in [S -> Cell]
  BY DEF ApplyBatch
<1>3. \A c \in S : /\ WinsOver(b[c], b[c]) /\ WinsOver(held[c], held[c])
                   /\ WinsOver(b[c], held[c]) \/ WinsOver(held[c], b[c])
  BY WinsOverPreorder
<1>4. ASSUME NEW c \in S, b[c] = Absent, WinsOver(b[c], held[c])
      PROVE  held[c] = Absent
  BY <1>4, AbsentType DEF WinsOver, Absent
<1>5. QED BY <1>1, <1>2, <1>3, <1>4

\* merge_pending is well typed, never lowers an entry's timestamp, and takes
\* every entry from the queue or from the batch.
LEMMA MergePendingType ==
  ASSUME NEW S, NEW q \in [S -> Cell], NEW b \in [S -> Cell]
  PROVE  /\ MergePending(q, b) \in [S -> Cell]
         /\ \A c \in S : /\ MergePending(q, b)[c] \in {q[c], b[c]}
                         /\ MergePending(q, b)[c].timestamp >= q[c].timestamp
                         /\ MergePending(q, b)[c].timestamp >= b[c].timestamp
                         /\ b[c] = Absent => MergePending(q, b)[c] = q[c]
                         /\ b[c].timestamp > q[c].timestamp => MergePending(q, b)[c] = b[c]
<1>1. /\ MergePending(q, b) \in [S -> Cell]
      /\ \A c \in S : MergePending(q, b)[c] =
                        IF b[c].timestamp > q[c].timestamp THEN b[c] ELSE q[c]
  BY DEF MergePending
<1>2. \A c \in S : q[c].timestamp \in Nat /\ b[c].timestamp \in Nat
  BY AbsentType
<1>3. Absent.timestamp = 0
  BY DEF Absent
<1>4. QED BY <1>1, <1>2, <1>3

\* The removal of a confirmed batch (flush_pending) is well typed, and an
\* entry either stays as it is or was no newer than the batch's.
LEMMA RemoveSentType ==
  ASSUME NEW S, NEW q \in [S -> Cell], NEW b \in [S -> Cell]
  PROVE  /\ RemoveSent(q, b) \in [S -> Cell]
         /\ \A c \in S :
              \/ RemoveSent(q, b)[c] = q[c] /\ q[c].timestamp > b[c].timestamp
              \/ RemoveSent(q, b)[c] = Absent /\ q[c].timestamp <= b[c].timestamp
<1>1. \A c \in S : q[c].timestamp \in Nat /\ b[c].timestamp \in Nat
  BY AbsentType
<1>2. /\ RemoveSent(q, b) \in [S -> Cell]
      /\ \A c \in S : RemoveSent(q, b)[c] =
                        IF q[c].timestamp <= b[c].timestamp THEN Absent ELSE q[c]
  BY AbsentType DEF RemoveSent
<1>3. QED BY <1>1, <1>2

\* Receiving a batch is well typed, cell by cell.
LEMMA ReceivedBatchType ==
  ASSUME NEW S, NEW b \in [S -> Cell], NEW ots \in Nat
  PROVE  ReceivedBatch(b, ots) \in [S -> Cell]
BY ReceivedType DEF ReceivedBatch

\* What the clock reads after a batch (observe_updates) covers the old
\* reading and every timestamp of the batch.
LEMMA ObservedType ==
  ASSUME NEW S, NEW b \in [S -> Cell], NEW now \in Nat, NEW n \in Observed(now, b)
  PROVE  n \in Nat /\ n >= now /\ \A c \in S : b[c].timestamp <= n
<1>1. \A c \in S : b[c].timestamp \in Nat
  BY AbsentType
<1>2. QED BY <1>1 DEF Observed

-----------------------------------------------------------------------------
\* The empty queue is a queue.
LEMMA EmptyType == Empty \in Queue
BY AbsentType DEF Empty, Queue

\* Short sequences and sequences grown or shrunk by one element.
LEMMA SeqFacts ==
  ASSUME NEW S
  PROVE  /\ << >> \in Seq(S) /\ Len(<< >>) = 0
         /\ \A e \in S : <<e>> \in Seq(S) /\ Len(<<e>>) = 1 /\ <<e>>[1] = e
         /\ \A d, e \in S : <<d, e>> \in Seq(S)
         /\ \A t \in Seq(S), e \in S : Append(t, e) \in Seq(S)
         /\ \A t \in Seq(S) : t # << >> => Head(t) \in S /\ Tail(t) \in Seq(S)
OBVIOUS

\* The empty sequence has every sequence type the model uses.
LEMMA EmptySeqs ==
  << >> \in Seq(Queue) /\ << >> \in Seq(Write) /\ Len(<< >>) <= 1
BY SeqFacts

\* The records of IndexedDB's transaction queue.
LEMMA WriteType ==
  /\ \A q \in Queue : Save(q) \in Write
  /\ Clear \in Write
  /\ \A w \in Write : w.queue \in Queue
BY EmptyType DEF Write, Save, Clear

\* Starting a save leaves the disk state well typed.
LEMMA StartSaveTypes ==
  ASSUME TypeOK, NEW q \in Queue, StartSave(q)
  PROVE  sealing' \subseteq Queue /\ idb' \in Seq(Write)
<1>1. CASE env.sealed /\ q # Empty
  BY <1>1 DEF TypeOK, StartSave
<1>2. CASE ~(env.sealed /\ q # Empty)
  <2>1. idb' = Append(idb, Save(q)) /\ sealing' = sealing
    BY <1>2 DEF StartSave
  <2>2. QED BY <2>1, SeqFacts, WriteType DEF TypeOK
<1>3. QED BY <1>1, <1>2

\* So does mirroring the queue.
LEMMA MirrorTypes ==
  ASSUME TypeOK, NEW q \in Queue, Mirror(q)
  PROVE  /\ lastOutbox' \in Seq(Queue) /\ Len(lastOutbox') <= 1
         /\ sealing' \subseteq Queue
         /\ idb' \in Seq(Write)
<1>1. <<q>> \in Seq(Queue) /\ Len(<<q>>) <= 1
  BY SeqFacts
<1>2. CASE lastOutbox = <<q>>
  BY <1>2 DEF TypeOK, Mirror
<1>3. CASE lastOutbox # <<q>>
  BY <1>1, <1>3, StartSaveTypes DEF Mirror
<1>4. QED BY <1>2, <1>3

\* The batch an edit enqueues holds at most the written cell and the cell it
\* refreshes, each a proper cell.
LEMMA EditBatchType ==
  ASSUME TypeOK, NEW c \in CellIds, NEW v \in Value, NEW bump \in CellIds
  PROVE  [d \in CellIds |->
              CASE d = c -> NewUpdate(v, clock + 1)
                [] d = bump /\ d # c -> NewUpdate(cells[d].value, clock + 2)
                [] OTHER -> Absent] \in Queue
<1>1. clock + 1 \in Nat \ {0} /\ clock + 2 \in Nat \ {0}
  BY DEF TypeOK
<1>2. NewUpdate(v, clock + 1) \in Cell
  BY <1>1, NewUpdateType
<1>3. \A d \in CellIds : NewUpdate(cells[d].value, clock + 2) \in Cell
  BY <1>1, NewUpdateType, AbsentType DEF Queue, TypeOK
<1>4. QED BY <1>2, <1>3, AbsentType DEF Queue

\* An edit applies and enqueues one batch of proper cells.
LEMMA EditBatch ==
  ASSUME TypeOK, NEW c \in CellIds, NEW v \in Value, NEW bump \in CellIds,
         UpdateCell(c, v, bump)
  PROVE  \E b \in Queue : cells' = ApplyBatch(cells, b) /\ pending' = MergePending(pending, b)
<1> DEFINE b == [d \in CellIds |->
              CASE d = c -> NewUpdate(v, clock + 1)
                [] d = bump /\ d # c -> NewUpdate(cells[d].value, clock + 2)
                [] OTHER -> Absent]
<1>1. b \in Queue
  BY EditBatchType
<1>2. cells' = ApplyBatch(cells, b) /\ pending' = MergePending(pending, b)
  BY DEF UpdateCell
<1> HIDE DEF b
<1>3. QED BY <1>1, <1>2

\* The values a revert applies are proper cells under positive timestamps.
LEMMA ConvergedType ==
  ASSUME TypeOK, NEW s \in FreshStamps
  PROVE  Cardinality(InBatch) \in Nat /\ ConvergedValues(s) \in Queue
<1>1. IsFiniteSet(InBatch)
  BY FS_Subset, SendQueueAssumption DEF InBatch
<1>2. Cardinality(InBatch) \in Nat
  BY <1>1, FS_CardinalityType
<1>3. \A c \in InBatch : s[c] \in Nat \ {0}
  BY <1>2 DEF FreshStamps, TypeOK
<1>4. \A c \in InBatch : NewUpdate(room[c].value, s[c]) \in Cell
  BY <1>3, NewUpdateType, AbsentType DEF Queue, TypeOK, InBatch
<1>5. QED BY <1>2, <1>4, AbsentType DEF Queue, ConvergedValues, InBatch

\* Every reachable state is well typed: each handler of bridge_matrix.rs,
\* dispatch.ts and outboxStore.ts keeps its state in shape.
THEOREM TypeCorrect == Spec => []TypeOK
<1>1. Init => TypeOK
  <2> SUFFICES ASSUME Init PROVE TypeOK
    OBVIOUS
  <2>1. refused \in [CellIds -> Nat]
    BY DEF Init
  <2>2. lastOutbox \in Seq(Queue) /\ Len(lastOutbox) <= 1 /\ idb \in Seq(Write)
    BY EmptySeqs DEF Init
  <2>3. QED BY <2>1, <2>2, EmptyType, SendQueueAssumption DEF Init, TypeOK, FlushState
<1>2. TypeOK /\ [Next]_vars => TypeOK'
  <2> SUFFICES ASSUME TypeOK, [Next]_vars PROVE TypeOK'
    OBVIOUS
  <2> USE DEF FlushState
  <2>1. ASSUME NEW c \in CellIds, NEW bump \in CellIds, NEW v \in Value,
               UpdateCell(c, v, bump)
        PROVE  TypeOK'
    <3>1. PICK b \in Queue : cells' = ApplyBatch(cells, b) /\ pending' = MergePending(pending, b)
      BY <2>1, EditBatch
    <3>2. clock' = (IF bump = c THEN clock + 1 ELSE clock + 2)
          /\ Mirror(pending') /\ ScheduleFlush
          /\ UNCHANGED <<env, alive, batch, outbox, cleared, room, refused, dirty>>
      BY <2>1 DEF UpdateCell
    <3>3. cells' \in Queue /\ pending' \in Queue
      BY <3>1, ApplyBatchType, MergePendingType DEF Queue, TypeOK
    <3>4. QED BY <3>2, <3>3, MirrorTypes DEF TypeOK, ScheduleFlush
  <2>2. CASE FlushWake
    BY <2>2 DEF FlushWake, Take, disk, TypeOK
  <2>3. CASE ServerAccepts
    <3>1. ReceivedBatch(batch, OriginTs) \in Queue
      BY ReceivedBatchType DEF Queue, TypeOK, OriginTs
    <3>2. room' \in Queue
      BY <2>3, <3>1, ApplyBatchType DEF Queue, ServerAccepts, TypeOK
    <3>3. QED BY <2>3, <3>2 DEF ServerAccepts, disk, TypeOK
  <2>4. CASE Sent
    <3>1. pending' \in Queue
      BY <2>4, RemoveSentType DEF Queue, Sent, TypeOK
    <3>2. QED BY <2>4, <3>1, MirrorTypes, EmptyType DEF Sent, TypeOK
  <2>5. CASE Retryable
    BY <2>5, EmptyType DEF Retryable, disk, TypeOK
  <2>6. CASE Rejected
    BY <2>6 DEF Rejected, disk, TypeOK
  <2>7. ASSUME NEW fetched \in BOOLEAN, Revert(fetched)
        PROVE  TypeOK'
    <3>1. pending' \in Queue
      BY <2>7, RemoveSentType DEF Queue, Revert, TypeOK
    <3>2. clock' \in Nat /\ cells' \in Queue /\ dirty' \in BOOLEAN
      <4>1. CASE fetched
        <5>1. PICK s \in FreshStamps : cells' = ApplyBatch(cells, ConvergedValues(s))
          BY <2>7, <4>1 DEF Revert
        <5>2. cells' \in Queue /\ Cardinality(InBatch) \in Nat
          BY <5>1, ConvergedType, ApplyBatchType DEF Queue, TypeOK
        <5>3. QED BY <2>7, <4>1, <5>2 DEF Revert, TypeOK
      <4>2. CASE ~fetched
        BY <2>7, <4>2 DEF Revert, TypeOK
      <4>3. QED BY <4>1, <4>2
    <3>3. refused' \in [CellIds -> Nat]
      BY <2>7, AbsentType DEF Queue, Revert, TypeOK, MaxOf
    <3>4. QED BY <2>7, <3>1, <3>2, <3>3, MirrorTypes, EmptyType DEF Revert, TypeOK
  <2>8. CASE RequestHangs
    BY <2>8 DEF RequestHangs, disk, TypeOK
  <2>9. ASSUME NEW q \in sealing, SealDone(q)
        PROVE  TypeOK'
    <3>1. Append(idb, Save(q)) \in Seq(Write)
      BY SeqFacts, WriteType DEF TypeOK
    <3>2. QED BY <2>9, <3>1 DEF SealDone, memory, TypeOK
  <2>10. CASE IdbCommit
    <3>1. Head(idb).queue \in Queue /\ Tail(idb) \in Seq(Write)
      BY <2>10, SeqFacts, WriteType DEF IdbCommit, TypeOK
    <3>2. QED BY <2>10, <3>1 DEF IdbCommit, memory, TypeOK
  <2>11. CASE MirrorTick
    <3>1. lastOutbox' \in Seq(Queue) /\ Len(lastOutbox') <= 1
      BY <2>11, SeqFacts DEF MirrorTick, TypeOK
    <3>2. sealing' \subseteq Queue /\ idb' \in Seq(Write)
      BY <2>11, StartSaveTypes DEF MirrorTick, TypeOK
    <3>3. QED BY <2>11, <3>1, <3>2 DEF MirrorTick, TypeOK
  <2>12. CASE Sync
    <3>1. cells' \in Queue /\ clock' \in Nat
      BY <2>12, ApplyBatchType, ObservedType DEF Queue, Sync, TypeOK
    <3>2. QED BY <2>12, <3>1 DEF Sync, disk, TypeOK
  <2>13. CASE Crash
    <3>1. ReceivedBatch(batch, OriginTs) \in Queue
      BY ReceivedBatchType DEF Queue, TypeOK, OriginTs
    <3>2. ApplyBatch(room, ReceivedBatch(batch, OriginTs)) \in Queue
      BY <3>1, ApplyBatchType DEF Queue, TypeOK
    <3>3. room' \in Queue
      BY <2>13, <3>2 DEF Crash, TypeOK
    <3>4. QED BY <2>13, <3>3, EmptyType, EmptySeqs DEF Crash, TypeOK
  <2>14. CASE Open
    <3>1. /\ Save(QueuedOnOpen) \in Write
          /\ Clear \in Write
          /\ QueuedOnOpen \in Queue
      BY WriteType DEF QueuedOnOpen, TypeOK
    <3>2. ApplyBatch(Empty, room) \in Queue
      BY EmptyType, ApplyBatchType DEF Queue, TypeOK
    <3>3. cells' \in Queue
      BY <2>14, <3>2, ApplyBatchType DEF Queue, Open, TypeOK
    <3>4. clock' \in Nat
      <4>1. PICK n \in Observed(0, room) : clock' \in Observed(n, outbox)
        BY <2>14 DEF Open
      <4>2. n \in Nat
        BY ObservedType DEF Queue, TypeOK
      <4>3. QED BY <4>1, <4>2, ObservedType DEF Queue, TypeOK
    <3>5. lastOutbox' \in Seq(Queue) /\ Len(lastOutbox') <= 1
      BY <2>14, <3>1, SeqFacts DEF Open
    <3>6. sealing' \subseteq Queue
      BY <2>14, <3>1 DEF Open
    <3>7. idb' \in Seq(Write)
      BY <2>14, <3>1, SeqFacts DEF Open
    <3>8. QED BY <2>14, <3>1, <3>3, <3>4, <3>5, <3>6, <3>7 DEF Open, TypeOK
  <2>15. CASE UNCHANGED vars
    BY <2>15 DEF vars, memory, disk, TypeOK
  <2>16. QED
    BY <2>1, <2>2, <2>3, <2>4, <2>5, <2>6, <2>7, <2>8, <2>9, <2>10, <2>11,
       <2>12, <2>13, <2>14, <2>15 DEF Next, Edit
<1>3. QED BY <1>1, <1>2, PTL DEF Spec

---------------------------------------------------------------------------
\* A queue that holds an edit has a flush task, in every reachable state
\* (schedule_flush's guard and flush_pending's exit test).
THEOREM FlusherNeverMissing == Spec => []QueueHasFlusher
<1>1. Init => QueueHasFlusher
  BY DEF Init, QueueHasFlusher
<1>2. QueueHasFlusher /\ [Next]_vars => QueueHasFlusher'
  <2> SUFFICES ASSUME QueueHasFlusher, [Next]_vars PROVE QueueHasFlusher'
    OBVIOUS
  <2> USE DEF QueueHasFlusher
  <2>1. ASSUME NEW c \in CellIds, NEW bump \in CellIds, NEW v \in Value,
               UpdateCell(c, v, bump)
        PROVE  QueueHasFlusher'
    BY <2>1 DEF UpdateCell, ScheduleFlush
  <2>2. CASE FlushWake
    BY <2>2 DEF FlushWake, Take
  <2>3. CASE ServerAccepts \/ Rejected \/ RequestHangs \/ Retryable \/ Sent
    BY <2>3 DEF ServerAccepts, Rejected, RequestHangs, Retryable, Sent
  <2>4. ASSUME NEW fetched \in BOOLEAN, Revert(fetched)
        PROVE  QueueHasFlusher'
    BY <2>4 DEF Revert
  <2>5. ASSUME NEW q \in sealing, SealDone(q)
        PROVE  QueueHasFlusher'
    BY <2>5 DEF SealDone, memory
  <2>6. CASE IdbCommit \/ MirrorTick \/ Sync \/ Crash
    BY <2>6 DEF IdbCommit, MirrorTick, Sync, Crash, memory
  <2>7. CASE Open
    BY <2>7 DEF Open, QueuedOnOpen
  <2>8. CASE UNCHANGED vars
    BY <2>8 DEF vars, memory
  <2>9. QED
    BY <2>1, <2>2, <2>3, <2>4, <2>5, <2>6, <2>7, <2>8 DEF Next, Edit
<1>3. QED BY <1>1, <1>2, PTL DEF Spec

---------------------------------------------------------------------------
\* What is in flight is still queued, or superseded there by a newer write,
\* in every reachable state: flush_pending copies the queue and enqueuing
\* never lowers an entry (merge_pending).
THEOREM InFlightCovered == Spec => []InFlightStaysQueued
<1>1. Init => InFlightStaysQueued
  BY DEF Init, InFlightStaysQueued
<1>2. TypeOK /\ InFlightStaysQueued /\ [Next]_vars => InFlightStaysQueued'
  <2> SUFFICES ASSUME TypeOK, InFlightStaysQueued, [Next]_vars
               PROVE  InFlightStaysQueued'
    OBVIOUS
  <2> USE DEF InFlightStaysQueued
  <2>1. ASSUME NEW c \in CellIds, NEW bump \in CellIds, NEW v \in Value,
               UpdateCell(c, v, bump)
        PROVE  InFlightStaysQueued'
    <3>1. PICK b \in Queue : cells' = ApplyBatch(cells, b) /\ pending' = MergePending(pending, b)
      BY <2>1, EditBatch
    <3>2. /\ MergePending(pending, b) \in [CellIds -> Cell]
          /\ \A d \in CellIds :
               MergePending(pending, b)[d].timestamp >= pending[d].timestamp
      BY MergePendingType DEF Queue, TypeOK
    <3>3. \A d \in CellIds : /\ pending[d].timestamp \in Nat
                             /\ pending'[d].timestamp \in Nat
                             /\ batch[d].timestamp \in Nat
      BY <3>1, <3>2, AbsentType DEF Queue, TypeOK
    <3>4. batch' = batch /\ (flush' = flush \/ flush' = "sleep")
      BY <2>1 DEF UpdateCell, ScheduleFlush
    <3>5. QED BY <3>1, <3>2, <3>3, <3>4
  <2>2. CASE FlushWake
    <3>1. \A d \in CellIds : pending[d].timestamp \in Nat
      BY AbsentType DEF Queue, TypeOK
    <3>2. QED BY <2>2, <3>1 DEF FlushWake, Take
  <2>3. CASE ServerAccepts \/ Rejected \/ RequestHangs \/ Retryable \/ Sent
    BY <2>3 DEF ServerAccepts, Rejected, RequestHangs, Retryable, Sent
  <2>4. ASSUME NEW fetched \in BOOLEAN, Revert(fetched)
        PROVE  InFlightStaysQueued'
    BY <2>4 DEF Revert
  <2>5. ASSUME NEW q \in sealing, SealDone(q)
        PROVE  InFlightStaysQueued'
    BY <2>5 DEF SealDone, memory
  <2>6. CASE IdbCommit \/ MirrorTick \/ Sync \/ Crash \/ Open
    BY <2>6 DEF IdbCommit, MirrorTick, Sync, Crash, Open, memory
  <2>7. CASE UNCHANGED vars
    BY <2>7 DEF vars, memory
  <2>8. QED
    BY <2>1, <2>2, <2>3, <2>4, <2>5, <2>6, <2>7 DEF Next, Edit
<1>3. QED BY <1>1, <1>2, TypeCorrect, PTL DEF Spec

---------------------------------------------------------------------------
(* The strengthening behind FateKept, for a plaintext outbox: read the     *)
(* record on disk, the transactions waiting behind it and the queue in     *)
(* memory as one chain.  Wherever an entry disappears or gets older along  *)
(* the chain, the room or a refusal accounts for it, unless the next link  *)
(* is the reopen's clear.                                                  *)
Settled(q, c, n) ==
  n <= q[c].timestamp \/ n <= room[c].timestamp \/ n <= refused[c]

OnDisk(i) == IF i = 0 THEN outbox ELSE idb[i].queue

Links ==
  \A i \in 1..Len(idb) :
    \/ idb[i].kind = "clear"
    \/ \A c \in CellIds : Settled(idb[i].queue, c, OnDisk(i - 1)[c].timestamp)

LastLink == \A c \in CellIds : Settled(pending, c, OnDisk(Len(idb))[c].timestamp)

ChainInv ==
  /\ sealing = {}
  /\ Links
  /\ alive => LastLink
  /\ flush = "landed" => \A c \in CellIds : batch[c].timestamp <= room[c].timestamp

\* Timestamps on the chain are numbers.
LEMMA ChainTypes ==
  ASSUME TypeOK
  PROVE  /\ Len(idb) \in Nat
         /\ \A i \in 0..Len(idb) : OnDisk(i) \in Queue
         /\ \A q \in Queue, c \in CellIds : q[c].timestamp \in Nat
         /\ \A c \in CellIds : room[c].timestamp \in Nat /\ refused[c] \in Nat
<1>1. Len(idb) \in Nat /\ \A i \in 1..Len(idb) : idb[i] \in Write
  BY DEF TypeOK
<1>2. \A i \in 0..Len(idb) : OnDisk(i) \in Queue
  BY <1>1, WriteType DEF OnDisk, TypeOK
<1>3. \A q \in Queue, c \in CellIds : q[c].timestamp \in Nat
  BY AbsentType DEF Queue
<1>4. QED BY <1>1, <1>2, <1>3 DEF TypeOK

\* The room and the refusals only grow.
Grows ==
  \A c \in CellIds : room[c].timestamp <= room'[c].timestamp /\ refused[c] <= refused'[c]

\* What the room holds and what it has refused are compared as numbers.
LEMMA GrowsTypes ==
  ASSUME TypeOK, TypeOK', NEW c \in CellIds
  PROVE  /\ room[c].timestamp \in Nat /\ room'[c].timestamp \in Nat
         /\ refused[c] \in Nat /\ refused'[c] \in Nat
BY AbsentType DEF TypeOK, Queue

\* The links survive every step that leaves the disk alone.
LEMMA LinksStay ==
  ASSUME TypeOK, TypeOK', Links, Grows, idb' = idb, outbox' = outbox
  PROVE  Links'
<1> SUFFICES ASSUME NEW i \in 1..Len(idb), idb[i].kind # "clear", NEW c \in CellIds
             PROVE  Settled(idb[i].queue, c, OnDisk(i - 1)[c].timestamp)'
  BY DEF Links
<1>1. i \in 0..Len(idb) /\ i - 1 \in 0..Len(idb) /\ i # 0
  BY ChainTypes
<1>2. /\ idb[i].queue \in Queue /\ OnDisk(i - 1)[c].timestamp \in Nat
      /\ idb[i].queue[c].timestamp \in Nat
  BY <1>1, ChainTypes DEF OnDisk
<1>3. Settled(idb[i].queue, c, OnDisk(i - 1)[c].timestamp)
  BY DEF Links
<1>4. OnDisk(i - 1)' = OnDisk(i - 1) /\ idb'[i] = idb[i]
  BY DEF OnDisk
<1>5. QED BY <1>2, <1>3, <1>4, GrowsTypes DEF Settled, Grows

\* Mirroring a queue that accounts for the chain's end extends the chain.
LEMMA MirrorLinks ==
  ASSUME ~env.sealed, TypeOK, TypeOK', NEW q \in Queue, Mirror(q), pending' = q,
         Links, Grows, outbox' = outbox,
         \A c \in CellIds : \/ OnDisk(Len(idb))[c].timestamp <= q[c].timestamp
                            \/ OnDisk(Len(idb))[c].timestamp <= room'[c].timestamp
                            \/ OnDisk(Len(idb))[c].timestamp <= refused'[c]
  PROVE  sealing' = sealing /\ Links' /\ LastLink'
<1>1. CASE lastOutbox = <<q>>
  <2>1. sealing' = sealing /\ idb' = idb
    BY <1>1 DEF Mirror
  <2>2. Links'
    BY <2>1, LinksStay
  <2>3. OnDisk(Len(idb))' = OnDisk(Len(idb))
    BY <2>1 DEF OnDisk
  <2>4. QED BY <2>1, <2>2, <2>3 DEF LastLink, Settled
<1>2. CASE lastOutbox # <<q>>
  <2> PICK n \in Nat : n = Len(idb)
    BY ChainTypes
  <2>1. sealing' = sealing /\ idb' = Append(idb, Save(q))
    BY <1>2 DEF Mirror, StartSave
  <2>2. /\ n \in Nat /\ Len(idb') = n + 1 /\ idb'[n + 1] = Save(q)
        /\ \A i \in 1..n : idb'[i] = idb[i]
    BY <2>1, WriteType DEF TypeOK
  <2>3. \A i \in 0..n : OnDisk(i)' = OnDisk(i)
    BY <2>2 DEF OnDisk
  <2>4. OnDisk(n + 1)' = q /\ idb'[n + 1].queue = q
    BY <2>2 DEF OnDisk, Save
  <2>5. Links'
    <3> SUFFICES ASSUME NEW i \in 1..(n + 1), idb'[i].kind # "clear", NEW c \in CellIds
                 PROVE  Settled(idb[i].queue, c, OnDisk(i - 1)[c].timestamp)'
      BY <2>2 DEF Links
    <3>1. CASE i = n + 1
      <4>1. OnDisk(i - 1)' = OnDisk(n) /\ idb'[i].queue = q
        BY <2>2, <2>3, <2>4, <3>1
      <4>2. QED BY <4>1 DEF Settled
    <3>2. CASE i \in 1..n
      <4>1. OnDisk(i - 1)' = OnDisk(i - 1) /\ idb'[i] = idb[i]
        BY <2>2, <2>3, <3>2
      <4>2. Settled(idb[i].queue, c, OnDisk(i - 1)[c].timestamp)
        BY <3>2, <4>1 DEF Links
      <4>3. /\ idb[i].queue \in Queue /\ OnDisk(i - 1)[c].timestamp \in Nat
            /\ idb[i].queue[c].timestamp \in Nat
        <5>1. i \in 0..Len(idb) /\ i - 1 \in 0..Len(idb) /\ OnDisk(i) = idb[i].queue
          BY <2>2, <3>2 DEF OnDisk
        <5>2. QED BY <5>1, ChainTypes
      <4>4. QED BY <4>1, <4>2, <4>3, GrowsTypes DEF Settled, Grows
    <3>3. QED BY <2>2, <3>1, <3>2
  <2>6. LastLink'
    <3>1. \A c \in CellIds : q[c].timestamp \in Nat
      BY ChainTypes
    <3>2. QED BY <2>2, <2>4, <3>1 DEF LastLink, Settled
  <2>7. QED BY <2>1, <2>5, <2>6
<1>3. QED BY <1>1, <1>2

\* Appending an event to the room raises the room's timestamps, and covers
\* the batch.
LEMMA RoomGrows ==
  ASSUME TypeOK, NEW c \in CellIds,
         room' = ApplyBatch(room, ReceivedBatch(batch, OriginTs))
  PROVE  /\ room[c].timestamp <= room'[c].timestamp
         /\ batch[c].timestamp <= room'[c].timestamp
<1> DEFINE r == ReceivedBatch(batch, OriginTs)
<1>1. r \in [CellIds -> Cell] /\ r[c].timestamp = batch[c].timestamp
  BY ReceivedBatchType, ReceivedType DEF TypeOK, Queue, OriginTs, ReceivedBatch
<1> HIDE DEF r
<1>2. ApplyBatch(room, r) \in [CellIds -> Cell]
      /\ WinsOver(ApplyBatch(room, r)[c], room[c])
      /\ WinsOver(ApplyBatch(room, r)[c], r[c])
  BY <1>1, ApplyBatchType DEF TypeOK, Queue
<1>3. room' = ApplyBatch(room, r)
  BY DEF r
<1>4. /\ room[c] \in Cell /\ room'[c] \in Cell /\ r[c] \in Cell
      /\ batch[c].timestamp \in Nat
  BY <1>1, <1>2, <1>3, AbsentType DEF TypeOK, Queue
<1>5. room[c].timestamp \in Nat /\ room'[c].timestamp \in Nat
  BY <1>4, AbsentType
<1>6. QED BY <1>1, <1>2, <1>3, <1>4, <1>5, WinsOverPreorder

\* No step takes anything back from the room or from the refusals, and only
\* a commit changes the record on disk.
LEMMA NextGrows ==
  ASSUME TypeOK, TypeOK', [Next]_vars
  PROVE  Grows /\ (outbox' = outbox \/ IdbCommit)
<1>1. CASE room' = room /\ refused' = refused /\ (outbox' = outbox \/ IdbCommit)
  BY <1>1, GrowsTypes DEF Grows
<1>2. CASE /\ room' = ApplyBatch(room, ReceivedBatch(batch, OriginTs))
           /\ refused' = refused /\ outbox' = outbox
  BY <1>2, RoomGrows, GrowsTypes DEF Grows
<1>3. ASSUME NEW fetched \in BOOLEAN, Revert(fetched)
      PROVE  Grows /\ outbox' = outbox
  <2>1. \A c \in CellIds : refused[c] \in Nat /\ batch[c].timestamp \in Nat
    BY AbsentType DEF TypeOK, Queue
  <2>2. \A c \in CellIds : refused'[c] = MaxOf(refused[c], batch[c].timestamp)
    BY <1>3 DEF Revert
  <2>3. \A c \in CellIds : refused[c] <= refused'[c]
    BY <2>1, <2>2 DEF MaxOf
  <2>4. QED BY <1>3, <2>3, GrowsTypes DEF Revert, Grows
<1>4. CASE ServerAccepts
  BY <1>2, <1>4 DEF ServerAccepts, disk
<1>5. CASE Crash
  BY <1>1, <1>2, <1>5 DEF Crash
<1>6. CASE Edit \/ Open
  BY <1>1, <1>6 DEF Edit, UpdateCell, Open
<1>7. CASE FlushWake \/ Sent \/ Retryable \/ Rejected \/ RequestHangs
  BY <1>1, <1>7 DEF FlushWake, Sent, Retryable, Rejected, RequestHangs, disk
<1>8. CASE (\E q \in sealing : SealDone(q)) \/ IdbCommit
  BY <1>1, <1>8 DEF SealDone, IdbCommit
<1>9. CASE MirrorTick \/ Sync \/ UNCHANGED vars
  BY <1>1, <1>9 DEF MirrorTick, Sync, vars, disk
<1>10. QED
  BY <1>3, <1>4, <1>5, <1>6, <1>7, <1>8, <1>9 DEF Next

\* The chain holds in every reachable state of a client with a plaintext
\* outbox.
LEMMA ChainStep ==
  ASSUME ~env.sealed, TypeOK, TypeOK', ChainInv, [Next]_vars
  PROVE  ChainInv'
<1> USE DEF ChainInv
<1>1. Grows
  BY NextGrows
<1>2. ASSUME idb' = idb, outbox' = outbox, pending' = pending, sealing' = sealing,
             alive' => alive
      PROVE  sealing' = {} /\ Links' /\ (alive' => LastLink')
  <2>1. Links'
    BY <1>1, <1>2, LinksStay
  <2>2. OnDisk(Len(idb))' = OnDisk(Len(idb))
    BY <1>2 DEF OnDisk
  <2>3. \A c \in CellIds : pending[c].timestamp \in Nat /\ OnDisk(Len(idb))[c].timestamp \in Nat
    BY ChainTypes DEF TypeOK
  <2>4. QED BY <1>1, <1>2, <2>1, <2>2, <2>3, GrowsTypes DEF LastLink, Settled, Grows
<1>3. ASSUME NEW c \in CellIds, NEW bump \in CellIds, NEW v \in Value,
             UpdateCell(c, v, bump)
      PROVE  ChainInv'
  <2>1. PICK b \in Queue : cells' = ApplyBatch(cells, b) /\ pending' = MergePending(pending, b)
    BY <1>3, EditBatch
  <2>2. \A d \in CellIds : MergePending(pending, b)[d].timestamp >= pending[d].timestamp
    BY MergePendingType DEF TypeOK, Queue
  <2>3. \A d \in CellIds : /\ pending[d].timestamp \in Nat /\ pending'[d].timestamp \in Nat
                           /\ OnDisk(Len(idb))[d].timestamp \in Nat
    <3>1. pending' \in Queue /\ pending \in Queue
      BY DEF TypeOK
    <3>2. QED BY <3>1, ChainTypes
  <2>4. alive /\ Mirror(pending') /\ room' = room /\ refused' = refused
        /\ outbox' = outbox /\ batch' = batch /\ (flush' = flush \/ flush' = "sleep")
    BY <1>3 DEF UpdateCell, ScheduleFlush
  <2>5. \A d \in CellIds : \/ OnDisk(Len(idb))[d].timestamp <= pending'[d].timestamp
                           \/ OnDisk(Len(idb))[d].timestamp <= room'[d].timestamp
                           \/ OnDisk(Len(idb))[d].timestamp <= refused'[d]
    BY <2>1, <2>2, <2>3, <2>4, GrowsTypes DEF LastLink, Settled
  <2>6. pending' \in Queue
    BY DEF TypeOK
  <2>7. sealing' = sealing /\ Links' /\ LastLink'
    BY <1>1, <2>4, <2>5, <2>6, MirrorLinks
  <2>8. QED BY <2>4, <2>7
<1>4. ASSUME pending' = RemoveSent(pending, batch), Mirror(pending'), outbox' = outbox,
             alive, flush' = "sleep",
             \A c \in CellIds : batch[c].timestamp <= room'[c].timestamp
                                \/ batch[c].timestamp <= refused'[c]
      PROVE  ChainInv'
  <2>1. pending' \in Queue
    BY DEF TypeOK
  <2>2. \A d \in CellIds :
          \/ pending'[d] = pending[d]
          \/ pending[d].timestamp <= batch[d].timestamp
    BY <1>4, RemoveSentType DEF TypeOK, Queue
  <2>3. \A d \in CellIds : /\ pending[d].timestamp \in Nat /\ batch[d].timestamp \in Nat
                           /\ OnDisk(Len(idb))[d].timestamp \in Nat
    BY ChainTypes DEF TypeOK
  <2>4. \A d \in CellIds : \/ OnDisk(Len(idb))[d].timestamp <= pending'[d].timestamp
                           \/ OnDisk(Len(idb))[d].timestamp <= room'[d].timestamp
                           \/ OnDisk(Len(idb))[d].timestamp <= refused'[d]
    BY <1>1, <1>4, <2>2, <2>3, GrowsTypes DEF LastLink, Settled, Grows
  <2>5. sealing' = sealing /\ Links' /\ LastLink'
    BY <1>1, <1>4, <2>1, <2>4, MirrorLinks
  <2>6. QED BY <1>4, <2>5
<1>5. CASE FlushWake \/ Retryable \/ Rejected \/ RequestHangs \/ Sync
  BY <1>2, <1>5 DEF FlushWake, Take, Retryable, Rejected, RequestHangs, Sync, disk
<1>6. CASE ServerAccepts
  BY <1>2, <1>6, RoomGrows DEF ServerAccepts, disk
<1>7. CASE Sent
  BY <1>4, <1>7 DEF Sent
<1>8. ASSUME NEW fetched \in BOOLEAN, Revert(fetched)
      PROVE  ChainInv'
  <2>1. \A c \in CellIds : refused[c] \in Nat /\ batch[c].timestamp \in Nat
    BY AbsentType DEF TypeOK, Queue
  <2>2. \A c \in CellIds : refused'[c] = MaxOf(refused[c], batch[c].timestamp)
    BY <1>8 DEF Revert
  <2>3. \A c \in CellIds : batch[c].timestamp <= refused'[c]
    BY <2>1, <2>2 DEF MaxOf
  <2>4. QED BY <1>4, <1>8, <2>3 DEF Revert
<1>9. CASE \E q \in sealing : SealDone(q)
  BY <1>9
<1>10. CASE IdbCommit
  <2> PICK n \in Nat : n = Len(idb)
    BY ChainTypes
  <2>1. /\ idb' = Tail(idb) /\ n > 0 /\ Len(idb') = n - 1 /\ Head(idb) = idb[1]
        /\ \A i \in 1..(n - 1) : idb'[i] = idb[i + 1]
    BY <1>10 DEF IdbCommit, TypeOK
  <2>2. outbox' = idb[1].queue /\ sealing' = sealing /\ pending' = pending /\ alive' = alive
        /\ room' = room /\ refused' = refused /\ flush' = flush /\ batch' = batch
    BY <1>10, <2>1 DEF IdbCommit, memory
  <2>3. \A i \in 0..(n - 1) : OnDisk(i)' = OnDisk(i + 1)
    BY <2>1, <2>2 DEF OnDisk
  <2>4. Links'
    <3> SUFFICES ASSUME NEW i \in 1..(n - 1), idb'[i].kind # "clear", NEW c \in CellIds
                 PROVE  Settled(idb[i].queue, c, OnDisk(i - 1)[c].timestamp)'
      BY <2>1 DEF Links
    <3>1. OnDisk(i - 1)' = OnDisk(i) /\ idb'[i] = idb[i + 1]
      BY <2>1, <2>3
    <3>2. Settled(idb[i + 1].queue, c, OnDisk(i)[c].timestamp)
      BY <3>1 DEF Links
    <3>3. QED BY <2>2, <3>1, <3>2 DEF Settled
  <2>5. alive' => LastLink'
    <3>1. OnDisk(n - 1)' = OnDisk(n)
      BY <2>1, <2>3
    <3>2. QED BY <2>1, <2>2, <3>1 DEF LastLink, Settled
  <2>6. QED BY <2>2, <2>4, <2>5
<1>11. CASE MirrorTick
  <2>1. lastOutbox' = <<pending>> /\ StartSave(pending) /\ idb = << >> /\ alive'
        /\ pending' = pending /\ room' = room /\ refused' = refused
        /\ outbox' = outbox /\ flush' = flush /\ batch' = batch
    BY <1>11 DEF MirrorTick
  <2>2. sealing' = sealing /\ idb' = Append(idb, Save(pending))
    BY <2>1 DEF StartSave
  <2>3. Len(idb') = 1 /\ idb'[1] = Save(pending)
    BY <2>1, <2>2
  <2>4. OnDisk(0)' = outbox /\ OnDisk(1)' = pending /\ idb'[1].queue = pending
    BY <2>1, <2>3 DEF OnDisk, Save
  <2>5. \A c \in CellIds : Settled(pending, c, outbox[c].timestamp)
    BY <1>11, <2>1 DEF MirrorTick, LastLink, OnDisk
  <2>6. \A c \in CellIds : pending[c].timestamp \in Nat
    BY ChainTypes DEF TypeOK
  <2>7. Links' /\ LastLink'
    BY <2>1, <2>3, <2>4, <2>5, <2>6 DEF Links, LastLink, Settled
  <2>8. QED BY <2>1, <2>2, <2>7
<1>12. CASE Crash
  BY <1>12, ChainTypes DEF Crash, Links
<1>13. CASE Open
  <2>1. outbox' = outbox /\ pending' = outbox /\ sealing' = {} /\ flush' # "landed"
        /\ (idb' = <<Save(outbox), Clear>> \/ idb' = <<Clear>>)
        /\ room' = room /\ refused' = refused
    BY <1>13 DEF Open, QueuedOnOpen
  <2>2. \A c \in CellIds : outbox[c].timestamp \in Nat /\ Clear.queue[c].timestamp = 0
    BY ChainTypes DEF TypeOK, Clear, Empty, Absent
  <2>3. CASE idb' = <<Clear>>
    <3>1. Len(idb') = 1 /\ idb'[1] = Clear /\ Clear.kind = "clear"
      BY <2>3 DEF Clear
    <3>2. OnDisk(Len(idb))' = Clear.queue
      BY <3>1 DEF OnDisk
    <3>3. Links' /\ LastLink'
      BY <2>1, <2>2, <3>1, <3>2 DEF Links, LastLink, Settled
    <3>4. QED BY <2>1, <3>3
  <2>4. CASE idb' = <<Save(outbox), Clear>>
    <3>1. /\ Len(idb') = 2 /\ idb'[1] = Save(outbox) /\ idb'[2] = Clear
          /\ Clear.kind = "clear" /\ idb'[1].queue = outbox
      BY <2>4 DEF Clear, Save
    <3>2. OnDisk(Len(idb))' = Clear.queue /\ OnDisk(0)' = outbox
      BY <2>1, <3>1 DEF OnDisk
    <3>3. LastLink'
      BY <2>1, <2>2, <3>2 DEF LastLink, Settled
    <3>4. Links'
      <4> SUFFICES ASSUME NEW i \in 1..2, idb'[i].kind # "clear", NEW c \in CellIds
                   PROVE  Settled(idb[i].queue, c, OnDisk(i - 1)[c].timestamp)'
        BY <3>1 DEF Links
      <4>1. i = 1
        BY <3>1
      <4>2. QED BY <2>2, <3>1, <3>2, <4>1 DEF Settled
    <3>5. QED BY <2>1, <3>3, <3>4
  <2>5. QED BY <2>1, <2>3, <2>4
<1>14. CASE UNCHANGED vars
  BY <1>2, <1>14 DEF vars, memory, disk
<1>15. QED
  BY <1>3, <1>5, <1>6, <1>7, <1>8, <1>9, <1>10, <1>11, <1>12, <1>13, <1>14
     DEF Next, Edit

\* The surroundings are what they were when the client started.
LEMMA EnvFixed ==
  ASSUME [Next]_vars
  PROVE  env' = env
BY DEF Next, Edit, UpdateCell, FlushWake, ServerAccepts, Sent, Retryable, Rejected, Revert,
       RequestHangs, SealDone, IdbCommit, MirrorTick, Sync, Crash, Open, vars

\* With a plaintext outbox, no step but the reopen's own clear ever loses an
\* edit that had reached the disk: it stays there until the room has it or the
\* server has refused it, across crashes, retries, lost answers and hangs
\* (ADR 0003 phase 1; persistOutbox, flush_pending).
THEOREM FateKeptPlaintext == Spec => FateKept
<1> DEFINE Chained == env.sealed \/ ChainInv
<1>1. Init => Chained
  <2> SUFFICES ASSUME Init PROVE ChainInv
    OBVIOUS
  <2>1. Len(idb) = 0
    BY DEF Init
  <2>2. QED BY <2>1 DEF Init, ChainInv, Links
<1>2. TypeOK /\ TypeOK' /\ Chained /\ [Next]_vars => Chained'
  BY ChainStep, EnvFixed
<1>3. TypeOK /\ TypeOK' /\ Chained /\ [Next]_vars
        => [env.sealed \/ ReopenClearCommits \/ \A c \in CellIds : Fate(c)' >= Fate(c)]_vars
  <2> SUFFICES ASSUME TypeOK, TypeOK', ChainInv, ~env.sealed, [Next]_vars,
                      ~ReopenClearCommits, NEW c \in CellIds
               PROVE  Fate(c)' >= Fate(c)
    OBVIOUS
  <2>1. Grows
    BY NextGrows
  <2>2. outbox[c].timestamp \in Nat /\ outbox'[c].timestamp \in Nat
    BY AbsentType DEF TypeOK, Queue
  <2>3. CASE outbox' = outbox
    BY <2>1, <2>2, <2>3, GrowsTypes DEF Fate, MaxOf, Grows
  <2>4. CASE IdbCommit
    <3>1. /\ Head(idb) = idb[1] /\ 1 \in 1..Len(idb) /\ outbox' = idb[1].queue
          /\ idb[1].kind # "clear"
      BY <2>4 DEF IdbCommit, ReopenClearCommits, TypeOK
    <3>2. Settled(idb[1].queue, c, outbox[c].timestamp)
      BY <3>1 DEF ChainInv, Links, OnDisk
    <3>3. QED
      BY <2>1, <2>2, <3>1, <3>2, GrowsTypes DEF Fate, MaxOf, Grows, Settled
  <2>5. QED BY <2>3, <2>4, NextGrows
<1>4. QED BY <1>1, <1>2, <1>3, TypeCorrect, PTL DEF Spec, FateKept

---------------------------------------------------------------------------
(* The strengthening behind MirrorMatchesQueue: the dedup field is the     *)
(* queue, and the last transaction waiting writes it.                      *)
MirrorInv ==
  /\ sealing = {}
  /\ alive /\ lastOutbox # << >> =>
       /\ lastOutbox = <<pending>>
       /\ idb = << >> => cleared \/ outbox = pending
       /\ idb # << >> => idb[Len(idb)].kind = "clear" \/ idb[Len(idb)].queue = pending

\* Mirroring re-establishes it, whether or not the queue had changed.
LEMMA MirrorKeeps ==
  ASSUME ~env.sealed, TypeOK, MirrorInv, alive, alive', NEW q \in Queue, Mirror(q),
         pending' = q, outbox' = outbox, cleared' = cleared
  PROVE  MirrorInv'
<1>1. CASE lastOutbox = <<q>>
  <2>1. UNCHANGED <<lastOutbox, sealing, idb>>
    BY <1>1 DEF Mirror
  <2>2. lastOutbox = <<pending>> /\ lastOutbox # << >>
    BY <1>1 DEF MirrorInv
  <2>3. q = pending
    BY <1>1, <2>2
  <2>4. QED BY <2>1, <2>2, <2>3 DEF MirrorInv
<1>2. CASE lastOutbox # <<q>>
  <2>1. sealing' = sealing /\ idb' = Append(idb, Save(q)) /\ lastOutbox' = <<q>>
    BY <1>2 DEF Mirror, StartSave
  <2>2. idb' # << >> /\ idb'[Len(idb')] = Save(q) /\ Save(q).queue = q
    BY <2>1, WriteType DEF TypeOK, Save
  <2>3. QED BY <2>1, <2>2 DEF MirrorInv
<1>3. QED BY <1>1, <1>2

\* With a plaintext outbox, once its transactions have committed the record on
\* disk is the queue in memory, unless the reopen's clear was the last to
\* commit (persistOutbox and its dedup by lastOutbox).
THEOREM MirrorFaithful == Spec => []MirrorMatchesQueue
<1> DEFINE Mirrored == env.sealed \/ MirrorInv
<1>1. Init => Mirrored
  BY DEF Init, MirrorInv
<1>2. TypeOK /\ TypeOK' /\ Mirrored /\ [Next]_vars => Mirrored'
  <2> SUFFICES ASSUME TypeOK, TypeOK', MirrorInv, ~env.sealed, [Next]_vars PROVE MirrorInv'
    BY EnvFixed
  <2>1. pending' \in Queue /\ pending \in Queue
    BY DEF TypeOK
  <2>2. ASSUME NEW c \in CellIds, NEW bump \in CellIds, NEW v \in Value,
               UpdateCell(c, v, bump)
        PROVE  MirrorInv'
    BY <2>1, <2>2, MirrorKeeps DEF UpdateCell
  <2>3. CASE Sent
    BY <2>1, <2>3, MirrorKeeps DEF Sent
  <2>4. ASSUME NEW fetched \in BOOLEAN, Revert(fetched)
        PROVE  MirrorInv'
    BY <2>1, <2>4, MirrorKeeps DEF Revert
  <2>5. CASE FlushWake \/ ServerAccepts \/ Retryable \/ Rejected \/ RequestHangs \/ Sync
    BY <2>5 DEF FlushWake, Take, ServerAccepts, Retryable, Rejected, RequestHangs,
                Sync, disk, MirrorInv
  <2>6. CASE \E q \in sealing : SealDone(q)
    BY <2>6 DEF MirrorInv
  <2>7. CASE IdbCommit
    <3>1. /\ idb # << >> /\ idb' = Tail(idb) /\ outbox' = Head(idb).queue
          /\ cleared' = (Head(idb).kind = "clear")
          /\ UNCHANGED <<alive, lastOutbox, pending, sealing>>
      BY <2>7 DEF IdbCommit, memory
    <3>2. CASE Len(idb) = 1
      <4>1. Head(idb) = idb[Len(idb)] /\ idb' = << >>
        BY <3>1, <3>2 DEF TypeOK
      <4>2. QED BY <3>1, <4>1 DEF MirrorInv
    <3>3. CASE Len(idb) # 1
      <4> PICK n \in Nat : n = Len(idb)
        BY ChainTypes
      <4>1. n > 1
        BY <3>1, <3>3, EmptySeq DEF TypeOK
      <4>2. Len(idb') = n - 1 /\ idb'[n - 1] = idb[n]
        BY <3>1, <4>1 DEF TypeOK
      <4>3. idb' # << >> /\ idb'[Len(idb')] = idb[Len(idb)]
        BY <4>1, <4>2
      <4>4. QED BY <3>1, <4>3 DEF MirrorInv
    <3>4. QED BY <3>2, <3>3
  <2>8. CASE MirrorTick
    <3>1. /\ lastOutbox' = <<pending>> /\ pending' = pending /\ sealing' = sealing
          /\ idb' = Append(idb, Save(pending)) /\ idb = << >>
      BY <2>8 DEF MirrorTick, StartSave
    <3>2. Len(idb') = 1 /\ idb'[1] = Save(pending) /\ Save(pending).queue = pending
      BY <3>1 DEF Save
    <3>3. idb' # << >>
      BY <3>2
    <3>4. QED BY <3>1, <3>2, <3>3 DEF MirrorInv
  <2>9. CASE Crash
    BY <2>9 DEF Crash, MirrorInv
  <2>10. CASE Open
    <3>1. /\ sealing' = {} /\ pending' = outbox
          /\ \/ lastOutbox' = << >>
             \/ lastOutbox' = <<outbox>> /\ idb' = <<Save(outbox), Clear>>
      BY <2>10 DEF Open, QueuedOnOpen
    <3>2. CASE lastOutbox' = << >>
      BY <3>1, <3>2 DEF MirrorInv
    <3>3. CASE lastOutbox' = <<outbox>> /\ idb' = <<Save(outbox), Clear>>
      <4>1. idb' # << >> /\ idb'[Len(idb')].kind = "clear"
        BY <3>3 DEF Clear
      <4>2. QED BY <3>1, <3>3, <4>1 DEF MirrorInv
    <3>4. QED BY <3>1, <3>2, <3>3
  <2>11. CASE UNCHANGED vars
    BY <2>11 DEF vars, memory, disk, MirrorInv
  <2>12. QED
    BY <2>2, <2>3, <2>4, <2>5, <2>6, <2>7, <2>8, <2>9, <2>10, <2>11 DEF Next, Edit
<1>3. Mirrored => MirrorMatchesQueue
  BY DEF MirrorInv, MirrorMatchesQueue
<1>4. QED BY <1>1, <1>2, <1>3, TypeCorrect, PTL DEF Spec
---------------------------------------------------------------------------
(* The strengthening behind DrainedShowsRoom.  As long as nothing has been *)
(* refused, every copy of a cell - shown, queued, flying, on disk, on its  *)
(* way there, in the room - is an entry of one log of writes: a cell and   *)
(* a timestamp determine the value, and a live client's clock covers the   *)
(* log.  What is shown is in the room or still queued.                     *)
Log == {W \in [CellIds -> [Nat -> Value \cup {NoValue}]] : \A c \in CellIds : W[c][0] = NoValue}

Fits(q, W, n) ==
  \A c \in CellIds : q[c].timestamp <= n /\ q[c].value = W[c][q[c].timestamp]

DiskFits(W, n) ==
  /\ Fits(outbox, W, n)
  /\ \A q \in sealing : Fits(q, W, n)
  /\ \A i \in 1..Len(idb) : Fits(idb[i].queue, W, n)

MemoryFits(W, n) == Fits(cells, W, n) /\ Fits(pending, W, n) /\ Fits(batch, W, n)

Recording(W, n) ==
  /\ alive => n = clock
  /\ ~alive => batch = Empty
  /\ Fits(room, W, n) /\ MemoryFits(W, n) /\ DiskFits(W, n)

Recorded == \E W \in Log, n \in Nat : Recording(W, n)

Accounted == \A c \in CellIds : cells[c].timestamp <= room[c].timestamp
                                \/ cells[c].timestamp <= pending[c].timestamp

FlightInv ==
  /\ flush = "landed" => \A c \in CellIds : batch[c].timestamp <= room[c].timestamp
  /\ flush \in {"send", "revert"} => batch # Empty

Unrefused == \A c \in CellIds : refused[c] = 0

DrainInv == Unrefused => Recorded /\ Accounted /\ FlightInv

\* The empty queue is in every log, and a log that covers n covers more.
LEMMA FitsBasics ==
  ASSUME NEW W \in Log, NEW n \in Nat
  PROVE  /\ Fits(Empty, W, n)
         /\ \A q \in Queue, m \in Nat : n <= m /\ Fits(q, W, n) => Fits(q, W, m)
<1>1. \A c \in CellIds : Empty[c] = Absent /\ Absent.timestamp = 0 /\ Absent.value = NoValue
  BY DEF Empty, Absent
<1>2. \A q \in Queue, c \in CellIds : q[c].timestamp \in Nat
  BY ChainTypes, AbsentType DEF Queue
<1>3. QED BY <1>1, <1>2 DEF Fits, Log

\* Resolution, coalescing, the removal of a batch and receiving make no new
\* writes.
LEMMA FitsKept ==
  ASSUME NEW W \in Log, NEW n \in Nat, NEW p \in Queue, NEW q \in Queue,
         Fits(p, W, n), Fits(q, W, n)
  PROVE  /\ ApplyBatch(p, q) \in Queue /\ Fits(ApplyBatch(p, q), W, n)
         /\ MergePending(p, q) \in Queue /\ Fits(MergePending(p, q), W, n)
         /\ RemoveSent(p, q) \in Queue /\ Fits(RemoveSent(p, q), W, n)
         /\ ReceivedBatch(q, OriginTs) \in Queue /\ Fits(ReceivedBatch(q, OriginTs), W, n)
<1>1. p \in [CellIds -> Cell] /\ q \in [CellIds -> Cell] /\ OriginTs \in Nat
  BY DEF Queue, OriginTs
<1>2. ApplyBatch(p, q) \in Queue /\ Fits(ApplyBatch(p, q), W, n)
  BY <1>1, ApplyBatchType DEF Queue, Fits
<1>3. MergePending(p, q) \in Queue /\ Fits(MergePending(p, q), W, n)
  BY <1>1, MergePendingType DEF Queue, Fits
<1>4. RemoveSent(p, q) \in Queue /\ Fits(RemoveSent(p, q), W, n)
  <2>1. /\ RemoveSent(p, q) \in Queue
        /\ \A c \in CellIds : RemoveSent(p, q)[c] \in {p[c], Absent}
    BY <1>1, RemoveSentType DEF Queue
  <2>2. Absent.timestamp = 0 /\ Absent.value = NoValue /\ \A c \in CellIds : W[c][0] = NoValue
    BY DEF Absent, Log
  <2>3. QED BY <2>1, <2>2 DEF Fits
<1>5. ReceivedBatch(q, OriginTs) \in Queue /\ Fits(ReceivedBatch(q, OriginTs), W, n)
  <2>1. ReceivedBatch(q, OriginTs) \in Queue
    BY <1>1, ReceivedBatchType DEF Queue
  <2>2. \A c \in CellIds : /\ ReceivedBatch(q, OriginTs)[c].timestamp = q[c].timestamp
                           /\ ReceivedBatch(q, OriginTs)[c].value = q[c].value
    BY <1>1, ReceivedType DEF ReceivedBatch
  <2>3. QED BY <2>1, <2>2 DEF Fits
<1>6. QED BY <1>2, <1>3, <1>4, <1>5

\* What is saved is in the log when the queue is.
LEMMA SaveFits ==
  ASSUME TypeOK, NEW W \in Log, NEW n \in Nat, NEW q \in Queue, Fits(q, W, n),
         DiskFits(W, n), Mirror(q) \/ StartSave(q), outbox' = outbox
  PROVE  DiskFits(W, n)'
<1>1. CASE UNCHANGED <<sealing, idb>>
  BY <1>1 DEF DiskFits, Fits
<1>2. CASE sealing' = sealing \cup {q} /\ idb' = idb
  BY <1>2 DEF DiskFits, Fits
<1>3. CASE idb' = Append(idb, Save(q)) /\ sealing' = sealing
  <2> PICK m \in Nat : m = Len(idb)
    BY ChainTypes
  <2>1. /\ Len(idb') = m + 1 /\ idb'[m + 1].queue = q
        /\ \A i \in 1..m : idb'[i] = idb[i]
    BY <1>3, WriteType DEF TypeOK, Save
  <2>2. \A i \in 1..(m + 1) : i = m + 1 \/ i \in 1..m
    OBVIOUS
  <2>3. \A i \in 1..(m + 1) : Fits(idb'[i].queue, W, n)
    BY <2>1, <2>2 DEF DiskFits
  <2>4. QED BY <1>3, <2>1, <2>3 DEF DiskFits, Fits
<1>4. QED BY <1>1, <1>2, <1>3 DEF Mirror, StartSave

\* The batch of an edit holds new writes only, above the clock, and the clock
\* moves over them.
LEMMA EditBatchFresh ==
  ASSUME TypeOK, NEW c \in CellIds, NEW v \in Value, NEW bump \in CellIds,
         UpdateCell(c, v, bump)
  PROVE  \E b \in Queue :
           /\ cells' = ApplyBatch(cells, b) /\ pending' = MergePending(pending, b)
           /\ clock' \in Nat /\ clock <= clock'
           /\ \A d \in CellIds : b[d] = Absent \/ b[d].timestamp > clock
           /\ \A d \in CellIds : b[d].timestamp <= clock'
<1> DEFINE b == [d \in CellIds |->
              CASE d = c -> NewUpdate(v, clock + 1)
                [] d = bump /\ d # c -> NewUpdate(cells[d].value, clock + 2)
                [] OTHER -> Absent]
<1>1. b \in Queue
  BY EditBatchType
<1>2. cells' = ApplyBatch(cells, b) /\ pending' = MergePending(pending, b)
      /\ clock' = IF bump = c THEN clock + 1 ELSE clock + 2
  BY DEF UpdateCell
<1>3. clock \in Nat
  BY DEF TypeOK
<1>4. \A d \in CellIds :
        \/ d = c /\ b[d].timestamp = clock + 1
        \/ d = bump /\ d # c /\ b[d].timestamp = clock + 2
        \/ b[d] = Absent
  BY DEF NewUpdate
<1>5. Absent.timestamp = 0
  BY DEF Absent
<1> HIDE DEF b
<1>6. QED BY <1>1, <1>2, <1>3, <1>4, <1>5

\* The disk keeps fitting when every queue that fitted one log fits another.
LEMMA DiskRefit ==
  ASSUME TypeOK, NEW W \in Log, NEW n \in Nat, NEW V \in Log, NEW m \in Nat,
         DiskFits(W, n), \A q \in Queue : Fits(q, W, n) => Fits(q, V, m)
  PROVE  DiskFits(V, m)
<1>1. outbox \in Queue /\ sealing \subseteq Queue
  BY DEF TypeOK
<1>2. \A i \in 1..Len(idb) : idb[i].queue \in Queue
  BY WriteType DEF TypeOK
<1>3. QED BY <1>1, <1>2 DEF DiskFits

\* An edit extends the log by its own writes, and the rest of the log stands.
LEMMA LogExtends ==
  ASSUME NEW W \in Log, NEW n \in Nat, NEW m \in Nat, n <= m, NEW b \in Queue,
         \A d \in CellIds : b[d] = Absent \/ b[d].timestamp > n,
         \A d \in CellIds : b[d].timestamp <= m
  PROVE  \E V \in Log : Fits(b, V, m) /\ \A q \in Queue : Fits(q, W, n) => Fits(q, V, m)
<1> DEFINE V == [d \in CellIds |-> [t \in Nat |-> IF t <= n THEN W[d][t] ELSE b[d].value]]
<1>1. V \in Log
  <2>1. \A d \in CellIds : b[d].value \in Value \cup {NoValue}
    BY AbsentType DEF Queue
  <2>2. QED BY <2>1 DEF Log
<1>2. \A d \in CellIds, t \in Nat : V[d][t] = IF t <= n THEN W[d][t] ELSE b[d].value
  OBVIOUS
<1> HIDE DEF V
<1>3. \A q \in Queue, d \in CellIds : q[d].timestamp \in Nat
  BY AbsentType DEF Queue
<1>4. Fits(b, V, m)
  <2> SUFFICES ASSUME NEW d \in CellIds PROVE b[d].value = V[d][b[d].timestamp]
    BY DEF Fits
  <2>1. CASE b[d] = Absent
    BY <2>1, <1>1 DEF Absent, Log
  <2>2. CASE b[d].timestamp > n
    BY <2>2, <1>2, <1>3
  <2>3. QED BY <2>1, <2>2
<1>5. \A q \in Queue : Fits(q, W, n) => Fits(q, V, m)
  BY <1>2, <1>3 DEF Fits
<1>6. QED BY <1>1, <1>4, <1>5

\* Every step keeps the log, the account of what is shown, and the flight.
LEMMA DrainStep ==
  ASSUME TypeOK, TypeOK', DrainInv, [Next]_vars
  PROVE  DrainInv'
<1> SUFFICES ASSUME Unrefused' PROVE Recorded' /\ Accounted' /\ FlightInv'
  BY DEF DrainInv
<1>1. Unrefused
  BY NextGrows, GrowsTypes DEF Grows, Unrefused
<1>2. PICK W \in Log, n \in Nat : Recording(W, n)
  BY <1>1 DEF DrainInv, Recorded
<1>3. Accounted /\ FlightInv
  BY <1>1 DEF DrainInv
<1>4. /\ cells \in Queue /\ pending \in Queue /\ batch \in Queue /\ outbox \in Queue
      /\ room \in Queue /\ clock \in Nat /\ clock' \in Nat
      /\ cells' \in Queue /\ pending' \in Queue /\ room' \in Queue /\ batch' \in Queue
  BY DEF TypeOK
<1>5. \A q \in Queue, c \in CellIds : q[c].timestamp \in Nat
  BY AbsentType DEF Queue
<1>6. /\ Fits(room, W, n) /\ Fits(cells, W, n) /\ Fits(pending, W, n) /\ Fits(batch, W, n)
      /\ Fits(outbox, W, n) /\ DiskFits(W, n) /\ Fits(Empty, W, n)
  BY <1>2, FitsBasics DEF Recording, MemoryFits, DiskFits
<1>7. ASSUME NEW c \in CellIds, NEW bump \in CellIds, NEW v \in Value,
             UpdateCell(c, v, bump)
      PROVE  Recorded' /\ Accounted' /\ FlightInv'
  <2>1. PICK b \in Queue :
           /\ cells' = ApplyBatch(cells, b) /\ pending' = MergePending(pending, b)
           /\ clock' \in Nat /\ clock <= clock'
           /\ \A d \in CellIds : b[d] = Absent \/ b[d].timestamp > clock
           /\ \A d \in CellIds : b[d].timestamp <= clock'
    BY <1>7, EditBatchFresh
  <2>2. /\ alive /\ alive' = alive /\ Mirror(pending') /\ outbox' = outbox /\ room' = room
        /\ batch' = batch /\ (flush' = flush \/ flush' = "sleep") /\ n = clock
    BY <1>2, <1>7 DEF UpdateCell, ScheduleFlush, Recording
  <2> PICK m \in Nat : m = clock'
    BY <1>4
  <2>3. PICK V \in Log : /\ Fits(b, V, m)
                         /\ \A q \in Queue : Fits(q, W, n) => Fits(q, V, m)
    BY <2>1, <2>2, LogExtends
  <2>4. /\ Fits(room, V, m) /\ Fits(cells, V, m) /\ Fits(pending, V, m)
        /\ Fits(batch, V, m)
    BY <1>4, <1>6, <2>3
  <2>5. Fits(cells', V, m) /\ Fits(pending', V, m)
    BY <1>4, <2>1, <2>3, <2>4, FitsKept
  <2>6. DiskFits(V, m)
    BY <1>4, <1>6, <2>3, DiskRefit
  <2>7. DiskFits(V, m)'
    BY <1>4, <2>2, <2>5, <2>6, SaveFits
  <2>8. Recorded'
    <3>1. Recording(V, m)'
      BY <2>2, <2>4, <2>5, <2>7 DEF Recording, MemoryFits, Fits
    <3>2. QED BY <1>4, <3>1 DEF Recorded
  <2>9. Accounted'
    <3>1. \A d \in CellIds : /\ cells'[d] \in {cells[d], b[d]}
                             /\ pending'[d].timestamp >= pending[d].timestamp
                             /\ pending'[d].timestamp >= b[d].timestamp
      BY <1>4, <2>1, ApplyBatchType, MergePendingType DEF Queue
    <3>2. QED BY <1>3, <1>4, <1>5, <2>2, <3>1 DEF Accounted
  <2>10. QED BY <1>3, <2>2, <2>8, <2>9 DEF FlightInv
<1>8. CASE FlushWake
  <2>1. /\ alive /\ alive' = alive /\ pending' = pending
        /\ UNCHANGED <<cells, clock, lastOutbox, disk, room>>
        /\ \/ flush' = "idle" /\ batch' = batch
           \/ flush' = "send" /\ batch' = pending /\ pending # Empty
    BY <1>8 DEF FlushWake, Take
  <2>2. Fits(batch', W, n)
    BY <1>6, <2>1
  <2>3. Recording(W, n)'
    BY <1>2, <1>6, <2>1, <2>2 DEF Recording, MemoryFits, DiskFits, Fits, disk
  <2>4. QED BY <1>3, <2>1, <2>3 DEF Recorded, Accounted, FlightInv
<1>9. CASE ServerAccepts
  <2>1. /\ alive /\ room' = ApplyBatch(room, ReceivedBatch(batch, OriginTs)) /\ flush' = "landed"
        /\ UNCHANGED <<alive, cells, clock, pending, batch, lastOutbox, disk>>
    BY <1>9 DEF ServerAccepts
  <2>2. Fits(room', W, n)
    BY <1>4, <1>6, <2>1, FitsKept
  <2>3. Recording(W, n)'
    BY <1>2, <1>6, <2>1, <2>2 DEF Recording, MemoryFits, DiskFits, Fits, disk
  <2>4. Accounted' /\ FlightInv'
    BY <1>3, <1>4, <1>5, <2>1, RoomGrows DEF Accounted, FlightInv
  <2>5. QED BY <2>3, <2>4 DEF Recorded
<1>10. CASE Sent
  <2>1. /\ alive /\ flush = "landed" /\ pending' = RemoveSent(pending, batch) /\ Mirror(pending')
        /\ batch' = Empty /\ flush' = "sleep" /\ UNCHANGED <<alive, cells, clock, outbox, room>>
    BY <1>10 DEF Sent
  <2>2. Fits(pending', W, n) /\ Fits(batch', W, n)
    BY <1>4, <1>6, <2>1, FitsKept
  <2>3. DiskFits(W, n)'
    BY <1>4, <1>6, <2>1, <2>2, SaveFits
  <2>4. Recording(W, n)'
    BY <1>2, <1>6, <2>1, <2>2, <2>3 DEF Recording, MemoryFits, Fits
  <2>5. Accounted'
    <3>1. \A c \in CellIds : \/ pending'[c] = pending[c]
                             \/ pending[c].timestamp <= batch[c].timestamp
      BY <1>4, <2>1, RemoveSentType DEF Queue
    <3>2. \A c \in CellIds : batch[c].timestamp <= room[c].timestamp
      BY <1>3, <2>1 DEF FlightInv
    <3>3. QED BY <1>3, <1>4, <1>5, <2>1, <3>1, <3>2 DEF Accounted
  <2>6. QED BY <2>1, <2>4, <2>5 DEF Recorded, FlightInv
<1>11. CASE Retryable
  <2>1. /\ alive /\ batch' = Empty /\ flush' = "sleep"
        /\ UNCHANGED <<alive, cells, clock, pending, lastOutbox, disk, room>>
    BY <1>11 DEF Retryable
  <2>2. Recording(W, n)'
    BY <1>2, <1>6, <2>1 DEF Recording, MemoryFits, DiskFits, Fits, disk
  <2>3. QED BY <1>3, <2>1, <2>2 DEF Recorded, Accounted, FlightInv
<1>12. CASE Rejected \/ RequestHangs
  <2>1. /\ flush = "send" /\ flush' \in {"revert", "hung"}
        /\ UNCHANGED <<alive, cells, clock, pending, batch, lastOutbox, disk, room>>
    BY <1>12 DEF Rejected, RequestHangs
  <2>2. Recording(W, n)'
    BY <1>2, <1>6, <2>1 DEF Recording, MemoryFits, DiskFits, Fits, disk
  <2>3. QED BY <1>3, <2>1, <2>2 DEF Recorded, Accounted, FlightInv
<1>13. ASSUME NEW fetched \in BOOLEAN, Revert(fetched)
       PROVE  FALSE
  <2>1. flush = "revert" /\ \A c \in CellIds : refused'[c] = MaxOf(refused[c], batch[c].timestamp)
    BY <1>13 DEF Revert
  <2>2. PICK c \in CellIds : batch[c] # Absent
    BY <1>3, <1>4, <2>1 DEF FlightInv, Empty, Queue
  <2>3. batch[c].timestamp # 0
    BY <1>4, <2>2, AbsentType DEF Queue
  <2>4. refused[c] \in Nat /\ batch[c].timestamp \in Nat /\ refused'[c] = 0
    BY <1>4, <1>5, GrowsTypes DEF Unrefused
  <2>5. QED BY <2>1, <2>3, <2>4 DEF MaxOf
<1>14. ASSUME NEW q \in sealing, SealDone(q)
       PROVE  Recorded' /\ Accounted' /\ FlightInv'
  <2>1. /\ sealing' = sealing \ {q} /\ idb' = Append(idb, Save(q))
        /\ UNCHANGED <<alive, memory, outbox, room>>
    BY <1>14 DEF SealDone
  <2>2. q \in Queue /\ Fits(q, W, n)
    BY <1>6 DEF DiskFits, TypeOK
  <2> PICK m \in Nat : m = Len(idb)
    BY ChainTypes
  <2>3. /\ Len(idb') = m + 1 /\ idb'[m + 1].queue = q
        /\ \A i \in 1..m : idb'[i] = idb[i]
    BY <2>1, <2>2, WriteType DEF TypeOK, Save
  <2>4. \A i \in 1..(m + 1) : i = m + 1 \/ i \in 1..m
    OBVIOUS
  <2>5. \A i \in 1..(m + 1) : Fits(idb'[i].queue, W, n)
    BY <1>6, <2>2, <2>3, <2>4 DEF DiskFits
  <2>6. DiskFits(W, n)'
    BY <1>6, <2>1, <2>3, <2>5 DEF DiskFits, Fits
  <2>7. Recording(W, n)'
    BY <1>2, <1>6, <2>1, <2>6 DEF Recording, MemoryFits, Fits, memory
  <2>8. QED BY <1>3, <2>1, <2>7 DEF Recorded, Accounted, FlightInv, memory
<1>15. CASE IdbCommit
  <2>1. /\ idb # << >> /\ outbox' = Head(idb).queue /\ idb' = Tail(idb)
        /\ UNCHANGED <<alive, memory, sealing, room>>
    BY <1>15 DEF IdbCommit
  <2> PICK m \in Nat : m = Len(idb)
    BY ChainTypes
  <2>2. /\ m > 0 /\ Len(idb') = m - 1 /\ Head(idb) = idb[1]
        /\ \A i \in 1..(m - 1) : idb'[i] = idb[i + 1]
    BY <2>1 DEF TypeOK
  <2>3. \A i \in 1..m : Fits(idb[i].queue, W, n)
    BY <1>6 DEF DiskFits
  <2>4. Fits(outbox', W, n) /\ \A i \in 1..(m - 1) : Fits(idb'[i].queue, W, n)
    BY <2>1, <2>2, <2>3
  <2>5. DiskFits(W, n)'
    BY <1>6, <2>1, <2>2, <2>4 DEF DiskFits, Fits
  <2>6. Recording(W, n)'
    BY <1>2, <1>6, <2>1, <2>5 DEF Recording, MemoryFits, Fits, memory
  <2>7. QED BY <1>3, <2>1, <2>6 DEF Recorded, Accounted, FlightInv, memory
<1>16. CASE MirrorTick
  <2>1. StartSave(pending) /\ UNCHANGED <<alive, cells, clock, pending, flush, batch, outbox, room>>
    BY <1>16 DEF MirrorTick
  <2>2. DiskFits(W, n)'
    BY <1>4, <1>6, <2>1, SaveFits
  <2>3. Recording(W, n)'
    BY <1>2, <1>6, <2>1, <2>2 DEF Recording, MemoryFits, Fits
  <2>4. QED BY <1>3, <2>1, <2>3 DEF Recorded, Accounted, FlightInv
<1>17. CASE Sync
  <2>1. /\ alive /\ cells' = ApplyBatch(cells, room) /\ clock' \in Observed(clock, room)
        /\ UNCHANGED <<alive, pending, flush, batch, lastOutbox, disk, room>>
    BY <1>17 DEF Sync
  <2> PICK m \in Nat : m = clock'
    BY <1>4
  <2>2. n = clock /\ n <= m
    BY <1>2, <1>4, <2>1, ObservedType DEF Recording, Queue
  <2>3. Fits(cells', W, n)
    BY <1>4, <1>6, <2>1, FitsKept
  <2>4. \A q \in Queue : Fits(q, W, n) => Fits(q, W, m)
    BY <2>2, FitsBasics
  <2>5. DiskFits(W, m) /\ Fits(room, W, m) /\ Fits(pending, W, m) /\ Fits(batch, W, m)
        /\ Fits(cells', W, m)
    BY <1>4, <1>6, <2>3, <2>4, DiskRefit
  <2>6. Recording(W, m)'
    BY <2>1, <2>5 DEF Recording, MemoryFits, DiskFits, Fits, disk
  <2>7. \A c \in CellIds : cells'[c] \in {cells[c], room[c]}
    BY <1>4, <2>1, ApplyBatchType DEF Queue
  <2>8. Accounted'
    BY <1>3, <1>4, <1>5, <2>1, <2>7 DEF Accounted
  <2>9. QED BY <1>3, <2>1, <2>6, <2>8 DEF Recorded, FlightInv
<1>18. CASE Crash
  <2>1. /\ alive' = FALSE /\ cells' = Empty /\ pending' = Empty /\ batch' = Empty
        /\ flush' = "idle" /\ sealing' = {} /\ idb' = << >> /\ outbox' = outbox
        /\ room' = room \/ room' = ApplyBatch(room, ReceivedBatch(batch, OriginTs))
    BY <1>18 DEF Crash
  <2>2. Fits(room', W, n)
    BY <1>4, <1>6, <2>1, FitsKept
  <2>3. Len(idb') = 0
    BY <2>1
  <2>4. DiskFits(W, n)'
    BY <1>6, <2>1, <2>3 DEF DiskFits, Fits
  <2>5. Recording(W, n)'
    BY <1>6, <2>1, <2>2, <2>4 DEF Recording, MemoryFits, Fits
  <2>6. \A c \in CellIds : cells'[c].timestamp = 0 /\ room'[c].timestamp \in Nat
    BY <1>4, <1>5, <2>1 DEF Empty, Absent
  <2>7. QED BY <2>1, <2>5, <2>6 DEF Recorded, Accounted, FlightInv
<1>19. CASE Open
  <2>1. /\ ~alive /\ alive' = TRUE /\ pending' = outbox
        /\ cells' = ApplyBatch(ApplyBatch(Empty, room), outbox)
        /\ \E k \in Observed(0, room) : clock' \in Observed(k, outbox)
        /\ flush' \in {"sleep", "idle"} /\ UNCHANGED <<batch, outbox, room>>
        /\ sealing' \subseteq {outbox}
        /\ idb' = <<Save(outbox), Clear>> \/ idb' = <<Clear>>
    BY <1>19 DEF Open, QueuedOnOpen
  <2> PICK m \in Nat : m = clock'
    BY <1>4
  <2>2. \A c \in CellIds : room[c].timestamp <= m /\ outbox[c].timestamp <= m
    <3> PICK k \in Observed(0, room) : clock' \in Observed(k, outbox)
      BY <2>1
    <3>1. k \in Nat /\ \A c \in CellIds : room[c].timestamp <= k
      BY <1>4, ObservedType DEF Queue
    <3>2. k <= m /\ \A c \in CellIds : outbox[c].timestamp <= m
      BY <1>4, <3>1, ObservedType DEF Queue
    <3>3. QED BY <1>4, <1>5, <3>1, <3>2
  <2>3. Fits(room, W, m) /\ Fits(outbox, W, m) /\ Fits(Empty, W, m)
    BY <1>6, <2>2, FitsBasics DEF Fits
  <2>4. ApplyBatch(Empty, room) \in Queue /\ Fits(ApplyBatch(Empty, room), W, m)
    BY <1>4, <2>3, EmptyType, FitsKept
  <2>5. Fits(cells', W, m)
    BY <1>4, <2>1, <2>3, <2>4, FitsKept
  <2>6. DiskFits(W, m)'
    <3>1. Save(outbox).queue = outbox /\ Clear.queue = Empty
      BY DEF Save, Clear
    <3>2. \A i \in 1..Len(idb') : idb'[i].queue \in {outbox, Empty}
      BY <2>1, <3>1
    <3>3. QED BY <2>1, <2>3, <3>2 DEF DiskFits, Fits
  <2>7. batch = Empty
    BY <1>2, <2>1 DEF Recording
  <2>8. Recording(W, m)'
    BY <2>1, <2>3, <2>5, <2>6, <2>7 DEF Recording, MemoryFits, Fits
  <2>9. Accounted'
    <3>1. \A c \in CellIds : cells'[c] \in {Absent, room[c], outbox[c]}
      BY <1>4, <2>1, <2>4, EmptyType, ApplyBatchType DEF Queue, Empty
    <3>2. QED BY <1>4, <1>5, <2>1, <3>1 DEF Accounted, Absent
  <2>10. QED BY <2>1, <2>8, <2>9 DEF Recorded, FlightInv
<1>20. CASE UNCHANGED vars
  <2>1. Recording(W, n)'
    BY <1>2, <1>20 DEF Recording, MemoryFits, DiskFits, Fits, vars, memory, disk
  <2>2. QED BY <1>3, <1>20, <2>1 DEF Recorded, Accounted, FlightInv, vars, memory
<1>21. QED
  BY <1>7, <1>8, <1>9, <1>10, <1>11, <1>12, <1>13, <1>14, <1>15, <1>16, <1>17,
     <1>18, <1>19, <1>20 DEF Next, Edit

\* With the queue drained, the stream caught up and nothing refused, what the
\* client shows is what the room holds, whatever crashes, retries, lost answers
\* and reopens came before (enqueue_updates, flush_pending, openWorkspace).
THEOREM DrainedShows == Spec => []DrainedShowsRoom
<1>1. Init => DrainInv
  <2> SUFFICES ASSUME Init PROVE Recorded /\ Accounted /\ FlightInv
    BY DEF DrainInv
  <2> DEFINE W == [d \in CellIds |-> [t \in Nat |-> NoValue]]
  <2>1. W \in Log
    BY DEF Log
  <2> HIDE DEF W
  <2>2. Fits(Empty, W, 0)
    BY <2>1, FitsBasics
  <2>3. Len(idb) = 0
    BY DEF Init
  <2>4. Recording(W, 0)
    BY <2>2, <2>3 DEF Init, Recording, MemoryFits, DiskFits
  <2>5. QED BY <2>1, <2>4 DEF Init, Recorded, Accounted, FlightInv, Empty, Absent
<1>2. TypeOK /\ DrainInv => DrainedShowsRoom
  <2> SUFFICES ASSUME TypeOK, DrainInv, InStep, Unrefused, NEW c \in CellIds
               PROVE  cells[c].value = room[c].value
    BY DEF DrainedShowsRoom, ShowsRoom, Unrefused
  <2>1. /\ cells \in Queue /\ room \in Queue /\ ApplyBatch(cells, room) = cells
        /\ pending[c] = Absent
    BY DEF TypeOK, InStep, Empty
  <2>2. cells[c].timestamp \in Nat /\ room[c].timestamp \in Nat
    BY <2>1, AbsentType DEF Queue
  <2>3. room[c].timestamp <= cells[c].timestamp
    <3>1. WinsOver(ApplyBatch(cells, room)[c], room[c])
      BY <2>1, ApplyBatchType DEF Queue
    <3>2. QED BY <2>1, <2>2, <3>1 DEF WinsOver
  <2>4. cells[c].timestamp <= room[c].timestamp
    BY <2>1, <2>2 DEF DrainInv, Accounted, Absent
  <2>5. PICK W \in Log, n \in Nat : Fits(cells, W, n) /\ Fits(room, W, n)
    BY DEF DrainInv, Recorded, Recording, MemoryFits
  <2>6. QED BY <2>2, <2>3, <2>4, <2>5 DEF Fits
<1>3. TypeOK /\ TypeOK' /\ DrainInv /\ [Next]_vars => DrainInv'
  BY DrainStep
<1>4. QED BY <1>1, <1>2, <1>3, TypeCorrect, PTL DEF Spec
=============================================================================
