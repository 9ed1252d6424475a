-------------------------- MODULE Workspace_proofs --------------------------
(***************************************************************************)
(* A workspace: the replicated data, and the page around it.               *)
(*                                                                         *)
(* First, convergence, causal order and the clock discipline of the        *)
(* replicated workspace, for every set of clients and cells, every bound   *)
(* and every wall clock.                                                   *)
(*                                                                         *)
(* Convergence is far from inductive.  IInv adds where every shown cell    *)
(* comes from (Origin), that it beats all its client has heard             *)
(* (AboveHeard), that a confirmed batch is in the room and what is in      *)
(* flight is still queued (FlightQueued), and that the homeserver's        *)
(* timestamps tell any two events apart (OtsIncreases, which needs         *)
(* OtsGap >= 1).                                                           *)
(*                                                                         *)
(* Then the sidebar, the route and the saved views (Catalogue), for every  *)
(* number of tables, views, calls and changes from elsewhere.  The lists   *)
(* settle because whatever leaves them behind has them read again:         *)
(* RereadDue says that they are right, or an effect is due, or a call is   *)
(* under way whose answer rereads them.                                    *)
(***************************************************************************)
EXTENDS Replication, Catalogue, SequenceTheorems, TLAPS

-----------------------------------------------------------------------------
(* Last-write-wins resolution (CellLww): WinsOver is a total preorder; what *)
(* ApplyBatch, MergePending and RemoveSent return is well typed and never   *)
(* older than what it replaces.                                             *)

\* A missing cell is a cell, and it is the only one with timestamp 0.
LEMMA AbsentType ==
  /\ Absent \in Cell
  /\ \A u \in Cell : u.timestamp = 0 <=> u = Absent
  /\ \A u \in Cell : u.timestamp \in Nat /\ u.server_timestamp \in Nat
                     /\ u.value \in Value \cup {NoValue}
BY DEF Cell, Absent, NoServerTs

\* A fresh local write (CellUpdate::new) is a cell and is not Absent.
LEMMA NewUpdateType ==
  ASSUME NEW v \in Value \cup {NoValue}, NEW n \in Nat \ {0}
  PROVE  /\ NewUpdate(v, n) \in Cell
         /\ NewUpdate(v, n) # Absent
         /\ NewUpdate(v, n).timestamp = n
         /\ NewUpdate(v, n).server_timestamp = 0
BY DEF NewUpdate, Cell, Absent, NoServerTs

\* Receiving (into_update) keeps the timestamp and the value.
LEMMA ReceivedType ==
  ASSUME NEW u \in Cell, NEW ots \in Nat
  PROVE  /\ Received(u, ots) \in Cell
         /\ Received(u, ots).timestamp = u.timestamp
         /\ Received(u, ots).value = u.value
         /\ Received(u, ots) = Absent <=> u = Absent
         /\ u # Absent => Received(u, ots).server_timestamp = ots
BY DEF Received, Cell, Absent, NoServerTs

\* resolve_lww compares any two cells, and the comparison is transitive: it
\* is a total preorder, so the winner of a set does not depend on how it is
\* folded, up to complete ties.
LEMMA WinsOverPreorder ==
  ASSUME NEW a \in Cell, NEW b \in Cell, NEW c \in Cell
  PROVE  /\ WinsOver(a, a)
         /\ WinsOver(a, b) \/ WinsOver(b, a)
         /\ WinsOver(a, b) /\ WinsOver(b, c) => WinsOver(a, c)
         /\ WinsOver(a, b) => a.timestamp >= b.timestamp
BY AbsentType DEF WinsOver

\* Applying a batch (Table::apply_update) is well typed, and each resulting
\* cell wins over both of the cells it was resolved from.
LEMMA ApplyBatchType ==
  ASSUME NEW S, NEW held \in [S -> Cell], NEW b \in [S -> Cell]
  PROVE  /\ ApplyBatch(held, b) \in [S -> Cell]
         /\ \A c \in S : /\ ApplyBatch(held, b)[c] \in {held[c], b[c]}
                         /\ WinsOver(ApplyBatch(held, b)[c], held[c])
                         /\ WinsOver(ApplyBatch(held, b)[c], b[c])
                         /\ b[c] = Absent => ApplyBatch(held, b)[c] = held[c]
<1>1. \A c \in S : ApplyBatch(held, b)[c] =
                     IF WinsOver(b[c], held[c]) THEN b[c] ELSE held[c]
  BY DEF ApplyBatch
<1>2. ApplyBatch(held, b) \in [S -> Cell]
  BY DEF ApplyBatch
<1>3. \A c \in S : /\ WinsOver(b[c], b[c]) /\ WinsOver(held[c], held[c])
                   /\ WinsOver(b[c], held[c]) \/ WinsOver(held[c], b[c])
  BY WinsOverPreorder
<1>4. ASSUME NEW c \in S, b[c] = Absent, WinsOver(b[c], held[c])
      PROVE  held[c] = Absent
  BY <1>4, AbsentType DEF WinsOver, Absent
<1>5. QED BY <1>1, <1>2, <1>3, <1>4

\* merge_pending is well typed, never lowers an entry's timestamp, and takes
\* every entry from the queue or from the batch.
LEMMA MergePendingType ==
  ASSUME NEW S, NEW q \in [S -> Cell], NEW b \in [S -> Cell]
  PROVE  /\ MergePending(q, b) \in [S -> Cell]
         /\ \A c \in S : /\ MergePending(q, b)[c] \in {q[c], b[c]}
                         /\ MergePending(q, b)[c].timestamp >= q[c].timestamp
                         /\ MergePending(q, b)[c].timestamp >= b[c].timestamp
                         /\ b[c] = Absent => MergePending(q, b)[c] = q[c]
                         /\ b[c].timestamp > q[c].timestamp => MergePending(q, b)[c] = b[c]
<1>1. /\ MergePending(q, b) \in [S -> Cell]
      /\ \A c \in S : MergePending(q, b)[c] =
                        IF b[c].timestamp > q[c].timestamp THEN b[c] ELSE q[c]
  BY DEF MergePending
<1>2. \A c \in S : q[c].timestamp \in Nat /\ b[c].timestamp \in Nat
  BY AbsentType
<1>3. Absent.timestamp = 0
  BY DEF Absent
<1>4. QED BY <1>1, <1>2, <1>3

\* The removal of a confirmed batch (flush_pending) is well typed, and an
\* entry either stays as it is or was no newer than the batch's.
LEMMA RemoveSentType ==
  ASSUME NEW S, NEW q \in [S -> Cell], NEW b \in [S -> Cell]
  PROVE  /\ RemoveSent(q, b) \in [S -> Cell]
         /\ \A c \in S :
              \/ RemoveSent(q, b)[c] = q[c] /\ q[c].timestamp > b[c].timestamp
              \/ RemoveSent(q, b)[c] = Absent /\ q[c].timestamp <= b[c].timestamp
<1>1. \A c \in S : q[c].timestamp \in Nat /\ b[c].timestamp \in Nat
  BY AbsentType
<1>2. /\ RemoveSent(q, b) \in [S -> Cell]
      /\ \A c \in S : RemoveSent(q, b)[c] =
                        IF q[c].timestamp <= b[c].timestamp THEN Absent ELSE q[c]
  BY AbsentType DEF RemoveSent
<1>3. QED BY <1>1, <1>2

\* What the clock reads after a batch (observe_updates) covers the old
\* reading and every timestamp of the batch.
LEMMA ObservedType ==
  ASSUME NEW S, NEW b \in [S -> Cell], NEW now \in Nat, NEW n \in Observed(now, b)
  PROVE  n \in Nat /\ n >= now /\ \A c \in S : b[c].timestamp <= n
<1>1. \A c \in S : b[c].timestamp \in Nat
  BY AbsentType
<1>2. QED BY <1>1 DEF Observed

-----------------------------------------------------------------------------
\* The empty queue is a queue with nothing in any cell.
LEMMA EmptyType == Empty \in Queue /\ \A c \in CellIds : Empty[c] = Absent
BY AbsentType DEF Empty, Queue

\* The history records are well typed, and so are the parts of an event.
LEMMA NoteTypes ==
  /\ NoNote \in Notes
  /\ NoFlight \in Flight
  /\ \A q \in Queue, notes \in Notes : Kept(q, notes) \in Notes
  /\ \A f \in Flight : f.batch \in Queue /\ f.about \in Notes
  /\ \A e \in Event : e.batch \in Queue /\ e.about \in Notes /\ e.ots \in Nat
  /\ \A notes \in Notes, c \in CellIds : notes[c].seen \in Nat
<1>1. NoNote \in Notes
  BY DEF NoNote, Notes, Note
<1>2. \A q \in Queue, notes \in Notes : Kept(q, notes) \in Notes
  BY <1>1 DEF Kept, Notes
<1>3. NoFlight \in Flight
  BY <1>1, EmptyType DEF NoFlight, Flight
<1>4. QED BY <1>1, <1>2, <1>3 DEF Flight, Event, Notes, Note

\* What the room holds at a position, as a receiver sees it.
LEMMA AtType ==
  ASSUME TypeOK, NEW i \in 1..Len(room), NEW c \in CellIds
  PROVE  /\ room[i] \in Event /\ room[i].batch[c] \in Cell /\ room[i].ots \in Nat
         /\ At(i, c) \in Cell
         /\ At(i, c).timestamp = room[i].batch[c].timestamp
         /\ At(i, c).value = room[i].batch[c].value
         /\ At(i, c) = Absent <=> room[i].batch[c] = Absent
         /\ room[i].batch[c] # Absent => At(i, c).server_timestamp = room[i].ots
<1>1. room[i] \in Event
  BY DEF TypeOK
<1>2. room[i].batch[c] \in Cell /\ room[i].ots \in Nat
  BY <1>1, NoteTypes DEF Queue
<1>3. QED BY <1>1, <1>2, ReceivedType DEF At

\* The timestamps of cells, queues and the clock are numbers.
LEMMA CellTypes ==
  ASSUME TypeOK, NEW k \in Clients, NEW c \in CellIds
  PROVE  /\ cells[k][c] \in Cell /\ pending[k][c] \in Cell /\ flight[k].batch[c] \in Cell
         /\ cells[k][c].timestamp \in Nat /\ pending[k][c].timestamp \in Nat
         /\ flight[k].batch[c].timestamp \in Nat
         /\ clock[k] \in Nat /\ cursor[k] \in Nat /\ Len(room) \in Nat
         /\ cells[k] \in Queue /\ pending[k] \in Queue /\ flight[k].batch \in Queue
         /\ about[k] \in Notes /\ flight[k].about \in Notes
<1>1. /\ cells[k] \in Queue /\ pending[k] \in Queue /\ flight[k] \in Flight
      /\ clock[k] \in Nat /\ cursor[k] \in Nat /\ Len(room) \in Nat /\ about[k] \in Notes
  BY DEF TypeOK
<1>2. flight[k].batch \in Queue /\ flight[k].about \in Notes
  BY <1>1, NoteTypes
<1>3. cells[k][c] \in Cell /\ pending[k][c] \in Cell /\ flight[k].batch[c] \in Cell
  BY <1>1, <1>2 DEF Queue
<1>4. QED BY <1>1, <1>2, <1>3, AbsentType

\* update_cell_with_bump: one batch of new writes, all stamped above the
\* clock, is applied and queued; the clock covers it.
LEMMA EditBatch ==
  ASSUME TypeOK, NEW k \in Clients, Edit(k)
  PROVE  \E b \in Queue, n \in Nat :
           /\ \A c \in CellIds :
                b[c] = Absent \/ (b[c].timestamp > clock[k] /\ b[c].server_timestamp = 0)
           /\ n >= clock[k] /\ \A c \in CellIds : b[c].timestamp <= n
           /\ cells' = [cells EXCEPT ![k] = ApplyBatch(cells[k], b)]
           /\ clock' = [clock EXCEPT ![k] = n]
           /\ pending' = [pending EXCEPT ![k] = MergePending(pending[k], b)]
           /\ about' \in [Clients -> Notes]
           /\ \A j \in Clients : j # k => about'[j] = about[j]
           /\ \A c \in CellIds : IF b[c] = Absent THEN about'[k][c] = about[k][c]
                                 ELSE about'[k][c].seen = cursor[k]
           /\ UNCHANGED <<room, flight, phase, cursor>>
<1> PICK user \in CellIds, v \in Value :
         \E bumps \in SUBSET (CellIds \ {user}) :
           \E s \in Stamps(k, bumps \cup {user}, user) : UpdateCell(k, user, v, bumps, s)
  BY DEF Edit
<1> PICK bumps \in SUBSET (CellIds \ {user}) :
         \E s \in Stamps(k, bumps \cup {user}, user) : UpdateCell(k, user, v, bumps, s)
  OBVIOUS
<1>1. PICK s \in Stamps(k, bumps \cup {user}, user) : UpdateCell(k, user, v, bumps, s)
  OBVIOUS
<1> DEFINE S == bumps \cup {user}
           b == [c \in CellIds |->
              IF c = user THEN NewUpdate(v, s[c])
              ELSE IF c \in bumps THEN NewUpdate(cells[k][c].value, s[c])
              ELSE Absent]
           notes == [c \in CellIds |-> IF c \in S THEN [seen |-> cursor[k], bump |-> c # user]
                                       ELSE about[k][c]]
<1>2. \A c \in S : c \in CellIds /\ s[c] \in Nat \ {0} /\ s[c] > clock[k]
  BY ReplicationAssumption DEF Stamps, TypeOK
<1>3. \A c \in CellIds : cells[k][c].value \in Value \cup {NoValue}
  BY CellTypes, AbsentType
<1>4. \A c \in S : /\ b[c] \in Cell /\ b[c].timestamp = s[c] /\ b[c].server_timestamp = 0
                   /\ b[c] # Absent
  BY <1>2, <1>3, NewUpdateType
<1>5. \A c \in CellIds \ S : b[c] = Absent
  OBVIOUS
<1>6. b \in Queue
  BY <1>4, <1>5, AbsentType DEF Queue
<1>7. PICK n \in Observed(clock[k], b) : clock' = [clock EXCEPT ![k] = n]
  BY <1>1 DEF UpdateCell
<1>8. /\ cells' = [cells EXCEPT ![k] = ApplyBatch(cells[k], b)]
      /\ pending' = [pending EXCEPT ![k] = MergePending(pending[k], b)]
      /\ about' = [about EXCEPT ![k] = notes]
      /\ UNCHANGED <<room, flight, phase, cursor>>
  BY <1>1 DEF UpdateCell
<1>9. notes \in Notes /\ \A c \in CellIds : IF c \in S THEN notes[c].seen = cursor[k]
                                            ELSE notes[c] = about[k][c]
  BY DEF TypeOK, Notes, Note
<1>10. /\ about' \in [Clients -> Notes]
       /\ \A j \in Clients : j # k => about'[j] = about[j]
       /\ about'[k] = notes
  BY <1>8, <1>9 DEF TypeOK
<1> HIDE DEF b, notes
<1>11. n \in Nat /\ n >= clock[k] /\ \A c \in CellIds : b[c].timestamp <= n
  BY <1>6, CellTypes, ObservedType DEF Queue, TypeOK
<1>12. \A c \in CellIds : b[c] = Absent <=> c \notin S
  BY <1>4, <1>5
<1>13. QED
  BY <1>2, <1>4, <1>6, <1>7, <1>8, <1>9, <1>10, <1>11, <1>12

\* startSync's callback: the next event of the room is applied, and the clock
\* covers it.
LEMMA SyncBatch ==
  ASSUME TypeOK, NEW k \in Clients, SyncNext(k)
  PROVE  \E b \in Queue, n \in Nat, i \in 1..Len(room) :
           /\ i = cursor[k] + 1
           /\ \A c \in CellIds : b[c] = At(i, c)
           /\ n >= clock[k] /\ \A c \in CellIds : b[c].timestamp <= n
           /\ cells' = [cells EXCEPT ![k] = ApplyBatch(cells[k], b)]
           /\ clock' = [clock EXCEPT ![k] = n]
           /\ cursor' = [cursor EXCEPT ![k] = i]
           /\ UNCHANGED <<room, pending, about, flight, phase>>
<1> DEFINE i == cursor[k] + 1
           b == [c \in CellIds |-> At(i, c)]
<1>1. i \in 1..Len(room)
  BY DEF SyncNext, TypeOK
<1>2. b \in Queue /\ \A c \in CellIds : b[c] = At(i, c)
  BY <1>1, AtType DEF Queue
<1>3. PICK n \in Observed(clock[k], b) : clock' = [clock EXCEPT ![k] = n]
  BY DEF SyncNext
<1>4. /\ cells' = [cells EXCEPT ![k] = ApplyBatch(cells[k], b)]
      /\ cursor' = [cursor EXCEPT ![k] = i]
      /\ UNCHANGED <<room, pending, about, flight, phase>>
  BY DEF SyncNext
<1> HIDE DEF b
<1>5. n \in Nat /\ n >= clock[k] /\ \A c \in CellIds : b[c].timestamp <= n
  BY <1>2, ObservedType DEF Queue, TypeOK
<1>6. QED BY <1>1, <1>2, <1>3, <1>4, <1>5

\* create() and restorePendingUpdates: the gathered room and the restored
\* queue are materialised together, and the clock covers both.
LEMMA ReloadBatch ==
  ASSUME TypeOK, NEW k \in Clients, NEW m \in [CellIds -> Heard], NEW saved \in BOOLEAN,
         Reload(k, m, saved)
  PROVE  \E q \in Queue, n \in Nat :
           /\ m \in Queue /\ Gathered(m)
           /\ q \in {pending[k], Empty}
           /\ \A c \in CellIds : m[c].timestamp <= n /\ q[c].timestamp <= n
           /\ cells' = [cells EXCEPT ![k] = ApplyBatch(m, q)]
           /\ clock' = [clock EXCEPT ![k] = n]
           /\ pending' = [pending EXCEPT ![k] = q]
           /\ about' = [about EXCEPT ![k] = Kept(q, about[k])]
           /\ phase' = [phase EXCEPT ![k] = "idle"]
           /\ flight' = [flight EXCEPT ![k] = NoFlight]
           /\ cursor' = [cursor EXCEPT ![k] = Len(room)]
           /\ room' = room
<1> DEFINE q == IF saved THEN pending[k] ELSE Empty
<1>1. q \in Queue /\ q \in {pending[k], Empty}
  BY EmptyType DEF TypeOK
<1>2. m \in Queue
  <2>1. \A h \in Heard : h \in Cell
    BY AtType, AbsentType DEF Heard
  <2>2. QED BY <2>1 DEF Queue
<1>3. PICK n \in SeedClock(m, q) : clock' = [clock EXCEPT ![k] = n]
  BY DEF Reload
<1>4. /\ Gathered(m)
      /\ cells' = [cells EXCEPT ![k] = ApplyBatch(m, q)]
      /\ pending' = [pending EXCEPT ![k] = q]
      /\ about' = [about EXCEPT ![k] = Kept(q, about[k])]
      /\ phase' = [phase EXCEPT ![k] = "idle"]
      /\ flight' = [flight EXCEPT ![k] = NoFlight]
      /\ cursor' = [cursor EXCEPT ![k] = Len(room)]
      /\ room' = room
  BY DEF Reload, Replayed
<1> HIDE DEF q
<1>5. PICK n0 \in Observed(0, m) : n \in Observed(n0, q)
  BY <1>3 DEF SeedClock
<1>6. n0 \in Nat /\ \A c \in CellIds : m[c].timestamp <= n0
  BY <1>2, ObservedType DEF Queue
<1>7. n \in Nat /\ n >= n0 /\ \A c \in CellIds : q[c].timestamp <= n
  BY <1>1, <1>5, <1>6, ObservedType DEF Queue
<1>8. \A c \in CellIds : m[c].timestamp \in Nat
  BY <1>2, AbsentType DEF Queue
<1>9. \A c \in CellIds : m[c].timestamp <= n
  BY <1>6, <1>7, <1>8
<1>10. QED BY <1>1, <1>2, <1>3, <1>4, <1>7, <1>9

\* The next origin_server_ts the homeserver may give is a number.
LEMMA OtsType ==
  ASSUME TypeOK
  PROVE  LastOts \in Nat /\ (LastOts + OtsGap)..(LastOts + 1) \subseteq Nat
<1>1. CASE room = << >>
  BY <1>1, ReplicationAssumption DEF LastOts
<1>2. CASE room # << >>
  <2>1. Len(room) \in 1..Len(room)
    BY <1>2, EmptySeq DEF TypeOK
  <2>2. room[Len(room)] \in Event
    BY <2>1 DEF TypeOK
  <2>3. QED BY <1>2, <2>2, NoteTypes, ReplicationAssumption DEF LastOts
<1>3. QED BY <1>1, <1>2

---------------------------------------------------------------------------
\* Every reachable state is well typed.
THEOREM TypeCorrect == Spec => []TypeOK
<1>1. Init => TypeOK
  BY EmptyType, NoteTypes DEF Init, TypeOK
<1>2. TypeOK /\ [Next]_vars => TypeOK'
  <2> SUFFICES ASSUME TypeOK, [Next]_vars PROVE TypeOK'
    OBVIOUS
  <2>1. ASSUME NEW k \in Clients, Edit(k) PROVE TypeOK'
    <3>1. PICK b \in Queue, n \in Nat :
           /\ cells' = [cells EXCEPT ![k] = ApplyBatch(cells[k], b)]
           /\ clock' = [clock EXCEPT ![k] = n]
           /\ pending' = [pending EXCEPT ![k] = MergePending(pending[k], b)]
           /\ about' \in [Clients -> Notes]
           /\ UNCHANGED <<room, flight, phase, cursor>>
      BY <2>1, EditBatch
    <3>2. ApplyBatch(cells[k], b) \in Queue /\ MergePending(pending[k], b) \in Queue
      BY ApplyBatchType, MergePendingType DEF TypeOK, Queue
    <3>3. QED BY <3>1, <3>2 DEF TypeOK
  <2>2. ASSUME NEW k \in Clients, FlushStart(k) PROVE TypeOK'
    <3>1. [batch |-> pending[k], about |-> about[k]] \in Flight
      BY DEF TypeOK, Flight
    <3>2. QED BY <2>2, <3>1 DEF FlushStart, TypeOK
  <2>3. ASSUME NEW k \in Clients, NEW ots \in (LastOts + OtsGap)..(LastOts + 1),
               ServerAppends(k, ots)
        PROVE  TypeOK'
    <3>1. ots \in Nat
      BY OtsType
    <3>2. [batch |-> flight[k].batch, about |-> flight[k].about, ots |-> ots] \in Event
      BY <3>1, NoteTypes DEF TypeOK, Event
    <3>3. room' \in Seq(Event)
      BY <2>3, <3>2, AppendProperties DEF ServerAppends, TypeOK
    <3>4. QED BY <2>3, <3>3 DEF ServerAppends, TypeOK
  <2>4. ASSUME NEW k \in Clients, Sent(k) PROVE TypeOK'
    <3>1. RemoveSent(pending[k], flight[k].batch) \in Queue
      BY RemoveSentType, NoteTypes DEF TypeOK, Queue
    <3>2. Kept(RemoveSent(pending[k], flight[k].batch), about[k]) \in Notes
      BY <3>1, NoteTypes DEF TypeOK
    <3>3. QED BY <2>4, <3>1, <3>2, NoteTypes DEF Sent, TypeOK
  <2>5. ASSUME NEW k \in Clients, Retryable(k) PROVE TypeOK'
    BY <2>5, NoteTypes DEF Retryable, TypeOK
  <2>6. ASSUME NEW k \in Clients, SyncNext(k) PROVE TypeOK'
    <3>1. PICK b \in Queue, n \in Nat, i \in 1..Len(room) :
           /\ cells' = [cells EXCEPT ![k] = ApplyBatch(cells[k], b)]
           /\ clock' = [clock EXCEPT ![k] = n]
           /\ cursor' = [cursor EXCEPT ![k] = i]
           /\ UNCHANGED <<room, pending, about, flight, phase>>
      BY <2>6, SyncBatch
    <3>2. ApplyBatch(cells[k], b) \in Queue
      BY ApplyBatchType DEF TypeOK, Queue
    <3>3. QED BY <3>1, <3>2 DEF TypeOK
  <2>7. ASSUME NEW k \in Clients, NEW m \in [CellIds -> Heard], NEW saved \in BOOLEAN,
               Reload(k, m, saved)
        PROVE  TypeOK'
    <3>1. PICK q \in Queue, n \in Nat :
           /\ m \in Queue
           /\ cells' = [cells EXCEPT ![k] = ApplyBatch(m, q)]
           /\ clock' = [clock EXCEPT ![k] = n]
           /\ pending' = [pending EXCEPT ![k] = q]
           /\ about' = [about EXCEPT ![k] = Kept(q, about[k])]
           /\ phase' = [phase EXCEPT ![k] = "idle"]
           /\ flight' = [flight EXCEPT ![k] = NoFlight]
           /\ cursor' = [cursor EXCEPT ![k] = Len(room)]
           /\ room' = room
      BY <2>7, ReloadBatch
    <3>2. ApplyBatch(m, q) \in Queue
      BY <3>1, ApplyBatchType DEF Queue
    <3>3. Kept(q, about[k]) \in Notes /\ Len(room) \in Nat
      BY NoteTypes DEF TypeOK
    <3>4. QED BY <3>1, <3>2, <3>3, NoteTypes DEF TypeOK
  <2>8. CASE UNCHANGED vars
    BY <2>8 DEF vars, TypeOK
  <2>9. QED
    BY <2>1, <2>2, <2>3, <2>4, <2>5, <2>6, <2>7, <2>8 DEF Next, Step
<1>3. QED BY <1>1, <1>2, PTL DEF Spec

---------------------------------------------------------------------------
(* The clock discipline: a client's clock covers everything it shows, has  *)
(* queued and has heard, so a write it makes is above all of that, and     *)
(* stays so in the queue, in flight and in the room.                       *)
CursorInRoom == \A k \in Clients : cursor[k] <= Len(room)

ClockCoversRoom ==
  \A k \in Clients, c \in CellIds : \A i \in 1..Len(room) :
    i <= cursor[k] => room[i].batch[c].timestamp <= clock[k]

NoteHolds(b, notes) ==
  \A c \in CellIds :
    b[c] # Absent =>
      /\ notes[c].seen <= Len(room)
      /\ \A i \in 1..Len(room) :
           i <= notes[c].seen => room[i].batch[c].timestamp < b[c].timestamp

NotesHold ==
  /\ \A k \in Clients : NoteHolds(pending[k], about[k])
  /\ \A k \in Clients : NoteHolds(flight[k].batch, flight[k].about)
  /\ \A j \in 1..Len(room) : NoteHolds(room[j].batch, room[j].about)

ClockInv == CursorInRoom /\ ClockCovers /\ ClockCoversRoom /\ NotesHold

\* What a new event does to the room.
LEMMA RoomAppends ==
  ASSUME TypeOK, NEW k \in Clients, NEW ots \in Nat, ServerAppends(k, ots)
  PROVE  /\ Len(room) \in Nat /\ Len(room') = Len(room) + 1
         /\ \A i \in 1..Len(room) : room'[i] = room[i]
         /\ room'[Len(room) + 1].batch = flight[k].batch
         /\ room'[Len(room) + 1].about = flight[k].about
         /\ room'[Len(room) + 1].ots = ots
<1> DEFINE e == [batch |-> flight[k].batch, about |-> flight[k].about, ots |-> ots]
<1>1. e \in Event
  BY NoteTypes DEF TypeOK, Event
<1>2. e.batch = flight[k].batch /\ e.about = flight[k].about /\ e.ots = ots
  OBVIOUS
<1>3. room' = Append(room, e)
  BY DEF ServerAppends
<1> HIDE DEF e
<1>4. /\ Len(room) \in Nat /\ Len(room') = Len(room) + 1
      /\ room'[Len(room) + 1] = e
      /\ \A i \in 1..Len(room) : room'[i] = room[i]
  BY <1>1, <1>3, AppendProperties DEF TypeOK
<1>5. QED BY <1>2, <1>4

\* A note that holds keeps holding when the room grows past what it mentions.
LEMMA NoteStaysOnAppend ==
  ASSUME TypeOK, NEW k \in Clients, NEW ots \in Nat, ServerAppends(k, ots),
         NEW b, NEW notes \in Notes, NoteHolds(b, notes)
  PROVE  NoteHolds(b, notes)'
<1> SUFFICES ASSUME NEW c \in CellIds, b[c] # Absent
             PROVE  /\ notes[c].seen <= Len(room')
                    /\ \A i \in 1..Len(room') :
                         i <= notes[c].seen => room'[i].batch[c].timestamp < b[c].timestamp
  BY DEF NoteHolds
<1>1. notes[c].seen \in Nat /\ notes[c].seen <= Len(room)
  BY NoteTypes DEF NoteHolds
<1>2. Len(room) \in Nat /\ Len(room') = Len(room) + 1
      /\ \A i \in 1..Len(room) : room'[i] = room[i]
  BY RoomAppends
<1>3. \A i \in 1..Len(room') : i <= notes[c].seen => i \in 1..Len(room)
  BY <1>1, <1>2
<1>4. QED BY <1>1, <1>2, <1>3 DEF NoteHolds

\* Dropping entries from a queue keeps its notes right.
LEMMA NoteKept ==
  ASSUME NEW b, NEW q, NEW notes, NoteHolds(b, notes), room' = room,
         \A c \in CellIds : q[c] = Absent \/ q[c] = b[c]
  PROVE  NoteHolds(q, Kept(q, notes))'
BY DEF NoteHolds, Kept

\* Each action preserves the clock discipline.
LEMMA ClockStep ==
  ASSUME TypeOK, TypeOK', ClockInv, [Next]_vars
  PROVE  ClockInv'
<1> USE DEF ClockInv
<1>1. ASSUME NEW k \in Clients, Edit(k) PROVE ClockInv'
  <2>1. PICK b \in Queue, n \in Nat :
           /\ \A c \in CellIds :
                b[c] = Absent \/ (b[c].timestamp > clock[k] /\ b[c].server_timestamp = 0)
           /\ n >= clock[k] /\ \A c \in CellIds : b[c].timestamp <= n
           /\ cells' = [cells EXCEPT ![k] = ApplyBatch(cells[k], b)]
           /\ clock' = [clock EXCEPT ![k] = n]
           /\ pending' = [pending EXCEPT ![k] = MergePending(pending[k], b)]
           /\ about' \in [Clients -> Notes]
           /\ \A j \in Clients : j # k => about'[j] = about[j]
           /\ \A c \in CellIds : IF b[c] = Absent THEN about'[k][c] = about[k][c]
                                 ELSE about'[k][c].seen = cursor[k]
           /\ UNCHANGED <<room, flight, phase, cursor>>
    BY <1>1, EditBatch
  <2>2. \A j \in Clients : /\ j # k => /\ cells'[j] = cells[j] /\ pending'[j] = pending[j]
                                       /\ clock'[j] = clock[j]
                           /\ clock'[k] = n
                           /\ cells'[k] = ApplyBatch(cells[k], b)
                           /\ pending'[k] = MergePending(pending[k], b)
    BY <2>1 DEF TypeOK
  <2>3. \A c \in CellIds : /\ b[c].timestamp \in Nat
                           /\ cells'[k][c] \in {cells[k][c], b[c]}
                           /\ pending'[k][c] \in {pending[k][c], b[c]}
                           /\ b[c] = Absent => pending'[k][c] = pending[k][c]
                           /\ b[c].timestamp > pending[k][c].timestamp => pending'[k][c] = b[c]
    <3>1. \A c \in CellIds : b[c].timestamp \in Nat
      BY AbsentType DEF Queue
    <3>2. \A c \in CellIds : ApplyBatch(cells[k], b)[c] \in {cells[k][c], b[c]}
      BY ApplyBatchType DEF TypeOK, Queue
    <3>3. \A c \in CellIds :
            /\ MergePending(pending[k], b)[c] \in {pending[k][c], b[c]}
            /\ b[c] = Absent => MergePending(pending[k], b)[c] = pending[k][c]
            /\ b[c].timestamp > pending[k][c].timestamp => MergePending(pending[k], b)[c] = b[c]
      <4>1. pending[k] \in [CellIds -> Cell] /\ b \in [CellIds -> Cell]
        BY DEF TypeOK, Queue
      <4>2. QED BY <4>1, MergePendingType
    <3>4. QED BY <2>2, <3>1, <3>2, <3>3
  <2>4. CursorInRoom'
    BY <2>1 DEF CursorInRoom
  <2>5. ClockCovers'
    BY <2>1, <2>2, <2>3, CellTypes DEF ClockCovers
  <2>6. ClockCoversRoom'
    <3> SUFFICES ASSUME NEW j \in Clients, NEW c \in CellIds, NEW i \in 1..Len(room),
                        i <= cursor[j]
                 PROVE  room[i].batch[c].timestamp <= clock'[j]
      BY <2>1 DEF ClockCoversRoom
    <3>1. room[i].batch[c].timestamp \in Nat /\ clock[j] \in Nat
      BY AtType, AbsentType, CellTypes
    <3>2. QED BY <2>1, <2>2, <3>1 DEF ClockCoversRoom
  <2>7. ASSUME NEW j \in Clients PROVE NoteHolds(pending[j], about[j])'
    <3>1. CASE j # k
      BY <2>1, <2>2, <3>1 DEF NotesHold, NoteHolds
    <3>2. CASE j = k
      <4> SUFFICES ASSUME NEW c \in CellIds, pending'[k][c] # Absent
                   PROVE  /\ about'[k][c].seen <= Len(room)
                          /\ \A i \in 1..Len(room) : i <= about'[k][c].seen =>
                               room[i].batch[c].timestamp < pending'[k][c].timestamp
        BY <2>1, <3>2 DEF NoteHolds
      <4>1. CASE b[c] = Absent
        BY <2>1, <2>3, <4>1 DEF NotesHold, NoteHolds
      <4>2. CASE b[c] # Absent
        <5>1. b[c].timestamp > clock[k] /\ about'[k][c].seen = cursor[k]
          BY <2>1, <4>2
        <5>2. pending'[k][c] = b[c]
          BY <2>3, <5>1, CellTypes DEF ClockCovers
        <5>3. \A i \in 1..Len(room) : room[i].batch[c].timestamp \in Nat
          BY AtType, AbsentType
        <5>4. QED
          BY <2>3, <5>1, <5>2, <5>3, CellTypes DEF CursorInRoom, ClockCoversRoom
      <4>3. QED BY <4>1, <4>2
    <3>3. QED BY <3>1, <3>2
  <2>8. NotesHold'
    BY <2>1, <2>7 DEF NotesHold, NoteHolds
  <2>9. QED BY <2>4, <2>5, <2>6, <2>8
<1>2. ASSUME NEW k \in Clients, FlushStart(k) PROVE ClockInv'
  <2>1. /\ UNCHANGED <<room, cells, clock, pending, about, cursor>>
        /\ flight'[k].batch = pending[k] /\ flight'[k].about = about[k]
        /\ \A j \in Clients : j # k => flight'[j] = flight[j]
    BY <1>2 DEF FlushStart, TypeOK
  <2>2. \A j \in Clients : NoteHolds(flight[j].batch, flight[j].about)'
    BY <2>1 DEF NotesHold, NoteHolds
  <2>3. QED
    BY <2>1, <2>2 DEF CursorInRoom, ClockCovers, ClockCoversRoom, NotesHold, NoteHolds
<1>3. ASSUME NEW k \in Clients, NEW ots \in (LastOts + OtsGap)..(LastOts + 1),
             ServerAppends(k, ots)
      PROVE  ClockInv'
  <2>1. ots \in Nat
    BY OtsType
  <2>2. /\ Len(room) \in Nat /\ Len(room') = Len(room) + 1
        /\ \A i \in 1..Len(room) : room'[i] = room[i]
        /\ room'[Len(room) + 1].batch = flight[k].batch
        /\ room'[Len(room) + 1].about = flight[k].about
    BY <1>3, <2>1, RoomAppends
  <2>3. UNCHANGED <<cells, clock, pending, about, flight, cursor>>
    BY <1>3 DEF ServerAppends
  <2>4. CursorInRoom' /\ ClockCovers'
    BY <2>2, <2>3, CellTypes DEF CursorInRoom, ClockCovers, TypeOK
  <2>5. ClockCoversRoom'
    <3> SUFFICES ASSUME NEW j \in Clients, NEW c \in CellIds, NEW i \in 1..Len(room'),
                        i <= cursor[j]
                 PROVE  room'[i].batch[c].timestamp <= clock[j]
      BY <2>3 DEF ClockCoversRoom
    <3>1. i \in 1..Len(room)
      BY <2>2, CellTypes DEF CursorInRoom
    <3>2. QED BY <2>2, <3>1 DEF ClockCoversRoom
  <2>6. \A j \in Clients : /\ NoteHolds(pending[j], about[j])'
                           /\ NoteHolds(flight[j].batch, flight[j].about)'
    <3> SUFFICES ASSUME NEW j \in Clients
                 PROVE  /\ NoteHolds(pending[j], about[j])'
                        /\ NoteHolds(flight[j].batch, flight[j].about)'
      OBVIOUS
    <3> PICK pj \in Queue, aj \in Notes, fb \in Queue, fa \in Notes :
           pj = pending[j] /\ aj = about[j] /\ fb = flight[j].batch /\ fa = flight[j].about
      BY NoteTypes DEF TypeOK
    <3>1. NoteHolds(pj, aj)' /\ NoteHolds(fb, fa)'
      BY <1>3, <2>1, NoteStaysOnAppend DEF NotesHold
    <3>2. QED BY <2>3, <3>1 DEF NoteHolds
  <2>7. ASSUME NEW i \in 1..Len(room') PROVE NoteHolds(room[i].batch, room[i].about)'
    <3>1. CASE i \in 1..Len(room)
      <4> room[i] \in Event
        BY <3>1 DEF TypeOK
      <4> PICK rb \in Queue, ra \in Notes : rb = room[i].batch /\ ra = room[i].about
        BY NoteTypes
      <4>1. NoteHolds(rb, ra)'
        BY <1>3, <2>1, <3>1, NoteStaysOnAppend DEF NotesHold
      <4>2. QED BY <2>2, <3>1, <4>1 DEF NoteHolds
    <3>2. CASE i = Len(room) + 1
      BY <2>2, <2>3, <2>6, <3>2 DEF NoteHolds
    <3>3. QED BY <2>2, <3>1, <3>2
  <2>8. QED BY <2>4, <2>5, <2>6, <2>7 DEF NotesHold
<1>4. ASSUME NEW k \in Clients, Sent(k) PROVE ClockInv'
  <2> DEFINE q == RemoveSent(pending[k], flight[k].batch)
  <2>1. /\ UNCHANGED <<room, cells, clock, cursor>>
        /\ pending'[k] = q /\ about'[k] = Kept(q, about[k])
        /\ \A j \in Clients : j # k => /\ pending'[j] = pending[j] /\ about'[j] = about[j]
                                       /\ flight'[j] = flight[j]
        /\ flight'[k] = NoFlight
    BY <1>4 DEF Sent, TypeOK
  <2>2. \A c \in CellIds : q[c] = Absent \/ q[c] = pending[k][c]
    <3>1. pending[k] \in [CellIds -> Cell] /\ flight[k].batch \in [CellIds -> Cell]
      BY NoteTypes DEF TypeOK, Queue
    <3>2. QED BY <3>1, RemoveSentType
  <2> HIDE DEF q
  <2>3. \A c \in CellIds : q[c].timestamp <= clock[k]
    BY <2>2, CellTypes DEF ClockCovers, Absent
  <2>4. CursorInRoom' /\ ClockCovers' /\ ClockCoversRoom'
    BY <2>1, <2>3 DEF CursorInRoom, ClockCovers, ClockCoversRoom
  <2>5. NoteHolds(pending[k], about[k])'
    <3> PICK p, a, r : p = pending[k] /\ a = about[k] /\ r = q
      OBVIOUS
    <3>1. NoteHolds(r, Kept(r, a))'
      BY <2>1, <2>2, NoteKept DEF NotesHold
    <3>2. QED BY <2>1, <3>1 DEF NoteHolds
  <2>6. NoteHolds(flight[k].batch, flight[k].about)'
    BY <2>1, EmptyType DEF NoFlight, NoteHolds
  <2>7. NotesHold'
    BY <2>1, <2>5, <2>6 DEF NotesHold, NoteHolds
  <2>8. QED BY <2>4, <2>7
<1>5. ASSUME NEW k \in Clients, Retryable(k) PROVE ClockInv'
  <2>1. /\ UNCHANGED <<room, cells, clock, pending, about, cursor>>
        /\ flight'[k] = NoFlight
        /\ \A j \in Clients : j # k => flight'[j] = flight[j]
    BY <1>5 DEF Retryable, TypeOK
  <2>2. NoteHolds(flight[k].batch, flight[k].about)'
    BY <2>1, EmptyType DEF NoFlight, NoteHolds
  <2>3. QED
    BY <2>1, <2>2 DEF CursorInRoom, ClockCovers, ClockCoversRoom, NotesHold, NoteHolds
<1>6. ASSUME NEW k \in Clients, SyncNext(k) PROVE ClockInv'
  <2>1. PICK b \in Queue, n \in Nat, i \in 1..Len(room) :
           /\ i = cursor[k] + 1
           /\ \A c \in CellIds : b[c] = At(i, c)
           /\ n >= clock[k] /\ \A c \in CellIds : b[c].timestamp <= n
           /\ cells' = [cells EXCEPT ![k] = ApplyBatch(cells[k], b)]
           /\ clock' = [clock EXCEPT ![k] = n]
           /\ cursor' = [cursor EXCEPT ![k] = i]
           /\ UNCHANGED <<room, pending, about, flight, phase>>
    BY <1>6, SyncBatch
  <2>2. /\ \A j \in Clients : j # k => /\ cells'[j] = cells[j] /\ clock'[j] = clock[j]
                                       /\ cursor'[j] = cursor[j]
        /\ cells'[k] = ApplyBatch(cells[k], b) /\ clock'[k] = n /\ cursor'[k] = i
    BY <2>1 DEF TypeOK
  <2>3. \A c \in CellIds : cells'[k][c] \in {cells[k][c], b[c]}
    <3>1. \A c \in CellIds : ApplyBatch(cells[k], b)[c] \in {cells[k][c], b[c]}
      BY ApplyBatchType DEF TypeOK, Queue
    <3>2. QED BY <2>2, <3>1
  <2>4. CursorInRoom'
    BY <2>1, <2>2, CellTypes DEF CursorInRoom
  <2>5. ClockCovers'
    BY <2>1, <2>2, <2>3, CellTypes DEF ClockCovers
  <2>6. ClockCoversRoom'
    <3> SUFFICES ASSUME NEW j \in Clients, NEW c \in CellIds, NEW h \in 1..Len(room),
                        h <= cursor'[j]
                 PROVE  room[h].batch[c].timestamp <= clock'[j]
      BY <2>1 DEF ClockCoversRoom
    <3>1. /\ room[h].batch[c].timestamp \in Nat /\ clock[j] \in Nat
          /\ At(h, c).timestamp = room[h].batch[c].timestamp
      BY AtType, AbsentType, CellTypes
    <3>2. CASE j # k \/ h # i
      BY <2>1, <2>2, <3>1, <3>2, CellTypes DEF ClockCoversRoom
    <3>3. CASE j = k /\ h = i
      BY <2>1, <2>2, <3>1, <3>3
    <3>4. QED BY <3>2, <3>3
  <2>7. NotesHold'
    BY <2>1 DEF NotesHold, NoteHolds
  <2>8. QED BY <2>4, <2>5, <2>6, <2>7
<1>7. ASSUME NEW k \in Clients, NEW m \in [CellIds -> Heard], NEW saved \in BOOLEAN,
             Reload(k, m, saved)
      PROVE  ClockInv'
  <2>1. PICK q \in Queue, n \in Nat :
           /\ m \in Queue /\ Gathered(m)
           /\ q \in {pending[k], Empty}
           /\ \A c \in CellIds : m[c].timestamp <= n /\ q[c].timestamp <= n
           /\ cells' = [cells EXCEPT ![k] = ApplyBatch(m, q)]
           /\ clock' = [clock EXCEPT ![k] = n]
           /\ pending' = [pending EXCEPT ![k] = q]
           /\ about' = [about EXCEPT ![k] = Kept(q, about[k])]
           /\ phase' = [phase EXCEPT ![k] = "idle"]
           /\ flight' = [flight EXCEPT ![k] = NoFlight]
           /\ cursor' = [cursor EXCEPT ![k] = Len(room)]
           /\ room' = room
    BY <1>7, ReloadBatch
  <2>2. /\ \A j \in Clients : j # k => /\ cells'[j] = cells[j] /\ clock'[j] = clock[j]
                                       /\ cursor'[j] = cursor[j] /\ pending'[j] = pending[j]
                                       /\ about'[j] = about[j] /\ flight'[j] = flight[j]
        /\ cells'[k] = ApplyBatch(m, q) /\ clock'[k] = n /\ cursor'[k] = Len(room)
        /\ pending'[k] = q /\ about'[k] = Kept(q, about[k]) /\ flight'[k] = NoFlight
    BY <2>1 DEF TypeOK
  <2>3. \A c \in CellIds : cells'[k][c] \in {m[c], q[c]}
    <3>1. \A c \in CellIds : ApplyBatch(m, q)[c] \in {m[c], q[c]}
      BY <2>1, ApplyBatchType DEF Queue
    <3>2. QED BY <2>2, <3>1
  <2>4. CursorInRoom'
    BY <2>1, <2>2, CellTypes DEF CursorInRoom, TypeOK
  <2>5. ClockCovers'
    BY <2>1, <2>2, <2>3 DEF ClockCovers
  <2>6. ClockCoversRoom'
    <3> SUFFICES ASSUME NEW j \in Clients, NEW c \in CellIds, NEW h \in 1..Len(room),
                        h <= cursor'[j]
                 PROVE  room[h].batch[c].timestamp <= clock'[j]
      BY <2>1 DEF ClockCoversRoom
    <3>1. CASE j # k
      BY <2>2, <3>1 DEF ClockCoversRoom
    <3>2. CASE j = k
      <4>1. WinsOver(m[c], At(h, c))
        <5>1. (m[c] = Absent /\ At(h, c) = Absent) \/ WinsOver(m[c], At(h, c))
          BY <2>1 DEF Gathered
        <5>2. QED BY <5>1, WinsOverPreorder, AbsentType
      <4>2. m[c] \in Cell /\ At(h, c) \in Cell
            /\ At(h, c).timestamp = room[h].batch[c].timestamp
        BY <2>1, AtType DEF Queue
      <4>3. m[c].timestamp >= room[h].batch[c].timestamp
            /\ m[c].timestamp \in Nat /\ room[h].batch[c].timestamp \in Nat
        BY <4>1, <4>2, WinsOverPreorder, AbsentType
      <4>4. QED BY <2>1, <2>2, <3>2, <4>3
    <3>3. QED BY <3>1, <3>2
  <2>7. NoteHolds(pending[k], about[k])'
    <3> PICK p, a : p = pending[k] /\ a = about[k]
      OBVIOUS
    <3>1. \A c \in CellIds : q[c] = Absent \/ q[c] = p[c]
      BY <2>1, EmptyType
    <3>2. NoteHolds(q, Kept(q, a))'
      BY <2>1, <3>1, NoteKept DEF NotesHold
    <3>3. QED BY <2>2, <3>2 DEF NoteHolds
  <2>8. NoteHolds(flight[k].batch, flight[k].about)'
    BY <2>2, EmptyType DEF NoFlight, NoteHolds
  <2>9. NotesHold'
    BY <2>1, <2>2, <2>7, <2>8 DEF NotesHold, NoteHolds
  <2>10. QED BY <2>4, <2>5, <2>6, <2>9
<1>8. CASE UNCHANGED vars
  BY <1>8 DEF vars, CursorInRoom, ClockCovers, ClockCoversRoom, NotesHold, NoteHolds
<1>9. QED
  BY <1>1, <1>2, <1>3, <1>4, <1>5, <1>6, <1>7, <1>8 DEF Next, Step

\* A client that has just opened an empty room has nothing to cover.
LEMMA ClockInit == Init => ClockInv
<1> SUFFICES ASSUME Init PROVE ClockInv
  OBVIOUS
<1>1. Len(room) = 0
  BY DEF Init
<1>2. \A k \in Clients : cursor[k] = 0 /\ clock[k] = 0 /\ cells[k] = Empty
        /\ pending[k] = Empty /\ flight[k].batch = Empty
  BY DEF Init, NoFlight
<1>3. Absent.timestamp = 0
  BY DEF Absent
<1>4. QED
  BY <1>1, <1>2, <1>3, EmptyType
     DEF ClockInv, CursorInRoom, ClockCovers, ClockCoversRoom, NotesHold, NoteHolds

\* The clock discipline holds in every reachable state.
LEMMA ClockDiscipline == Spec => [](TypeOK /\ ClockInv)
<1>1. TypeOK /\ TypeOK' /\ ClockInv /\ [Next]_vars => ClockInv'
  BY ClockStep
<1>2. QED BY <1>1, ClockInit, TypeCorrect, PTL DEF Spec

\* A client's clock is never behind anything it shows or has queued, whatever
\* the wall clocks do and however often clients reload (observe_timestamp).
THEOREM ClockNeverBehind == Spec => []ClockCovers
<1>1. ClockInv => ClockCovers
  BY DEF ClockInv
<1>2. QED BY <1>1, ClockDiscipline, PTL

\* A write whose author had seen another write to the same cell has the
\* higher timestamp, so it wins at every client (next_timestamp after
\* observe_timestamp, also across reloads).
THEOREM CausalWritesWin == Spec => []CausalOrder
<1>1. ClockInv => CausalOrder
  BY DEF ClockInv, NotesHold, NoteHolds, CausalOrder
<1>2. QED BY <1>1, ClockDiscipline, PTL

---------------------------------------------------------------------------
(* Where shown cells come from and what they beat.                         *)
AboveHeard ==
  \A k \in Clients, c \in CellIds :
    /\ WinsOver(cells[k][c], pending[k][c])
    /\ \A i \in 1..Len(room) : i <= cursor[k] => WinsOver(cells[k][c], At(i, c))

FromEvent(u, i, c) ==
  /\ room[i].batch[c] # Absent
  /\ u.timestamp = room[i].batch[c].timestamp /\ u.value = room[i].batch[c].value
  /\ u.server_timestamp \in {0, room[i].ots}

Origin ==
  \A k \in Clients, c \in CellIds :
    \/ cells[k][c] \in {Absent, pending[k][c]}
    \/ \E i \in 1..Len(room) : FromEvent(cells[k][c], i, c)

FlightQueued ==
  \A k \in Clients : phase[k] # "idle" =>
    /\ \A c \in CellIds :
         \/ pending[k][c] = flight[k].batch[c]
         \/ pending[k][c].timestamp > flight[k].batch[c].timestamp
    /\ phase[k] = "landed" => \E i \in 1..Len(room) : room[i].batch = flight[k].batch

PendingUnstamped ==
  \A k \in Clients, c \in CellIds : pending[k][c].server_timestamp = 0

ShownInv == AboveHeard /\ Origin /\ FlightQueued /\ PendingUnstamped

OtsIncreases ==
  /\ \A i \in 1..Len(room) : room[i].ots >= 1
  /\ \A i, j \in 1..Len(room) : i < j => room[i].ots < room[j].ots

\* Applying a batch keeps every cell above what it was above.
LEMMA AppliedAbove ==
  ASSUME NEW q \in [CellIds -> Cell], NEW b \in [CellIds -> Cell], NEW c \in CellIds,
         NEW u \in Cell, WinsOver(q[c], u) \/ WinsOver(b[c], u)
  PROVE  WinsOver(ApplyBatch(q, b)[c], u)
<1>1. /\ ApplyBatch(q, b)[c] \in Cell
      /\ WinsOver(ApplyBatch(q, b)[c], q[c]) /\ WinsOver(ApplyBatch(q, b)[c], b[c])
  BY ApplyBatchType
<1>2. QED BY <1>1, WinsOverPreorder

\* Every cell beats the missing one.
LEMMA BeatsAbsent ==
  ASSUME NEW u \in Cell
  PROVE  WinsOver(u, Absent)
BY AbsentType DEF WinsOver, Absent, NoServerTs

\* A received cell comes from the event that carried it.
LEMMA AtFromEvent ==
  ASSUME TypeOK, NEW i \in 1..Len(room), NEW c \in CellIds, At(i, c) # Absent
  PROVE  FromEvent(At(i, c), i, c)
BY AtType DEF FromEvent

\* Each action keeps what is shown traceable to the room or the queue, and
\* above everything heard and queued.
LEMMA ShownStep ==
  ASSUME TypeOK, TypeOK', ClockInv, ShownInv, [Next]_vars
  PROVE  ShownInv'
<1> USE DEF ClockInv, ShownInv
<1>1. ASSUME NEW k \in Clients, Edit(k) PROVE ShownInv'
  <2>1. PICK b \in Queue, n \in Nat :
           /\ \A c \in CellIds :
                b[c] = Absent \/ (b[c].timestamp > clock[k] /\ b[c].server_timestamp = 0)
           /\ n >= clock[k]
           /\ cells' = [cells EXCEPT ![k] = ApplyBatch(cells[k], b)]
           /\ pending' = [pending EXCEPT ![k] = MergePending(pending[k], b)]
           /\ UNCHANGED <<room, flight, phase, cursor>>
    BY <1>1, EditBatch
  <2>2. /\ \A j \in Clients : j # k => cells'[j] = cells[j] /\ pending'[j] = pending[j]
        /\ cells'[k] = ApplyBatch(cells[k], b)
        /\ pending'[k] = MergePending(pending[k], b)
    BY <2>1 DEF TypeOK
  <2>3. cells[k] \in [CellIds -> Cell] /\ pending[k] \in [CellIds -> Cell]
        /\ b \in [CellIds -> Cell]
    BY DEF TypeOK, Queue
  <2>4. \A c \in CellIds :
          \/ /\ b[c] = Absent
             /\ cells'[k][c] = cells[k][c] /\ pending'[k][c] = pending[k][c]
          \/ /\ cells'[k][c] = b[c] /\ pending'[k][c] = b[c]
             /\ b[c].timestamp > clock[k] /\ b[c].server_timestamp = 0
    <3> SUFFICES ASSUME NEW c \in CellIds, b[c] # Absent
                 PROVE  /\ ApplyBatch(cells[k], b)[c] = b[c]
                        /\ MergePending(pending[k], b)[c] = b[c]
                        /\ b[c].timestamp > clock[k] /\ b[c].server_timestamp = 0
      BY <2>1, <2>2, <2>3, ApplyBatchType, MergePendingType
    <3>1. b[c].timestamp > clock[k] /\ b[c].server_timestamp = 0 /\ b[c].timestamp \in Nat
      BY <2>1, <2>3, AbsentType
    <3>2. b[c].timestamp > cells[k][c].timestamp /\ b[c].timestamp > pending[k][c].timestamp
      BY <3>1, CellTypes DEF ClockCovers
    <3>3. /\ ApplyBatch(cells[k], b)[c] \in {cells[k][c], b[c]}
          /\ WinsOver(ApplyBatch(cells[k], b)[c], b[c])
      BY <2>3, ApplyBatchType
    <3>4. ~WinsOver(cells[k][c], b[c])
      BY <3>1, <3>2, CellTypes DEF WinsOver
    <3>5. MergePending(pending[k], b)[c] = b[c]
      BY <2>3, <3>2, MergePendingType
    <3>6. QED BY <3>1, <3>3, <3>4, <3>5
  <2>5. AboveHeard'
    <3> SUFFICES ASSUME NEW j \in Clients, NEW c \in CellIds
                 PROVE  /\ WinsOver(cells'[j][c], pending'[j][c])
                        /\ \A i \in 1..Len(room) :
                             i <= cursor[j] => WinsOver(cells'[j][c], At(i, c))
      BY <2>1 DEF AboveHeard, At
    <3>1. CASE cells'[j][c] = cells[j][c] /\ pending'[j][c] = pending[j][c]
      BY <3>1 DEF AboveHeard
    <3>2. CASE j = k /\ cells'[k][c] = b[c] /\ pending'[k][c] = b[c]
               /\ b[c].timestamp > clock[k]
      <4>1. b[c] \in Cell /\ b[c].timestamp \in Nat /\ clock[k] \in Nat
        BY <2>3, AbsentType, CellTypes
      <4>2. \A i \in 1..Len(room) :
              i <= cursor[k] => At(i, c).timestamp \in Nat /\ At(i, c).timestamp <= clock[k]
        BY AtType, AbsentType DEF ClockCoversRoom
      <4>3. \A i \in 1..Len(room) : i <= cursor[k] => WinsOver(b[c], At(i, c))
        BY <3>2, <4>1, <4>2 DEF WinsOver
      <4>4. QED BY <3>2, <4>1, <4>3, WinsOverPreorder
    <3>3. QED BY <2>2, <2>4, <3>1, <3>2
  <2>6. Origin'
    BY <2>1, <2>2, <2>4 DEF Origin, FromEvent
  <2>7. FlightQueued'
    <3> SUFFICES ASSUME NEW j \in Clients, phase[j] # "idle", NEW c \in CellIds
                 PROVE  \/ pending'[j][c] = flight[j].batch[c]
                        \/ pending'[j][c].timestamp > flight[j].batch[c].timestamp
      BY <2>1 DEF FlightQueued
    <3>1. CASE pending'[j][c] = pending[j][c]
      BY <3>1 DEF FlightQueued
    <3>2. CASE j = k /\ pending'[k][c] = b[c] /\ b[c].timestamp > clock[k]
      <4>1. pending[k][c].timestamp >= flight[k].batch[c].timestamp
        BY <3>2, CellTypes DEF FlightQueued
      <4>2. b[c].timestamp \in Nat
        BY <2>3, AbsentType
      <4>3. QED BY <3>2, <4>1, <4>2, CellTypes DEF ClockCovers
    <3>3. QED BY <2>2, <2>4, <3>1, <3>2
  <2>8. PendingUnstamped'
    BY <2>2, <2>4 DEF PendingUnstamped
  <2>9. QED BY <2>5, <2>6, <2>7, <2>8
<1>2. ASSUME NEW k \in Clients, FlushStart(k) PROVE ShownInv'
  <2>1. /\ UNCHANGED <<room, cells, pending, cursor>>
        /\ flight'[k].batch = pending[k] /\ phase'[k] = "send"
        /\ \A j \in Clients : j # k => flight'[j] = flight[j] /\ phase'[j] = phase[j]
    BY <1>2 DEF FlushStart, TypeOK
  <2>2. AboveHeard' /\ Origin' /\ PendingUnstamped'
    BY <2>1 DEF AboveHeard, Origin, PendingUnstamped, At, FromEvent
  <2>3. FlightQueued'
    BY <2>1 DEF FlightQueued
  <2>4. QED BY <2>2, <2>3
<1>3. ASSUME NEW k \in Clients, NEW ots \in (LastOts + OtsGap)..(LastOts + 1),
             ServerAppends(k, ots)
      PROVE  ShownInv'
  <2>1. ots \in Nat
    BY OtsType
  <2>2. /\ Len(room) \in Nat /\ Len(room') = Len(room) + 1
        /\ \A i \in 1..Len(room) : room'[i] = room[i]
        /\ room'[Len(room) + 1].batch = flight[k].batch
    BY <1>3, <2>1, RoomAppends
  <2>3. /\ UNCHANGED <<cells, clock, pending, flight, cursor>>
        /\ \A j \in Clients : j # k => phase'[j] = phase[j]
        /\ phase[k] = "send" /\ phase'[k] = "landed"
    BY <1>3 DEF ServerAppends, TypeOK
  <2>4. AboveHeard'
    <3> SUFFICES ASSUME NEW j \in Clients, NEW c \in CellIds, NEW i \in 1..Len(room'),
                        i <= cursor[j]
                 PROVE  WinsOver(cells[j][c], At(i, c)')
      BY <2>3 DEF AboveHeard
    <3>1. i \in 1..Len(room)
      BY <2>2, CellTypes DEF CursorInRoom
    <3>2. At(i, c)' = At(i, c)
      BY <2>2, <3>1 DEF At
    <3>3. QED BY <3>1, <3>2 DEF AboveHeard
  <2>5. Origin'
    <3> SUFFICES ASSUME NEW j \in Clients, NEW c \in CellIds,
                        cells[j][c] \notin {Absent, pending[j][c]}
                 PROVE  \E i \in 1..Len(room') : FromEvent(cells[j][c], i, c)'
      BY <2>3 DEF Origin, FromEvent
    <3>1. PICK i \in 1..Len(room) : FromEvent(cells[j][c], i, c)
      BY DEF Origin
    <3>2. i \in 1..Len(room') /\ room'[i] = room[i]
      BY <2>2
    <3>3. FromEvent(cells[j][c], i, c)'
      BY <2>3, <3>1, <3>2 DEF FromEvent
    <3>4. QED BY <3>2, <3>3
  <2>6. FlightQueued'
    <3> SUFFICES ASSUME NEW j \in Clients, phase'[j] # "idle"
                 PROVE  /\ \A c \in CellIds :
                             \/ pending[j][c] = flight[j].batch[c]
                             \/ pending[j][c].timestamp > flight[j].batch[c].timestamp
                        /\ phase'[j] = "landed" =>
                             \E i \in 1..Len(room') : room'[i].batch = flight[j].batch
      BY <2>3 DEF FlightQueued
    <3>1. phase[j] # "idle"
      BY <2>3
    <3>2. CASE j = k
      <4>1. Len(room) + 1 \in 1..Len(room')
        BY <2>2
      <4>2. QED BY <2>2, <3>1, <3>2, <4>1 DEF FlightQueued
    <3>3. CASE j # k
      <4>1. \A i \in 1..Len(room) : i \in 1..Len(room')
        BY <2>2
      <4>2. QED BY <2>2, <2>3, <3>1, <3>3, <4>1 DEF FlightQueued
    <3>4. QED BY <3>2, <3>3
  <2>7. PendingUnstamped'
    BY <2>3 DEF PendingUnstamped
  <2>8. QED BY <2>4, <2>5, <2>6, <2>7
<1>4. ASSUME NEW k \in Clients, Sent(k) PROVE ShownInv'
  <2>1. /\ UNCHANGED <<room, cells, clock, cursor>>
        /\ pending'[k] = RemoveSent(pending[k], flight[k].batch)
        /\ \A j \in Clients : j # k => /\ pending'[j] = pending[j] /\ phase'[j] = phase[j]
                                       /\ flight'[j] = flight[j]
        /\ phase[k] = "landed" /\ phase'[k] = "idle"
    BY <1>4 DEF Sent, TypeOK
  <2>2. \A c \in CellIds :
          \/ pending'[k][c] = pending[k][c]
          \/ /\ pending'[k][c] = Absent /\ pending[k][c] = flight[k].batch[c]
    <3> SUFFICES ASSUME NEW c \in CellIds
                 PROVE  \/ pending'[k][c] = pending[k][c]
                        \/ pending'[k][c] = Absent /\ pending[k][c] = flight[k].batch[c]
      OBVIOUS
    <3>1. pending[k] \in [CellIds -> Cell] /\ flight[k].batch \in [CellIds -> Cell]
      BY NoteTypes DEF TypeOK, Queue
    <3>2. \/ pending'[k][c] = pending[k][c]
          \/ /\ pending'[k][c] = Absent
             /\ pending[k][c].timestamp <= flight[k].batch[c].timestamp
      BY <2>1, <3>1, RemoveSentType
    <3>3. \/ pending[k][c] = flight[k].batch[c]
          \/ pending[k][c].timestamp > flight[k].batch[c].timestamp
      BY <2>1 DEF FlightQueued
    <3>4. QED BY <3>2, <3>3, CellTypes
  <2>3. AboveHeard'
    <3>1. \A j \in Clients, c \in CellIds : WinsOver(cells[j][c], pending'[j][c])
      BY <2>1, <2>2, CellTypes, BeatsAbsent DEF AboveHeard
    <3>2. QED BY <2>1, <3>1 DEF AboveHeard, At
  <2>4. Origin'
    <3> SUFFICES ASSUME NEW j \in Clients, NEW c \in CellIds,
                        cells[j][c] \notin {Absent, pending'[j][c]}
                 PROVE  \E i \in 1..Len(room) : FromEvent(cells[j][c], i, c)
      BY <2>1 DEF Origin, FromEvent
    <3>1. CASE cells[j][c] # pending[j][c]
      BY <3>1 DEF Origin
    <3>2. CASE cells[j][c] = pending[j][c]
      <4>1. j = k /\ pending[k][c] = flight[k].batch[c]
        BY <2>1, <2>2, <3>2
      <4>2. PICK i \in 1..Len(room) : room[i].batch = flight[k].batch
        BY <2>1 DEF FlightQueued
      <4>3. FromEvent(cells[j][c], i, c)
        BY <3>2, <4>1, <4>2 DEF FromEvent, PendingUnstamped
      <4>4. QED BY <4>3
    <3>3. QED BY <3>1, <3>2
  <2>5. FlightQueued'
    BY <2>1 DEF FlightQueued
  <2>6. PendingUnstamped'
    BY <2>1, <2>2 DEF PendingUnstamped, Absent, NoServerTs
  <2>7. QED BY <2>3, <2>4, <2>5, <2>6
<1>5. ASSUME NEW k \in Clients, Retryable(k) PROVE ShownInv'
  <2>1. /\ UNCHANGED <<room, cells, pending, cursor>>
        /\ phase'[k] = "idle"
        /\ \A j \in Clients : j # k => flight'[j] = flight[j] /\ phase'[j] = phase[j]
    BY <1>5 DEF Retryable, TypeOK
  <2>2. AboveHeard' /\ Origin' /\ PendingUnstamped'
    BY <2>1 DEF AboveHeard, Origin, PendingUnstamped, At, FromEvent
  <2>3. FlightQueued'
    BY <2>1 DEF FlightQueued
  <2>4. QED BY <2>2, <2>3
<1>6. ASSUME NEW k \in Clients, SyncNext(k) PROVE ShownInv'
  <2>1. PICK b \in Queue, n \in Nat, i \in 1..Len(room) :
           /\ i = cursor[k] + 1
           /\ \A c \in CellIds : b[c] = At(i, c)
           /\ cells' = [cells EXCEPT ![k] = ApplyBatch(cells[k], b)]
           /\ cursor' = [cursor EXCEPT ![k] = i]
           /\ UNCHANGED <<room, pending, about, flight, phase>>
    BY <1>6, SyncBatch
  <2>2. /\ \A j \in Clients : j # k => cells'[j] = cells[j] /\ cursor'[j] = cursor[j]
        /\ cells'[k] = ApplyBatch(cells[k], b) /\ cursor'[k] = i
    BY <2>1 DEF TypeOK
  <2>3. cells[k] \in [CellIds -> Cell] /\ b \in [CellIds -> Cell]
    BY DEF TypeOK, Queue
  <2>4. AboveHeard'
    <3> SUFFICES ASSUME NEW j \in Clients, NEW c \in CellIds
                 PROVE  /\ WinsOver(cells'[j][c], pending[j][c])
                        /\ \A h \in 1..Len(room) :
                             h <= cursor'[j] => WinsOver(cells'[j][c], At(h, c))
      BY <2>1 DEF AboveHeard, At
    <3>1. CASE j # k
      BY <2>2, <3>1 DEF AboveHeard
    <3>2. CASE j = k
      <4>1. WinsOver(cells'[k][c], pending[k][c])
        BY <2>2, <2>3, AppliedAbove, CellTypes DEF AboveHeard
      <4>2. ASSUME NEW h \in 1..Len(room), h <= i PROVE WinsOver(cells'[k][c], At(h, c))
        <5>1. At(h, c) \in Cell /\ b[c] \in Cell
          BY <2>3, AtType
        <5>2. h <= cursor[k] => WinsOver(cells[k][c], At(h, c))
          BY DEF AboveHeard
        <5>3. h = i => WinsOver(b[c], At(h, c))
          BY <2>1, <5>1, WinsOverPreorder
        <5>4. WinsOver(cells[k][c], At(h, c)) \/ WinsOver(b[c], At(h, c))
          BY <2>1, <4>2, <5>2, <5>3, CellTypes
        <5>5. QED BY <2>2, <2>3, <5>1, <5>4, AppliedAbove
      <4>3. QED BY <2>2, <3>2, <4>1, <4>2
    <3>3. QED BY <3>1, <3>2
  <2>5. Origin'
    <3> SUFFICES ASSUME NEW j \in Clients, NEW c \in CellIds
                 PROVE  \/ cells'[j][c] \in {Absent, pending[j][c]}
                        \/ \E h \in 1..Len(room) : FromEvent(cells'[j][c], h, c)
      BY <2>1 DEF Origin, FromEvent
    <3>1. CASE cells'[j][c] = cells[j][c]
      BY <3>1 DEF Origin
    <3>2. CASE cells'[j][c] = At(i, c)
      BY <3>2, AtFromEvent
    <3>3. cells'[j][c] \in {cells[j][c], At(i, c)}
      BY <2>1, <2>2, <2>3, ApplyBatchType
    <3>4. QED BY <3>1, <3>2, <3>3
  <2>6. FlightQueued' /\ PendingUnstamped'
    BY <2>1 DEF FlightQueued, PendingUnstamped
  <2>7. QED BY <2>4, <2>5, <2>6
<1>7. ASSUME NEW k \in Clients, NEW m \in [CellIds -> Heard], NEW saved \in BOOLEAN,
             Reload(k, m, saved)
      PROVE  ShownInv'
  <2>1. PICK q \in Queue, n \in Nat :
           /\ m \in Queue /\ Gathered(m)
           /\ q \in {pending[k], Empty}
           /\ \A c \in CellIds : m[c].timestamp <= n /\ q[c].timestamp <= n
           /\ cells' = [cells EXCEPT ![k] = ApplyBatch(m, q)]
           /\ clock' = [clock EXCEPT ![k] = n]
           /\ pending' = [pending EXCEPT ![k] = q]
           /\ about' = [about EXCEPT ![k] = Kept(q, about[k])]
           /\ phase' = [phase EXCEPT ![k] = "idle"]
           /\ flight' = [flight EXCEPT ![k] = NoFlight]
           /\ cursor' = [cursor EXCEPT ![k] = Len(room)]
           /\ room' = room
    BY <1>7, ReloadBatch
  <2>2. /\ \A j \in Clients : j # k => /\ cells'[j] = cells[j] /\ cursor'[j] = cursor[j]
                                       /\ pending'[j] = pending[j] /\ flight'[j] = flight[j]
                                       /\ phase'[j] = phase[j]
        /\ cells'[k] = ApplyBatch(m, q) /\ cursor'[k] = Len(room)
        /\ pending'[k] = q /\ phase'[k] = "idle"
    BY <2>1 DEF TypeOK
  <2>3. m \in [CellIds -> Cell] /\ q \in [CellIds -> Cell]
    BY <2>1 DEF Queue
  <2>4. ASSUME NEW c \in CellIds
        PROVE  /\ WinsOver(cells'[k][c], q[c])
               /\ \A h \in 1..Len(room) : WinsOver(cells'[k][c], At(h, c))
               /\ \/ cells'[k][c] \in {Absent, q[c]}
                  \/ \E h \in 1..Len(room) : FromEvent(cells'[k][c], h, c)
    <3>1. ASSUME NEW h \in 1..Len(room) PROVE WinsOver(m[c], At(h, c))
      <4>1. (m[c] = Absent /\ At(h, c) = Absent) \/ WinsOver(m[c], At(h, c))
        BY <2>1 DEF Gathered
      <4>2. QED BY <4>1, WinsOverPreorder, AbsentType
    <3>2. m[c] = Absent \/ \E h \in 1..Len(room) : FromEvent(m[c], h, c)
      BY <2>1, AtFromEvent DEF Gathered
    <3>3. ApplyBatch(m, q)[c] \in {m[c], q[c]} /\ WinsOver(ApplyBatch(m, q)[c], q[c])
      BY <2>3, ApplyBatchType
    <3>4. \A h \in 1..Len(room) : WinsOver(ApplyBatch(m, q)[c], At(h, c))
      BY <2>3, <3>1, AtType, AppliedAbove
    <3>5. QED BY <2>2, <3>2, <3>3, <3>4
  <2>5. AboveHeard'
    <3> SUFFICES ASSUME NEW j \in Clients, NEW c \in CellIds
                 PROVE  /\ WinsOver(cells'[j][c], pending'[j][c])
                        /\ \A h \in 1..Len(room) :
                             h <= cursor'[j] => WinsOver(cells'[j][c], At(h, c))
      BY <2>1 DEF AboveHeard, At
    <3>1. QED BY <2>2, <2>4 DEF AboveHeard
  <2>6. Origin'
    <3> SUFFICES ASSUME NEW j \in Clients, NEW c \in CellIds
                 PROVE  \/ cells'[j][c] \in {Absent, pending'[j][c]}
                        \/ \E h \in 1..Len(room) : FromEvent(cells'[j][c], h, c)
      BY <2>1 DEF Origin, FromEvent
    <3>1. QED BY <2>2, <2>4 DEF Origin
  <2>7. FlightQueued'
    BY <2>1, <2>2 DEF FlightQueued
  <2>8. PendingUnstamped'
    BY <2>1, <2>2, EmptyType DEF PendingUnstamped, Absent, NoServerTs
  <2>9. QED BY <2>5, <2>6, <2>7, <2>8
<1>8. CASE UNCHANGED vars
  BY <1>8 DEF vars, AboveHeard, Origin, FlightQueued, PendingUnstamped, At, FromEvent
<1>9. QED
  BY <1>1, <1>2, <1>3, <1>4, <1>5, <1>6, <1>7, <1>8 DEF Next, Step

\* The initial state shows nothing.
LEMMA ShownInit == Init => ShownInv
<1> SUFFICES ASSUME Init PROVE ShownInv
  OBVIOUS
<1>1. Len(room) = 0
  BY DEF Init
<1>2. \A k \in Clients : /\ phase[k] = "idle"
                         /\ \A c \in CellIds : cells[k][c] = Absent /\ pending[k][c] = Absent
  BY EmptyType DEF Init
<1>3. WinsOver(Absent, Absent) /\ Absent.server_timestamp = 0
  BY BeatsAbsent, AbsentType DEF Absent, NoServerTs
<1>4. QED
  BY <1>1, <1>2, <1>3 DEF ShownInv, AboveHeard, Origin, FlightQueued, PendingUnstamped

\* The invariant of the clock and the invariant of what is shown hold together.
LEMMA Shown == Spec => [](TypeOK /\ ClockInv /\ ShownInv)
<1>1. TypeOK /\ TypeOK' /\ ClockInv /\ ShownInv /\ [Next]_vars => ShownInv'
  BY ShownStep
<1>2. QED BY <1>1, ShownInit, ClockDiscipline, TypeCorrect, PTL DEF Spec

\* What a client shows for a cell it still has queued is that write or a
\* later one: neither the sync stream nor a reload hides an unsent edit
\* behind something older (apply_update, restorePendingUpdates).
THEOREM QueuedShows == Spec => []QueuedWriteShows
<1>1. ShownInv => QueuedWriteShows
  BY DEF ShownInv, AboveHeard, QueuedWriteShows
<1>2. QED BY <1>1, Shown, PTL

---------------------------------------------------------------------------
\* A homeserver that never gives two events the same origin_server_ts tells
\* them apart by it.
LEMMA OtsStep ==
  ASSUME OtsGap >= 1, TypeOK, OtsIncreases, [Next]_vars
  PROVE  OtsIncreases'
<1>1. ASSUME NEW k \in Clients, NEW ots \in (LastOts + OtsGap)..(LastOts + 1),
             ServerAppends(k, ots)
      PROVE  OtsIncreases'
  <2>1. ots \in Nat /\ LastOts \in Nat /\ ots >= LastOts + OtsGap /\ ots >= 1
    BY <1>1, OtsType, ReplicationAssumption DEF ServerAppends
  <2>2. /\ Len(room) \in Nat /\ Len(room') = Len(room) + 1
        /\ \A i \in 1..Len(room) : room'[i] = room[i]
        /\ room'[Len(room) + 1].ots = ots
    BY <1>1, <2>1, RoomAppends
  <2>3. \A i \in 1..Len(room) : room[i].ots \in Nat
    BY NoteTypes DEF TypeOK
  <2>4. ots > LastOts
    BY <2>1, ReplicationAssumption
  <2>5. ASSUME NEW i \in 1..Len(room) PROVE room[i].ots < ots
    <3>1. Len(room) \in 1..Len(room) /\ LastOts = room[Len(room)].ots
      BY <2>2, EmptySeq DEF LastOts, TypeOK
    <3>2. i = Len(room) \/ i < Len(room)
      BY <2>2
    <3>3. room[i].ots <= LastOts
      BY <2>3, <3>1, <3>2 DEF OtsIncreases
    <3>4. QED BY <2>1, <2>3, <2>4, <3>3
  <2>6. QED BY <2>1, <2>2, <2>3, <2>5 DEF OtsIncreases
<1>2. CASE room' = room
  BY <1>2 DEF OtsIncreases
<1>3. ASSUME NEW k \in Clients, Step(k) PROVE OtsIncreases'
  <2>1. \/ room' = room
        \/ \E ots \in (LastOts + OtsGap)..(LastOts + 1) : ServerAppends(k, ots)
    BY <1>3 DEF Step, Edit, UpdateCell, FlushStart, Sent, Retryable, SyncNext, Reload
  <2>2. QED BY <1>1, <1>2, <2>1
<1>4. QED BY <1>2, <1>3 DEF Next, vars

\* Where nothing is queued and everything is heard, a shown cell is the one
\* event of the room that beats all others.
LEMMA QuietShowsWinner ==
  ASSUME TypeOK, ClockInv, ShownInv, OtsIncreases,
         NEW k \in Clients, NEW c \in CellIds, Quiet(k)
  PROVE  /\ \A h \in 1..Len(room) : WinsOver(cells[k][c], At(h, c))
         /\ \/ cells[k][c] = Absent
            \/ \E i \in 1..Len(room) : At(i, c) # Absent /\ cells[k][c] = At(i, c)
<1>1. \A h \in 1..Len(room) : WinsOver(cells[k][c], At(h, c))
  BY DEF ShownInv, AboveHeard, Quiet, TypeOK
<1>2. pending[k][c] = Absent
  BY EmptyType DEF Quiet
<1>3. ASSUME NEW i \in 1..Len(room), FromEvent(cells[k][c], i, c)
      PROVE  At(i, c) # Absent /\ cells[k][c] = At(i, c)
  <2>1. /\ cells[k][c] \in Cell /\ At(i, c) \in Cell /\ room[i].ots \in Nat
        /\ room[i].batch[c] # Absent
        /\ At(i, c) # Absent /\ At(i, c).server_timestamp = room[i].ots
        /\ At(i, c).timestamp = cells[k][c].timestamp
        /\ At(i, c).value = cells[k][c].value
    BY <1>3, CellTypes, AtType DEF FromEvent
  <2>2. cells[k][c].server_timestamp >= room[i].ots
    BY <1>1, <2>1, AbsentType DEF WinsOver
  <2>3. cells[k][c].server_timestamp = room[i].ots
    BY <1>3, <2>1, <2>2 DEF FromEvent, OtsIncreases
  <2>4. cells[k][c] # Absent
    BY <2>1, AbsentType
  <2>5. \A u, w \in Cell : /\ u # Absent /\ w # Absent
                           /\ u.timestamp = w.timestamp /\ u.value = w.value
                           /\ u.server_timestamp = w.server_timestamp
                           => u = w
    BY DEF Cell
  <2>6. QED BY <2>1, <2>3, <2>4, <2>5
<1>4. QED BY <1>1, <1>2, <1>3 DEF ShownInv, Origin

\* Strong convergence: clients with nothing to send or receive show the same
\* values, for any number of clients, edits, retries, duplicates and reloads,
\* provided the homeserver's timestamps tell events apart (Cell::resolve_lww,
\* whose complete ties are decided by arrival order).
THEOREM Converges ==
  ASSUME OtsGap >= 1
  PROVE  Spec => []Convergence
<1>1. Init => OtsIncreases
  BY DEF Init, OtsIncreases
<1>2. TypeOK /\ OtsIncreases /\ [Next]_vars => OtsIncreases'
  BY OtsStep
<1>3. TypeOK /\ ClockInv /\ ShownInv /\ OtsIncreases => Convergence
  <2> SUFFICES ASSUME TypeOK, ClockInv, ShownInv, OtsIncreases,
                      NEW j \in Clients, NEW k \in Clients, Quiet(j), Quiet(k),
                      NEW c \in CellIds
               PROVE  cells[j][c].value = cells[k][c].value
    BY DEF Convergence
  <2>1. /\ \A h \in 1..Len(room) : WinsOver(cells[j][c], At(h, c))
        /\ \/ cells[j][c] = Absent
           \/ \E i \in 1..Len(room) : At(i, c) # Absent /\ cells[j][c] = At(i, c)
    BY QuietShowsWinner
  <2>2. /\ \A h \in 1..Len(room) : WinsOver(cells[k][c], At(h, c))
        /\ \/ cells[k][c] = Absent
           \/ \E i \in 1..Len(room) : At(i, c) # Absent /\ cells[k][c] = At(i, c)
    BY QuietShowsWinner
  <2>3. \A u \in Cell : WinsOver(Absent, u) => u = Absent
    BY AbsentType DEF WinsOver, Absent
  <2>4. \A h \in 1..Len(room) : At(h, c) \in Cell
    BY AtType
  <2>5. CASE cells[j][c] = Absent \/ cells[k][c] = Absent
    BY <2>1, <2>2, <2>3, <2>4, <2>5
  <2>6. CASE cells[j][c] # Absent /\ cells[k][c] # Absent
    <3>1. PICK i \in 1..Len(room) : At(i, c) # Absent /\ cells[j][c] = At(i, c)
      BY <2>1, <2>6
    <3>2. PICK h \in 1..Len(room) : At(h, c) # Absent /\ cells[k][c] = At(h, c)
      BY <2>2, <2>6
    <3>3. WinsOver(At(i, c), At(h, c)) /\ WinsOver(At(h, c), At(i, c))
      BY <2>1, <2>2, <3>1, <3>2
    <3>4. At(i, c).server_timestamp = At(h, c).server_timestamp
      BY <2>4, <3>3, AbsentType DEF WinsOver
    <3>5. room[i].ots = room[h].ots /\ room[i].ots \in Nat /\ room[h].ots \in Nat
      BY <3>1, <3>2, <3>4, AtType
    <3>6. i = h
      BY <3>5 DEF OtsIncreases
    <3>7. QED BY <3>1, <3>2, <3>6
  <2>7. QED BY <2>5, <2>6
<1>4. QED BY <1>1, <1>2, <1>3, Shown, PTL DEF Spec

-----------------------------------------------------------------------------
(* The workspace page: what calls under way, the stores and the screen can *)
(* be, and why the lists settle.                                           *)

CallOps == SidebarOps \union ViewWrites \union {"setTableOrder"}

ListedViews == [id : Views, name : Names, filters : SUBSET Conditions]

\* A call that has been made: k calls have been made so far. The identifier is a
\* view's where the answer opens that view.
IsCall(c, k) ==
  /\ c \in [n : Nat, op : CallOps, id : {c.id}, cfg : Configs, order : Orders \union {<< >>},
            state : {"sent", "done", "refused", "failed"}, mine : BOOLEAN]
  /\ c.n <= k
  /\ c.op = "fork" => c.id \in Views
  /\ c.op \in {"createTable", "importCsv"} => c.id \in Tables

Boards == [on : Views \union {None}, holds : Views \union {None}, cfg : Configs,
           draft : SUBSET Conditions, gone : SUBSET Columns]

CallTypes == \A c \in calls : IsCall(c, ops)

ScreenTypes ==
  /\ shown \in [tables : {shown.tables}, views : SUBSET ListedViews]
  /\ route.page = "view" => route.view \in Views
  /\ dialog.op \in {"renameView", "deleteView"} => dialog.id \in Views
  /\ board \in Boards
  /\ board.on = None => board.draft = {}

StoreTypes ==
  /\ env \in Envs /\ ops \in Nat
  /\ store \in Workspaces /\ seen \in Workspaces
  /\ env.host = "tab" => seen = store

ShellTypes == StoreTypes /\ CallTypes /\ ScreenTypes

\* A store in the tab runs what is asked for at once.
TabSettlesAtOnce ==
  env.host = "tab" => \A c \in calls : c.state = "sent" => c.op = "checkIntegrity"

Settled ==
  /\ shown = Listing(seen)
  /\ route.table # None => seen.tables[route.table].live

\* The answer to c will have the lists read again.
Rereads(c) == c.op \in RereadOnFailure \/ (c.state = "done" /\ c.op # "setTableOrder")

RereadDue ==
  ~(env.host = "tab" /\ env.unsealed) => Settled \/ due \/ \E c \in calls : Rereads(c)

ShellInv == ShellTypes /\ TabSettlesAtOnce /\ RereadDue

-----------------------------------------------------------------------------
(* What the operators on workspaces and calls return.                      *)

TableRecords == [live : BOOLEAN, name : Names]
ViewRecords == [live : BOOLEAN, name : Names, filters : SUBSET Conditions,
                group : Columns \union {None}]

\* The workspace with one entry replaced.
PutTable(s, t, y) == [s EXCEPT !.tables[t] = y]
PutView(s, v, y) == [s EXCEPT !.views[v] = y]

\* An identifier that a workspace does not have changes nothing of it.
LEMMA PutType ==
  ASSUME NEW s \in Workspaces, NEW i, NEW y
  PROVE  /\ (i \in Tables => y \in TableRecords) => PutTable(s, i, y) \in Workspaces
         /\ (i \in Views => y \in ViewRecords) => PutView(s, i, y) \in Workspaces
<1> DEFINE tables == [s.tables EXCEPT ![i] = y]
           views == [s.views EXCEPT ![i] = y]
<1>1. ASSUME i \in Tables => y \in TableRecords
      PROVE  PutTable(s, i, y) \in Workspaces
  <2>1. tables \in [Tables -> TableRecords]
    BY <1>1 DEF Workspaces, TableRecords
  <2> QED
    BY <2>1 DEF Workspaces, PutTable, TableRecords
<1>2. ASSUME i \in Views => y \in ViewRecords
      PROVE  PutView(s, i, y) \in Workspaces
  <2>1. views \in [Views -> ViewRecords]
    BY <1>2 DEF Workspaces, ViewRecords
  <2> QED
    BY <2>1 DEF Workspaces, PutView, ViewRecords
<1> QED
  BY <1>1, <1>2

\* The entries themselves, and what is left of them when a field changes.
LEMMA EntryType ==
  ASSUME NEW s \in Workspaces
  PROVE  /\ \A t \in Tables :
              /\ [s.tables[t] EXCEPT !.live = FALSE] \in TableRecords
              /\ \A x \in Names : [s.tables[t] EXCEPT !.name = x] \in TableRecords
         /\ \A v \in Views :
              /\ [s.views[v] EXCEPT !.live = FALSE] \in ViewRecords
              /\ \A x \in Columns : [s.views[v] EXCEPT !.group = x] \in ViewRecords
<1>1. ASSUME NEW t \in Tables
      PROVE  /\ [s.tables[t] EXCEPT !.live = FALSE] \in TableRecords
             /\ \A x \in Names : [s.tables[t] EXCEPT !.name = x] \in TableRecords
  <2>1. s.tables[t] \in TableRecords
    BY DEF Workspaces, TableRecords
  <2> QED
    BY <2>1 DEF TableRecords
<1>2. ASSUME NEW v \in Views
      PROVE  /\ [s.views[v] EXCEPT !.live = FALSE] \in ViewRecords
             /\ \A x \in Columns : [s.views[v] EXCEPT !.group = x] \in ViewRecords
  <2>1. s.views[v] \in ViewRecords
    BY DEF Workspaces, ViewRecords
  <2> QED
    BY <2>1 DEF ViewRecords
<1> QED
  BY <1>1, <1>2

\* A view written with a well-typed configuration leaves a well-typed workspace.
LEMMA WriteViewType ==
  ASSUME NEW s \in Workspaces, NEW v, NEW cfg \in Configs
  PROVE  WriteView(s, v, cfg) \in Workspaces
BY DEF WriteView, Workspaces, Configs

\* What is read of a view is a configuration.
LEMMA ConfigType ==
  ASSUME NEW s \in Workspaces, NEW v \in Views
  PROVE  Config(s, v) \in Configs
BY DEF Config, Workspaces, Configs

\* What a call leaves of a workspace.
LEMMA EffectType ==
  ASSUME NEW s \in Workspaces, NEW c, NEW k, IsCall(c, k), c.op # "checkIntegrity"
  PROVE  Effect(s, c) \in Workspaces
<1>t. c.cfg \in Configs /\ c.order \in Orders \union {<< >>} /\ c.op \in CallOps
  BY DEF IsCall
<1>1. CASE c.op \in ViewWrites
  <2>1. Effect(s, c) = WriteView(s, c.id, c.cfg)
    BY <1>1 DEF Effect, ViewWrites
  <2> QED
    BY <2>1, <1>t, WriteViewType
<1>2. CASE c.op = "deleteView"
  <2> DEFINE y == [s.views[c.id] EXCEPT !.live = FALSE]
  <2>1. Effect(s, c) = PutView(s, c.id, y)
    BY <1>2 DEF Effect, ViewWrites, PutView
  <2>2. c.id \in Views => y \in ViewRecords
    BY EntryType, Zenon
  <2> HIDE DEF y
  <2> QED
    BY <2>1, <2>2, PutType
<1>3. CASE c.op = "deleteTable"
  <2> DEFINE y == [s.tables[c.id] EXCEPT !.live = FALSE]
  <2>1. Effect(s, c) = PutTable(s, c.id, y)
    BY <1>3 DEF Effect, ViewWrites, PutTable
  <2>2. c.id \in Tables => y \in TableRecords
    BY EntryType, Zenon
  <2> HIDE DEF y
  <2> QED
    BY <2>1, <2>2, PutType
<1>4. CASE c.op = "renameTable"
  <2> DEFINE y == [s.tables[c.id] EXCEPT !.name = c.cfg.name]
  <2>1. Effect(s, c) = PutTable(s, c.id, y)
    BY <1>4 DEF Effect, ViewWrites, PutTable
  <2>2. c.cfg.name \in Names
    BY <1>t DEF Configs
  <2>3. c.id \in Tables => y \in TableRecords
    BY <2>2, EntryType, Zenon
  <2> HIDE DEF y
  <2> QED
    BY <2>1, <2>3, PutType
<1>5. CASE c.op \in {"createTable", "importCsv"}
  <2> DEFINE y == [live |-> TRUE, name |-> c.id]
  <2>1. y \in TableRecords
    BY <1>5 DEF IsCall, Names, TableRecords
  <2>2. Effect(s, c) \in {s, PutTable(s, c.id, y)}
    BY <1>5 DEF Effect, ViewWrites, PutTable
  <2> HIDE DEF y
  <2> QED
    BY <2>1, <2>2, PutType
<1>6. CASE c.op = "setTableOrder"
  <2>1. Effect(s, c) = [s EXCEPT !.order = c.order]
    BY <1>6 DEF Effect, ViewWrites
  <2> QED
    BY <2>1, <1>t DEF Workspaces
<1> QED
  BY <1>1, <1>2, <1>3, <1>4, <1>5, <1>6, <1>t DEF CallOps, SidebarOps, ViewWrites

\* What a change made elsewhere leaves of a workspace.
LEMMA ElsewhereType ==
  ASSUME NEW s \in Workspaces, NEW x \in Elsewhere(s)
  PROVE  x \in Workspaces
<1>1. CASE \E t \in Tables, y \in [live : BOOLEAN, name : Renames] : x = PutTable(s, t, y)
  <2>1. [live : BOOLEAN, name : Renames] \subseteq TableRecords
    BY DEF Names, TableRecords
  <2> QED
    BY <1>1, <2>1, PutType
<1>2. CASE \E v \in Views, y \in [name : Renames, filters : Filters, group : {None}] :
             x = WriteView(s, v, y)
  <2>1. [name : Renames, filters : Filters, group : {None}] \subseteq Configs
    BY DEF Filters, Configs, Names
  <2> QED
    BY <1>2, <2>1, WriteViewType
<1>3. CASE \E v \in Views, y \in ViewRecords : x = PutView(s, v, y)
  BY <1>3, PutType
<1>5. CASE \E y \in Columns : x = [s EXCEPT !.gone = @ \union {y}]
  BY <1>5 DEF Workspaces
<1>6. ASSUME NEW v \in Views, x = [s EXCEPT !.views[v].live = FALSE]
      PROVE  x \in Workspaces
  <2>1. x = PutView(s, v, [s.views[v] EXCEPT !.live = FALSE])
    BY <1>6 DEF PutView
  <2> QED
    BY <1>3, <2>1, EntryType, Zenon
<1>7. ASSUME NEW v \in Views, NEW y \in Columns, x = [s EXCEPT !.views[v].group = y]
      PROVE  x \in Workspaces
  <2>1. x = PutView(s, v, [s.views[v] EXCEPT !.group = y])
    BY <1>7 DEF PutView
  <2> QED
    BY <1>3, <2>1, EntryType, Zenon
<1> QED
  BY <1>1, <1>2, <1>5, <1>6, <1>7 DEF Elsewhere, LiveViews, PutTable

\* A call just made.
LEMMA NewCall ==
  ASSUME ops \in Nat, NEW op \in CallOps, NEW id, NEW cfg \in Configs,
         op = "fork" => id \in Views, op \in {"createTable", "importCsv"} => id \in Tables
  PROVE  /\ IsCall(Call(op, id, cfg), ops + 1)
         /\ Call(op, id, cfg).op = op /\ Call(op, id, cfg).state = "sent"
         /\ Call(op, id, cfg).n = ops + 1 /\ Call(op, id, cfg).id = id
         /\ Call(op, id, cfg).cfg = cfg
BY DEF Call, IsCall

\* An answered call.
LEMMA Ended ==
  ASSUME NEW c, NEW k, IsCall(c, k), NEW fate \in {"done", "refused", "failed"}
  PROVE  /\ IsCall([c EXCEPT !.state = fate], k)
         /\ [c EXCEPT !.state = fate].op = c.op
         /\ [c EXCEPT !.state = fate].n = c.n
         /\ [c EXCEPT !.state = fate].state = fate
BY DEF IsCall

\* A move of the page forgets whose a call was and nothing else of it.
LEMMA LeftCalls ==
  ASSUME NEW cs, NEW k, \A c \in cs : IsCall(c, k), NEW r
  PROVE  /\ \A d \in Left(r, cs) :
              IsCall(d, k) /\ \E c \in cs : d.op = c.op /\ d.state = c.state /\ d.n = c.n
         /\ \A c \in cs : \E d \in Left(r, cs) : d.op = c.op /\ d.state = c.state
<1>1. ASSUME NEW c \in cs
      PROVE  /\ IsCall([c EXCEPT !.mine = FALSE], k)
             /\ [c EXCEPT !.mine = FALSE].op = c.op
             /\ [c EXCEPT !.mine = FALSE].state = c.state
             /\ [c EXCEPT !.mine = FALSE].n = c.n
  BY DEF IsCall
<1>2. CASE Stays(r)
  BY <1>2 DEF Left
<1>3. CASE ~Stays(r)
  <2>1. Left(r, cs) = {[c EXCEPT !.mine = FALSE] : c \in cs}
    BY <1>3 DEF Left
  <2> QED
    BY <2>1, <1>1, Zenon
<1> QED
  BY <1>2, <1>3

\* How a call may end.
LEMMA FatesType ==
  ASSUME NEW c
  PROVE  /\ Fates(c) \subseteq {"done", "refused", "failed"}
         /\ ~env.unsealed => Fates(c) \subseteq {"done", "failed"}
         /\ c.op = "renameView" => "failed" \notin Fates(c)
BY DEF Fates, Fails

\* A client that runs a call keeps a well-typed workspace, which a tab reads at once;
\* a failed call changes nothing.
LEMMA RunsTypes ==
  ASSUME StoreTypes, NEW c, NEW k, IsCall(c, k), NEW fate \in Fates(c), Runs(c, fate)
  PROVE  /\ store' \in Workspaces /\ seen' \in Workspaces
         /\ env.host = "tab" => seen' = store'
         /\ fate = "failed" => seen' = seen
         /\ env.host # "tab" => seen' = seen
<1>1. store' \in Workspaces
  BY EffectType, ElsewhereType DEF Runs, StoreTypes
<1> QED
  BY <1>1 DEF Runs, StoreTypes

-----------------------------------------------------------------------------
(* The user asks for something.                                            *)

\* The user asks for c, with cs what is left of the calls under way.
Asked(c, cs) ==
  /\ Begin(c, cs)
  /\ IsCall(c, ops + 1) /\ c.n = ops + 1 /\ c.state = "sent"
  /\ cs \in {calls, Left(route', calls)}
  /\ c.op = "renameView" =>
       /\ dialog.op = "renameView" /\ c.id = dialog.id /\ seen.views[c.id].live
       /\ c.cfg = Renamed(c.cfg.name)
  /\ due' \/ c.op \in RereadOnFailure \/ UNCHANGED <<due, shown, route>>
  /\ c.op = "setTableOrder" => due'
  /\ board' \in {board, NoBoard}

Asks ==
  \/ DeleteView \/ DeleteTable \/ CreateTable \/ ImportCsv \/ CheckIntegrity
  \/ NewView \/ DragTable \/ SaveFilters \/ SaveChanges \/ SaveAs \/ Regroup \/ Settings
  \/ \E name \in Renames : RenameTable(name) \/ (RenameView(name) /\ seen.views[dialog.id].live)

\* The configurations the handlers write.
LEMMA Configurations ==
  ASSUME ShellTypes
  PROVE  /\ NoConfig \in Configs
         /\ \A name \in Names : [NoConfig EXCEPT !.name = name] \in Configs
         /\ \A name \in Names : Payload(name) \in Configs
         /\ \A g \in Columns : [board.cfg EXCEPT !.group = g] \in Configs
         /\ \A name \in Names, g \in Columns :
              [board.cfg EXCEPT !.name = name, !.group = g] \in Configs
         /\ \A v \in Views, g \in Columns \union {None} :
              [name |-> v, filters |-> {}, group |-> g] \in Configs
         /\ \A v \in Views, name \in Names : [Config(seen, v) EXCEPT !.name = name] \in Configs
<1>1. NoConfig \in Configs /\ \A name \in Names : [NoConfig EXCEPT !.name = name] \in Configs
  BY DEF NoConfig, Configs, Names
<1>2. board.cfg \in Configs /\ board.draft \in SUBSET Conditions
  BY DEF ShellTypes, ScreenTypes, Boards
<1>3. \A name \in Names : Payload(name) \in Configs
  BY <1>2 DEF Payload, Configs
<1>4. /\ \A g \in Columns : [board.cfg EXCEPT !.group = g] \in Configs
      /\ \A name \in Names, g \in Columns :
           [board.cfg EXCEPT !.name = name, !.group = g] \in Configs
  BY <1>2 DEF Configs
<1>5. \A v \in Views, g \in Columns \union {None} :
        [name |-> v, filters |-> {}, group |-> g] \in Configs
  BY DEF Configs, Names
<1>6. ASSUME NEW v \in Views, NEW name \in Names
      PROVE  [Config(seen, v) EXCEPT !.name = name] \in Configs
  <2>1. Config(seen, v) \in Configs
    BY ConfigType DEF ShellTypes, StoreTypes
  <2> QED
    BY <2>1 DEF Configs
<1> QED
  BY <1>1, <1>3, <1>4, <1>5, <1>6

\* Whatever the user asks for is a call of its own.
LEMMA UserAsks ==
  ASSUME ShellTypes, Asks
  PROVE  \E c, cs : Asked(c, cs)
<1>n. ops \in Nat /\ Views \subseteq Names /\ Tables \subseteq Names /\ Renames \subseteq Names
  BY DEF ShellTypes, StoreTypes, Names
<1>v. OnBoard => board.on \in Views /\ board.holds \in Views
  BY DEF OnBoard, ShellTypes, ScreenTypes, Boards
<1>1. ASSUME NEW op \in CallOps \ {"renameView", "setTableOrder"}, NEW id, NEW cfg \in Configs, NEW cs,
             op = "fork" => id \in Views, op \in {"createTable", "importCsv"} => id \in Tables,
             Begin(Call(op, id, cfg), cs), cs \in {calls, Left(route', calls)},
             due' \/ op \in RereadOnFailure \/ UNCHANGED <<due, shown, route>>,
             board' \in {board, NoBoard}
      PROVE  Asked(Call(op, id, cfg), cs)
  BY <1>1, <1>n, NewCall DEF Asked
<1>2. CASE DeleteView
  BY <1>2, <1>1, Configurations DEF DeleteView, CallOps, SidebarOps, RereadOnFailure
<1>3. CASE DeleteTable
  BY <1>3, <1>1, Configurations DEF DeleteTable, CallOps, SidebarOps, RereadOnFailure
<1>4. CASE CreateTable
  BY <1>4, <1>1, Configurations DEF CreateTable, CallOps, SidebarOps, page
<1>5. CASE ImportCsv
  BY <1>5, <1>1, Configurations DEF ImportCsv, CallOps, SidebarOps, page
<1>6. CASE CheckIntegrity
  BY <1>6, <1>1, Configurations DEF CheckIntegrity, CallOps, SidebarOps, page
<1>7. CASE NewView
  <2>1. PICK v \in Views, g \in Columns \ seen.gone :
          Begin(Call("newView", v, [name |-> v, filters |-> {},
                                    group |-> IF v \in env.boards THEN g ELSE None]), calls)
    BY <1>7 DEF NewView
  <2> DEFINE cfg == [name |-> v, filters |-> {}, group |-> IF v \in env.boards THEN g ELSE None]
  <2>2. cfg \in Configs
    BY Configurations
  <2>3. UNCHANGED page
    BY <1>7 DEF NewView
  <2> HIDE DEF cfg
  <2>4. Begin(Call("newView", v, cfg), calls)
    BY <2>1 DEF cfg
  <2> QED
    BY <2>2, <2>3, <2>4, <1>1 DEF CallOps, ViewWrites, page
<1>8. CASE SaveFilters
  <2>1. Payload(board.cfg.name) \in Configs
    BY Configurations DEF ShellTypes, ScreenTypes, Boards, Configs
  <2> QED
    BY <1>8, <2>1, <1>1 DEF SaveFilters, CallOps, ViewWrites, page
<1>9. CASE SaveChanges
  <2>1. Payload(board.cfg.name) \in Configs
    BY Configurations DEF ShellTypes, ScreenTypes, Boards, Configs
  <2> QED
    BY <1>9, <2>1, <1>1 DEF SaveChanges, CallOps, ViewWrites, page
<1>10. CASE SaveAs
  BY <1>10, <1>1, <1>n, Configurations DEF SaveAs, CallOps, ViewWrites, page
<1>11. CASE Regroup
  <2>1. PICK g \in Columns : Begin(Call("regroup", board.on, [board.cfg EXCEPT !.group = g]), calls)
    BY <1>11 DEF Regroup
  <2> DEFINE cfg == [board.cfg EXCEPT !.group = g]
  <2>2. cfg \in Configs
    BY Configurations, Zenon
  <2>3. UNCHANGED page
    BY <1>11 DEF Regroup
  <2>4. Begin(Call("regroup", board.on, cfg), calls)
    BY <2>1
  <2> HIDE DEF cfg
  <2> QED
    BY <2>2, <2>3, <2>4, <1>1 DEF CallOps, ViewWrites, page
<1>12. CASE Settings
  <2>1. PICK name \in Renames, g \in Columns :
          Begin(Call("settings", board.on, [board.cfg EXCEPT !.name = name, !.group = g]), calls)
    BY <1>12 DEF Settings
  <2> DEFINE cfg == [board.cfg EXCEPT !.name = name, !.group = g]
  <2>2. cfg \in Configs
    BY <1>n, Configurations, Zenon
  <2>3. UNCHANGED page
    BY <1>12 DEF Settings
  <2>4. Begin(Call("settings", board.on, cfg), calls)
    BY <2>1
  <2> HIDE DEF cfg
  <2> QED
    BY <2>2, <2>3, <2>4, <1>1 DEF CallOps, ViewWrites, page
<1>13. ASSUME NEW name \in Renames, RenameTable(name)
       PROVE  \E c, cs : Asked(c, cs)
  BY <1>13, <1>1, <1>n, Configurations DEF RenameTable, CallOps, SidebarOps
<1>14. ASSUME NEW name \in Renames, RenameView(name), seen.views[dialog.id].live
       PROVE  \E c, cs : Asked(c, cs)
  <2> DEFINE cfg == Renamed(name)
  <2>1. dialog.op = "renameView" /\ dialog.id \in Views
    BY <1>14 DEF RenameView, ShellTypes, ScreenTypes
  <2>2. cfg \in Configs
    BY <1>14, <1>n, <2>1, Configurations DEF Renamed
  <2>3. cfg.name = name
    <3>1. Config(seen, dialog.id) \in Configs
      BY <2>1, ConfigType DEF ShellTypes, StoreTypes
    <3> QED
      BY <3>1 DEF Renamed, Configs
  <2>4. /\ Begin(Call("renameView", dialog.id, cfg), calls)
        /\ UNCHANGED <<due, shown, route>> /\ board' = board
    BY <1>14 DEF RenameView
  <2>5. cfg = Renamed(cfg.name)
    BY <2>3
  <2> HIDE DEF cfg
  <2> DEFINE c == Call("renameView", dialog.id, cfg)
  <2>6. /\ IsCall(c, ops + 1) /\ c.n = ops + 1 /\ c.state = "sent" /\ c.op = "renameView"
        /\ c.id = dialog.id /\ c.cfg = cfg
    BY <1>n, <2>1, <2>2, NewCall DEF CallOps, SidebarOps
  <2>7. Begin(c, calls)
    BY <2>4
  <2> HIDE DEF c
  <2>8. seen.views[c.id].live
    BY <1>14, <2>6
  <2>9. Asked(c, calls)
    BY <2>1, <2>4, <2>5, <2>6, <2>7, <2>8 DEF Asked
  <2> QED
    BY <2>9
<1>15. CASE DragTable
  <2>1. PICK p \in Orders :
          Begin([Call("setTableOrder", None, NoConfig) EXCEPT !.order = p], calls)
    BY <1>15 DEF DragTable
  <2> DEFINE c == [Call("setTableOrder", None, NoConfig) EXCEPT !.order = p]
  <2>2. IsCall(c, ops + 1) /\ c.op = "setTableOrder" /\ c.state = "sent" /\ c.n = ops + 1
    <3>1. IsCall(Call("setTableOrder", None, NoConfig), ops + 1)
      BY <1>n, Configurations, NewCall DEF CallOps
    <3> QED
      BY <3>1 DEF Call, IsCall
  <2>3. due' /\ board' = board
    BY <1>15 DEF DragTable
  <2> HIDE DEF c
  <2>4. Begin(c, calls)
    BY <2>1 DEF c
  <2>5. Asked(c, calls)
    BY <2>2, <2>3, <2>4 DEF Asked
  <2> QED
    BY <2>5
<1> QED
  BY <1>2, <1>3, <1>4, <1>5, <1>6, <1>7, <1>8, <1>9, <1>10, <1>11, <1>12, <1>13, <1>14,
     <1>15 DEF Asks

\* What the user's asking does to the stores and the calls under way. A tab's own
\* store that changed has had the call it changed for run.
LEMMA AskedStep ==
  ASSUME ShellTypes, TabSettlesAtOnce, NEW c, NEW cs, Asked(c, cs)
  PROVE  /\ StoreTypes' /\ CallTypes' /\ TabSettlesAtOnce'
         /\ env' = env /\ ops' = ops + 1
         /\ \A d \in calls : \E e \in calls' : e.op = d.op /\ e.state = d.state
         /\ \E d \in calls' : d.op = c.op
         /\ \A d \in calls' : d.n = ops' => d.op = c.op /\ d.id = c.id /\ d.cfg = c.cfg
         /\ ~(env.host = "tab" /\ env.unsealed) =>
              seen' = seen \/ \E d \in calls' : d.op = c.op /\ d.state = "done"
         /\ c.op = "renameView" /\ env.host = "tab" => store' = Effect(store, c)
<1> USE DEF ShellTypes
<1>n. ops \in Nat /\ env \in Envs
  BY DEF StoreTypes
<1>c. IsCall(c, ops + 1) /\ c.n = ops + 1 /\ c.state = "sent"
  BY DEF Asked
<1>1. /\ \A d \in cs : IsCall(d, ops)
      /\ \A d \in cs : \E e \in calls : d.op = e.op /\ d.state = e.state
      /\ \A d \in calls : \E e \in cs : e.op = d.op /\ e.state = d.state
  <2>1. \A d \in calls : IsCall(d, ops)
    BY DEF CallTypes
  <2>2. CASE cs = calls
    BY <2>1, <2>2
  <2>3. CASE cs = Left(route', calls)
    BY <2>1, <2>3, LeftCalls
  <2> QED
    BY <2>2, <2>3 DEF Asked
<1>2. env' = env /\ ops' = ops + 1
  BY DEF Asked, Begin
<1>3. \A d \in cs : IsCall(d, ops') /\ d.n # ops'
  BY <1>1, <1>2, <1>n DEF IsCall
<1>4. ASSUME NEW e, calls' = cs \union {e}, IsCall(e, ops'), e.op = c.op, e.id = c.id, e.cfg = c.cfg,
             env.host = "tab" /\ e.state = "sent" => e.op = "checkIntegrity"
      PROVE  /\ CallTypes' /\ TabSettlesAtOnce'
             /\ \A d \in calls : \E x \in calls' : x.op = d.op /\ x.state = d.state
             /\ \E d \in calls' : d.op = c.op
             /\ \A d \in calls' : d.n = ops' => d.op = c.op /\ d.id = c.id /\ d.cfg = c.cfg
  <2>1. CallTypes'
    BY <1>3, <1>4 DEF CallTypes
  <2>2. TabSettlesAtOnce'
    BY <1>1, <1>2, <1>4 DEF TabSettlesAtOnce
  <2> QED
    BY <2>1, <2>2, <1>1, <1>3, <1>4
<1>5. CASE env.host = "tab" /\ c.op # "checkIntegrity"
  <2>1. PICK fate \in Fates(c) : Runs(c, fate) /\ calls' = cs \union {[c EXCEPT !.state = fate]}
    BY <1>5 DEF Asked, Begin
  <2> DEFINE e == [c EXCEPT !.state = fate]
  <2>2. fate \in {"done", "refused", "failed"}
    BY <2>1, FatesType
  <2>3. /\ IsCall(e, ops') /\ e.op = c.op /\ e.state = fate
        /\ e.id = c.id /\ e.cfg = c.cfg
    BY <1>c, <1>2, <2>2 DEF IsCall
  <2>4. calls' = cs \union {e}
    BY <2>1
  <2> HIDE DEF e
  <2>5. StoreTypes'
    BY <2>1, <1>c, <1>2, <1>n, RunsTypes DEF StoreTypes
  <2>6. ~env.unsealed => seen' = seen \/ fate = "done"
    BY <2>1, <1>c, <1>5, FatesType, RunsTypes
  <2>7. c.op = "renameView" => store' = Effect(store, c)
    BY <2>1, <1>5, FatesType DEF Runs
  <2> QED
    BY <1>2, <1>4, <1>5, <2>2, <2>3, <2>4, <2>5, <2>6, <2>7
<1>6. CASE ~(env.host = "tab" /\ c.op # "checkIntegrity")
  <2>1. calls' = cs \union {c} /\ UNCHANGED workspace
    BY <1>6 DEF Asked, Begin
  <2>2. StoreTypes'
    BY <1>2, <1>n, <2>1 DEF StoreTypes, workspace
  <2> QED
    BY <1>2, <1>4, <1>6, <1>c, <2>1, <2>2 DEF workspace
<1> QED
  BY <1>5, <1>6

\* The steps that only take calls away, or forget whose they were.
LEMMA CallsLeft ==
  ASSUME ShellTypes, TabSettlesAtOnce, env' = env, ops' = ops,
         NEW cs \in SUBSET calls, NEW r, calls' \in {cs, Left(r, cs)}
  PROVE  /\ CallTypes' /\ TabSettlesAtOnce'
         /\ \A d \in cs : \E e \in calls' : e.op = d.op /\ e.state = d.state
<1>1. \A d \in cs : IsCall(d, ops)
  BY DEF ShellTypes, CallTypes
<1>2. /\ \A d \in calls' : IsCall(d, ops) /\ \E e \in cs : d.op = e.op /\ d.state = e.state
      /\ \A d \in cs : \E e \in calls' : e.op = d.op /\ e.state = d.state
  <2>1. CASE calls' = cs
    BY <1>1, <2>1
  <2>2. CASE calls' = Left(r, cs)
    BY <1>1, <2>2, LeftCalls
  <2> QED
    BY <2>1, <2>2
<1> QED
  BY <1>2 DEF CallTypes, TabSettlesAtOnce

\* The client runs a call under way.
LEMMA RunStep ==
  ASSUME ShellTypes, TabSettlesAtOnce, NEW c \in calls, Run(c)
  PROVE  /\ StoreTypes' /\ CallTypes' /\ TabSettlesAtOnce' /\ env' = env /\ UNCHANGED page
         /\ \A d \in calls \ {c} : d \in calls'
         /\ \E e \in calls' : e.op = c.op /\ (seen' # seen => e.op = "checkIntegrity" /\ e.state = "done")
<1> USE DEF ShellTypes
<1>1. PICK fate \in Fates(c) :
        Runs(c, fate) /\ calls' = (calls \ {c}) \union {[c EXCEPT !.state = fate]}
  BY DEF Run
<1> DEFINE e == [c EXCEPT !.state = fate]
<1>2. fate \in {"done", "refused", "failed"} /\ c.state = "sent" /\ UNCHANGED <<env, page, ops>>
  BY <1>1, FatesType DEF Run
<1>3. IsCall(c, ops)
  BY DEF CallTypes
<1>4. IsCall(e, ops) /\ e.op = c.op /\ e.state = fate
  BY <1>2, <1>3 DEF IsCall
<1>5. calls' = (calls \ {c}) \union {e}
  BY <1>1
<1> HIDE DEF e
<1>6. CallTypes' /\ TabSettlesAtOnce'
  BY <1>2, <1>4, <1>5 DEF CallTypes, TabSettlesAtOnce
<1>7. StoreTypes'
  BY <1>1, <1>2, <1>3, RunsTypes DEF StoreTypes
<1>8. seen' # seen => c.op = "checkIntegrity" /\ fate = "done"
  <2>1. SUFFICES ASSUME seen' # seen
                 PROVE  c.op = "checkIntegrity" /\ fate = "done"
    OBVIOUS
  <2>2. env.host = "tab" /\ fate # "failed"
    BY <1>1, <1>3, <2>1, RunsTypes
  <2>3. c.op = "checkIntegrity"
    BY <1>2, <2>2 DEF TabSettlesAtOnce
  <2> QED
    BY <1>1, <2>2, <2>3 DEF Fates
<1> QED
  BY <1>2, <1>4, <1>5, <1>6, <1>7, <1>8 DEF page

\* handleRenameView finds the view gone.
RenameGone == \E name \in Renames : RenameView(name) /\ ~seen.views[dialog.id].live

Drafts == OnBoard /\ \E f \in SUBSET Conditions : SetDraft(f)

\* The steps, sorted by what they do to the calls under way.
LEMMA Steps ==
  ASSUME ShellTypes, CatalogueNext
  PROVE  \/ GiveUp \/ Ask \/ Dismiss \/ Drafts
         \/ RunEffects \/ Navigate \/ RenameGone
         \/ Push \/ Arrive \/ Asks
         \/ \E c \in calls : Run(c) \/ Answer(c)
<1>1. board \in Boards /\ seen \in Workspaces
  BY DEF ShellTypes, ScreenTypes, StoreTypes
<1>2. EditFilters => Drafts
  BY DEF EditFilters, Drafts, Filters
<1>3. ResetBoard => Drafts
  BY <1>1 DEF ResetBoard, OnLanes, Drafts, Boards, Configs
<1>4. ResetGrid => Drafts
  <2>1. OnBoard => seen.views[board.holds].filters \in SUBSET Conditions
    BY <1>1 DEF OnBoard, Boards, Workspaces
  <2> QED
    BY <2>1 DEF ResetGrid, OnGrid, Drafts
<1> QED
  BY <1>2, <1>3, <1>4 DEF CatalogueNext, User, Asks, RenameGone

-----------------------------------------------------------------------------
(* What every step keeps.                                                  *)

\* The stores and the calls stay well typed, a tab reads its own store, and nothing
\* but an integrity check waits in it.
LEMMA StoresStep ==
  ASSUME ShellTypes, TabSettlesAtOnce, [CatalogueNext]_catalogueVars
  PROVE  StoreTypes' /\ CallTypes' /\ TabSettlesAtOnce'
<1>s. StoreTypes
  BY DEF ShellTypes
<1>k. ASSUME UNCHANGED <<env, store, seen, ops>> PROVE StoreTypes'
  BY <1>k, <1>s DEF StoreTypes
<1>1. CASE UNCHANGED catalogueVars
  BY <1>1 DEF ShellTypes, StoreTypes, CallTypes, TabSettlesAtOnce, catalogueVars
<1>2. CASE GiveUp \/ Ask \/ Dismiss \/ Drafts
  <2>1. UNCHANGED <<env, store, seen, ops, calls>>
    BY <1>2 DEF GiveUp, Ask, Dismiss, Drafts, SetDraft, workspace
  <2> QED
    BY <2>1, <1>k DEF ShellTypes, CallTypes, TabSettlesAtOnce
<1>3. CASE RunEffects \/ Navigate \/ RenameGone
  <2>1. UNCHANGED <<env, store, seen, ops>> /\ \E r : calls' = Left(r, calls)
    BY <1>3 DEF RunEffects, Navigate, RenameGone, RenameView, Refresh, workspace
  <2> QED
    BY <2>1, <1>k, CallsLeft
<1>4. CASE Push
  <2>1. UNCHANGED <<env, store, ops, calls>> /\ seen' = store
    BY <1>4 DEF Push
  <2> QED
    BY <2>1, <1>s DEF ShellTypes, StoreTypes, CallTypes, TabSettlesAtOnce
<1>5. CASE Arrive
  <2>1. /\ UNCHANGED <<env, ops, calls>> /\ store' \in Elsewhere(store)
        /\ seen' = IF env.host = "tab" THEN store' ELSE seen
    BY <1>5 DEF Arrive
  <2>2. store' \in Workspaces
    BY <2>1, <1>s, ElsewhereType DEF StoreTypes
  <2> QED
    BY <2>1, <2>2, <1>s DEF ShellTypes, StoreTypes, CallTypes, TabSettlesAtOnce
<1>6. CASE Asks
  BY <1>6, UserAsks, AskedStep
<1>7. ASSUME NEW c \in calls, Run(c) PROVE StoreTypes' /\ CallTypes' /\ TabSettlesAtOnce'
  BY <1>7, RunStep
<1>8. ASSUME NEW c \in calls, Answer(c) PROVE StoreTypes' /\ CallTypes' /\ TabSettlesAtOnce'
  <2>1. /\ UNCHANGED <<env, store, ops>> /\ seen' \in {seen, Answered(c)}
        /\ \E r : calls' \in {calls \ {c}, Left(r, calls \ {c})}
    BY <1>8 DEF Answer, SidebarDone, SidebarFailed, OrderDone, BoardDone, ForkDone, BoardFailed,
                Refresh, workspace
  <2>2. StoreTypes'
    BY <2>1, <1>s DEF StoreTypes, Answered
  <2> QED
    BY <2>1, <2>2, CallsLeft
<1> QED
  BY <1>1, <1>2, <1>3, <1>4, <1>5, <1>6, <1>7, <1>8, Steps

\* What the sidebar may list.
LEMMA ListingType ==
  ASSUME NEW s \in Workspaces
  PROVE  Listing(s) \in [tables : {Listing(s).tables}, views : SUBSET ListedViews]
BY DEF Listing, ListedViews, LiveViews, Workspaces

\* The page of a view that is opened, and what is left of the one on screen.
LEMMA BoardType ==
  ASSUME ShellTypes
  PROVE  /\ NoBoard \in Boards /\ NoBoard.on = None /\ NoBoard.draft = {}
         /\ route.page = "view" => Loaded \in Boards /\ Loaded.on = route.view
         /\ route.page # "view" => Loaded = NoBoard
         /\ \A f \in SUBSET Conditions :
              /\ [board EXCEPT !.draft = f] \in Boards
              /\ [board EXCEPT !.draft = f].on = board.on
<1>1. NoBoard \in Boards /\ NoBoard.on = None /\ NoBoard.draft = {}
  BY DEF NoBoard, NoConfig, Boards, Configs, Names
<1>2. board \in Boards /\ seen \in Workspaces
  BY DEF ShellTypes, ScreenTypes, StoreTypes
<1>3. ASSUME NEW v \in Views PROVE Opened(v) \in Boards /\ Opened(v).on = v
  <2>1. Config(seen, v) \in Configs
    BY <1>2, ConfigType
  <2>2. Unreadable(v) \in Boards /\ Unreadable(v).on = v
    BY <1>2 DEF Unreadable, Boards
  <2> QED
    BY <2>1, <2>2 DEF Opened, Boards, Configs
<1>4. ASSUME route.page = "view" PROVE Loaded \in Boards /\ Loaded.on = route.view
  <2>1. route.view \in Views
    BY <1>4 DEF ShellTypes, ScreenTypes
  <2> DEFINE b == IF board.on = route.view THEN board ELSE Opened(route.view)
  <2>2. b \in Boards /\ b.on = route.view
    BY <2>1, <1>2, <1>3
  <2>3. seen.gone \in SUBSET Columns
    BY <1>2 DEF Workspaces
  <2>4. Loaded = [b EXCEPT !.gone = seen.gone]
    BY <1>4 DEF Loaded
  <2> HIDE DEF b
  <2> QED
    BY <2>2, <2>3, <2>4 DEF Boards
<1>5. route.page # "view" => Loaded = NoBoard
  BY DEF Loaded
<1>6. \A f \in SUBSET Conditions :
        [board EXCEPT !.draft = f] \in Boards /\ [board EXCEPT !.draft = f].on = board.on
  BY <1>2 DEF Boards
<1> QED
  BY <1>1, <1>4, <1>5, <1>6

\* Where the page may go.
LEMMA Pages ==
  ASSUME ShellTypes
  PROVE  /\ \A t : TablePage(t).page # "view"
         /\ \A v \in Views : ViewPage(v).view \in Views
         /\ \A h : Home(h).page # "view"
         /\ \A s : Refreshed(s).page = "view" => Refreshed(s).view \in Views
BY DEF TablePage, ViewPage, Home, Refreshed, ShellTypes, ScreenTypes

\* The screen stays well typed.
LEMMA ScreenStep ==
  ASSUME ShellTypes, [CatalogueNext]_catalogueVars
  PROVE  ScreenTypes'
<1>s. /\ shown \in [tables : {shown.tables}, views : SUBSET ListedViews]
      /\ route.page = "view" => route.view \in Views
      /\ dialog.op \in {"renameView", "deleteView"} => dialog.id \in Views
      /\ board \in Boards /\ (board.on = None => board.draft = {})
      /\ seen \in Workspaces /\ store \in Workspaces
  BY DEF ShellTypes, ScreenTypes, StoreTypes
<1>d. NoDialog.op = None /\ None \notin {"renameView", "deleteView"}
  BY DEF NoDialog, None
<1>b. ASSUME board' \in {board, NoBoard}
      PROVE  board' \in Boards /\ (board'.on = None => board'.draft = {})
  BY <1>b, <1>s, BoardType
<1>l. \A s \in Workspaces : shown' = Listing(s) =>
        shown' \in [tables : {shown'.tables}, views : SUBSET ListedViews]
  BY ListingType
<1>1. CASE UNCHANGED page
  BY <1>1, <1>s DEF page, ScreenTypes
<1>2. CASE UNCHANGED <<shown, route, board>> /\ dialog' = NoDialog
  BY <1>2, <1>s, <1>d DEF ScreenTypes
<1>3. CASE GiveUp
  BY <1>3, <1>s DEF GiveUp, ScreenTypes
<1>4. CASE Ask
  BY <1>4, <1>s DEF Ask, ScreenTypes, ListedViews
<1>5. CASE Drafts
  <2>1. PICK f \in SUBSET Conditions : SetDraft(f)
    BY <1>5 DEF Drafts
  <2>2. board.on # None
    BY <1>5, <1>s, CatalogueAssumption DEF Drafts, OnBoard
  <2>3. board' \in Boards /\ board'.on # None
    BY <2>1, <2>2, BoardType DEF SetDraft
  <2> QED
    BY <2>1, <2>3, <1>s DEF SetDraft, ScreenTypes
<1>6. CASE RunEffects
  <2>1. shown' = Listing(seen) /\ dialog' = dialog
    BY <1>6 DEF RunEffects
  <2>2. route'.page = "view" => route'.view \in Views
    BY <1>6, Pages DEF RunEffects, MoveTo
  <2>3. board' \in {Loaded, NoBoard}
    BY <1>6 DEF RunEffects
  <2>4. board' \in Boards /\ (board'.on = None => board'.draft = {})
    BY <2>3, <1>s, BoardType, CatalogueAssumption
  <2> QED
    BY <2>1, <2>2, <2>4, <1>s, <1>l DEF ScreenTypes
<1>7. CASE Navigate
  <2>1. UNCHANGED <<shown, dialog>> /\ board' \in {board, NoBoard}
    BY <1>7 DEF Navigate
  <2>2. route'.page = "view" => route'.view \in Views
    BY <1>7, <1>s, Pages DEF Navigate, MoveTo, ListedViews
  <2> QED
    BY <2>1, <2>2, <1>b, <1>s DEF ScreenTypes
<1>8. CASE RenameGone
  <2>1. Refresh(seen, route, calls) /\ dialog' = NoDialog
    BY <1>8 DEF RenameGone, RenameView
  <2>2. route'.page = "view" => route'.view \in Views
    BY <2>1, Pages DEF Refresh, MoveTo
  <2>3. shown' = Listing(seen) /\ board' \in {board, NoBoard}
    BY <2>1 DEF Refresh
  <2> QED
    BY <2>1, <2>2, <2>3, <1>b, <1>d, <1>l, <1>s DEF ScreenTypes
<1>9. CASE Push \/ Arrive
  BY <1>9, <1>s DEF Push, Arrive, ScreenTypes
<1>10. CASE DeleteView
  <2>1. /\ shown' = [shown EXCEPT !.views = {v \in @ : v.id # dialog.id}]
        /\ dialog' = NoDialog /\ board' \in {board, NoBoard}
    BY <1>10 DEF DeleteView
  <2>2. route'.page = "view" => route'.view \in Views
    BY <1>10, <1>s, Pages DEF DeleteView, MoveTo
  <2>3. shown' \in [tables : {shown'.tables}, views : SUBSET ListedViews]
    BY <2>1, <1>s
  <2> QED
    BY <2>1, <2>2, <2>3, <1>b, <1>d DEF ScreenTypes
<1>11. CASE DeleteTable
  <2>1. /\ \E x : shown' = [shown EXCEPT !.tables = x]
        /\ dialog' = NoDialog /\ board' \in {board, NoBoard}
    BY <1>11 DEF DeleteTable
  <2>2. route'.page = "view" => route'.view \in Views
    BY <1>11, <1>s, Pages DEF DeleteTable, MoveTo
  <2>3. shown' \in [tables : {shown'.tables}, views : SUBSET ListedViews]
    BY <2>1, <1>s
  <2> QED
    BY <2>1, <2>2, <2>3, <1>b, <1>d DEF ScreenTypes
<1>12. CASE DragTable
  <2>1. (\E x : shown' = [shown EXCEPT !.tables = x]) /\ UNCHANGED <<route, board, dialog>>
    BY <1>12 DEF DragTable
  <2>2. shown' \in [tables : {shown'.tables}, views : SUBSET ListedViews]
    BY <2>1, <1>s
  <2> QED
    BY <2>1, <2>2, <1>s DEF ScreenTypes
<1>13. CASE Asks
  <2>1. CASE \E name \in Renames :
               RenameTable(name) \/ (RenameView(name) /\ seen.views[dialog.id].live)
    BY <2>1, <1>2 DEF RenameTable, RenameView
  <2>2. CASE CreateTable \/ ImportCsv \/ CheckIntegrity \/ NewView \/ SaveFilters
             \/ SaveChanges \/ SaveAs \/ Regroup \/ Settings
    BY <2>2, <1>1 DEF CreateTable, ImportCsv, CheckIntegrity, NewView, SaveFilters, SaveChanges,
                      SaveAs, Regroup, Settings
  <2> QED
    BY <1>13, <2>1, <2>2, <1>10, <1>11, <1>12 DEF Asks
<1>14. ASSUME NEW c \in calls, Run(c) PROVE ScreenTypes'
  BY <1>14, <1>1 DEF Run
<1>15. ASSUME NEW c \in calls, Answer(c) PROVE ScreenTypes'
  <2>a. Answered(c) \in Workspaces
    BY <1>s DEF Answered
  <2>c. c.op = "fork" => c.id \in Views
    BY DEF ShellTypes, CallTypes, IsCall
  <2>e. env.boards \subseteq Views
    BY CatalogueAssumption DEF ShellTypes, StoreTypes
  <2>1. CASE SidebarDone(c)
    <3>1. Refresh(Answered(c), Destination(c), calls \ {c}) /\ dialog' = dialog
      BY <2>1 DEF SidebarDone
    <3>2. Destination(c).page = "view" => Destination(c).view \in Views
      BY <2>e, <1>s, Pages DEF Destination
    <3>3. route'.page = "view" => route'.view \in Views
      BY <3>1, <3>2, Pages DEF Refresh, MoveTo
    <3>4. shown' = Listing(Answered(c)) /\ board' \in {board, NoBoard}
      BY <3>1 DEF Refresh
    <3> QED
      BY <3>1, <3>3, <3>4, <2>a, <1>b, <1>l, <1>s DEF ScreenTypes
  <2>2. CASE SidebarFailed(c)
    <3>1. CASE Refresh(seen, route, calls \ {c})
      <4>1. route'.page = "view" => route'.view \in Views
        BY <3>1, Pages DEF Refresh, MoveTo
      <4>2. shown' = Listing(seen) /\ board' \in {board, NoBoard}
        BY <3>1 DEF Refresh
      <4> QED
        BY <2>2, <4>1, <4>2, <1>b, <1>l, <1>s DEF SidebarFailed, ScreenTypes
    <3>2. CASE UNCHANGED <<shown, route, board>>
      BY <2>2, <3>2, <1>s DEF SidebarFailed, ScreenTypes
    <3> QED
      BY <2>2, <3>1, <3>2 DEF SidebarFailed
  <2>3. CASE OrderDone(c)
    BY <2>3, <1>s DEF OrderDone, ScreenTypes
  <2>4. CASE BoardDone(c)
    <3>1. UNCHANGED <<shown, route, dialog>>
      BY <2>4 DEF BoardDone
    <3>2. \/ board' = board
          \/ c.id \in Views /\ board' = [board EXCEPT !.holds = c.id, !.cfg = Config(Answered(c), c.id)]
      BY <2>4, <2>e DEF BoardDone
    <3>3. c.id \in Views => Config(Answered(c), c.id) \in Configs
      BY <2>a, ConfigType
    <3>4. board' \in Boards /\ board'.on = board.on /\ board'.draft = board.draft
      BY <3>2, <3>3, <1>s DEF Boards
    <3> QED
      BY <3>1, <3>4, <1>s DEF ScreenTypes
  <2>5. CASE ForkDone(c)
    <3>1. UNCHANGED <<shown, dialog>> /\ board' \in {board, NoBoard}
      BY <2>5 DEF ForkDone
    <3>2. route'.page = "view" => route'.view \in Views
      BY <2>5, <2>c, Pages DEF ForkDone, MoveTo
    <3> QED
      BY <3>1, <3>2, <1>b, <1>s DEF ScreenTypes
  <2>6. CASE BoardFailed(c)
    BY <2>6, <1>1 DEF BoardFailed
  <2> QED
    BY <1>15, <2>1, <2>2, <2>3, <2>4, <2>5, <2>6 DEF Answer
<1>16. CASE UNCHANGED catalogueVars
  BY <1>16, <1>s DEF catalogueVars, ScreenTypes
<1>17. CASE Dismiss
  BY <1>17, <1>2 DEF Dismiss
<1> QED
  BY <1>3, <1>4, <1>5, <1>6, <1>7, <1>8, <1>9, <1>13, <1>14, <1>15, <1>16, <1>17, Steps

\* Reading the lists again settles them, unless the page has moved.
LEMMA RefreshSettles ==
  ASSUME NEW cs, Refresh(seen, route, cs), seen' = seen, route' = route
  PROVE  Settled'
<1>1. shown' = Listing(seen)
  BY DEF Refresh
<1>2. Refreshed(seen) = route
  BY DEF Refresh, MoveTo
<1>3. route.table # None => seen.tables[route.table].live
  BY <1>2 DEF Refreshed, Home
<1>4. Listing(seen)' = Listing(seen)
  OBVIOUS
<1> QED
  BY <1>1, <1>3, <1>4 DEF Settled

\* While the sidebar or the page is behind what the tab reads, it is about to be
\* brought up to it.
LEMMA RereadStep ==
  ASSUME ShellTypes, TabSettlesAtOnce, RereadDue, [CatalogueNext]_catalogueVars
  PROVE  RereadDue'
<1> SUFFICES ASSUME ~(env.host = "tab" /\ env.unsealed)', ~due'
             PROVE  Settled' \/ \E c \in calls' : Rereads(c)
  BY DEF RereadDue
<1>k. ASSUME UNCHANGED <<env, seen, shown, route>>, due => due',
             \A c \in calls : Rereads(c) => \E d \in calls' : d.op = c.op /\ d.state = c.state
      PROVE  Settled' \/ \E c \in calls' : Rereads(c)
  <2>1. CASE Settled
    <3>1. Listing(seen)' = Listing(seen)
      BY <1>k
    <3> QED
      BY <2>1, <3>1, <1>k DEF Settled
  <2>2. ASSUME NEW c \in calls, Rereads(c) PROVE \E d \in calls' : Rereads(d)
    BY <1>k, <2>2 DEF Rereads
  <2> QED
    BY <1>k, <2>1, <2>2 DEF RereadDue
<1>1. CASE UNCHANGED catalogueVars
  BY <1>1, <1>k DEF catalogueVars
<1>2. CASE GiveUp \/ Ask \/ Dismiss \/ Drafts
  BY <1>2, <1>k DEF GiveUp, Ask, Dismiss, Drafts, SetDraft, workspace
<1>3. CASE RunEffects
  <2>1. /\ route' = route /\ seen' = seen /\ shown' = Listing(seen)
        /\ route' = IF Promising /\ LiveTables(seen) # << >> THEN TablePage(LiveTables(seen)[1])
                    ELSE Refreshed(seen)
    BY <1>3 DEF RunEffects, MoveTo, workspace
  <2>2. route.table # None => seen.tables[route.table].live
    BY <2>1 DEF Promising, TablePage, Refreshed, Home
  <2>3. Listing(seen)' = Listing(seen)
    BY <2>1
  <2> QED
    BY <2>1, <2>2, <2>3 DEF Settled
<1>4. CASE Navigate
  BY <1>4 DEF Navigate
<1>5. CASE RenameGone
  <2>1. Refresh(seen, route, calls) /\ route' = route /\ seen' = seen
    BY <1>5 DEF RenameGone, RenameView, workspace
  <2> QED
    BY <2>1, RefreshSettles
<1>6. CASE Push
  BY <1>6 DEF Push
<1>7. CASE Arrive
  BY <1>7, <1>k DEF Arrive
<1>8. CASE Asks
  <2>1. PICK c, cs : Asked(c, cs)
    BY <1>8, UserAsks
  <2>2. /\ env' = env
        /\ \A d \in calls : \E e \in calls' : e.op = d.op /\ e.state = d.state
        /\ \E d \in calls' : d.op = c.op
        /\ seen' = seen \/ \E d \in calls' : d.op = c.op /\ d.state = "done"
    BY <2>1, AskedStep
  <2>3. CASE c.op \in RereadOnFailure
    BY <2>2, <2>3 DEF Rereads
  <2>4. CASE UNCHANGED <<due, shown, route>> /\ seen' = seen
    BY <2>2, <2>4, <1>k
  <2>5. CASE c.op # "setTableOrder" /\ seen' # seen
    BY <2>2, <2>5 DEF Rereads
  <2> QED
    BY <2>1, <2>3, <2>4, <2>5 DEF Asked
<1>9. ASSUME NEW c \in calls, Run(c)
      PROVE  Settled' \/ \E d \in calls' : Rereads(d)
  <2>1. /\ env' = env /\ UNCHANGED page
        /\ \A d \in calls \ {c} : d \in calls'
    BY <1>9, RunStep
  <2>2. PICK e \in calls' :
          e.op = c.op /\ (seen' # seen => e.op = "checkIntegrity" /\ e.state = "done")
    BY <1>9, RunStep
  <2>3. c.state = "sent"
    BY <1>9 DEF Run
  <2>4. CASE seen' = seen
    <3>1. CASE c.op \in RereadOnFailure
      BY <2>2, <3>1 DEF Rereads
    <3>2. CASE c.op \notin RereadOnFailure
      <4>1. ~Rereads(c)
        BY <2>3, <3>2 DEF Rereads
      <4>2. \A d \in calls : Rereads(d) => \E x \in calls' : x.op = d.op /\ x.state = d.state
        BY <2>1, <4>1
      <4> QED
        BY <2>1, <2>4, <4>2, <1>k DEF page
    <3> QED
      BY <3>1, <3>2
  <2>5. CASE seen' # seen
    BY <2>2, <2>5 DEF Rereads
  <2> QED
    BY <2>4, <2>5
<1>10. ASSUME NEW c \in calls, Answer(c)
       PROVE  Settled' \/ \E d \in calls' : Rereads(d)
  <2>1. CASE SidebarDone(c) \/ BoardDone(c) \/ ForkDone(c)
    BY <2>1 DEF SidebarDone, BoardDone, ForkDone
  <2>2. CASE SidebarFailed(c) /\ Refresh(seen, route, calls \ {c})
    <3>1. route' = route /\ seen' = seen
      BY <2>2 DEF SidebarFailed, workspace
    <3> QED
      BY <2>2, <3>1, RefreshSettles
  <2>3. CASE OrderDone(c) \/ BoardFailed(c) \/ (SidebarFailed(c) /\ c.op \notin RereadOnFailure)
    <3>1. ~Rereads(c)
      BY <2>3 DEF OrderDone, BoardFailed, SidebarFailed, Rereads, RereadOnFailure
    <3>2. UNCHANGED <<env, shown, route>> /\ (due => due') /\ calls' = calls \ {c}
      <4>1. OrderDone(c) =>
              UNCHANGED <<env, shown, route>> /\ (due => due') /\ calls' = calls \ {c}
        BY Zenon DEF OrderDone
      <4>2. BoardFailed(c) =>
              UNCHANGED <<env, shown, route>> /\ (due => due') /\ calls' = calls \ {c}
        BY DEF BoardFailed, page
      <4>3. SidebarFailed(c) /\ c.op \notin RereadOnFailure =>
              UNCHANGED <<env, shown, route>> /\ (due => due') /\ calls' = calls \ {c}
        BY Zenon DEF SidebarFailed
      <4> QED
        BY <2>3, <4>1, <4>2, <4>3
    <3>3. seen' = seen
      <4>1. env.host \in Hosts /\ (env.host = "tab" => seen = store)
        BY CatalogueAssumption DEF ShellTypes, StoreTypes
      <4> QED
        BY <2>3, <3>2, <4>1 DEF OrderDone, BoardFailed, SidebarFailed, workspace, Answered, Hosts
    <3>4. \A d \in calls : Rereads(d) => \E x \in calls' : x.op = d.op /\ x.state = d.state
      BY <3>1, <3>2
    <3> QED
      BY <3>2, <3>3, <3>4, <1>k
  <2> QED
    BY <1>10, <2>1, <2>2, <2>3 DEF Answer, SidebarFailed
<1> QED
  BY <1>1, <1>2, <1>3, <1>4, <1>5, <1>6, <1>7, <1>8, <1>9, <1>10, Steps

-----------------------------------------------------------------------------
(* What the page promises.                                                 *)

\* The page as it opens.
LEMMA ShellInit == CatalogueInit => ShellInv
<1> SUFFICES ASSUME CatalogueInit PROVE ShellInv
  OBVIOUS
<1>1. StoreTypes
  BY CatalogueAssumption DEF CatalogueInit, StoreTypes
<1>2. CallTypes /\ TabSettlesAtOnce /\ RereadDue
  BY DEF CatalogueInit, CallTypes, TabSettlesAtOnce, RereadDue
<1>3. NoBoard \in Boards /\ NoBoard.draft = {}
  BY DEF NoBoard, NoConfig, Boards, Configs, Names
<1>4. ScreenTypes
  BY <1>3 DEF CatalogueInit, ScreenTypes, Home, NoDialog, None
<1> QED
  BY <1>1, <1>2, <1>4 DEF ShellInv, ShellTypes

\* Every step keeps the invariant.
LEMMA ShellStep == ShellInv /\ [CatalogueNext]_catalogueVars => ShellInv'
BY StoresStep, ScreenStep, RereadStep DEF ShellInv, ShellTypes

\* The invariant of the workspace page.
LEMMA Shell == CatalogueSpec => []ShellInv
BY ShellInit, ShellStep, PTL DEF CatalogueSpec

\* Sidebar.tsx, ViewRouter.tsx: with nothing in flight the sidebar lists what the tab
\* reads and the page is not on a table that is gone, for every number of tables,
\* views, calls and changes from elsewhere.
THEOREM SidebarSettles == CatalogueSpec => []ShellSettles
<1>1. ShellInv => ShellSettles
  BY DEF ShellInv, RereadDue, Settled, ShellSettles, Idle
<1> QED
  BY <1>1, Shell, PTL

\* Only what the user asks for counts as a call.
LEMMA OnlyAsksCount ==
  ASSUME ShellTypes, [CatalogueNext]_catalogueVars, ops' # ops
  PROVE  Asks
<1>1. CatalogueNext
  BY DEF catalogueVars
<1>2. ~(GiveUp \/ Ask \/ Dismiss \/ Drafts \/ RunEffects \/ Navigate \/ RenameGone \/ Push \/ Arrive)
  BY DEF GiveUp, Ask, Dismiss, Drafts, SetDraft, RunEffects, Navigate, RenameGone, RenameView,
         Push, Arrive
<1>3. \A c \in calls : ~Run(c) /\ ~Answer(c)
  BY DEF Run, Answer, SidebarDone, SidebarFailed, OrderDone, BoardDone, ForkDone, BoardFailed
<1> QED
  BY <1>1, <1>2, <1>3, Steps

\* A view written with what it holds but for its name.
LEMMA WriteBack ==
  ASSUME NEW s \in Workspaces, NEW i \in Views, s.views[i].live, NEW name
  PROVE  WriteView(s, i, [Config(s, i) EXCEPT !.name = name])
           = [s EXCEPT !.views[i].name = name]
<1>1. PICK l, n, f, g :
        l = TRUE /\ s.views[i] = [live |-> l, name |-> n, filters |-> f, group |-> g]
  <2> DEFINE v == s.views[i]
  <2>1. v \in ViewRecords /\ v.live = TRUE
    BY DEF Workspaces, ViewRecords
  <2>2. v = [live |-> v.live, name |-> v.name, filters |-> v.filters, group |-> v.group]
    BY <2>1 DEF ViewRecords
  <2> QED
    BY <2>1, <2>2
<1> DEFINE y == [live |-> l, name |-> name, filters |-> f, group |-> g]
<1>2. [Config(s, i) EXCEPT !.name = name] = [name |-> name, filters |-> f, group |-> g]
  BY <1>1 DEF Config
<1>3. WriteView(s, i, [name |-> name, filters |-> f, group |-> g]) = PutView(s, i, y)
  <2> DEFINE cfg == [name |-> name, filters |-> f, group |-> g]
             z == [live |-> TRUE, name |-> cfg.name,
                   filters |-> IF cfg.filters = {} THEN s.views[i].filters ELSE cfg.filters,
                   group |-> IF cfg.group = None THEN s.views[i].group ELSE cfg.group]
  <2>1. WriteView(s, i, cfg) = PutView(s, i, z)
    BY DEF WriteView, PutView
  <2>2. z = y
    BY <1>1
  <2> HIDE DEF z
  <2> QED
    BY <2>1, <2>2
<1>4. [s.views[i] EXCEPT !.name = name] = y
  <2>1. s.views[i] \in [live : {l}, name : {n}, filters : {f}, group : {g}]
    BY <1>1
  <2>2. [s.views[i] EXCEPT !.name = name]
          \in [live : {l}, name : {name}, filters : {f}, group : {g}]
    BY <2>1
  <2>3. \A x \in [live : {l}, name : {name}, filters : {f}, group : {g}] : x = y
    OBVIOUS
  <2> QED
    BY <2>2, <2>3, Zenon
<1>5. [s EXCEPT !.views[i].name = name] = PutView(s, i, [s.views[i] EXCEPT !.name = name])
  BY DEF PutView
<1> HIDE DEF y
<1> QED
  BY <1>2, <1>3, <1>4, <1>5, Zenon

\* handleRenameView writes the configuration it reads when the prompt is answered: in
\* a tab with a store of its own, nothing of the view but its name changes.
THEOREM RenameKeepsView == CatalogueSpec => RenameUndoesNothing
<1> DEFINE A == env.host = "tab" =>
                  \A c \in calls' : c.op = "renameView" /\ c.n = ops' /\ ops' # ops =>
                    store' = [store EXCEPT !.views[c.id].name = c.cfg.name]
<1>1. ASSUME ShellInv, [CatalogueNext]_catalogueVars PROVE A
  <2> SUFFICES ASSUME env.host = "tab", NEW d \in calls',
                      d.op = "renameView", d.n = ops', ops' # ops
               PROVE  store' = [store EXCEPT !.views[d.id].name = d.cfg.name]
    OBVIOUS
  <2>1. PICK c, cs : Asked(c, cs)
    BY <1>1, OnlyAsksCount, UserAsks DEF ShellInv
  <2>2. d.op = c.op /\ d.id = c.id /\ d.cfg = c.cfg
    BY <2>1, <1>1, AskedStep DEF ShellInv
  <2>3. store' = Effect(store, c)
    BY <2>1, <2>2, <1>1, AskedStep DEF ShellInv
  <2>4. /\ dialog.op = "renameView" /\ c.id = dialog.id /\ seen.views[c.id].live
        /\ c.cfg = Renamed(c.cfg.name)
    BY <2>1, <2>2 DEF Asked
  <2>5. c.id \in Views /\ store \in Workspaces /\ seen = store
    BY <1>1, <2>4 DEF ShellInv, ShellTypes, ScreenTypes, StoreTypes
  <2>6. Effect(store, c) = WriteView(store, c.id, c.cfg)
    BY <2>2 DEF Effect, ViewWrites
  <2>7. c.cfg = [Config(store, c.id) EXCEPT !.name = c.cfg.name]
    BY <2>4, <2>5 DEF Renamed
  <2>8. WriteView(store, c.id, [Config(store, c.id) EXCEPT !.name = c.cfg.name])
          = [store EXCEPT !.views[c.id].name = c.cfg.name]
    BY <2>4, <2>5, WriteBack
  <2> QED
    BY <2>2, <2>3, <2>6, <2>7, <2>8
<1> QED
  BY <1>1, Shell, PTL DEF CatalogueSpec, RenameUndoesNothing

\* KanbanView.tsx, TableView.tsx: conditions typed into a saved view survive every
\* sync, every answer and every reading of the lists.
THEOREM ConditionsKept == CatalogueSpec => DraftKept
<1> DEFINE A == board'.draft # board.draft =>
                  board'.on # board.on \/ (calls' = calls /\ due' = due)
<1>1. ASSUME ShellInv, [CatalogueNext]_catalogueVars PROVE A
  <2> SUFFICES ASSUME board'.draft # board.draft, board'.on = board.on
               PROVE  calls' = calls /\ due' = due
    OBVIOUS
  <2>1. ShellTypes /\ TabSettlesAtOnce
    BY <1>1 DEF ShellInv
  <2>2. board \in Boards /\ (board.on = None => board.draft = {})
    BY <2>1 DEF ShellTypes, ScreenTypes
  <2>3. board' # board /\ board' # NoBoard
    BY <2>1, <2>2, BoardType
  <2>4. CASE Drafts
    BY <2>4 DEF Drafts, SetDraft
  <2>5. CASE RunEffects
    <3>1. board' = Loaded /\ board' # NoBoard
      BY <2>3, <2>5 DEF RunEffects
    <3>2. route.page = "view" /\ board.on = route.view
      BY <3>1, <2>1, BoardType
    <3>3. board'.draft = board.draft
      BY <3>1, <3>2, <2>2 DEF Loaded, Boards
    <3> QED
      BY <3>3
  <2>6. ~Asks
    BY <2>1, <2>3, UserAsks DEF Asked
  <2>7. ~(GiveUp \/ Ask \/ Dismiss \/ Navigate \/ RenameGone \/ Push \/ Arrive)
    BY <2>3 DEF GiveUp, Ask, Dismiss, Navigate, RenameGone, RenameView, Refresh, Push, Arrive
  <2>8. ASSUME NEW c \in calls PROVE ~Run(c) /\ ~Answer(c)
    <3>1. ~Run(c) /\ ~BoardFailed(c)
      BY <2>3 DEF Run, BoardFailed, page
    <3>2. ~SidebarDone(c) /\ ~SidebarFailed(c) /\ ~OrderDone(c) /\ ~ForkDone(c)
      BY <2>3 DEF SidebarDone, SidebarFailed, Refresh, OrderDone, ForkDone
    <3>3. ASSUME BoardDone(c) PROVE FALSE
      <4>1. \E x, y : board' = [board EXCEPT !.holds = x, !.cfg = y]
        BY <2>3, <3>3 DEF BoardDone
      <4>2. board'.draft = board.draft
        BY <4>1, <2>2 DEF Boards
      <4> QED
        BY <4>2
    <3> QED
      BY <3>1, <3>2, <3>3 DEF Answer
  <2>9. CatalogueNext
    BY <1>1, <2>3 DEF catalogueVars
  <2> QED
    BY <2>1, <2>4, <2>5, <2>6, <2>7, <2>8, <2>9, Steps
<1> QED
  BY <1>1, Shell, PTL DEF CatalogueSpec, DraftKept
=============================================================================
