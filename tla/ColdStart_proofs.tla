-------------------------- MODULE ColdStart_proofs --------------------------
(***************************************************************************)
(* The walk over a room's history leaves no silent hole, for every length  *)
(* of the room, size of the pages, number of openings and place of a crash *)
(* (NoSilentHole).                                                         *)
(*                                                                         *)
(* Two arguments carry it.  What a device holds is current up to some      *)
(* position of the stream that its marker never passes (Current), so the   *)
(* marker's stop misses nothing.  And a page without a fresh cell ends the *)
(* walk rightly because of how writes refresh: were a cell older than the  *)
(* page, every event since would have refreshed another one, and those the *)
(* page refreshed would all have been written again (CoverageSound).  That *)
(* takes two pages' worth of events and 3 * PageSize + 2 cells, one more   *)
(* than Undisturbed allows.                                                *)
(***************************************************************************)
EXTENDS ColdStart, FiniteSetTheorems, SequenceTheorems, WellFoundedInduction, TLAPS

-----------------------------------------------------------------------------
(* Least and greatest members, without which Min and Max say nothing.      *)

\* The natural numbers are well ordered.
LEMMA LeastNatural ==
  ASSUME NEW T \in SUBSET Nat, T # {}
  PROVE  \E x \in T : \A y \in T : x <= y
<1> DEFINE R == OpToRel(<, Nat)
<1>1. \A x, y \in Nat : y < x => <<y, x>> \in R
  BY DEF OpToRel
<1>2. IsWellFoundedOn(R, Nat)
  BY NatLessThanWellFounded DEF OpToRel
<1> HIDE DEF R
<1>3. \E x \in T : \A y \in T : ~ (<<y, x>> \in R)
  BY <1>2, WFMin, Zenon
<1>4. PICK x \in T : \A y \in T : ~ (<<y, x>> \in R)
  BY <1>3
<1>5. \A y \in T : ~(y < x)
  BY <1>1, <1>4
<1>6. QED BY <1>5

\* A set of naturals has a least member; one that is bounded, a greatest.
LEMMA MinOf ==
  ASSUME NEW T \in SUBSET Nat, T # {}
  PROVE  Min(T) \in T /\ \A y \in T : Min(T) <= y
<1>1. \E x \in T : \A y \in T : x <= y
  BY LeastNatural
<1>2. QED BY <1>1 DEF Min

LEMMA MaxOf ==
  ASSUME NEW T \in SUBSET Nat, T # {}, NEW n \in Nat, \A x \in T : x <= n
  PROVE  Max(T) \in T /\ \A y \in T : y <= Max(T)
<1> DEFINE D == {n - x : x \in T}
<1>1. D \in SUBSET Nat
  <2>1. \A x \in T : n - x \in Nat
    OBVIOUS
  <2>2. QED BY <2>1
<1>2. D # {}
  OBVIOUS
<1>3. PICK m \in D : \A e \in D : m <= e
  BY <1>1, <1>2, LeastNatural
<1>4. PICK x \in T : m = n - x
  OBVIOUS
<1>5. \A y \in T : n - y \in D
  OBVIOUS
<1>6. \A y \in T : m <= n - y
  BY <1>3, <1>5
<1>7. \A y \in T : y <= x
  BY <1>4, <1>6
<1>8. \E z \in T : \A y \in T : z >= y
  BY <1>7
<1>9. QED BY <1>8 DEF Max

\* Newest is the greatest member, or 0.
LEMMA NewestOf ==
  ASSUME NEW T \in SUBSET Nat, NEW n \in Nat, \A x \in T : x <= n
  PROVE  /\ Newest(T) \in Nat /\ Newest(T) <= n
         /\ \A y \in T : y <= Newest(T)
         /\ T # {} => Newest(T) \in T
<1>1. CASE T = {}
  BY <1>1 DEF Newest
<1>2. CASE T # {}
  <2>1. Newest(T) = Max(T)
    BY <1>2 DEF Newest
  <2>2. Max(T) \in T /\ \A y \in T : y <= Max(T)
    BY <1>2, MaxOf
  <2>3. QED BY <1>2, <2>1, <2>2
<1>3. QED BY <1>1, <1>2

\* How many numbers an interval has.
LEMMA IntervalSize ==
  ASSUME NEW x \in Int, NEW y \in Int, NEW size, x <= y, size = y - x + 1
  PROVE  IsFiniteSet(x..y) /\ Cardinality(x..y) = size
<1>1. ~(x > y)
  OBVIOUS
<1>2. Cardinality(x..y) = IF x > y THEN 0 ELSE y - x + 1
  BY FS_Interval
<1>3. IsFiniteSet(x..y)
  BY FS_Interval
<1>4. QED BY <1>1, <1>2, <1>3

-----------------------------------------------------------------------------
(* How writes refresh, and why a page without fresh cells ends the walk.   *)

Event == [ots : Nat, cells : SUBSET CellIds]

\* Cell e is in one of the events from position l to m.
In(e, l, m) == \E i \in l..m : e \in room[i].cells

\* The event at i writes cell c and refreshes b, the stalest of all others
\* then written: each other was written after b last was.
Refreshing(i, c, b) ==
  /\ room[i].cells = {c, b}
  /\ \A d \in CellIds \ {c} : In(d, 1, i - 1) =>
       b # c /\ \A k \in 1..(i - 1) : b \in room[k].cells => In(d, k, i - 1)

Refreshed == \A i \in Positions : \E c, b \in CellIds : Refreshing(i, c, b)

\* A page low..top without fresh cells, behind a slice top+1..n of whole pages,
\* has no written cell behind it that the page and the slice do not have.
LEMMA CoverageSound ==
  ASSUME env.cells \in Nat, room \in Seq(Event), Refreshed,
         PageSize \in Nat \ {0}, env.cells <= 3 * PageSize + 1,
         NEW low \in Nat, NEW top \in Nat, NEW n \in Nat,
         1 <= low, low = top - PageSize + 1, n <= Len(room),
         n - top = PageSize \/ n - top >= 2 * PageSize,
         \A i \in low..top : \A e \in room[i].cells : In(e, top + 1, n),
         NEW d \in CellIds, In(d, 1, low - 1)
  PROVE  In(d, low, n)
<1> SUFFICES ASSUME ~In(d, low, n) PROVE FALSE
  OBVIOUS
<1>1. /\ Len(room) \in Nat /\ top < n /\ low <= top
      /\ \A i \in low..n : i \in Positions
  BY DEF Positions
<1> DEFINE Right(i, p) == Refreshing(i, p[1], p[2])
           f == [i \in low..n |-> CHOOSE p \in CellIds \X CellIds : Right(i, p)]
           c(i) == f[i][1]
           b(i) == f[i][2]
<1>2. \A i \in low..n : /\ c(i) \in CellIds /\ b(i) \in CellIds
                        /\ Refreshing(i, c(i), b(i))
  <2> SUFFICES ASSUME NEW i \in low..n
               PROVE  f[i] \in CellIds \X CellIds /\ Right(i, f[i])
    OBVIOUS
  <2>1. PICK x \in CellIds, y \in CellIds : Refreshing(i, x, y)
    BY <1>1 DEF Refreshed
  <2>2. <<x, y>> \in CellIds \X CellIds /\ Right(i, <<x, y>>)
    BY <2>1
  <2>3. \E p \in CellIds \X CellIds : Right(i, p)
    BY <2>2
  <2>4. f[i] = CHOOSE p \in CellIds \X CellIds : Right(i, p)
    OBVIOUS
  <2> HIDE DEF Right, f
  <2>5. QED BY <2>3, <2>4
<1> HIDE DEF f, c, b
<1>3. \A i \in low..n : c(i) # d /\ b(i) # d /\ room[i].cells = {c(i), b(i)}
  BY <1>2 DEF Refreshing, In
<1>4. \A i \in low..n : In(d, 1, i - 1)
  BY DEF In
<1>5. \A i \in low..n : b(i) # c(i) /\ \A k \in low..(i - 1) : b(i) \notin room[k].cells
  <2> SUFFICES ASSUME NEW i \in low..n
               PROVE  b(i) # c(i) /\ \A k \in low..(i - 1) : b(i) \notin room[k].cells
    OBVIOUS
  <2>1. b(i) # c(i) /\ \A k \in 1..(i - 1) : b(i) \in room[k].cells => In(d, k, i - 1)
    BY <1>2, <1>3, <1>4 DEF Refreshing
  <2>2. \A k \in low..(i - 1) : ~In(d, k, i - 1)
    BY DEF In
  <2>3. QED BY <2>1, <2>2
<1>6. \A i, k \in low..n : k < i => b(i) # b(k) /\ b(i) # c(k)
  BY <1>3, <1>5
<1>7. \A i \in low..n : b(i) # c(low)
  BY <1>1, <1>5, <1>6
(* The cell d, the first one of the page and all that are refreshed differ. *)
<1> DEFINE F(x) == IF x = low - 2 THEN d ELSE IF x = low - 1 THEN c(low) ELSE b(x)
           S == (low - 2)..n
<1>8. \A x \in S : x = low - 2 \/ x = low - 1 \/ x \in low..n
  OBVIOUS
<1>9. /\ F(low - 2) = d /\ F(low - 1) = c(low)
      /\ \A x \in low..n : F(x) = b(x)
  OBVIOUS
<1>10. low \in low..n
  BY <1>1
<1> HIDE DEF F
<1>11. \A x \in S : F(x) \in CellIds
  BY <1>2, <1>8, <1>9, <1>10
<1>12. \A x, y \in S : x < y => F(x) # F(y)
  <2> SUFFICES ASSUME NEW x \in S, NEW y \in S, x < y PROVE F(x) # F(y)
    OBVIOUS
  <2>1. CASE x = low - 2
    <3>1. y = low - 1 \/ y \in low..n
      BY <1>8, <2>1
    <3>2. QED BY <1>3, <1>9, <1>10, <2>1, <3>1
  <2>2. CASE x = low - 1
    <3>1. y \in low..n
      BY <1>8, <2>2
    <3>2. QED BY <1>7, <1>9, <2>2, <3>1
  <2>3. CASE x \in low..n
    <3>1. y \in low..n
      BY <1>8, <2>3
    <3>2. QED BY <1>6, <1>9, <2>3, <3>1
  <2>4. QED BY <1>8, <2>1, <2>2, <2>3
<1>13. \A x, y \in S : x # y => F(x) # F(y)
  <2> SUFFICES ASSUME NEW x \in S, NEW y \in S, x # y PROVE F(x) # F(y)
    OBVIOUS
  <2>1. x < y \/ y < x
    OBVIOUS
  <2>2. QED BY <1>12, <2>1
<1>14. n - low + 3 <= env.cells
  <2> DEFINE FF == [x \in S |-> F(x)]
  <2>1. IsFiniteSet(S) /\ Cardinality(S) = n - low + 3
    <3>1. low - 2 \in Int /\ n \in Int
      OBVIOUS
    <3>2. low - 2 <= n
      BY <1>1
    <3>3. n - low + 3 = n - (low - 2) + 1
      OBVIOUS
    <3>4. QED BY <3>1, <3>2, <3>3, IntervalSize
  <2>2. IsFiniteSet(CellIds) /\ Cardinality(CellIds) = env.cells
    <3>1. 1 \in Int /\ env.cells \in Int /\ (1 > env.cells => env.cells = 0) /\ env.cells - 1 + 1 = env.cells
      OBVIOUS
    <3>2. QED BY <3>1, FS_Interval DEF CellIds
  <2> HIDE DEF S
  <2>3. FF \in [S -> CellIds]
    BY <1>11
  <2>4. \A x, y \in S : x # y => FF[x] # FF[y]
    BY <1>13
  <2> HIDE DEF FF
  <2>5. ~(Cardinality(CellIds) < Cardinality(S))
    BY <2>1, <2>2, <2>3, <2>4, FS_PigeonHole
  <2>6. QED BY <1>1, <2>1, <2>2, <2>5
<1>15. n - top = PageSize
  BY <1>1, <1>14
(* Those of the page are all written again, each by another event: too many. *)
<1> DEFINE P == (low - 1)..top
           W == (top + 1)..n
<1>16. \A i \in P : \E k \in W : c(k) = F(i)
  <2> SUFFICES ASSUME NEW i \in P PROVE \E k \in W : c(k) = F(i)
    OBVIOUS
  <2>1. \E m \in low..top : F(i) \in room[m].cells
    <3>1. CASE i = low - 1
      <4>1. low \in low..top
        BY <1>1
      <4>2. QED BY <1>3, <1>9, <1>10, <3>1, <4>1
    <3>2. CASE i # low - 1
      <4>1. i \in low..top /\ i \in low..n
        BY <1>1, <3>2
      <4>2. QED BY <1>3, <1>9, <4>1
    <3>3. QED BY <3>1, <3>2
  <2>2. PICK k \in W : F(i) \in room[k].cells
    BY <2>1 DEF In
  <2>3. k \in low..n /\ i \in S /\ k \in S /\ k # i
    BY <1>1
  <2>4. F(i) = c(k) \/ F(i) = b(k)
    BY <1>3, <2>2, <2>3
  <2>5. F(i) # b(k)
    BY <1>9, <1>13, <2>3
  <2>6. QED BY <2>4, <2>5
<1> DEFINE G == [i \in P |-> CHOOSE k \in W : c(k) = F(i)]
<1>17. \A i \in P : G[i] \in W /\ c(G[i]) = F(i)
  BY <1>16
<1>18. IsFiniteSet(P) /\ Cardinality(P) = PageSize + 1
  <2>1. low - 1 \in Int /\ top \in Int /\ ~(low - 1 > top) /\ top - (low - 1) + 1 = PageSize + 1
    BY <1>1
  <2>2. QED BY <2>1, FS_Interval
<1>19. IsFiniteSet(W) /\ Cardinality(W) = PageSize
  <2>1. top + 1 \in Int /\ n \in Int
    OBVIOUS
  <2>2. top + 1 <= n
    BY <1>1
  <2>3. PageSize = n - (top + 1) + 1
    BY <1>15
  <2>4. QED BY <2>1, <2>2, <2>3, IntervalSize
<1>20. P \subseteq S
  BY <1>1
<1>21. G \in [P -> W]
  BY <1>16
<1> HIDE DEF G, P, W, S
<1>22. PICK x \in P, y \in P : x # y /\ G[x] = G[y]
  <2>1. Cardinality(W) < Cardinality(P)
    BY <1>18, <1>19
  <2>2. QED BY <1>18, <1>19, <1>21, <2>1, FS_PigeonHole
<1>23. QED BY <1>13, <1>17, <1>20, <1>22

-----------------------------------------------------------------------------
(* The invariant.                                                          *)

ColdType ==
  /\ env \in Surroundings
  /\ room \in Seq(Event) /\ \A i \in Positions : Ots(i) <= i
  /\ token \in Nat /\ marker \in Nat /\ since \in Nat
  /\ phase \in {"closed", "gather", "live"}
  /\ walk \in [below : Nat, seen : SUBSET CellIds, fast : BOOLEAN, stop : Nat]
  /\ walk.below <= Len(room)
  /\ locked \subseteq Positions /\ have \subseteq Positions /\ stuck \subseteq Positions
  /\ retry \in [on : BOOLEAN, todo : SUBSET Positions, still : SUBSET Positions]
  /\ snap \in [marker : Nat, have : SUBSET Positions, unread : Nat]

\* Timestamps trail their positions by no more than the skew, writes refresh,
\* only the events that can come sealed are, the token is behind the room.
RoomInv ==
  /\ Len(room) <= env.events /\ token <= Len(room)
  /\ \A i \in Positions : i <= Ots(i) + env.skew
  /\ Refreshed
  /\ env.sealed = "never" => locked = {}
  /\ env.sealed = "backlog" => locked \subseteq 1..env.backlog
  /\ phase # "closed" => env.backlog <= token

\* What every cell was at position q, or something newer, is in T.
Current(T, q) ==
  \A j \in Positions : j <= q =>
    \A c \in room[j].cells : \E i \in T : i >= j /\ c \in room[i].cells

\* A usable snapshot is current up to a position that its marker does not pass
\* and that the backlog does not reach.
SnapInv ==
  Usable(snap) =>
    \E q \in 0..Len(room) : env.backlog <= q /\ snap.marker <= q /\ Current(snap.have, q)

\* The walk began with what was current up to q; from where it is to the
\* position n it started from, everything above q has been read or is listed.
WalkOver(q, n) ==
  /\ q <= n /\ walk.below <= n /\ marker <= n
  /\ n + 1 - walk.below = PageSize \/ n + 1 - walk.below >= 2 * PageSize
  /\ \A i \in walk.below..n : i > q => i \in have \union stuck
  /\ \A i \in stuck : i <= n
  /\ \A e \in walk.seen : In(e, walk.below, n)

WalkInv ==
  phase = "gather" =>
    \E q \in 0..Len(room) :
      /\ Current(have, q)
      /\ walk.fast => walk.stop <= q /\ env.backlog <= q
      /\ ~walk.fast => q = 0
      /\ walk.below = 0 => marker <= q /\ walk.seen = {} /\ stuck = {}
      /\ walk.below > 0 => \E n \in token..Len(room) : WalkOver(q, n)

\* A live workspace is current up to q, at or past where its sync stands.
LiveOver(q) ==
  /\ since <= q /\ marker <= q
  /\ Current(have \union stuck, q)
  /\ \A i \in stuck \union retry.todo \union retry.still : i <= q

LiveInv ==
  phase = "live" => since = token /\ \E q \in 0..Len(room) : LiveOver(q)

\* A retry runs in a live workspace of a host that offers it, and keeps account
\* of all that was listed when it began.
RetryInv ==
  \/ retry = NoRetry
  \/ /\ phase = "live" /\ env.retrying
     /\ stuck \subseteq retry.todo \union retry.still \union have

ColdInv ==
  /\ ColdType
  /\ Undisturbed => RoomInv /\ SnapInv /\ WalkInv /\ LiveInv /\ RetryInv

-----------------------------------------------------------------------------
(* The values of the variables.                                            *)

\* The marker after some events are applied (apply_payload).
LEMMA RaisedType ==
  ASSUME NEW m \in Nat, NEW T, NEW n \in Nat, m <= n,
         \A i \in T : Ots(i) \in Nat /\ Ots(i) <= n
  PROVE  Raised(m, T) \in Nat /\ Raised(m, T) <= n
<1> DEFINE M == {m} \union {Ots(i) : i \in T}
<1>1. M \in SUBSET Nat /\ \A x \in M : x <= n
  OBVIOUS
<1> HIDE DEF M
<1>2. Newest(M) \in Nat /\ Newest(M) <= n
  BY <1>1, NewestOf
<1>3. QED BY <1>2 DEF Raised, M

\* The oldest event of a page that ends at a position.
LEMMA LowOf ==
  ASSUME NEW top \in Nat, PageSize \in Nat \ {0}
  PROVE  Newest({1, top - PageSize + 1})
           = IF top - PageSize + 1 > 1 THEN top - PageSize + 1 ELSE 1
<1> DEFINE T == {1, top - PageSize + 1}
           m == IF top - PageSize + 1 > 1 THEN top - PageSize + 1 ELSE 1
<1>1. m \in T /\ \A y \in T : m >= y
  OBVIOUS
<1>2. \A x \in T : (\A y \in T : x >= y) => x = m
  OBVIOUS
<1>3. Newest(T) = CHOOSE x \in T : \A y \in T : x >= y
  BY DEF Newest, Max
<1> HIDE DEF T, m
<1>4. Newest(T) = m
  BY <1>1, <1>2, <1>3
<1>5. QED BY <1>4 DEF T, m

\* What the timeline's length and its events are.
LEMMA RoomType ==
  ASSUME ColdType
  PROVE  /\ Len(room) \in Nat /\ Positions = 1..Len(room) /\ Positions \subseteq Nat
         /\ \A i \in Positions : Ots(i) \in Nat /\ room[i].cells \subseteq CellIds
<1>1. Len(room) \in Nat /\ \A i \in 1..Len(room) : room[i] \in Event
  BY DEF ColdType
<1>2. QED BY <1>1 DEF Positions, Ots, Event

\* The marker's type does not depend on how much is applied.
LEMMA RaisedNat ==
  ASSUME ColdType, NEW T \in SUBSET Positions
  PROVE  Raised(marker, T) \in Nat
<1>1. marker + Len(room) \in Nat /\ marker <= marker + Len(room) /\ marker \in Nat
  BY RoomType DEF ColdType
<1>2. \A i \in T : Ots(i) \in Nat /\ Ots(i) <= marker + Len(room)
  BY RoomType, <1>1 DEF ColdType
<1>3. QED BY <1>1, <1>2, RaisedType

\* A write adds one event to the end of the timeline and changes no other.
LEMMA Appended ==
  ASSUME ColdType, UNCHANGED env, NEW o \in Nat, NEW w \in SUBSET CellIds,
         room' = Append(room, [ots |-> o, cells |-> w])
  PROVE  /\ room' \in Seq(Event)' /\ Len(room') = Len(room) + 1
         /\ \A i \in Positions : room'[i] = room[i]
         /\ room'[Len(room) + 1] = [ots |-> o, cells |-> w]
         /\ Positions' = Positions \union {Len(room) + 1}
<1>1. room \in Seq(Event) /\ [ots |-> o, cells |-> w] \in Event
  BY DEF ColdType, Event
<1>2. Event' = Event
  BY DEF Event, CellIds
<1>3. room' \in Seq(Event)
  BY <1>1, AppendProperties
<1>4. /\ Len(room') = Len(room) + 1
      /\ \A i \in 1..Len(room) : room'[i] = room[i]
      /\ room'[Len(room) + 1] = [ots |-> o, cells |-> w]
  BY <1>1, AppendProperties
<1>5. Positions' = Positions \union {Len(room) + 1}
  BY <1>4, RoomType DEF Positions
<1>6. QED BY <1>2, <1>3, <1>4, <1>5, RoomType

\* What a write carries (select_global_bump_candidates): its cell and at most
\* one other, the stalest.
LEMMA CarriedType ==
  ASSUME ColdType, NEW c \in CellIds, NEW w \in Carried(c)
  PROVE  w \subseteq CellIds
BY DEF Carried, Stalest, Live

LEMMA ArriveType ==
  ASSUME ColdType, NEW c \in CellIds, NEW late \in 0..env.skew, NEW sealed \in BOOLEAN,
         Arrive(c, late, sealed)
  PROVE  ColdType'
<1>1. PICK w \in Carried(c) : Append1(w, late, sealed)
  BY DEF Arrive
<1> DEFINE n == Len(room) + 1
<1>2. n \in Nat /\ late \in Nat /\ late <= Len(room) /\ n - late \in Nat /\ n - late <= n
  BY RoomType DEF Arrive, ColdType, Surroundings
<1>3. room' = Append(room, [ots |-> n - late, cells |-> w])
  BY <1>1 DEF Append1
<1>4. w \in SUBSET CellIds /\ UNCHANGED env
  BY CarriedType DEF Arrive
<1>5. /\ room' \in Seq(Event)' /\ Positions' = Positions \union {n} /\ Len(room') = n
      /\ \A i \in Positions : room'[i] = room[i]
      /\ room'[n] = [ots |-> n - late, cells |-> w]
  BY <1>2, <1>3, <1>4, Appended
<1>6. \A i \in Positions' : Ots(i)' <= i
  BY <1>2, <1>5 DEF ColdType, Ots
<1>7. locked' \subseteq Positions'
  BY <1>1, <1>5 DEF Append1, ColdType
<1>8. CellIds' = CellIds
  BY <1>4 DEF CellIds
<1>9. walk'.below <= Len(room')
  BY <1>5, RoomType DEF Arrive, ColdType
<1> HIDE DEF n
<1>10. QED
  BY <1>5, <1>6, <1>7, <1>8, <1>9 DEF Arrive, ColdType

\* Steps that leave the room, the host and the cells alone.
LEMMA StillRoom ==
  ASSUME UNCHANGED <<env, room>>
  PROVE  /\ CellIds' = CellIds /\ Positions' = Positions /\ Seq(Event)' = Seq(Event)
         /\ \A i \in Positions : Ots(i)' = Ots(i)
BY DEF CellIds, Positions, Ots, Event

LEMMA KeyArrivesType ==
  ASSUME ColdType, KeyArrives
  PROVE  ColdType'
BY StillRoom DEF KeyArrives, ColdType

\* What an opening starts from is typed as a snapshot is.
LEMMA BaseType ==
  ASSUME ColdType
  PROVE  Base(snap) \in [marker : Nat, have : SUBSET Positions, unread : Nat]
BY DEF ColdType, Base, NoSnap

LEMMA OpenType ==
  ASSUME ColdType, Open
  PROVE  ColdType'
<1>1. /\ room' = room /\ env' = env /\ token' = Len(room) /\ Len(room) \in Nat
      /\ have' \subseteq Positions /\ marker' \in Nat
      /\ walk' \in [below : Nat, seen : SUBSET CellIds, fast : BOOLEAN, stop : Nat]
  BY BaseType, RoomType DEF Open, Usable
<1>2. QED
  BY <1>1, StillRoom DEF Open, ColdType

\* A page of the walk lies in the room, and ends the walk where it reaches the
\* room's beginning.
LEMMA PageIn ==
  ASSUME ColdType, ColdStartAssumption, NEW top \in Nat, top <= Len(room),
         NEW low, low = Newest({1, top - PageSize + 1})
  PROVE  /\ low \in Nat /\ low >= 1 /\ low..top \subseteq Positions
         /\ low # 1 => low = top - PageSize + 1
<1>1. low = IF top - PageSize + 1 > 1 THEN top - PageSize + 1 ELSE 1
  BY LowOf DEF ColdStartAssumption
<1>2. PageSize \in Nat \ {0}
  BY DEF ColdStartAssumption
<1>3. low \in Nat /\ low >= 1 /\ (low # 1 => low = top - PageSize + 1)
  BY <1>1, <1>2
<1>4. low..top \subseteq 1..Len(room)
  BY <1>3, RoomType
<1>5. QED BY <1>3, <1>4, RoomType

\* GatherPage's locals.
Top   == IF walk.below = 0 THEN Len(room) ELSE walk.below - 1
Low   == Newest({1, Top - PageSize + 1})
Page  == Low..Top
Read  == Page \ locked
Cells == UNION {room[i].cells : i \in Read}
Done  == \/ Low = 1
         \/ CaughtUp(Page)
         \/ Covered(Cells \ walk.seen, Unread(Page), walk.seen \union Cells)

LEMMA PageType ==
  ASSUME ColdType, ColdStartAssumption
  PROVE  /\ Top \in Nat /\ Top <= Len(room) /\ Low \in Nat /\ Low >= 1
         /\ Page \subseteq Positions /\ Read \subseteq Page /\ Unread(Page) \subseteq Page
         /\ Cells \subseteq CellIds /\ walk.seen \subseteq CellIds
         /\ Low # 1 => Low = Top - PageSize + 1
<1>1. walk.below \in Nat /\ walk.below <= Len(room) /\ Len(room) \in Nat
  BY RoomType DEF ColdType
<1>2. Top \in Nat /\ Top <= Len(room)
  BY <1>1 DEF Top
<1>3. Low \in Nat /\ Low >= 1 /\ Page \subseteq Positions /\ (Low # 1 => Low = Top - PageSize + 1)
  BY <1>2, PageIn DEF Low, Page
<1>4. Read \subseteq Page /\ Unread(Page) \subseteq Page
  BY DEF Read, Unread
<1>5. Cells \subseteq CellIds
  BY <1>3, <1>4, RoomType DEF Cells
<1>6. walk.seen \subseteq CellIds
  BY DEF ColdType
<1>7. QED BY <1>2, <1>3, <1>4, <1>5, <1>6

LEMMA GatherStep ==
  ASSUME GatherPage
  PROVE  /\ phase = "gather"
         /\ have' = have \union Read
         /\ marker' = Raised(marker, Read)
         /\ stuck' = stuck \union Unread(Page)
         /\ phase' = IF Done THEN "live" ELSE "gather"
         /\ walk' = IF Done THEN NoWalk
                    ELSE [walk EXCEPT !.below = Low, !.seen = walk.seen \union Cells]
         /\ since' = IF Done THEN token ELSE since
         /\ UNCHANGED <<env, room, locked, token, retry, snap, opens>>
BY DEF GatherPage, Done, Cells, Read, Page, Low, Top

LEMMA GatherPageType ==
  ASSUME ColdType, ColdStartAssumption, GatherPage
  PROVE  ColdType'
<1>1. /\ env' = env /\ room' = room /\ locked' = locked /\ token' = token
      /\ retry' = retry /\ snap' = snap
  BY GatherStep
<1>2. have' \subseteq Positions /\ stuck' \subseteq Positions
  BY GatherStep, PageType DEF ColdType
<1>3. marker' \in Nat /\ since' \in Nat
  BY GatherStep, PageType, RaisedNat DEF ColdType
<1>4. Low \in Nat /\ (Done \/ Low <= Len(room))
  BY PageType, RoomType DEF ColdStartAssumption, Done
<1>5. /\ walk' \in [below : Nat, seen : SUBSET CellIds, fast : BOOLEAN, stop : Nat]
      /\ walk'.below <= Len(room)
  <2>1. CASE Done
    <3>1. walk' = NoWalk
      BY <2>1, GatherStep
    <3>2. 0 <= Len(room)
      BY RoomType
    <3>3. QED BY <3>1, <3>2 DEF NoWalk
  <2>2. CASE ~Done
    BY <1>4, <2>2, GatherStep, PageType DEF ColdType
  <2>3. QED BY <2>1, <2>2
<1>6. phase' \in {"closed", "gather", "live"}
  BY GatherStep
<1>7. QED
  BY <1>1, <1>2, <1>3, <1>5, <1>6, StillRoom DEF ColdType

\* What a sync response brings lies in the room.
LEMMA SyncResponseType ==
  ASSUME ColdType, SyncResponse
  PROVE  ColdType'
<1> DEFINE new == Delivered(since)
           read == new \ locked
<1>1. new \subseteq Positions /\ read \subseteq Positions
  BY DEF Delivered
<1>2. /\ have' = have \union read /\ marker' = Raised(marker, read)
      /\ stuck' = stuck \union (new \intersect locked)
      /\ token' = Len(room) /\ since' = Len(room)
      /\ UNCHANGED <<env, room, locked, phase, walk, retry, snap>>
  BY DEF SyncResponse
<1> HIDE DEF new, read
<1>3. marker' \in Nat
  BY <1>1, <1>2, RaisedNat
<1>4. have' \subseteq Positions /\ stuck' \subseteq Positions /\ Len(room) \in Nat
  BY <1>1, <1>2, RoomType DEF ColdType
<1>5. QED BY <1>2, <1>3, <1>4, StillRoom DEF ColdType

LEMMA SyncRestartType ==
  ASSUME ColdType, SyncRestart \/ SessionSync
  PROVE  ColdType'
<1>1. token' \in Nat /\ since' \in Nat
  BY RoomType DEF SyncRestart, SessionSync, ColdType
<1>2. QED BY <1>1, StillRoom DEF SyncRestart, SessionSync, ColdType

\* The retry's locals and what it leaves are positions of the room.
LEMMA RetryType ==
  ASSUME ColdType, Retry
  PROVE  ColdType'
<1>1. CASE RetryStart
  BY <1>1, StillRoom DEF RetryStart, ColdType
<1>2. CASE RetryEnd
  BY <1>2, StillRoom DEF RetryEnd, NoRetry, ColdType
<1>3. ASSUME NEW i \in retry.todo, RetryRead(i)
      PROVE  ColdType'
  <2>1. i \in Positions
    BY DEF ColdType
  <2>2. Raised(marker, {i}) \in Nat
    BY <2>1, RaisedNat
  <2>3. QED BY <1>3, <2>1, <2>2, StillRoom DEF RetryRead, ColdType
<1>4. ASSUME NEW i \in retry.todo, RetryStillStuck(i)
      PROVE  ColdType'
  BY <1>4, StillRoom DEF RetryStillStuck, ColdType
<1>5. QED BY <1>1, <1>2, <1>3, <1>4 DEF Retry

\* What is unreadable is finitely many events, so that the snapshot counts them.
LEMMA StuckFinite ==
  ASSUME ColdType
  PROVE  /\ IsFiniteSet(stuck) /\ Cardinality(stuck) \in Nat
         /\ Cardinality(stuck) = 0 <=> stuck = {}
<1>1. IsFiniteSet(1..Len(room))
  BY RoomType, FS_Interval
<1>2. stuck \subseteq 1..Len(room)
  BY RoomType DEF ColdType
<1>3. IsFiniteSet(stuck)
  BY <1>1, <1>2, FS_Subset
<1>4. QED BY <1>3, FS_CardinalityType, FS_EmptySet

LEMMA SaveSnapshotType ==
  ASSUME ColdType, SaveSnapshot
  PROVE  ColdType'
BY StuckFinite, StillRoom DEF SaveSnapshot, ColdType

LEMMA CheckIntegrityType ==
  ASSUME ColdType, CheckIntegrity
  PROVE  ColdType'
<1>1. have' \subseteq Positions
  BY DEF CheckIntegrity, ColdType
<1>2. QED BY <1>1, StillRoom DEF CheckIntegrity, ColdType

LEMMA CrashType ==
  ASSUME ColdType, Crash
  PROVE  ColdType'
BY StillRoom, RoomType DEF Crash, ColdType, NoWalk, NoRetry

LEMMA ColdTypeStep ==
  ASSUME ColdType, ColdStartAssumption, [Next]_vars
  PROVE  ColdType'
<1>1. CASE UNCHANGED vars
  BY <1>1, StillRoom DEF vars, ColdType
<1>2. CASE Next
  BY <1>2, ArriveType, KeyArrivesType, OpenType, GatherPageType, SyncResponseType,
     SyncRestartType, RetryType, SaveSnapshotType, CheckIntegrityType, CrashType DEF Next
<1>3. QED BY <1>1, <1>2

-----------------------------------------------------------------------------
(* What is current stays so.                                               *)

\* Growing what is held, or asking for less, keeps it current.
LEMMA CurrentGrows ==
  ASSUME NEW T, NEW q \in Nat, Current(T, q), Positions \subseteq Nat,
         NEW U, T \subseteq U, NEW p \in Nat, p <= q
  PROVE  Current(U, p)
BY DEF Current

\* Nothing is current at 0, so anything is.
LEMMA CurrentNone ==
  ASSUME Positions = 1..Len(room), Len(room) \in Nat, NEW T
  PROVE  Current(T, 0)
BY DEF Current

\* A cell is in an event of an interval whatever is appended after it.
LEMMA InLonger ==
  ASSUME \A i \in Positions : room'[i] = room[i], NEW l \in Nat, NEW m \in Nat,
         l..m \subseteq Positions, NEW e
  PROVE  In(e, l, m)' <=> In(e, l, m)
BY DEF In

-----------------------------------------------------------------------------
(* How the room grows.                                                     *)

\* The stalest cell exists where there is another one to refresh, and every
\* other cell has been written since it last was.
LEMMA StalestType ==
  ASSUME ColdType, NEW c \in CellIds
  PROVE  /\ Live \ {c} # {} => Stalest(c) # {}
         /\ \A b \in Stalest(c) : \A d \in Live \ {c} : \A k \in Writes(b) :
              \E m \in Writes(d) : k <= m
<1>1. Len(room) \in Nat /\ Positions = 1..Len(room)
  BY RoomType
<1>2. \A d \in CellIds : Writes(d) \in SUBSET Nat /\ \A i \in Writes(d) : i <= Len(room)
  BY <1>1 DEF Writes
<1>3. \A d \in CellIds : /\ Newest(Writes(d)) \in Nat
                         /\ \A i \in Writes(d) : i <= Newest(Writes(d))
                         /\ Writes(d) # {} => Newest(Writes(d)) \in Writes(d)
  BY <1>1, <1>2, NewestOf
<1>4. Live \ {c} # {} => Stalest(c) # {}
  <2> SUFFICES ASSUME Live \ {c} # {} PROVE Stalest(c) # {}
    OBVIOUS
  <2> DEFINE N == {Newest(Writes(d)) : d \in Live \ {c}}
  <2>1. N \in SUBSET Nat /\ N # {}
    BY <1>3 DEF Live
  <2>2. PICK x \in N : \A y \in N : x <= y
    BY <2>1, LeastNatural
  <2>3. PICK b \in Live \ {c} : x = Newest(Writes(b))
    BY <2>2
  <2>4. b \in Stalest(c)
    BY <2>2, <2>3 DEF Stalest
  <2>5. QED BY <2>4
<1>5. ASSUME NEW b \in Stalest(c), NEW d \in Live \ {c}, NEW k \in Writes(b)
      PROVE  \E m \in Writes(d) : k <= m
  <2>1. b \in CellIds /\ d \in CellIds /\ Writes(d) # {}
    BY DEF Stalest, Live
  <2>2. Newest(Writes(b)) <= Newest(Writes(d))
    BY DEF Stalest
  <2>3. k <= Newest(Writes(b)) /\ k \in Nat
    BY <1>2, <1>3, <2>1
  <2>4. k <= Newest(Writes(d))
    BY <1>3, <2>1, <2>2, <2>3
  <2>5. QED BY <1>3, <2>1, <2>4
<1>6. QED BY <1>4, <1>5

\* Every write refreshes.
Bumping == env.bumping

\* A write carries its cell and the stalest other one, if there is another.
LEMMA CarriedRefreshes ==
  ASSUME ColdType, Bumping, NEW c \in CellIds, NEW w \in Carried(c)
  PROVE  \E b \in CellIds :
           /\ w = {c, b}
           /\ \A d \in Live \ {c} : /\ b # c
                                    /\ \A k \in Writes(b) : \E m \in Writes(d) : k <= m
<1>1. CASE Stalest(c) = {}
  <2>1. w = {c, c} /\ Live \ {c} = {}
    BY <1>1, StalestType DEF Carried, Bumping
  <2>2. QED BY <2>1
<1>2. CASE Stalest(c) # {}
  <2>1. PICK b \in Stalest(c) : w = {c, b}
    BY <1>2 DEF Carried, Bumping
  <2>2. b \in CellIds /\ b # c
    BY <2>1 DEF Stalest, Live
  <2>3. QED BY <2>1, <2>2, StalestType
<1>3. QED BY <1>1, <1>2

\* Refreshed is kept by a write, of which w is what it carries.
LEMMA RefreshedStep ==
  ASSUME ColdType, Refreshed, Bumping, NEW c \in CellIds, NEW w \in Carried(c),
         NEW n \in Nat, n = Len(room) + 1,
         Positions' = Positions \union {n}, CellIds' = CellIds,
         \A i \in Positions : room'[i] = room[i], room'[n].cells = w
  PROVE  Refreshed'
<1>1. n - 1 = Len(room) /\ Positions = 1..(n - 1) /\ n - 1 \in Nat
  BY RoomType
<1>2. Positions' = Positions \union {n} /\ CellIds' = CellIds
      /\ \A i \in Positions : room'[i] = room[i]
  OBVIOUS
<1>3. ASSUME NEW i \in Positions
      PROVE  \E x, y \in CellIds' : Refreshing(i, x, y)'
  <2>1. PICK x \in CellIds, y \in CellIds : Refreshing(i, x, y)
    BY DEF Refreshed
  <2>2. /\ i \in Nat /\ i >= 1 /\ i - 1 \in Nat
        /\ \A k \in 1..(i - 1) : k \in Positions /\ k..(i - 1) \subseteq Positions
    BY <1>1
  <2>3. \A k \in 1..i : \A d : In(d, k, i - 1)' <=> In(d, k, i - 1)
    <3> SUFFICES ASSUME NEW k \in 1..i, NEW d
                 PROVE  In(d, k, i - 1)' <=> In(d, k, i - 1)
      OBVIOUS
    <3>1. k \in Nat /\ k..(i - 1) \subseteq Positions
      BY <1>1, <2>2
    <3>2. QED BY <1>2, <2>2, <3>1, InLonger
  <2>4. Refreshing(i, x, y)'
    BY <1>1, <1>2, <2>1, <2>2, <2>3 DEF Refreshing
  <2>5. QED BY <1>2, <2>4
<1>4. \E x, y \in CellIds' : Refreshing(n, x, y)'
  <2>1. PICK b \in CellIds :
           /\ w = {c, b}
           /\ \A d \in Live \ {c} : /\ b # c
                                    /\ \A k \in Writes(b) : \E m \in Writes(d) : k <= m
    BY ONLY CarriedRefreshes, ColdType, Bumping, c \in CellIds, w \in Carried(c)
  <2>2. ASSUME NEW d \in CellIds \ {c}, In(d, 1, n - 1)'
        PROVE  b # c /\ \A k \in 1..(n - 1) : b \in room'[k].cells => In(d, k, n - 1)'
    <3>2. In(d, 1, n - 1)
      BY <1>1, <1>2, <2>2, InLonger
    <3>3. d \in Live \ {c}
      BY <1>1, <3>2 DEF In, Live, Writes
    <3>4. ASSUME NEW k \in Positions, b \in room'[k].cells
          PROVE  In(d, k, n - 1)'
      <4>1. k \in Writes(b)
        BY <1>2, <3>4 DEF Writes
      <4>2. PICK m \in Writes(d) : k <= m
        BY <2>1, <3>3, <4>1
      <4>3. m \in k..(n - 1) /\ m \in Positions /\ d \in room'[m].cells
        BY <1>1, <1>2, <4>2 DEF Writes
      <4>4. QED BY <4>3 DEF In
    <3>5. QED BY <1>1, <2>1, <3>3, <3>4
  <2>3. room'[n].cells = {c, b} /\ CellIds' = CellIds
    BY <2>1
  <2>4. Refreshing(n, c, b)'
    BY <2>2, <2>3, Zenon DEF Refreshing
  <2>5. QED BY <1>2, <2>4
<1>5. QED BY <1>2, <1>3, <1>4 DEF Refreshed

\* The surroundings in which nothing is lost, in parts.
LEMMA UndisturbedIs ==
  ASSUME ColdType, Undisturbed
  PROVE  /\ Bumping /\ env.cells \in Nat /\ env.cells <= 3 * PageSize + 1
         /\ env.skew \in Nat /\ env.grace \in Nat /\ env.skew <= env.grace
         /\ env.limit \in Nat /\ env.events \in Nat /\ env.limit >= env.events
         /\ env.backlog \in Nat /\ ~env.session
         /\ env.sealed \in {"never", "backlog", "any"}
         /\ env.sealed = "any" => env.skew = 0 /\ ~env.retrying
BY DEF Undisturbed, ColdType, Surroundings, Bumping

LEMMA ArriveRoom ==
  ASSUME ColdType, RoomInv, Undisturbed,
         NEW c \in CellIds, NEW late \in 0..env.skew, NEW sealed \in BOOLEAN,
         Arrive(c, late, sealed)
  PROVE  /\ RoomInv'
         /\ Len(room') = Len(room) + 1 /\ Positions' = Positions \union {Len(room) + 1}
         /\ \A i \in Positions : room'[i] = room[i]
<1>1. PICK w \in Carried(c) : Append1(w, late, sealed)
  BY DEF Arrive
<1>2. PICK n \in Nat : n = Len(room) + 1
  BY RoomType
<1>3. /\ late \in Nat /\ late <= env.skew /\ n - late \in Nat /\ n <= n - late + env.skew
      /\ n <= env.events /\ n > Len(room)
  <2>1. late <= Len(room) /\ Len(room) < env.events
    BY DEF Arrive
  <2>2. Len(room) \in Nat /\ env.skew \in Nat /\ env.events \in Nat
    BY RoomType, UndisturbedIs
  <2>3. late \in Nat /\ late <= env.skew
    BY <2>2
  <2>4. QED BY <1>2, <2>1, <2>2, <2>3
<1>4. room' = Append(room, [ots |-> n - late, cells |-> w])
  BY <1>1, <1>2 DEF Append1
<1>5. w \in SUBSET CellIds /\ UNCHANGED env /\ CellIds' = CellIds
  BY CarriedType DEF Arrive, CellIds
<1>6. /\ Len(room') = n /\ Positions' = Positions \union {n}
      /\ \A i \in Positions : room'[i] = room[i]
      /\ room'[n] = [ots |-> n - late, cells |-> w]
  BY <1>2, <1>3, <1>4, <1>5, Appended
<1>7. \A i \in Positions' : i <= Ots(i)' + env.skew
  <2>1. \A i \in Positions : i <= Ots(i)' + env.skew
    BY <1>6 DEF RoomInv, Ots
  <2>2. room'[n].ots = n - late
    BY ONLY <1>6
  <2>3. n <= Ots(n)' + env.skew
    BY <1>3, <2>2 DEF Ots
  <2>4. QED BY <1>6, <2>1, <2>3
<1>8. Refreshed'
  <2>1. room'[n].cells = w
    BY ONLY <1>6
  <2>2. Refreshed /\ Bumping
    BY UndisturbedIs DEF RoomInv
  <2>3. QED BY <1>2, <1>5, <1>6, <2>1, <2>2, RefreshedStep
<1>9. /\ env.sealed = "never" => locked' = {}
      /\ env.sealed = "backlog" => locked' \subseteq 1..env.backlog
  <2>1. locked' = IF sealed THEN locked \union {n} ELSE locked
    BY <1>1, <1>2 DEF Append1
  <2>2. env.sealed = "never" => ~sealed
    BY DEF Arrive
  <2>3. env.sealed = "backlog" => ~sealed \/ n \in 1..env.backlog
    BY <1>2, RoomType, UndisturbedIs DEF Arrive
  <2>4. QED BY <2>1, <2>2, <2>3 DEF RoomInv
<1>10. phase' = phase /\ token' = token /\ env' = env /\ token \in Nat
  BY DEF Arrive, ColdType
<1>11. RoomInv'
  BY <1>3, <1>6, <1>7, <1>8, <1>9, <1>10, RoomType DEF RoomInv
<1>12. QED BY <1>2, <1>6, <1>11

\* No other step moves the room, and only the opening and the sync move the token.
LEMMA StillRoomInv ==
  ASSUME ColdType, RoomInv, UNCHANGED <<env, room>>, locked' \subseteq locked,
         token' = token \/ token' = Len(room),
         phase' # "closed" => env.backlog <= token'
  PROVE  RoomInv'
<1>1. \A i, x, y : Refreshing(i, x, y)' <=> Refreshing(i, x, y)
  BY DEF Refreshing, In, CellIds
<1>2. Refreshed'
  BY <1>1, StillRoom DEF RoomInv, Refreshed
<1>3. Len(room') = Len(room) /\ Len(room) \in Nat /\ token' <= Len(room)
  BY RoomType DEF RoomInv
<1>4. \A i \in Positions' : i <= Ots(i)' + env.skew
  BY StillRoom DEF RoomInv
<1>5. QED BY <1>2, <1>3, <1>4 DEF RoomInv

\* A retry moves neither the room nor the sync, nor what is saved.
LEMMA RetryStill ==
  ASSUME Retry
  PROVE  /\ UNCHANGED <<env, room, locked, token, phase, walk, since, snap>>
         /\ RetryStart \/ retry.on
<1>1. CASE RetryStart
  BY <1>1 DEF RetryStart
<1>2. CASE RetryEnd
  BY <1>2 DEF RetryEnd
<1>3. ASSUME NEW i \in retry.todo, RetryRead(i)
      PROVE  /\ UNCHANGED <<env, room, locked, token, phase, walk, since, snap>>
             /\ retry.on
  BY <1>3 DEF RetryRead
<1>4. ASSUME NEW i \in retry.todo, RetryStillStuck(i)
      PROVE  /\ UNCHANGED <<env, room, locked, token, phase, walk, since, snap>>
             /\ retry.on
  BY <1>4 DEF RetryStillStuck
<1>5. QED BY <1>1, <1>2, <1>3, <1>4 DEF Retry

\* Every step keeps RoomInv.
LEMMA RoomStep ==
  ASSUME ColdType, ColdStartAssumption, RoomInv, Undisturbed, [Next]_vars
  PROVE  RoomInv'
<1>1. CASE UNCHANGED vars
  BY <1>1, StillRoomInv DEF vars, RoomInv
<1>2. CASE \E c \in CellIds, late \in 0..env.skew, sealed \in BOOLEAN : Arrive(c, late, sealed)
  BY <1>2, ArriveRoom
<1>3. CASE KeyArrives
  BY <1>3, StillRoomInv DEF KeyArrives, RoomInv
<1>4. CASE Open
  BY <1>4, RoomType, StillRoomInv DEF Open, RoomInv
<1>5. CASE GatherPage
  BY <1>5, GatherStep, StillRoomInv DEF RoomInv
<1>6. CASE SyncResponse
  <2>1. env.backlog <= Len(room)
    BY <1>6, RoomType, UndisturbedIs DEF SyncResponse, RoomInv, ColdType
  <2>2. QED BY <1>6, <2>1, StillRoomInv DEF SyncResponse, RoomInv
<1>7. CASE SyncRestart
  BY <1>7, StillRoomInv DEF SyncRestart, RoomInv
<1>8. CASE SessionSync
  BY <1>8, UndisturbedIs DEF SessionSync
<1>9. CASE Retry
  <2>1. UNCHANGED <<env, room, locked, token, phase>>
    BY <1>9, RetryStill
  <2>2. QED BY <2>1, StillRoomInv DEF RoomInv
<1>10. CASE SaveSnapshot
  BY <1>10, StillRoomInv DEF SaveSnapshot, RoomInv
<1>11. CASE CheckIntegrity
  BY <1>11, StillRoomInv DEF CheckIntegrity, RoomInv
<1>12. CASE Crash
  BY <1>12, StillRoomInv DEF Crash, RoomInv
<1>13. QED
  BY <1>1, <1>2, <1>3, <1>4, <1>5, <1>6, <1>7, <1>8, <1>9, <1>10, <1>11, <1>12 DEF Next

-----------------------------------------------------------------------------
(* The walk.                                                               *)

\* Where a walk stands, the first page not told from the others.
From(q, n) ==
  /\ q \in Nat /\ n \in Nat /\ q <= n /\ token <= n /\ n <= Len(room) /\ marker <= n
  /\ Current(have, q)
  /\ walk.fast => walk.stop <= q /\ env.backlog <= q
  /\ ~walk.fast => q = 0
  /\ Top <= n
  /\ n = Top \/ n - Top = PageSize \/ n - Top >= 2 * PageSize
  /\ n = Top => walk.seen = {}
  /\ \A i \in (Top + 1)..n : i > q => i \in have \union stuck
  /\ \A i \in stuck : i <= n
  /\ \A e \in walk.seen : In(e, Top + 1, n)

LEMMA WalkFrom ==
  ASSUME ColdType, ColdStartAssumption, RoomInv, WalkInv, phase = "gather"
  PROVE  \E q, n : From(q, n)
<1>1. PICK q \in 0..Len(room) :
        /\ Current(have, q)
        /\ walk.fast => walk.stop <= q /\ env.backlog <= q
        /\ ~walk.fast => q = 0
        /\ walk.below = 0 => marker <= q /\ walk.seen = {} /\ stuck = {}
        /\ walk.below > 0 => \E n \in token..Len(room) : WalkOver(q, n)
  BY DEF WalkInv
<1>2. /\ Len(room) \in Nat /\ token \in Nat /\ token <= Len(room) /\ walk.below \in Nat
      /\ marker \in Nat /\ PageSize \in Nat \ {0} /\ q \in Nat /\ q <= Len(room)
  BY RoomType DEF ColdType, RoomInv, ColdStartAssumption
<1>3. CASE walk.below = 0
  <2>1. Top = Len(room) /\ marker <= q /\ walk.seen = {} /\ stuck = {}
    BY <1>1, <1>3 DEF Top
  <2>2. From(q, Len(room))
    BY <1>1, <1>2, <2>1 DEF From
  <2>3. QED BY <2>2
<1>4. CASE walk.below > 0
  <2>1. PICK n \in token..Len(room) : WalkOver(q, n)
    BY <1>1, <1>4
  <2>2. Top = walk.below - 1 /\ Top + 1 = walk.below /\ n \in Nat
    BY <1>2, <1>4 DEF Top
  <2>3. n - Top = n + 1 - walk.below
    BY <1>2, <2>2
  <2>4. n - Top = PageSize \/ n - Top >= 2 * PageSize
    BY <2>1, <2>3 DEF WalkOver
  <2>5. n # Top /\ Top <= n
    <3>1. PageSize >= 1 /\ 2 * PageSize >= 1 /\ 2 * PageSize \in Nat /\ PageSize \in Nat
      BY <1>2
    <3>2. Top \in Int
      BY <1>2, <2>2
    <3>3. CASE n - Top = PageSize
      BY <2>2, <3>1, <3>2, <3>3
    <3>4. CASE n - Top >= 2 * PageSize
      BY <2>2, <3>1, <3>2, <3>4
    <3>5. QED BY <2>4, <3>3, <3>4
  <2>6. /\ q <= n /\ marker <= n /\ \A i \in stuck : i <= n
        /\ \A i \in (Top + 1)..n : i > q => i \in have \union stuck
        /\ \A e \in walk.seen : In(e, Top + 1, n)
    BY <2>1, <2>2 DEF WalkOver
  <2>7. token <= n /\ n <= Len(room)
    BY <1>2
  <2>8. From(q, n)
    BY <1>1, <1>2, <2>2, <2>4, <2>5, <2>6, <2>7 DEF From
  <2>9. QED BY <2>8
<1>5. QED BY <1>2, <1>3, <1>4

\* A walk that trusts the snapshot passes over unreadable events only where the
\* snapshot is current: they came before the device, or before its marker.
LEMMA PassedOver ==
  ASSUME ColdType, RoomInv, Undisturbed, NEW q, NEW n, From(q, n),
         NEW i \in Positions, i \in Page, i \in locked, i \notin Unread(Page)
  PROVE  i <= q
<1>1. walk.fast /\ ~(Ots(i) >= walk.stop)
  BY DEF Unread
<1>2. walk.stop <= q /\ env.backlog <= q /\ q \in Nat
  BY <1>1 DEF From
<1>3. Ots(i) \in Nat /\ i \in Nat /\ walk.stop \in Nat /\ Ots(i) < walk.stop
  BY <1>1, RoomType DEF ColdType
<1>4. i <= Ots(i) + env.skew
  BY DEF RoomInv
<1>5. CASE env.sealed = "never"
  BY <1>5 DEF RoomInv
<1>6. CASE env.sealed = "backlog"
  BY <1>2, <1>3, <1>6, UndisturbedIs DEF RoomInv
<1>7. CASE env.sealed = "any"
  BY <1>2, <1>3, <1>4, <1>7, UndisturbedIs
<1>8. QED BY <1>5, <1>6, <1>7, UndisturbedIs

\* After a page, all from the page on is read or listed, or older than q.
LEMMA PageHeld ==
  ASSUME ColdType, ColdStartAssumption, RoomInv, Undisturbed, NEW q, NEW n, From(q, n),
         GatherPage
  PROVE  /\ \A i \in Low..n : i > q => i \in have' \union stuck'
         /\ have \subseteq have'
         /\ marker' <= n /\ \A i \in stuck' : i <= n
<1>1. /\ Top \in Nat /\ Low \in Nat /\ n \in Nat /\ q \in Nat /\ Len(room) \in Nat
      /\ n <= Len(room) /\ Top <= n /\ marker \in Nat /\ marker <= n
  BY PageType, RoomType DEF From, ColdType
<1>2. ASSUME NEW i \in Low..n, i > q
      PROVE  i \in have' \union stuck'
  <2>1. CASE i > Top
    <3>1. i \in (Top + 1)..n
      BY <1>1, <2>1
    <3>2. QED BY <1>2, <3>1, GatherStep DEF From
  <2>2. CASE i <= Top
    <3>1. i \in Page
      BY <1>1, <2>2 DEF Page
    <3>2. i \in Positions /\ ~(i <= q)
      BY <1>1, <1>2, <3>1, PageType
    <3>3. i \in Read \/ i \in Unread(Page)
      BY <3>1, <3>2, PassedOver DEF Read
    <3>4. QED BY <3>3, GatherStep
  <2>3. QED BY <1>1, <2>1, <2>2
<1>3. \A i \in Read : Ots(i) \in Nat /\ Ots(i) <= n
  <2> SUFFICES ASSUME NEW i \in Read PROVE Ots(i) \in Nat /\ Ots(i) <= n
    OBVIOUS
  <2>1. i \in Positions /\ i <= Top /\ i \in Nat
    BY <1>1, PageType DEF Page
  <2>2. Ots(i) <= i /\ Ots(i) \in Nat
    BY <2>1, RoomType DEF ColdType
  <2>3. QED BY <1>1, <2>1, <2>2
<1>4. Raised(marker, Read) <= n
  BY <1>1, <1>3, RaisedType
<1>5. \A i \in stuck' : i <= n
  <2>1. \A i \in stuck : i <= n
    BY DEF From
  <2>2. \A i \in Unread(Page) : i <= Top /\ i \in Nat
    BY <1>1, PageType DEF Page
  <2>3. QED BY <1>1, <2>1, <2>2, GatherStep
<1>6. QED BY <1>2, <1>4, <1>5, GatherStep

\* A page that does not end the walk.
LEMMA WalkOn ==
  ASSUME ColdType, ColdStartAssumption, RoomInv, Undisturbed, WalkInv, GatherPage, ~Done
  PROVE  WalkInv'
<1>1. PICK q, n : From(q, n)
  BY GatherStep, WalkFrom
<1>2. /\ Top \in Nat /\ Low \in Nat /\ Low > 1 /\ Low = Top - PageSize + 1 /\ n \in Nat
      /\ PageSize \in Nat \ {0} /\ q \in Nat /\ Top <= n /\ n <= Len(room)
      /\ Len(room) \in Nat /\ q <= n /\ token <= n /\ token \in Nat
  BY <1>1, PageType, RoomType DEF Done, From, ColdStartAssumption, ColdType
<1>3. /\ walk'.below = Low /\ walk'.seen = walk.seen \union Cells
      /\ walk'.fast = walk.fast /\ walk'.stop = walk.stop
      /\ env' = env /\ room' = room /\ token' = token
  BY GatherStep DEF ColdType
<1>4. \A i \in Low..n : i > q => i \in have' \union stuck'
  BY <1>1, PageHeld
<1>5. have \subseteq have' /\ marker' <= n /\ \A i \in stuck' : i <= n
  BY <1>1, PageHeld
<1>6. \A e \in walk'.seen : In(e, Low, n)
  <2>1. \A e \in walk.seen : In(e, Low, n)
    BY <1>1, <1>2 DEF From, In
  <2>2. \A e \in Cells : In(e, Low, n)
    <3>1. \A i \in Read : i \in Low..n
      BY <1>2 DEF Read, Page
    <3>2. QED BY <3>1 DEF Cells, In
  <2>3. QED BY <1>3, <2>1, <2>2
<1>7. n + 1 - Low = PageSize \/ n + 1 - Low >= 2 * PageSize
  <2>1. n = Top \/ n - Top = PageSize \/ n - Top >= 2 * PageSize
    BY <1>1 DEF From
  <2>2. n + 1 - Low = (n - Top) + PageSize
    BY <1>2
  <2>3. QED BY <1>2, <2>1, <2>2
<1>8. WalkOver(q, n)'
  BY <1>2, <1>3, <1>4, <1>5, <1>6, <1>7 DEF WalkOver, In
<1>9. Current(have, q)'
  BY <1>1, <1>3, <1>5, StillRoom DEF From, Current
<1>10. /\ walk'.fast => walk'.stop <= q /\ env'.backlog <= q
       /\ ~walk'.fast => q = 0
  BY <1>1, <1>3 DEF From
<1>11. q \in 0..Len(room)' /\ n \in token'..Len(room)' /\ walk'.below # 0
  BY <1>2, <1>3
<1>12. QED BY <1>8, <1>9, <1>10, <1>11 DEF WalkInv

\* Where the walk ends above q, no written cell is left behind its last page:
\* the marker's stop is not above q, and the coverage stop is sound.
LEMMA NothingBehind ==
  ASSUME ColdType, ColdStartAssumption, RoomInv, Undisturbed, NEW q, NEW n, From(q, n),
         GatherPage, Done, Low > 1, q < Low, NEW d \in CellIds, In(d, 1, Low - 1)
  PROVE  In(d, Low, n)
<1>1. /\ Top \in Nat /\ Low \in Nat /\ Low = Top - PageSize + 1 /\ n \in Nat
      /\ PageSize \in Nat \ {0} /\ q \in Nat /\ Top <= n /\ n <= Len(room)
      /\ Low <= Top /\ Page \subseteq Positions /\ Low \in Page /\ Page = Low..Top
  <2>1. /\ Top \in Nat /\ Low \in Nat /\ (Low # 1 => Low = Top - PageSize + 1)
        /\ Page \subseteq Positions /\ Low > 1
    BY PageType
  <2>2. PageSize \in Nat \ {0}
    BY DEF ColdStartAssumption
  <2>3. n \in Nat /\ q \in Nat /\ Top <= n /\ n <= Len(room)
    BY DEF From
  <2>4. Low = Top - PageSize + 1 /\ Low <= Top
    BY <2>1, <2>2
  <2>5. Low \in Page /\ Page = Low..Top
    BY <2>1, <2>4 DEF Page
  <2>6. QED BY <2>1, <2>2, <2>3, <2>4, <2>5
<1>2. ~CaughtUp(Page)
  <2> SUFFICES ASSUME CaughtUp(Page) PROVE FALSE
    OBVIOUS
  <2> DEFINE T == {Ots(i) : i \in Page}
  <2>1. walk.fast /\ Min(T) + env.grace < walk.stop
    BY DEF CaughtUp
  <2>2. T \in SUBSET Nat /\ T # {}
    BY <1>1, RoomType
  <2>3. Min(T) \in T
    BY <2>2, MinOf
  <2> HIDE DEF T
  <2>4. PICK i \in Page : Min(T) = Ots(i)
    BY <2>3 DEF T
  <2>5. i \in Positions /\ i >= Low /\ i \in Nat /\ Ots(i) \in Nat
    <3>1. i \in Low..Top /\ i \in Positions
      BY <1>1
    <3>2. QED BY <1>1, <3>1, RoomType
  <2>6. Ots(i) + env.grace < walk.stop /\ walk.stop <= q
    BY <1>1, <2>1, <2>4 DEF From
  <2>7. i <= Ots(i) + env.skew
    BY <2>5 DEF RoomInv
  <2>8. env.skew \in Nat /\ env.grace \in Nat /\ env.skew <= env.grace /\ walk.stop \in Nat
    BY UndisturbedIs DEF ColdType
  <2>9. i <= Ots(i) + env.grace
    BY <2>5, <2>7, <2>8
  <2>10. i < walk.stop
    BY <2>5, <2>6, <2>8, <2>9
  <2>11. q \in Nat /\ i <= q
    BY <1>1, <2>5, <2>6, <2>8, <2>10
  <2>12. QED BY <1>1, <2>5, <2>11
<1>3. /\ Cells \ walk.seen = {} /\ Unread(Page) = {} /\ walk.seen \union Cells # {}
  BY <1>2 DEF Done, Covered
<1>4. \A i \in Page : i \notin locked
  <2> SUFFICES ASSUME NEW i \in Page, i \in locked PROVE FALSE
    OBVIOUS
  <2>1. i <= q /\ i \in Nat
    BY <1>1, <1>3, RoomType, PassedOver
  <2>2. QED BY <1>1, <2>1
<1>5. \A i \in Page : \A e \in room[i].cells : In(e, Top + 1, n)
  <2>1. \A i \in Page : i \in Read
    BY <1>4 DEF Read
  <2>2. \A i \in Page : \A e \in room[i].cells : e \in walk.seen
    BY <1>3, <2>1 DEF Cells
  <2>3. QED BY <2>2 DEF From
<1>6. n # Top
  <2>1. walk.seen # {}
    BY <1>3
  <2>2. QED BY <2>1 DEF From
<1>7. n - Top = PageSize \/ n - Top >= 2 * PageSize
  BY <1>6 DEF From
<1>8. env.cells \in Nat /\ env.cells <= 3 * PageSize + 1
  BY UndisturbedIs
<1>9. room \in Seq(Event) /\ Refreshed
  BY DEF ColdType, RoomInv
<1>10. 1 <= Low
  BY <1>1
<1>11. QED
  BY <1>1, <1>5, <1>7, <1>8, <1>9, <1>10, CoverageSound

\* The page that ends the walk leaves the workspace current up to where it began.
LEMMA WalkEnds ==
  ASSUME ColdType, ColdStartAssumption, RoomInv, Undisturbed, WalkInv, RetryInv,
         GatherPage, Done
  PROVE  LiveInv'
<1>1. PICK q, n : From(q, n)
  BY GatherStep, WalkFrom
<1>2. /\ n \in Nat /\ q \in Nat /\ n <= Len(room) /\ Len(room) \in Nat /\ q <= n
      /\ token <= n /\ Low \in Nat /\ Low >= 1 /\ Positions = 1..Len(room)
  BY <1>1, PageType, RoomType DEF From
<1>3. /\ since' = token /\ token' = token /\ phase' = "live" /\ retry' = retry
      /\ env' = env /\ room' = room /\ Positions' = Positions
  BY GatherStep, StillRoom
<1>4. \A i \in Low..n : i > q => i \in have' \union stuck'
  BY <1>1, PageHeld
<1>5. have \subseteq have' /\ marker' <= n /\ \A i \in stuck' : i <= n
  BY <1>1, PageHeld
<1>6. ASSUME NEW j \in Positions, j <= n, NEW e \in room[j].cells
      PROVE  \E i \in have' \union stuck' : i >= j /\ e \in room[i].cells
  <2>1. j \in Nat /\ j >= 1
    BY <1>2
  <2>2. CASE j <= q
    <3>1. \E i \in have : i >= j /\ e \in room[i].cells
      BY <1>1, <1>6, <2>2 DEF From, Current
    <3>2. QED BY <1>5, <3>1
  <2>3. CASE j > q /\ j >= Low
    <3>1. j \in Low..n
      BY <1>2, <1>6, <2>1, <2>3
    <3>2. QED BY <1>4, <1>6, <2>1, <2>3, <3>1
  <2>4. CASE j > q /\ j < Low
    <3>1. In(e, 1, Low - 1) /\ e \in CellIds /\ Low > 1 /\ q < Low
      BY <1>2, <1>6, <2>1, <2>4, RoomType DEF In
    <3>2. In(e, Low, n)
      BY <1>1, <3>1, NothingBehind
    <3>3. PICK i \in Low..n : e \in room[i].cells
      BY <3>2 DEF In
    <3>4. i > q /\ i >= j
      BY <1>2, <2>1, <2>4, <3>3
    <3>5. QED BY <1>4, <3>3, <3>4
  <2>5. QED BY <1>2, <2>1, <2>2, <2>3, <2>4
<1>7. Current(have \union stuck, n)'
  BY <1>3, <1>6 DEF Current
<1>8. retry' = NoRetry
  BY <1>3, GatherStep DEF RetryInv
<1>9. LiveOver(n)'
  BY <1>2, <1>3, <1>5, <1>7, <1>8 DEF LiveOver, NoRetry
<1>10. n \in 0..Len(room)'
  BY <1>2, <1>3
<1>11. QED BY <1>3, <1>9, <1>10 DEF LiveInv

-----------------------------------------------------------------------------
(* The other steps.                                                        *)

\* The timeline only grows, at its end.
Grown ==
  /\ env' = env /\ Len(room) <= Len(room') /\ Len(room') \in Nat
  /\ Positions \subseteq Positions' /\ Positions' \subseteq Nat
  /\ \A i \in Positions : room'[i] = room[i]
  /\ \A i \in Positions' : i \in Positions \/ i > Len(room)

LEMMA StillGrown ==
  ASSUME ColdType, UNCHANGED <<env, room>>
  PROVE  Grown
BY StillRoom, RoomType DEF Grown

LEMMA ArriveGrown ==
  ASSUME ColdType, RoomInv, Undisturbed,
         NEW c \in CellIds, NEW late \in 0..env.skew, NEW sealed \in BOOLEAN,
         Arrive(c, late, sealed)
  PROVE  Grown
<1>1. /\ Len(room') = Len(room) + 1 /\ Positions' = Positions \union {Len(room) + 1}
      /\ \A i \in Positions : room'[i] = room[i]
  BY ArriveRoom
<1>2. env' = env
  BY DEF Arrive
<1>3. QED BY <1>1, <1>2, RoomType DEF Grown

\* Current, in the room as the step leaves it.
CurrentThen(U, q) ==
  \A j \in Positions' : j <= q =>
    \A e \in room'[j].cells : \E i \in U : i >= j /\ e \in room'[i].cells

\* What was current in a snapshot, in the walk and in a live workspace stays so.
LEMMA CurrentKept ==
  ASSUME ColdType, Grown, NEW T, NEW U, T \subseteq Positions, T \subseteq U,
         NEW q \in 0..Len(room), Current(T, q)
  PROVE  CurrentThen(U, q)
<1> SUFFICES ASSUME NEW j \in Positions', j <= q, NEW e \in room'[j].cells
             PROVE  \E i \in U : i >= j /\ e \in room'[i].cells
  BY DEF CurrentThen
<1>1. j \in Positions /\ e \in room[j].cells
  BY RoomType DEF Grown
<1>2. PICK i \in T : i >= j /\ e \in room[i].cells
  BY <1>1 DEF Current
<1>3. QED BY <1>2 DEF Grown

LEMMA SnapCurrent ==
  ASSUME ColdType, Grown, snap' = snap, NEW q \in 0..Len(room), Current(snap.have, q)
  PROVE  Current(snap.have, q)'
<1>1. snap.have \subseteq Positions /\ snap.have \subseteq snap'.have
  BY DEF ColdType
<1>2. CurrentThen(snap'.have, q)
  BY <1>1, CurrentKept
<1>3. QED BY <1>2 DEF Current, CurrentThen

LEMMA HaveCurrent ==
  ASSUME ColdType, Grown, have \subseteq have', NEW q \in 0..Len(room), Current(have, q)
  PROVE  Current(have, q)'
<1>1. have \subseteq Positions
  BY DEF ColdType
<1>2. CurrentThen(have', q)
  BY <1>1, CurrentKept
<1>3. QED BY <1>2 DEF Current, CurrentThen

LEMMA LiveCurrent ==
  ASSUME ColdType, Grown, have \union stuck \subseteq have' \union stuck',
         NEW q \in 0..Len(room), Current(have \union stuck, q)
  PROVE  Current(have \union stuck, q)'
<1>1. have \union stuck \subseteq Positions
  BY DEF ColdType
<1>2. CurrentThen(have' \union stuck', q)
  BY <1>1, CurrentKept
<1>3. QED BY <1>2 DEF Current, CurrentThen

\* The snapshot is left alone.
LEMMA SnapStill ==
  ASSUME ColdType, SnapInv, Grown, snap' = snap
  PROVE  SnapInv'
<1> SUFFICES ASSUME Usable(snap)'
             PROVE  \E q \in 0..Len(room') : /\ env'.backlog <= q /\ snap'.marker <= q
                                             /\ Current(snap.have, q)'
  BY DEF SnapInv
<1>1. Usable(snap)
  BY DEF Usable
<1>2. PICK q \in 0..Len(room) :
        env.backlog <= q /\ snap.marker <= q /\ Current(snap.have, q)
  BY <1>1 DEF SnapInv
<1>3. Current(snap.have, q)'
  BY <1>2, SnapCurrent
<1>4. q \in 0..Len(room')
  BY RoomType DEF Grown
<1>5. QED BY <1>2, <1>3, <1>4 DEF Grown

\* The room grows, or a key arrives, while the workspace is being built.
LEMMA WalkStill ==
  ASSUME ColdType, WalkInv, Grown,
         UNCHANGED <<token, phase, walk, have, stuck, marker>>
  PROVE  WalkInv'
<1> SUFFICES ASSUME phase = "gather" PROVE WalkInv'
  BY DEF WalkInv
<1>1. PICK q \in 0..Len(room) :
        /\ Current(have, q)
        /\ walk.fast => walk.stop <= q /\ env.backlog <= q
        /\ ~walk.fast => q = 0
        /\ walk.below = 0 => marker <= q /\ walk.seen = {} /\ stuck = {}
        /\ walk.below > 0 => \E n \in token..Len(room) : WalkOver(q, n)
  BY DEF WalkInv
<1>2. Current(have, q)' /\ q \in 0..Len(room')
  BY <1>1, HaveCurrent, RoomType DEF Grown
<1>3. ASSUME walk.below > 0
      PROVE  \E n \in token'..Len(room') : WalkOver(q, n)'
  <2>1. PICK n \in token..Len(room) : WalkOver(q, n)
    BY <1>1, <1>3
  <2>2. n \in Nat /\ walk.below \in Nat /\ Len(room) \in Nat /\ token \in Nat
    BY RoomType DEF ColdType
  <2>3. walk.below..n \subseteq Positions
    BY <1>3, <2>2, RoomType
  <2>4. \A e \in walk.seen : In(e, walk.below, n)'
    BY <2>1, <2>3 DEF WalkOver, In, Grown
  <2>5. n \in token'..Len(room')
    BY <2>2 DEF Grown
  <2>6. WalkOver(q, n)'
    BY <2>1, <2>4 DEF WalkOver
  <2>7. QED BY <2>5, <2>6
<1>4. QED BY <1>1, <1>2, <1>3 DEF WalkInv, Grown

\* The room grows, or the workspace holds more, while it is live.
LEMMA LiveStill ==
  ASSUME ColdType, LiveInv, Grown, phase = "live", have \subseteq have',
         UNCHANGED <<token, since, stuck, marker, retry>>
  PROVE  LiveInv'
<1>1. since = token
  BY DEF LiveInv
<1>2. PICK q \in 0..Len(room) : LiveOver(q)
  BY DEF LiveInv
<1>3. Current(have \union stuck, q)'
  BY <1>2, LiveCurrent DEF LiveOver
<1>4. LiveOver(q)' /\ q \in 0..Len(room')
  BY <1>2, <1>3, RoomType DEF LiveOver, Grown
<1>5. QED BY <1>1, <1>4 DEF LiveInv

\* The opening starts the walk from what the snapshot was current up to, or from
\* nothing.
LEMMA OpenWalk ==
  ASSUME ColdType, RoomInv, SnapInv, Open
  PROVE  WalkInv'
<1>1. /\ room' = room /\ env' = env /\ have' = Base(snap).have /\ marker' = Base(snap).marker
      /\ walk'.below = 0 /\ walk'.seen = {} /\ stuck' = {}
      /\ walk'.fast = Usable(snap) /\ walk'.stop = Base(snap).marker
  BY DEF Open
<1>2. Len(room) \in Nat /\ Positions' = Positions /\ Positions = 1..Len(room)
  BY <1>1, RoomType, StillRoom
<1>3. CASE Usable(snap)
  <2>1. PICK q \in 0..Len(room) :
          env.backlog <= q /\ snap.marker <= q /\ Current(snap.have, q)
    BY <1>3 DEF SnapInv
  <2>2. have' = snap.have /\ marker' = snap.marker /\ walk'.stop = snap.marker
    BY <1>1, <1>3 DEF Base
  <2>3. Current(have, q)'
    BY <1>1, <1>2, <2>1, <2>2 DEF Current
  <2>4. QED BY <1>1, <1>3, <2>1, <2>2, <2>3 DEF WalkInv
<1>4. CASE ~Usable(snap)
  <2>1. have' = {} /\ marker' = 0 /\ walk'.stop = 0
    BY <1>1, <1>4 DEF Base, NoSnap
  <2>2. Current(have, 0)'
    BY <1>2 DEF Current
  <2>3. 0 \in 0..Len(room') /\ ~walk'.fast
    BY <1>1, <1>2, <1>4
  <2>4. QED BY <1>1, <2>1, <2>2, <2>3 DEF WalkInv
<1>5. QED BY <1>3, <1>4

\* A sync response brings all that came since the last one: no gap, and in a
\* room whose backlog alone can come sealed nothing more to list.
LEMMA SyncLive ==
  ASSUME ColdType, RoomInv, Undisturbed, LiveInv, RetryInv, SyncResponse
  PROVE  LiveInv' /\ RetryInv'
<1> DEFINE new == Delivered(since)
           read == new \ locked
<1>1. /\ phase = "live" /\ have' = have \union read /\ marker' = Raised(marker, read)
      /\ stuck' = stuck \union (new \intersect locked)
      /\ token' = Len(room) /\ since' = Len(room)
      /\ UNCHANGED <<env, room, locked, phase, walk, retry, snap>>
  BY DEF SyncResponse
<1>2. Len(room) \in Nat /\ Positions = 1..Len(room) /\ Positions' = Positions
  BY <1>1, RoomType, StillRoom
<1>3. new = {i \in Positions : i > since}
  <2>1. Len(room) <= env.limit /\ env.limit \in Nat
    BY <1>2, UndisturbedIs DEF RoomInv
  <2>2. \A i \in Positions : i > Len(room) - env.limit
    BY <1>2, <2>1
  <2>3. QED BY <2>2 DEF Delivered
<1> HIDE DEF new, read
<1>4. PICK q \in 0..Len(room) : LiveOver(q)
  BY <1>1 DEF LiveInv
<1>5. q \in Nat /\ q <= Len(room) /\ since <= q /\ marker <= Len(room) /\ marker \in Nat
      /\ since \in Nat /\ env.backlog <= since /\ env.backlog \in Nat
  <2>1. since = token /\ env.backlog <= token
    BY <1>1 DEF LiveInv, RoomInv
  <2>2. QED BY <1>2, <1>4, <2>1, UndisturbedIs DEF LiveOver, ColdType
<1>6. Current(have \union stuck, Len(room))'
  <2> SUFFICES ASSUME NEW j \in Positions, NEW e \in room[j].cells
               PROVE  \E i \in have' \union stuck' : i >= j /\ e \in room[i].cells
    BY <1>1, <1>2 DEF Current
  <2>1. CASE j > since
    <3>1. j \in new /\ j \in Nat
      BY <1>2, <1>3, <2>1
    <3>2. j \in have' \union stuck'
      BY <1>1, <3>1 DEF read
    <3>3. QED BY <3>1, <3>2
  <2>2. CASE j <= since
    <3>1. j <= q
      BY <1>2, <1>5, <2>2
    <3>2. \E i \in have \union stuck : i >= j /\ e \in room[i].cells
      BY <1>4, <3>1 DEF LiveOver, Current
    <3>3. QED BY <1>1, <3>2
  <2>3. QED BY <1>2, <1>5, <2>1, <2>2
<1>7. Raised(marker, read) <= Len(room)
  <2>1. \A i \in read : Ots(i) \in Nat /\ Ots(i) <= Len(room)
    BY <1>2, <1>3, RoomType DEF read, ColdType
  <2>2. QED BY <1>2, <1>5, <2>1, RaisedType
<1>8. \A i \in stuck' \union retry'.todo \union retry'.still : i <= Len(room)
  <2>1. stuck' \subseteq Positions
    BY <1>1, <1>3 DEF ColdType
  <2>2. retry'.todo \subseteq Positions /\ retry'.still \subseteq Positions
    BY <1>1 DEF ColdType
  <2>3. QED BY <1>2, <2>1, <2>2
<1>9. LiveOver(Len(room))'
  BY <1>1, <1>2, <1>6, <1>7, <1>8 DEF LiveOver
<1>10. LiveInv'
  BY <1>1, <1>2, <1>9 DEF LiveInv
<1>11. RetryInv'
  <2>1. CASE retry = NoRetry
    BY <1>1, <2>1 DEF RetryInv
  <2>2. CASE retry # NoRetry
    <3>1. env.retrying /\ stuck \subseteq retry.todo \union retry.still \union have
      BY <2>2 DEF RetryInv
    <3>2. new \intersect locked = {}
      <4>1. env.sealed \in {"never", "backlog"}
        BY <3>1, UndisturbedIs
      <4>2. \A i \in locked : i <= env.backlog /\ i \in Positions
        BY <1>5, <4>1 DEF RoomInv, ColdType
      <4>3. QED BY <1>2, <1>3, <1>5, <4>2
    <3>3. QED BY <1>1, <3>1, <3>2 DEF RetryInv
  <2>3. QED BY <2>1, <2>2
<1>12. QED BY <1>10, <1>11

\* A retry keeps account of what was listed until it replaces the list.
LEMMA RetryLive ==
  ASSUME ColdType, LiveInv, RetryInv, Retry
  PROVE  LiveInv' /\ RetryInv' /\ WalkInv'
<1>1. UNCHANGED <<env, room, locked, token, phase, walk, since, snap>> /\ Grown
  BY RetryStill, StillGrown
<1>2. phase = "live"
  <2>1. retry.on => retry # NoRetry
    BY DEF NoRetry
  <2>2. RetryStart => phase = "live"
    BY DEF RetryStart
  <2>3. RetryStart \/ retry.on
    BY RetryStill
  <2>4. QED BY <2>1, <2>2, <2>3 DEF RetryInv
<1> SUFFICES LiveInv' /\ RetryInv'
  BY <1>1, <1>2 DEF WalkInv
<1>3. PICK q \in 0..Len(room) : LiveOver(q)
  BY <1>2 DEF LiveInv
<1>4. since = token
  BY <1>2 DEF LiveInv
<1>5. /\ q \in Nat /\ q <= Len(room) /\ Len(room) \in Nat /\ Positions' = Positions
  BY <1>1, RoomType, StillRoom
<1>6. ASSUME have \union stuck \subseteq have' \union stuck', marker' <= q,
             \A i \in stuck' \union retry'.todo \union retry'.still : i <= q
      PROVE  LiveInv'
  <2>1. Current(have \union stuck, q)'
    BY <1>1, <1>3, <1>6, LiveCurrent DEF LiveOver
  <2>2. LiveOver(q)'
    BY <1>1, <1>3, <1>6, <2>1 DEF LiveOver
  <2>3. QED BY <1>1, <1>4, <1>5, <2>2 DEF LiveInv
<1>7. CASE RetryStart
  <2>1. /\ retry' = [on |-> TRUE, todo |-> stuck, still |-> {}] /\ env.retrying
        /\ UNCHANGED <<have, stuck, marker>>
    BY <1>7 DEF RetryStart
  <2>2. retry'.todo = stuck /\ retry'.still = {}
    BY <2>1
  <2>3. LiveInv'
    BY <1>3, <1>6, <2>1, <2>2 DEF LiveOver
  <2>4. RetryInv'
    BY <1>1, <1>2, <2>1, <2>2 DEF RetryInv
  <2>5. QED BY <2>3, <2>4
<1>8. CASE RetryEnd
  <2>1. /\ retry.on /\ retry.todo = {} /\ stuck' = retry.still /\ retry' = NoRetry
        /\ UNCHANGED <<have, marker>>
    BY <1>8 DEF RetryEnd
  <2>2. stuck \subseteq retry.still \union have
    BY <2>1 DEF RetryInv, NoRetry
  <2>3. retry'.todo = {} /\ retry'.still = {}
    BY <2>1 DEF NoRetry
  <2>4. LiveInv'
    BY <1>3, <1>6, <2>1, <2>2, <2>3 DEF LiveOver
  <2>5. QED BY <2>1, <2>4 DEF RetryInv
<1>9. ASSUME NEW i \in retry.todo, RetryRead(i)
      PROVE  LiveInv' /\ RetryInv'
  <2>1. /\ retry.on /\ retry'.todo = retry.todo \ {i} /\ retry'.still = retry.still
        /\ have' = have \union {i} /\ marker' = Raised(marker, {i}) /\ stuck' = stuck
    BY <1>9 DEF RetryRead, ColdType
  <2>2. env.retrying /\ stuck \subseteq retry.todo \union retry.still \union have
    BY <2>1 DEF RetryInv, NoRetry
  <2>3. i \in Positions /\ i <= q /\ Ots(i) <= i /\ Ots(i) \in Nat /\ i \in Nat
    BY <1>3, RoomType DEF LiveOver, ColdType
  <2>4. Raised(marker, {i}) <= q
    <3>1. marker \in Nat /\ marker <= q
      BY <1>3 DEF LiveOver, ColdType
    <3>2. Ots(i) <= q
      BY <1>5, <2>3
    <3>3. QED BY <1>5, <2>3, <3>1, <3>2, RaisedType
  <2>5. LiveInv'
    BY <1>3, <1>6, <2>1, <2>4 DEF LiveOver
  <2>6. QED BY <1>1, <1>2, <2>1, <2>2, <2>5 DEF RetryInv
<1>10. ASSUME NEW i \in retry.todo, RetryStillStuck(i)
       PROVE  LiveInv' /\ RetryInv'
  <2>1. /\ retry.on /\ retry'.todo = retry.todo \ {i} /\ retry'.still = retry.still \union {i}
        /\ UNCHANGED <<have, marker, stuck>>
    BY <1>10 DEF RetryStillStuck, ColdType
  <2>2. env.retrying /\ stuck \subseteq retry.todo \union retry.still \union have
    BY <2>1 DEF RetryInv, NoRetry
  <2>3. LiveInv'
    BY <1>3, <1>6, <2>1 DEF LiveOver
  <2>4. QED BY <1>1, <1>2, <2>1, <2>2, <2>3 DEF RetryInv
<1>11. QED BY <1>7, <1>8, <1>9, <1>10 DEF Retry

\* What is saved with nothing unread is current where the workspace was.
LEMMA SaveSnap ==
  ASSUME ColdType, RoomInv, LiveInv, SaveSnapshot
  PROVE  SnapInv'
<1>1. /\ phase = "live" /\ env' = env /\ room' = room
      /\ snap'.marker = marker /\ snap'.have = have /\ snap'.unread = Cardinality(stuck)
  BY DEF SaveSnapshot
<1>2. PICK q \in 0..Len(room) : LiveOver(q)
  BY <1>1 DEF LiveInv
<1>3. env.backlog <= q
  <2>1. env.backlog <= token /\ token = since
    BY <1>1 DEF RoomInv, LiveInv
  <2>2. env.backlog \in Nat /\ since \in Nat /\ q \in Nat
    BY RoomType DEF ColdType, Surroundings
  <2>3. QED BY <1>2, <2>1, <2>2 DEF LiveOver
<1> SUFFICES ASSUME Usable(snap)' PROVE SnapInv'
  BY DEF SnapInv
<1>4. stuck = {}
  BY <1>1, StuckFinite DEF Usable
<1>5. Current(have, q) /\ marker <= q
  <2>1. have \union stuck = have
    BY <1>4
  <2>2. QED BY <1>2, <2>1 DEF LiveOver
<1>6. Current(snap.have, q)'
  BY <1>1, <1>5, StillRoom DEF Current
<1>7. QED BY <1>1, <1>3, <1>5, <1>6 DEF SnapInv

-----------------------------------------------------------------------------
(* The invariant holds, and with it the property.                          *)

LEMMA ColdStep ==
  ASSUME ColdInv, ColdStartAssumption, [Next]_vars
  PROVE  ColdInv'
<1>1. ColdType /\ ColdType'
  BY ColdTypeStep DEF ColdInv
<1>2. env' = env
  <2>1. CASE UNCHANGED vars
    BY <2>1 DEF vars
  <2>2. CASE Retry
    BY <2>2, RetryStill
  <2>3. CASE GatherPage
    BY <2>3, GatherStep
  <2>4. CASE Next /\ ~Retry /\ ~GatherPage
    BY <2>4 DEF Next, Arrive, KeyArrives, Open, SyncResponse, SyncRestart, SessionSync,
                SaveSnapshot, CheckIntegrity, Crash
  <2>5. QED BY <2>1, <2>2, <2>3, <2>4
<1> SUFFICES ASSUME Undisturbed
             PROVE  RoomInv' /\ SnapInv' /\ WalkInv' /\ LiveInv' /\ RetryInv'
  BY <1>1, <1>2 DEF ColdInv, Undisturbed
<1>3. RoomInv /\ SnapInv /\ WalkInv /\ LiveInv /\ RetryInv
  BY DEF ColdInv
<1>4. RoomInv'
  BY <1>1, <1>3, RoomStep
<1> DEFINE Rest == SnapInv' /\ WalkInv' /\ LiveInv' /\ RetryInv'
<1> SUFFICES Rest
  BY <1>4
\* Steps that touch none of what the parts speak of but the room and the keys.
<1>5. ASSUME Grown, UNCHANGED <<token, phase, walk, have, stuck, marker, since, retry, snap>>
      PROVE  Rest
  <2>1. SnapInv' /\ WalkInv'
    BY <1>1, <1>3, <1>5, SnapStill, WalkStill
  <2>2. LiveInv'
    <3>1. CASE phase = "live"
      BY <1>1, <1>3, <1>5, <3>1, LiveStill
    <3>2. CASE phase # "live"
      BY <1>5, <3>2 DEF LiveInv
    <3>3. QED BY <3>1, <3>2
  <2>3. RetryInv'
    BY <1>3, <1>5 DEF RetryInv, Grown
  <2>4. QED BY <2>1, <2>2, <2>3
<1>6. CASE UNCHANGED vars
  BY <1>1, <1>5, <1>6, StillGrown DEF vars
<1>7. CASE \E c \in CellIds, late \in 0..env.skew, sealed \in BOOLEAN : Arrive(c, late, sealed)
  <2>1. PICK c \in CellIds, late \in 0..env.skew, sealed \in BOOLEAN : Arrive(c, late, sealed)
    BY <1>7
  <2>2. Grown
    BY <1>1, <1>3, <2>1, ArriveGrown
  <2>3. UNCHANGED <<token, phase, walk, have, stuck, marker, since, retry, snap>>
    BY <2>1 DEF Arrive
  <2>4. QED BY <1>5, <2>2, <2>3
<1>8. CASE KeyArrives
  BY <1>1, <1>5, <1>8, StillGrown DEF KeyArrives
<1>9. CASE Open
  <2>1. WalkInv'
    BY <1>1, <1>3, <1>9, OpenWalk
  <2>2. SnapInv'
    BY <1>1, <1>3, <1>9, StillGrown, SnapStill DEF Open
  <2>3. phase = "closed" /\ phase' = "gather" /\ retry' = retry
    BY <1>9 DEF Open
  <2>4. LiveInv' /\ RetryInv'
    BY <1>3, <2>3 DEF LiveInv, RetryInv
  <2>5. QED BY <2>1, <2>2, <2>4
<1>10. CASE GatherPage
  <2>1. SnapInv'
    BY <1>1, <1>3, <1>10, GatherStep, StillGrown, SnapStill
  <2>2. phase = "gather" /\ retry' = retry
    BY <1>10, GatherStep
  <2>3. RetryInv'
    BY <1>3, <2>2 DEF RetryInv
  <2>4. CASE Done
    <3>1. LiveInv'
      BY <1>1, <1>3, <1>10, <2>4, WalkEnds
    <3>2. WalkInv'
      BY <1>10, <2>4, GatherStep DEF WalkInv
    <3>3. QED BY <2>1, <2>3, <3>1, <3>2
  <2>5. CASE ~Done
    <3>1. WalkInv'
      BY <1>1, <1>3, <1>10, <2>5, WalkOn
    <3>2. LiveInv'
      BY <1>10, <2>5, GatherStep DEF LiveInv
    <3>3. QED BY <2>1, <2>3, <3>1, <3>2
  <2>6. QED BY <2>4, <2>5
<1>11. CASE SyncResponse
  <2>1. LiveInv' /\ RetryInv'
    BY <1>1, <1>3, <1>11, SyncLive
  <2>2. SnapInv'
    BY <1>1, <1>3, <1>11, StillGrown, SnapStill DEF SyncResponse
  <2>3. WalkInv'
    BY <1>11 DEF SyncResponse, WalkInv
  <2>4. QED BY <2>1, <2>2, <2>3
<1>12. CASE SyncRestart
  BY <1>3, <1>12 DEF SyncRestart, LiveInv
<1>13. CASE SessionSync
  BY <1>1, <1>13, UndisturbedIs DEF SessionSync
<1>14. CASE Retry
  <2>1. LiveInv' /\ RetryInv' /\ WalkInv'
    BY <1>1, <1>3, <1>14, RetryLive
  <2>2. SnapInv'
    BY <1>1, <1>3, <1>14, RetryStill, StillGrown, SnapStill
  <2>3. QED BY <2>1, <2>2
<1>15. CASE SaveSnapshot
  <2>1. SnapInv'
    BY <1>1, <1>3, <1>15, SaveSnap
  <2>2. /\ phase = "live" /\ phase' = phase /\ Grown
        /\ UNCHANGED <<token, since, have, stuck, marker, retry>>
    BY <1>15, <1>1, StillGrown DEF SaveSnapshot
  <2>3. LiveInv'
    BY <1>1, <1>3, <2>2, LiveStill
  <2>4. WalkInv' /\ RetryInv'
    BY <1>3, <2>2 DEF WalkInv, RetryInv, Grown
  <2>5. QED BY <2>1, <2>3, <2>4
<1>16. CASE CheckIntegrity
  <2>1. /\ phase = "live" /\ phase' = phase /\ Grown /\ have \subseteq have'
        /\ UNCHANGED <<token, since, stuck, marker, retry, snap>>
    BY <1>16, <1>1, StillGrown DEF CheckIntegrity
  <2>2. LiveInv' /\ SnapInv'
    BY <1>1, <1>3, <2>1, LiveStill, SnapStill
  <2>3. WalkInv' /\ RetryInv'
    BY <1>3, <2>1 DEF WalkInv, RetryInv, Grown
  <2>4. QED BY <2>2, <2>3
<1>17. CASE Crash
  <2>1. SnapInv'
    BY <1>1, <1>3, <1>17, StillGrown, SnapStill DEF Crash
  <2>2. phase' = "closed" /\ retry' = NoRetry
    BY <1>17 DEF Crash
  <2>3. QED BY <2>1, <2>2 DEF WalkInv, LiveInv, RetryInv
<1>18. QED
  BY <1>6, <1>7, <1>8, <1>9, <1>10, <1>11, <1>12, <1>13, <1>14, <1>15, <1>16, <1>17 DEF Next

LEMMA ColdInit ==
  ASSUME Init, ColdStartAssumption
  PROVE  ColdInv
<1>1. env \in Surroundings /\ Len(room) = 0 /\ Positions = {} /\ room \in Seq(Event)
  BY DEF Init, ColdStartAssumption, Positions
<1>2. ColdType
  BY <1>1 DEF Init, ColdType, NoWalk, NoRetry, NoSnap
<1>3. env.events \in Nat
  BY <1>1 DEF Surroundings
<1>4. RoomInv
  BY <1>1, <1>3 DEF Init, RoomInv, Refreshed
<1>5. SnapInv /\ WalkInv /\ LiveInv /\ RetryInv
  BY DEF Init, SnapInv, WalkInv, LiveInv, RetryInv, Usable
<1>6. QED BY <1>2, <1>4, <1>5 DEF ColdInv

\* The types hold, and in undisturbed surroundings: what a workspace holds is
\* current up to a position of the stream that its marker does not pass, in the
\* snapshot (is_fast_path_usable), during the walk (gather_history) and while it
\* follows the room (start_sync), where that position is at or past the token.
THEOREM ColdStartCurrent == Spec => []ColdInv
<1>1. Init => ColdInv
  BY ColdInit, ColdStartAssumption
<1>2. ColdInv /\ [Next]_vars => ColdInv'
  BY ColdStep, ColdStartAssumption
<1>3. QED BY <1>1, <1>2, PTL DEF Spec

\* No silent hole: in undisturbed surroundings the newest event of every cell that
\* the room held when the sync last answered has been applied or is listed as
\* unreadable (gather_history's marker and coverage stops, start_sync,
\* retry_undecryptable, snapshot).
THEOREM NoHole == Spec => []NoSilentHole
<1>1. ASSUME ColdInv PROVE NoSilentHole
  <2> SUFFICES ASSUME Undisturbed, phase = "live", NEW c \in CellIds,
                      {i \in Writes(c) : i <= since} # {}
               PROVE  LET known == {i \in Writes(c) : i <= since}
                      IN \E i \in Writes(c) : i >= Max(known) /\ i \in have \union stuck
    BY DEF NoSilentHole
  <2> DEFINE known == {i \in Writes(c) : i <= since}
  <2>1. ColdType /\ LiveInv
    BY <1>1 DEF ColdInv
  <2>2. PICK q \in 0..Len(room) : LiveOver(q)
    BY <2>1 DEF LiveInv
  <2>3. known \in SUBSET Nat /\ known # {} /\ since \in Nat /\ \A i \in known : i <= since
    BY <2>1, RoomType DEF Writes, ColdType
  <2>4. Max(known) \in known
    BY <2>3, MaxOf
  <2>5. PICK j \in known : j = Max(known)
    BY <2>4
  <2>6. j \in Positions /\ c \in room[j].cells /\ j <= q
    BY <2>1, <2>2, <2>3, RoomType DEF Writes, LiveOver
  <2>7. PICK i \in have \union stuck : i >= j /\ c \in room[i].cells
    BY <2>2, <2>6 DEF LiveOver, Current
  <2>8. i \in Writes(c)
    BY <2>1, <2>7 DEF Writes, ColdType
  <2> HIDE DEF known
  <2>9. \E k \in Writes(c) : k >= Max(known) /\ k \in have \union stuck
    BY <2>5, <2>7, <2>8
  <2>10. QED BY <2>9 DEF known
<1>2. QED BY <1>1, ColdStartCurrent, PTL
=============================================================================
