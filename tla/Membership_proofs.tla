-------------------------- MODULE Membership_proofs --------------------------
(***************************************************************************)
(* What holds of every workspace, for any people, bounds and surroundings: *)
(* while clients act on stores that have caught up, nobody can leave       *)
(* others behind without an admin (StrandInv), and an invite link records  *)
(* every admission before it happens (UsesInv).                            *)
(*                                                                         *)
(* Both rest on what an operation under way has already decided, from the  *)
(* store of its client, about the room it is going to change.              *)
(***************************************************************************)
EXTENDS Membership, FiniteSetTheorems, TLAPS

\* What the room, the stores, the operations and the sweeps range over.
Mems == {"out", "knock", "invite", "join"}
Link == [made : BOOLEAN, uses : Nat, revoked : BOOLEAN]
Room == [mem : [Users -> Mems], role : [Users -> Roles], knock : BOOLEAN, link : Link]
Op ==
  [kind : {"none", "go", "forget", "mint"}]
    \cup [kind : {"role"}, new : [Users -> Roles], leave : BOOLEAN]
    \cup [kind : {"check"}, all : BOOLEAN]
    \cup [kind : {"kick"}, rest : SUBSET Users]
    \cup [kind : {"revoke"}, base : Link]
Sweep ==
  {s \in [todo : SUBSET Users, on : Users \cup {NoOne}, step : {"none", "count", "invite"},
          base : Link] : s.step # "none" => s.on \in Users}
Admitter == [sweep : Sweep, handled : SUBSET Users]

\* The types of what the two guarantees speak of.
RoomType ==
  /\ env \in Envs
  /\ room \in Room
  /\ seen \in [Users -> Room]
  /\ op \in [Users -> Op]
  /\ adm \in [Users -> Admitter]

\* The surroundings, as the assumption has them.
LEMMA EnvFacts ==
  ASSUME RoomType
  PROVE  /\ env.members \subseteq Users \X Roles /\ <<Creator, "admin">> \in env.members
         /\ \A m, n \in env.members : m[1] = n[1] => m = n
         /\ env.managers \subseteq Users /\ env.limit \in Nat /\ env.acts \in Nat
         /\ Creator \in Users /\ NoOne \notin Users
  BY MembershipAssumption DEF RoomType

-----------------------------------------------------------------------------
(* What the assignments of the model do. *)

\* One membership of one room.
LEMMA MemEdit ==
  ASSUME NEW r \in Room, NEW u \in Users, NEW m \in Mems
  PROVE  LET s == [r EXCEPT !.mem[u] = m] IN
         /\ s \in Room /\ s.role = r.role /\ s.link = r.link
         /\ \A v \in Users : s.mem[v] = IF v = u THEN m ELSE r.mem[v]
<1>1. r.mem \in [Users -> Mems]
  BY DEF Room
<1> DEFINE n == [r.mem EXCEPT ![u] = m]
<1>2. n \in [Users -> Mems] /\ \A v \in Users : n[v] = IF v = u THEN m ELSE r.mem[v]
  BY <1>1
<1>3. [r EXCEPT !.mem[u] = m] = [r EXCEPT !.mem = n]
  OBVIOUS
<1> HIDE DEF n
<1>4. QED BY <1>2, <1>3 DEF Room

\* A new membership, at the homeserver.
LEMMA RoomEdit ==
  ASSUME RoomType, NEW u \in Users, NEW m \in Mems, SetMem(u, m)
  PROVE  /\ room' \in Room /\ room'.role = room.role /\ room'.link = room.link
         /\ \A v \in Users : room'.mem[v] = IF v = u THEN m ELSE room.mem[v]
  BY MemEdit DEF SetMem, RoomType

\* A new membership, in the user's own store.
LEMMA StoreEdit ==
  ASSUME RoomType, NEW u \in Users, NEW m \in Mems, StoreMem(u, m)
  PROVE  /\ seen' \in [Users -> Room] /\ \A v \in Users \ {u} : seen'[v] = seen[v]
         /\ seen'[u].role = seen[u].role /\ seen'[u].link = seen[u].link
         /\ \A v \in Users : seen'[u].mem[v] = IF v = u THEN m ELSE seen[u].mem[v]
<1> DEFINE s == [seen[u] EXCEPT !.mem[u] = m]
<1>1. seen' = [seen EXCEPT ![u] = s]
  BY DEF StoreMem
<1>2. /\ s \in Room /\ s.role = seen[u].role /\ s.link = seen[u].link
      /\ \A v \in Users : s.mem[v] = IF v = u THEN m ELSE seen[u].mem[v]
  BY MemEdit DEF RoomType
<1> HIDE DEF s
<1>3. seen' \in [Users -> Room] /\ \A v \in Users : seen'[v] = IF v = u THEN s ELSE seen[v]
  BY <1>1, <1>2 DEF RoomType
<1>4. QED BY <1>2, <1>3

\* A sync response.
LEMMA SyncEdit ==
  ASSUME RoomType, NEW u \in Users, Sync(u)
  PROVE  /\ seen' \in [Users -> Room] /\ \A v \in Users \ {u} : seen'[v] = seen[v]
         /\ \/ seen'[u] = room
            \/ /\ seen'[u].role = seen[u].role /\ seen'[u].link = seen[u].link
               /\ \A v \in Users : seen'[u].mem[v] = IF v = u THEN room.mem[u] ELSE seen[u].mem[v]
<1> DEFINE s == [seen[u] EXCEPT !.mem[u] = room.mem[u]]
<1>1. seen' = [seen EXCEPT ![u] = room] \/ seen' = [seen EXCEPT ![u] = s]
  BY DEF Sync, News
<1>2. room.mem[u] \in Mems /\ seen[u] \in Room
  BY DEF RoomType, Room
<1>3. /\ s \in Room /\ s.role = seen[u].role /\ s.link = seen[u].link
      /\ \A v \in Users : s.mem[v] = IF v = u THEN room.mem[u] ELSE seen[u].mem[v]
  BY <1>2, MemEdit
<1> HIDE DEF s
<1>4. seen' \in [Users -> Room] /\ (\A v \in Users \ {u} : seen'[v] = seen[v])
      /\ (seen'[u] = room \/ seen'[u] = s)
  BY <1>1, <1>3 DEF RoomType
<1>5. QED BY <1>3, <1>4

\* The operation of one user.
LEMMA OpEdit ==
  ASSUME RoomType, NEW u \in Users, NEW o \in Op, Do(u, o)
  PROVE  op' \in [Users -> Op] /\ op'[u] = o /\ \A v \in Users \ {u} : op'[v] = op[v]
  BY DEF Do, RoomType

\* A new role, a departure and the other operations are operations.
LEMMA OpKinds ==
  /\ NoOp \in Op /\ NoOp.kind = "none"
  /\ \A k \in {"go", "forget", "mint"} : [kind |-> k] \in Op /\ [kind |-> k].kind = k
  /\ \A n \in [Users -> Roles], b \in BOOLEAN :
       LET o == [kind |-> "role", new |-> n, leave |-> b] IN
       o \in Op /\ o.kind = "role" /\ o.new = n /\ o.leave = b
  /\ \A b \in BOOLEAN :
       LET o == [kind |-> "check", all |-> b] IN o \in Op /\ o.kind = "check" /\ o.all = b
  /\ \A r \in SUBSET Users :
       LET o == [kind |-> "kick", rest |-> r] IN o \in Op /\ o.kind = "kick" /\ o.rest = r
  /\ \A l \in Link :
       LET o == [kind |-> "revoke", base |-> l] IN o \in Op /\ o.kind = "revoke" /\ o.base = l
  BY DEF Op, NoOp

\* What an operation under way holds.
LEMMA OpHolds ==
  ASSUME NEW o \in Op
  PROVE  /\ o.kind \in {"none", "go", "forget", "mint", "role", "check", "kick", "revoke"}
         /\ o.kind = "none" => o = NoOp
         /\ o.kind = "role" => o.new \in [Users -> Roles] /\ o.leave \in BOOLEAN
         /\ o.kind = "check" => o.all \in BOOLEAN
         /\ o.kind = "kick" => o.rest \in SUBSET Users
         /\ o.kind = "kick" => \A r \in SUBSET Users :
              LET p == [o EXCEPT !.rest = r] IN p \in Op /\ p.kind = "kick" /\ p.rest = r
         /\ o.kind = "revoke" => o.base \in Link
  BY DEF Op, NoOp

\* The sweep of one user's useAutoAdmit.
LEMMA SweepEdit ==
  ASSUME RoomType, NEW u \in Users, NEW s \in Sweep, WithSweep(u, s)
  PROVE  adm' \in [Users -> Admitter] /\ adm'[u].sweep = s
         /\ \A v \in Users \ {u} : adm'[v] = adm[v]
<1> DEFINE a == [adm[u] EXCEPT !.sweep = s]
<1>1. adm' = [adm EXCEPT ![u] = a]
  BY DEF WithSweep
<1>2. a \in Admitter /\ a.sweep = s
  BY DEF Admitter, RoomType
<1> HIDE DEF a
<1>3. QED BY <1>1, <1>2 DEF RoomType

\* What a sweep at rest, or between two knocks, is.
LEMMA RestingSweep ==
  /\ Resting \in Sweep /\ Resting.step = "none"
  /\ \A t \in SUBSET Users :
       [Resting EXCEPT !.todo = t] \in Sweep /\ [Resting EXCEPT !.todo = t].step = "none"
  BY DEF Resting, Sweep, NoLink, Link

\* Leaving for the list keeps the request the sweep is waiting for.
LEMMA ListEdit ==
  ASSUME RoomType, NEW u \in Users, EnterList(u)
  PROVE  /\ adm' \in [Users -> Admitter] /\ \A v \in Users \ {u} : adm'[v] = adm[v]
         /\ adm'[u].sweep.step = adm[u].sweep.step /\ adm'[u].sweep.base = adm[u].sweep.base
<1> DEFINE s == [adm[u].sweep EXCEPT !.todo = {}]
           a == [adm[u] EXCEPT !.sweep = s, !.handled = {}]
<1>1. adm' = [adm EXCEPT ![u] = a]
  BY DEF EnterList, RoomType
<1>2. adm[u] \in Admitter /\ adm[u].sweep \in Sweep
  BY DEF RoomType, Admitter
<1>3. s \in Sweep /\ s.step = adm[u].sweep.step /\ s.base = adm[u].sweep.base
  BY <1>2 DEF Sweep
<1> HIDE DEF s
<1>4. a \in Admitter /\ a.sweep = s
  BY <1>2, <1>3 DEF Admitter
<1> HIDE DEF a
<1>5. QED BY <1>1, <1>3, <1>4 DEF RoomType

\* A step of NextKnock takes one knock; when the link verifies, the use to be
\* counted is one more than the store has.
LEMMA KnockEdit ==
  ASSUME RoomType, NEW u \in Users, NextKnock(u)
  PROVE  /\ adm' \in [Users -> Admitter] /\ \A v \in Users \ {u} : adm'[v] = adm[v]
         /\ \/ /\ adm'[u].sweep.step = adm[u].sweep.step
               /\ adm'[u].sweep.base = adm[u].sweep.base
            \/ /\ Verify(seen[u].link) /\ adm'[u].sweep.step = "count"
               /\ adm'[u].sweep.base.made = seen[u].link.made
               /\ adm'[u].sweep.base.uses = seen[u].link.uses + 1
<1> DEFINE link == seen[u].link
           counted == [link EXCEPT !.uses = @ + 1]
<1>1. PICK v \in adm[u].sweep.todo :
        adm' = [adm EXCEPT ![u].handled = @ \cup {v},
                  ![u].sweep = IF Verify(link)
                               THEN [[adm[u].sweep EXCEPT !.todo = @ \ {v}]
                                       EXCEPT !.on = v, !.step = "count", !.base = counted]
                               ELSE [adm[u].sweep EXCEPT !.todo = @ \ {v}]]
  BY DEF NextKnock
<1>2. adm[u] \in Admitter /\ adm[u].sweep \in Sweep /\ v \in Users /\ link \in Link
  BY DEF RoomType, Admitter, Sweep, Room
<1>3. counted \in Link /\ counted.made = link.made /\ counted.uses = link.uses + 1
  BY <1>2 DEF Link
<1> HIDE DEF counted, link
<1> DEFINE next == [adm[u].sweep EXCEPT !.todo = @ \ {v}]
<1>4. /\ next \in Sweep /\ next.step = adm[u].sweep.step /\ next.base = adm[u].sweep.base
  BY <1>2 DEF Sweep
<1> DEFINE s == IF Verify(link) THEN [next EXCEPT !.on = v, !.step = "count", !.base = counted]
                ELSE next
           h == adm[u].handled \cup {v}
<1>5. /\ s \in Sweep
      /\ ~Verify(link) => s.step = adm[u].sweep.step /\ s.base = adm[u].sweep.base
      /\ Verify(link) => s.step = "count" /\ s.base = counted
  <2> HIDE DEF next
  <2>1. QED BY <1>2, <1>3, <1>4 DEF Sweep
<1>6. adm' = [adm EXCEPT ![u] = [adm[u] EXCEPT !.handled = h, !.sweep = s]]
  BY <1>1 DEF RoomType
<1>7. h \in SUBSET Users
  BY <1>2 DEF Admitter
<1> HIDE DEF s, h
<1> DEFINE a == [adm[u] EXCEPT !.handled = h, !.sweep = s]
<1>8. a \in Admitter /\ a.sweep = s
  BY <1>2, <1>5, <1>7 DEF Admitter
<1>9. adm' = [adm EXCEPT ![u] = a]
  BY <1>6
<1> HIDE DEF a
<1>10. adm' \in [Users -> Admitter] /\ \A w \in Users : adm'[w] = IF w = u THEN a ELSE adm[w]
  BY <1>8, <1>9 DEF RoomType
<1>11. QED BY <1>3, <1>5, <1>8, <1>10 DEF link

-----------------------------------------------------------------------------
(* Most steps concern neither the room nor a store: they move between       *)
(* pages, refuse, give up or come to rest.                                  *)
Quiet ==
  /\ UNCHANGED <<env, room, seen, admitted>>
  /\ op' \in [Users -> Op] /\ \A u \in Users : op'[u] = op[u] \/ op'[u] = NoOp
  /\ adm' \in [Users -> Admitter]
  /\ \A u \in Users : adm'[u].sweep.step = "none"
       \/ (adm'[u].sweep.step = adm[u].sweep.step /\ adm'[u].sweep.base = adm[u].sweep.base)

\* The pages of JoinPage and WorkspacesPage, up to what they ask of the room.
LEMMA PagesQuiet ==
  ASSUME RoomType, NEW u \in Users,
         \/ OpenLink(u) \/ GoSignIn(u) \/ SignedIn(u) \/ SendKnock(u) \/ FinishAccept(u)
         \/ GoToWorkspaces(u) \/ OpenApp(u) \/ OpenWorkspace(u) \/ BackToList(u)
         \/ StartRefresh(u) \/ FinishRefresh(u)
  PROVE  Quiet
<1>1. CASE OpenLink(u) \/ GoSignIn(u) \/ SignedIn(u) \/ SendKnock(u) \/ FinishAccept(u)
  <2>1. UNCHANGED <<env, room, seen, admitted, op, adm>>
    BY <1>1 DEF OpenLink, GoSignIn, SignedIn, SendKnock, FinishAccept, pageOthers
  <2>2. QED BY <2>1 DEF Quiet, RoomType
<1>2. CASE OpenWorkspace(u) \/ StartRefresh(u) \/ FinishRefresh(u)
  <2>1. UNCHANGED <<env, room, seen, admitted, op, adm>>
    BY <1>2 DEF OpenWorkspace, StartRefresh, FinishRefresh, pageOthers, listOthers
  <2>2. QED BY <2>1 DEF Quiet, RoomType
<1>3. CASE GoToWorkspaces(u) \/ OpenApp(u) \/ BackToList(u)
  <2>1. UNCHANGED <<env, room, seen, admitted, op>> /\ EnterList(u)
    BY <1>3 DEF GoToWorkspaces, OpenApp, BackToList
  <2>2. QED BY <2>1, ListEdit DEF Quiet, RoomType
<1>4. QED BY <1>1, <1>2, <1>3

\* An operation that ends where it is.
LEMMA DoneQuiet ==
  ASSUME RoomType, NEW u \in Users, Done(u), UNCHANGED <<env, room, seen, admitted, adm>>
  PROVE  Quiet
<1>1. op' \in [Users -> Op] /\ op'[u] = NoOp /\ \A v \in Users \ {u} : op'[v] = op[v]
  BY OpEdit, OpKinds DEF Done
<1>2. QED BY <1>1, OpKinds DEF Quiet, RoomType

\* A sweep that stops, or goes on to the next knock.
LEMMA SweepQuiet ==
  ASSUME RoomType, NEW u \in Users, UNCHANGED <<env, room, seen, admitted, op>>,
         NEW t \in SUBSET Users, WithSweep(u, [Resting EXCEPT !.todo = t])
  PROVE  Quiet
<1>1. /\ adm' \in [Users -> Admitter] /\ adm'[u].sweep.step = "none"
      /\ \A v \in Users \ {u} : adm'[v] = adm[v]
  BY SweepEdit, RestingSweep
<1>2. QED BY <1>1 DEF Quiet, RoomType

\* Sweeps that start or are cut, the forgotten room, the closed tab and the
\* expiry of the link.
LEMMA EndsQuiet ==
  ASSUME RoomType, NEW u \in Users,
         StartSweep(u) \/ CutSweep(u) \/ Forget(u) \/ Close(u) \/ Expire \/ UNCHANGED vars
  PROVE  Quiet
<1>1. CASE StartSweep(u)
  <2> DEFINE t == {v \in Users : seen[u].mem[v] = "knock"} \ adm[u].handled
  <2>1. WithSweep(u, [Resting EXCEPT !.todo = t]) /\ t \in SUBSET Users
        /\ UNCHANGED <<env, room, seen, admitted, op>>
    BY <1>1 DEF StartSweep, sweepOthers
  <2> HIDE DEF t
  <2>2. QED BY <2>1, SweepQuiet
<1>2. CASE CutSweep(u)
  <2>1. WithSweep(u, Resting) /\ UNCHANGED <<env, room, seen, admitted, op>>
    BY <1>2 DEF CutSweep, sweepOthers
  <2>2. /\ adm' \in [Users -> Admitter] /\ adm'[u].sweep.step = "none"
        /\ \A v \in Users \ {u} : adm'[v] = adm[v]
    BY <2>1, SweepEdit, RestingSweep
  <2>3. QED BY <2>1, <2>2 DEF Quiet, RoomType
<1>3. CASE Forget(u)
  <2>1. UNCHANGED <<env, room, seen, admitted>> /\ Done(u)
    BY <1>3 DEF Forget
  <2>2. op' \in [Users -> Op] /\ op'[u] = NoOp /\ \A v \in Users \ {u} : op'[v] = op[v]
    BY <2>1, OpEdit, OpKinds DEF Done
  <2>3. CASE EnterList(u)
    BY <2>1, <2>2, <2>3, ListEdit, OpKinds DEF Quiet
  <2>4. CASE adm' = adm
    BY <2>1, <2>4, DoneQuiet
  <2>5. QED BY <1>3, <2>3, <2>4 DEF Forget
<1>4. CASE Close(u)
  <2>1. UNCHANGED <<env, room, seen, admitted>> /\ Done(u)
        /\ adm' = [adm EXCEPT ![u] = [sweep |-> Resting, handled |-> {}]]
    BY <1>4 DEF Close
  <2>2. op' \in [Users -> Op] /\ op'[u] = NoOp /\ \A v \in Users \ {u} : op'[v] = op[v]
    BY <2>1, OpEdit, OpKinds DEF Done
  <2>3. /\ adm' \in [Users -> Admitter] /\ adm'[u].sweep = Resting
        /\ \A v \in Users \ {u} : adm'[v] = adm[v]
    BY <2>1, RestingSweep DEF RoomType, Admitter
  <2>4. QED BY <2>1, <2>2, <2>3, OpKinds, RestingSweep DEF Quiet
<1>5. CASE Expire \/ UNCHANGED vars
  <2>1. UNCHANGED <<env, room, seen, admitted, op, adm>>
    BY <1>5 DEF Expire, vars
  <2>2. QED BY <2>1 DEF Quiet, RoomType
<1>6. QED BY <1>1, <1>2, <1>3, <1>4, <1>5

-----------------------------------------------------------------------------
(* The other steps, one lemma each: the types they keep, and what the two   *)
(* guarantees need of them.                                                 *)

\* Only u's operation changes, to o.
Operates(u, o) == op' \in [Users -> Op] /\ op'[u] = o /\ \A v \in Users \ {u} : op'[v] = op[v]

\* Starting a change of roles or a departure decides on the store.
LEMMA StartEffect ==
  ASSUME RoomType, NEW u \in Users,
         \/ \E v \in Users, r \in Roles : StartRole(u, v, r)
         \/ \E s \in Users \cup {NoOne}, all \in BOOLEAN : StartLeave(u, all, s)
  PROVE  /\ MayStart(u) /\ UNCHANGED <<env, room, seen, adm, admitted>>
         /\ Operates(u, op'[u])
         /\ \/ op'[u].kind = "check"
            \/ /\ op'[u].kind = "role" /\ seen[u].role[u] = "admin"
               /\ \E v \in Active(seen[u]), r \in Roles :
                    /\ op'[u].new = [seen[u].role EXCEPT ![v] = r]
                    /\ op'[u].leave => r = "admin"
                    /\ v = u /\ r # "admin" => OtherAdmin(u)
<1>1. MayStart(u) /\ UNCHANGED <<env, room, seen, adm, admitted>>
  BY DEF StartRole, StartLeave, others
<1>2. seen[u].role \in [Users -> Roles] /\ "admin" \in Roles
  BY DEF RoomType, Room, Roles
<1>3. ASSUME NEW v \in Active(seen[u]), NEW r \in Roles, NEW leave \in BOOLEAN,
             Do(u, [kind |-> "role", new |-> [seen[u].role EXCEPT ![v] = r], leave |-> leave]),
             seen[u].role[u] = "admin", leave => r = "admin",
             v = u /\ r # "admin" => OtherAdmin(u)
      PROVE  /\ Operates(u, op'[u]) /\ op'[u].kind = "role"
             /\ \E w \in Active(seen[u]), s \in Roles :
                  /\ op'[u].new = [seen[u].role EXCEPT ![w] = s]
                  /\ op'[u].leave => s = "admin"
                  /\ w = u /\ s # "admin" => OtherAdmin(u)
  <2> DEFINE n == [seen[u].role EXCEPT ![v] = r]
  <2>1. n \in [Users -> Roles]
    BY <1>2
  <2> DEFINE o == [kind |-> "role", new |-> n, leave |-> leave]
  <2>2. o \in Op /\ o.kind = "role" /\ o.new = n /\ o.leave = leave
    BY <2>1, OpKinds
  <2>3. Do(u, o)
    BY <1>3
  <2> HIDE DEF o
  <2>4. Operates(u, o) /\ op'[u] = o
    BY <2>2, <2>3, OpEdit DEF Operates
  <2>5. QED BY <1>3, <2>2, <2>4
<1>4. ASSUME NEW v \in Users, NEW r \in Roles, StartRole(u, v, r)
      PROVE  /\ v \in Active(seen[u]) /\ seen[u].role[u] = "admin"
             /\ v = u /\ r # "admin" => OtherAdmin(u)
             /\ Do(u, [kind |-> "role", new |-> [seen[u].role EXCEPT ![v] = r], leave |-> FALSE])
  BY <1>4 DEF StartRole, MayTakeRole
<1>5. ASSUME NEW s, NEW all \in BOOLEAN, StartLeave(u, all, s)
      PROVE  \/ Do(u, [kind |-> "check", all |-> all])
             \/ /\ s \in Active(seen[u]) /\ s # u /\ seen[u].role[u] = "admin"
                /\ Do(u, [kind |-> "role", new |-> [seen[u].role EXCEPT ![s] = "admin"],
                          leave |-> TRUE])
  <2>1. \A n, b, k : [kind |-> k, leave |-> b, new |-> n] = [kind |-> k, new |-> n, leave |-> b]
    OBVIOUS
  <2>2. QED BY <1>5, <2>1 DEF StartLeave
<1>6. ASSUME NEW all \in BOOLEAN, Do(u, [kind |-> "check", all |-> all])
      PROVE  Operates(u, op'[u]) /\ op'[u].kind = "check"
  BY <1>6, OpKinds, OpEdit DEF Operates
<1>7. CASE \E v \in Users, r \in Roles : StartRole(u, v, r)
  BY <1>1, <1>3, <1>4, <1>7
<1>8. CASE \E s \in Users \cup {NoOne}, all \in BOOLEAN : StartLeave(u, all, s)
  BY <1>1, <1>2, <1>3, <1>5, <1>6, <1>8
<1>9. QED BY <1>7, <1>8

\* The homeserver takes over the roles the client sent.
LEMMA SendRoleEffect ==
  ASSUME RoomType, NEW u \in Users, SendRole(u)
  PROVE  /\ op[u].kind = "role" /\ UNCHANGED <<env, seen, adm, admitted>>
         /\ \/ Quiet
            \/ /\ MayAdminister(u) /\ room' \in Room /\ room'.role = op[u].new
               /\ room'.mem = room.mem /\ room'.link = room.link
               /\ Operates(u, op'[u])
               /\ op'[u].kind = IF op[u].leave THEN "check" ELSE "none"
<1>1. op[u].kind = "role" /\ UNCHANGED <<env, seen, adm, admitted>>
  BY DEF SendRole, idle, others
<1>2. op[u] \in Op /\ op[u].new \in [Users -> Roles] /\ op[u].leave \in BOOLEAN
  BY <1>1, OpHolds DEF RoomType
<1>3. CASE Done(u) /\ room' = room
  BY <1>1, <1>3, DoneQuiet
<1>4. CASE /\ MaySetRoles(u, op[u].new) /\ room' = [room EXCEPT !.role = op[u].new]
           /\ Do(u, IF op[u].leave THEN [kind |-> "check", all |-> FALSE] ELSE NoOp)
  <2>1. /\ room' \in Room /\ room'.role = op[u].new
        /\ room'.mem = room.mem /\ room'.link = room.link
    BY <1>2, <1>4 DEF RoomType, Room
  <2>2. Operates(u, op'[u]) /\ op'[u].kind = IF op[u].leave THEN "check" ELSE "none"
    <3> DEFINE o == IF op[u].leave THEN [kind |-> "check", all |-> FALSE] ELSE NoOp
    <3>1. o \in Op /\ o.kind = IF op[u].leave THEN "check" ELSE "none"
      BY <1>2, OpKinds
    <3>2. Do(u, o)
      BY <1>4
    <3> HIDE DEF o
    <3>3. QED BY <3>1, <3>2, OpEdit DEF Operates
  <2>3. QED BY <1>1, <1>4, <2>1, <2>2 DEF MaySetRoles
<1>5. QED BY <1>1, <1>3, <1>4 DEF SendRole

\* Deciding how to leave.
LEMMA CheckEffect ==
  ASSUME RoomType, NEW u \in Users, CheckLeave(u)
  PROVE  /\ op[u].kind = "check" /\ UNCHANGED <<env, room, seen, adm, admitted>>
         /\ \/ Quiet
            \/ /\ Operates(u, op'[u]) /\ op'[u].kind = "kick"
               /\ op'[u].rest = Active(seen[u]) \ {u}
            \/ Operates(u, op'[u]) /\ op'[u].kind = "go" /\ MayLeave(u)
<1>1. op[u].kind = "check" /\ UNCHANGED <<env, room, seen, adm, admitted>>
  BY DEF CheckLeave, idle, others
<1>2. CASE Done(u)
  BY <1>1, <1>2, DoneQuiet
<1>3. CASE Do(u, [kind |-> "kick", rest |-> Active(seen[u]) \ {u}])
  <2>1. Active(seen[u]) \ {u} \in SUBSET Users
    BY DEF Active
  <2>2. QED BY <1>1, <1>3, <2>1, OpKinds, OpEdit DEF Operates
<1>4. CASE MayLeave(u) /\ Do(u, [kind |-> "go"])
  BY <1>1, <1>4, OpKinds, OpEdit DEF Operates
<1>5. QED BY <1>1, <1>2, <1>3, <1>4 DEF CheckLeave

\* Removing the next one.
LEMMA KickEffect ==
  ASSUME RoomType, NEW u \in Users, Kick(u)
  PROVE  /\ op[u].kind = "kick" /\ UNCHANGED <<env, seen, adm, admitted>>
         /\ \/ Quiet
            \/ \E v \in op[u].rest :
                 /\ MayAdminister(u) /\ room.role[v] # "admin" /\ room.mem[v] # "out"
                 /\ room' \in Room /\ room'.role = room.role /\ room'.link = room.link
                 /\ \A w \in Users : room'.mem[w] = IF w = v THEN "out" ELSE room.mem[w]
                 /\ Operates(u, op'[u]) /\ op'[u].kind = "kick" /\ op'[u].rest = op[u].rest \ {v}
<1>1. op[u].kind = "kick" /\ UNCHANGED <<env, seen, adm, admitted>>
  BY DEF Kick, idle, others
<1>2. op[u] \in Op /\ op[u].rest \in SUBSET Users
  BY <1>1, OpHolds DEF RoomType
<1>3. CASE Done(u) /\ room' = room
  BY <1>1, <1>3, DoneQuiet
<1>4. ASSUME NEW v \in op[u].rest, MayAdminister(u), room.role[v] # "admin", room.mem[v] # "out",
             SetMem(v, "out"), Do(u, [op[u] EXCEPT !.rest = @ \ {v}])
      PROVE  /\ room' \in Room /\ room'.role = room.role /\ room'.link = room.link
             /\ \A w \in Users : room'.mem[w] = IF w = v THEN "out" ELSE room.mem[w]
             /\ Operates(u, op'[u]) /\ op'[u].kind = "kick" /\ op'[u].rest = op[u].rest \ {v}
  <2>1. /\ room' \in Room /\ room'.role = room.role /\ room'.link = room.link
        /\ \A w \in Users : room'.mem[w] = IF w = v THEN "out" ELSE room.mem[w]
    BY <1>2, <1>4, RoomEdit DEF Mems
  <2> DEFINE r == op[u].rest \ {v}
             o == [op[u] EXCEPT !.rest = r]
  <2>2. o \in Op /\ o.kind = "kick" /\ o.rest = r
    <3>1. r \in SUBSET Users
      BY <1>2
    <3> HIDE DEF r
    <3>2. QED BY <1>1, <1>2, <3>1, OpHolds
  <2>3. Do(u, o)
    BY <1>4
  <2> HIDE DEF o
  <2>4. QED BY <2>1, <2>2, <2>3, OpEdit DEF Operates
<1>5. \/ Done(u) /\ room' = room
      \/ \E v \in op[u].rest : /\ MayAdminister(u) /\ room.role[v] # "admin" /\ room.mem[v] # "out"
                               /\ SetMem(v, "out") /\ Do(u, [op[u] EXCEPT !.rest = @ \ {v}])
  BY DEF Kick
<1>6. QED BY <1>1, <1>3, <1>4, <1>5

\* The departure itself.
LEMMA GoEffect ==
  ASSUME RoomType, NEW u \in Users, Go(u)
  PROVE  /\ op[u].kind = "go" \/ (op[u].kind = "kick" /\ op[u].rest = {})
         /\ UNCHANGED <<env, adm, admitted>>
         /\ \/ Quiet
            \/ /\ room' \in Room /\ room'.role = room.role /\ room'.link = room.link
               /\ \A w \in Users : room'.mem[w] = IF w = u THEN "out" ELSE room.mem[w]
               /\ seen' \in [Users -> Room] /\ seen'[u].link = seen[u].link
               /\ \A v \in Users \ {u} : seen'[v] = seen[v]
               /\ Operates(u, op'[u]) /\ op'[u].kind = "forget"
<1>1. /\ op[u].kind = "go" \/ (op[u].kind = "kick" /\ op[u].rest = {})
      /\ UNCHANGED <<env, adm, admitted>>
  BY DEF Go, idle, others
<1>2. CASE Done(u) /\ UNCHANGED <<room, seen>>
  BY <1>1, <1>2, DoneQuiet
<1>3. CASE SetMem(u, "out") /\ StoreMem(u, "out") /\ Do(u, [kind |-> "forget"])
  <2>1. "out" \in Mems
    BY DEF Mems
  <2>2. Operates(u, op'[u]) /\ op'[u].kind = "forget"
    BY <1>3, OpKinds, OpEdit DEF Operates
  <2>3. /\ room' \in Room /\ room'.role = room.role /\ room'.link = room.link
        /\ \A w \in Users : room'.mem[w] = IF w = u THEN "out" ELSE room.mem[w]
    BY <1>3, <2>1, RoomEdit
  <2>4. /\ seen' \in [Users -> Room] /\ seen'[u].link = seen[u].link
        /\ \A v \in Users \ {u} : seen'[v] = seen[v]
    BY <1>3, <2>1, StoreEdit
  <2>5. QED BY <1>1, <2>2, <2>3, <2>4
<1>4. QED BY <1>1, <1>2, <1>3 DEF Go

\* One person's standing at the homeserver changes to m; u's own store may know.
Moved(v, m) ==
  /\ room' \in Room /\ room'.role = room.role /\ room'.link = room.link
  /\ \A w \in Users : room'.mem[w] = IF w = v THEN m ELSE room.mem[w]

\* Inviting somebody by their id.
LEMMA InviteEffect ==
  ASSUME RoomType, NEW u \in Users, NEW v \in Users, InviteUser(u, v)
  PROVE  /\ MayStart(u) /\ MayInvite(u) /\ room.mem[v] \in {"out", "knock"} /\ Moved(v, "invite")
         /\ UNCHANGED <<env, seen, op, adm, admitted>>
<1>1. "invite" \in Mems
  BY DEF Mems
<1>2. QED BY <1>1, RoomEdit DEF InviteUser, others, Moved

\* Making a link opens the room to knocks; the link follows.
LEMMA MintEffect ==
  ASSUME RoomType, NEW u \in Users, StartMint(u)
  PROVE  /\ May("link") /\ op[u] = NoOp /\ ~room.link.made
         /\ UNCHANGED <<env, seen, adm, admitted>>
         /\ \/ Quiet
            \/ /\ MayAdminister(u) /\ room' \in Room /\ room'.role = room.role
               /\ room'.mem = room.mem /\ room'.link = room.link
               /\ Operates(u, op'[u]) /\ op'[u].kind = "mint"
<1>1. /\ May("link") /\ op[u] = NoOp /\ ~room.link.made
      /\ UNCHANGED <<env, seen, adm, admitted>>
  BY DEF StartMint, idle, others
<1>2. CASE UNCHANGED <<room, op>>
  BY <1>1, <1>2 DEF Quiet, RoomType
<1>3. CASE /\ MayAdminister(u) /\ room' = [room EXCEPT !.knock = TRUE]
           /\ Do(u, [kind |-> "mint"])
  <2>1. /\ room' \in Room /\ room'.role = room.role /\ room'.mem = room.mem
        /\ room'.link = room.link
    BY <1>3 DEF RoomType, Room
  <2>2. Operates(u, op'[u]) /\ op'[u].kind = "mint"
    BY <1>3, OpKinds, OpEdit DEF Operates
  <2>3. QED BY <1>1, <1>3, <2>1, <2>2
<1>4. QED BY <1>1, <1>2, <1>3 DEF StartMint

\* Publishing the link, and rewriting it to revoke it.
LEMMA LinkEffect ==
  ASSUME RoomType, NEW u \in Users, PublishLink(u) \/ SendRevoke(u)
  PROVE  /\ op[u].kind \in {"mint", "revoke"} /\ UNCHANGED <<env, seen, adm, admitted>>
         /\ \/ Quiet
            \/ /\ room' \in Room /\ room'.role = room.role /\ room'.mem = room.mem
               /\ Operates(u, op'[u]) /\ op'[u].kind = "none"
               /\ op[u].kind = "mint" => room'.link.made /\ room'.link.uses = 0
<1>1. op[u].kind \in {"mint", "revoke"} /\ Done(u) /\ UNCHANGED <<env, seen, adm, admitted>>
  BY DEF PublishLink, SendRevoke, idle, others
<1>2. CASE room' = room
  BY <1>1, <1>2, DoneQuiet
<1>3. Operates(u, op'[u]) /\ op'[u].kind = "none"
  BY <1>1, OpKinds, OpEdit DEF Operates, Done
<1>4. ASSUME NEW l \in Link, room' = [room EXCEPT !.link = l]
      PROVE  room' \in Room /\ room'.role = room.role /\ room'.mem = room.mem /\ room'.link = l
  BY <1>4 DEF RoomType, Room
<1>5. CASE op[u].kind = "mint" /\ room' = [room EXCEPT !.link = [NoLink EXCEPT !.made = TRUE]]
  <2> DEFINE l == [NoLink EXCEPT !.made = TRUE]
  <2>1. l \in Link /\ l.made /\ l.uses = 0
    BY DEF NoLink, Link
  <2> HIDE DEF l
  <2>2. room' = [room EXCEPT !.link = l]
    BY <1>5 DEF l
  <2>3. QED BY <1>1, <1>3, <1>4, <2>1, <2>2
<1>6. CASE op[u].kind = "revoke" /\ room' = [room EXCEPT !.link = op[u].base]
  <2>1. op[u].base \in Link
    BY <1>6, OpHolds DEF RoomType
  <2>2. QED BY <1>1, <1>3, <1>4, <1>6, <2>1
<1>7. QED BY <1>2, <1>5, <1>6 DEF PublishLink, SendRevoke

\* Starting to revoke a link.
LEMMA RevokeEffect ==
  ASSUME RoomType, NEW u \in Users, StartRevoke(u)
  PROVE  /\ May("revoke") /\ seen[u].link.made /\ op[u] = NoOp
         /\ UNCHANGED <<env, room, seen, adm, admitted>>
         /\ Operates(u, op'[u]) /\ op'[u].kind = "revoke"
<1>1. seen[u].link \in Link
  BY DEF RoomType, Room
<1> DEFINE l == [seen[u].link EXCEPT !.revoked = TRUE]
<1>2. l \in Link
  BY <1>1 DEF Link
<1>3. Do(u, [kind |-> "revoke", base |-> l])
  BY DEF StartRevoke
<1> HIDE DEF l
<1>4. Operates(u, op'[u]) /\ op'[u].kind = "revoke"
  BY <1>2, <1>3, OpKinds, OpEdit DEF Operates
<1>5. QED BY <1>4 DEF StartRevoke, idle, others

\* The first request of an admission records the use it counted.
LEMMA CountEffect ==
  ASSUME RoomType, NEW u \in Users, CountUse(u)
  PROVE  /\ adm[u].sweep.step = "count" /\ UNCHANGED <<env, seen, op, admitted>>
         /\ \/ Quiet
            \/ /\ MayAdminister(u) /\ room' \in Room /\ room'.role = room.role
               /\ room'.mem = room.mem /\ room'.link = adm[u].sweep.base
               /\ adm' \in [Users -> Admitter] /\ adm'[u].sweep.step = "invite"
               /\ \A v \in Users \ {u} : adm'[v] = adm[v]
<1>1. adm[u].sweep.step = "count" /\ UNCHANGED <<env, seen, op, admitted>>
  BY DEF CountUse, sweepOthers
<1>2. adm[u].sweep \in Sweep
  BY DEF RoomType, Admitter
<1>3. CASE room' = room /\ WithSweep(u, [Resting EXCEPT !.todo = adm[u].sweep.todo])
  <2>1. adm[u].sweep.todo \in SUBSET Users
    BY <1>2 DEF Sweep
  <2>2. QED BY <1>1, <1>3, <2>1, SweepQuiet
<1>4. CASE /\ MayAdminister(u) /\ room' = [room EXCEPT !.link = adm[u].sweep.base]
           /\ WithSweep(u, [adm[u].sweep EXCEPT !.step = "invite", !.base = NoLink])
  <2> DEFINE s == [adm[u].sweep EXCEPT !.step = "invite", !.base = NoLink]
  <2>1. WithSweep(u, s)
    BY <1>4
  <2>2. adm[u].sweep.on \in Users /\ adm[u].sweep.todo \in SUBSET Users
    BY <1>1, <1>2 DEF Sweep
  <2>3. NoLink \in Link
    BY DEF NoLink, Link
  <2>4. adm[u].sweep \in [todo : SUBSET Users, on : Users \cup {NoOne},
                          step : {"none", "count", "invite"}, base : Link]
    BY <1>2 DEF Sweep
  <2>5. /\ s \in [todo : SUBSET Users, on : Users \cup {NoOne},
                  step : {"none", "count", "invite"}, base : Link]
        /\ s.step = "invite" /\ s.on = adm[u].sweep.on
    BY <2>3, <2>4
  <2> HIDE DEF s
  <2>6. s \in Sweep /\ s.step = "invite"
    BY <2>2, <2>5 DEF Sweep
  <2>7. /\ adm' \in [Users -> Admitter] /\ adm'[u].sweep.step = "invite"
        /\ \A v \in Users \ {u} : adm'[v] = adm[v]
    BY <2>6, <2>1, SweepEdit
  <2>8. /\ room' \in Room /\ room'.role = room.role /\ room'.mem = room.mem
        /\ room'.link = adm[u].sweep.base
    BY <1>2, <1>4 DEF RoomType, Room, Sweep
  <2>9. QED BY <1>1, <1>4, <2>7, <2>8
<1>5. QED BY <1>3, <1>4 DEF CountUse

\* The second lets the knocker in.
LEMMA LetInEffect ==
  ASSUME RoomType, NEW u \in Users, InviteKnocker(u)
  PROVE  /\ adm[u].sweep.step = "invite" /\ UNCHANGED <<env, seen, op>>
         /\ \/ Quiet
            \/ \E v \in Users :
                 /\ MayInvite(u) /\ room.mem[v] # "join" /\ Moved(v, "invite")
                 /\ admitted' = admitted \cup {v}
                 /\ adm' \in [Users -> Admitter] /\ adm'[u].sweep.step = "none"
                 /\ \A w \in Users \ {u} : adm'[w] = adm[w]
<1>1. /\ adm[u].sweep.step = "invite" /\ UNCHANGED <<env, seen, op>>
      /\ WithSweep(u, [Resting EXCEPT !.todo = adm[u].sweep.todo])
  BY DEF InviteKnocker, sweepOthers
<1>2. adm[u].sweep.todo \in SUBSET Users /\ adm[u].sweep.on \in Users
  BY <1>1 DEF RoomType, Admitter, Sweep
<1>3. CASE UNCHANGED <<room, admitted>>
  BY <1>1, <1>2, <1>3, SweepQuiet
<1>4. ASSUME NEW v \in Users, MayInvite(u), room.mem[v] # "join", SetMem(v, "invite"),
             admitted' = admitted \cup {v}
      PROVE  /\ MayInvite(u) /\ room.mem[v] # "join" /\ Moved(v, "invite")
             /\ admitted' = admitted \cup {v}
             /\ adm' \in [Users -> Admitter] /\ adm'[u].sweep.step = "none"
             /\ \A w \in Users \ {u} : adm'[w] = adm[w]
  <2>1. "invite" \in Mems
    BY DEF Mems
  <2>2. Moved(v, "invite")
    BY <1>4, <2>1, RoomEdit DEF Moved
  <2>3. /\ adm' \in [Users -> Admitter] /\ adm'[u].sweep.step = "none"
        /\ \A w \in Users \ {u} : adm'[w] = adm[w]
    BY <1>1, <1>2, RestingSweep, SweepEdit
  <2>4. QED BY <1>4, <2>2, <2>3
<1>5. QED BY <1>1, <1>2, <1>3, <1>4 DEF InviteKnocker

\* The knock, the accepted and the declined invitation: a user moves, and the
\* user's own store has it at once.
LEMMA OwnMoveEffect ==
  ASSUME RoomType, NEW u \in Users,
         KnockAnswer(u) \/ TryAccept(u) \/ HandleAccept(u) \/ HandleDecline(u)
  PROVE  /\ UNCHANGED <<env, op, adm, admitted>>
         /\ \/ Quiet
            \/ \E m \in Mems :
                 /\ \/ room.mem[u] = "out" /\ m = "knock"
                    \/ room.mem[u] = "invite" /\ m = "join"
                    \/ room.mem[u] = "invite" /\ m = "out" /\ May("decline")
                 /\ Moved(u, m)
                 /\ seen' \in [Users -> Room] /\ \A v \in Users \ {u} : seen'[v] = seen[v]
                 /\ seen'[u].role = seen[u].role /\ seen'[u].link = seen[u].link
                 /\ \A v \in Users : seen'[u].mem[v] = IF v = u THEN m ELSE seen[u].mem[v]
<1>1. UNCHANGED <<env, op, adm, admitted>>
  BY DEF KnockAnswer, TryAccept, HandleAccept, JoinRoom, HandleDecline, pageOthers
<1>2. CASE UNCHANGED <<room, seen>>
  BY <1>1, <1>2 DEF Quiet, RoomType
<1>3. ASSUME NEW m \in Mems, SetMem(u, m), StoreMem(u, m)
      PROVE  /\ Moved(u, m)
             /\ seen' \in [Users -> Room] /\ \A v \in Users \ {u} : seen'[v] = seen[v]
             /\ seen'[u].role = seen[u].role /\ seen'[u].link = seen[u].link
             /\ \A v \in Users : seen'[u].mem[v] = IF v = u THEN m ELSE seen[u].mem[v]
  BY <1>3, RoomEdit, StoreEdit DEF Moved
<1>4. \/ UNCHANGED <<room, seen>>
      \/ \E m \in {"knock", "join", "out"} :
           /\ \/ room.mem[u] = "out" /\ m = "knock"
              \/ room.mem[u] = "invite" /\ m = "join"
              \/ room.mem[u] = "invite" /\ m = "out" /\ May("decline")
           /\ SetMem(u, m) /\ StoreMem(u, m)
  BY DEF KnockAnswer, TryAccept, HandleAccept, JoinRoom, HandleDecline
<1>5. {"knock", "join", "out"} \subseteq Mems
  BY DEF Mems
<1>6. QED BY <1>1, <1>2, <1>3, <1>4, <1>5

-----------------------------------------------------------------------------
\* Every step is quiet or one of those.
Loud(u) ==
  \/ \E v \in Users, r \in Roles : StartRole(u, v, r)
  \/ \E s \in Users \cup {NoOne}, all \in BOOLEAN : StartLeave(u, all, s)
  \/ \E v \in Users : InviteUser(u, v)
  \/ StartMint(u) \/ StartRevoke(u)
  \/ SendRole(u) \/ CheckLeave(u) \/ Kick(u) \/ Go(u) \/ PublishLink(u) \/ SendRevoke(u)
  \/ NextKnock(u) \/ CountUse(u) \/ InviteKnocker(u)
  \/ KnockAnswer(u) \/ TryAccept(u) \/ HandleAccept(u) \/ HandleDecline(u)
  \/ Sync(u)

\* Every step of the system is one of these.
LEMMA StepCases ==
  ASSUME RoomType, [Next]_vars
  PROVE  Quiet \/ \E u \in Users : Loud(u)
<1>1. CASE Expire \/ UNCHANGED vars
  BY <1>1, EnvFacts, EndsQuiet
<1>2. ASSUME NEW u \in Users, Manage(u) \/ Continue(u) \/ Admit(u) \/ Sync(u) \/ Close(u)
      PROVE  Quiet \/ Loud(u)
  BY <1>2, EndsQuiet DEF Manage, Continue, Admit, AdmitKnock, Loud
<1>3. ASSUME NEW u \in Users, Join(u) \/ List(u)
      PROVE  Quiet \/ Loud(u)
  BY <1>3, PagesQuiet DEF Join, List, Loud
<1>4. QED BY <1>1, <1>2, <1>3 DEF Next

\* Every step keeps the types.
LEMMA TypeStep ==
  ASSUME RoomType, [Next]_vars
  PROVE  RoomType' /\ env' = env
<1>1. CASE Quiet
  BY <1>1 DEF Quiet, RoomType
<1>2. ASSUME NEW u \in Users,
             \/ \E v \in Users, r \in Roles : StartRole(u, v, r)
             \/ \E s \in Users \cup {NoOne}, all \in BOOLEAN : StartLeave(u, all, s)
      PROVE  RoomType' /\ env' = env
  BY <1>2, StartEffect DEF Operates, RoomType
<1>3. ASSUME NEW u \in Users, \E v \in Users : InviteUser(u, v) PROVE RoomType' /\ env' = env
  BY <1>3, InviteEffect DEF Moved, RoomType
<1>4. ASSUME NEW u \in Users, StartMint(u) \/ StartRevoke(u) PROVE RoomType' /\ env' = env
  BY <1>1, <1>4, MintEffect, RevokeEffect DEF Operates, RoomType
<1>5. ASSUME NEW u \in Users, SendRole(u) \/ CheckLeave(u) PROVE RoomType' /\ env' = env
  BY <1>1, <1>5, SendRoleEffect, CheckEffect DEF Operates, RoomType
<1>6. ASSUME NEW u \in Users, Kick(u) PROVE RoomType' /\ env' = env
  BY <1>1, <1>6, KickEffect DEF Operates, RoomType
<1>7. ASSUME NEW u \in Users, Go(u) PROVE RoomType' /\ env' = env
  BY <1>1, <1>7, GoEffect DEF Operates, RoomType
<1>8. ASSUME NEW u \in Users, PublishLink(u) \/ SendRevoke(u) PROVE RoomType' /\ env' = env
  BY <1>1, <1>8, LinkEffect DEF Operates, RoomType
<1>9. ASSUME NEW u \in Users, NextKnock(u) PROVE RoomType' /\ env' = env
  <2>1. UNCHANGED <<env, room, seen, op>>
    BY <1>9 DEF NextKnock, sweepOthers
  <2>2. QED BY <1>9, <2>1, KnockEdit DEF RoomType
<1>10. ASSUME NEW u \in Users, CountUse(u) PROVE RoomType' /\ env' = env
  BY <1>1, <1>10, CountEffect DEF RoomType
<1>11. ASSUME NEW u \in Users, InviteKnocker(u) PROVE RoomType' /\ env' = env
  BY <1>1, <1>11, LetInEffect DEF Moved, RoomType
<1>12. ASSUME NEW u \in Users, KnockAnswer(u) \/ TryAccept(u) \/ HandleAccept(u) \/ HandleDecline(u)
       PROVE  RoomType' /\ env' = env
  BY <1>1, <1>12, OwnMoveEffect DEF Moved, RoomType
<1>13. ASSUME NEW u \in Users, Sync(u) PROVE RoomType' /\ env' = env
  <2>1. UNCHANGED <<env, room, op, adm>>
    BY <1>13 DEF Sync
  <2>2. QED BY <1>13, <2>1, SyncEdit DEF RoomType
<1>14. QED
  BY <1>1, <1>2, <1>3, <1>4, <1>5, <1>6, <1>7, <1>8, <1>9, <1>10, <1>11, <1>12, <1>13,
     StepCases DEF Loud

-----------------------------------------------------------------------------
(* Each admission is recorded before it happens: the strengthening behind   *)
(* UsesCoverAdmissions.  The only admin is the creator, who stays; the use  *)
(* their client is about to record is the next one of the link, and the     *)
(* one it has recorded is of the next to be let in.                         *)
OneAdminStays ==
  /\ "hasty" \notin env.faults /\ "revoke" \notin env.faults /\ env.managers = {}
  /\ \A m \in env.members : m[2] = "admin" => m[1] = Creator

\* Recorded and not yet let in.
Pending == IF adm[Creator].sweep.step = "invite" THEN 1 ELSE 0

UsesInv == OneAdminStays =>
  /\ \A u \in Users : room.role[u] = "admin" => u = Creator
  /\ room.mem[Creator] = "join"
  /\ \A u \in Users : /\ op[u].kind \in {"none", "mint"}
                      /\ op[u].kind = "mint" => u = Creator /\ ~room.link.made
  /\ ~room.link.made =>
       room.link.uses = 0 /\ admitted = {} /\ \A u \in Users : adm[u].sweep.step = "none"
  /\ \A u \in Users : adm[u].sweep.step = "invite" => u = Creator
  /\ adm[Creator].sweep.step = "count" =>
       /\ adm[Creator].sweep.base.made /\ adm[Creator].sweep.base.uses = room.link.uses + 1
       /\ env.limit > 0 => adm[Creator].sweep.base.uses <= env.limit
  /\ IsFiniteSet(admitted) /\ Cardinality(admitted) + Pending <= room.link.uses
  /\ env.limit > 0 => room.link.uses <= env.limit

\* At the start the creator is the only admin of a room without a link.
LEMMA UsesInit ==
  ASSUME RoomType, Init PROVE UsesInv
<1> SUFFICES ASSUME OneAdminStays PROVE UsesInv
  BY DEF UsesInv
<1> DEFINE in == {m[1] : m \in env.members}
           role(u) == IF u \in in THEN (CHOOSE m \in env.members : m[1] = u)[2] ELSE "editor"
<1>1. /\ room = [mem |-> [u \in Users |-> IF u \in in THEN "join" ELSE "out"],
                 role |-> [u \in Users |-> role(u)], knock |-> FALSE, link |-> NoLink]
      /\ op = [u \in Users |-> NoOp] /\ admitted = {}
      /\ adm = [u \in Users |-> [sweep |-> Resting, handled |-> {}]]
  BY DEF Init, rest
<1>2. ASSUME NEW u \in Users, role(u) = "admin" PROVE u = Creator
  <2>1. u \in in
    BY <1>2
  <2>2. PICK m \in env.members : m[1] = u
    BY <2>1
  <2>3. PICK n \in env.members : n[1] = u /\ n[2] = "admin"
    BY <1>2, <2>2
  <2>4. QED BY <2>3 DEF OneAdminStays
<1>3. Creator \in in
  BY EnvFacts
<1> HIDE DEF in, role
<1>4. room.mem[Creator] = "join" /\ \A u \in Users : room.role[u] = "admin" => u = Creator
  BY <1>1, <1>2, <1>3, EnvFacts
<1>5. room.link.uses = 0 /\ \A u \in Users : adm[u].sweep.step = "none" /\ op[u].kind = "none"
  BY <1>1 DEF NoLink, NoOp, Resting
<1>6. IsFiniteSet(admitted) /\ Cardinality(admitted) = 0 /\ Pending = 0
  BY <1>1, <1>5, EnvFacts, FS_EmptySet DEF Pending
<1>7. QED
  BY <1>1, <1>4, <1>5, <1>6, EnvFacts DEF UsesInv

\* Every step keeps the record ahead of the admissions.
LEMMA UsesStep ==
  ASSUME RoomType, UsesInv, [Next]_vars
  PROVE  UsesInv'
<1>0. RoomType' /\ env' = env
  BY TypeStep
<1> SUFFICES ASSUME OneAdminStays PROVE UsesInv'
  BY <1>0 DEF UsesInv, OneAdminStays
<1>1. /\ \A u \in Users : room.role[u] = "admin" => u = Creator
      /\ room.mem[Creator] = "join"
      /\ \A u \in Users : /\ op[u].kind \in {"none", "mint"}
                          /\ op[u].kind = "mint" => u = Creator /\ ~room.link.made
      /\ ~room.link.made =>
           room.link.uses = 0 /\ admitted = {} /\ \A u \in Users : adm[u].sweep.step = "none"
      /\ \A u \in Users : adm[u].sweep.step = "invite" => u = Creator
      /\ adm[Creator].sweep.step = "count" =>
           /\ adm[Creator].sweep.base.made /\ adm[Creator].sweep.base.uses = room.link.uses + 1
           /\ env.limit > 0 => adm[Creator].sweep.base.uses <= env.limit
      /\ IsFiniteSet(admitted) /\ Cardinality(admitted) + Pending <= room.link.uses
      /\ env.limit > 0 => room.link.uses <= env.limit
  BY DEF UsesInv
<1>2. /\ Creator \in Users /\ env.limit \in Nat /\ room.link.uses \in Nat
      /\ Cardinality(admitted) \in Nat
  BY <1>1, EnvFacts, FS_CardinalityType DEF RoomType, Room, Link
<1>3. \A u \in Users : MayAdminister(u) => u = Creator
  BY <1>1 DEF MayAdminister
<1>4. CASE Quiet
  <2>1. /\ UNCHANGED <<env, room, admitted>>
        /\ \A u \in Users : op'[u] = op[u] \/ op'[u].kind = "none"
        /\ \A u \in Users : adm'[u].sweep.step = "none"
             \/ (adm'[u].sweep.step = adm[u].sweep.step /\ adm'[u].sweep.base = adm[u].sweep.base)
    BY <1>4, OpKinds DEF Quiet
  <2>2. Pending' <= Pending /\ Pending' \in Nat /\ Pending \in Nat
    BY <1>2, <2>1 DEF Pending
  <2>3. \A u \in Users : /\ op'[u].kind \in {"none", "mint"}
                         /\ op'[u].kind = "mint" => u = Creator /\ ~room.link.made
    BY <1>1, <2>1
  <2>4. adm'[Creator].sweep.step = "count" =>
          /\ adm'[Creator].sweep.base.made /\ adm'[Creator].sweep.base.uses = room.link.uses + 1
          /\ env.limit > 0 => adm'[Creator].sweep.base.uses <= env.limit
    BY <1>1, <1>2, <2>1
  <2>5. /\ \A u \in Users : adm'[u].sweep.step = "invite" => u = Creator
        /\ ~room.link.made => \A u \in Users : adm'[u].sweep.step = "none"
    BY <1>1, <2>1
  <2>6. Cardinality(admitted) + Pending' <= room.link.uses
    BY <1>1, <1>2, <2>2
  <2>7. QED BY <1>1, <2>1, <2>3, <2>4, <2>5, <2>6 DEF UsesInv
\* The creator stays, and nobody else becomes an admin, when one person moves.
<1>5. ASSUME NEW v \in Users, NEW m \in Mems, Moved(v, m), v # Creator \/ m = "join",
             UNCHANGED <<env, op, adm, admitted>>
      PROVE  UsesInv'
  <2>1. /\ \A u \in Users : room'.role[u] = "admin" => u = Creator
        /\ room'.mem[Creator] = "join" /\ room'.link = room.link
    BY <1>1, <1>2, <1>5 DEF Moved
  <2>2. Pending' = Pending
    BY <1>5 DEF Pending
  <2>3. QED BY <1>1, <1>5, <2>1, <2>2 DEF UsesInv
<1>6. ASSUME NEW u \in Users,
             \/ \E v \in Users, r \in Roles : StartRole(u, v, r)
             \/ \E s \in Users \cup {NoOne}, all \in BOOLEAN : StartLeave(u, all, s)
             \/ \E v \in Users : InviteUser(u, v)
      PROVE  FALSE
  BY <1>6 DEF StartRole, StartLeave, InviteUser, MayStart, OneAdminStays
<1>7. ASSUME NEW u \in Users,
             StartRevoke(u) \/ SendRevoke(u) \/ SendRole(u) \/ CheckLeave(u) \/ Kick(u) \/ Go(u)
      PROVE  FALSE
  <2>1. StartRevoke(u) => May("revoke")
    BY DEF StartRevoke
  <2>2. SendRevoke(u) \/ SendRole(u) \/ CheckLeave(u) \/ Kick(u) \/ Go(u)
          => op[u].kind \in {"revoke", "role", "check", "kick", "go"}
    BY DEF SendRevoke, SendRole, CheckLeave, Kick, Go
  <2>3. QED BY <1>1, <1>7, <2>1, <2>2 DEF May, OneAdminStays
<1>8. ASSUME NEW u \in Users, StartMint(u) PROVE UsesInv'
  <2>1. \/ Quiet
        \/ /\ ~room.link.made /\ MayAdminister(u) /\ room'.role = room.role
           /\ room'.mem = room.mem /\ room'.link = room.link
           /\ Operates(u, op'[u]) /\ op'[u].kind = "mint" /\ UNCHANGED <<env, adm, admitted>>
    BY <1>8, MintEffect
  <2>2. Pending' = Pending \/ Quiet
    BY <2>1 DEF Pending
  <2>3. QED BY <1>1, <1>3, <1>4, <2>1, <2>2 DEF Operates, UsesInv
<1>9. ASSUME NEW u \in Users, PublishLink(u) PROVE UsesInv'
  <2>1. op[u].kind = "mint"
    BY <1>9 DEF PublishLink
  <2>2. \/ Quiet
        \/ /\ room'.role = room.role /\ room'.mem = room.mem /\ room'.link.made
           /\ room'.link.uses = 0 /\ Operates(u, op'[u]) /\ op'[u].kind = "none"
           /\ UNCHANGED <<env, adm, admitted>>
    BY <1>9, <2>1, LinkEffect
  <2>3. u = Creator /\ ~room.link.made /\ admitted = {} /\ \A w \in Users : adm[w].sweep.step = "none"
        /\ room.link.uses = 0
    BY <1>1, <2>1
  <2>4. \A w \in Users \ {u} : op[w].kind = "none"
    BY <1>1, <2>3
  <2>5. CASE ~Quiet
    <3>1. Pending' = Pending /\ \A w \in Users : op'[w].kind = "none"
      BY <2>2, <2>4, <2>5 DEF Pending, Operates
    <3>2. QED BY <1>1, <1>2, <2>2, <2>3, <2>5, <3>1 DEF UsesInv
  <2>6. QED BY <1>4, <2>5
<1>10. ASSUME NEW u \in Users, NextKnock(u) PROVE UsesInv'
  <2>1. UNCHANGED <<env, room, seen, op, admitted>>
    BY <1>10 DEF NextKnock, sweepOthers
  <2>2. seen[u] = room
    BY <1>10 DEF NextKnock, May, OneAdminStays
  <2>3. CASE adm'[u].sweep.step = adm[u].sweep.step /\ adm'[u].sweep.base = adm[u].sweep.base
    <3>1. Quiet
      BY <1>10, <2>1, <2>3, KnockEdit DEF Quiet, RoomType
    <3>2. QED BY <1>4, <3>1
  <2>4. CASE /\ Verify(seen[u].link) /\ adm'[u].sweep.step = "count"
             /\ adm'[u].sweep.base.made = seen[u].link.made
             /\ adm'[u].sweep.base.uses = seen[u].link.uses + 1
    <3>1. /\ room.link.made /\ adm'[u].sweep.base.made
          /\ adm'[u].sweep.base.uses = room.link.uses + 1
          /\ env.limit > 0 => room.link.uses < env.limit
      BY <2>2, <2>4 DEF Verify
    <3>2. \A v \in Users \ {u} : adm'[v] = adm[v]
      BY <1>10, KnockEdit
    <3>3. Pending' <= Pending /\ Pending' \in Nat /\ Pending \in Nat
      BY <1>2, <2>4, <3>2 DEF Pending
    <3>4. Cardinality(admitted) + Pending' <= room.link.uses
      BY <1>1, <1>2, <3>3
    <3>5. adm'[Creator].sweep.step = "count" =>
            /\ adm'[Creator].sweep.base.made /\ adm'[Creator].sweep.base.uses = room.link.uses + 1
            /\ env.limit > 0 => adm'[Creator].sweep.base.uses <= env.limit
      <4>1. CASE u = Creator
        BY <1>2, <3>1, <4>1
      <4>2. CASE u # Creator
        BY <1>1, <1>2, <3>2, <4>2
      <4>3. QED BY <4>1, <4>2
    <3>6. \A w \in Users : adm'[w].sweep.step = "invite" => w = Creator
      BY <1>1, <2>4, <3>2
    <3>7. QED BY <1>1, <2>1, <3>1, <3>4, <3>5, <3>6 DEF UsesInv
  <2>5. QED BY <1>10, <2>3, <2>4, KnockEdit
<1>11. ASSUME NEW u \in Users, CountUse(u) PROVE UsesInv'
  <2>1. CASE ~Quiet
    <3>1. /\ adm[u].sweep.step = "count" /\ MayAdminister(u) /\ room'.role = room.role
          /\ room'.mem = room.mem /\ room'.link = adm[u].sweep.base
          /\ adm'[u].sweep.step = "invite" /\ \A v \in Users \ {u} : adm'[v] = adm[v]
          /\ UNCHANGED <<env, op, admitted>>
      BY <1>11, <2>1, CountEffect
    <3>2. u = Creator
      BY <1>3, <3>1
    <3>3. Pending = 0 /\ Pending' = 1
      BY <3>1, <3>2 DEF Pending
    <3>4. room'.link.made /\ room'.link.uses = room.link.uses + 1 /\ room.link.made
          /\ (env.limit > 0 => room'.link.uses <= env.limit)
      BY <1>1, <3>1, <3>2
    <3>5. Cardinality(admitted) + Pending' <= room'.link.uses
      BY <1>1, <1>2, <3>3, <3>4
    <3>6. QED BY <1>1, <3>1, <3>2, <3>4, <3>5 DEF UsesInv
  <2>2. QED BY <1>4, <2>1
<1>12. ASSUME NEW u \in Users, InviteKnocker(u) PROVE UsesInv'
  <2>1. CASE ~Quiet
    <3>1. PICK v \in Users :
            /\ room.mem[v] # "join" /\ Moved(v, "invite") /\ admitted' = admitted \cup {v}
            /\ adm'[u].sweep.step = "none" /\ \A w \in Users \ {u} : adm'[w] = adm[w]
            /\ adm[u].sweep.step = "invite" /\ UNCHANGED <<env, op>>
      BY <1>12, <2>1, LetInEffect
    <3>2. u = Creator /\ v # Creator /\ room.link.made
      BY <1>1, <3>1
    <3>3. Pending = 1 /\ Pending' = 0
      BY <3>1, <3>2 DEF Pending
    <3>4. /\ room'.mem[Creator] = "join" /\ room'.link = room.link /\ room'.role = room.role
      BY <1>1, <1>2, <3>1, <3>2 DEF Moved
    <3>5. IsFiniteSet(admitted') /\ Cardinality(admitted') <= Cardinality(admitted) + 1
          /\ Cardinality(admitted') \in Nat
      <4>1. /\ IsFiniteSet(admitted \cup {v})
            /\ Cardinality(admitted \cup {v}) =
                 IF v \in admitted THEN Cardinality(admitted) ELSE Cardinality(admitted) + 1
        BY <1>1, FS_AddElement
      <4>2. admitted' = admitted \cup {v}
        BY <3>1
      <4>3. QED BY <1>2, <4>1, <4>2
    <3>6. Cardinality(admitted') + Pending' <= room'.link.uses
      BY <1>1, <1>2, <3>3, <3>4, <3>5
    <3>7. QED BY <1>1, <3>1, <3>2, <3>4, <3>5, <3>6 DEF UsesInv
  <2>2. QED BY <1>4, <2>1
<1>13. ASSUME NEW u \in Users, KnockAnswer(u) \/ TryAccept(u) \/ HandleAccept(u) \/ HandleDecline(u)
       PROVE  UsesInv'
  <2>1. CASE ~Quiet
    <3>1. PICK m \in Mems : room.mem[u] # "join" /\ Moved(u, m)
      BY <1>13, <2>1, OwnMoveEffect
    <3>2. UNCHANGED <<env, op, adm, admitted>> /\ u # Creator
      BY <1>1, <1>13, <3>1, OwnMoveEffect
    <3>3. QED BY <1>5, <3>1, <3>2
  <2>2. QED BY <1>4, <2>1
<1>14. ASSUME NEW u \in Users, Sync(u) PROVE UsesInv'
  <2>1. UNCHANGED <<env, room, op, adm, admitted>>
    BY <1>14 DEF Sync
  <2>2. Pending' = Pending
    BY <2>1 DEF Pending
  <2>3. QED BY <1>1, <2>1, <2>2 DEF UsesInv
<1>15. QED
  BY <1>4, <1>6, <1>7, <1>8, <1>9, <1>10, <1>11, <1>12, <1>13, <1>14, StepCases DEF Loud

-----------------------------------------------------------------------------
(* Nobody is left without an admin: the strengthening behind                *)
(* NoStrandedWorkspace.  An operation under way knows who is in the room,   *)
(* and what it has decided still holds when its request is answered.        *)
Calm ==
  /\ env.faults \cap {"hasty", "decline"} = {}
  /\ "link" \in env.faults => env.managers = {}

\* Somebody in the room, other than u perhaps, is an admin by these roles.
Led(r) == Active(r) # {} => \E w \in Active(r) : r.role[w] = "admin"
LedWithout(u, roles) == \E w \in Active(room) \ {u} : roles[w] = "admin"

\* The new roles leave u what u was, and every admin an admin.
Grants(old, new, u) == new[u] = old[u] /\ \A w \in Users : old[w] = "admin" => new[w] = "admin"

\* The store of a client that is about to leave knows who is in the room.
KnowsRoom(u) == Active(seen[u]) = Active(room)

RoleSafe(u) ==
  /\ op[u].new[u] = "admin" \/ LedWithout(u, op[u].new)
  /\ op[u].leave => /\ KnowsRoom(u)
                    /\ Grants(seen[u].role, op[u].new, u) /\ Grants(room.role, op[u].new, u)
CheckSafe(u) == KnowsRoom(u) /\ Grants(seen[u].role, room.role, u)
KickSafe(u) == Active(room) \subseteq op[u].rest \cup {u}
GoSafe(u) == Active(room) \subseteq {u} \/ room.role[u] # "admin" \/ LedWithout(u, room.role)
OpSafe(u) ==
  /\ op[u].kind = "role" => RoleSafe(u)
  /\ op[u].kind = "check" => CheckSafe(u)
  /\ op[u].kind = "kick" => KickSafe(u)
  /\ op[u].kind = "go" => GoSafe(u)

\* Without a link nobody comes in by one, and one operation runs at a time.
NoLinkYet ==
  /\ ~room.link.made
  /\ \A u \in Users : /\ ~seen[u].link.made /\ adm[u].sweep.step = "none"
                      /\ op[u].kind \notin {"mint", "revoke"}
  /\ \A u, v \in Users : op[u].kind # "none" /\ op[v].kind # "none" => u = v

\* Without managers nobody leaves, deletes or changes a role.
OnlyLinks == \A u \in Users : op[u].kind \in {"none", "mint", "revoke"}

StrandInv == Calm =>
  /\ Led(room)
  /\ "link" \notin env.faults => NoLinkYet
  /\ env.managers = {} => OnlyLinks
  /\ \A u \in Users : OpSafe(u)

\* Who is in the room after one person moved.
LEMMA ActiveMoved ==
  ASSUME NEW v \in Users, NEW m \in Mems, Moved(v, m)
  PROVE  Active(room') = IF m \in {"join", "invite"} THEN Active(room) \cup {v}
                         ELSE Active(room) \ {v}
  BY DEF Moved, Active

\* An operation's decision outlives every step that leaves the room's people and
\* roles alone, as long as the client's store stays true.
LEMMA DecisionKept ==
  ASSUME NEW u \in Users, OpSafe(u), op'[u] = op[u],
         Active(room') = Active(room), room'.role = room.role,
         KnowsRoom(u) => Active(seen'[u]) = Active(room),
         seen'[u].role = seen[u].role \/ seen'[u].role = room.role
  PROVE  OpSafe(u)'
<1>1. ASSUME op[u].kind = "role" PROVE RoleSafe(u)'
  <2>1. RoleSafe(u)
    BY <1>1 DEF OpSafe
  <2>2. (op[u].new[u] = "admin" \/ LedWithout(u, op[u].new))'
    BY <2>1 DEF RoleSafe, LedWithout
  <2>3. ASSUME op[u].leave
        PROVE  (KnowsRoom(u) /\ Grants(seen[u].role, op[u].new, u) /\ Grants(room.role, op[u].new, u))'
    BY <2>1, <2>3 DEF RoleSafe, KnowsRoom, Grants
  <2>4. QED BY <2>2, <2>3 DEF RoleSafe
<1>2. ASSUME op[u].kind = "check" PROVE CheckSafe(u)'
  BY <1>2 DEF OpSafe, CheckSafe, KnowsRoom, Grants
<1>3. ASSUME op[u].kind = "kick" PROVE KickSafe(u)'
  BY <1>3 DEF OpSafe, KickSafe
<1>4. ASSUME op[u].kind = "go" PROVE GoSafe(u)'
  BY <1>4 DEF OpSafe, GoSafe, LedWithout
<1>5. QED BY <1>1, <1>2, <1>3, <1>4 DEF OpSafe

\* Everything that happens on a link, where nobody manages the workspace.
LEMMA LinkStep ==
  ASSUME RoomType, StrandInv, Calm, env' = env, "link" \in env.faults,
         \A u \in Users : op'[u].kind \in {"none", "mint", "revoke"},
         room'.role = room.role,
         \/ Active(room') = Active(room)
         \/ Active(room) # {} /\ Active(room) \subseteq Active(room')
  PROVE  StrandInv'
<1>1. Led(room')
  BY DEF StrandInv, Led
<1>2. \A u \in Users : OpSafe(u)'
  BY DEF OpSafe
<1>3. OnlyLinks'
  BY DEF OnlyLinks
<1>4. QED BY <1>1, <1>2, <1>3 DEF StrandInv

\* At the start the creator is an admin in the room, and nothing is under way.
LEMMA StrandInit ==
  ASSUME RoomType, Init PROVE StrandInv
<1> DEFINE in == {m[1] : m \in env.members}
           role(u) == IF u \in in THEN (CHOOSE m \in env.members : m[1] = u)[2] ELSE "editor"
<1>1. /\ room = [mem |-> [u \in Users |-> IF u \in in THEN "join" ELSE "out"],
                 role |-> [u \in Users |-> role(u)], knock |-> FALSE, link |-> NoLink]
      /\ op = [u \in Users |-> NoOp] /\ seen = [u \in Users |-> room]
      /\ adm = [u \in Users |-> [sweep |-> Resting, handled |-> {}]]
  BY DEF Init, rest
<1>2. Creator \in in /\ role(Creator) = "admin"
  <2>1. PICK m \in env.members : m = <<Creator, "admin">>
    BY EnvFacts
  <2>2. \A n \in env.members : n[1] = Creator => n = m
    BY <2>1, EnvFacts
  <2>3. (CHOOSE n \in env.members : n[1] = Creator) = m
    BY <2>1, <2>2
  <2>4. Creator \in in
    BY <2>1
  <2>5. role(Creator) = (CHOOSE n \in env.members : n[1] = Creator)[2]
    BY <2>4, Zenon
  <2>6. m[2] = "admin"
    BY <2>1
  <2>7. QED BY <2>3, <2>4, <2>5, <2>6
<1> HIDE DEF in, role
<1>3. Creator \in Active(room) /\ room.role[Creator] = "admin"
  BY <1>1, <1>2, EnvFacts DEF Active
<1>4. /\ ~room.link.made /\ \A u \in Users : seen[u] = room
      /\ \A u \in Users : op[u].kind = "none" /\ adm[u].sweep.step = "none"
  BY <1>1 DEF NoLink, NoOp, Resting
<1>5. Led(room)
  BY <1>3 DEF Led
<1>6. NoLinkYet /\ OnlyLinks
  BY <1>4 DEF NoLinkYet, OnlyLinks
<1>7. \A u \in Users : OpSafe(u)
  BY <1>4 DEF OpSafe
<1>8. QED BY <1>5, <1>6, <1>7 DEF StrandInv

\* Every step leaves an admin to whoever stays.
LEMMA StrandStep ==
  ASSUME RoomType, StrandInv, [Next]_vars
  PROVE  StrandInv'
<1>0. RoomType' /\ env' = env
  BY TypeStep
<1> SUFFICES ASSUME Calm PROVE StrandInv'
  BY <1>0 DEF StrandInv, Calm
<1>1. /\ Led(room) /\ \A u \in Users : OpSafe(u)
      /\ "link" \notin env.faults => NoLinkYet
      /\ "link" \in env.faults => OnlyLinks
      /\ env.managers = {} => OnlyLinks
      /\ "hasty" \notin env.faults /\ "decline" \notin env.faults
  BY DEF StrandInv, Calm
<1>2. ASSUME NEW u \in Users, op[u].kind \notin {"none", "mint", "revoke"}
      PROVE  /\ env.managers # {} /\ "link" \notin env.faults /\ NoLinkYet
             /\ \A v \in Users \ {u} : op[v].kind = "none"
  <2>1. env.managers # {} /\ "link" \notin env.faults /\ NoLinkYet
    BY <1>1, <1>2 DEF OnlyLinks
  <2>2. QED BY <1>2, <2>1 DEF NoLinkYet
\* The operation of one user u goes on, without a link; all others rest.
<1>3. ASSUME NEW u \in Users, NoLinkYet, env.managers # {}, "link" \notin env.faults,
             \A v \in Users \ {u} : op[v].kind = "none" /\ seen'[v] = seen[v],
             Operates(u, op'[u]), op'[u].kind \notin {"mint", "revoke"}, UNCHANGED <<env, adm>>,
             room'.link = room.link, seen'[u].link = seen[u].link, Led(room'), OpSafe(u)'
      PROVE  StrandInv'
  <2>1. \A v \in Users \ {u} : op'[v].kind = "none"
    BY <1>3 DEF Operates
  <2>2. \A v \in Users : OpSafe(v)'
    BY <1>3, <2>1 DEF OpSafe
  <2>3. NoLinkYet'
    <3>1. \A v \in Users : ~seen'[v].link.made /\ op'[v].kind \notin {"mint", "revoke"}
      BY <1>3, <2>1 DEF NoLinkYet
    <3>2. \A v, w \in Users : op'[v].kind # "none" /\ op'[w].kind # "none" => v = w
      BY <2>1
    <3>3. QED BY <1>3, <3>1, <3>2 DEF NoLinkYet
  <2>4. QED BY <1>3, <2>2, <2>3 DEF StrandInv
\* Nobody enters or leaves, no role changes, the stores stay true.
<1>4. ASSUME UNCHANGED <<env, op, adm>>, Active(room') = Active(room), room'.role = room.role,
             room'.link = room.link,
             \A u \in Users : /\ KnowsRoom(u) => Active(seen'[u]) = Active(room)
                              /\ seen'[u].role = seen[u].role \/ seen'[u].role = room.role
                              /\ seen'[u].link = seen[u].link \/ seen'[u].link = room.link
      PROVE  StrandInv'
  <2>1. Led(room') /\ \A u \in Users : OpSafe(u)'
    BY <1>1, <1>4, DecisionKept DEF Led
  <2>2. NoLinkYet => NoLinkYet'
    BY <1>4 DEF NoLinkYet
  <2>3. OnlyLinks => OnlyLinks'
    BY <1>4 DEF OnlyLinks
  <2>4. QED BY <1>1, <1>4, <2>1, <2>2, <2>3 DEF StrandInv
<1>5. CASE Quiet
  <2>1. /\ UNCHANGED <<env, room, seen>>
        /\ \A u \in Users : op'[u] = op[u] \/ op'[u].kind = "none"
        /\ \A u \in Users : adm'[u].sweep.step \in {"none", adm[u].sweep.step}
    BY <1>5, OpKinds DEF Quiet
  <2>2. ASSUME NEW u \in Users PROVE OpSafe(u)'
    <3>1. CASE op'[u] = op[u]
      BY <1>1, <2>1, <3>1, DecisionKept DEF KnowsRoom
    <3>2. CASE op'[u].kind = "none"
      BY <3>2 DEF OpSafe
    <3>3. QED BY <2>1, <3>1, <3>2
  <2>3. NoLinkYet => NoLinkYet'
    BY <2>1 DEF NoLinkYet
  <2>4. OnlyLinks => OnlyLinks'
    BY <2>1 DEF OnlyLinks
  <2>5. QED BY <1>1, <2>1, <2>2, <2>3, <2>4 DEF StrandInv
\* Whoever starts has caught up, and nobody else is at work.
<1>6. ASSUME NEW u \in Users, MayStart(u)
      PROVE  /\ env.managers # {} /\ "link" \notin env.faults /\ NoLinkYet
             /\ seen[u] = room /\ \A v \in Users : op[v].kind = "none"
  BY <1>1, <1>6, OpKinds DEF MayStart, Settled, May, Calm
<1>7. ASSUME NEW u \in Users,
             \/ \E v \in Users, r \in Roles : StartRole(u, v, r)
             \/ \E s \in Users \cup {NoOne}, all \in BOOLEAN : StartLeave(u, all, s)
      PROVE  StrandInv'
  <2>1. MayStart(u) /\ UNCHANGED <<env, room, seen, adm, admitted>> /\ Operates(u, op'[u])
    BY <1>7, StartEffect
  <2>2. /\ env.managers # {} /\ "link" \notin env.faults /\ NoLinkYet
        /\ seen[u] = room /\ \A v \in Users : op[v].kind = "none"
    BY <1>6, <2>1
  <2>3. KnowsRoom(u)' /\ Grants(seen[u].role, room.role, u)'
    BY <2>1, <2>2 DEF KnowsRoom, Grants
  <2>4. CASE op'[u].kind = "check"
    <3>1. OpSafe(u)'
      BY <2>3, <2>4 DEF OpSafe, CheckSafe
    <3>2. QED BY <1>1, <1>3, <2>1, <2>2, <2>4, <3>1
  <2>5. CASE op'[u].kind = "role" /\ seen[u].role[u] = "admin"
    <3>1. PICK v \in Active(seen[u]), r \in Roles :
            /\ op'[u].new = [seen[u].role EXCEPT ![v] = r]
            /\ op'[u].leave => r = "admin"
            /\ v = u /\ r # "admin" => OtherAdmin(u)
      BY <1>7, <2>5, StartEffect
    <3>2. \A w \in Users : op'[u].new[w] = IF w = v THEN r ELSE room.role[w]
      BY <2>2, <3>1 DEF RoomType, Room
    <3>3. op'[u].new[u] = "admin" \/ LedWithout(u, op'[u].new)
      <4>1. CASE v = u /\ r # "admin"
        <5>1. PICK w \in Active(room) \ {u} : room.role[w] = "admin"
          BY <2>2, <3>1, <4>1 DEF OtherAdmin
        <5>2. w \in Users /\ op'[u].new[w] = "admin"
          BY <3>2, <4>1, <5>1 DEF Active
        <5>3. QED BY <5>1, <5>2 DEF LedWithout
      <4>2. CASE v # u \/ r = "admin"
        BY <2>2, <2>5, <3>2, <4>2
      <4>3. QED BY <4>1, <4>2
    <3>4. op'[u].leave => Grants(room.role, op'[u].new, u)
      BY <2>2, <2>5, <3>1, <3>2 DEF Grants
    <3>5. RoleSafe(u)'
      <4>1. (op[u].new[u] = "admin" \/ LedWithout(u, op[u].new))'
        BY <2>1, <3>3 DEF LedWithout
      <4>2. op'[u].leave =>
              (Grants(seen[u].role, op[u].new, u) /\ Grants(room.role, op[u].new, u))'
        BY <2>1, <2>2, <3>4 DEF Grants
      <4>3. QED BY <2>3, <4>1, <4>2 DEF RoleSafe
    <3>6. OpSafe(u)'
      BY <2>5, <3>5 DEF OpSafe
    <3>7. QED BY <1>1, <1>3, <2>1, <2>2, <2>5, <3>6
  <2>6. QED BY <1>7, <2>4, <2>5, StartEffect
<1>8. ASSUME NEW u \in Users, NEW v \in Users, InviteUser(u, v) PROVE StrandInv'
  <2>1. /\ MayStart(u) /\ MayInvite(u) /\ Moved(v, "invite")
        /\ UNCHANGED <<env, seen, op, adm, admitted>>
    BY <1>8, InviteEffect
  <2>2. /\ env.managers # {} /\ "link" \notin env.faults /\ NoLinkYet
        /\ \A w \in Users : op[w].kind = "none"
    BY <1>6, <2>1
  <2>3. Active(room') = Active(room) \cup {v} /\ room'.role = room.role /\ room'.link = room.link
    BY <2>1, ActiveMoved DEF Moved, Mems
  <2>4. Led(room')
    <3>1. u \in Active(room)
      BY <2>1 DEF MayInvite, Active
    <3>2. QED BY <1>1, <2>3, <3>1 DEF Led
  <2>5. \A w \in Users : OpSafe(w)'
    BY <2>1, <2>2 DEF OpSafe
  <2>6. NoLinkYet'
    BY <2>1, <2>2, <2>3 DEF NoLinkYet
  <2>7. QED BY <2>1, <2>2, <2>4, <2>5, <2>6 DEF StrandInv
<1>9. ASSUME NEW u \in Users, SendRole(u) PROVE StrandInv'
  <2>1. op[u].kind = "role" /\ UNCHANGED <<env, seen, adm, admitted>>
    BY <1>9, SendRoleEffect
  <2>2. /\ env.managers # {} /\ "link" \notin env.faults /\ NoLinkYet
        /\ \A v \in Users \ {u} : op[v].kind = "none"
    BY <1>2, <2>1
  <2>3. RoleSafe(u)
    BY <1>1, <2>1 DEF OpSafe
  <2>4. CASE ~Quiet
    <3>1. /\ MayAdminister(u) /\ room'.role = op[u].new /\ room'.mem = room.mem
          /\ room'.link = room.link /\ Operates(u, op'[u])
          /\ op'[u].kind = IF op[u].leave THEN "check" ELSE "none"
      BY <1>9, <2>4, SendRoleEffect
    <3>2. Active(room') = Active(room) /\ u \in Active(room)
      BY <3>1 DEF Active, MayAdminister
    <3>3. Led(room')
      BY <2>3, <3>1, <3>2 DEF Led, RoleSafe, LedWithout
    <3>4. op[u].leave => CheckSafe(u)'
      BY <2>1, <2>3, <3>1, <3>2 DEF RoleSafe, CheckSafe, KnowsRoom, Grants
    <3>5. OpSafe(u)'
      BY <3>1, <3>4 DEF OpSafe
    <3>6. QED BY <1>3, <2>1, <2>2, <3>1, <3>3, <3>5
  <2>5. QED BY <1>5, <2>4
<1>10. ASSUME NEW u \in Users, CheckLeave(u) PROVE StrandInv'
  <2>1. op[u].kind = "check" /\ UNCHANGED <<env, room, seen, adm, admitted>>
    BY <1>10, CheckEffect
  <2>2. /\ env.managers # {} /\ "link" \notin env.faults /\ NoLinkYet
        /\ \A v \in Users \ {u} : op[v].kind = "none"
    BY <1>2, <2>1
  <2>3. KnowsRoom(u) /\ Grants(seen[u].role, room.role, u)
    BY <1>1, <2>1 DEF OpSafe, CheckSafe
  <2>4. CASE /\ Operates(u, op'[u]) /\ op'[u].kind = "kick"
             /\ op'[u].rest = Active(seen[u]) \ {u}
    <3>1. OpSafe(u)'
      BY <2>1, <2>3, <2>4 DEF OpSafe, KickSafe, KnowsRoom
    <3>2. QED BY <1>1, <1>3, <2>1, <2>2, <2>4, <3>1
  <2>5. CASE Operates(u, op'[u]) /\ op'[u].kind = "go" /\ MayLeave(u)
    <3>1. GoSafe(u)
      <4>1. CASE Active(seen[u]) \ {u} = {}
        BY <2>3, <4>1 DEF KnowsRoom, GoSafe
      <4>2. CASE seen[u].role[u] # "admin"
        BY <2>3, <4>2 DEF Grants, GoSafe
      <4>3. CASE OtherAdmin(u)
        <5>1. PICK w \in Active(seen[u]) \ {u} : seen[u].role[w] = "admin"
          BY <4>3 DEF OtherAdmin
        <5>2. w \in Users /\ room.role[w] = "admin"
          BY <2>3, <5>1 DEF Grants, Active
        <5>3. QED BY <2>3, <5>1, <5>2 DEF KnowsRoom, GoSafe, LedWithout
      <4>4. QED BY <2>5, <4>1, <4>2, <4>3 DEF MayLeave
    <3>2. OpSafe(u)'
      BY <2>1, <2>5, <3>1 DEF OpSafe, GoSafe, LedWithout
    <3>3. QED BY <1>1, <1>3, <2>1, <2>2, <2>5, <3>2
  <2>6. QED BY <1>5, <1>10, <2>4, <2>5, CheckEffect
<1>11. ASSUME NEW u \in Users, Kick(u) PROVE StrandInv'
  <2>1. op[u].kind = "kick" /\ UNCHANGED <<env, seen, adm, admitted>>
    BY <1>11, KickEffect
  <2>2. /\ env.managers # {} /\ "link" \notin env.faults /\ NoLinkYet
        /\ \A v \in Users \ {u} : op[v].kind = "none"
    BY <1>2, <2>1
  <2>3. CASE ~Quiet
    <3>1. PICK v \in op[u].rest :
            /\ MayAdminister(u) /\ room.role[v] # "admin"
            /\ room'.role = room.role /\ room'.link = room.link
            /\ \A w \in Users : room'.mem[w] = IF w = v THEN "out" ELSE room.mem[w]
            /\ Operates(u, op'[u]) /\ op'[u].kind = "kick" /\ op'[u].rest = op[u].rest \ {v}
      BY <1>11, <2>3, KickEffect
    <3>2. Active(room') = Active(room) \ {v} /\ u \in Active(room) /\ u # v /\ room.role[u] = "admin"
      BY <3>1 DEF Active, MayAdminister
    <3>3. Led(room')
      BY <3>1, <3>2 DEF Led
    <3>4. OpSafe(u)'
      <4>1. KickSafe(u)
        BY <1>1, <2>1 DEF OpSafe
      <4>2. KickSafe(u)'
        BY <3>1, <3>2, <4>1 DEF KickSafe
      <4>3. QED BY <3>1, <4>2 DEF OpSafe
    <3>5. QED BY <1>3, <2>1, <2>2, <3>1, <3>3, <3>4
  <2>4. QED BY <1>5, <2>3
<1>12. ASSUME NEW u \in Users, Go(u) PROVE StrandInv'
  <2>1. /\ op[u].kind = "go" \/ (op[u].kind = "kick" /\ op[u].rest = {})
        /\ UNCHANGED <<env, adm, admitted>>
    BY <1>12, GoEffect
  <2>2. /\ env.managers # {} /\ "link" \notin env.faults /\ NoLinkYet
        /\ \A v \in Users \ {u} : op[v].kind = "none"
    BY <1>2, <2>1
  <2>3. CASE ~Quiet
    <3>1. /\ room'.role = room.role /\ room'.link = room.link
          /\ \A w \in Users : room'.mem[w] = IF w = u THEN "out" ELSE room.mem[w]
          /\ seen'[u].link = seen[u].link /\ \A v \in Users \ {u} : seen'[v] = seen[v]
          /\ Operates(u, op'[u]) /\ op'[u].kind = "forget"
      BY <1>12, <2>3, GoEffect
    <3>2. Active(room') = Active(room) \ {u}
      BY <3>1 DEF Active
    <3>3. GoSafe(u)
      BY <1>1, <2>1 DEF OpSafe, KickSafe, GoSafe
    <3>4. Led(room')
      <4>1. CASE Active(room) \subseteq {u}
        BY <3>2, <4>1 DEF Led
      <4>2. CASE room.role[u] # "admin"
        BY <1>1, <3>1, <3>2, <4>2 DEF Led
      <4>3. CASE LedWithout(u, room.role)
        BY <3>1, <3>2, <4>3 DEF Led, LedWithout
      <4>4. QED BY <3>3, <4>1, <4>2, <4>3 DEF GoSafe
    <3>5. OpSafe(u)'
      BY <3>1 DEF OpSafe
    <3>6. QED BY <1>3, <2>1, <2>2, <3>1, <3>4, <3>5
  <2>4. QED BY <1>5, <2>3
\* What a link brings about, where nobody manages.
<1>13. ASSUME NEW u \in Users,
              \/ StartMint(u) \/ StartRevoke(u) \/ PublishLink(u) \/ SendRevoke(u)
       PROVE  StrandInv'
  <2>1. CASE ~Quiet
    <3>1. "link" \in env.faults
      <4>1. StartMint(u) => May("link")
        BY MintEffect
      <4>2. StartRevoke(u) => seen[u].link.made
        BY RevokeEffect
      <4>3. PublishLink(u) \/ SendRevoke(u) => op[u].kind \in {"mint", "revoke"}
        BY LinkEffect
      <4>4. QED BY <1>1, <1>13, <4>1, <4>2, <4>3 DEF May, NoLinkYet
    <3>2. /\ room'.role = room.role /\ room'.mem = room.mem /\ Operates(u, op'[u])
          /\ op'[u].kind \in {"none", "mint", "revoke"}
      BY <1>13, <2>1, MintEffect, RevokeEffect, LinkEffect
    <3>3. Active(room') = Active(room)
      BY <3>2 DEF Active
    <3>4. \A w \in Users : op'[w].kind \in {"none", "mint", "revoke"}
      BY <1>1, <3>1, <3>2 DEF OnlyLinks, Operates
    <3>5. QED BY <1>0, <3>1, <3>2, <3>3, <3>4, LinkStep
  <2>2. QED BY <1>5, <2>1
<1>14. ASSUME NEW u \in Users, NextKnock(u) \/ CountUse(u) \/ InviteKnocker(u) PROVE StrandInv'
  <2>1. CASE ~Quiet
    <3>1. op' = op
      BY <1>14 DEF NextKnock, CountUse, InviteKnocker, sweepOthers
    <3>2. CASE "link" \in env.faults
      <4>1. \A w \in Users : op'[w].kind \in {"none", "mint", "revoke"}
        BY <1>1, <3>1, <3>2 DEF OnlyLinks
      <4>2. /\ room'.role = room.role
            /\ \/ Active(room') = Active(room)
               \/ Active(room) # {} /\ Active(room) \subseteq Active(room')
        <5>1. CASE NextKnock(u)
          BY <5>1 DEF NextKnock, sweepOthers
        <5>2. CASE CountUse(u)
          <6>1. room'.role = room.role /\ room'.mem = room.mem
            BY <2>1, <5>2, CountEffect
          <6>2. QED BY <6>1 DEF Active
        <5>3. CASE InviteKnocker(u)
          <6>1. PICK v \in Users : MayInvite(u) /\ Moved(v, "invite")
            BY <2>1, <5>3, LetInEffect
          <6>2. Active(room') = Active(room) \cup {v} /\ room'.role = room.role
            BY <6>1, ActiveMoved DEF Moved, Mems
          <6>3. u \in Active(room)
            BY <6>1 DEF MayInvite, Active
          <6>4. QED BY <6>2, <6>3
        <5>4. QED BY <1>14, <5>1, <5>2, <5>3
      <4>3. QED BY <1>0, <3>2, <4>1, <4>2, LinkStep
    <3>3. CASE "link" \notin env.faults
      <4>1. adm[u].sweep.step = "none" /\ ~seen[u].link.made
        BY <1>1, <3>3 DEF NoLinkYet
      <4>2. NextKnock(u)
        BY <1>14, <4>1 DEF CountUse, InviteKnocker
      <4>3. /\ adm' \in [Users -> Admitter] /\ \A v \in Users \ {u} : adm'[v] = adm[v]
            /\ adm'[u].sweep.step = adm[u].sweep.step /\ adm'[u].sweep.base = adm[u].sweep.base
        BY <4>1, <4>2, KnockEdit DEF Verify
      <4>4. UNCHANGED <<env, room, seen, op, admitted>>
        BY <4>2 DEF NextKnock, sweepOthers
      <4>5. Quiet
        BY <4>3, <4>4 DEF Quiet, RoomType
      <4>6. QED BY <2>1, <4>5
    <3>4. QED BY <3>2, <3>3
  <2>2. QED BY <1>5, <2>1
<1>15. ASSUME NEW u \in Users, KnockAnswer(u) \/ TryAccept(u) \/ HandleAccept(u) \/ HandleDecline(u)
       PROVE  StrandInv'
  <2>1. CASE ~Quiet
    <3>1. PICK m \in {"knock", "join"} :
            /\ \/ room.mem[u] = "out" /\ m = "knock"
               \/ room.mem[u] = "invite" /\ m = "join"
            /\ m \in Mems /\ Moved(u, m)
            /\ \A v \in Users \ {u} : seen'[v] = seen[v]
            /\ seen'[u].role = seen[u].role /\ seen'[u].link = seen[u].link
            /\ \A v \in Users : seen'[u].mem[v] = IF v = u THEN m ELSE seen[u].mem[v]
      BY <1>1, <1>15, <2>1, OwnMoveEffect DEF May
    <3>2. UNCHANGED <<env, op, adm>>
      BY <1>15, OwnMoveEffect
    <3>3. Active(room') = Active(room)
      BY <3>1, ActiveMoved DEF Active
    <3>4. KnowsRoom(u) => Active(seen'[u]) = Active(room)
      BY <3>1 DEF KnowsRoom, Active
    <3>5. \A w \in Users : /\ KnowsRoom(w) => Active(seen'[w]) = Active(room)
                           /\ seen'[w].role = seen[w].role /\ seen'[w].link = seen[w].link
      BY <3>1, <3>4 DEF KnowsRoom
    <3>6. QED BY <1>4, <3>1, <3>2, <3>3, <3>5 DEF Moved
  <2>2. QED BY <1>5, <2>1
<1>16. ASSUME NEW u \in Users, Sync(u) PROVE StrandInv'
  <2>1. UNCHANGED <<env, room, op, adm>>
    BY <1>16 DEF Sync
  <2>2. KnowsRoom(u) => Active(seen'[u]) = Active(room)
    <3>1. CASE seen'[u] = room
      BY <3>1
    <3>2. CASE \A v \in Users : seen'[u].mem[v] = IF v = u THEN room.mem[u] ELSE seen[u].mem[v]
      BY <3>2 DEF KnowsRoom, Active
    <3>3. QED BY <1>16, <3>1, <3>2, SyncEdit
  <2>3. \A v \in Users \ {u} : seen'[v] = seen[v]
    BY <1>16, SyncEdit
  <2>4. \/ seen'[u].role = seen[u].role /\ seen'[u].link = seen[u].link
        \/ seen'[u].role = room.role /\ seen'[u].link = room.link
    BY <1>16, SyncEdit
  <2>5. \A w \in Users : /\ KnowsRoom(w) => Active(seen'[w]) = Active(room)
                         /\ seen'[w].role = seen[w].role \/ seen'[w].role = room.role
                         /\ seen'[w].link = seen[w].link \/ seen'[w].link = room.link
    BY <2>2, <2>3, <2>4 DEF KnowsRoom
  <2>6. QED BY <1>4, <2>1, <2>5
<1>17. QED
  BY <1>5, <1>7, <1>8, <1>9, <1>10, <1>11, <1>12, <1>13, <1>14, <1>15, <1>16, StepCases DEF Loud

-----------------------------------------------------------------------------
(* The theorems. *)

\* All of it together is inductive.
MembershipInv == RoomType /\ UsesInv /\ StrandInv

\* A workspace starts with its members, a manager among them, and no link.
LEMMA MembershipInit ==
  ASSUME Init PROVE MembershipInv
<1> DEFINE in == {m[1] : m \in env.members}
           role(u) == IF u \in in THEN (CHOOSE m \in env.members : m[1] = u)[2] ELSE "editor"
<1>1. /\ env \in Envs
      /\ room = [mem |-> [u \in Users |-> IF u \in in THEN "join" ELSE "out"],
                 role |-> [u \in Users |-> role(u)], knock |-> FALSE, link |-> NoLink]
      /\ op = [u \in Users |-> NoOp] /\ seen = [u \in Users |-> room]
      /\ adm = [u \in Users |-> [sweep |-> Resting, handled |-> {}]]
  BY DEF Init, rest
<1>2. env.members \subseteq Users \X Roles
  BY <1>1, MembershipAssumption
<1>3. \A u \in Users : role(u) \in Roles
  <2>1. ASSUME NEW u \in Users, u \in in PROVE role(u) \in Roles
    <3>1. \E m \in env.members : m[1] = u
      BY <2>1
    <3>2. (CHOOSE m \in env.members : m[1] = u) \in env.members
      BY <3>1
    <3>3. QED BY <1>2, <2>1, <3>2
  <2>2. QED BY <2>1 DEF Roles
<1> HIDE DEF in, role
<1>4. NoLink \in Link /\ "join" \in Mems /\ "out" \in Mems
  BY DEF NoLink, Link, Mems
<1>5. room \in Room
  BY <1>1, <1>3, <1>4 DEF Room
<1>6. RoomType
  BY <1>1, <1>5, OpKinds, RestingSweep DEF RoomType, Admitter
<1>7. QED BY <1>6, UsesInit, StrandInit DEF MembershipInv

\* Every client, every operation under way and the room keep to the types, the
\* record of a link stays ahead of its admissions, and decisions stay good.
THEOREM MembershipConsistent == Spec => []MembershipInv
<1>1. Init => MembershipInv
  BY MembershipInit
<1>2. MembershipInv /\ [Next]_vars => MembershipInv'
  BY TypeStep, UsesStep, StrandStep DEF MembershipInv
<1>3. QED BY <1>1, <1>2, PTL DEF Spec

\* An invite link lets in no more people than it records, and records no more
\* than it allows, though the admitting tab may close, or fail, at any point.
THEOREM UsesCovered == Spec => []UsesCoverAdmissions
<1>1. MembershipInv => UsesCoverAdmissions
  <2> SUFFICES ASSUME MembershipInv, OneAdminStays
               PROVE  /\ Cardinality(admitted) <= room.link.uses
                      /\ env.limit > 0 => room.link.uses <= env.limit
    BY DEF UsesCoverAdmissions, OneAdminStays
  <2>1. /\ IsFiniteSet(admitted) /\ Cardinality(admitted) + Pending <= room.link.uses
        /\ env.limit > 0 => room.link.uses <= env.limit
    BY DEF MembershipInv, UsesInv
  <2>2. Cardinality(admitted) \in Nat /\ Pending \in Nat /\ room.link.uses \in Nat
    BY <2>1, FS_CardinalityType DEF Pending, MembershipInv, RoomType, Room, Link
  <2>3. QED BY <2>1, <2>2
<1>2. QED BY <1>1, MembershipConsistent, PTL

\* "Don't strand a workspace": whoever is still in it, somebody in it or invited
\* to it is an admin.
THEOREM NobodyStranded == Spec => []NoStrandedWorkspace
<1>1. MembershipInv => NoStrandedWorkspace
  <2> SUFFICES ASSUME MembershipInv, Calm, Joined # {}
               PROVE  \E u \in Active(room) : room.role[u] = "admin"
    BY DEF NoStrandedWorkspace, Calm
  <2>1. Active(room) # {}
    BY DEF Joined, Active
  <2>2. QED BY <2>1 DEF MembershipInv, StrandInv, Led
<1>2. QED BY <1>1, MembershipConsistent, PTL
=============================================================================
