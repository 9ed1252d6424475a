----------------------------- MODULE Membership -----------------------------
(***************************************************************************)
(* Who is in one workspace and how they got there: roles, leaving and      *)
(* deleting (set_user_role, leave_workspace in bridge_matrix.rs, the       *)
(* sidebar and its leave and share windows), invite links (invite.rs,      *)
(* matrix.rs), the client that lets a knocker in (useAutoAdmit.ts), the    *)
(* page a link opens (JoinPage.tsx) and the list of workspaces and         *)
(* invitations (WorkspacesPage.tsx with useAuth.ts behind it).             *)
(*                                                                         *)
(* The homeserver's room is the truth; every client reads its own store    *)
(* (seen), which only a sync brings up to date, and decides from that.     *)
(* Every continuation between two awaits is one step.  The homeserver and  *)
(* the SDK are external: a request is accepted or refused as the code's    *)
(* comments and the room's power levels say.                               *)
(***************************************************************************)
EXTENDS Naturals, Sequences, FiniteSets

CONSTANTS Users,
          Creator,   \* the user who made the workspace
          NoOne,
          Envs       \* the surroundings a behaviour may run in

\* What a behaviour may hold.  hasty: somebody acts before a store has caught
\* up, or while another operation is under way; decline: invitations are turned
\* down; delete: everyone is removed; direct: people are invited by their id;
\* link: a link is made; revoke, expire: it ends; refused: a request fails for
\* no reason; closing: the tab of an
\* open workspace closes; refollow: a member opens the link again;
\* wander: members go back to the list; no_storage: the browser keeps no session storage.
Mishaps == {"hasty", "decline", "delete", "direct", "link", "revoke", "expire", "refused",
            "closing", "refollow", "wander", "no_storage"}

Roles == {"admin", "editor", "viewer"}

\* members: who is in the room at the start, each with a role; managers: who
\* changes roles, leaves, deletes and invites; acts: how often (a bound); limit: uses_allowed, 0 for
\* unlimited; accounts: who has an account on the device.
ASSUME MembershipAssumption ==
  /\ Creator \in Users /\ NoOne \notin Users
  /\ \A e \in Envs :
       /\ DOMAIN e = {"members", "managers", "acts", "limit", "accounts", "faults"}
       /\ e.members \subseteq Users \X Roles /\ <<Creator, "admin">> \in e.members
       /\ \A m, n \in e.members : m[1] = n[1] => m = n
       /\ e.managers \subseteq Users /\ e.accounts \subseteq Users
       /\ {e.limit, e.acts} \subseteq Nat /\ e.faults \subseteq Mishaps

VARIABLES
  env,      \* fixed
  room,     \* homeserver: membership, roles, join rule, the link's state event
  expired,  \* the link's lifetime is over
  seen,     \* the room as each user's client has it in its store
  page,     \* what the user's tab shows
  op,       \* the membership operation under way in the tab
  acts,     \* operations the managers have started
  adm,      \* useAutoAdmit: its sweep and its handled set
  join,     \* JoinPage: phase; sessionStorage: the pending invite
  list,     \* WorkspacesPage: what it shows, and the reads under way
  admitted  \* history: the users a client let in on the link

vars == <<env, room, expired, seen, page, op, acts, adm, join, list, admitted>>
rest(v) == [u \in Users |-> v]

May(f) == f \in env.faults
NoLink == [made |-> FALSE, uses |-> 0, revoked |-> FALSE]
NoOp == [kind |-> "none"]
Resting == [todo |-> {}, on |-> NoOne, step |-> "none", base |-> NoLink]

Init ==
  /\ env \in Envs
  /\ LET in == {m[1] : m \in env.members}
         role(u) == IF u \in in THEN (CHOOSE m \in env.members : m[1] = u)[2] ELSE "editor"
     IN  /\ room = [mem |-> [u \in Users |-> IF u \in in THEN "join" ELSE "out"],
                    role |-> [u \in Users |-> role(u)], knock |-> FALSE, link |-> NoLink]
         /\ page = [u \in Users |-> IF u \in in THEN "room" ELSE "away"]
         /\ list = [u \in Users |-> [shown |-> [inv |-> FALSE, ws |-> u \in in],
                                     reads |-> <<>>, dirty |-> FALSE, accepting |-> FALSE]]
  /\ expired = FALSE
  /\ seen = rest(room)
  /\ op = rest(NoOp) /\ acts = 0
  /\ adm = rest([sweep |-> Resting, handled |-> {}])
  /\ join = [u \in Users |-> [phase |-> "none", pending |-> FALSE, account |-> u \in env.accounts]]
  /\ admitted = {}

-----------------------------------------------------------------------------
(* The homeserver. *)

Joined == {u \in Users : room.mem[u] = "join"}

\* RoomMemberships::ACTIVE: joined or invited.
Active(r) == {u \in Users : r.mem[u] \in {"join", "invite"}}

\* What a power level lets its holder do: room state, kicks and power levels
\* take an admin; an invite takes an editor.
MayAdminister(u) == room.mem[u] = "join" /\ room.role[u] = "admin"
MayInvite(u) == room.mem[u] = "join" /\ room.role[u] # "viewer"

\* A new power-levels event may not touch a level as high as the sender's own.
MaySetRoles(u, new) ==
  MayAdminister(u) /\ \A v \in Users \ {u} : new[v] # room.role[v] => room.role[v] # "admin"

\* The user's tab shows the workspace and its client still counts as a member.
InRoom(u) == page[u] = "room"

\* Nobody is in the middle of anything and the client has everything.
Settled(u) == seen[u] = room /\ \A v \in Users : op[v] = NoOp

\* A manager starts an operation.
MayStart(u) ==
  /\ u \in env.managers /\ InRoom(u) /\ op[u] = NoOp
  /\ Settled(u) \/ May("hasty")
  /\ acts < env.acts /\ acts' = acts + 1

Do(u, o) == op' = [op EXCEPT ![u] = o]
Done(u) == Do(u, NoOp)
SetMem(u, m) == room' = [room EXCEPT !.mem[u] = m]
StoreMem(u, m) == seen' = [seen EXCEPT ![u].mem[u] = m]
others == <<env, expired, adm, join, list, admitted>>
idle == <<others, acts>>

-----------------------------------------------------------------------------
(* Roles. *)

OtherAdmin(u) == \E v \in Active(seen[u]) \ {u} : seen[u].role[v] = "admin"

\* set_user_role's rule, from the store: the last admin does not step down.
\* isLastAdmin disables the same choice in the sidebar.
MayTakeRole(u, v, r) == (r # "admin" /\ v = u) => OtherAdmin(u)

\* changeRole: offered to whom the store calls an admin.  The event is made
\* from the power levels in the store.
StartRole(u, v, r) ==
  /\ MayStart(u)
  /\ seen[u].role[u] = "admin" /\ v \in Active(seen[u]) /\ r # seen[u].role[v]
  /\ MayTakeRole(u, v, r)
  /\ Do(u, [kind |-> "role", new |-> [seen[u].role EXCEPT ![v] = r], leave |-> FALSE])
  /\ UNCHANGED <<others, room, seen, page>>

\* update_power_levels answers; after a promotion from the leave window the
\* departure follows.
SendRole(u) ==
  /\ op[u].kind = "role"
  /\ \/ /\ MaySetRoles(u, op[u].new)
        /\ room' = [room EXCEPT !.role = op[u].new]
        /\ Do(u, IF op[u].leave THEN [kind |-> "check", all |-> FALSE] ELSE NoOp)
     \/ /\ ~MaySetRoles(u, op[u].new) \/ May("refused")
        /\ Done(u) /\ UNCHANGED room
  /\ UNCHANGED <<idle, seen, page>>

-----------------------------------------------------------------------------
(* Leaving and deleting. *)

\* confirm of LeaveWorkspaceModal, and a hand-over of resetAccount: a successor
\* is promoted first when one is named.  Whether the window asks for one depends
\* on the sidebar's list, which may be older than the store: both are possible.
StartLeave(u, all, successor) ==
  /\ MayStart(u)
  /\ all => May("delete")
  /\ \/ successor = NoOne /\ Do(u, [kind |-> "check", all |-> all])
     \/ /\ successor \in Active(seen[u]) \ {u} /\ ~all /\ seen[u].role[u] = "admin"
        /\ Do(u, [kind |-> "role", leave |-> TRUE,
                  new |-> [seen[u].role EXCEPT ![successor] = "admin"]])
  /\ UNCHANGED <<others, room, seen, page>>

\* Mutant: the rule is left to the window.
AnyoneMayLeave(u) == TRUE

\* leave_workspace refuses to strand the others.
MayLeave(u) ==
  \/ Active(seen[u]) \ {u} = {}
  \/ seen[u].role[u] # "admin"
  \/ OtherAdmin(u)

\* leave_workspace, up to its first request: everything is decided from the store.
CheckLeave(u) ==
  /\ op[u].kind = "check"
  /\ \/ /\ op[u].all /\ seen[u].role[u] = "admin"
        /\ Do(u, [kind |-> "kick", rest |-> Active(seen[u]) \ {u}])
     \/ ~op[u].all /\ MayLeave(u) /\ Do(u, [kind |-> "go"])
     \/ /\ IF op[u].all THEN seen[u].role[u] # "admin" ELSE ~MayLeave(u)
        /\ Done(u)
  /\ UNCHANGED <<idle, room, seen, page>>

\* kick_user, one at a time; a refusal (another admin, somebody already gone)
\* abandons the deletion half-way.
Kick(u) ==
  /\ op[u].kind = "kick" /\ op[u].rest # {}
  /\ \E v \in op[u].rest :
       LET allowed == MayAdminister(u) /\ room.role[v] # "admin" /\ room.mem[v] # "out"
       IN  \/ /\ allowed /\ SetMem(v, "out")
              /\ Do(u, [op[u] EXCEPT !.rest = @ \ {v}])
           \/ /\ ~allowed \/ May("refused")
              /\ Done(u) /\ UNCHANGED room
  /\ UNCHANGED <<idle, seen, page>>

\* room.leave: the store knows at once.
Go(u) ==
  /\ op[u].kind = "go" \/ (op[u].kind = "kick" /\ op[u].rest = {})
  /\ \/ SetMem(u, "out") /\ StoreMem(u, "out") /\ Do(u, [kind |-> "forget"])
     \/ May("refused") /\ Done(u) /\ UNCHANGED <<room, seen>>
  /\ UNCHANGED <<idle, page>>

\* /workspaces, which sends a pending invite on to /join.  The workspace's own
\* sweep ends between two knocks and its handled set is gone.
EnterList(u) ==
  /\ page' = [page EXCEPT ![u] = IF join[u].pending THEN "join" ELSE "list"]
  /\ join' = [join EXCEPT ![u].phase = IF join[u].pending THEN "reading" ELSE "none"]
  /\ list' = [list EXCEPT ![u].dirty = TRUE]
  /\ adm' = [adm EXCEPT ![u].sweep.todo = {}, ![u].handled = {}]

\* room.forget, then the workspace list; a failure stays in the window.
Forget(u) ==
  /\ op[u].kind = "forget"
  /\ Done(u)
  /\ \/ EnterList(u)
     \/ May("refused") /\ UNCHANGED <<page, join, list, adm>>
  /\ UNCHANGED <<env, expired, acts, admitted, room, seen>>

-----------------------------------------------------------------------------
(* Invitations and links. *)

\* handleInvite of ShareModal, invite_user.
InviteUser(u, v) ==
  /\ May("direct") /\ MayStart(u)
  /\ MayInvite(u) /\ room.mem[v] \in {"out", "knock"}
  /\ SetMem(v, "invite")
  /\ UNCHANGED <<others, seen, page, op>>

\* handleCreateLink: offered to an admin (canManage); allow_knocking goes first.
StartMint(u) ==
  /\ May("link") /\ InRoom(u) /\ op[u] = NoOp
  /\ seen[u].role[u] = "admin"
  /\ ~room.link.made /\ \A v \in Users : op[v].kind # "mint"   \* bound: one link
  /\ \/ MayAdminister(u) /\ room' = [room EXCEPT !.knock = TRUE] /\ Do(u, [kind |-> "mint"])
     \/ ~MayAdminister(u) /\ UNCHANGED <<room, op>>
  /\ UNCHANGED <<idle, seen, page>>

\* create_invite_link publishes the state event.
PublishLink(u) ==
  /\ op[u].kind = "mint"
  /\ \/ MayAdminister(u) /\ room' = [room EXCEPT !.link = [NoLink EXCEPT !.made = TRUE]]
     \/ (~MayAdminister(u) \/ May("refused")) /\ UNCHANGED room
  /\ Done(u)
  /\ UNCHANGED <<idle, seen, page>>

\* revoke_invite_link: the content in the store, rewritten.
StartRevoke(u) ==
  /\ May("revoke") /\ InRoom(u) /\ op[u] = NoOp
  /\ seen[u].role[u] = "admin" /\ seen[u].link.made /\ ~seen[u].link.revoked
  /\ Do(u, [kind |-> "revoke", base |-> [seen[u].link EXCEPT !.revoked = TRUE]])
  /\ UNCHANGED <<idle, room, seen, page>>

SendRevoke(u) ==
  /\ op[u].kind = "revoke"
  /\ \/ MayAdminister(u) /\ room' = [room EXCEPT !.link = op[u].base]
     \/ ~MayAdminister(u) /\ UNCHANGED room
  /\ Done(u)
  /\ UNCHANGED <<idle, seen, page>>

Expire ==
  /\ May("expire") /\ room.link.made /\ ~expired
  /\ expired' = TRUE
  /\ UNCHANGED <<env, room, seen, page, op, acts, adm, join, list, admitted>>

-----------------------------------------------------------------------------
(* useAutoAdmit: while the workspace is open, whoever knocks with a token    *)
(* that verifies is let in.                                                  *)

Sweeping(u) == adm[u].sweep # Resting
WithSweep(u, s) == adm' = [adm EXCEPT ![u].sweep = s]
sweepOthers == <<env, expired, seen, page, op, acts, join, list>>

\* verify of invite.rs, on the link as the store has it.
Verify(link) ==
  /\ link.made /\ ~link.revoked /\ ~expired
  /\ env.limit > 0 => link.uses < env.limit

\* sweep: listKnocks reads the store; running keeps out a second sweep.
StartSweep(u) ==
  /\ InRoom(u) /\ ~Sweeping(u)
  /\ LET knocks == {v \in Users : seen[u].mem[v] = "knock"} \ adm[u].handled
     IN  knocks # {} /\ WithSweep(u, [Resting EXCEPT !.todo = knocks])
  /\ UNCHANGED <<sweepOthers, room, admitted>>

\* The next knock: marked handled before the attempt, and never tried again.
\* admit_knock finds and verifies the link in the store.
NextKnock(u) ==
  /\ adm[u].sweep.on = NoOne
  /\ seen[u] = room \/ May("hasty")
  /\ \E v \in adm[u].sweep.todo :
       LET link == seen[u].link
           next == [adm[u].sweep EXCEPT !.todo = @ \ {v}]
       IN  adm' = [adm EXCEPT ![u].handled = @ \cup {v},
                     ![u].sweep = IF Verify(link)
                                  THEN [next EXCEPT !.on = v, !.step = "count",
                                                    !.base = [link EXCEPT !.uses = @ + 1]]
                                  ELSE next]
  /\ UNCHANGED <<sweepOthers, room, admitted>>

\* A new sync tick ends the running effect; its sweep stops between two knocks.
CutSweep(u) ==
  /\ adm[u].sweep.on = NoOne /\ adm[u].sweep.todo # {}
  /\ seen[u] = room
  /\ WithSweep(u, Resting)
  /\ UNCHANGED <<sweepOthers, room, admitted>>

\* The first request of an admission: room state, which takes an admin.
CountUse(u) ==
  /\ adm[u].sweep.step = "count"
  /\ \/ /\ MayAdminister(u)
        /\ room' = [room EXCEPT !.link = adm[u].sweep.base]
        /\ WithSweep(u, [adm[u].sweep EXCEPT !.step = "invite", !.base = NoLink])
     \/ /\ ~MayAdminister(u) \/ May("refused")
        /\ WithSweep(u, [Resting EXCEPT !.todo = adm[u].sweep.todo])
        /\ UNCHANGED room
  /\ UNCHANGED <<sweepOthers, admitted>>

\* The second: the invitation.  Somebody already in is refused.
InviteKnocker(u) ==
  /\ adm[u].sweep.step = "invite"
  /\ LET v == adm[u].sweep.on
     IN  \/ /\ MayInvite(u) /\ room.mem[v] # "join"
            /\ SetMem(v, "invite") /\ admitted' = admitted \cup {v}
         \/ /\ ~MayInvite(u) \/ room.mem[v] = "join" \/ May("refused")
            /\ UNCHANGED <<room, admitted>>
  /\ WithSweep(u, [Resting EXCEPT !.todo = adm[u].sweep.todo])
  /\ UNCHANGED sweepOthers

\* Mutant: the order the comment of admit_knock warns of.
InviteThenCount(u) ==
  \/ /\ adm[u].sweep.step = "count"
     /\ MayInvite(u) /\ room.mem[adm[u].sweep.on] # "join"
     /\ SetMem(adm[u].sweep.on, "invite") /\ admitted' = admitted \cup {adm[u].sweep.on}
     /\ WithSweep(u, [adm[u].sweep EXCEPT !.step = "invite"])
     /\ UNCHANGED sweepOthers
  \/ /\ adm[u].sweep.step = "invite"
     /\ MayAdminister(u)
     /\ room' = [room EXCEPT !.link = adm[u].sweep.base]
     /\ WithSweep(u, [Resting EXCEPT !.todo = adm[u].sweep.todo])
     /\ UNCHANGED <<sweepOthers, admitted>>

\* admit_knock, the use before the invitation.
AdmitKnock(u) == CountUse(u) \/ InviteKnocker(u)

-----------------------------------------------------------------------------
(* JoinPage. *)

Phase(u, p) == join' = [join EXCEPT ![u].phase = p]
pageOthers == <<env, expired, op, acts, adm, admitted>>

\* Following the link; the invite is stashed for the way through the sign-in.
\* matrixSession of an account is restored while the page shows.
OpenLink(u) ==
  /\ room.link.made
  /\ \/ page[u] \in {"away", "list"} /\ room.mem[u] = "out"
     \/ May("refollow") /\ InRoom(u) /\ u # Creator
  /\ page' = [page EXCEPT ![u] = "join"]
  /\ join' = [join EXCEPT ![u].phase = IF join[u].account THEN "reading" ELSE "needs-account",
                          ![u].pending = ~May("no_storage")]
  /\ UNCHANGED <<pageOthers, room, seen, list>>

\* The sign-in page and back: it leads to /workspaces, which sends a pending
\* invite on to /join.
GoSignIn(u) ==
  /\ page[u] = "join" /\ join[u].phase = "needs-account"
  /\ page' = [page EXCEPT ![u] = "signin"]
  /\ UNCHANGED <<pageOthers, room, seen, join, list>>

SignedIn(u) ==
  /\ page[u] = "signin"
  /\ page' = [page EXCEPT ![u] = IF join[u].pending THEN "join" ELSE "list"]
  /\ join' = [join EXCEPT ![u].account = TRUE,
                          ![u].phase = IF join[u].pending THEN "reading" ELSE "none"]
  /\ list' = [list EXCEPT ![u].dirty = TRUE]
  /\ UNCHANGED <<pageOthers, room, seen>>

\* The knock, once per mount (knockedRef), when the session is there.
SendKnock(u) ==
  /\ page[u] = "join" /\ join[u].phase = "reading"
  /\ Phase(u, "knocking")
  /\ UNCHANGED <<pageOthers, room, seen, page, list>>

\* Its answer.  Already knocking, invited or in: carry on waiting.
KnockAnswer(u) ==
  /\ page[u] = "join" /\ join[u].phase = "knocking"
  /\ \/ /\ room.mem[u] = "out" /\ room.knock
        /\ SetMem(u, "knock") /\ StoreMem(u, "knock") /\ Phase(u, "waiting")
     \/ room.mem[u] # "out" /\ Phase(u, "waiting") /\ UNCHANGED <<room, seen>>
     \/ /\ (room.mem[u] = "out" /\ ~room.knock) \/ May("refused")
        /\ Phase(u, "error") /\ UNCHANGED <<room, seen>>
  /\ UNCHANGED <<pageOthers, page, list>>

\* acceptInvite, up to the answer of joinRoom.
JoinRoom(u) ==
  /\ room.mem[u] = "invite" /\ ~list[u].accepting
  /\ SetMem(u, "join") /\ StoreMem(u, "join")
  /\ list' = [list EXCEPT ![u].accepting = TRUE]
  /\ UNCHANGED <<pageOthers, page, join>>

\* tryAccept, on the poll while waiting: the invitation must be in the store.
TryAccept(u) ==
  /\ page[u] = "join" /\ join[u].phase = "waiting" /\ seen[u].mem[u] = "invite"
  /\ JoinRoom(u)

\* The rest of acceptInvite and of its callers: the workspace is listed, the
\* pending invite cleared, and the page moves on to the workspace.
FinishAccept(u) ==
  /\ list[u].accepting
  /\ list' = [list EXCEPT ![u].shown = [inv |-> FALSE, ws |-> TRUE], ![u].accepting = FALSE]
  /\ IF page[u] = "join"
     THEN join' = [join EXCEPT ![u].phase = "joined", ![u].pending = FALSE]
     ELSE UNCHANGED join
  /\ page' = [page EXCEPT ![u] = "room"]
  /\ UNCHANGED <<pageOthers, room, seen>>

\* "Go to my workspaces" on the error card: the pending invite is still there.
GoToWorkspaces(u) ==
  /\ page[u] = "join" /\ join[u].phase = "error"
  /\ EnterList(u)
  /\ UNCHANGED <<env, expired, op, acts, admitted, room, seen>>

-----------------------------------------------------------------------------
(* WorkspacesPage. *)

listOthers == <<env, room, expired, seen, page, op, acts, adm, join, admitted>>

OpenApp(u) ==
  /\ page[u] = "away" /\ join[u].account
  /\ EnterList(u)
  /\ UNCHANGED <<env, expired, op, acts, admitted, room, seen>>

OpenWorkspace(u) ==
  /\ page[u] = "list" /\ list[u].shown.ws /\ ~list[u].accepting /\ seen[u].mem[u] = "join"
  /\ page' = [page EXCEPT ![u] = "room"]
  /\ UNCHANGED <<pageOthers, room, seen, join, list>>

BackToList(u) ==
  /\ May("wander") /\ InRoom(u) /\ op[u] = NoOp /\ u # Creator
  /\ EnterList(u)
  /\ UNCHANGED <<env, expired, op, acts, admitted, room, seen>>

\* The effect on mount and on sessionSyncCount: listInvitedRooms and
\* refreshWorkspaces read the store; their answers come later, to whatever page
\* the tab shows by then.
StartRefresh(u) ==
  /\ page[u] = "list" /\ list[u].dirty /\ Len(list[u].reads) < 2
  /\ LET read == [inv |-> seen[u].mem[u] = "invite", ws |-> seen[u].mem[u] = "join"]
     IN  list' = [list EXCEPT ![u].dirty = FALSE, ![u].reads = Append(@, read)]
  /\ UNCHANGED listOthers

FinishRefresh(u) ==
  /\ list[u].reads # <<>>
  /\ list' = [list EXCEPT ![u].shown = Head(list[u].reads), ![u].reads = Tail(@)]
  /\ UNCHANGED listOthers

HandleAccept(u) == page[u] = "list" /\ list[u].shown.inv /\ JoinRoom(u)

\* handleDecline, decline_invite.
HandleDecline(u) ==
  /\ May("decline") /\ page[u] = "list" /\ list[u].shown.inv /\ ~list[u].accepting
  /\ room.mem[u] = "invite"
  /\ SetMem(u, "out") /\ StoreMem(u, "out")
  /\ list' = [list EXCEPT ![u].shown.inv = FALSE]
  /\ UNCHANGED <<pageOthers, page, join>>

-----------------------------------------------------------------------------
(* Syncs and closings. *)

\* Mutant: only the open workspace syncs, as JoinPage once had it.
OnlyWorkspaceSyncs(u) == page[u] = "room"

\* A sync loop runs: the workspace's, or the session's, which WorkspacesPage
\* starts on mount and JoinPage while it waits.
Syncing(u) == page[u] \in {"room", "list"} \/ (page[u] = "join" /\ join[u].phase = "waiting")

\* What a sync tells the user's client: the room, to a member; to anyone else
\* only where they stand themselves.
News(u) ==
  IF room.mem[u] = "join" THEN room ELSE [seen[u] EXCEPT !.mem[u] = room.mem[u]]

\* Mutant: the session sync's callback is lost.
QuietSync(u) ==
  /\ Syncing(u) /\ seen[u] # News(u)
  /\ seen' = [seen EXCEPT ![u] = News(u)]
  /\ UNCHANGED <<env, room, expired, page, op, acts, adm, join, list, admitted>>

\* A sync response; the session's loop bumps sessionSyncCount.
Sync(u) ==
  /\ Syncing(u) /\ seen[u] # News(u)
  /\ seen' = [seen EXCEPT ![u] = News(u)]
  /\ list' = [list EXCEPT ![u].dirty = @ \/ page[u] = "list"]
  /\ UNCHANGED <<env, room, expired, page, op, acts, adm, join, admitted>>

\* The tab closes: refs and requests under way are gone, storage stays
\* (sessionStorage does not).
Close(u) ==
  /\ May("closing") /\ InRoom(u)
  /\ page' = [page EXCEPT ![u] = "away"]
  /\ Done(u)
  /\ adm' = [adm EXCEPT ![u] = [sweep |-> Resting, handled |-> {}]]
  /\ join' = [join EXCEPT ![u].phase = "none", ![u].pending = FALSE]
  /\ UNCHANGED list
  /\ UNCHANGED <<env, room, expired, seen, acts, admitted>>

-----------------------------------------------------------------------------
Manage(u) ==
  \/ \E v \in Users, r \in Roles : StartRole(u, v, r)
  \/ \E s \in Users \cup {NoOne}, all \in BOOLEAN : StartLeave(u, all, s)
  \/ \E v \in Users : InviteUser(u, v)
  \/ StartMint(u) \/ StartRevoke(u)

Continue(u) ==
  \/ SendRole(u) \/ CheckLeave(u) \/ Kick(u) \/ Go(u) \/ Forget(u)
  \/ PublishLink(u) \/ SendRevoke(u)

Admit(u) == StartSweep(u) \/ NextKnock(u) \/ CutSweep(u) \/ AdmitKnock(u)

Join(u) ==
  \/ OpenLink(u) \/ GoSignIn(u) \/ SignedIn(u) \/ SendKnock(u) \/ KnockAnswer(u)
  \/ TryAccept(u) \/ FinishAccept(u) \/ GoToWorkspaces(u)

List(u) ==
  \/ OpenApp(u) \/ OpenWorkspace(u) \/ BackToList(u) \/ StartRefresh(u) \/ FinishRefresh(u)
  \/ HandleAccept(u) \/ HandleDecline(u)

Next ==
  \/ \E u \in Users : Manage(u) \/ Continue(u) \/ Admit(u) \/ Join(u) \/ List(u) \/ Sync(u) \/ Close(u)
  \/ Expire

\* Syncs arrive, requests are answered, the pollers of useAutoAdmit and JoinPage
\* tick, the effects of the list run.  What people do is never assumed, except
\* that who was sent to the sign-in page signs in.  A sweep is cut by a sync
\* tick only: not for ever, since ticks need changes.
Fairness ==
  \A u \in Users :
    /\ WF_vars(Sync(u)) /\ WF_vars(Continue(u))
    /\ WF_vars(StartSweep(u)) /\ SF_vars(NextKnock(u)) /\ WF_vars(AdmitKnock(u))
    /\ WF_vars(SendKnock(u)) /\ WF_vars(KnockAnswer(u)) /\ WF_vars(TryAccept(u))
    /\ WF_vars(FinishAccept(u))
    /\ WF_vars(SignedIn(u))
    /\ WF_vars(StartRefresh(u)) /\ WF_vars(FinishRefresh(u))

Spec == Init /\ [][Next]_vars /\ Fairness

-----------------------------------------------------------------------------
(* Properties. *)

\* A workspace somebody is in has an admin (joined, or invited and yet to come)
\* - "don't strand a workspace".  Where managers act one at a time on stores
\* that have caught up, nobody turns an invitation down, and no departure meets
\* a link that lets people in behind it.
NoStrandedWorkspace ==
  env.faults \cap {"hasty", "decline"} = {} /\ ("link" \in env.faults => env.managers = {})
    => (Joined # {} => \E u \in Active(room) : room.role[u] = "admin")

\* A link never lets in more people than it records, nor records more than it
\* allows, though the admitting tab may close between the two requests of an
\* admission.  One admin's client, which sees each use before the next knock.
UsesCoverAdmissions ==
  "hasty" \notin env.faults /\ (\A m \in env.members : m[2] = "admin" => m[1] = Creator)
      /\ env.managers = {} /\ "revoke" \notin env.faults
    => /\ Cardinality(admitted) <= room.link.uses
       /\ env.limit > 0 => room.link.uses <= env.limit

\* Somebody who follows a good link gets in: through the sign-in when they have
\* no account yet, then waiting at the door, as long as an admin's workspace is
\* open and no request fails.
DoorOpens ==
  env.faults \subseteq {"link"} /\ env.limit = 0 /\ env.managers = {}
    => \A u \in Users : (page[u] = "signin" \/ join[u].phase = "waiting") ~> InRoom(u)

\* The workspace list catches up with the account, whatever order refreshes,
\* syncs, accepted invitations and departures come in.
ListSettles ==
  \A u \in Users : []<>(page[u] = "list" =>
    list[u].shown = [inv |-> room.mem[u] = "invite", ws |-> room.mem[u] = "join"])

\* How many people may join with it (InviteContent.uses_allowed).
LimitHolds == env.limit > 0 => Cardinality(admitted) <= env.limit
=============================================================================
