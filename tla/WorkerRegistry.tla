--------------------------- MODULE WorkerRegistry ---------------------------
(***************************************************************************)
(* The shared worker's registry: which MatrixSessions and which            *)
(* ConnectedWorkspaces exist, how requests of several tabs share them      *)
(* while they are being built, and what is left behind when a session is   *)
(* replaced or destroyed.                                                  *)
(*                                                                         *)
(*   worker/dispatch.ts  createSession, install, destroySession,           *)
(*                       openWorkspace                                     *)
(*                                                                         *)
(* A MatrixSession and a ConnectedWorkspace, once built, run until the     *)
(* worker ends: their sync loops and flush tasks are spawned tasks with no *)
(* handle to stop them. `sessions` and `workspaces` here are everything    *)
(* that runs; `current` and `registered` are the dispatcher's maps.        *)
(***************************************************************************)
EXTENDS Naturals, Sequences, FiniteSets

CONSTANTS
  Users,          \* accounts used on this device
  Saved,          \* those whose session is stored when the worker starts
  Rooms,          \* workspaces
  MaxSessions,    \* bound on the MatrixSessions built
  MaxWorkspaces   \* bound on the ConnectedWorkspaces built

ASSUME RegistryAssumption ==
  /\ Saved \subseteq Users
  /\ MaxSessions \in Nat /\ MaxWorkspaces \in Nat

VARIABLES
  sessions,     \* every MatrixSession built, by its account
  current,      \* dispatcher.sessions: account -> session, 0 for none
  restoring,    \* pendingSessions: accounts with a keyed build in flight
  logins,       \* builds in flight that name no account, by the account they are for
  workspaces,   \* every ConnectedWorkspace built, [session, room]
  registered,   \* entry.workspaces: session, room -> workspace, 0 for none
  opening,      \* pendingWorkspaces: account, room -> the open in flight
  persisted,    \* persistence: room -> workspace whose record it writes
  resigned      \* accounts that have signed in again or out (history)

registryVars == <<sessions, current, restoring, logins, workspaces, registered, opening,
                  persisted, resigned>>

SessionIds == 1..MaxSessions
Idle == [session |-> 0, ws |-> 0]

RegistryInit ==
  /\ sessions = << >> /\ workspaces = << >>
  /\ current = [u \in Users |-> 0]
  /\ restoring = {} /\ logins = {}
  /\ registered = [s \in SessionIds |-> [r \in Rooms |-> 0]]
  /\ opening = [u \in Users |-> [r \in Rooms |-> Idle]]
  /\ persisted = [r \in Rooms |-> 0]
  /\ resigned = {}

-----------------------------------------------------------------------------
(* Sessions.                                                               *)

\* A tab can restore an account once its session blob is stored.
Stored(u) == u \in Saved \/ \E i \in DOMAIN sessions : sessions[i] = u

RestoreUnshared(u) ==
  /\ Stored(u) /\ current[u] = 0
  /\ restoring' = restoring \union {u}
  /\ logins' = IF u \in restoring THEN logins \union {u} ELSE logins
  /\ UNCHANGED <<sessions, current, workspaces, registered, opening, persisted, resigned>>

\* session.create naming its account: an existing session or a build in flight
\* is joined, and only a request that finds neither starts a build.
Restore(u) ==
  /\ Stored(u) /\ current[u] = 0 /\ u \notin restoring
  /\ restoring' = restoring \union {u}
  /\ UNCHANGED <<sessions, current, logins, workspaces, registered, opening, persisted, resigned>>

\* session.create by a login, a registration or an OAuth return: the account is
\* not known up front, so nothing is joined. An account that is in use already
\* can sign in again; a re-key does.
Login(u) ==
  /\ u \notin logins
  /\ logins' = logins \union {u}
  /\ resigned' = IF Stored(u) THEN resigned \union {u} ELSE resigned
  /\ UNCHANGED <<sessions, current, restoring, workspaces, registered, opening, persisted>>

\* install: the new session takes the account's place, with no workspaces; one
\* that it replaces is only forgotten.
Install(u) ==
  /\ Len(sessions) < MaxSessions
  /\ sessions' = Append(sessions, u)
  /\ current' = [current EXCEPT ![u] = Len(sessions) + 1]
  /\ UNCHANGED <<workspaces, registered, opening, persisted, resigned>>

Restored(u) ==
  /\ u \in restoring
  /\ restoring' = restoring \ {u}
  /\ Install(u)
  /\ UNCHANGED logins

LoggedIn(u) ==
  /\ u \in logins
  /\ logins' = logins \ {u}
  /\ Install(u)
  /\ UNCHANGED restoring

CreateFails(u) ==
  /\ u \in restoring \union logins
  /\ \/ restoring' = restoring \ {u} /\ UNCHANGED logins
     \/ logins' = logins \ {u} /\ UNCHANGED restoring
  /\ UNCHANGED <<sessions, current, workspaces, registered, opening, persisted, resigned>>

DestroySession(u) ==
  /\ current[u] # 0
  /\ current' = [current EXCEPT ![u] = 0]
  /\ resigned' = resigned \union {u}
  /\ UNCHANGED <<sessions, restoring, logins, workspaces, registered, opening, persisted>>

-----------------------------------------------------------------------------
(* Workspaces. An open holds the session it found when it started.         *)

OpenUnshared(u, r) ==
  /\ current[u] # 0 /\ registered[current[u]][r] = 0
  /\ opening' = [opening EXCEPT ![u][r] = [session |-> current[u], ws |-> 0]]
  /\ UNCHANGED <<sessions, current, restoring, logins, workspaces, registered, persisted, resigned>>

\* openWorkspace: joins an open workspace of this session, or an open in flight
\* for the same account and room.
OpenWorkspace(u, r) ==
  /\ current[u] # 0 /\ registered[current[u]][r] = 0
  /\ opening[u][r] = Idle
  /\ opening' = [opening EXCEPT ![u][r] = [session |-> current[u], ws |-> 0]]
  /\ UNCHANGED <<sessions, current, restoring, logins, workspaces, registered, persisted, resigned>>

\* ConnectedWorkspace.create resolves: persistence and callbacks are wired.
Created(u, r) ==
  LET w == Len(workspaces) + 1 IN
  /\ opening[u][r] # Idle /\ opening[u][r].ws = 0
  /\ w <= MaxWorkspaces
  /\ workspaces' = Append(workspaces, [session |-> opening[u][r].session, room |-> r])
  /\ opening' = [opening EXCEPT ![u][r].ws = w]
  /\ persisted' = [persisted EXCEPT ![r] = w]
  /\ UNCHANGED <<sessions, current, restoring, logins, registered, resigned>>

OpenFails(u, r) ==
  /\ opening[u][r] # Idle /\ opening[u][r].ws = 0
  /\ opening' = [opening EXCEPT ![u][r] = Idle]
  /\ UNCHANGED <<sessions, current, restoring, logins, workspaces, registered, persisted, resigned>>

OpenedUnregistered(u, r) ==
  /\ opening[u][r].ws # 0
  /\ opening' = [opening EXCEPT ![u][r] = Idle]
  /\ UNCHANGED <<sessions, current, restoring, logins, workspaces, registered, persisted, resigned>>

\* The outbox has been replayed; the workspace is registered with the session
\* the open started from, and every waiting request is answered.
Opened(u, r) ==
  LET o == opening[u][r] IN
  /\ o.ws # 0
  /\ registered' = [registered EXCEPT ![o.session][r] = o.ws]
  /\ opening' = [opening EXCEPT ![u][r] = Idle]
  /\ UNCHANGED <<sessions, current, restoring, logins, workspaces, persisted, resigned>>

Session(u) == Restore(u) \/ Restored(u) \/ Login(u) \/ LoggedIn(u)
                \/ CreateFails(u) \/ DestroySession(u)

RegistryNext ==
  \E u \in Users :
    \/ Session(u)
    \/ \E r \in Rooms : OpenWorkspace(u, r) \/ Created(u, r) \/ OpenFails(u, r) \/ Opened(u, r)

RegistrySpec == RegistryInit /\ [][RegistryNext]_registryVars

-----------------------------------------------------------------------------
(* Properties.                                                             *)

Sessions(u) == {i \in DOMAIN sessions : sessions[i] = u}
Running(r)  == {w \in DOMAIN workspaces : workspaces[w].room = r}

\* At most one MatrixSession per account, also while one is being built: two
\* clients over one crypto store is what the worker exists to prevent
\* (dispatch.ts, invariant 1). An account that signs in a second time or signs
\* out is left aside: install and destroySession only forget the old client.
OneSessionPerAccount ==
  \A u \in Users \ resigned :
    Cardinality(Sessions(u)) + Cardinality({u} \intersect restoring) <= 1

\* A session has at most one ConnectedWorkspace for a room, running or being
\* built, however many tabs open it at once (dispatch.ts, invariant 2, within an
\* account).
OneWorkspacePerSession ==
  \A r \in Rooms : \A v, w \in Running(r) :
    workspaces[v].session = workspaces[w].session => v = w

\* At most one ConnectedWorkspace per room, with one sync loop and one send
\* queue, runs in the worker (dispatch.ts, invariant 2 as it is written).
OneWorkspacePerRoom == \A r \in Rooms : Cardinality(Running(r)) <= 1

\* When workspace.open is answered the workspace can be called: the handle
\* resolves to a workspace of the account's present session (dispatch.ts,
\* openWorkspace registers last for this reason). An account whose session was
\* replaced or destroyed while the open ran is left aside.
OpenedIsUsable ==
  [][\A u \in Users \ resigned, r \in Rooms :
       Opened(u, r) => current[u] # 0 /\ registered'[current[u]][r] # 0]_registryVars
=============================================================================
