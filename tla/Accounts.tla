------------------------------ MODULE Accounts ------------------------------
(***************************************************************************)
(* The accounts of one browser profile: the AuthProvider of every tab      *)
(* (ui/src/hooks/useAuth.ts), the account pool the tabs share in           *)
(* localStorage, the encrypted IndexedDB stores and their reaper           *)
(* (lib/storeReaper.ts), the device key (lib/deviceKey.ts), the at-rest    *)
(* envelope (lib/atRestCrypto.ts) and the session registry of the shared   *)
(* worker as far as the tabs depend on it.                                 *)
(*                                                                         *)
(* Every login builds a store of its own.  The data key a password login   *)
(* draws is identified with the store it encrypts, so "key s opens store   *)
(* s"; an OAuth login builds an unencrypted store.  A recovery key is the  *)
(* number of the secret-storage generation it belongs to.  A tab's         *)
(* asynchronous operations are records in tab[t].ops; each continuation    *)
(* between two awaits is one step, so any other step may come between.     *)
(***************************************************************************)
EXTENDS Integers, FiniteSets

CONSTANTS Users,       \* accounts on the homeserver
          Tabs,
          MaxStores,   \* bound: logins in a behaviour
          MaxSecret,   \* bound: generations of an account's recovery key
          MaxDevKey,   \* bound: device keys the profile ever creates
          MaxOps,      \* bound: operations of a tab in flight at once, where they overlap
          Envs,        \* the surroundings a behaviour may run in
          NoUser

\* interrupted: the user signs out, switches or removes an account while an
\* operation of the tab is in flight; overlap: the user starts an operation while
\* another of the tab is in flight; first_sync: the first sync after a login
\* fails, with the new client already installed in the worker; unsettled:
\* recoveryStatus does not settle within its thirty probes.
Mishaps == {"interrupted", "overlap", "first_sync", "unsettled"}

ASSUME AccountsAssumption ==
  /\ NoUser \notin Users
  /\ {MaxStores, MaxSecret, MaxDevKey, MaxOps} \subseteq Nat
  /\ Envs \subseteq [oauth : SUBSET Users, faults : SUBSET Mishaps]

Stores == 1..MaxStores
None == 0                     \* no store, no key, no secret, no device key

VARIABLES
  env,      \* fixed: who signs in with OAuth, and which mishaps may happen
  pool,     \* localStorage: the account entries
  devkey,   \* IndexedDB collab-device-key: generation, None when cleared
  devkeys,  \* device keys created so far
  stores,   \* IndexedDB stores that exist
  queue,    \* localStorage collab:pendingStoreDeletions
  owner,    \* whose login built a store
  secret,   \* homeserver: generation of each account's recovery key
  trusted,  \* stores whose device holds the account's encryption keys
  worker,   \* the shared worker: current client per user, every client alive
  tab       \* the tabs

vars == <<env, pool, devkey, devkeys, stores, queue, owner, secret, trusted, worker, tab>>

\* AccountSession.  store: storeName; plain: the v1 session blob, named by the
\* store it opens; sec: the v2 blob and the key it is sealed under; master and
\* device: the two wraps of the data key and what each is sealed under.
NoEntry == [store |-> None, plain |-> None, sec |-> <<None, None>>,
            master |-> <<None, None>>, device |-> <<None, None>>, saved |-> FALSE]

Oauth == env.oauth
Faults == env.faults

Has(acc, u) == u # NoUser /\ acc[u] # NoEntry
Accounts(acc) == {u \in Users : Has(acc, u)}
Encrypted(e) == e.sec # <<None, None>>
StoreKey(s) == IF owner[s] \in Oauth THEN None ELSE s
IsOpen(s) == s \in worker.clients

\* An AuthProvider.  acc: its React copy of the pool; ms: the session held in
\* matrixSessionRef; blob: what sessionData() answers; key, dataKey: the
\* at-rest keys and the data key in memory; accs: the pool the mount effect
\* read; shown: the key on the save screen; watch: the users whose token-refresh
\* events this page persists.
Closed == [open |-> FALSE, acc |-> [u \in Users |-> NoEntry],
           accs |-> [u \in Users |-> NoEntry], active |-> NoUser,
           ms |-> NoUser, blob |-> None, key |-> None, dataKey |-> None,
           prompt |-> "none", shown |-> None, pending |-> NoEntry,
           ops |-> {}, watch |-> {}]

Init ==
  /\ env \in Envs
  /\ pool = [u \in Users |-> NoEntry]
  /\ devkey = None /\ devkeys = 0
  /\ stores = {} /\ queue = {}
  /\ owner = [s \in Stores |-> NoUser]
  /\ secret \in [Users -> {None, 1}]   \* 1: set up on another device before
  /\ trusted = {}
  /\ worker = [session |-> [u \in Users |-> None], clients |-> {}]
  /\ tab = [t \in Tabs |-> Closed]

-----------------------------------------------------------------------------
(* Helpers: what the callbacks of AuthProvider do to a tab and to storage. *)

Drop(T, o) == [T EXCEPT !.ops = @ \ {o}]
Advance(T, o, step) == [T EXCEPT !.ops = (@ \ {o}) \cup {[o EXCEPT !.step = step]}]
Begin(T, o) == [T EXCEPT !.ops = @ \cup {o}]

\* persistSessionBlob: sealed under the at-rest keys in memory, else plaintext.
PersistSessionBlob(T, u, blob) ==
  IF ~Has(T.acc, u) THEN T
  ELSE IF T.key # None
       THEN [T EXCEPT !.acc[u].sec = <<T.key, blob>>, !.acc[u].plain = None]
       ELSE [T EXCEPT !.acc[u].plain = blob]

\* setMatrixSession and the effect it triggers.
SetMatrixSession(T, u, blob) ==
  PersistSessionBlob([T EXCEPT !.ms = u, !.blob = blob, !.watch = @ \cup {u}], u, blob)

\* Mutant: the blob is sealed under the at-rest keys already in memory.
SealUnderKeysInMemory(T, k, dev) ==
  IF T.dataKey = None \/ T.ms = NoUser \/ ~Has(T.acc, T.ms) THEN T
  ELSE [T EXCEPT !.acc[T.ms].master = <<k, T.dataKey>>, !.acc[T.ms].device = <<dev, T.dataKey>>,
                 !.acc[T.ms].sec = <<IF T.key = None THEN T.dataKey ELSE T.key, T.blob>>,
                 !.acc[T.ms].plain = None, !.key = IF @ = None THEN T.dataKey ELSE @]

\* sealDataKey: both wraps, and the blob under the same key, in one pass.
SealDataKey(T, k, dev) ==
  IF T.dataKey = None THEN T
  ELSE LET K == [T EXCEPT !.key = T.dataKey] IN
       IF T.ms = NoUser \/ ~Has(T.acc, T.ms) THEN K
       ELSE [K EXCEPT !.acc[T.ms] =
               [@ EXCEPT !.master = <<k, T.dataKey>>, !.device = <<dev, T.dataKey>>,
                         !.sec = <<T.dataKey, T.blob>>, !.plain = None]]

\* getOrCreateDeviceKey, called by sealDataKey only when there is a data key.
GetOrCreateDeviceKey(T) ==
  IF T.dataKey # None /\ devkey = None
  THEN devkeys < MaxDevKey /\ devkeys' = devkeys + 1 /\ devkey' = devkeys + 1
  ELSE UNCHANGED <<devkey, devkeys>>

\* retireStore: queue the name, delete at once unless the worker has it open.
RetireStores(S) ==
  /\ queue' = queue \cup {s \in S : IsOpen(s)}
  /\ stores' = stores \ {s \in S : ~IsOpen(s)}

\* reapStores at page load: whatever is still open stays queued.
ReapStores(clients) ==
  /\ queue' = queue \cap clients
  /\ stores' = stores \ (queue \ clients)

\* createSession in the worker for a restore: join the user's client, or open
\* the blob's store.  A store that was deleted is created anew, empty.
Joined(u) == worker.session[u] # None
OpensWith(s, k) == s \in stores => StoreKey(s) = k
Install(u, s) == worker' = [session |-> [worker.session EXCEPT ![u] = s],
                            clients |-> worker.clients \cup {s}]
RestoreSession(u, s, k) ==
  IF Joined(u) THEN UNCHANGED <<worker, stores, trusted>>
  ELSE /\ OpensWith(s, k)
       /\ Install(u, s)
       /\ stores' = stores \cup {s}
       /\ trusted' = IF s \in stores THEN trusted ELSE trusted \ {s}
SessionStore(u, s) == IF Joined(u) THEN worker.session[u] ELSE s

\* setAccounts(prev => ...; saveAccounts(updated)): the tab's own copy decides
\* what the pool becomes.
Save(t, T) == tab' = [tab EXCEPT ![t] = T] /\ pool' = T.acc
Keep(t, T) == tab' = [tab EXCEPT ![t] = T] /\ UNCHANGED pool

-----------------------------------------------------------------------------
(* Page load, close, and the auto-restore effect.                          *)

\* loadActiveAccountId: this tab's account if it is still in the pool, else one
\* of the pool (the code takes the first; the model any).
ActiveOf(T, acc) ==
  IF Has(acc, T.active) THEN {T.active}
  ELSE IF Accounts(acc) = {} THEN {NoUser} ELSE Accounts(acc)

\* What the mount effect starts for the active account.
AutoRestore(T, u) ==
  LET e == T.acc[u]
      o(kind, s, k) == [kind |-> kind, user |-> u, step |-> "start",
                        store |-> s, key |-> k, secret |-> None]
  IN CASE Encrypted(e) /\ e.device # <<None, None>> -> Begin(T, o("device", None, None))
       [] Encrypted(e) /\ e.device = <<None, None>> ->
            [T EXCEPT !.prompt = "unlock", !.pending = e]
       [] ~Encrypted(e) /\ e.plain # None -> Begin(T, o("restore", e.plain, None))
       [] OTHER -> T

\* main.tsx and the first render of AuthProvider.
Load(t) ==
  /\ ~tab[t].open
  /\ ReapStores(worker.clients)
  /\ \E u \in ActiveOf(tab[t], pool) :
       LET T == [Closed EXCEPT !.open = TRUE, !.acc = pool, !.accs = pool, !.active = u]
       IN Keep(t, IF u = NoUser THEN T ELSE AutoRestore(T, u))
  /\ UNCHANGED <<devkey, devkeys, owner, secret, trusted, worker>>

\* A tab is closed, reloaded or crashes; the worker dies with the last tab.
\* sessionStorage keeps the tab's active account.
Close(t) ==
  /\ tab[t].open
  /\ tab' = [tab EXCEPT ![t] = [Closed EXCEPT !.active = tab[t].active]]
  /\ worker' = IF \E x \in Tabs \ {t} : tab[x].open THEN worker
               ELSE [session |-> [u \in Users |-> None], clients |-> {}]
  /\ UNCHANGED <<pool, devkey, devkeys, stores, queue, owner, secret, trusted>>

\* restoreWithDeviceKey up to restoreSession: unwrap with this browser's key.
DeviceUnwrap(t, o) ==
  LET T == tab[t]
      e == T.acc[o.user]
      ok == e.device[1] = devkey /\ e.sec[1] = e.device[2]
  IN /\ o.kind = "device" /\ o.step = "start"
     /\ Keep(t, IF Has(T.acc, o.user) /\ devkey # None /\ ok
                THEN [T EXCEPT !.key = e.device[2], !.dataKey = e.device[2],
                               !.ops = (@ \ {o}) \cup
                                 {[o EXCEPT !.step = "open", !.store = e.sec[2],
                                            !.key = e.device[2]]}]
                ELSE [Drop(T, o) EXCEPT !.prompt = "unlock", !.pending = e])
     /\ UNCHANGED <<devkey, devkeys, stores, queue, owner, secret, trusted, worker>>

\* ... and after it: the session is live, with no recovery check.
DeviceRestored(t, o) ==
  /\ o.kind = "device" /\ o.step = "open"
  /\ RestoreSession(o.user, o.store, o.key)
  /\ Save(t, SetMatrixSession(Drop(tab[t], o), o.user, SessionStore(o.user, o.store)))
  /\ UNCHANGED <<devkey, devkeys, queue, owner, secret>>

\* The restore timed out or the store did not open: fall back to the prompt.
DeviceFailed(t, o) ==
  /\ o.kind = "device" /\ o.step = "open"
  /\ Keep(t, [Drop(tab[t], o) EXCEPT !.prompt = "unlock", !.pending = tab[t].acc[o.user]])
  /\ UNCHANGED <<devkey, devkeys, stores, queue, owner, secret, trusted, worker>>

\* The v1 restore of the mount effect and of switchAccount.
Restored(t, o) ==
  /\ o.kind \in {"restore", "switch"} /\ o.step = "start"
  /\ RestoreSession(o.user, o.store, None)
  /\ Save(t, SetMatrixSession(Advance(tab[t], o, "history"), o.user,
                              SessionStore(o.user, o.store)))
  /\ UNCHANGED <<devkey, devkeys, queue, owner, secret>>

\* Unreachable homeserver or a store that does not open: the account is kept.
RestoreFailed(t, o) ==
  /\ o.kind \in {"restore", "switch"} /\ o.step = "start"
  /\ Keep(t, Drop(tab[t], o))
  /\ UNCHANGED <<devkey, devkeys, stores, queue, owner, secret, trusted, worker>>

\* isSessionRejected: the mount effect removes the account from the pool it read
\* at mount; the store is not retired.
RestoreRejected(t, o) ==
  /\ o.kind = "restore" /\ o.step = "start"
  /\ LET acc == [tab[t].accs EXCEPT ![o.user] = NoEntry]
     IN \E n \in ActiveOf([tab[t] EXCEPT !.active = NoUser], acc) :
          Save(t, [Drop(tab[t], o) EXCEPT !.acc = acc, !.active = n])
  /\ UNCHANGED <<devkey, devkeys, stores, queue, owner, secret, trusted, worker>>

-----------------------------------------------------------------------------
(* Signing in.                                                             *)

Busy(T) == \E o \in T.ops : o.kind \in {"restore", "switch", "login"}
Room(T) == T.ops = {} \/ ("overlap" \in Faults /\ Cardinality(T.ops) < MaxOps)
Leavable(T) == T.ops = {} \/ "interrupted" \in Faults
FreeStores == {s \in Stores : owner[s] = NoUser}

\* A login begins.  Only the password paths draw a data key (generateDataKey); the
\* store it will encrypt is numbered here.
StartLogin(t, u, drawKey) ==
  LET T == tab[t]
      s == CHOOSE x \in FreeStores : \A y \in FreeStores : x <= y
      o == [kind |-> "login", user |-> u, step |-> "start",
            store |-> s, key |-> None, secret |-> None]
  IN /\ FreeStores # {}
     /\ owner' = [owner EXCEPT ![s] = u]
     /\ Keep(t, [Begin(T, o) EXCEPT !.dataKey = IF drawKey THEN s ELSE @])
     /\ UNCHANGED <<devkey, devkeys, stores, queue, secret, trusted, worker>>

SignIn(t, u) == StartLogin(t, u, TRUE)

\* The account does not exist yet.
SignUp(t, u) ==
  /\ secret[u] = None /\ \A s \in Stores : owner[s] # u
  /\ StartLogin(t, u, TRUE)

SignInWithOauth(t, u) == StartLogin(t, u, FALSE)

\* The form of the sign-in page, disabled while `loading`.
SubmitEnabled(T) == T.open /\ T.prompt = "none" /\ ~Busy(T) /\ Room(T)
HandleSubmit(t, u) == SubmitEnabled(tab[t]) /\ u \notin Oauth /\ (SignIn(t, u) \/ SignUp(t, u))
HandleOauthSignIn(t, u) == SubmitEnabled(tab[t]) /\ u \in Oauth /\ SignInWithOauth(t, u)

\* buildSession('login' | 'register' | 'finishOauthLogin'): the worker builds a
\* client over the new store and replaces the user's current one.
LoggedIn(t, o) ==
  /\ o.kind = "login" /\ o.step = "start"
  /\ Install(o.user, o.store)
  /\ stores' = stores \cup {o.store}
  /\ Keep(t, Advance(tab[t], o, "sync"))
  /\ UNCHANGED <<devkey, devkeys, queue, owner, secret, trusted>>

\* Wrong password, closed popup, or a failed first sync after the login.
SignInFailed(t, o) ==
  /\ o.kind = "login"
  /\ o.step = "start" \/ (o.step = "sync" /\ "first_sync" \in Faults)
  /\ Keep(t, Drop(tab[t], o))
  /\ UNCHANGED <<devkey, devkeys, stores, queue, owner, secret, trusted, worker>>

\* Mutant: a sign-in that keeps the old store's name.
StaleNameEntry(T, u, s) ==
  [NoEntry EXCEPT !.store = IF T.acc[u].store = None THEN s ELSE T.acc[u].store, !.plain = s]

\* The entry completeSignIn writes: built afresh, only keySaved carried forward.
FreshEntry(T, u, s) ==
  [NoEntry EXCEPT !.store = s, !.saved = T.acc[u].saved,
                  !.plain = IF T.key = None THEN s ELSE None,
                  !.sec = IF T.key = None THEN <<None, None>> ELSE <<T.key, s>>]

CompleteSignIn(t, o) ==
  LET T == tab[t]
      u == o.user
      s == o.store
      old == {x \in {T.acc[u].store} : x # None /\ x # s}
  IN /\ o.kind = "login" /\ o.step = "sync"
     /\ RetireStores(old)
     /\ Save(t, SetMatrixSession([Advance(T, o, "history")
                                    EXCEPT !.acc[u] = FreshEntry(T, u, s), !.active = u],
                                 u, s))
     /\ UNCHANGED <<devkey, devkeys, owner, secret, trusted, worker>>

-----------------------------------------------------------------------------
(* Steering a signed-in device into a state that can read history.         *)

\* Mutant: a device without the keys is let through.
NeverGates(t, o) ==
  LET T == tab[t] IN
  /\ o.step = "history"
  /\ IF secret[o.user] = None THEN Keep(t, Advance(T, o, "enable")) ELSE Keep(t, Drop(T, o))
  /\ UNCHANGED <<devkey, devkeys, stores, queue, owner, secret, trusted, worker>>

\* ensureHistoryAccess, by what recoveryStatus reports for the user's client.
EnsureHistoryAccess(t, o) ==
  LET T == tab[t]
      s == worker.session[o.user]
  IN /\ o.step = "history"
     /\ \/ "unsettled" \in Faults /\ Keep(t, Drop(T, o))
        \/ secret[o.user] = None /\ Keep(t, Advance(T, o, "enable"))
        \/ secret[o.user] # None /\ s \in trusted /\ Keep(t, Drop(T, o))
        \/ /\ secret[o.user] # None /\ s \notin trusted
           /\ Keep(t, [Drop(T, o) EXCEPT !.prompt = "verify"])
     /\ UNCHANGED <<devkey, devkeys, stores, queue, owner, secret, trusted, worker>>

\* bootstrapWithKey: enableRecovery succeeds on the server ...
EnableRecovery(t, o) ==
  /\ o.step = "enable" /\ secret[o.user] = None
  /\ secret' = [secret EXCEPT ![o.user] = 1]
  /\ trusted' = trusted \cup {worker.session[o.user]}
  /\ Keep(t, [tab[t] EXCEPT !.ops = (@ \ {o}) \cup
                              {[o EXCEPT !.step = "seal", !.secret = 1]}])
  /\ UNCHANGED <<devkey, devkeys, stores, queue, owner, worker>>

\* Mutant: the key is shown first and sealed under only on confirmation.
ShowBeforeSealing(t, o) ==
  /\ o.kind # "recover" /\ o.step = "seal"
  /\ Keep(t, [Drop(tab[t], o) EXCEPT !.prompt = "save", !.shown = o.secret])
  /\ UNCHANGED <<devkey, devkeys, stores, queue, owner, secret, trusted, worker>>

\* ... and the data key is sealed before the key is shown.
ShowRecoveryKey(t, o) ==
  LET T == tab[t] IN
  /\ o.kind # "recover" /\ o.step = "seal"
  /\ GetOrCreateDeviceKey(T)
  /\ Save(t, [SealDataKey(Drop(T, o), o.secret, devkey')
                EXCEPT !.prompt = "save", !.shown = o.secret])
  /\ UNCHANGED <<stores, queue, owner, secret, trusted, worker>>

\* Every attempt failed (or another device was first): a blocking error.
BootstrapFailed(t, o) ==
  /\ o.step = "enable"
  /\ Keep(t, [Drop(tab[t], o) EXCEPT !.prompt = "error"])
  /\ UNCHANGED <<devkey, devkeys, stores, queue, owner, secret, trusted, worker>>

RetryRecoverySetup(t) ==
  LET T == tab[t] IN
  /\ T.prompt = "error" /\ T.ms # NoUser /\ Room(T)
  /\ Keep(t, [Begin(T, [kind |-> "login", user |-> T.ms, step |-> "enable",
                        store |-> None, key |-> None, secret |-> None])
                EXCEPT !.prompt = "none"])
  /\ UNCHANGED <<devkey, devkeys, stores, queue, owner, secret, trusted, worker>>

\* confirmKeySaved: keySaved, and the data key sealed once more.
ConfirmKeySaved(t) ==
  LET T == tab[t]
      S == IF Has(T.acc, T.ms) THEN [T EXCEPT !.acc[T.ms].saved = TRUE] ELSE T
  IN /\ T.prompt = "save"
     /\ GetOrCreateDeviceKey(T)
     /\ Save(t, [SealDataKey(S, T.shown, devkey') EXCEPT !.prompt = "none", !.shown = None])
     /\ UNCHANGED <<stores, queue, owner, secret, trusted, worker>>

\* Mutant: a key that recovers nothing is accepted.
SubmitUnchecked(t) ==
  LET T == tab[t] IN
  /\ T.prompt = "verify" /\ T.ms # NoUser /\ Room(T)
  /\ Keep(t, Begin(T, [kind |-> "recover", user |-> T.ms, step |-> "seal",
                       store |-> None, key |-> None, secret |-> secret[T.ms]]))
  /\ UNCHANGED <<devkey, devkeys, stores, queue, owner, secret, trusted, worker>>

\* submitRecoveryKey: recoverWithKey accepts the current key only ...
SubmitRecoveryKey(t) ==
  LET T == tab[t] IN
  /\ T.prompt = "verify" /\ T.ms # NoUser /\ Room(T)
  /\ trusted' = trusted \cup {worker.session[T.ms]}
  /\ Keep(t, Begin(T, [kind |-> "recover", user |-> T.ms, step |-> "seal",
                       store |-> None, key |-> None, secret |-> secret[T.ms]]))
  /\ UNCHANGED <<devkey, devkeys, stores, queue, owner, secret, worker>>

\* ... and after the bounded sync the data key is sealed and the gate lifts.
RecoveryKeyAccepted(t, o) ==
  LET T == tab[t] IN
  /\ o.kind = "recover" /\ o.step = "seal"
  /\ GetOrCreateDeviceKey(T)
  /\ Save(t, [SealDataKey(Drop(T, o), o.secret, devkey') EXCEPT !.prompt = "none"])
  /\ UNCHANGED <<stores, queue, owner, secret, trusted, worker>>

-----------------------------------------------------------------------------
(* The unlock gate of an encrypted account.                                *)

\* unlockAndRestore up to restoreSession, with the key of generation k.  A wrong
\* secret fails to open the wrap; a blob under another key fails after it.
Unlock(t, k) ==
  LET T == tab[t]
      e == T.pending
      o == [kind |-> "unlock", user |-> T.active, step |-> "open",
            store |-> e.sec[2], key |-> e.master[2], secret |-> k]
  IN /\ T.prompt = "unlock" /\ e.master[1] = k /\ k # None /\ Room(T)
     /\ Keep(t, IF e.sec[1] = e.master[2]
                THEN [Begin(T, o) EXCEPT !.key = e.master[2], !.dataKey = e.master[2]]
                ELSE [T EXCEPT !.dataKey = e.master[2]])
     /\ UNCHANGED <<devkey, devkeys, stores, queue, owner, secret, trusted, worker>>

UnlockRestored(t, o) ==
  /\ o.kind = "unlock" /\ o.step = "open"
  /\ RestoreSession(o.user, o.store, o.key)
  /\ Save(t, SetMatrixSession(Advance(tab[t], o, "recover"), o.user,
                              SessionStore(o.user, o.store)))
  /\ UNCHANGED <<devkey, devkeys, queue, owner, secret>>

\* The restore or recoverWithKey threw; the gate stays up.
UnlockFailed(t, o) ==
  /\ o.kind = "unlock"
  /\ o.step = "recover" => o.secret # secret[o.user]
  /\ Keep(t, Drop(tab[t], o))
  /\ UNCHANGED <<devkey, devkeys, stores, queue, owner, secret, trusted, worker>>

UnlockRecovered(t, o) ==
  /\ o.kind = "unlock" /\ o.step = "recover" /\ o.secret = secret[o.user]
  /\ trusted' = trusted \cup {worker.session[o.user]}
  /\ Keep(t, [Drop(tab[t], o) EXCEPT !.prompt = "none", !.pending = NoEntry])
  /\ UNCHANGED <<devkey, devkeys, stores, queue, owner, secret, worker>>

-----------------------------------------------------------------------------
(* Leaving and changing accounts.                                          *)

\* signOut: the entry, the store it names, the device key and every gate go.
SignOut(t) ==
  LET T == tab[t]
      acc == [T.acc EXCEPT ![T.active] = NoEntry]
      gone == {T.acc[T.active].store} \ {None}
  IN /\ Has(T.acc, T.active) /\ Leavable(T)
     /\ RetireStores(gone)
     /\ devkey' = None
     /\ \E n \in ActiveOf([T EXCEPT !.active = NoUser], acc) :
          Save(t, [T EXCEPT !.acc = acc, !.active = n, !.ms = NoUser, !.blob = None,
                            !.key = None, !.dataKey = None, !.pending = NoEntry,
                            !.prompt = "none"])
     /\ UNCHANGED <<devkeys, owner, secret, trusted, worker>>

\* switchAccount: an encrypted account goes behind the unlock gate, a plaintext
\* one restores.  The at-rest keys in memory are left as they are.
SwitchAccount(t, u) ==
  LET T == tab[t]
      e == T.acc[u]
      S == [T EXCEPT !.ms = NoUser, !.blob = None, !.active = u]
  IN /\ Room(T) /\ Leavable(T)
     /\ Has(T.acc, u) /\ ~(u = T.active /\ T.ms # NoUser)
     /\ Keep(t, IF Encrypted(e)
                THEN [S EXCEPT !.prompt = "unlock", !.pending = e]
                ELSE Begin(S, [kind |-> "switch", user |-> u, step |-> "start",
                               store |-> e.plain, key |-> None, secret |-> None]))
     /\ UNCHANGED <<devkey, devkeys, stores, queue, owner, secret, trusted, worker>>

\* removeAccount: the entry and its store go.
RemoveAccount(t, u) ==
  LET T == tab[t] IN
  /\ Has(T.acc, u) /\ Leavable(T)
  /\ RetireStores({T.acc[u].store} \ {None})
  /\ Save(t, [T EXCEPT !.acc[u] = NoEntry])
  /\ UNCHANGED <<devkey, devkeys, owner, secret, trusted, worker>>

\* The account switcher: the entry of the active account closes the menu, its
\* cross signs out; the sign-in page continues as any account of the pool.
HandleSwitch(t, u) ==
  tab[t].open /\ tab[t].prompt = "none" /\ u # tab[t].active /\ SwitchAccount(t, u)
HandleRemove(t, u) ==
  /\ tab[t].open /\ tab[t].prompt = "none"
  /\ IF u = tab[t].active THEN SignOut(t) ELSE RemoveAccount(t, u)
HandleContinueAs(t, u) == SubmitEnabled(tab[t]) /\ SwitchAccount(t, u)

\* The verify, unlock and error gates offer to sign out, even while an unlock is
\* in flight; the save screen offers no way out.
GateSignOut(t) == tab[t].prompt \in {"verify", "unlock", "error"} /\ SignOut(t)

\* resetApp: every collab: key goes, the queue of pending deletions included,
\* then the stores the pool named are queued and the page reloads.
ResetApp(t) ==
  LET named == {pool[u].store : u \in Users} \ {None}
      alone == \A x \in Tabs \ {t} : ~tab[x].open
  IN /\ tab[t].open
     /\ pool' = [u \in Users |-> NoEntry]
     /\ queue' = {s \in named : IsOpen(s)}
     /\ stores' = stores \ {s \in named : ~IsOpen(s)}
     /\ tab' = [tab EXCEPT ![t] = Closed]
     /\ worker' = IF alone THEN [session |-> [u \in Users |-> None], clients |-> {}]
                  ELSE worker
     /\ UNCHANGED <<devkey, devkeys, owner, secret, trusted>>

\* regenerateRecoveryKey: a new generation on the server, no wrap rewritten.
RegenerateRecoveryKey(t) ==
  LET u == tab[t].ms IN
  /\ u # NoUser /\ tab[t].prompt = "none"
  /\ secret[u] \in 1..(MaxSecret - 1) /\ worker.session[u] \in trusted
  /\ secret' = [secret EXCEPT ![u] = @ + 1]
  /\ UNCHANGED <<pool, devkey, devkeys, stores, queue, owner, trusted, worker, tab>>

\* token-refresh: a client of the worker, the current one or one it replaced,
\* renewed its tokens; a page that ever wrapped a session of that user takes the
\* blob as its session's and persists it.
TokenRefresh(t, c) ==
  LET T == tab[t]
      u == owner[c]
  IN /\ c \in worker.clients /\ u \in Oauth \cap T.watch
     /\ Save(t, PersistSessionBlob([T EXCEPT !.blob = IF T.ms = u THEN c ELSE @], u, c))
     /\ UNCHANGED <<devkey, devkeys, stores, queue, owner, secret, trusted, worker>>

-----------------------------------------------------------------------------
OpStep(t, o) ==
  \/ DeviceUnwrap(t, o) \/ DeviceRestored(t, o) \/ DeviceFailed(t, o)
  \/ Restored(t, o) \/ RestoreFailed(t, o) \/ RestoreRejected(t, o)
  \/ LoggedIn(t, o) \/ SignInFailed(t, o) \/ CompleteSignIn(t, o)
  \/ EnsureHistoryAccess(t, o) \/ EnableRecovery(t, o) \/ BootstrapFailed(t, o)
  \/ ShowRecoveryKey(t, o) \/ RecoveryKeyAccepted(t, o)
  \/ UnlockRestored(t, o) \/ UnlockFailed(t, o) \/ UnlockRecovered(t, o)

UserStep(t) ==
  \/ Load(t) \/ Close(t) \/ GateSignOut(t) \/ ResetApp(t) \/ RegenerateRecoveryKey(t)
  \/ RetryRecoverySetup(t) \/ ConfirmKeySaved(t) \/ SubmitRecoveryKey(t)
  \/ \E k \in 1..MaxSecret : Unlock(t, k)
  \/ \E u \in Users : \/ HandleSubmit(t, u) \/ HandleOauthSignIn(t, u)
                       \/ HandleSwitch(t, u) \/ HandleRemove(t, u) \/ HandleContinueAs(t, u)
  \/ \E c \in Stores : TokenRefresh(t, c)

Next ==
  /\ UNCHANGED env
  /\ \E t \in Tabs : UserStep(t) \/ \E o \in tab[t].ops : OpStep(t, o)

Spec == Init /\ [][Next]_vars
-----------------------------------------------------------------------------
(* What the accounts code promises, and in which surroundings it keeps it. *)

Uniform == Oauth \in {{}, Users}   \* password and OAuth accounts do not mix

\* sealDataKey writes both wraps and the sealed blob "in one pass" so that no "v2
\* entry whose `secrets` were sealed under a different key" exists: whoever opens
\* a wrap of an entry opens its session, and the store of that session.
SealedOpens ==
  Uniform /\ Faults = {} =>
    \A u \in Users :
      LET e == pool[u] IN
      Encrypted(e) /\ e.master # <<None, None>> =>
        /\ e.sec[1] = e.master[2] /\ e.device[2] = e.master[2]
        /\ e.sec[2] \in stores => StoreKey(e.sec[2]) = e.sec[1]

\* The save screen says "Closing this tab is safe": a reload finds an entry that
\* the key on the screen opens, of a device that holds the account's keys.
SaveScreenIsSafe ==
  Oauth = {} /\ Faults = {} =>
    \A t \in Tabs : tab[t].prompt = "save" /\ Has(pool, tab[t].ms) =>
      /\ pool[tab[t].ms].master[1] = tab[t].shown
      /\ tab[t].blob \in trusted

\* retireStore and reapStores delete only what no account names, whatever
\* sign-ins fail, overlap or are repeated, and whenever the page is closed.
NamedStoresKept ==
  "interrupted" \notin Faults =>
    \A u \in Users : pool[u].store # None =>
      pool[u].store \in stores /\ pool[u].store \notin queue

\* restoreWithDeviceKey goes live without a recovery check: it may, because a
\* device wrap exists only for a device that already holds the account's keys.
SilentRestoreReads ==
  Uniform /\ Faults \subseteq {"unsettled"} =>
    \A u \in Users : pool[u].device # <<None, None>> /\ pool[u].sec[2] \in stores =>
      pool[u].sec[2] \in trusted

\* ensureHistoryAccess: a restored, switched-to or signed-in session that cannot
\* read history is behind a gate once the operation that brought it is over.
GateWhenUnreadable ==
  Oauth = {} /\ Faults \subseteq {"first_sync"} =>
    \A t \in Tabs : Has(pool, tab[t].ms) /\ tab[t].ops = {} /\ tab[t].prompt = "none" =>
      tab[t].blob \in trusted

\* signOut dismisses every gate and nothing "will re-raise the prompt for the
\* account we just removed": a gate is up only for an account of the pool.
NoPromptForRemoved ==
  \A t \in Tabs : tab[t].prompt # "none" /\ tab[t].ms # NoUser => Has(tab[t].acc, tab[t].ms)
=============================================================================
