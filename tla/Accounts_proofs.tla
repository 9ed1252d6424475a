-------------------------- MODULE Accounts_proofs --------------------------
(***************************************************************************)
(* What the accounts code keeps safe in a profile with one tab: the stores *)
(* its accounts name, the envelope at rest, the save screen, the restore   *)
(* without a prompt and the gate of a session that cannot read.            *)
(*                                                                         *)
(* An operation is followed through its awaits.  AccountsInv says what     *)
(* each of its steps and each screen may rely on: which client the session *)
(* held is (Live), which store an entry opens (Kept), which key is in      *)
(* memory, and that nothing else can be under way that changes them.       *)
(***************************************************************************)
EXTENDS Accounts, WellFoundedInduction, TLAPS

OneTab == \E t : Tabs = {t}

Slots == 0..MaxStores
Sealed == Nat \X Slots
Entry == [store : Slots, plain : Slots, sec : Sealed, master : Sealed, device : Sealed,
          saved : BOOLEAN]
People == Users \cup {NoUser}

Op == [kind : {"device", "restore", "switch", "login", "unlock", "recover"}, user : Users,
       step : {"start", "open", "sync", "history", "enable", "seal", "recover"},
       store : Slots, key : Slots, secret : Nat]

Page == [open : BOOLEAN, acc : [Users -> Entry], accs : [Users -> Entry], active : People,
         ms : People, blob : Slots, key : Slots, dataKey : Slots,
         prompt : {"none", "verify", "save", "error", "unlock"}, shown : Nat,
         pending : Entry, ops : SUBSET Op, watch : SUBSET Users]

TypeOK ==
  /\ pool \in [Users -> Entry]
  /\ devkey \in Nat /\ devkeys \in Nat
  /\ stores \subseteq Slots /\ queue \subseteq Stores /\ trusted \subseteq Slots
  /\ owner \in [Stores -> People]
  /\ secret \in [Users -> Nat]
  /\ worker \in [session : [Users -> Slots], clients : SUBSET Slots]
  /\ tab \in [Tabs -> Page]

-----------------------------------------------------------------------------
(* The stores accounts name.                                               *)

\* Store s is u's, exists and is not to be deleted.
Kept(s, u) == s \in Stores /\ s \in stores \ queue /\ owner[s] = u

LoginOps(T) == {o \in T.ops : o.kind = "login" /\ o.step \in {"start", "sync"}}

\* An open page shows the pool, a closed one has left nothing running.
PageInv(T) ==
  IF T.open THEN T.acc = pool
  ELSE /\ T = [Closed EXCEPT !.active = T.active]
       /\ worker = [session |-> [u \in Users |-> None], clients |-> {}]

\* While the page's first restore awaits, nothing else happens.
RestoreInv(T) ==
  \A o \in T.ops : o.kind = "restore" /\ o.step = "start" =>
    T.ops = {o} /\ T.prompt = "none" /\ T.ms = NoUser /\ T.watch = {} /\ T.accs = T.acc

\* The store of a login under way is new.
NewInv(T) ==
  /\ \A o \in LoginOps(T) :
       /\ o.store \in Stores \ queue /\ owner[o.store] = o.user
       /\ o.step = "sync" => o.store \in stores
       /\ \A u \in Users : pool[u].store # o.store
  /\ \A o, p \in LoginOps(T) : o.store = p.store => o = p

\* What is unlocked is the active account.
ActiveInv(T) ==
  T.prompt = "unlock" \/ (\E o \in T.ops : o.kind = "device") => T.active \in Users

StoreInv ==
  /\ \A u \in Users : pool[u].store # None => Kept(pool[u].store, u)
  /\ \A s \in queue : owner[s] # NoUser
  /\ \A t \in Tabs : PageInv(tab[t]) /\ RestoreInv(tab[t]) /\ NewInv(tab[t]) /\ ActiveInv(tab[t])

-----------------------------------------------------------------------------
(* OAuth accounts seal nothing.                                            *)

PlainPage(T) ==
  /\ T.key = None /\ T.dataKey = None /\ T.prompt # "unlock"
  /\ \A o \in T.ops : o.kind \notin {"device", "unlock"}

PlainInv ==
  /\ \A u \in Users : ~Encrypted(pool[u]) /\ pool[u].device = <<None, None>>
  /\ \A t \in Tabs : PlainPage(tab[t])

-----------------------------------------------------------------------------
(* Password accounts, one operation of the tab at a time.                  *)

Calm == Faults \cap {"interrupted", "overlap"} = {}

Wrapped(e) == e.device # <<None, None>>

\* What an entry opens exists; its wraps and its blob are under one key, which is
\* not a client's that cannot read.
EntryInv(u) ==
  LET e == pool[u] IN
  Has(pool, u) =>
    /\ Encrypted(e) => Kept(e.sec[2], u)
    /\ ~Encrypted(e) => Kept(e.plain, u)
    /\ worker.session[u] # None => Kept(worker.session[u], u)
    /\ ~Wrapped(e) => e.master = <<None, None>>
    /\ Wrapped(e) =>
         /\ Encrypted(e) /\ e.sec[1] = e.master[2] /\ e.device[2] = e.master[2]
         /\ e.master[2] \in Stores /\ owner[e.master[2]] # NoUser
         /\ e.master[2] \in trusted \/ e.master[2] \notin {worker.session[u], e.sec[2]}

\* The session held is u's current client.
Live(T, u) ==
  u \in Users /\ T.ms = u /\ Has(pool, u) /\ T.blob = worker.session[u] /\ T.blob # None

InDevice(T, o) ==
  LET e == pool[o.user] IN
  /\ o.kind = "device" /\ o.step \in {"start", "open"}
  /\ T.prompt = "none" /\ T.ms = NoUser
  /\ Has(pool, o.user) /\ Wrapped(e) /\ worker.session[o.user] = None
  /\ o.user = T.active
  /\ o.step = "open" => /\ o.store = e.sec[2] /\ o.key = e.master[2]
                        /\ T.key = e.master[2] /\ T.dataKey = e.master[2]

InRestore(T, o) ==
  /\ o.kind \in {"restore", "switch"} /\ o.step = "start"
  /\ T.prompt = "none" /\ T.ms = NoUser /\ o.user = T.active
  /\ Has(pool, o.user) /\ ~Encrypted(pool[o.user]) /\ o.store = pool[o.user].plain

InLogin(T, o) ==
  /\ o.kind = "login" /\ o.step \in {"start", "sync"}
  /\ T.prompt = "none" /\ T.dataKey = o.store /\ o.store \notin trusted
  /\ \A u \in Users : pool[u].master[2] # o.store
  /\ o.step = "sync" => worker.session[o.user] = o.store

InHistory(T, o) ==
  /\ o.kind \in {"restore", "switch", "login"} /\ o.step \in {"history", "enable", "seal"}
  /\ T.prompt = "none" /\ Live(T, o.user)
  /\ o.step = "seal" => T.blob \in trusted

InRecover(T, o) ==
  /\ o.kind = "recover" /\ o.step = "seal"
  /\ T.prompt = "verify" /\ Live(T, o.user) /\ T.blob \in trusted

InUnlock(T, o) ==
  LET e == pool[o.user] IN
  /\ o.kind = "unlock" /\ o.step \in {"open", "recover"}
  /\ T.prompt = "unlock" /\ o.user = T.active
  /\ o.step = "open" => /\ Wrapped(e) /\ o.key = e.master[2] /\ T.key = e.master[2]
                        /\ o.store = e.sec[2] \/ worker.session[o.user] # None
  /\ o.step = "recover" => Live(T, o.user)

OpInv(T) ==
  /\ \A o, p \in T.ops : o = p
  /\ \A o \in T.ops : \/ InDevice(T, o) \/ InRestore(T, o) \/ InLogin(T, o)
                      \/ InHistory(T, o) \/ InRecover(T, o) \/ InUnlock(T, o)

\* The entry behind the unlock gate; another client may have taken its store's place.
PendingInv(T) ==
  LET e == pool[T.active] IN
  /\ T.active \in Users /\ Has(pool, T.active)
  /\ T.pending.master = e.master /\ T.pending.device = e.device
  /\ T.pending.sec[1] = e.sec[1]
  /\ T.pending.sec[2] = e.sec[2] \/ worker.session[T.active] # None

PromptInv(T) ==
  /\ T.ms # NoUser => T.ms = T.active
  /\ T.prompt \in {"verify", "save", "error"} => Live(T, T.ms)
  /\ T.prompt \in {"save", "error"} => T.ops = {}
  /\ T.prompt = "save" => T.blob \in trusted
  /\ T.prompt = "unlock" => PendingInv(T)
  /\ T.dataKey # None => T.dataKey \in Stores /\ owner[T.dataKey] # NoUser

\* No gate is missing: with nothing but a login under way, the session can read.
GateInv(T) ==
  T.prompt = "none" /\ T.ms # NoUser /\ Has(pool, T.ms) /\ T.ops \subseteq LoginOps(T)
    => T.blob \in trusted

\* Without failed first syncs an account has one store.
OneStoreInv(T) ==
  \A u \in Users : Has(pool, u) =>
    /\ Encrypted(pool[u]) => pool[u].sec[2] = pool[u].store
    /\ ~Encrypted(pool[u]) => pool[u].plain = pool[u].store
    /\ Wrapped(pool[u]) => pool[u].store \in trusted
    /\ worker.session[u] # None =>
         \/ worker.session[u] = pool[u].store
         \/ \E o \in T.ops : o.kind = "login" /\ o.step = "sync" /\ o.user = u

\* A session is being steered: until it can read, no data key but its own is there.
Steered(T) ==
  \/ T.prompt \in {"verify", "save", "error"}
  \/ \E o \in T.ops : o.step \in {"history", "enable", "seal"}

KeyInv(T) ==
  /\ \A u \in Users : Wrapped(pool[u]) => pool[u].sec[2] = pool[u].master[2]
  /\ Steered(T) => T.dataKey = T.blob
  /\ \A o \in T.ops :
       /\ o.kind \in {"restore", "switch"} => o.step = "start"
       /\ o.kind = "login" /\ o.step = "history" => T.blob \notin trusted
  /\ T.prompt = "save" => pool[T.ms].master[1] = T.shown
  /\ \A u \in Users :
       Has(pool, u) /\ ~Encrypted(pool[u]) /\ worker.session[u] # None =>
         \/ T.ms = u /\ Steered(T)
         \/ \E o \in T.ops : o.kind = "login" /\ o.step = "sync" /\ o.user = u

PasswordPage(T) ==
  /\ OpInv(T) /\ PromptInv(T)
  /\ "unsettled" \notin Faults => GateInv(T)
  /\ "first_sync" \notin Faults => OneStoreInv(T)
  /\ Faults = {} => KeyInv(T)

PasswordInv ==
  /\ \A s \in trusted : s \in Stores /\ owner[s] # NoUser
  /\ \A u \in Users : EntryInv(u)
  /\ \A t \in Tabs : PasswordPage(tab[t])

\* All of it, and where it holds: a user who leaves while an operation awaits can
\* bring back what was removed.
AllInv ==
  /\ TypeOK /\ StoreInv
  /\ Oauth = Users => PlainInv
  /\ Oauth = {} /\ Calm => PasswordInv

AccountsInv == "interrupted" \notin Faults => AllInv

-----------------------------------------------------------------------------
(* Pages and entries. *)

LEMMA EmptyTypes ==
  /\ NoEntry \in Entry /\ NoEntry.store = None /\ NoEntry.plain = None
  /\ NoEntry.sec = <<None, None>> /\ NoEntry.master = <<None, None>>
  /\ NoEntry.device = <<None, None>>
  /\ Closed \in Page /\ Closed.open = FALSE /\ Closed.ops = {} /\ Closed.prompt = "none"
  /\ Closed.ms = NoUser /\ Closed.key = None /\ Closed.dataKey = None
<1>1. None \in Slots /\ None \in Nat /\ <<None, None>> \in Sealed
  BY AccountsAssumption DEF None, Slots, Sealed
<1>2. NoEntry \in Entry
  BY <1>1 DEF NoEntry, Entry
<1>3. Closed \in Page
  BY <1>1, <1>2 DEF Closed, Page, People
<1>4. QED BY <1>2, <1>3 DEF NoEntry, Closed

\* Page R has u's session in store s persisted, under the key in memory if there is one.
Persisted(R, T, u, s) ==
  /\ R \in Page
  /\ R.open = T.open /\ R.accs = T.accs /\ R.active = T.active
  /\ R.key = T.key /\ R.dataKey = T.dataKey /\ R.prompt = T.prompt
  /\ R.shown = T.shown /\ R.pending = T.pending /\ R.ops = T.ops
  /\ \A v \in Users : v # u \/ ~Has(T.acc, v) => R.acc[v] = T.acc[v]
  /\ Has(T.acc, u) =>
       /\ R.acc[u].store = T.acc[u].store /\ R.acc[u].master = T.acc[u].master
       /\ R.acc[u].device = T.acc[u].device
       /\ T.key # None => /\ Encrypted(R.acc[u]) /\ R.acc[u].plain = None
                          /\ R.acc[u].sec[1] = T.key /\ R.acc[u].sec[2] = s
       /\ T.key = None => R.acc[u].sec = T.acc[u].sec /\ R.acc[u].plain = s

LEMMA PersistFacts ==
  ASSUME NEW T \in Page, NEW u \in Users, NEW s \in Slots, NEW R, R = PersistSessionBlob(T, u, s)
  PROVE  /\ Persisted(R, T, u, s)
         /\ R.ms = T.ms /\ R.blob = T.blob /\ R.watch = T.watch
<1>1. None \in Slots /\ None \in Nat
  BY AccountsAssumption DEF None, Slots
<1>2. CASE ~Has(T.acc, u)
  BY <1>2 DEF PersistSessionBlob, Persisted
<1>3. CASE Has(T.acc, u) /\ T.key # None
  <2>1. <<T.key, s>> \in Sealed
    BY DEF Sealed, Slots, Page
  <2> DEFINE n == [T.acc[u] EXCEPT !.sec = <<T.key, s>>, !.plain = None]
  <2>2. /\ n \in Entry /\ n.store = T.acc[u].store /\ n.master = T.acc[u].master
        /\ n.device = T.acc[u].device /\ n.sec = <<T.key, s>> /\ n.plain = None
    BY <1>1, <2>1 DEF Page, Entry
  <2>3. R = [T EXCEPT !.acc = [T.acc EXCEPT ![u] = n]]
    BY <1>3 DEF PersistSessionBlob
  <2> HIDE DEF n
  <2>4. Encrypted(n) /\ n.sec[1] = T.key /\ n.sec[2] = s
    BY <1>3, <2>2 DEF Encrypted
  <2>5. QED BY <1>3, <2>2, <2>3, <2>4 DEF Page, Persisted
<1>4. CASE Has(T.acc, u) /\ T.key = None
  <2> DEFINE n == [T.acc[u] EXCEPT !.plain = s]
  <2>2. /\ n \in Entry /\ n.store = T.acc[u].store /\ n.master = T.acc[u].master
        /\ n.device = T.acc[u].device /\ n.sec = T.acc[u].sec /\ n.plain = s
    BY <1>1 DEF Page, Entry
  <2>3. R = [T EXCEPT !.acc = [T.acc EXCEPT ![u] = n]]
    BY <1>4 DEF PersistSessionBlob
  <2> HIDE DEF n
  <2>4. QED BY <1>4, <2>2, <2>3 DEF Page, Persisted
<1>5. QED BY <1>2, <1>3, <1>4

\* setMatrixSession takes the session over and persists it.
LEMMA SetMsFacts ==
  ASSUME NEW T \in Page, NEW u \in Users, NEW s \in Slots, NEW R, R = SetMatrixSession(T, u, s)
  PROVE  Persisted(R, T, u, s) /\ R.ms = u /\ R.blob = s
<1> DEFINE M == [T EXCEPT !.ms = u, !.blob = s, !.watch = @ \cup {u}]
<1>1. /\ M \in Page
      /\ M.open = T.open /\ M.accs = T.accs /\ M.active = T.active /\ M.ms = u
      /\ M.blob = s /\ M.key = T.key /\ M.dataKey = T.dataKey /\ M.prompt = T.prompt
      /\ M.shown = T.shown /\ M.pending = T.pending /\ M.ops = T.ops /\ M.acc = T.acc
  BY DEF Page, People
<1>2. R = PersistSessionBlob(M, u, s)
  BY DEF SetMatrixSession
<1> HIDE DEF M
<1>3. Persisted(R, M, u, s) /\ R.ms = u /\ R.blob = s
  BY <1>1, <1>2, PersistFacts
<1>4. QED BY <1>1, <1>3 DEF Persisted

\* A step that changes the entries of a page.
OtherEntries(D, T) ==
  /\ D \in Page /\ D.open = T.open /\ D.active = T.active /\ D.ms = T.ms
  /\ D.accs = T.accs /\ D.blob = T.blob /\ D.key = T.key /\ D.dataKey = T.dataKey
  /\ D.prompt = T.prompt /\ D.shown = T.shown /\ D.pending = T.pending /\ D.ops = T.ops

\* Page T with entry n for u.
WithEntry(T, u, n) == [T EXCEPT !.acc = [T.acc EXCEPT ![u] = n]]

LEMMA WithEntryFacts ==
  ASSUME NEW T \in Page, NEW u \in Users, NEW n \in Entry
  PROVE  /\ OtherEntries(WithEntry(T, u, n), T)
         /\ WithEntry(T, u, n).acc[u] = n
         /\ \A v \in Users : v # u => WithEntry(T, u, n).acc[v] = T.acc[v]
BY DEF Page, WithEntry, OtherEntries

\* Page R has the data key wrapped twice and the blob sealed under it, or is as before.
SealedPage(R, T, k) ==
  /\ R \in Page
  /\ R.open = T.open /\ R.accs = T.accs /\ R.active = T.active /\ R.ms = T.ms
  /\ R.blob = T.blob /\ R.dataKey = T.dataKey /\ R.prompt = T.prompt
  /\ R.shown = T.shown /\ R.pending = T.pending /\ R.ops = T.ops
  /\ R.key = T.key \/ R.key = T.dataKey
  /\ \A v \in Users : v # T.ms \/ ~Has(T.acc, v) \/ T.dataKey = None => R.acc[v] = T.acc[v]
  /\ T.dataKey # None /\ Has(T.acc, T.ms) =>
       /\ R.acc[T.ms].store = T.acc[T.ms].store
       /\ R.acc[T.ms].sec = <<T.dataKey, T.blob>>
       /\ R.acc[T.ms].master = <<k, T.dataKey>>
       /\ R.acc[T.ms].device # <<None, None>> /\ R.acc[T.ms].device[2] = T.dataKey

LEMMA SealFacts ==
  ASSUME NEW T \in Page, NEW k \in Nat, NEW d \in Nat, NEW R, R = SealDataKey(T, k, d)
  PROVE  SealedPage(R, T, k)
<1>1. None \in Slots /\ None \in Nat
  BY AccountsAssumption DEF None, Slots
<1>2. CASE T.dataKey = None
  BY <1>2 DEF SealDataKey, SealedPage
<1> DEFINE K == [T EXCEPT !.key = T.dataKey]
<1>3. K \in Page /\ K.acc = T.acc /\ K.key = T.dataKey
      /\ K.open = T.open /\ K.accs = T.accs /\ K.active = T.active /\ K.ms = T.ms
      /\ K.blob = T.blob /\ K.dataKey = T.dataKey /\ K.prompt = T.prompt
      /\ K.shown = T.shown /\ K.pending = T.pending /\ K.ops = T.ops /\ K.watch = T.watch
  BY DEF Page
<1>4. CASE T.dataKey # None /\ ~Has(T.acc, T.ms)
  <2>1. R = K
    BY <1>4 DEF SealDataKey
  <2> HIDE DEF K
  <2>2. QED BY <1>3, <1>4, <2>1 DEF SealedPage
<1>5. CASE T.dataKey # None /\ Has(T.acc, T.ms)
  <2>1. T.ms \in Users /\ T.ms # NoUser
    BY <1>5 DEF Has, Page, People
  <2>2. /\ <<T.dataKey, T.blob>> \in Sealed /\ <<k, T.dataKey>> \in Sealed
        /\ <<d, T.dataKey>> \in Sealed
    BY AccountsAssumption DEF Sealed, Slots, Page
  <2> DEFINE n == [K.acc[T.ms] EXCEPT !.master = <<k, T.dataKey>>, !.device = <<d, T.dataKey>>,
                                      !.sec = <<T.dataKey, T.blob>>, !.plain = None]
  <2>3. /\ n \in Entry /\ n.store = T.acc[T.ms].store /\ n.plain = None
        /\ n.sec = <<T.dataKey, T.blob>> /\ n.master = <<k, T.dataKey>>
        /\ n.device = <<d, T.dataKey>>
    BY <1>1, <1>3, <2>1, <2>2 DEF Page, Entry
  <2>4. R = WithEntry(K, T.ms, n)
    BY <1>5, <2>1 DEF SealDataKey, WithEntry
  <2>5. n.device # <<None, None>> /\ n.device[2] = T.dataKey
    BY <1>5, <2>3
  <2> HIDE DEF n, K
  <2>6. /\ OtherEntries(R, K) /\ R.acc[T.ms] = n
        /\ \A v \in Users : v # T.ms => R.acc[v] = K.acc[v]
    BY <1>3, <2>1, <2>3, <2>4, WithEntryFacts
  <2>7. QED BY <1>3, <1>5, <2>3, <2>5, <2>6 DEF SealedPage, OtherEntries
<1>6. QED BY <1>2, <1>4, <1>5

\* A step that changes no more of a page than its operations.
OnlyOps(R, T) ==
  /\ R.open = T.open /\ R.acc = T.acc /\ R.accs = T.accs /\ R.active = T.active
  /\ R.ms = T.ms /\ R.blob = T.blob /\ R.key = T.key /\ R.dataKey = T.dataKey
  /\ R.prompt = T.prompt /\ R.shown = T.shown /\ R.pending = T.pending /\ R.watch = T.watch

\* An operation is over.
LEMMA DropFacts ==
  ASSUME NEW T \in Page, NEW o, NEW R, R = Drop(T, o)
  PROVE  R \in Page /\ OnlyOps(R, T) /\ R.ops = T.ops \ {o}
<1>1. T.ops \ {o} \in SUBSET Op
  BY DEF Page
<1>2. QED BY <1>1 DEF Page, Drop, OnlyOps

\* An operation begins.
LEMMA BeginFacts ==
  ASSUME NEW T \in Page, NEW o \in Op, NEW R, R = Begin(T, o)
  PROVE  R \in Page /\ OnlyOps(R, T) /\ R.ops = T.ops \cup {o}
<1>1. T.ops \cup {o} \in SUBSET Op
  BY DEF Page
<1>2. QED BY <1>1 DEF Page, Begin, OnlyOps

\* An operation goes on to another step.
LEMMA AdvanceFacts ==
  ASSUME NEW T \in Page, NEW o \in Op,
         NEW s \in {"open", "sync", "history", "enable", "seal", "recover"},
         NEW n, n = [o EXCEPT !.step = s], NEW R, R = Advance(T, o, s)
  PROVE  /\ n \in Op /\ n.kind = o.kind /\ n.user = o.user /\ n.step = s
         /\ n.store = o.store /\ n.key = o.key /\ n.secret = o.secret
         /\ R \in Page /\ OnlyOps(R, T) /\ R.ops = (T.ops \ {o}) \cup {n}
<1>1. /\ n \in Op /\ n.kind = o.kind /\ n.user = o.user /\ n.step = s
      /\ n.store = o.store /\ n.key = o.key /\ n.secret = o.secret
  BY DEF Op
<1>2. (T.ops \ {o}) \cup {n} \in SUBSET Op
  BY <1>1 DEF Page
<1>3. QED BY <1>1, <1>2 DEF Page, Advance, OnlyOps

\* A step of the one tab: what is left to show is about that tab.
LEMMA Moved ==
  ASSUME OneTab, TypeOK, NEW t \in Tabs, NEW S \in Page, tab' = [tab EXCEPT ![t] = S]
  PROVE  tab' \in [Tabs -> Page] /\ tab'[t] = S /\ tab[t] \in Page /\ \A x \in Tabs : x = t
BY DEF OneTab, TypeOK

\* The types of what a step of an operation starts from.
LEMMA Here ==
  ASSUME TypeOK, NEW t \in Tabs
  PROVE  tab[t] \in Page /\ tab[t].ops \subseteq Op
BY DEF TypeOK, Page

-----------------------------------------------------------------------------
(* Stores and entries a step leaves alone. *)

\* A page with something under way or on its screen is open.
LEMMA OpenPage ==
  ASSUME TypeOK, StoreInv, NEW t \in Tabs,
         tab[t].ops # {} \/ tab[t].prompt # "none" \/ tab[t].ms # NoUser \/ tab[t].open
  PROVE  tab[t].open /\ tab[t].acc = pool
<1>1. PageInv(tab[t])
  BY DEF StoreInv
<1>2. CASE ~tab[t].open
  <2>1. tab[t] = [Closed EXCEPT !.active = tab[t].active]
    BY <1>1, <1>2 DEF PageInv
  <2>2. tab[t].ops = {} /\ tab[t].prompt = "none" /\ tab[t].ms = NoUser
    BY <2>1, EmptyTypes DEF Page
  <2>3. QED BY <1>2, <2>2
<1>3. QED BY <1>1, <1>2 DEF PageInv

\* A step that begins no login and no first restore, and leaves the stores of the
\* accounts.
Quiet(T, S) ==
  /\ T.open /\ S.open
  /\ \A u \in Users : S.acc[u].store = T.acc[u].store
  /\ \A o \in S.ops : /\ o.kind = "login" /\ o.step \in {"start", "sync"} => o \in T.ops
                      /\ ~(o.kind = "restore" /\ o.step = "start")
  /\ ActiveInv(S)

\* A step that keeps every store, queues none and begins no login.
LEMMA QuietStores ==
  ASSUME OneTab, TypeOK, StoreInv, NEW t \in Tabs, NEW S \in Page,
         tab' = [tab EXCEPT ![t] = S], pool' = S.acc, Quiet(tab[t], S),
         UNCHANGED <<queue, owner>>, stores \subseteq stores'
  PROVE  StoreInv'
<1>1. /\ tab'[t] = S /\ \A x \in Tabs : x = t
      /\ S.open /\ \A u \in Users : S.acc[u].store = pool[u].store
      /\ \A o \in S.ops : /\ o.kind = "login" /\ o.step \in {"start", "sync"} => o \in tab[t].ops
                          /\ ~(o.kind = "restore" /\ o.step = "start")
      /\ ActiveInv(S)
  BY Moved, OpenPage DEF Quiet
<1>2. (\A u \in Users : pool[u].store # None => Kept(pool[u].store, u))'
  BY <1>1 DEF StoreInv, Kept
<1>3. PageInv(tab[t])' /\ RestoreInv(tab[t])' /\ ActiveInv(tab[t])'
  BY <1>1 DEF PageInv, RestoreInv, ActiveInv
<1>4. LoginOps(S) \subseteq LoginOps(tab[t])
  BY <1>1 DEF LoginOps
<1>5. NewInv(tab[t])
  BY DEF StoreInv
<1>6. \A o \in LoginOps(S) : o \in Op
  BY DEF LoginOps, Page
<1>7. NewInv(tab[t])'
  <2>1. LoginOps(S) = LoginOps(tab'[t])
    BY <1>1 DEF LoginOps
  <2>2. QED BY <1>1, <1>4, <1>5, <1>6, <2>1 DEF NewInv
<1>8. QED BY <1>1, <1>2, <1>3, <1>7 DEF StoreInv

\* An entry a step does not touch.
LEMMA EntryStays ==
  ASSUME NEW u \in Users, EntryInv(u), pool'[u] = pool[u],
         worker'.session[u] \in {worker.session[u], None}, trusted \subseteq trusted',
         \A s \in Stores : owner[s] # NoUser => owner'[s] # NoUser,
         \A s \in Stores : Kept(s, u) => Kept(s, u)'
  PROVE  EntryInv(u)'
<1>1. Has(pool, u)' <=> Has(pool, u)
  BY DEF Has
<1>2. None \notin Stores
  BY AccountsAssumption DEF None, Stores
<1>3. QED BY <1>1, <1>2 DEF EntryInv, Kept, Encrypted, Wrapped

\* The surroundings do not change.
LEMMA EnvStays ==
  ASSUME UNCHANGED env
  PROVE  Oauth' = Oauth /\ Faults' = Faults /\ Calm' = Calm
BY DEF Oauth, Faults, Calm

\* While an operation is under way the page's first restore is over, or is that one.
LEMMA NoRestoreLeft ==
  ASSUME StoreInv, NEW t \in Tabs, NEW o \in tab[t].ops
  PROVE  \A p \in tab[t].ops \ {o} : ~(p.kind = "restore" /\ p.step = "start")
BY DEF StoreInv, RestoreInv

\* What a step that touches only the page has to show.
LEMMA KeepStep ==
  ASSUME OneTab, AllInv, UNCHANGED env, NEW t \in Tabs, NEW S \in Page, Keep(t, S),
         UNCHANGED <<devkey, devkeys, stores, queue, owner, secret, trusted, worker>>,
         S.acc = tab[t].acc, Quiet(tab[t], S),
         Oauth = Users => PlainPage(S),
         Oauth = {} /\ Calm => PasswordPage(S)
  PROVE  AllInv'
<1>1. TypeOK /\ StoreInv /\ tab' = [tab EXCEPT ![t] = S] /\ UNCHANGED pool
  BY DEF AllInv, Keep
<1>2. tab[t].open /\ tab[t].acc = pool /\ S.open
  BY <1>1, OpenPage DEF Quiet
<1>3. tab' \in [Tabs -> Page] /\ tab'[t] = S /\ \A x \in Tabs : x = t
  BY <1>1, Moved
<1>4. TypeOK'
  BY <1>1, <1>3 DEF TypeOK
<1>5. StoreInv'
  BY <1>1, <1>2, QuietStores
<1>6. Oauth = Users => PlainInv'
  <2> SUFFICES ASSUME Oauth = Users PROVE PlainInv'
    OBVIOUS
  <2>1. PlainInv
    BY DEF AllInv
  <2>2. QED BY <1>1, <1>3, <2>1 DEF PlainInv, PlainPage, Encrypted
<1>7. Oauth = {} /\ Calm => PasswordInv'
  <2> SUFFICES ASSUME Oauth = {}, Calm PROVE PasswordInv'
    OBVIOUS
  <2>1. PasswordInv /\ PasswordPage(S)
    BY DEF AllInv
  <2>2. \A u \in Users : EntryInv(u)'
    <3> TAKE u \in Users
    <3>1. EntryInv(u)
      BY <2>1 DEF PasswordInv
    <3>2. QED BY <1>1, <3>1 DEF EntryInv, Has, Kept, Encrypted, Wrapped
  <2>3. PasswordPage(tab[t])'
    <3>1. OpInv(tab[t])'
      BY <1>1, <1>3, <2>1 DEF PasswordPage, OpInv, InDevice, InRestore, InLogin, InHistory,
         InRecover, InUnlock, Live, Has, Wrapped, Encrypted
    <3>2. PromptInv(tab[t])'
      BY <1>1, <1>3, <2>1 DEF PasswordPage, PromptInv, PendingInv, Live, Has
    <3>3. "unsettled" \notin Faults => GateInv(tab[t])'
      BY <1>1, <1>3, <2>1 DEF PasswordPage, GateInv, LoginOps, Has
    <3>4. "first_sync" \notin Faults => OneStoreInv(tab[t])'
      BY <1>1, <1>3, <2>1 DEF PasswordPage, OneStoreInv, Has, Wrapped, Encrypted
    <3>5. Faults = {} => KeyInv(tab[t])'
      BY <1>1, <1>3, <2>1 DEF PasswordPage, KeyInv, Steered, Has, Wrapped, Encrypted
    <3>6. QED BY <3>1, <3>2, <3>3, <3>4, <3>5, EnvStays DEF PasswordPage
  <2>4. QED BY <1>1, <1>3, <2>1, <2>2, <2>3 DEF PasswordInv
<1>8. QED BY <1>4, <1>5, <1>6, <1>7, EnvStays DEF AllInv

\* What a step of an operation starts from.
LEMMA OpStart ==
  ASSUME AllInv, NEW t \in Tabs, NEW o \in tab[t].ops
  PROVE  /\ TypeOK /\ StoreInv /\ tab[t] \in Page /\ tab[t].ops \subseteq Op /\ o \in Op
         /\ o.user \in Users /\ tab[t].open /\ tab[t].acc = pool
         /\ \A p \in tab[t].ops \ {o} : ~(p.kind = "restore" /\ p.step = "start")
         /\ Oauth = Users => PlainPage(tab[t])
         /\ Oauth = {} /\ Calm =>
              /\ PasswordInv /\ PasswordPage(tab[t]) /\ tab[t].ops = {o}
              /\ EntryInv(o.user) /\ PromptInv(tab[t])
              /\ \/ InDevice(tab[t], o) \/ InRestore(tab[t], o) \/ InLogin(tab[t], o)
                 \/ InHistory(tab[t], o) \/ InRecover(tab[t], o) \/ InUnlock(tab[t], o)
<1>1. TypeOK /\ StoreInv
  BY DEF AllInv
<1>2. tab[t] \in Page /\ tab[t].ops \subseteq Op /\ o \in Op /\ tab[t].open /\ tab[t].acc = pool
  BY <1>1, Here, OpenPage
<1>3. o.user \in Users
  BY <1>2 DEF Op
<1>4. \A p \in tab[t].ops \ {o} : ~(p.kind = "restore" /\ p.step = "start")
  BY <1>1, NoRestoreLeft
<1>5. Oauth = Users => PlainPage(tab[t])
  BY DEF AllInv, PlainInv
<1>6. ASSUME Oauth = {}, Calm
      PROVE  /\ PasswordInv /\ PasswordPage(tab[t]) /\ tab[t].ops = {o}
             /\ EntryInv(o.user) /\ PromptInv(tab[t])
             /\ \/ InDevice(tab[t], o) \/ InRestore(tab[t], o) \/ InLogin(tab[t], o)
                \/ InHistory(tab[t], o) \/ InRecover(tab[t], o) \/ InUnlock(tab[t], o)
  <2>1. PasswordInv
    BY <1>6 DEF AllInv
  <2>2. PasswordPage(tab[t]) /\ EntryInv(o.user)
    BY <1>3, <2>1 DEF PasswordInv
  <2>3. QED BY <2>1, <2>2 DEF PasswordPage, OpInv
<1>7. QED BY <1>1, <1>2, <1>3, <1>4, <1>5, <1>6

\* A device key that does not open the account: the page asks for the secret.
LEMMA AskForSecret ==
  ASSUME OneTab, AllInv, UNCHANGED env, NEW t \in Tabs, NEW o \in tab[t].ops,
         o.kind = "device", NEW B \in Page, Keep(t, B),
         B.open, B.acc = pool, B.active = tab[t].active, B.ms = tab[t].ms,
         B.dataKey = tab[t].dataKey, B.prompt = "unlock", B.pending = pool[o.user],
         B.ops = tab[t].ops \ {o},
         UNCHANGED <<devkey, devkeys, stores, queue, owner, secret, trusted, worker>>
  PROVE  AllInv'
<1> DEFINE T == tab[t]
           e == T.acc[o.user]
<1>1. /\ TypeOK /\ StoreInv /\ T \in Page /\ T.ops \subseteq Op /\ o \in Op /\ o.user \in Users
      /\ T.open /\ T.acc = pool /\ \A p \in T.ops \ {o} : ~(p.kind = "restore" /\ p.step = "start")
  BY OpStart
<1>2. e \in Entry /\ e = pool[o.user]
  BY <1>1 DEF Page
<1>3. T.active \in Users
  BY <1>1 DEF StoreInv, ActiveInv
<1>4. Oauth # Users
  BY <1>1, OpStart DEF PlainPage
<1>5. Quiet(T, B)
  BY <1>1, <1>3 DEF Quiet, ActiveInv
<1>6. ASSUME Oauth = {}, Calm PROVE PasswordPage(B)
  <2>1. PasswordPage(T) /\ T.ops = {o} /\ InDevice(T, o)
    BY <1>1, <1>6, OpStart DEF InRestore, InLogin, InHistory, InRecover, InUnlock
  <2>2. B.ops = {}
    BY <2>1
  <2>3. OpInv(B) /\ GateInv(B)
    BY <2>2 DEF OpInv, GateInv
  <2>4. PromptInv(B)
    BY <1>1, <1>2, <2>1, <2>2 DEF PasswordPage, PromptInv, InDevice, PendingInv
  <2>5. "first_sync" \notin Faults => OneStoreInv(B)
    BY <1>1, <2>1, <2>2 DEF PasswordPage, OneStoreInv
  <2>6. Faults = {} => KeyInv(B)
    BY <1>1, <2>1, <2>2 DEF PasswordPage, KeyInv, Steered, InDevice
  <2>7. QED BY <2>3, <2>4, <2>5, <2>6 DEF PasswordPage
<1>7. QED BY <1>1, <1>4, <1>5, <1>6, KeepStep

\* The device key opens the entry's wrap, or the page asks for the secret.
LEMMA DeviceUnwrapKeeps ==
  ASSUME OneTab, AllInv, UNCHANGED env, NEW t \in Tabs, NEW o \in tab[t].ops, DeviceUnwrap(t, o)
  PROVE  AllInv'
<1> DEFINE T == tab[t]
           e == T.acc[o.user]
           n == [o EXCEPT !.step = "open", !.store = e.sec[2], !.key = e.device[2]]
           A == [T EXCEPT !.key = e.device[2], !.dataKey = e.device[2],
                          !.ops = (T.ops \ {o}) \cup {n}]
           B == [T EXCEPT !.ops = T.ops \ {o}, !.prompt = "unlock", !.pending = e]
<1>1. /\ TypeOK /\ StoreInv /\ T \in Page /\ T.ops \subseteq Op /\ o \in Op /\ o.user \in Users
      /\ T.open /\ T.acc = pool /\ o.kind = "device" /\ o.step = "start"
      /\ \A p \in T.ops \ {o} : ~(p.kind = "restore" /\ p.step = "start")
  BY OpStart DEF DeviceUnwrap
<1>2. e \in Entry /\ e = pool[o.user]
  BY <1>1 DEF Page
<1>3. e.sec[2] \in Slots /\ e.device[2] \in Slots
  BY <1>2 DEF Entry, Sealed
<1>4. UNCHANGED <<devkey, devkeys, stores, queue, owner, secret, trusted, worker>>
  BY DEF DeviceUnwrap
<1>5. \/ Keep(t, A) /\ Has(pool, o.user)
      \/ Keep(t, B)
  BY <1>1 DEF DeviceUnwrap, Drop
<1>6. n \in Op /\ n.kind = "device" /\ n.user = o.user /\ n.step = "open"
      /\ n.store = e.sec[2] /\ n.key = e.device[2]
  BY <1>1, <1>3 DEF Op
<1> HIDE DEF n
<1>7. /\ A \in Page /\ A.open /\ A.acc = pool /\ A.active = T.active /\ A.ms = T.ms
      /\ A.key = e.device[2] /\ A.dataKey = e.device[2] /\ A.prompt = T.prompt
      /\ A.ops = (T.ops \ {o}) \cup {n} /\ A.blob = T.blob
  BY <1>1, <1>3, <1>6 DEF Page
<1>8. /\ B \in Page /\ B.open /\ B.acc = pool /\ B.active = T.active /\ B.ms = T.ms
      /\ B.dataKey = T.dataKey /\ B.prompt = "unlock" /\ B.pending = e
      /\ B.ops = T.ops \ {o} /\ B.key = T.key /\ B.blob = T.blob
  BY <1>1, <1>2 DEF Page
<1> HIDE DEF A, B
<1>9. T.active \in Users
  BY <1>1 DEF StoreInv, ActiveInv
<1>10. Oauth # Users
  BY <1>1, OpStart DEF PlainPage
<1>11. ASSUME Oauth = {}, Calm
       PROVE  /\ PasswordInv /\ PasswordPage(T) /\ T.ops = {o} /\ InDevice(T, o)
              /\ EntryInv(o.user) /\ PromptInv(T)
  BY <1>1, <1>11, OpStart DEF InRestore, InLogin, InHistory, InRecover, InUnlock
<1>12. CASE Keep(t, A) /\ Has(pool, o.user)
  <2>1. Quiet(T, A)
    BY <1>1, <1>6, <1>7, <1>9 DEF Quiet, ActiveInv
  <2>2. ASSUME Oauth = {}, Calm PROVE PasswordPage(A)
    <3>1. /\ e.device[2] = e.master[2] /\ e.master[2] \in Stores /\ owner[e.master[2]] # NoUser
          /\ e.sec[1] = e.master[2]
      BY <1>2, <1>11, <2>2 DEF EntryInv, InDevice
    <3>2. A.ops = {n}
      BY <1>7, <1>11, <2>2
    <3>3. OpInv(A)
      BY <1>2, <1>6, <1>7, <1>11, <2>2, <3>1, <3>2 DEF OpInv, InDevice
    <3>4. PromptInv(A)
      BY <1>7, <1>11, <2>2, <3>1 DEF PromptInv, InDevice
    <3>5. GateInv(A)
      BY <1>7, <1>11, <2>2 DEF GateInv, InDevice
    <3>6. "first_sync" \notin Faults => OneStoreInv(A)
      BY <1>1, <1>6, <1>11, <2>2, <3>2 DEF PasswordPage, OneStoreInv
    <3>7. Faults = {} => KeyInv(A)
      BY <1>1, <1>6, <1>7, <1>11, <2>2, <3>2 DEF PasswordPage, KeyInv, Steered, InDevice
    <3>8. QED BY <3>3, <3>4, <3>5, <3>6, <3>7 DEF PasswordPage
  <2>3. QED BY <1>1, <1>4, <1>7, <1>10, <1>12, <2>1, <2>2, KeepStep
<1>13. CASE Keep(t, B)
  BY <1>1, <1>2, <1>4, <1>8, <1>13, AskForSecret
<1>14. QED BY <1>5, <1>12, <1>13

LEMMA DeviceFailedKeeps ==
  ASSUME OneTab, AllInv, UNCHANGED env, NEW t \in Tabs, NEW o \in tab[t].ops, DeviceFailed(t, o)
  PROVE  AllInv'
<1> DEFINE T == tab[t]
           e == T.acc[o.user]
           S == [T EXCEPT !.ops = T.ops \ {o}, !.prompt = "unlock", !.pending = e]
<1>1. o.kind = "device" /\ Keep(t, S)
      /\ UNCHANGED <<devkey, devkeys, stores, queue, owner, secret, trusted, worker>>
  BY DEF DeviceFailed, Drop
<1>2. T \in Page /\ T.open /\ T.acc = pool /\ e \in Entry
  BY OpStart DEF Page
<1>3. /\ S \in Page /\ S.open /\ S.acc = pool /\ S.active = T.active /\ S.ms = T.ms
      /\ S.dataKey = T.dataKey /\ S.prompt = "unlock" /\ S.pending = e
      /\ S.ops = T.ops \ {o}
  BY <1>2 DEF Page
<1> HIDE DEF S
<1>4. QED BY <1>1, <1>2, <1>3, AskForSecret

\* A restore that fails leaves the page without a session.
LEMMA RestoreFailedKeeps ==
  ASSUME OneTab, AllInv, UNCHANGED env, NEW t \in Tabs, NEW o \in tab[t].ops, RestoreFailed(t, o)
  PROVE  AllInv'
<1> DEFINE T == tab[t]
           S == Drop(T, o)
<1>1. /\ T \in Page /\ T.ops \subseteq Op /\ o \in Op /\ o.user \in Users /\ T.open
      /\ T.acc = pool /\ \A p \in T.ops \ {o} : ~(p.kind = "restore" /\ p.step = "start")
      /\ ActiveInv(T)
  BY OpStart DEF StoreInv
<1>2. /\ o.kind \in {"restore", "switch"} /\ o.step = "start" /\ Keep(t, S)
      /\ UNCHANGED <<devkey, devkeys, stores, queue, owner, secret, trusted, worker>>
  BY DEF RestoreFailed
<1> HIDE DEF S
<1>3. S \in Page /\ OnlyOps(S, T) /\ S.ops = T.ops \ {o}
  BY <1>1, DropFacts DEF S
<1>4. /\ S.open = T.open /\ S.acc = T.acc /\ S.active = T.active /\ S.ms = T.ms
      /\ S.blob = T.blob /\ S.key = T.key /\ S.dataKey = T.dataKey /\ S.prompt = T.prompt
      /\ S.shown = T.shown /\ S.pending = T.pending /\ S.ops = T.ops \ {o}
  BY <1>3 DEF OnlyOps
<1>5. Quiet(T, S)
  BY <1>1, <1>4 DEF Quiet, ActiveInv
<1>6. Oauth = Users => PlainPage(S)
  BY <1>4, OpStart DEF PlainPage
<1>7. ASSUME Oauth = {}, Calm PROVE PasswordPage(S)
  <2>1. PasswordPage(T) /\ T.ops = {o} /\ InRestore(T, o)
    BY <1>2, <1>7, OpStart DEF InDevice, InHistory, InLogin, InRecover, InUnlock
  <2>2. S.ops = {} /\ S.ms = NoUser /\ T.prompt = "none"
    BY <1>4, <2>1 DEF InRestore
  <2>3. OpInv(S) /\ PromptInv(S) /\ GateInv(S)
    BY <1>4, <2>1, <2>2 DEF PasswordPage, OpInv, PromptInv, GateInv
  <2>4. "first_sync" \notin Faults => OneStoreInv(S)
    BY <1>2, <2>1 DEF PasswordPage, OneStoreInv
  <2>5. Faults = {} => KeyInv(S)
    BY <1>2, <1>4, <2>1, <2>2, AccountsAssumption DEF PasswordPage, KeyInv, Steered
  <2>6. QED BY <2>3, <2>4, <2>5 DEF PasswordPage
<1>8. QED BY <1>2, <1>3, <1>4, <1>5, <1>6, <1>7, KeepStep

\* A sign-in that fails leaves the page as it was before it.
LEMMA SignInFailedKeeps ==
  ASSUME OneTab, AllInv, UNCHANGED env, NEW t \in Tabs, NEW o \in tab[t].ops, SignInFailed(t, o)
  PROVE  AllInv'
<1> DEFINE T == tab[t]
           S == Drop(T, o)
<1>1. /\ T \in Page /\ T.ops \subseteq Op /\ o \in Op /\ o.user \in Users /\ T.open
      /\ T.acc = pool /\ \A p \in T.ops \ {o} : ~(p.kind = "restore" /\ p.step = "start")
      /\ ActiveInv(T)
  BY OpStart DEF StoreInv
<1>2. /\ o.kind = "login" /\ Keep(t, S)
      /\ o.step = "start" \/ (o.step = "sync" /\ "first_sync" \in Faults)
      /\ UNCHANGED <<devkey, devkeys, stores, queue, owner, secret, trusted, worker>>
  BY DEF SignInFailed
<1> HIDE DEF S
<1>3. S \in Page /\ OnlyOps(S, T) /\ S.ops = T.ops \ {o}
  BY <1>1, DropFacts DEF S
<1>4. /\ S.open = T.open /\ S.acc = T.acc /\ S.active = T.active /\ S.ms = T.ms
      /\ S.blob = T.blob /\ S.key = T.key /\ S.dataKey = T.dataKey /\ S.prompt = T.prompt
      /\ S.shown = T.shown /\ S.pending = T.pending /\ S.ops = T.ops \ {o}
  BY <1>3 DEF OnlyOps
<1>5. Quiet(T, S)
  BY <1>1, <1>4 DEF Quiet, ActiveInv
<1>6. Oauth = Users => PlainPage(S)
  BY <1>4, OpStart DEF PlainPage
<1>7. ASSUME Oauth = {}, Calm PROVE PasswordPage(S)
  <2>1. PasswordPage(T) /\ T.ops = {o} /\ InLogin(T, o)
    BY <1>2, <1>7, OpStart DEF InDevice, InHistory, InRestore, InRecover, InUnlock
  <2>2. S.ops = {} /\ T.prompt = "none" /\ T.ops \subseteq LoginOps(T)
    BY <1>2, <1>4, <2>1 DEF InLogin, LoginOps
  <2>3. OpInv(S) /\ PromptInv(S)
    BY <1>4, <2>1, <2>2 DEF PasswordPage, OpInv, PromptInv
  <2>4. "unsettled" \notin Faults => GateInv(S)
    BY <1>4, <2>1, <2>2 DEF PasswordPage, GateInv
  <2>5. "first_sync" \notin Faults => OneStoreInv(S)
    BY <1>2, <2>1 DEF PasswordPage, OneStoreInv
  <2>6. Faults = {} => KeyInv(S)
    BY <1>2, <1>4, <2>1, <2>2 DEF PasswordPage, KeyInv, Steered
  <2>7. QED BY <2>3, <2>4, <2>5, <2>6 DEF PasswordPage
<1>8. QED BY <1>2, <1>3, <1>4, <1>5, <1>6, <1>7, KeepStep

\* ensureHistoryAccess ends with a session that reads, goes on to enable recovery, or
\* raises the gate.
LEMMA EnsureHistoryAccessKeeps ==
  ASSUME OneTab, AllInv, UNCHANGED env, NEW t \in Tabs, NEW o \in tab[t].ops,
         EnsureHistoryAccess(t, o)
  PROVE  AllInv'
<1> DEFINE T == tab[t]
           D == Drop(T, o)
           n == [o EXCEPT !.step = "enable"]
           A == Advance(T, o, "enable")
           V == [D EXCEPT !.prompt = "verify"]
           s == worker.session[o.user]
<1>1. /\ T \in Page /\ T.ops \subseteq Op /\ o \in Op /\ o.user \in Users /\ T.open
      /\ T.acc = pool /\ \A p \in T.ops \ {o} : ~(p.kind = "restore" /\ p.step = "start")
      /\ ActiveInv(T)
  BY OpStart DEF StoreInv
<1>2. /\ o.step = "history"
      /\ UNCHANGED <<devkey, devkeys, stores, queue, owner, secret, trusted, worker>>
      /\ \/ "unsettled" \in Faults /\ Keep(t, D)
         \/ Keep(t, A)
         \/ s \in trusted /\ Keep(t, D)
         \/ Keep(t, V)
  BY DEF EnsureHistoryAccess
<1> HIDE DEF D, A, n
<1>3. /\ D \in Page /\ OnlyOps(D, T) /\ D.ops = T.ops \ {o}
      /\ n \in Op /\ n.kind = o.kind /\ n.user = o.user /\ n.step = "enable"
      /\ A \in Page /\ OnlyOps(A, T) /\ A.ops = (T.ops \ {o}) \cup {n}
  BY <1>1, DropFacts, AdvanceFacts DEF D, A, n
<1>4. /\ D.open = T.open /\ D.acc = T.acc /\ D.active = T.active /\ D.ms = T.ms
      /\ D.blob = T.blob /\ D.key = T.key /\ D.dataKey = T.dataKey /\ D.prompt = T.prompt
      /\ D.shown = T.shown /\ D.pending = T.pending /\ D.ops = T.ops \ {o}
  BY <1>3 DEF OnlyOps
<1>5. /\ A.open = T.open /\ A.acc = T.acc /\ A.active = T.active /\ A.ms = T.ms
      /\ A.blob = T.blob /\ A.key = T.key /\ A.dataKey = T.dataKey /\ A.prompt = T.prompt
      /\ A.shown = T.shown /\ A.pending = T.pending /\ A.ops = (T.ops \ {o}) \cup {n}
  BY <1>3 DEF OnlyOps
<1>6. /\ V \in Page
      /\ V.open = T.open /\ V.acc = T.acc /\ V.active = T.active /\ V.ms = T.ms
      /\ V.blob = T.blob /\ V.key = T.key /\ V.dataKey = T.dataKey /\ V.prompt = "verify"
      /\ V.shown = T.shown /\ V.pending = T.pending /\ V.ops = T.ops \ {o}
  BY <1>3, <1>4 DEF Page
<1> HIDE DEF V
<1>7. Quiet(T, D) /\ Quiet(T, A) /\ Quiet(T, V)
  BY <1>1, <1>3, <1>4, <1>5, <1>6 DEF Quiet, ActiveInv
<1>8. Oauth = Users => PlainPage(D) /\ PlainPage(A) /\ PlainPage(V)
  BY <1>3, <1>4, <1>5, <1>6, OpStart DEF PlainPage
<1>9. ASSUME Oauth = {}, Calm
      PROVE  /\ "unsettled" \in Faults \/ s \in trusted => PasswordPage(D)
             /\ PasswordPage(A) /\ PasswordPage(V)
  <2>1. PasswordPage(T) /\ T.ops = {o} /\ InHistory(T, o)
    BY <1>2, <1>9, OpStart DEF InDevice, InLogin, InRestore, InRecover, InUnlock
  <2>2. D.ops = {} /\ V.ops = {} /\ A.ops = {n} /\ T.prompt = "none" /\ Live(T, o.user)
        /\ T.ms = o.user /\ T.blob = s
    BY <1>4, <1>5, <1>6, <2>1 DEF InHistory, Live
  <2>3. OpInv(D) /\ OpInv(A) /\ OpInv(V)
    BY <1>2, <1>3, <1>5, <2>1, <2>2 DEF OpInv, InHistory, Live
  <2>4. PromptInv(D) /\ PromptInv(A) /\ PromptInv(V)
    BY <1>4, <1>5, <1>6, <2>1, <2>2 DEF PasswordPage, PromptInv, Live
  <2>5. /\ s \in trusted => GateInv(D)
        /\ GateInv(A) /\ GateInv(V)
    BY <1>3, <1>4, <1>5, <1>6, <2>2 DEF GateInv, LoginOps
  <2>6. "first_sync" \notin Faults => OneStoreInv(D) /\ OneStoreInv(A) /\ OneStoreInv(V)
    BY <1>2, <1>3, <2>1, <2>2 DEF PasswordPage, OneStoreInv
  <2>7. Faults = {} =>
          /\ o.kind = "login" /\ T.blob \notin trusted /\ T.dataKey = T.blob
          /\ KeyInv(A) /\ KeyInv(V)
    <3> SUFFICES ASSUME Faults = {}
                 PROVE  /\ o.kind = "login" /\ T.blob \notin trusted /\ T.dataKey = T.blob
                        /\ KeyInv(A) /\ KeyInv(V)
      OBVIOUS
    <3>1. KeyInv(T) /\ Steered(T)
      BY <1>2, <2>1 DEF PasswordPage, Steered
    <3>2. o.kind = "login" /\ T.blob \notin trusted /\ T.dataKey = T.blob
      BY <1>2, <2>1, <3>1 DEF KeyInv, InHistory
    <3>3. Steered(A) /\ Steered(V)
      BY <1>3, <1>6, <2>2 DEF Steered
    <3>4. KeyInv(A)
      BY <1>2, <1>3, <1>5, <2>1, <2>2, <3>1, <3>2, <3>3 DEF KeyInv
    <3>5. KeyInv(V)
      BY <1>2, <1>6, <2>1, <2>2, <3>1, <3>2, <3>3 DEF KeyInv
    <3>6. QED BY <3>2, <3>4, <3>5
  <2>8. QED BY <2>2, <2>3, <2>4, <2>5, <2>6, <2>7 DEF PasswordPage
<1>10. CASE ("unsettled" \in Faults \/ s \in trusted) /\ Keep(t, D)
  BY <1>2, <1>3, <1>4, <1>7, <1>8, <1>9, <1>10, KeepStep
<1>11. CASE Keep(t, A)
  BY <1>2, <1>3, <1>5, <1>7, <1>8, <1>9, <1>11, KeepStep
<1>12. CASE Keep(t, V)
  BY <1>2, <1>6, <1>7, <1>8, <1>9, <1>12, KeepStep
<1>13. QED BY <1>2, <1>10, <1>11, <1>12

\* Recovery that cannot be set up ends on a blocking error.
LEMMA BootstrapFailedKeeps ==
  ASSUME OneTab, AllInv, UNCHANGED env, NEW t \in Tabs, NEW o \in tab[t].ops,
         BootstrapFailed(t, o)
  PROVE  AllInv'
<1> DEFINE T == tab[t]
           D == Drop(T, o)
           S == [D EXCEPT !.prompt = "error"]
<1>1. /\ T \in Page /\ T.ops \subseteq Op /\ o \in Op /\ o.user \in Users /\ T.open
      /\ T.acc = pool /\ \A p \in T.ops \ {o} : ~(p.kind = "restore" /\ p.step = "start")
      /\ ActiveInv(T)
  BY OpStart DEF StoreInv
<1>2. /\ o.step = "enable" /\ Keep(t, S)
      /\ UNCHANGED <<devkey, devkeys, stores, queue, owner, secret, trusted, worker>>
  BY DEF BootstrapFailed
<1> HIDE DEF D
<1>3. D \in Page /\ OnlyOps(D, T) /\ D.ops = T.ops \ {o}
  BY <1>1, DropFacts DEF D
<1>4. /\ S \in Page
      /\ S.open = T.open /\ S.acc = T.acc /\ S.active = T.active /\ S.ms = T.ms
      /\ S.blob = T.blob /\ S.key = T.key /\ S.dataKey = T.dataKey /\ S.prompt = "error"
      /\ S.shown = T.shown /\ S.pending = T.pending /\ S.ops = T.ops \ {o}
  BY <1>3 DEF Page, OnlyOps
<1> HIDE DEF S
<1>5. Quiet(T, S)
  BY <1>1, <1>4 DEF Quiet, ActiveInv
<1>6. Oauth = Users => PlainPage(S)
  BY <1>4, OpStart DEF PlainPage
<1>7. ASSUME Oauth = {}, Calm PROVE PasswordPage(S)
  <2>1. PasswordPage(T) /\ T.ops = {o} /\ InHistory(T, o)
    BY <1>2, <1>7, OpStart DEF InDevice, InLogin, InRestore, InRecover, InUnlock
  <2>2. S.ops = {} /\ T.prompt = "none" /\ Live(T, o.user) /\ T.ms = o.user
    BY <1>4, <2>1 DEF InHistory, Live
  <2>3. OpInv(S) /\ GateInv(S)
    BY <1>4, <2>2 DEF OpInv, GateInv
  <2>4. PromptInv(S)
    BY <1>4, <2>1, <2>2 DEF PasswordPage, PromptInv, Live
  <2>5. "first_sync" \notin Faults => OneStoreInv(S)
    BY <1>2, <2>1 DEF PasswordPage, OneStoreInv
  <2>6. Faults = {} => KeyInv(S)
    BY <1>2, <1>4, <2>1, <2>2 DEF PasswordPage, KeyInv, Steered
  <2>7. QED BY <2>3, <2>4, <2>5, <2>6 DEF PasswordPage
<1>8. QED BY <1>2, <1>4, <1>5, <1>6, <1>7, KeepStep

\* A step of the user starts from the screen and from what is under way.
LEMMA UserStart ==
  ASSUME AllInv, NEW t \in Tabs,
         tab[t].open \/ tab[t].prompt # "none" \/ tab[t].ms # NoUser \/ tab[t].ops # {}
  PROVE  /\ TypeOK /\ StoreInv /\ tab[t] \in Page /\ tab[t].ops \subseteq Op
         /\ tab[t].open /\ tab[t].acc = pool /\ ActiveInv(tab[t])
         /\ tab[t].ops = {} \/ tab[t].prompt # "none" \/ tab[t].ms # NoUser =>
              \A p \in tab[t].ops : ~(p.kind = "restore" /\ p.step = "start")
         /\ Oauth = Users => PlainPage(tab[t])
         /\ Oauth = {} /\ Calm =>
              /\ PasswordInv /\ PasswordPage(tab[t]) /\ PromptInv(tab[t])
              /\ Room(tab[t]) => tab[t].ops = {}
<1>1. TypeOK /\ StoreInv /\ ActiveInv(tab[t]) /\ RestoreInv(tab[t])
  BY DEF AllInv, StoreInv
<1>2. tab[t] \in Page /\ tab[t].ops \subseteq Op /\ tab[t].open /\ tab[t].acc = pool
  BY <1>1, Here, OpenPage
<1>3. tab[t].ops = {} \/ tab[t].prompt # "none" \/ tab[t].ms # NoUser =>
        \A p \in tab[t].ops : ~(p.kind = "restore" /\ p.step = "start")
  BY <1>1 DEF RestoreInv
<1>4. Oauth = Users => PlainPage(tab[t])
  BY DEF AllInv, PlainInv
<1>5. Oauth = {} /\ Calm =>
        /\ PasswordInv /\ PasswordPage(tab[t]) /\ PromptInv(tab[t])
        /\ Room(tab[t]) => tab[t].ops = {}
  BY DEF AllInv, PasswordInv, PasswordPage, Room, Calm
<1>6. QED BY <1>1, <1>2, <1>3, <1>4, <1>5

LEMMA RetryRecoverySetupKeeps ==
  ASSUME OneTab, AllInv, UNCHANGED env, NEW t \in Tabs, RetryRecoverySetup(t)
  PROVE  AllInv'
<1> DEFINE T == tab[t]
           n == [kind |-> "login", user |-> T.ms, step |-> "enable",
                 store |-> None, key |-> None, secret |-> None]
           B == Begin(T, n)
           S == [B EXCEPT !.prompt = "none"]
<1>1. /\ T.prompt = "error" /\ T.ms # NoUser /\ Room(T) /\ Keep(t, S)
      /\ UNCHANGED <<devkey, devkeys, stores, queue, owner, secret, trusted, worker>>
  BY DEF RetryRecoverySetup
<1>2. /\ T \in Page /\ T.ops \subseteq Op /\ T.open
      /\ T.acc = pool /\ \A p \in T.ops : ~(p.kind = "restore" /\ p.step = "start")
      /\ ActiveInv(T)
  BY <1>1, UserStart
<1>3. n \in Op /\ n.kind = "login" /\ n.step = "enable" /\ n.user = T.ms
  BY <1>1, <1>2, AccountsAssumption DEF Op, Page, People, None, Slots
<1> HIDE DEF B, n
<1>4. B \in Page /\ OnlyOps(B, T) /\ B.ops = T.ops \cup {n}
  BY <1>2, <1>3, BeginFacts DEF B
<1>5. /\ S \in Page
      /\ S.open = T.open /\ S.acc = T.acc /\ S.active = T.active /\ S.ms = T.ms
      /\ S.blob = T.blob /\ S.key = T.key /\ S.dataKey = T.dataKey /\ S.prompt = "none"
      /\ S.shown = T.shown /\ S.pending = T.pending /\ S.ops = T.ops \cup {n}
  BY <1>4 DEF Page, OnlyOps
<1> HIDE DEF S
<1>6. Quiet(T, S)
  BY <1>2, <1>3, <1>5 DEF Quiet, ActiveInv
<1>7. Oauth = Users => PlainPage(S)
  BY <1>1, <1>3, <1>5, UserStart DEF PlainPage
<1>8. ASSUME Oauth = {}, Calm PROVE PasswordPage(S)
  <2>1. PasswordPage(T) /\ PromptInv(T) /\ T.ops = {}
    BY <1>1, <1>8, UserStart
  <2>2. S.ops = {n} /\ Live(T, T.ms)
    BY <1>1, <1>5, <2>1 DEF PromptInv
  <2>3. OpInv(S)
    BY <1>3, <1>5, <2>2 DEF OpInv, InHistory, Live
  <2>4. PromptInv(S)
    BY <1>5, <2>1 DEF PromptInv
  <2>5. GateInv(S)
    BY <1>3, <1>5, <2>2 DEF GateInv, LoginOps
  <2>6. "first_sync" \notin Faults => OneStoreInv(S)
    BY <2>1 DEF PasswordPage, OneStoreInv
  <2>7. Faults = {} => KeyInv(S)
    BY <1>1, <1>3, <1>5, <2>1, <2>2 DEF PasswordPage, KeyInv, Steered
  <2>8. QED BY <2>3, <2>4, <2>5, <2>6, <2>7 DEF PasswordPage
<1>9. QED BY <1>1, <1>5, <1>6, <1>7, <1>8, KeepStep

\* An unlock that fails leaves the gate up.
LEMMA UnlockFailedKeeps ==
  ASSUME OneTab, AllInv, UNCHANGED env, NEW t \in Tabs, NEW o \in tab[t].ops, UnlockFailed(t, o)
  PROVE  AllInv'
<1> DEFINE T == tab[t]
           S == Drop(T, o)
<1>1. /\ T \in Page /\ T.ops \subseteq Op /\ o \in Op /\ o.user \in Users /\ T.open
      /\ T.acc = pool /\ \A p \in T.ops \ {o} : ~(p.kind = "restore" /\ p.step = "start")
      /\ ActiveInv(T)
  BY OpStart DEF StoreInv
<1>2. /\ o.kind = "unlock" /\ Keep(t, S)
      /\ UNCHANGED <<devkey, devkeys, stores, queue, owner, secret, trusted, worker>>
  BY DEF UnlockFailed
<1> HIDE DEF S
<1>3. S \in Page /\ OnlyOps(S, T) /\ S.ops = T.ops \ {o}
  BY <1>1, DropFacts DEF S
<1>4. /\ S.open = T.open /\ S.acc = T.acc /\ S.active = T.active /\ S.ms = T.ms
      /\ S.blob = T.blob /\ S.key = T.key /\ S.dataKey = T.dataKey /\ S.prompt = T.prompt
      /\ S.shown = T.shown /\ S.pending = T.pending /\ S.ops = T.ops \ {o}
  BY <1>3 DEF OnlyOps
<1>5. Quiet(T, S)
  BY <1>1, <1>4 DEF Quiet, ActiveInv
<1>6. Oauth = Users => PlainPage(S)
  BY <1>4, OpStart DEF PlainPage
<1>7. ASSUME Oauth = {}, Calm PROVE PasswordPage(S)
  <2>1. PasswordPage(T) /\ T.ops = {o} /\ InUnlock(T, o)
    BY <1>2, <1>7, OpStart DEF InDevice, InHistory, InLogin, InRestore, InRecover
  <2>2. S.ops = {} /\ T.prompt = "unlock"
    BY <1>4, <2>1 DEF InUnlock
  <2>3. OpInv(S) /\ GateInv(S)
    BY <1>4, <2>2 DEF OpInv, GateInv
  <2>4. PromptInv(S)
    BY <1>4, <2>1, <2>2 DEF PasswordPage, PromptInv, PendingInv
  <2>5. "first_sync" \notin Faults => OneStoreInv(S)
    BY <1>2, <2>1, <2>2 DEF PasswordPage, OneStoreInv
  <2>6. Faults = {} => KeyInv(S)
    BY <1>2, <1>4, <2>1, <2>2 DEF PasswordPage, KeyInv, Steered, InUnlock
  <2>7. QED BY <2>3, <2>4, <2>5, <2>6 DEF PasswordPage
<1>8. QED BY <1>2, <1>3, <1>5, <1>6, <1>7, <1>4, KeepStep

\* A secret that opens the entry's wrap starts the restore of its session.
LEMMA UnlockKeeps ==
  ASSUME OneTab, AllInv, UNCHANGED env, NEW t \in Tabs, NEW k \in 1..MaxSecret, Unlock(t, k)
  PROVE  AllInv'
<1> DEFINE T == tab[t]
           e == T.pending
           n == [kind |-> "unlock", user |-> T.active, step |-> "open",
                 store |-> e.sec[2], key |-> e.master[2], secret |-> k]
           B == Begin(T, n)
           A == [B EXCEPT !.key = e.master[2], !.dataKey = e.master[2]]
           W == [T EXCEPT !.dataKey = e.master[2]]
<1>1. /\ T.prompt = "unlock" /\ e.master[1] = k /\ k # None /\ Room(T)
      /\ \/ e.sec[1] = e.master[2] /\ Keep(t, A)
         \/ e.sec[1] # e.master[2] /\ Keep(t, W)
      /\ UNCHANGED <<devkey, devkeys, stores, queue, owner, secret, trusted, worker>>
  BY DEF Unlock
<1>2. /\ TypeOK /\ StoreInv /\ T \in Page /\ T.ops \subseteq Op /\ T.open
      /\ T.acc = pool /\ \A p \in T.ops : ~(p.kind = "restore" /\ p.step = "start")
      /\ T.active \in Users
  BY <1>1, UserStart DEF ActiveInv
<1>3. e.sec[2] \in Slots /\ e.master[2] \in Slots /\ k \in Nat
  BY <1>2, AccountsAssumption DEF Page, Entry, Sealed
<1>4. n \in Op /\ n.kind = "unlock" /\ n.step = "open" /\ n.user = T.active
      /\ n.store = e.sec[2] /\ n.key = e.master[2]
  BY <1>2, <1>3 DEF Op
<1> HIDE DEF B, n
<1>5. B \in Page /\ OnlyOps(B, T) /\ B.ops = T.ops \cup {n}
  BY <1>2, <1>4, BeginFacts DEF B
<1>6. /\ A \in Page
      /\ A.open = T.open /\ A.acc = T.acc /\ A.active = T.active /\ A.ms = T.ms
      /\ A.blob = T.blob /\ A.key = e.master[2] /\ A.dataKey = e.master[2]
      /\ A.prompt = "unlock"
      /\ A.shown = T.shown /\ A.pending = T.pending /\ A.ops = T.ops \cup {n}
  BY <1>1, <1>3, <1>5 DEF Page, OnlyOps
<1>7. /\ W \in Page
      /\ W.open = T.open /\ W.acc = T.acc /\ W.active = T.active /\ W.ops = T.ops
  BY <1>2, <1>3 DEF Page
<1> HIDE DEF A, W
<1>8. Oauth # Users
  BY <1>1, UserStart DEF PlainPage
<1>9. ASSUME Oauth = {}, Calm
      PROVE  /\ PasswordPage(T) /\ PromptInv(T) /\ T.ops = {} /\ PendingInv(T)
             /\ Wrapped(pool[T.active]) /\ pool[T.active].sec[1] = pool[T.active].master[2]
             /\ pool[T.active].master[2] \in Stores
             /\ owner[pool[T.active].master[2]] # NoUser
  <2>1. PasswordInv /\ PasswordPage(T) /\ PromptInv(T) /\ T.ops = {}
    BY <1>1, <1>9, UserStart
  <2>2. PendingInv(T) /\ EntryInv(T.active)
    BY <1>1, <1>2, <2>1 DEF PromptInv, PasswordInv
  <2>3. pool[T.active].master # <<None, None>>
    BY <1>1, <2>2 DEF PendingInv
  <2>4. QED BY <2>1, <2>2, <2>3 DEF PendingInv, EntryInv
<1>10. CASE e.sec[1] = e.master[2] /\ Keep(t, A)
  <2>1. Quiet(T, A)
    BY <1>2, <1>4, <1>6 DEF Quiet, ActiveInv
  <2>2. ASSUME Oauth = {}, Calm PROVE PasswordPage(A)
    <3>1. A.ops = {n} /\ T.prompt = "unlock"
      BY <1>1, <1>6, <1>9, <2>2
    <3>2. OpInv(A)
      BY <1>4, <1>6, <1>9, <2>2, <3>1 DEF OpInv, InUnlock, PendingInv
    <3>3. PromptInv(A)
      BY <1>6, <1>9, <2>2 DEF PromptInv, PendingInv
    <3>4. GateInv(A)
      BY <1>6 DEF GateInv
    <3>5. "first_sync" \notin Faults => OneStoreInv(A)
      BY <1>9, <2>2 DEF PasswordPage, OneStoreInv
    <3>6. Faults = {} => KeyInv(A)
      BY <1>4, <1>6, <1>9, <2>2, <3>1 DEF PasswordPage, KeyInv, Steered
    <3>7. QED BY <3>2, <3>3, <3>4, <3>5, <3>6 DEF PasswordPage
  <2>3. QED BY <1>1, <1>2, <1>6, <1>8, <1>10, <2>1, <2>2, KeepStep
<1>11. CASE e.sec[1] # e.master[2] /\ Keep(t, W)
  <2>1. Quiet(T, W)
    BY <1>2, <1>7 DEF Quiet, ActiveInv
  <2>2. ~(Oauth = {} /\ Calm)
    BY <1>9, <1>11 DEF PendingInv
  <2>3. QED BY <1>1, <1>2, <1>7, <1>8, <1>11, <2>1, <2>2, KeepStep
<1>12. QED BY <1>1, <1>10, <1>11

\* Switching drops the session and locks or restores the other account.
LEMMA SwitchAccountKeeps ==
  ASSUME OneTab, "interrupted" \notin Faults, AllInv, UNCHANGED env, NEW t \in Tabs,
         NEW u \in Users, SwitchAccount(t, u), tab[t].open, tab[t].prompt = "none"
  PROVE  AllInv'
<1> DEFINE T == tab[t]
           e == T.acc[u]
           S == [T EXCEPT !.ms = NoUser, !.blob = None, !.active = u]
           n == [kind |-> "switch", user |-> u, step |-> "start",
                 store |-> e.plain, key |-> None, secret |-> None]
           L == [S EXCEPT !.prompt = "unlock", !.pending = e]
           B == Begin(S, n)
<1>1. /\ T.ops = {} /\ Has(T.acc, u)
      /\ \/ Encrypted(e) /\ Keep(t, L)
         \/ ~Encrypted(e) /\ Keep(t, B)
      /\ UNCHANGED <<devkey, devkeys, stores, queue, owner, secret, trusted, worker>>
  BY DEF SwitchAccount, Leavable
<1>2. /\ T \in Page /\ T.acc = pool /\ ActiveInv(T)
  BY <1>1, UserStart
<1>3. None \in Slots /\ None \in Nat /\ e \in Entry /\ e.plain \in Slots
  BY <1>2, AccountsAssumption DEF Page, Entry, None, Slots
<1>4. n \in Op /\ n.kind = "switch" /\ n.step = "start" /\ n.user = u /\ n.store = e.plain
  BY <1>3 DEF Op
<1>5. /\ S \in Page
      /\ S.open = T.open /\ S.acc = T.acc /\ S.active = u /\ S.ms = NoUser
      /\ S.key = T.key /\ S.dataKey = T.dataKey /\ S.prompt = "none" /\ S.ops = {}
  BY <1>1, <1>2, <1>3 DEF Page, People
<1> HIDE DEF S, n
<1>6. /\ L \in Page
      /\ L.open = T.open /\ L.acc = T.acc /\ L.active = u /\ L.ms = NoUser
      /\ L.key = T.key /\ L.dataKey = T.dataKey /\ L.prompt = "unlock" /\ L.ops = {}
      /\ L.pending = e
  BY <1>3, <1>5 DEF Page
<1> HIDE DEF L, B
<1>7. B \in Page /\ OnlyOps(B, S) /\ B.ops = {n}
  BY <1>4, <1>5, BeginFacts DEF B
<1>8. /\ B \in Page
      /\ B.open = T.open /\ B.acc = T.acc /\ B.active = u /\ B.ms = NoUser
      /\ B.key = T.key /\ B.dataKey = T.dataKey /\ B.prompt = "none" /\ B.ops = {n}
  BY <1>5, <1>7 DEF OnlyOps
<1>9. Quiet(T, L) /\ Quiet(T, B)
  BY <1>4, <1>6, <1>8 DEF Quiet, ActiveInv
<1>10. Oauth = Users => PlainPage(B) /\ ~Encrypted(e)
  BY <1>2, <1>4, <1>8, UserStart DEF PlainPage, AllInv, PlainInv
<1>11. ASSUME Oauth = {}, Calm
       PROVE  /\ Encrypted(e) => PasswordPage(L)
              /\ ~Encrypted(e) => PasswordPage(B)
  <2>1. PasswordPage(T) /\ PromptInv(T)
    BY <1>11, UserStart
  <2>2. OpInv(L) /\ (~Encrypted(e) => OpInv(B))
    BY <1>1, <1>2, <1>4, <1>6, <1>8 DEF OpInv, InRestore
  <2>3. PromptInv(L) /\ PromptInv(B)
    BY <1>1, <1>2, <1>6, <1>8, <2>1 DEF PromptInv, PendingInv
  <2>4. GateInv(L) /\ GateInv(B)
    BY <1>6, <1>8 DEF GateInv
  <2>5. "first_sync" \notin Faults => OneStoreInv(L) /\ OneStoreInv(B)
    BY <1>1, <2>1 DEF PasswordPage, OneStoreInv
  <2>6. Faults = {} => KeyInv(L) /\ KeyInv(B)
    BY <1>1, <1>4, <1>6, <1>8, <2>1 DEF PasswordPage, KeyInv, Steered
  <2>7. QED BY <2>2, <2>3, <2>4, <2>5, <2>6 DEF PasswordPage
<1>12. CASE Encrypted(e) /\ Keep(t, L)
  BY <1>1, <1>6, <1>9, <1>10, <1>11, <1>12, KeepStep
<1>13. CASE ~Encrypted(e) /\ Keep(t, B)
  BY <1>1, <1>8, <1>9, <1>10, <1>11, <1>13, KeepStep
<1>14. QED BY <1>1, <1>12, <1>13

\* What a step has to show that gives the session's client its account's keys.
LEMMA TrustStep ==
  ASSUME OneTab, AllInv, UNCHANGED env, NEW t \in Tabs, NEW S \in Page, Keep(t, S),
         NEW u \in Users, trusted' = trusted \cup {worker.session[u]},
         UNCHANGED <<devkey, devkeys, stores, queue, owner, worker>>,
         secret' \in [Users -> Nat], S.acc = tab[t].acc, Quiet(tab[t], S),
         Oauth = Users => PlainPage(S),
         Oauth = {} /\ Calm => Live(tab[t], u) /\ PasswordPage(tab[t])'
  PROVE  AllInv'
<1>1. TypeOK /\ StoreInv /\ tab' = [tab EXCEPT ![t] = S] /\ UNCHANGED pool
  BY DEF AllInv, Keep
<1>2. tab[t].open /\ tab[t].acc = pool /\ S.open
  BY <1>1, OpenPage DEF Quiet
<1>3. tab' \in [Tabs -> Page] /\ tab'[t] = S /\ \A x \in Tabs : x = t
  BY <1>1, Moved
<1>4. TypeOK'
  BY <1>1, <1>3 DEF TypeOK
<1>5. StoreInv'
  BY <1>1, <1>2, QuietStores
<1>6. Oauth = Users => PlainInv'
  <2> SUFFICES ASSUME Oauth = Users PROVE PlainInv'
    OBVIOUS
  <2>1. PlainInv
    BY DEF AllInv
  <2>2. QED BY <1>1, <1>3, <2>1 DEF PlainInv, PlainPage, Encrypted
<1>7. Oauth = {} /\ Calm => PasswordInv'
  <2> SUFFICES ASSUME Oauth = {}, Calm PROVE PasswordInv'
    OBVIOUS
  <2>1. PasswordInv /\ Live(tab[t], u)
    BY DEF AllInv
  <2>2. \A v \in Users : EntryInv(v)'
    <3> TAKE v \in Users
    <3>1. EntryInv(v)
      BY <2>1 DEF PasswordInv
    <3>2. QED BY <1>1, <3>1 DEF EntryInv, Has, Kept, Encrypted, Wrapped
  <2>3. worker.session[u] \in Stores /\ owner[worker.session[u]] = u /\ u # NoUser
    BY <2>1, AccountsAssumption DEF PasswordInv, EntryInv, Live, Kept
  <2>4. (\A s \in trusted : s \in Stores /\ owner[s] # NoUser)'
    BY <2>1, <2>3 DEF PasswordInv
  <2>5. QED BY <1>3, <2>2, <2>4 DEF PasswordInv
<1>8. QED BY <1>4, <1>5, <1>6, <1>7, EnvStays DEF AllInv

LEMMA EnableRecoveryKeeps ==
  ASSUME OneTab, AllInv, UNCHANGED env, NEW t \in Tabs, NEW o \in tab[t].ops,
         EnableRecovery(t, o)
  PROVE  AllInv'
<1> DEFINE T == tab[t]
           u == o.user
<1>n. PICK n, S : /\ n = [o EXCEPT !.step = "seal", !.secret = 1]
                  /\ S = [T EXCEPT !.ops = (T.ops \ {o}) \cup {n}]
  OBVIOUS
<1>1. /\ TypeOK /\ T \in Page /\ T.ops \subseteq Op /\ o \in Op /\ u \in Users /\ T.open
      /\ T.acc = pool /\ \A p \in T.ops \ {o} : ~(p.kind = "restore" /\ p.step = "start")
      /\ ActiveInv(T)
  BY OpStart DEF StoreInv
<1>2. /\ o.step = "enable" /\ Keep(t, S)
      /\ trusted' = trusted \cup {worker.session[u]}
      /\ secret' = [secret EXCEPT ![u] = 1]
      /\ UNCHANGED <<devkey, devkeys, stores, queue, owner, worker>>
  BY <1>n DEF EnableRecovery
<1>3. n \in Op /\ n.kind = o.kind /\ n.step = "seal" /\ n.user = u
  BY <1>1, <1>n DEF Op
<1>4. /\ S \in Page
      /\ S.open = T.open /\ S.acc = T.acc /\ S.active = T.active /\ S.ms = T.ms
      /\ S.blob = T.blob /\ S.key = T.key /\ S.dataKey = T.dataKey /\ S.prompt = T.prompt
      /\ S.shown = T.shown /\ S.pending = T.pending /\ S.ops = (T.ops \ {o}) \cup {n}
  BY <1>1, <1>n, <1>3 DEF Page
<1>5. Quiet(T, S)
  BY <1>1, <1>3, <1>4 DEF Quiet, ActiveInv
<1>6. Oauth = Users => PlainPage(S)
  <2>1. Oauth = Users => PlainPage(T)
    BY OpStart
  <2>2. QED BY <1>1, <1>3, <1>4, <2>1 DEF PlainPage
<1>7. secret' \in [Users -> Nat]
  BY <1>1, <1>2 DEF TypeOK
<1>8. ASSUME Oauth = {}, Calm PROVE Live(T, u) /\ PasswordPage(T)'
  <2>1. PasswordPage(T) /\ T.ops = {o} /\ InHistory(T, o)
    BY <1>2, <1>8, OpStart DEF InDevice, InLogin, InRestore, InRecover, InUnlock
  <2>2. /\ S.ops = {n} /\ T.prompt = "none" /\ Live(T, u) /\ T.ms = u
        /\ T.blob = worker.session[u]
    BY <1>4, <2>1 DEF InHistory, Live
  <2>3. T' = S /\ UNCHANGED pool
    BY <1>1, <1>2, <1>4 DEF Keep, TypeOK
  <2>4. InHistory(S, n)'
    BY <1>2, <1>3, <1>4, <2>1, <2>2, <2>3 DEF InHistory, Live, Has
  <2>5. OpInv(T)'
    BY <2>2, <2>3, <2>4 DEF OpInv
  <2>6. PromptInv(T)'
    BY <1>2, <1>4, <2>1, <2>2, <2>3 DEF PasswordPage, PromptInv
  <2>7. GateInv(T)'
    BY <1>2, <1>4, <2>2, <2>3 DEF GateInv
  <2>8. "first_sync" \notin Faults => OneStoreInv(T)'
    BY <1>2, <2>1, <2>2, <2>3 DEF PasswordPage, OneStoreInv, Has, Encrypted, Wrapped
  <2>9. Faults = {} => KeyInv(T)'
    <3> SUFFICES ASSUME Faults = {} PROVE KeyInv(T)'
      OBVIOUS
    <3>1. KeyInv(T) /\ Steered(T) /\ Steered(S)
      BY <1>2, <1>3, <2>1, <2>2 DEF PasswordPage, Steered
    <3>2. Steered(T)'
      BY <1>3, <2>2, <2>3 DEF Steered
    <3>3. o.kind = "login"
      BY <1>2, <2>1, <3>1 DEF KeyInv, InHistory
    <3>4. \A v \in Users : Has(pool, v) /\ ~Encrypted(pool[v]) /\ worker.session[v] # None
            => T.ms = v
      BY <1>2, <2>1, <3>1 DEF KeyInv
    <3>5. KeyInv(T)
      BY <3>1
    <3>6. (\A v \in Users : Has(pool, v) /\ ~Encrypted(pool[v]) /\ worker.session[v] # None
             => T.ms = v)'
      BY <1>2, <1>4, <2>3, <3>4 DEF Has, Encrypted
    <3>7. (\A p \in T.ops :
              /\ p.kind \in {"restore", "switch"} => p.step = "start"
              /\ p.kind = "login" /\ p.step = "history" => T.blob \notin trusted)'
      BY <1>3, <2>2, <2>3, <3>3
    <3>8. (T.prompt = "save" => pool[T.ms].master[1] = T.shown)' /\ (T.dataKey = T.blob)'
      BY <1>4, <2>2, <2>3, <3>1, <3>5 DEF KeyInv
    <3>9. (\A v \in Users : Wrapped(pool[v]) => pool[v].sec[2] = pool[v].master[2])'
      BY <2>3, <3>5 DEF KeyInv, Wrapped
    <3>10. QED BY <3>2, <3>6, <3>7, <3>8, <3>9 DEF KeyInv
  <2>10. QED BY <2>2, <2>5, <2>6, <2>7, <2>8, <2>9, EnvStays DEF PasswordPage
<1>9. QED BY <1>1, <1>2, <1>4, <1>5, <1>6, <1>7, <1>8, TrustStep

\* A key that recovers gives the device its account's keys; the gate stays until the end.
LEMMA SubmitRecoveryKeyKeeps ==
  ASSUME OneTab, AllInv, UNCHANGED env, NEW t \in Tabs, SubmitRecoveryKey(t)
  PROVE  AllInv'
<1> DEFINE T == tab[t]
<1> PICK u, n, S : /\ u = T.ms
                   /\ n = [kind |-> "recover", user |-> u, step |-> "seal",
                           store |-> None, key |-> None, secret |-> secret[u]]
                   /\ S = Begin(T, n)
  OBVIOUS
<1>1. /\ T.prompt = "verify" /\ u # NoUser /\ Room(T) /\ Keep(t, S)
      /\ trusted' = trusted \cup {worker.session[u]}
      /\ UNCHANGED <<devkey, devkeys, stores, queue, owner, secret, worker>>
  BY DEF SubmitRecoveryKey
<1>2. /\ TypeOK /\ T \in Page /\ T.ops \subseteq Op /\ T.open
      /\ T.acc = pool /\ \A p \in T.ops : ~(p.kind = "restore" /\ p.step = "start")
      /\ ActiveInv(T)
  BY <1>1, UserStart
<1>3. u \in Users /\ secret' \in [Users -> Nat] /\ secret[u] \in Nat
  BY <1>1, <1>2 DEF Page, People, TypeOK
<1>4. n \in Op /\ n.kind = "recover" /\ n.step = "seal" /\ n.user = u
  BY <1>3, AccountsAssumption DEF Op, None, Slots
<1>5. S \in Page /\ OnlyOps(S, T) /\ S.ops = T.ops \cup {n}
  BY <1>2, <1>4, BeginFacts
<1>6. /\ S \in Page
      /\ S.open = T.open /\ S.acc = T.acc /\ S.active = T.active /\ S.ms = T.ms
      /\ S.blob = T.blob /\ S.key = T.key /\ S.dataKey = T.dataKey /\ S.prompt = T.prompt
      /\ S.shown = T.shown /\ S.pending = T.pending /\ S.ops = T.ops \cup {n}
  BY <1>5 DEF OnlyOps
<1>7. Quiet(T, S)
  BY <1>2, <1>4, <1>6 DEF Quiet, ActiveInv
<1>8. Oauth = Users => PlainPage(S)
  BY <1>1, <1>4, <1>6, UserStart DEF PlainPage
<1>9. ASSUME Oauth = {}, Calm PROVE Live(T, u) /\ PasswordPage(T)'
  <2>1. PasswordPage(T) /\ PromptInv(T) /\ T.ops = {}
    BY <1>1, <1>9, UserStart
  <2>2. S.ops = {n} /\ Live(T, u) /\ T.blob = worker.session[u]
    BY <1>1, <1>6, <2>1 DEF PromptInv, Live
  <2>3. T' = S /\ UNCHANGED pool
    BY <1>1, <1>2, <1>6 DEF Keep, TypeOK
  <2>4. Live(S, u)'
    BY <1>1, <1>6, <2>2, <2>3 DEF Live, Has
  <2>5. InRecover(S, n)'
    BY <1>1, <1>4, <1>6, <2>2, <2>4 DEF InRecover
  <2>6. OpInv(T)'
    BY <2>2, <2>3, <2>5 DEF OpInv
  <2>7. PromptInv(T)'
    BY <1>1, <1>6, <2>1, <2>3, <2>4 DEF PromptInv
  <2>8. GateInv(T)'
    BY <1>1, <1>6, <2>3 DEF GateInv
  <2>9. "first_sync" \notin Faults => OneStoreInv(T)'
    BY <1>1, <2>1, <2>2, <2>3 DEF PasswordPage, OneStoreInv, Has, Encrypted, Wrapped
  <2>10. Faults = {} => KeyInv(T)'
    <3> SUFFICES ASSUME Faults = {} PROVE KeyInv(T)'
      OBVIOUS
    <3>1. KeyInv(T) /\ Steered(T)
      BY <1>1, <2>1 DEF PasswordPage, Steered
    <3>2. Steered(T)'
      BY <1>1, <1>6, <2>3 DEF Steered
    <3>3. QED BY <1>1, <1>4, <1>6, <2>1, <2>2, <2>3, <3>1, <3>2 DEF KeyInv, Has, Encrypted, Wrapped
  <2>11. QED BY <2>2, <2>6, <2>7, <2>8, <2>9, <2>10, EnvStays DEF PasswordPage
<1>10. QED BY <1>1, <1>2, <1>3, <1>6, <1>7, <1>8, <1>9, TrustStep

\* An unlock that recovered lifts its gate.
LEMMA UnlockRecoveredKeeps ==
  ASSUME OneTab, AllInv, UNCHANGED env, NEW t \in Tabs, NEW o \in tab[t].ops,
         UnlockRecovered(t, o)
  PROVE  AllInv'
<1> DEFINE T == tab[t]
           u == o.user
<1> PICK D : D = Drop(T, o)
  OBVIOUS
<1> PICK S : S = [D EXCEPT !.prompt = "none", !.pending = NoEntry]
  OBVIOUS
<1>1. /\ TypeOK /\ T \in Page /\ T.ops \subseteq Op /\ o \in Op /\ u \in Users /\ T.open
      /\ T.acc = pool /\ \A p \in T.ops \ {o} : ~(p.kind = "restore" /\ p.step = "start")
      /\ ActiveInv(T)
  BY OpStart DEF StoreInv
<1>2. /\ o.kind = "unlock" /\ o.step = "recover" /\ Keep(t, S)
      /\ trusted' = trusted \cup {worker.session[u]}
      /\ UNCHANGED <<devkey, devkeys, stores, queue, owner, secret, worker>>
  BY DEF UnlockRecovered
<1>3. D \in Page /\ OnlyOps(D, T) /\ D.ops = T.ops \ {o}
  BY <1>1, DropFacts
<1>4. /\ S \in Page
      /\ S.open = T.open /\ S.acc = T.acc /\ S.active = T.active /\ S.ms = T.ms
      /\ S.blob = T.blob /\ S.key = T.key /\ S.dataKey = T.dataKey /\ S.prompt = "none"
      /\ S.ops = T.ops \ {o}
  BY <1>3, EmptyTypes DEF Page, OnlyOps
<1>5. Quiet(T, S)
  BY <1>1, <1>4 DEF Quiet, ActiveInv
<1>6. Oauth = Users => PlainPage(S)
  BY <1>4, OpStart DEF PlainPage
<1>7. secret' \in [Users -> Nat]
  BY <1>1, <1>2 DEF TypeOK
<1>8. ASSUME Oauth = {}, Calm PROVE Live(T, u) /\ PasswordPage(T)'
  <2>1. PasswordPage(T) /\ T.ops = {o} /\ InUnlock(T, o)
    BY <1>2, <1>8, OpStart DEF InDevice, InLogin, InRestore, InRecover, InHistory
  <2>2. /\ S.ops = {} /\ T.prompt = "unlock" /\ Live(T, u) /\ T.ms = u
        /\ T.blob = worker.session[u]
    BY <1>2, <1>4, <2>1 DEF InUnlock, Live
  <2>3. T' = S /\ UNCHANGED pool
    BY <1>1, <1>2, <1>4 DEF Keep, TypeOK
  <2>4. OpInv(T)'
    BY <2>2, <2>3 DEF OpInv
  <2>5. PromptInv(T)'
    BY <1>2, <1>4, <2>1, <2>2, <2>3 DEF PasswordPage, PromptInv
  <2>6. GateInv(T)'
    BY <1>2, <1>4, <2>2, <2>3 DEF GateInv
  <2>7. "first_sync" \notin Faults => OneStoreInv(T)'
    BY <1>2, <2>1, <2>2, <2>3 DEF PasswordPage, OneStoreInv, Has, Encrypted, Wrapped
  <2>8. Faults = {} => KeyInv(T)'
    <3> SUFFICES ASSUME Faults = {} PROVE KeyInv(T)'
      OBVIOUS
    <3>1. KeyInv(T) /\ ~Steered(T) /\ \A v \in Users :
            ~(Has(pool, v) /\ ~Encrypted(pool[v]) /\ worker.session[v] # None)
      BY <1>2, <2>1, <2>2 DEF PasswordPage, Steered, KeyInv
    <3>2. ~Steered(T)'
      BY <1>4, <2>2, <2>3 DEF Steered
    <3>3. QED BY <1>2, <1>4, <2>2, <2>3, <3>1, <3>2 DEF KeyInv, Has, Encrypted, Wrapped
  <2>9. QED BY <2>2, <2>4, <2>5, <2>6, <2>7, <2>8, EnvStays DEF PasswordPage
<1>9. QED BY <1>1, <1>2, <1>4, <1>5, <1>6, <1>7, <1>8, TrustStep

\* A restore answers with the user's client, joined or opened on the blob's store.
LEMMA RestoreFacts ==
  ASSUME TypeOK, NEW u \in Users, NEW s \in Slots, NEW k, RestoreSession(u, s, k),
         NEW w, w = SessionStore(u, s)
  PROVE  /\ w \in Slots /\ stores \subseteq stores' /\ stores' \subseteq Slots
         /\ trusted' \subseteq trusted
         /\ worker' \in [session : [Users -> Slots], clients : SUBSET Slots]
         /\ worker'.session[u] = w
         /\ \A v \in Users : v # u => worker'.session[v] = worker.session[v]
         /\ worker.session[u] # None => w = worker.session[u] /\ UNCHANGED <<stores, trusted>>
         /\ worker.session[u] = None => w = s /\ OpensWith(s, k)
         /\ s \in stores => UNCHANGED <<stores, trusted>>
<1>1. worker \in [session : [Users -> Slots], clients : SUBSET Slots] /\ stores \subseteq Slots
  BY DEF TypeOK
<1>2. CASE Joined(u)
  BY <1>1, <1>2 DEF RestoreSession, SessionStore, Joined
<1>3. CASE ~Joined(u)
  <2>1. /\ w = s /\ OpensWith(s, k) /\ stores' = stores \cup {s}
        /\ trusted' = (IF s \in stores THEN trusted ELSE trusted \ {s})
        /\ worker' = [session |-> [worker.session EXCEPT ![u] = s],
                      clients |-> worker.clients \cup {s}]
    BY <1>3 DEF RestoreSession, SessionStore, Install
  <2>2. QED BY <1>1, <1>3, <2>1 DEF Joined
<1>4. QED BY <1>2, <1>3

\* What a step has to show that makes a restored session the page's.
LEMMA RestoreStep ==
  ASSUME OneTab, AllInv, UNCHANGED env, NEW t \in Tabs, NEW u \in Users, NEW s \in Slots, NEW k,
         RestoreSession(u, s, k), NEW w, w = SessionStore(u, s),
         NEW D \in Page, OnlyOps(D, tab[t]), Quiet(tab[t], D), NEW S, S = SetMatrixSession(D, u, w),
         Save(t, S), UNCHANGED <<devkey, devkeys, queue, owner, secret>>,
         Oauth = Users => PlainPage(D),
         Oauth = {} /\ Calm => PasswordInv'
  PROVE  AllInv'
<1>1. TypeOK /\ StoreInv /\ tab' = [tab EXCEPT ![t] = S] /\ pool' = S.acc
  BY DEF AllInv, Save
<1>2. tab[t].open /\ tab[t].acc = pool /\ D.open /\ D.acc = pool
  BY <1>1, OpenPage DEF Quiet, OnlyOps
<1>3. /\ w \in Slots /\ stores \subseteq stores' /\ stores' \subseteq Slots
      /\ trusted' \subseteq trusted
      /\ worker' \in [session : [Users -> Slots], clients : SUBSET Slots]
  BY <1>1, RestoreFacts
<1>4. /\ S \in Page /\ S.open /\ S.active = D.active /\ S.key = D.key
      /\ S.dataKey = D.dataKey /\ S.prompt = D.prompt /\ S.ops = D.ops
      /\ \A v \in Users : S.acc[v].store = pool[v].store
      /\ \A v \in Users : D.key = None =>
           S.acc[v].sec = pool[v].sec /\ S.acc[v].device = pool[v].device
  <2>1. Persisted(S, D, u, w)
    BY <1>3, SetMsFacts
  <2>2. QED BY <1>2, <2>1 DEF Persisted
<1>5. tab' \in [Tabs -> Page] /\ tab'[t] = S /\ \A x \in Tabs : x = t
  BY <1>1, <1>4, Moved
<1>6. TypeOK'
  BY <1>1, <1>3, <1>4, <1>5 DEF TypeOK, Page
<1>7. StoreInv'
  <2>1. Quiet(tab[t], S)
    BY <1>2, <1>4 DEF Quiet, ActiveInv
  <2>2. QED BY <1>1, <1>3, <1>4, <2>1, QuietStores
<1>8. Oauth = Users => PlainInv'
  <2> SUFFICES ASSUME Oauth = Users PROVE PlainInv'
    OBVIOUS
  <2>1. PlainInv /\ PlainPage(D)
    BY DEF AllInv
  <2>2. PlainPage(S)
    BY <1>4, <2>1 DEF PlainPage
  <2>3. QED BY <1>1, <1>4, <1>5, <2>1, <2>2 DEF PlainInv, PlainPage, Encrypted
<1>9. QED BY <1>6, <1>7, <1>8, EnvStays DEF AllInv

\* The device key restored the account: its session is back, with no prompt.
LEMMA DeviceRestoredKeeps ==
  ASSUME OneTab, AllInv, UNCHANGED env, NEW t \in Tabs, NEW o \in tab[t].ops,
         DeviceRestored(t, o)
  PROVE  AllInv'
<1> DEFINE T == tab[t]
<1>u. PICK u, w : u = o.user /\ w = SessionStore(u, o.store)
  OBVIOUS
<1>D. PICK D : D = Drop(tab[t], o)
  OBVIOUS
<1>S. PICK S : S = SetMatrixSession(D, u, w)
  OBVIOUS
<1>e. PICK e : e = pool[u]
  OBVIOUS
<1>1. /\ TypeOK /\ StoreInv /\ T \in Page /\ T.ops \subseteq Op /\ o \in Op /\ u \in Users
      /\ T.open /\ T.acc = pool /\ \A p \in T.ops \ {o} : ~(p.kind = "restore" /\ p.step = "start")
      /\ ActiveInv(T) /\ o.store \in Slots
  BY <1>u, OpStart DEF StoreInv, Op
<1>2. /\ o.kind = "device" /\ o.step = "open" /\ RestoreSession(u, o.store, o.key)
      /\ Save(t, S) /\ UNCHANGED <<devkey, devkeys, queue, owner, secret>>
  BY <1>u, <1>D, <1>S DEF DeviceRestored
<1>3. D \in Page /\ OnlyOps(D, T) /\ D.ops = T.ops \ {o}
  BY <1>1, <1>D, DropFacts
<1>4. Quiet(T, D)
  BY <1>1, <1>3 DEF Quiet, ActiveInv, OnlyOps
<1>5. Oauth # Users
  BY <1>2, OpStart DEF PlainPage
<1>6. ASSUME Oauth = {}, Calm PROVE PasswordInv'
  <2>1. /\ PasswordInv /\ PasswordPage(T) /\ PromptInv(T) /\ T.ops = {o} /\ InDevice(T, o)
        /\ EntryInv(u)
    BY <1>2, <1>6, <1>u, OpStart DEF InHistory, InLogin, InRestore, InRecover, InUnlock
  <2>2. /\ Encrypted(e) /\ Kept(e.sec[2], u) /\ e.sec[1] = e.master[2] /\ e.device[2] = e.master[2]
        /\ e.master[2] \in Stores /\ owner[e.master[2]] # NoUser /\ Wrapped(e)
        /\ e.master[2] \in trusted \/ e.master[2] # e.sec[2]
        /\ e.master[2] # None /\ e.plain \in Slots
        /\ worker.session[u] = None /\ o.store = e.sec[2] /\ o.key = e.master[2]
        /\ T.key = e.master[2] /\ T.dataKey = e.master[2] /\ T.prompt = "none" /\ T.ms = NoUser
        /\ u = T.active /\ Has(pool, u) /\ None \notin Stores
    BY <1>1, <1>2, <1>u, <1>e, <2>1, AccountsAssumption
      DEF InDevice, EntryInv, Stores, None, Page, Entry
  <2>3. /\ w = e.sec[2] /\ e.sec[2] = e.master[2] /\ w \in trusted /\ UNCHANGED <<stores, trusted>>
        /\ worker'.session[u] = w
        /\ \A v \in Users : v # u => worker'.session[v] = worker.session[v]
    <3>1. /\ w = o.store /\ OpensWith(o.store, o.key) /\ worker'.session[u] = w
          /\ o.store \in stores => UNCHANGED <<stores, trusted>>
          /\ \A v \in Users : v # u => worker'.session[v] = worker.session[v]
      BY <1>1, <1>2, <1>u, <2>2, RestoreFacts
    <3>2. e.sec[2] \in stores
      BY <2>2 DEF Kept
    <3>3. StoreKey(e.sec[2]) = e.sec[2]
      BY <1>6 DEF StoreKey
    <3>4. w = e.sec[2] /\ e.sec[2] = e.master[2] /\ UNCHANGED <<stores, trusted>>
      BY <2>2, <3>1, <3>2, <3>3 DEF OpensWith
    <3>5. QED BY <2>2, <3>1, <3>4
  <2>4. /\ S.ms = u /\ S.blob = w /\ S.key = e.master[2] /\ S.dataKey = e.master[2]
        /\ S.prompt = "none" /\ S.ops = {} /\ S.active = u /\ S \in Page
        /\ \A v \in Users : v # u => S.acc[v] = pool[v]
        /\ LET n == S.acc[u] IN
             /\ n.store = e.store /\ n.master = e.master /\ n.device = e.device
             /\ Encrypted(n) /\ n.sec[1] = e.master[2] /\ n.sec[2] = w /\ n.plain = None
    <3>1. w \in Slots
      BY <1>1, <2>2, <2>3
    <3>2. Persisted(S, D, u, w) /\ S.ms = u /\ S.blob = w
      BY <1>1, <1>3, <1>S, <3>1, SetMsFacts
    <3>3. D.acc = pool /\ D.key = T.key /\ D.key # None /\ Has(D.acc, u)
      BY <1>1, <1>3, <2>2 DEF OnlyOps
    <3>4. /\ S.key = e.master[2] /\ S.dataKey = e.master[2]
          /\ S.prompt = "none" /\ S.ops = {} /\ S.active = u /\ S \in Page
      BY <1>3, <2>1, <2>2, <3>2 DEF OnlyOps, Persisted
    <3>5. \A v \in Users : v # u => S.acc[v] = pool[v]
      BY <3>2, <3>3 DEF Persisted
    <3>6. /\ S.acc[u].store = e.store /\ S.acc[u].master = e.master
          /\ S.acc[u].device = e.device /\ Encrypted(S.acc[u]) /\ S.acc[u].plain = None
          /\ S.acc[u].sec[1] = D.key /\ S.acc[u].sec[2] = w
      BY <1>e, <3>2, <3>3 DEF Persisted
    <3>7. QED BY <2>2, <3>2, <3>3, <3>4, <3>5, <3>6
  <2>5. T' = S /\ pool' = S.acc
    BY <1>1, <1>2, <2>4 DEF Save, TypeOK
  <2>6. \A v \in Users : EntryInv(v)'
    <3>1. ASSUME NEW v \in Users, v # u PROVE EntryInv(v)'
      <4>1. EntryInv(v) /\ pool'[v] = pool[v] /\ worker'.session[v] = worker.session[v]
        BY <2>1, <2>3, <2>4, <2>5, <3>1 DEF PasswordInv
      <4>2. \A x \in Stores : Kept(x, v) => Kept(x, v)'
        BY <1>2, <2>3 DEF Kept
      <4>3. QED BY <1>2, <2>3, <4>1, <4>2, EntryStays
    <3>2. EntryInv(u)'
      <4>1. Kept(w, u)'
        BY <1>2, <2>2, <2>3 DEF Kept
      <4>2. Wrapped(pool'[u]) /\ pool'[u].master[2] \in trusted'
        BY <2>2, <2>3, <2>4, <2>5 DEF Wrapped
      <4>3. QED BY <1>1, <1>2, <2>2, <2>3, <2>4, <2>5, <4>1, <4>2, Zenon
            DEF EntryInv, Encrypted, Wrapped
    <3>3. QED BY <3>1, <3>2
  <2>7. OpInv(T)'
    BY <2>4, <2>5 DEF OpInv
  <2>8. PromptInv(T)'
    BY <1>2, <2>2, <2>4, <2>5 DEF PromptInv
  <2>9. GateInv(T)'
    BY <2>2, <2>3, <2>4, <2>5 DEF GateInv
  <2>10. "first_sync" \notin Faults => OneStoreInv(T)'
    <3> SUFFICES ASSUME "first_sync" \notin Faults PROVE OneStoreInv(T)'
      OBVIOUS
    <3>1. OneStoreInv(T)
      BY <2>1 DEF PasswordPage
    <3>2. e.sec[2] = e.store /\ e.store \in trusted
      BY <1>1, <1>e, <2>2, <3>1 DEF OneStoreInv
    <3>3. \A v \in Users : Has(pool, v) /\ worker.session[v] # None =>
            worker.session[v] = pool[v].store
      BY <1>2, <2>1, <3>1 DEF OneStoreInv
    <3>4. \A v \in Users \ {u} : Has(pool, v)' =>
            (/\ Encrypted(pool[v]) => pool[v].sec[2] = pool[v].store
             /\ ~Encrypted(pool[v]) => pool[v].plain = pool[v].store
             /\ Wrapped(pool[v]) => pool[v].store \in trusted
             /\ worker.session[v] # None => worker.session[v] = pool[v].store)'
      <4> TAKE v \in Users \ {u}
      <4>1. pool'[v] = pool[v] /\ worker'.session[v] = worker.session[v] /\ trusted' = trusted
        BY <2>3, <2>4, <2>5
      <4>2. QED BY <3>1, <3>3, <4>1 DEF OneStoreInv, Has, Encrypted, Wrapped
    <3>5. /\ pool'[u].sec[2] = pool'[u].store /\ Encrypted(pool'[u])
          /\ pool'[u].store \in trusted' /\ worker'.session[u] = pool'[u].store
      BY <2>3, <2>4, <2>5, <3>2
    <3>6. QED BY <3>4, <3>5 DEF OneStoreInv, Encrypted
  <2>11. Faults = {} => KeyInv(T)'
    <3> SUFFICES ASSUME Faults = {} PROVE KeyInv(T)'
      OBVIOUS
    <3>1. KeyInv(T)
      BY <2>1 DEF PasswordPage
    <3>2. \A v \in Users : ~(Has(pool, v) /\ ~Encrypted(pool[v]) /\ worker.session[v] # None)
      BY <1>2, <2>1, <2>2, <3>1, AccountsAssumption DEF KeyInv
    <3>3. Encrypted(S.acc[u])
      BY <2>4
    <3>4. (\A v \in Users : ~(Has(pool, v) /\ ~Encrypted(pool[v]) /\ worker.session[v] # None))'
      BY <2>3, <2>4, <2>5, <3>2, <3>3 DEF Has, Encrypted
    <3>5. (\A v \in Users : Wrapped(pool[v]) => pool[v].sec[2] = pool[v].master[2])'
      <4>1. pool'[u].sec[2] = pool'[u].master[2]
        BY <2>3, <2>4, <2>5
      <4>2. \A v \in Users : Wrapped(pool[v]) => pool[v].sec[2] = pool[v].master[2]
        BY <3>1 DEF KeyInv
      <4>3. QED BY <2>4, <2>5, <4>1, <4>2 DEF Wrapped
    <3>6. ~Steered(T)' /\ T'.ops = {} /\ T'.prompt # "save"
      BY <2>4, <2>5 DEF Steered
    <3>7. QED BY <3>4, <3>5, <3>6 DEF KeyInv
  <2>12. PasswordPage(T)'
    BY <2>7, <2>8, <2>9, <2>10, <2>11, EnvStays DEF PasswordPage
  <2>13. (\A x \in trusted : x \in Stores /\ owner[x] # NoUser)'
    BY <1>2, <2>1, <2>3 DEF PasswordInv
  <2>14. QED BY <2>6, <2>12, <2>13 DEF PasswordInv, OneTab
<1>7. QED BY <1>1, <1>2, <1>3, <1>4, <1>5, <1>6, <1>u, <1>S, RestoreStep

\* A plaintext blob's restore joins the user's client: no encrypted store opens without a key.
LEMMA RestoredKeeps ==
  ASSUME OneTab, AllInv, UNCHANGED env, NEW t \in Tabs, NEW o \in tab[t].ops, Restored(t, o)
  PROVE  AllInv'
<1> DEFINE T == tab[t]
<1>u. PICK u, w : u = o.user /\ w = SessionStore(u, o.store)
  OBVIOUS
<1>n. PICK n : n = [o EXCEPT !.step = "history"]
  OBVIOUS
<1>D. PICK D : D = Advance(tab[t], o, "history")
  OBVIOUS
<1>S. PICK S : S = SetMatrixSession(D, u, w)
  OBVIOUS
<1>e. PICK e : e = pool[u]
  OBVIOUS
<1>1. /\ TypeOK /\ StoreInv /\ T \in Page /\ T.ops \subseteq Op /\ o \in Op /\ u \in Users
      /\ T.open /\ T.acc = pool /\ \A p \in T.ops \ {o} : ~(p.kind = "restore" /\ p.step = "start")
      /\ ActiveInv(T) /\ o.store \in Slots
  BY <1>u, OpStart DEF StoreInv, Op
<1>2. /\ o.kind \in {"restore", "switch"} /\ o.step = "start" /\ RestoreSession(u, o.store, None)
      /\ Save(t, S) /\ UNCHANGED <<devkey, devkeys, queue, owner, secret>>
  BY <1>u, <1>D, <1>S DEF Restored
<1>3. /\ n \in Op /\ n.kind = o.kind /\ n.user = u /\ n.step = "history"
      /\ D \in Page /\ OnlyOps(D, T) /\ D.ops = (T.ops \ {o}) \cup {n}
  BY <1>1, <1>u, <1>n, <1>D, AdvanceFacts
<1>4. Quiet(T, D)
  BY <1>1, <1>2, <1>3 DEF Quiet, ActiveInv, OnlyOps
<1>5. Oauth = Users => PlainPage(D)
  <2>1. Oauth = Users => PlainPage(T)
    BY OpStart
  <2>2. QED BY <1>2, <1>3, <2>1 DEF PlainPage, OnlyOps
<1>6. ASSUME Oauth = {}, Calm PROVE PasswordInv'
  <2>1. /\ PasswordInv /\ PasswordPage(T) /\ PromptInv(T) /\ T.ops = {o} /\ InRestore(T, o)
        /\ EntryInv(u)
    BY <1>2, <1>6, <1>u, OpStart DEF InHistory, InLogin, InDevice, InRecover, InUnlock
  <2>2. /\ Has(pool, u) /\ ~Encrypted(e) /\ Kept(e.plain, u) /\ o.store = e.plain
        /\ e.master = <<None, None>> /\ ~Wrapped(e)
        /\ worker.session[u] # None => Kept(worker.session[u], u)
        /\ T.prompt = "none" /\ T.ms = NoUser /\ u = T.active /\ u # NoUser
        /\ None \notin Stores /\ e.sec = <<None, None>>
    BY <1>1, <1>2, <1>e, <1>u, <2>1, AccountsAssumption
      DEF InRestore, EntryInv, Stores, None, Encrypted
  <2>3. /\ w = worker.session[u] /\ w # None /\ Kept(w, u) /\ UNCHANGED <<stores, trusted>>
        /\ \A v \in Users : worker'.session[v] = worker.session[v]
    <3>1. /\ w \in Slots /\ worker'.session[u] = w
          /\ worker.session[u] # None => w = worker.session[u] /\ UNCHANGED <<stores, trusted>>
          /\ worker.session[u] = None => OpensWith(o.store, None)
          /\ \A v \in Users : v # u => worker'.session[v] = worker.session[v]
      BY <1>1, <1>2, <1>u, RestoreFacts
    <3>2. e.plain \in stores /\ e.plain \in Stores
      BY <2>2 DEF Kept
    <3>3. StoreKey(e.plain) = e.plain
      BY <1>6 DEF StoreKey
    <3>4. worker.session[u] # None
      BY <2>2, <3>1, <3>2, <3>3 DEF OpensWith
    <3>5. QED BY <2>2, <3>1, <3>4
  <2>4. /\ S.ms = u /\ S.blob = w /\ S.key = T.key /\ S.dataKey = T.dataKey
        /\ S.prompt = "none" /\ S.ops = {n} /\ S.active = u /\ S \in Page
        /\ \A v \in Users : v # u => S.acc[v] = pool[v]
        /\ S.acc[u].store = e.store /\ S.acc[u].master = e.master /\ S.acc[u].device = e.device
        /\ \/ Encrypted(S.acc[u]) /\ S.acc[u].sec[2] = w
           \/ ~Encrypted(S.acc[u]) /\ S.acc[u].plain = w
    <3>1. w \in Slots /\ u \in Users
      BY <1>1, <2>3 DEF TypeOK
    <3>2. Persisted(S, D, u, w) /\ S.ms = u /\ S.blob = w
      BY <1>1, <1>3, <1>S, <3>1, SetMsFacts
    <3>3. D.acc = pool /\ Has(D.acc, u)
      BY <1>1, <1>3, <2>2 DEF OnlyOps
    <3>4. /\ S.key = T.key /\ S.dataKey = T.dataKey
          /\ S.prompt = "none" /\ S.ops = {n} /\ S.active = u /\ S \in Page
      BY <1>3, <2>1, <2>2, <3>2 DEF OnlyOps, Persisted
    <3>5. \A v \in Users : v # u => S.acc[v] = pool[v]
      BY <3>2, <3>3 DEF Persisted
    <3>6. /\ S.acc[u].store = e.store /\ S.acc[u].master = e.master
          /\ S.acc[u].device = e.device
      BY <1>e, <3>2, <3>3 DEF Persisted
    <3>7. /\ D.key # None => Encrypted(S.acc[u]) /\ S.acc[u].sec[2] = w
          /\ D.key = None => S.acc[u].sec = e.sec /\ S.acc[u].plain = w
      BY <1>e, <3>2, <3>3 DEF Persisted
    <3>8. D.key = None => ~Encrypted(S.acc[u])
      BY <2>2, <3>7 DEF Encrypted
    <3>9. QED BY <3>2, <3>4, <3>5, <3>6, <3>7, <3>8
  <2>5. T' = S /\ pool' = S.acc
    BY <1>1, <1>2, <2>4 DEF Save, TypeOK
  <2>6. Has(pool, u)'
    BY <2>2, <2>3, <2>4, <2>5, EmptyTypes DEF Has, Encrypted
  <2>7. \A v \in Users : EntryInv(v)'
    <3>1. ASSUME NEW v \in Users, v # u PROVE EntryInv(v)'
      <4>1. EntryInv(v) /\ pool'[v] = pool[v] /\ worker'.session[v] = worker.session[v]
        BY <2>1, <2>3, <2>4, <2>5, <3>1 DEF PasswordInv
      <4>2. \A x \in Stores : Kept(x, v) => Kept(x, v)'
        BY <1>2, <2>3 DEF Kept
      <4>3. QED BY <1>2, <2>3, <4>1, <4>2, EntryStays
    <3>2. EntryInv(u)'
      <4>1. Kept(w, u)'
        BY <1>2, <2>3 DEF Kept
      <4>2. ~Wrapped(pool'[u]) /\ pool'[u].master = <<None, None>>
        BY <2>2, <2>4, <2>5 DEF Wrapped
      <4>f. PICK f : f = S.acc[u]
        OBVIOUS
      <4>3. /\ pool'[u] = f /\ worker'.session[u] = w
            /\ \/ Encrypted(f) /\ f.sec[2] = w
               \/ ~Encrypted(f) /\ f.plain = w
        BY <1>1, <2>3, <2>4, <2>5, <4>f
      <4>4. (/\ Encrypted(f) => Kept(f.sec[2], u)
             /\ ~Encrypted(f) => Kept(f.plain, u))'
        BY <4>1, <4>3 DEF Encrypted
      <4>5. QED BY <4>1, <4>2, <4>3, <4>4 DEF EntryInv
    <3>3. QED BY <3>1, <3>2
  <2>8. Live(S, u)'
    BY <1>1, <2>3, <2>4, <2>6 DEF Live
  <2>9. OpInv(T)'
    <3>1. InHistory(S, n)'
      BY <1>2, <1>3, <2>4, <2>8 DEF InHistory
    <3>2. QED BY <2>4, <2>5, <3>1 DEF OpInv
  <2>10. PromptInv(T)'
    BY <1>2, <2>1, <2>4, <2>5 DEF PromptInv
  <2>11. GateInv(T)'
    BY <1>3, <2>4, <2>5 DEF GateInv, LoginOps
  <2>12. "first_sync" \notin Faults => OneStoreInv(T)'
    <3> SUFFICES ASSUME "first_sync" \notin Faults PROVE OneStoreInv(T)'
      OBVIOUS
    <3>1. OneStoreInv(T)
      BY <2>1 DEF PasswordPage
    <3>2. \A v \in Users : Has(pool, v) /\ worker.session[v] # None =>
            worker.session[v] = pool[v].store
      BY <1>2, <2>1, <3>1 DEF OneStoreInv
    <3>3. \A v \in Users \ {u} : Has(pool, v)' =>
            (/\ Encrypted(pool[v]) => pool[v].sec[2] = pool[v].store
             /\ ~Encrypted(pool[v]) => pool[v].plain = pool[v].store
             /\ Wrapped(pool[v]) => pool[v].store \in trusted
             /\ worker.session[v] # None => worker.session[v] = pool[v].store)'
      <4> TAKE v \in Users \ {u}
      <4>1. pool'[v] = pool[v] /\ worker'.session[v] = worker.session[v] /\ trusted' = trusted
        BY <2>3, <2>4, <2>5
      <4>2. QED BY <3>1, <3>2, <4>1 DEF OneStoreInv, Has, Encrypted, Wrapped
    <3>4. w = e.store
      BY <1>1, <1>e, <2>2, <2>3, <3>2
    <3>f. PICK f : f = S.acc[u]
      OBVIOUS
    <3>5. (/\ Encrypted(pool[u]) => pool[u].sec[2] = pool[u].store
           /\ ~Encrypted(pool[u]) => pool[u].plain = pool[u].store
           /\ ~Wrapped(pool[u]) /\ worker.session[u] = pool[u].store)'
      <4>1. /\ pool'[u] = f /\ worker'.session[u] = w
            /\ \/ Encrypted(f) /\ f.sec[2] = w
               \/ ~Encrypted(f) /\ f.plain = w
        BY <1>1, <2>3, <2>4, <2>5, <3>f
      <4>2. f.store = w /\ f.device = e.device
        BY <2>4, <3>4, <3>f
      <4>3. ~Wrapped(f)
        BY <2>2, <4>2 DEF Wrapped
      <4>4. QED BY <4>1, <4>2, <4>3 DEF Wrapped, Encrypted
    <3>6. QED BY <3>3, <3>5 DEF OneStoreInv
  <2>13. Faults # {}
    BY <1>1, <1>2, <1>e, <2>1, <2>2, <2>3, AccountsAssumption DEF PasswordPage, KeyInv
  <2>14. PasswordPage(T)'
    BY <2>9, <2>10, <2>11, <2>12, <2>13, EnvStays DEF PasswordPage
  <2>15. (\A x \in trusted : x \in Stores /\ owner[x] # NoUser)'
    BY <1>2, <2>1, <2>3 DEF PasswordInv
  <2>16. QED BY <2>7, <2>14, <2>15 DEF PasswordInv, OneTab
<1>7. QED BY <1>1, <1>2, <1>3, <1>4, <1>5, <1>6, <1>u, <1>S, RestoreStep

\* The secret restored the account: its session is back, the gate still up.
LEMMA UnlockRestoredKeeps ==
  ASSUME OneTab, AllInv, UNCHANGED env, NEW t \in Tabs, NEW o \in tab[t].ops,
         UnlockRestored(t, o)
  PROVE  AllInv'
<1> DEFINE T == tab[t]
<1>u. PICK u, w : u = o.user /\ w = SessionStore(u, o.store)
  OBVIOUS
<1>n. PICK n : n = [o EXCEPT !.step = "recover"]
  OBVIOUS
<1>D. PICK D : D = Advance(tab[t], o, "recover")
  OBVIOUS
<1>S. PICK S : S = SetMatrixSession(D, u, w)
  OBVIOUS
<1>e. PICK e : e = pool[u]
  OBVIOUS
<1>1. /\ TypeOK /\ StoreInv /\ T \in Page /\ T.ops \subseteq Op /\ o \in Op /\ u \in Users
      /\ T.open /\ T.acc = pool /\ \A p \in T.ops \ {o} : ~(p.kind = "restore" /\ p.step = "start")
      /\ ActiveInv(T) /\ o.store \in Slots
  BY <1>u, OpStart DEF StoreInv, Op
<1>2. /\ o.kind = "unlock" /\ o.step = "open" /\ RestoreSession(u, o.store, o.key)
      /\ Save(t, S) /\ UNCHANGED <<devkey, devkeys, queue, owner, secret>>
  BY <1>u, <1>D, <1>S DEF UnlockRestored
<1>3. /\ n \in Op /\ n.kind = o.kind /\ n.user = u /\ n.step = "recover"
      /\ D \in Page /\ OnlyOps(D, T) /\ D.ops = (T.ops \ {o}) \cup {n}
  BY <1>1, <1>u, <1>n, <1>D, AdvanceFacts
<1>4. Quiet(T, D)
  BY <1>1, <1>2, <1>3 DEF Quiet, ActiveInv, OnlyOps
<1>5. Oauth # Users
  BY <1>2, OpStart DEF PlainPage
<1>6. ASSUME Oauth = {}, Calm PROVE PasswordInv'
  <2>1. /\ PasswordInv /\ PasswordPage(T) /\ PromptInv(T) /\ T.ops = {o} /\ InUnlock(T, o)
        /\ EntryInv(u)
    BY <1>2, <1>6, <1>u, OpStart DEF InHistory, InLogin, InDevice, InRecover, InRestore
  <2>2. /\ T.prompt = "unlock" /\ u = T.active /\ PendingInv(T) /\ Has(pool, u) /\ Wrapped(e)
        /\ u # NoUser /\ None \notin Stores
    BY <1>1, <1>2, <1>e, <1>u, <2>1, AccountsAssumption
      DEF InUnlock, PromptInv, PendingInv, Stores, None
  <2>3. /\ Encrypted(e) /\ Kept(e.sec[2], u) /\ e.sec[1] = e.master[2] /\ e.device[2] = e.master[2]
        /\ e.master[2] \in Stores /\ owner[e.master[2]] # NoUser
        /\ e.master[2] \in trusted \/ e.master[2] \notin {worker.session[u], e.sec[2]}
        /\ worker.session[u] # None => Kept(worker.session[u], u)
    BY <1>1, <1>e, <2>1, <2>2 DEF EntryInv
  <2>4. /\ o.key = e.master[2] /\ T.key = e.master[2] /\ e.master[2] # None
        /\ o.store = e.sec[2] \/ worker.session[u] # None
    BY <1>1, <1>2, <1>u, <1>e, <2>1, <2>2, <2>3 DEF InUnlock
  <2>5. /\ w # None /\ Kept(w, u) /\ UNCHANGED <<stores, trusted>> /\ worker'.session[u] = w
        /\ e.master[2] \in trusted \/ e.master[2] # w
        /\ worker.session[u] # None => w = worker.session[u]
        /\ worker.session[u] = None => w = e.sec[2]
        /\ \A v \in Users : v # u => worker'.session[v] = worker.session[v]
    <3>1. /\ worker'.session[u] = w
          /\ worker.session[u] # None => w = worker.session[u] /\ UNCHANGED <<stores, trusted>>
          /\ worker.session[u] = None => w = o.store
          /\ o.store \in stores => UNCHANGED <<stores, trusted>>
          /\ \A v \in Users : v # u => worker'.session[v] = worker.session[v]
      BY <1>1, <1>2, <1>u, RestoreFacts
    <3>2. e.sec[2] \in stores
      BY <2>3 DEF Kept
    <3>3. CASE worker.session[u] # None
      BY <2>2, <2>3, <3>1, <3>3
    <3>4. CASE worker.session[u] = None
      <4>1. w = e.sec[2] /\ UNCHANGED <<stores, trusted>>
        BY <2>4, <3>1, <3>2, <3>4
      <4>2. e.sec[2] \in Stores
        BY <2>3 DEF Kept
      <4>3. QED BY <2>2, <2>3, <3>1, <3>4, <4>1, <4>2
    <3>5. QED BY <3>3, <3>4
  <2>6. /\ S.ms = u /\ S.blob = w /\ S.dataKey = T.dataKey /\ S.pending = T.pending
        /\ S.prompt = "unlock" /\ S.ops = {n} /\ S.active = u /\ S \in Page
        /\ \A v \in Users : v # u => S.acc[v] = pool[v]
        /\ S.acc[u].store = e.store /\ S.acc[u].master = e.master /\ S.acc[u].device = e.device
        /\ Encrypted(S.acc[u]) /\ S.acc[u].sec[1] = e.master[2] /\ S.acc[u].sec[2] = w
    <3>1. w \in Slots
      BY <1>1, <1>2, <1>u, RestoreFacts
    <3>2. Persisted(S, D, u, w) /\ S.ms = u /\ S.blob = w
      BY <1>1, <1>3, <1>S, <3>1, SetMsFacts
    <3>3. D.acc = pool /\ D.key = T.key /\ D.key # None /\ Has(D.acc, u)
      BY <1>1, <1>3, <2>2, <2>4 DEF OnlyOps
    <3>4. /\ S.dataKey = T.dataKey /\ S.pending = T.pending
          /\ S.prompt = "unlock" /\ S.ops = {n} /\ S.active = u /\ S \in Page
      BY <1>3, <2>1, <2>2, <3>2 DEF OnlyOps, Persisted
    <3>5. \A v \in Users : v # u => S.acc[v] = pool[v]
      BY <3>2, <3>3 DEF Persisted
    <3>6. /\ S.acc[u].store = e.store /\ S.acc[u].master = e.master
          /\ S.acc[u].device = e.device /\ Encrypted(S.acc[u])
          /\ S.acc[u].sec[1] = D.key /\ S.acc[u].sec[2] = w
      BY <1>e, <3>2, <3>3 DEF Persisted
    <3>7. QED BY <2>4, <3>2, <3>3, <3>4, <3>5, <3>6
  <2>7. T' = S /\ pool' = S.acc
    BY <1>1, <1>2, <2>6 DEF Save, TypeOK
  <2>f. PICK f : f = S.acc[u]
    OBVIOUS
  <2>8. /\ pool'[u] = f /\ Encrypted(f) /\ f.sec[1] = e.master[2] /\ f.sec[2] = w
        /\ f.store = e.store /\ f.master = e.master /\ f.device = e.device /\ Wrapped(f)
    BY <1>e, <2>2, <2>6, <2>7, <2>f DEF Wrapped
  <2>9. Has(pool, u)'
    BY <2>2, <2>8, EmptyTypes DEF Has, Encrypted
  <2>10. \A v \in Users : EntryInv(v)'
    <3>1. ASSUME NEW v \in Users, v # u PROVE EntryInv(v)'
      <4>1. EntryInv(v) /\ pool'[v] = pool[v] /\ worker'.session[v] = worker.session[v]
        BY <2>1, <2>5, <2>6, <2>7, <3>1 DEF PasswordInv
      <4>2. \A x \in Stores : Kept(x, v) => Kept(x, v)'
        BY <1>2, <2>5 DEF Kept
      <4>3. QED BY <1>2, <2>5, <4>1, <4>2, EntryStays
    <3>2. EntryInv(u)'
      <4>1. Kept(w, u)'
        BY <1>2, <2>5 DEF Kept
      <4>2. Encrypted(pool'[u]) /\ Wrapped(pool'[u])
        BY <2>8
      <4>3. QED BY <1>2, <2>3, <2>5, <2>8, <4>1, <4>2 DEF EntryInv, Encrypted, Wrapped
    <3>3. QED BY <3>1, <3>2
  <2>11. Live(S, u)'
    BY <1>1, <2>5, <2>6, <2>9 DEF Live
  <2>12. OpInv(T)'
    <3>1. InUnlock(S, n)'
      BY <1>2, <1>3, <2>6, <2>11 DEF InUnlock
    <3>2. QED BY <2>6, <2>7, <3>1 DEF OpInv
  <2>13. PromptInv(T)'
    <3>1. PendingInv(S)'
      <4>1. /\ S.pending.master = e.master /\ S.pending.device = e.device
            /\ S.pending.sec[1] = e.master[2]
        <5>1. /\ T.pending.master = pool[u].master /\ T.pending.device = pool[u].device
              /\ T.pending.sec[1] = pool[u].sec[1]
          BY <1>1, <2>2 DEF PendingInv
        <5>2. S.pending = T.pending /\ e.sec[1] = e.master[2]
          BY <2>3, <2>6
        <5>3. QED BY <1>e, <5>1, <5>2
      <4>2. worker'.session[u] # None
        BY <2>5
      <4>3. QED BY <1>1, <2>6, <2>8, <2>9, <4>1, <4>2 DEF PendingInv
    <3>2. QED BY <1>2, <2>1, <2>6, <2>7, <3>1 DEF PromptInv
  <2>14. GateInv(T)'
    BY <2>6, <2>7 DEF GateInv
  <2>15. "first_sync" \notin Faults =>
           w = e.store /\ e.sec[2] = e.store /\ OneStoreInv(T)'
    <3> SUFFICES ASSUME "first_sync" \notin Faults
                 PROVE  w = e.store /\ e.sec[2] = e.store /\ OneStoreInv(T)'
      OBVIOUS
    <3>1. OneStoreInv(T)
      BY <2>1 DEF PasswordPage
    <3>2. \A v \in Users : Has(pool, v) /\ worker.session[v] # None =>
            worker.session[v] = pool[v].store
      BY <1>2, <2>1, <3>1 DEF OneStoreInv
    <3>3. \A v \in Users \ {u} : Has(pool, v)' =>
            (/\ Encrypted(pool[v]) => pool[v].sec[2] = pool[v].store
             /\ ~Encrypted(pool[v]) => pool[v].plain = pool[v].store
             /\ Wrapped(pool[v]) => pool[v].store \in trusted
             /\ worker.session[v] # None => worker.session[v] = pool[v].store)'
      <4> TAKE v \in Users \ {u}
      <4>1. pool'[v] = pool[v] /\ worker'.session[v] = worker.session[v] /\ trusted' = trusted
        BY <2>5, <2>6, <2>7
      <4>2. QED BY <3>1, <3>2, <4>1 DEF OneStoreInv, Has, Encrypted, Wrapped
    <3>4. e.sec[2] = e.store /\ e.store \in trusted
      BY <1>1, <1>e, <2>2, <2>3, <3>1 DEF OneStoreInv
    <3>5. w = e.store
      BY <1>1, <1>e, <2>2, <2>5, <3>2, <3>4
    <3>6. (/\ Encrypted(pool[u]) /\ pool[u].sec[2] = pool[u].store
           /\ pool[u].store \in trusted /\ worker.session[u] = pool[u].store)'
      BY <2>5, <2>8, <3>4, <3>5 DEF Encrypted
    <3>7. QED BY <3>3, <3>4, <3>5, <3>6 DEF OneStoreInv
  <2>16. Faults = {} => KeyInv(T)'
    <3> SUFFICES ASSUME Faults = {} PROVE KeyInv(T)'
      OBVIOUS
    <3>1. KeyInv(T) /\ ~Steered(T)
      BY <1>2, <2>1, <2>2 DEF PasswordPage, Steered
    <3>2. \A v \in Users : ~(Has(pool, v) /\ ~Encrypted(pool[v]) /\ worker.session[v] # None)
      BY <1>2, <2>1, <3>1 DEF KeyInv
    <3>3. (\A v \in Users : ~(Has(pool, v) /\ ~Encrypted(pool[v]) /\ worker.session[v] # None))'
      <4>1. ~Encrypted(pool'[u]) = FALSE
        BY <2>8
      <4>2. \A v \in Users \ {u} : pool'[v] = pool[v] /\ worker'.session[v] = worker.session[v]
        BY <2>5, <2>6, <2>7
      <4>3. QED BY <3>2, <4>1, <4>2 DEF Has, Encrypted
    <3>4. (\A v \in Users : Wrapped(pool[v]) => pool[v].sec[2] = pool[v].master[2])'
      <4>1. \A v \in Users : Wrapped(pool[v]) => pool[v].sec[2] = pool[v].master[2]
        BY <3>1 DEF KeyInv
      <4>2. w = e.master[2]
        BY <1>1, <1>e, <2>2, <2>15, <4>1
      <4>3. pool'[u].sec[2] = pool'[u].master[2]
        BY <2>8, <4>2
      <4>4. \A v \in Users \ {u} : pool'[v] = pool[v]
        BY <2>6, <2>7
      <4>5. QED BY <4>1, <4>3, <4>4 DEF Wrapped
    <3>5. ~Steered(T)' /\ T'.ops = {n} /\ T'.prompt # "save"
      BY <1>3, <2>6, <2>7 DEF Steered
    <3>6. QED BY <1>2, <1>3, <3>3, <3>4, <3>5 DEF KeyInv
  <2>17. PasswordPage(T)'
    BY <2>12, <2>13, <2>14, <2>15, <2>16, EnvStays DEF PasswordPage
  <2>18. (\A x \in trusted : x \in Stores /\ owner[x] # NoUser)'
    BY <1>2, <2>1, <2>5 DEF PasswordInv
  <2>19. QED BY <2>10, <2>17, <2>18 DEF PasswordInv, OneTab
<1>7. QED BY <1>1, <1>2, <1>3, <1>4, <1>5, <1>6, <1>u, <1>S, RestoreStep

\* An entry that only has its key marked as saved.
SavedMore(f, e) ==
  /\ f.store = e.store /\ f.plain = e.plain /\ f.sec = e.sec
  /\ f.master = e.master /\ f.device = e.device
  /\ f # NoEntry <=> e # NoEntry

\* The page D a data key is sealed from is the page T but for what is under way.
SealsFrom(D, T) ==
  /\ Quiet(T, D) /\ D.ops \subseteq T.ops
  /\ D.active = T.active /\ D.ms = T.ms /\ D.blob = T.blob /\ D.dataKey = T.dataKey
  /\ \A v \in Users : SavedMore(D.acc[v], pool[v])

\* The sealed page R with the key on the screen, or with no gate left.
SealsTo(S, R, k) ==
  /\ S \in Page
  /\ S.open = R.open /\ S.acc = R.acc /\ S.active = R.active /\ S.ms = R.ms
  /\ S.blob = R.blob /\ S.key = R.key /\ S.dataKey = R.dataKey /\ S.ops = R.ops
  /\ S.prompt \in {"none", "save"}
  /\ S.prompt = "save" => S.shown = k

\* The page is steering a session that can read.
SealReady(D, T) ==
  /\ Live(T, T.ms) /\ T.blob \in trusted /\ D.ops = {} /\ Steered(T)
  /\ \A o \in T.ops : o.step # "sync"

\* What a step has to show that ends by sealing the data key under the key it shows.
LEMMA SealStep ==
  ASSUME OneTab, AllInv, UNCHANGED env, NEW t \in Tabs, NEW D \in Page, NEW k \in Nat,
         NEW R, NEW S, SealsFrom(D, tab[t]), SealedPage(R, D, k), SealsTo(S, R, k),
         GetOrCreateDeviceKey(tab[t]), Save(t, S),
         UNCHANGED <<stores, queue, owner, secret, trusted, worker>>,
         Oauth = Users => PlainPage(D),
         Oauth = {} /\ Calm => SealReady(D, tab[t])
  PROVE  AllInv'
<1> DEFINE T == tab[t]
<1>1. /\ TypeOK /\ StoreInv /\ tab' = [tab EXCEPT ![t] = S] /\ pool' = S.acc
      /\ T \in Page /\ T.open /\ T.acc = pool /\ D.open
      /\ Quiet(T, D) /\ D.active = T.active /\ D.ms = T.ms /\ D.blob = T.blob
      /\ D.dataKey = T.dataKey /\ D.ops \subseteq T.ops
      /\ S \in Page /\ S.prompt \in {"none", "save"} /\ (S.prompt = "save" => S.shown = k)
      /\ \A v \in Users : SavedMore(D.acc[v], pool[v])
  BY Here, OpenPage DEF AllInv, Save, Quiet, SealsFrom, SealsTo
<1>2. devkey' \in Nat /\ devkeys' \in Nat
  BY <1>1 DEF GetOrCreateDeviceKey, TypeOK
<1>3. SealedPage(R, D, k)
  OBVIOUS
<1>4. /\ S.open /\ S.active = T.active /\ S.ms = T.ms /\ S.blob = T.blob
      /\ S.dataKey = T.dataKey /\ S.ops = D.ops /\ S.key \in {D.key, T.dataKey}
      /\ S.acc = R.acc
  BY <1>1, <1>3 DEF SealedPage, SealsTo
<1>5. \A v \in Users : S.acc[v].store = pool[v].store
  BY <1>1, <1>3, <1>4 DEF SealedPage, SavedMore
<1>6. \A v \in Users : v # T.ms \/ ~Has(pool, v) \/ T.dataKey = None => SavedMore(S.acc[v], pool[v])
  BY <1>1, <1>3, <1>4 DEF SealedPage, SavedMore, Has
<1>7. tab' \in [Tabs -> Page] /\ tab'[t] = S /\ \A x \in Tabs : x = t
  BY <1>1, Moved
<1>8. TypeOK'
  BY <1>1, <1>2, <1>7 DEF TypeOK, Page
<1>9. StoreInv'
  <2>1. Quiet(T, S)
    BY <1>1, <1>4, <1>5 DEF Quiet, ActiveInv
  <2>2. QED BY <1>1, <2>1, QuietStores
<1>10. Oauth = Users => PlainInv'
  <2> SUFFICES ASSUME Oauth = Users PROVE PlainInv'
    OBVIOUS
  <2>1. PlainInv /\ PlainPage(D)
    BY DEF AllInv
  <2>2. PlainPage(S)
    BY <1>1, <1>4, <2>1 DEF PlainPage
  <2>3. \A v \in Users : SavedMore(pool'[v], pool[v])
    BY <1>1, <1>6, <2>1 DEF PlainPage
  <2>4. \A v \in Users : ~Encrypted(pool'[v]) /\ pool'[v].device = <<None, None>>
    BY <2>1, <2>3 DEF PlainInv, Encrypted, SavedMore
  <2>5. QED BY <1>7, <2>2, <2>4 DEF PlainInv, PlainPage, Encrypted
<1>11. ASSUME Oauth = {}, Calm PROVE PasswordInv'
  <2>u. PICK u, d, b : u = T.ms /\ d = T.dataKey /\ b = T.blob
    OBVIOUS
  <2>e. PICK e : e = pool[u]
    OBVIOUS
  <2>f. PICK f : f = S.acc[u]
    OBVIOUS
  <2>1. /\ PasswordInv /\ PasswordPage(T) /\ PromptInv(T)
        /\ Live(T, u) /\ b \in trusted /\ D.ops = {} /\ Steered(T)
        /\ \A o \in T.ops : o.step # "sync"
    BY <1>11, <2>u DEF AllInv, PasswordInv, PasswordPage, SealReady
  <2>2. /\ u \in Users /\ Has(pool, u) /\ b = worker.session[u] /\ b # None /\ u # NoUser
    BY <2>1, <2>u, AccountsAssumption DEF Live
  <2>3. EntryInv(u) /\ Kept(b, u) /\ b \in Stores
    BY <2>1, <2>2 DEF PasswordInv, EntryInv, Kept
  <2>4. T' = S /\ pool' = S.acc /\ pool'[u] = f /\ S.ops = {}
    BY <1>1, <1>4, <1>7, <2>f, <2>1
  <2>5. f.store = e.store /\ Has(pool, u)'
    <3>1. f.store = e.store
      BY <1>5, <2>e, <2>f, <2>2
    <3>2. CASE d = None
      BY <1>6, <2>u, <2>e, <2>f, <2>2, <2>4, <3>1, <3>2 DEF SavedMore, Has
    <3>3. CASE d # None
      <4>1. f.device # <<None, None>>
        BY <1>1, <1>3, <1>4, <2>u, <2>f, <2>2, <3>3 DEF SealedPage, Has, SavedMore
      <4>2. f # NoEntry
        BY <4>1, EmptyTypes
      <4>3. QED BY <2>2, <2>4, <3>1, <4>2 DEF Has
    <3>4. QED BY <3>2, <3>3
  <2>6. d = None => SavedMore(f, e)
    BY <1>6, <2>u, <2>e, <2>f, <2>2
  <2>7. d # None =>
          /\ Encrypted(f) /\ Wrapped(f) /\ f.sec[1] = d /\ f.sec[2] = b
          /\ f.master[1] = k /\ f.master[2] = d /\ f.device[2] = d
          /\ d \in Stores /\ owner[d] # NoUser
    <3> SUFFICES ASSUME d # None
                 PROVE  /\ Encrypted(f) /\ Wrapped(f) /\ f.sec[1] = d /\ f.sec[2] = b
                        /\ f.master[1] = k /\ f.master[2] = d /\ f.device[2] = d
                        /\ d \in Stores /\ owner[d] # NoUser
      OBVIOUS
    <3>1. Has(D.acc, u)
      <4>1. SavedMore(D.acc[u], pool[u]) /\ pool[u] # NoEntry /\ u # NoUser
        BY <1>1, <2>2, Zenon DEF Has
      <4>2. QED BY <4>1 DEF SavedMore, Has
    <3>2. /\ f.sec = <<d, b>> /\ f.master = <<k, d>> /\ f.device # <<None, None>>
          /\ f.device[2] = d
      BY <1>1, <1>3, <1>4, <2>u, <2>f, <3>1, Zenon DEF SealedPage
    <3>3. Encrypted(f) /\ Wrapped(f)
      BY <3>2 DEF Encrypted, Wrapped
    <3>4. d \in Stores /\ owner[d] # NoUser
      BY <2>u, <2>1 DEF PromptInv
    <3>5. QED BY <3>2, <3>3, <3>4
  <2>8. \A v \in Users : v # u => SavedMore(pool'[v], pool[v])
    BY <1>1, <1>6, <2>u
  <2>9. \A v \in Users : EntryInv(v)'
    <3>1. ASSUME NEW v \in Users, SavedMore(pool'[v], pool[v]) PROVE EntryInv(v)'
      <4>1. EntryInv(v)
        BY <2>1 DEF PasswordInv
      <4>2. Has(pool, v)' <=> Has(pool, v)
        BY <3>1 DEF Has, SavedMore
      <4>3. \A x : Kept(x, v)' <=> Kept(x, v)
        BY DEF Kept
      <4>4. /\ Encrypted(pool[v])' <=> Encrypted(pool[v])
            /\ Wrapped(pool[v])' <=> Wrapped(pool[v])
        BY <3>1 DEF SavedMore, Encrypted, Wrapped
      <4>5. /\ pool'[v].sec = pool[v].sec /\ pool'[v].plain = pool[v].plain
            /\ pool'[v].master = pool[v].master /\ pool'[v].device = pool[v].device
        BY <3>1 DEF SavedMore
      <4>6. QED BY <4>1, <4>2, <4>3, <4>4, <4>5 DEF EntryInv
    <3>2. EntryInv(u)'
      <4>1. CASE d = None
        BY <2>2, <2>4, <2>6, <2>e, <3>1, <4>1
      <4>2. CASE d # None
        <5>1. Kept(b, u)'
          BY <2>3 DEF Kept
        <5>2. (Encrypted(pool[u]) /\ Wrapped(pool[u]))'
          BY <2>4, <2>7, <4>2 DEF Encrypted, Wrapped
        <5>3. /\ pool'[u].sec[1] = d /\ pool'[u].sec[2] = b
              /\ pool'[u].master[2] = d /\ pool'[u].device[2] = d
              /\ worker'.session[u] = b
              /\ d \in trusted' \/ d \notin {b}
              /\ d \in Stores /\ owner'[d] # NoUser
          BY <2>1, <2>2, <2>4, <2>7, <4>2
        <5>4. Kept(pool[u].sec[2], u)' /\ Kept(worker.session[u], u)'
          BY <5>1, <5>3 DEF Kept
        <5>5. QED BY <5>2, <5>3, <5>4 DEF EntryInv
      <4>3. QED BY <4>1, <4>2
    <3>3. QED BY <2>8, <3>1, <3>2
  <2>10. Live(S, u)'
    BY <1>4, <2>u, <2>2, <2>5 DEF Live
  <2>11. OpInv(T)'
    BY <2>4 DEF OpInv
  <2>12. PromptInv(T)'
    BY <1>1, <1>4, <2>u, <2>1, <2>4, <2>10 DEF PromptInv
  <2>13. GateInv(T)'
    BY <1>4, <2>u, <2>1, <2>4 DEF GateInv
  <2>14. "first_sync" \notin Faults => OneStoreInv(T)'
    <3> SUFFICES ASSUME "first_sync" \notin Faults PROVE OneStoreInv(T)'
      OBVIOUS
    <3>1. OneStoreInv(T)
      BY <2>1 DEF PasswordPage
    <3>2. \A v \in Users : Has(pool, v) /\ worker.session[v] # None =>
            worker.session[v] = pool[v].store
      BY <2>1, <3>1 DEF OneStoreInv
    <3>3. ASSUME NEW v \in Users, SavedMore(pool'[v], pool[v])
          PROVE  Has(pool, v)' =>
            (/\ Encrypted(pool[v]) => pool[v].sec[2] = pool[v].store
             /\ ~Encrypted(pool[v]) => pool[v].plain = pool[v].store
             /\ Wrapped(pool[v]) => pool[v].store \in trusted
             /\ worker.session[v] # None => worker.session[v] = pool[v].store)'
      <4>1. /\ Has(pool, v)' <=> Has(pool, v)
            /\ Encrypted(pool[v])' <=> Encrypted(pool[v])
            /\ Wrapped(pool[v])' <=> Wrapped(pool[v])
            /\ pool'[v].sec = pool[v].sec /\ pool'[v].plain = pool[v].plain
            /\ pool'[v].store = pool[v].store
        BY <3>3 DEF Has, SavedMore, Encrypted, Wrapped
      <4>2. QED BY <3>1, <3>2, <4>1 DEF OneStoreInv
    <3>4. b = e.store
      BY <2>e, <2>2, <3>2
    <3>5. d # None =>
            (/\ Encrypted(pool[u]) /\ pool[u].sec[2] = pool[u].store
             /\ pool[u].store \in trusted /\ worker.session[u] = pool[u].store)'
      BY <2>1, <2>2, <2>4, <2>5, <2>7, <3>4 DEF Encrypted
    <3>6. d = None => SavedMore(pool'[u], pool[u])
      BY <2>4, <2>6, <2>e
    <3>7. QED BY <2>2, <2>8, <3>3, <3>5, <3>6 DEF OneStoreInv
  <2>15. Faults = {} => KeyInv(T)'
    <3> SUFFICES ASSUME Faults = {} PROVE KeyInv(T)'
      OBVIOUS
    <3>1. KeyInv(T) /\ d = b /\ d # None
      BY <2>u, <2>1, <2>2 DEF PasswordPage, KeyInv
    <3>2. \A v \in Users : v # u =>
            ~(Has(pool, v) /\ ~Encrypted(pool[v]) /\ worker.session[v] # None)
      BY <2>u, <2>1, <3>1 DEF KeyInv
    <3>3. (\A v \in Users : ~(Has(pool, v) /\ ~Encrypted(pool[v]) /\ worker.session[v] # None))'
      <4>1. Encrypted(pool'[u])
        BY <2>4, <2>7, <3>1
      <4>2. \A v \in Users \ {u} : /\ Has(pool, v)' <=> Has(pool, v)
                                   /\ Encrypted(pool[v])' <=> Encrypted(pool[v])
        BY <2>8 DEF Has, SavedMore, Encrypted
      <4>3. QED BY <3>2, <4>1, <4>2 DEF Encrypted
    <3>4. (\A v \in Users : Wrapped(pool[v]) => pool[v].sec[2] = pool[v].master[2])'
      <4>1. pool'[u].sec[2] = pool'[u].master[2]
        BY <2>4, <2>7, <3>1
      <4>2. \A v \in Users \ {u} : Wrapped(pool'[v]) => pool'[v].sec[2] = pool'[v].master[2]
        BY <2>8, <3>1 DEF SavedMore, KeyInv, Wrapped
      <4>3. QED BY <4>1, <4>2 DEF Wrapped
    <3>5. T'.dataKey = T'.blob
      BY <1>4, <2>u, <2>4, <3>1
    <3>6. T'.prompt = "save" => pool'[T'.ms].master[1] = T'.shown
      BY <1>1, <1>4, <2>u, <2>4, <2>7, <3>1
    <3>7. QED BY <2>4, <3>3, <3>4, <3>5, <3>6 DEF KeyInv
  <2>16. PasswordPage(T)'
    BY <2>11, <2>12, <2>13, <2>14, <2>15, EnvStays DEF PasswordPage
  <2>17. (\A x \in trusted : x \in Stores /\ owner[x] # NoUser)'
    BY <2>1 DEF PasswordInv
  <2>18. QED BY <1>7, <2>9, <2>16, <2>17 DEF PasswordInv
<1>12. QED BY <1>8, <1>9, <1>10, <1>11, EnvStays DEF AllInv

\* The recovery key is shown once the data key is sealed under it.
LEMMA ShowRecoveryKeyKeeps ==
  ASSUME OneTab, AllInv, UNCHANGED env, NEW t \in Tabs, NEW o \in tab[t].ops,
         ShowRecoveryKey(t, o)
  PROVE  AllInv'
<1> DEFINE T == tab[t]
<1>D. PICK D : D = Drop(tab[t], o)
  OBVIOUS
<1>R. PICK R : R = SealDataKey(D, o.secret, devkey')
  OBVIOUS
<1>S. PICK S : S = [R EXCEPT !.prompt = "save", !.shown = o.secret]
  OBVIOUS
<1>1. /\ TypeOK /\ T \in Page /\ T.ops \subseteq Op /\ o \in Op /\ o.user \in Users /\ T.open
      /\ T.acc = pool /\ \A p \in T.ops \ {o} : ~(p.kind = "restore" /\ p.step = "start")
      /\ ActiveInv(T) /\ o.secret \in Nat
  BY OpStart DEF StoreInv, Op
<1>2. /\ o.kind # "recover" /\ o.step = "seal" /\ GetOrCreateDeviceKey(T) /\ Save(t, S)
      /\ UNCHANGED <<stores, queue, owner, secret, trusted, worker>>
  BY <1>D, <1>R, <1>S DEF ShowRecoveryKey
<1>3. D \in Page /\ OnlyOps(D, T) /\ D.ops = T.ops \ {o}
  BY <1>1, <1>D, DropFacts
<1>4. SealsFrom(D, T)
  BY <1>1, <1>3 DEF Quiet, ActiveInv, OnlyOps, SavedMore, SealsFrom
<1>5. devkey' \in Nat
  BY <1>1, <1>2 DEF GetOrCreateDeviceKey, TypeOK
<1>6. SealedPage(R, D, o.secret)
  BY <1>1, <1>3, <1>5, <1>R, SealFacts
<1>7. SealsTo(S, R, o.secret)
  BY <1>1, <1>6, <1>S DEF SealedPage, SealsTo, Page
<1>8. Oauth = Users => PlainPage(D)
  BY <1>3, OpStart DEF PlainPage, OnlyOps
<1>9. ASSUME Oauth = {}, Calm PROVE SealReady(D, T)
  <2>1. T.ops = {o} /\ InHistory(T, o)
    BY <1>2, <1>9, OpStart DEF InDevice, InLogin, InRestore, InRecover, InUnlock
  <2>2. T.ms = o.user
    BY <2>1 DEF InHistory, Live
  <2>3. QED BY <1>2, <1>3, <2>1, <2>2 DEF InHistory, Steered, SealReady
<1>10. QED BY <1>1, <1>2, <1>3, <1>4, <1>6, <1>7, <1>8, <1>9, SealStep

\* A key that recovered lifts the gate once the data key is sealed under it.
LEMMA RecoveryKeyAcceptedKeeps ==
  ASSUME OneTab, AllInv, UNCHANGED env, NEW t \in Tabs, NEW o \in tab[t].ops,
         RecoveryKeyAccepted(t, o)
  PROVE  AllInv'
<1> DEFINE T == tab[t]
<1>D. PICK D : D = Drop(tab[t], o)
  OBVIOUS
<1>R. PICK R : R = SealDataKey(D, o.secret, devkey')
  OBVIOUS
<1>S. PICK S : S = [R EXCEPT !.prompt = "none"]
  OBVIOUS
<1>1. /\ TypeOK /\ T \in Page /\ T.ops \subseteq Op /\ o \in Op /\ o.user \in Users /\ T.open
      /\ T.acc = pool /\ \A p \in T.ops \ {o} : ~(p.kind = "restore" /\ p.step = "start")
      /\ ActiveInv(T) /\ o.secret \in Nat
  BY OpStart DEF StoreInv, Op
<1>2. /\ o.kind = "recover" /\ o.step = "seal" /\ GetOrCreateDeviceKey(T) /\ Save(t, S)
      /\ UNCHANGED <<stores, queue, owner, secret, trusted, worker>>
  BY <1>D, <1>R, <1>S DEF RecoveryKeyAccepted
<1>3. D \in Page /\ OnlyOps(D, T) /\ D.ops = T.ops \ {o}
  BY <1>1, <1>D, DropFacts
<1>4. SealsFrom(D, T)
  BY <1>1, <1>3 DEF Quiet, ActiveInv, OnlyOps, SavedMore, SealsFrom
<1>5. devkey' \in Nat
  BY <1>1, <1>2 DEF GetOrCreateDeviceKey, TypeOK
<1>6. SealedPage(R, D, o.secret)
  BY <1>1, <1>3, <1>5, <1>R, SealFacts
<1>7. SealsTo(S, R, o.secret)
  BY <1>6, <1>S DEF SealedPage, SealsTo, Page
<1>8. Oauth = Users => PlainPage(D)
  BY <1>3, OpStart DEF PlainPage, OnlyOps
<1>9. ASSUME Oauth = {}, Calm PROVE SealReady(D, T)
  <2>1. T.ops = {o} /\ InRecover(T, o)
    BY <1>2, <1>9, OpStart DEF InDevice, InLogin, InRestore, InHistory, InUnlock
  <2>2. T.ms = o.user
    BY <2>1 DEF InRecover, Live
  <2>3. QED BY <1>2, <1>3, <2>1, <2>2 DEF InRecover, Steered, SealReady
<1>10. QED BY <1>1, <1>2, <1>3, <1>4, <1>6, <1>7, <1>8, <1>9, SealStep

\* The page whose account has its key marked as saved.
LEMMA MarkSaved ==
  ASSUME NEW T \in Page, NEW D,
         D = IF Has(T.acc, T.ms) THEN [T EXCEPT !.acc[T.ms].saved = TRUE] ELSE T
  PROVE  /\ OtherEntries(D, T)
         /\ \A v \in Users : SavedMore(D.acc[v], T.acc[v])
<1>1. \A v \in Users : SavedMore(T.acc[v], T.acc[v])
  BY Zenon DEF SavedMore
<1>2. CASE ~Has(T.acc, T.ms)
  BY <1>1, <1>2 DEF OtherEntries
<1>3. CASE Has(T.acc, T.ms)
  <2>u. PICK u : u = T.ms
    OBVIOUS
  <2>n. PICK n : n = [T.acc[u] EXCEPT !.saved = TRUE]
    OBVIOUS
  <2>1. u \in Users /\ T.acc[u] \in Entry
    BY <1>3, <2>u DEF Has, Page, People
  <2>2. /\ n \in Entry /\ n.store = T.acc[u].store /\ n.plain = T.acc[u].plain
        /\ n.sec = T.acc[u].sec /\ n.master = T.acc[u].master
        /\ n.device = T.acc[u].device /\ n.saved = TRUE
    BY <2>1, <2>n DEF Entry
  <2>3. SavedMore(n, T.acc[u])
    BY <1>3, <2>u, <2>2 DEF SavedMore, Has, NoEntry
  <2>4. D = WithEntry(T, u, n)
    BY <1>3, <2>u, <2>n DEF WithEntry
  <2>5. /\ OtherEntries(D, T) /\ D.acc[u] = n
        /\ \A v \in Users : v # u => D.acc[v] = T.acc[v]
    <3>1. n \in Entry /\ u \in Users
      BY <2>1, <2>2
    <3>2. /\ OtherEntries(WithEntry(T, u, n), T)
          /\ WithEntry(T, u, n).acc[u] = n
          /\ \A v \in Users : v # u => WithEntry(T, u, n).acc[v] = T.acc[v]
      BY <3>1, WithEntryFacts
    <3>3. QED BY <2>4, <3>2
  <2>6. \A v \in Users : SavedMore(D.acc[v], T.acc[v])
    BY <1>1, <2>3, <2>5, Zenon
  <2>7. QED BY <2>5, <2>6
<1>4. QED BY <1>2, <1>3

\* Confirming seals once more, under the key shown, and marks the key as saved.
LEMMA ConfirmKeySavedKeeps ==
  ASSUME OneTab, AllInv, UNCHANGED env, NEW t \in Tabs, ConfirmKeySaved(t)
  PROVE  AllInv'
<1> DEFINE T == tab[t]
<1>D. PICK D : D = IF Has(tab[t].acc, tab[t].ms) THEN [tab[t] EXCEPT !.acc[tab[t].ms].saved = TRUE]
                 ELSE tab[t]
  OBVIOUS
<1>R. PICK R : R = SealDataKey(D, T.shown, devkey')
  OBVIOUS
<1>S. PICK S : S = [R EXCEPT !.prompt = "none", !.shown = None]
  OBVIOUS
<1>1. T.prompt = "save"
  BY DEF ConfirmKeySaved
<1>2. /\ TypeOK /\ T \in Page /\ T.ops \subseteq Op /\ T.open /\ T.acc = pool /\ ActiveInv(T)
      /\ \A p \in T.ops : ~(p.kind = "restore" /\ p.step = "start")
      /\ T.shown \in Nat
  BY <1>1, UserStart DEF Page
<1>3. /\ GetOrCreateDeviceKey(T) /\ Save(t, S)
      /\ UNCHANGED <<stores, queue, owner, secret, trusted, worker>>
  BY <1>D, <1>R, <1>S DEF ConfirmKeySaved
<1>4. /\ D \in Page /\ D.open /\ D.active = T.active /\ D.ms = T.ms /\ D.blob = T.blob
      /\ D.key = T.key /\ D.dataKey = T.dataKey /\ D.prompt = T.prompt /\ D.ops = T.ops
      /\ \A v \in Users : SavedMore(D.acc[v], T.acc[v])
  <2>1. OtherEntries(D, T) /\ \A v \in Users : SavedMore(D.acc[v], T.acc[v])
    BY <1>2, <1>D, MarkSaved
  <2>2. QED BY <1>2, <2>1 DEF OtherEntries
<1>5. SealsFrom(D, T)
  <2>1. \A v \in Users : D.acc[v].store = T.acc[v].store
    BY <1>2, <1>4 DEF SavedMore
  <2>2. Quiet(T, D)
    BY <1>2, <1>4, <2>1 DEF Quiet, ActiveInv
  <2>3. QED BY <1>2, <1>4, <2>2 DEF SealsFrom
<1>6. devkey' \in Nat
  BY <1>2, <1>3 DEF GetOrCreateDeviceKey, TypeOK
<1>7. SealedPage(R, D, T.shown)
  BY <1>2, <1>4, <1>6, <1>R, SealFacts
<1>8. SealsTo(S, R, T.shown)
  <2>1. None \in Nat
    BY DEF None
  <2>2. QED BY <1>7, <1>S, <2>1 DEF SealedPage, SealsTo, Page
<1>9. Oauth = Users => PlainPage(D)
  BY <1>1, <1>4, UserStart DEF PlainPage
<1>10. ASSUME Oauth = {}, Calm PROVE SealReady(D, T)
  BY <1>1, <1>4, <1>10, UserStart DEF PromptInv, Steered, SealReady
<1>11. QED BY <1>2, <1>3, <1>4, <1>5, <1>7, <1>8, <1>9, <1>10, SealStep

\* What a step has to show of the one page for the stores to stay kept.
LEMMA StoreStep ==
  ASSUME OneTab, TypeOK, NEW t \in Tabs, NEW S \in Page, tab' = [tab EXCEPT ![t] = S],
         S.open, S.acc = pool', RestoreInv(S), NewInv(S)', ActiveInv(S),
         \A u \in Users : pool'[u].store # None => Kept(pool[u].store, u)',
         \A s \in queue' : owner'[s] # NoUser
  PROVE  StoreInv'
<1>1. tab'[t] = S /\ \A x \in Tabs : x = t
  BY Moved
<1>2. PageInv(tab[t])'
  BY <1>1 DEF PageInv
<1>3. RestoreInv(tab[t])'
  BY <1>1 DEF RestoreInv
<1>4. NewInv(tab[t])'
  BY <1>1 DEF NewInv, LoginOps
<1>5. ActiveInv(tab[t])'
  BY <1>1 DEF ActiveInv
<1>6. QED BY <1>1, <1>2, <1>3, <1>4, <1>5 DEF StoreInv

\* The login's client is installed over its new store.
LEMMA LoggedInKeeps ==
  ASSUME OneTab, AllInv, UNCHANGED env, NEW t \in Tabs, NEW o \in tab[t].ops, LoggedIn(t, o)
  PROVE  AllInv'
<1> DEFINE T == tab[t]
<1>u. PICK u, s : u = o.user /\ s = o.store
  OBVIOUS
<1>n. PICK n : n = [o EXCEPT !.step = "sync"]
  OBVIOUS
<1>S. PICK S : S = Advance(tab[t], o, "sync")
  OBVIOUS
<1>1. /\ TypeOK /\ StoreInv /\ T \in Page /\ T.ops \subseteq Op /\ o \in Op /\ u \in Users
      /\ T.open /\ T.acc = pool /\ \A p \in T.ops \ {o} : ~(p.kind = "restore" /\ p.step = "start")
      /\ ActiveInv(T) /\ s \in Slots /\ NewInv(T)
  BY <1>u, OpStart DEF StoreInv, Op
<1>2. /\ o.kind = "login" /\ o.step = "start" /\ Keep(t, S) /\ stores' = stores \cup {s}
      /\ worker' = [session |-> [worker.session EXCEPT ![u] = s],
                    clients |-> worker.clients \cup {s}]
      /\ UNCHANGED <<devkey, devkeys, queue, owner, secret, trusted>>
  BY <1>u, <1>S DEF LoggedIn, Install
<1>3. /\ n \in Op /\ n.kind = "login" /\ n.user = u /\ n.step = "sync" /\ n.store = s
      /\ S \in Page /\ OnlyOps(S, T) /\ S.ops = (T.ops \ {o}) \cup {n}
  BY <1>1, <1>2, <1>u, <1>n, <1>S, AdvanceFacts
<1>4. /\ S.open = T.open /\ S.acc = T.acc /\ S.active = T.active /\ S.ms = T.ms
      /\ S.blob = T.blob /\ S.key = T.key /\ S.dataKey = T.dataKey /\ S.prompt = T.prompt
      /\ S.ops = (T.ops \ {o}) \cup {n}
  BY <1>3 DEF OnlyOps
<1>5. /\ UNCHANGED pool /\ tab' = [tab EXCEPT ![t] = S]
      /\ tab' \in [Tabs -> Page] /\ T' = S /\ \A x \in Tabs : x = t
  BY <1>1, <1>2, <1>3, Moved DEF Keep
<1>6. /\ worker' \in [session : [Users -> Slots], clients : SUBSET Slots]
      /\ worker'.session[u] = s /\ \A v \in Users : v # u => worker'.session[v] = worker.session[v]
  BY <1>1, <1>2 DEF TypeOK
<1>7. TypeOK'
  BY <1>1, <1>2, <1>5, <1>6 DEF TypeOK
<1>8. o \in LoginOps(T) /\ s \in Stores \ queue /\ owner[s] = u
      /\ \A v \in Users : pool[v].store # s
  BY <1>1, <1>2, <1>u DEF NewInv, LoginOps
<1>9. StoreInv'
  <2>1. LoginOps(S) \subseteq (LoginOps(T) \ {o}) \cup {n}
    BY <1>4 DEF LoginOps
  <2>2. \A p \in LoginOps(T) \ {o} : p.store # s
    BY <1>1, <1>8, <1>u DEF NewInv
  <2>3. NewInv(S)'
    <3>1. \A p \in LoginOps(S) : p \in LoginOps(T) \ {o} \/ p = n
      BY <2>1
    <3>2. (\A p \in LoginOps(S) :
             /\ p.store \in Stores \ queue /\ owner[p.store] = p.user
             /\ p.step = "sync" => p.store \in stores
             /\ \A v \in Users : pool[v].store # p.store)'
      <4> SUFFICES ASSUME NEW p \in LoginOps(S)
                   PROVE  (/\ p.store \in Stores \ queue /\ owner[p.store] = p.user
                           /\ p.step = "sync" => p.store \in stores
                           /\ \A v \in Users : pool[v].store # p.store)'
        BY DEF LoginOps
      <4>1. CASE p = n
        BY <1>2, <1>3, <1>5, <1>8, <4>1
      <4>2. CASE p \in LoginOps(T) \ {o}
        BY <1>1, <1>2, <1>5, <4>2 DEF NewInv
      <4>3. QED BY <3>1, <4>1, <4>2
    <3>3. \A p, q \in LoginOps(S) : p.store = q.store => p = q
      <4>1. \A p, q \in LoginOps(T) : p.store = q.store => p = q
        BY <1>1 DEF NewInv
      <4>2. \A p \in LoginOps(S) : p = n \/ (p \in LoginOps(T) /\ p.store # n.store)
        BY <1>3, <2>2, <3>1
      <4>3. QED BY <4>1, <4>2
    <3>4. QED BY <3>2, <3>3 DEF NewInv, LoginOps
  <2>4. RestoreInv(S)
    BY <1>1, <1>3 DEF RestoreInv
  <2>5. ActiveInv(S)
    BY <1>1, <1>3, <1>4 DEF ActiveInv
  <2>6. \A v \in Users : pool'[v].store # None => Kept(pool[v].store, v)'
    BY <1>1, <1>2, <1>5 DEF StoreInv, Kept
  <2>7. \A x \in queue' : owner'[x] # NoUser
    BY <1>1, <1>2 DEF StoreInv
  <2>8. QED BY <1>1, <1>3, <1>4, <1>5, <2>3, <2>4, <2>5, <2>6, <2>7, StoreStep
<1>10. Oauth = Users => PlainInv'
  <2> SUFFICES ASSUME Oauth = Users PROVE PlainInv'
    OBVIOUS
  <2>1. PlainInv /\ PlainPage(T)
    BY OpStart DEF AllInv
  <2>2. PlainPage(S)
    BY <1>3, <1>4, <2>1 DEF PlainPage
  <2>3. QED BY <1>5, <2>1, <2>2 DEF PlainInv, PlainPage, Encrypted
<1>11. ASSUME Oauth = {}, Calm PROVE PasswordInv'
  <2>1. /\ PasswordInv /\ PasswordPage(T) /\ PromptInv(T) /\ T.ops = {o} /\ InLogin(T, o)
    BY <1>2, <1>11, <1>u, OpStart DEF InHistory, InRestore, InDevice, InRecover, InUnlock
  <2>2. /\ T.prompt = "none" /\ T.dataKey = s /\ s \notin trusted
        /\ \A v \in Users : pool[v].master[2] # s
        /\ T.ops \subseteq LoginOps(T) /\ S.ops = {n}
    BY <1>2, <1>4, <1>8, <1>u, <2>1 DEF InLogin
  <2>3. \A v \in Users : EntryInv(v)'
    <3>1. ASSUME NEW v \in Users, v # u PROVE EntryInv(v)'
      <4>1. EntryInv(v) /\ pool'[v] = pool[v] /\ worker'.session[v] = worker.session[v]
        BY <1>5, <1>6, <2>1, <3>1 DEF PasswordInv
      <4>2. \A x \in Stores : Kept(x, v) => Kept(x, v)'
        BY <1>2 DEF Kept
      <4>3. QED BY <1>2, <4>1, <4>2, EntryStays
    <3>2. EntryInv(u)'
      <4>1. EntryInv(u)
        BY <1>1, <2>1 DEF PasswordInv
      <4>2. Kept(worker.session[u], u)' /\ \A x : Kept(x, u) => Kept(x, u)'
        BY <1>2, <1>6, <1>8 DEF Kept
      <4>3. pool'[u].master[2] # worker'.session[u] /\ pool' = pool /\ trusted' = trusted
        BY <1>1, <1>2, <1>5, <1>6, <2>2
      <4>4. QED BY <1>1, <1>2, <4>1, <4>2, <4>3 DEF EntryInv, Has, Encrypted, Wrapped
    <3>3. QED BY <3>1, <3>2
  <2>4. OpInv(T)'
    <3>1. InLogin(S, n)'
      BY <1>2, <1>3, <1>4, <1>5, <1>6, <2>2 DEF InLogin
    <3>2. QED BY <1>5, <2>2, <3>1 DEF OpInv
  <2>5. PromptInv(T)'
    BY <1>2, <1>4, <1>5, <2>1, <2>2 DEF PromptInv
  <2>6. "unsettled" \notin Faults => GateInv(T)'
    BY <1>2, <1>4, <1>5, <2>1, <2>2 DEF PasswordPage, GateInv, Has
  <2>7. "first_sync" \notin Faults => OneStoreInv(T)'
    <3> SUFFICES ASSUME "first_sync" \notin Faults PROVE OneStoreInv(T)'
      OBVIOUS
    <3>1. OneStoreInv(T)
      BY <2>1 DEF PasswordPage
    <3>2. \A v \in Users : Has(pool, v) /\ worker.session[v] # None =>
            worker.session[v] = pool[v].store
      BY <1>2, <1>u, <2>1, <3>1 DEF OneStoreInv
    <3>3. ASSUME NEW v \in Users, Has(pool, v)'
          PROVE  (/\ Encrypted(pool[v]) => pool[v].sec[2] = pool[v].store
                  /\ ~Encrypted(pool[v]) => pool[v].plain = pool[v].store
                  /\ Wrapped(pool[v]) => pool[v].store \in trusted)'
      BY <1>2, <1>5, <3>1, <3>3 DEF OneStoreInv, Has, Encrypted, Wrapped
    <3>4. ASSUME NEW v \in Users, Has(pool, v)', v # u, worker'.session[v] # None
          PROVE  worker'.session[v] = pool'[v].store
      BY <1>5, <1>6, <3>2, <3>4 DEF Has
    <3>5. n \in T'.ops /\ n.kind = "login" /\ n.step = "sync" /\ n.user = u
      BY <1>3, <1>5, <2>2
    <3>6. QED BY <3>3, <3>4, <3>5 DEF OneStoreInv
  <2>8. Faults = {} => KeyInv(T)'
    <3> SUFFICES ASSUME Faults = {} PROVE KeyInv(T)'
      OBVIOUS
    <3>1. KeyInv(T) /\ ~Steered(T)
      BY <1>2, <2>1, <2>2 DEF PasswordPage, Steered
    <3>2. \A v \in Users : ~(Has(pool, v) /\ ~Encrypted(pool[v]) /\ worker.session[v] # None)
      BY <1>2, <1>u, <2>1, <3>1 DEF KeyInv
    <3>3. \A v \in Users : v # u =>
            ~(Has(pool, v) /\ ~Encrypted(pool[v]) /\ worker.session[v] # None)'
      BY <1>5, <1>6, <3>2 DEF Has, Encrypted
    <3>4. ~Steered(T)' /\ T'.ops = {n} /\ T'.prompt = "none"
      BY <1>3, <1>4, <1>5, <2>2 DEF Steered
    <3>5. (\A v \in Users : Wrapped(pool[v]) => pool[v].sec[2] = pool[v].master[2])'
      BY <1>5, <3>1 DEF KeyInv, Wrapped
    <3>6. QED BY <1>3, <3>3, <3>4, <3>5 DEF KeyInv
  <2>9. PasswordPage(T)'
    BY <2>4, <2>5, <2>6, <2>7, <2>8, EnvStays DEF PasswordPage
  <2>10. (\A x \in trusted : x \in Stores /\ owner[x] # NoUser)'
    BY <1>2, <2>1 DEF PasswordInv
  <2>11. QED BY <1>5, <2>3, <2>9, <2>10 DEF PasswordInv
<1>12. QED BY <1>7, <1>9, <1>10, <1>11, EnvStays DEF AllInv

\* Page S of a user who has just signed in: a fresh entry, and the new client's session.
FreshlyIn(f, T, s) ==
  /\ f.store = s /\ f.master = <<None, None>> /\ f.device = <<None, None>>
  /\ T.key = None => ~Encrypted(f) /\ f.plain = s
  /\ T.key # None => Encrypted(f) /\ f.sec[2] = s

SignedIn(S, T, u, s) ==
  /\ S \in Page /\ S.open = T.open /\ S.key = T.key /\ S.dataKey = T.dataKey
  /\ S.prompt = T.prompt /\ S.active = u /\ S.ms = u /\ S.blob = s
  /\ \A v \in Users : v # u => S.acc[v] = T.acc[v]
  /\ FreshlyIn(S.acc[u], T, s)

LEMMA FreshEntryFacts ==
  ASSUME NEW T \in Page, NEW u \in Users, NEW s \in Slots, s # None,
         NEW g, g = FreshEntry(T, u, s)
  PROVE  /\ g \in Entry /\ g.store = s
         /\ g.master = <<None, None>> /\ g.device = <<None, None>>
         /\ T.key = None => g.sec = <<None, None>>
         /\ g # NoEntry
<1>1. None \in Slots /\ T.key \in Slots /\ Slots \subseteq Nat /\ T.acc[u] \in Entry
  BY AccountsAssumption DEF None, Slots, Page
<1>2. <<None, None>> \in Sealed /\ <<T.key, s>> \in Sealed
  BY <1>1 DEF Sealed
<1>3. T.acc[u].saved \in BOOLEAN
  BY <1>1 DEF Entry
<1>4. /\ g \in Entry /\ g.store = s
      /\ g.master = <<None, None>> /\ g.device = <<None, None>>
      /\ T.key = None => g.sec = <<None, None>>
  BY <1>1, <1>2, <1>3 DEF FreshEntry, NoEntry, Entry
<1>5. QED BY <1>4, EmptyTypes

\* Page A with the entry completeSignIn writes.
Entered(B, A, T, u, s) == B = [A EXCEPT !.acc[u] = FreshEntry(T, u, s), !.active = u]

LEMMA SignedInFacts ==
  ASSUME NEW T \in Page, NEW A \in Page, OnlyOps(A, T), NEW u \in Users, NEW s \in Slots,
         s # None, u # NoUser, NEW B, Entered(B, A, T, u, s),
         NEW S, S = SetMatrixSession(B, u, s)
  PROVE  SignedIn(S, T, u, s) /\ S.ops = A.ops
<1> PICK g : g = FreshEntry(T, u, s)
  OBVIOUS
<1>1. B = [A EXCEPT !.acc[u] = g, !.active = u]
  BY DEF Entered
<1>2. /\ g \in Entry /\ g.store = s /\ g.master = <<None, None>> /\ g.device = <<None, None>>
      /\ T.key = None => g.sec = <<None, None>>
      /\ g # NoEntry
  BY FreshEntryFacts
<1>3. /\ B \in Page /\ B.open = A.open /\ B.key = A.key /\ B.dataKey = A.dataKey
      /\ B.prompt = A.prompt /\ B.ops = A.ops /\ B.active = u /\ B.acc[u] = g
      /\ \A v \in Users : v # u => B.acc[v] = A.acc[v]
  BY <1>1, <1>2 DEF Page, People
<1>4. /\ A.open = T.open /\ A.key = T.key /\ A.dataKey = T.dataKey
      /\ A.prompt = T.prompt /\ A.acc = T.acc
  BY DEF OnlyOps
<1>5. Persisted(S, B, u, s) /\ S.ms = u /\ S.blob = s
  BY <1>3, SetMsFacts
<1>6. Has(B.acc, u)
  BY <1>2, <1>3 DEF Has
<1>7. \A v \in Users : v # u => S.acc[v] = T.acc[v]
  BY <1>3, <1>4, <1>5 DEF Persisted
<1>8. FreshlyIn(S.acc[u], T, s)
  <2>1. /\ S.acc[u].store = s /\ S.acc[u].master = <<None, None>>
        /\ S.acc[u].device = <<None, None>>
    BY <1>2, <1>3, <1>5, <1>6 DEF Persisted
  <2>2. T.key # None => Encrypted(S.acc[u]) /\ S.acc[u].sec[2] = s
    BY <1>3, <1>4, <1>5, <1>6 DEF Persisted
  <2>3. T.key = None => S.acc[u].sec = g.sec /\ S.acc[u].plain = s
    BY <1>3, <1>4, <1>5, <1>6 DEF Persisted
  <2>4. T.key = None => ~Encrypted(S.acc[u])
    BY <1>2, <2>3 DEF Encrypted
  <2>5. QED BY <2>1, <2>2, <2>3, <2>4 DEF FreshlyIn
<1>9. QED BY <1>3, <1>4, <1>5, <1>7, <1>8 DEF Persisted, SignedIn

\* completeSignIn replaces the account's entry and retires the store it named.
LEMMA CompleteSignInKeeps ==
  ASSUME OneTab, AllInv, UNCHANGED env, NEW t \in Tabs, NEW o \in tab[t].ops,
         CompleteSignIn(t, o)
  PROVE  AllInv'
<1> DEFINE T == tab[t]
<1>u. PICK u, s : u = o.user /\ s = o.store
  OBVIOUS
<1>n. PICK n : n = [o EXCEPT !.step = "history"]
  OBVIOUS
<1>A. PICK A : A = Advance(tab[t], o, "history")
  OBVIOUS
<1>g. PICK g : g = FreshEntry(tab[t], u, s)
  OBVIOUS
<1>B. PICK B : B = [A EXCEPT !.acc[u] = g, !.active = u]
  OBVIOUS
<1>S. PICK S : S = SetMatrixSession(B, u, s)
  OBVIOUS
<1>old. PICK old : old = {x \in {tab[t].acc[u].store} : x # None /\ x # s}
  OBVIOUS
<1>1. /\ TypeOK /\ StoreInv /\ T \in Page /\ T.ops \subseteq Op /\ o \in Op /\ u \in Users
      /\ T.open /\ T.acc = pool /\ \A p \in T.ops \ {o} : ~(p.kind = "restore" /\ p.step = "start")
      /\ s \in Slots /\ NewInv(T) /\ T.acc[u] \in Entry
  BY <1>u, OpStart DEF StoreInv, Op, Page
<1>2. /\ o.kind = "login" /\ o.step = "sync" /\ Save(t, S)
      /\ RetireStores(old)
      /\ UNCHANGED <<devkey, devkeys, owner, secret, trusted, worker>>
  BY <1>u, <1>A, <1>g, <1>B, <1>S, <1>old DEF CompleteSignIn
<1>3. /\ n \in Op /\ n.kind = "login" /\ n.user = u /\ n.step = "history"
      /\ A \in Page /\ OnlyOps(A, T) /\ A.ops = (T.ops \ {o}) \cup {n}
  <2>1. "history" \in {"open", "sync", "history", "enable", "seal", "recover"}
    OBVIOUS
  <2>2. T \in Page /\ o \in Op
    BY <1>1
  <2>3. /\ n \in Op /\ n.kind = o.kind /\ n.user = o.user /\ n.step = "history"
        /\ A \in Page /\ OnlyOps(A, T) /\ A.ops = (T.ops \ {o}) \cup {n}
    BY <1>n, <1>A, <2>1, <2>2, AdvanceFacts
  <2>4. QED BY <1>2, <1>u, <2>3
<1>4. /\ s \in Stores \ queue /\ s \in stores /\ owner[s] = u /\ o \in LoginOps(T)
      /\ \A v \in Users : pool[v].store # s
  BY <1>1, <1>2, <1>u DEF NewInv, LoginOps
<1>5. u # NoUser /\ s # None /\ None \notin Stores
  BY <1>1, <1>4, AccountsAssumption DEF None, Stores
<1>6. SignedIn(S, T, u, s) /\ S.ops = A.ops
  <2>1. T \in Page /\ A \in Page /\ OnlyOps(A, T) /\ u \in Users /\ s \in Slots
    BY <1>1, <1>3
  <2>2. s # None /\ u # NoUser
    BY <1>5
  <2>3. Entered(B, A, T, u, s)
    BY <1>g, <1>B DEF Entered
  <2>4. QED BY <1>S, <2>1, <2>2, <2>3, SignedInFacts
<1>f. PICK f : f = S.acc[u]
  OBVIOUS
<1>7. FreshlyIn(f, T, s)
  BY <1>6, <1>f DEF SignedIn
<1>8. /\ S \in Page /\ S.open /\ S.key = T.key /\ S.dataKey = T.dataKey /\ S.prompt = T.prompt
      /\ S.ops = (T.ops \ {o}) \cup {n} /\ S.active = u /\ S.ms = u /\ S.blob = s
      /\ \A v \in Users : v # u => S.acc[v] = pool[v]
  <2>1. T.open /\ T.acc = pool /\ A.ops = (T.ops \ {o}) \cup {n}
    BY <1>1, <1>3
  <2>2. S.ops = A.ops
    BY <1>6
  <2>3. /\ S \in Page /\ S.open /\ S.key = T.key /\ S.dataKey = T.dataKey /\ S.prompt = T.prompt
        /\ S.active = u /\ S.ms = u /\ S.blob = s
    BY <1>6, <2>1 DEF SignedIn
  <2>4. \A v \in Users : v # u => S.acc[v] = pool[v]
    BY <1>6, <2>1 DEF SignedIn
  <2>5. QED BY <2>1, <2>2, <2>3, <2>4
<1>9. /\ pool' = S.acc /\ tab' = [tab EXCEPT ![t] = S]
      /\ tab' \in [Tabs -> Page] /\ T' = S /\ \A x \in Tabs : x = t
  BY <1>1, <1>2, <1>8, Moved DEF Save
<1>10. /\ pool' \in [Users -> Entry] /\ pool'[u] = f /\ pool'[u].store = s
       /\ \A v \in Users : v # u => pool'[v] = pool[v]
  <2>1. pool' \in [Users -> Entry]
    BY <1>8, <1>9 DEF Page
  <2>2. pool'[u] = f /\ f.store = s
    BY <1>7, <1>9, <1>f DEF FreshlyIn
  <2>3. \A v \in Users : v # u => pool'[v] = pool[v]
    BY <1>8, <1>9
  <2>4. QED BY <2>1, <2>2, <2>3
<1>11. \A x \in old : x = pool[u].store /\ Kept(x, u) /\ x # s
  BY <1>1, <1>old DEF StoreInv
<1>12. /\ queue \subseteq queue' /\ queue' \subseteq queue \cup old
       /\ stores' \subseteq stores /\ stores \subseteq stores' \cup old
       /\ old \subseteq Stores
  BY <1>2, <1>11, <1>old DEF RetireStores, Kept
<1>13. TypeOK'
  BY <1>1, <1>2, <1>9, <1>10, <1>12 DEF TypeOK
<1>14. Kept(s, u)' /\ \A v \in Users : v # u => \A x : Kept(x, v) => Kept(x, v)'
  BY <1>2, <1>4, <1>11, <1>12 DEF Kept
<1>15. StoreInv'
  <2>1. \A p \in LoginOps(S) : p \in LoginOps(T) /\ p # o
    BY <1>3, <1>8 DEF LoginOps
  <2>2. NewInv(S)'
    <3>1. (\A p \in LoginOps(S) :
             /\ p.store \in Stores \ queue /\ owner[p.store] = p.user
             /\ p.step = "sync" => p.store \in stores
             /\ \A v \in Users : pool[v].store # p.store)'
      <4> SUFFICES ASSUME NEW p \in LoginOps(S)
                   PROVE  (/\ p.store \in Stores \ queue /\ owner[p.store] = p.user
                           /\ p.step = "sync" => p.store \in stores
                           /\ \A v \in Users : pool[v].store # p.store)'
        BY DEF LoginOps
      <4>1. p \in LoginOps(T) /\ p # o
        BY <2>1
      <4>2. /\ p.store \in Stores \ queue /\ owner[p.store] = p.user
            /\ p.step = "sync" => p.store \in stores
            /\ \A v \in Users : pool[v].store # p.store
            /\ p.store # s
        BY <1>1, <1>4, <1>u, <4>1 DEF NewInv
      <4>3. p.store \notin old
        BY <1>1, <1>11, <4>2
      <4>4. \A v \in Users : pool'[v].store # p.store
        BY <1>10, <4>2
      <4>5. QED BY <1>2, <1>12, <4>2, <4>3, <4>4
    <3>2. \A p, q \in LoginOps(S) : p.store = q.store => p = q
      BY <1>1, <2>1 DEF NewInv
    <3>3. QED BY <3>1, <3>2 DEF NewInv, LoginOps
  <2>3. RestoreInv(S)
    BY <1>1, <1>3, <1>8 DEF RestoreInv
  <2>4. ActiveInv(S)
    BY <1>1, <1>8 DEF ActiveInv
  <2>5. \A v \in Users : pool'[v].store # None => Kept(pool[v].store, v)'
    <3>1. Kept(pool[u].store, u)'
      BY <1>10, <1>14 DEF Kept
    <3>2. \A v \in Users \ {u} : pool'[v].store # None => Kept(pool[v].store, v)'
      BY <1>1, <1>10, <1>14 DEF StoreInv, Kept
    <3>3. QED BY <3>1, <3>2
  <2>6. \A x \in queue' : owner'[x] # NoUser
    BY <1>1, <1>2, <1>5, <1>11, <1>12 DEF StoreInv, Kept
  <2>7. QED BY <1>1, <1>8, <1>9, <2>2, <2>3, <2>4, <2>5, <2>6, StoreStep
<1>16. Oauth = Users => PlainInv'
  <2> SUFFICES ASSUME Oauth = Users PROVE PlainInv'
    OBVIOUS
  <2>1. PlainInv /\ PlainPage(T)
    BY OpStart DEF AllInv
  <2>2. PlainPage(S)
    <3>1. T.key = None /\ T.dataKey = None /\ T.prompt # "unlock"
          /\ \A p \in T.ops : p.kind \notin {"device", "unlock"}
      BY <2>1 DEF PlainPage
    <3>2. S.key = None /\ S.dataKey = None /\ S.prompt # "unlock"
      BY <1>8, <3>1
    <3>3. \A p \in S.ops : p.kind \notin {"device", "unlock"}
      BY <1>3, <1>8, <3>1
    <3>4. QED BY <3>2, <3>3 DEF PlainPage
  <2>3. ~Encrypted(pool'[u]) /\ pool'[u].device = <<None, None>>
    BY <1>7, <1>8, <1>10, <2>1 DEF PlainPage, FreshlyIn
  <2>4. \A v \in Users : ~Encrypted(pool'[v]) /\ pool'[v].device = <<None, None>>
    BY <1>10, <2>1, <2>3 DEF PlainInv
  <2>5. QED BY <1>9, <2>2, <2>4 DEF PlainInv, PlainPage, Encrypted
<1>17. ASSUME Oauth = {}, Calm PROVE PasswordInv'
  <2>1. /\ PasswordInv /\ PasswordPage(T) /\ PromptInv(T) /\ T.ops = {o} /\ InLogin(T, o)
    BY <1>2, <1>17, <1>u, OpStart DEF InHistory, InRestore, InDevice, InRecover, InUnlock
  <2>2. /\ T.prompt = "none" /\ T.dataKey = s /\ s \notin trusted /\ worker.session[u] = s
        /\ T.ops \subseteq LoginOps(T) /\ S.ops = {n}
    BY <1>2, <1>4, <1>8, <1>u, <2>1 DEF InLogin
  <2>3. (Has(pool, u) /\ ~Wrapped(pool[u]) /\ pool[u].master = <<None, None>>)'
    BY <1>5, <1>7, <1>10, EmptyTypes DEF Has, Wrapped, FreshlyIn
  <2>4. \/ Encrypted(f) /\ f.sec[2] = s
        \/ ~Encrypted(f) /\ f.plain = s
    BY <1>7 DEF FreshlyIn
  <2>5. \A v \in Users : EntryInv(v)'
    <3>1. ASSUME NEW v \in Users, v # u PROVE EntryInv(v)'
      <4>1. EntryInv(v) /\ pool'[v] = pool[v] /\ worker'.session[v] = worker.session[v]
        BY <1>2, <1>10, <2>1, <3>1 DEF PasswordInv
      <4>2. \A x \in Stores : Kept(x, v) => Kept(x, v)'
        BY <1>14, <3>1
      <4>3. QED BY <1>2, <4>1, <4>2, EntryStays
    <3>2. EntryInv(u)'
      <4>1. (/\ Encrypted(pool[u]) => Kept(pool[u].sec[2], u)
             /\ ~Encrypted(pool[u]) => Kept(pool[u].plain, u)
             /\ Kept(worker.session[u], u))'
        <5>1. worker'.session[u] = s /\ pool'[u] = f /\ Kept(s, u)'
          BY <1>2, <1>10, <1>14, <2>2
        <5>2. CASE Encrypted(f) /\ f.sec[2] = s
          BY <5>1, <5>2 DEF Encrypted, Kept
        <5>3. CASE ~Encrypted(f) /\ f.plain = s
          BY <5>1, <5>3 DEF Encrypted, Kept
        <5>4. QED BY <2>4, <5>2, <5>3
      <4>2. QED BY <2>3, <4>1 DEF EntryInv
    <3>3. QED BY <3>1, <3>2
  <2>6. Live(S, u)'
    BY <1>1, <1>2, <1>5, <1>8, <2>2, <2>3 DEF Live
  <2>7. OpInv(T)'
    <3>1. InHistory(S, n)'
      BY <1>3, <1>8, <2>2, <2>6 DEF InHistory
    <3>2. QED BY <1>9, <2>2, <3>1 DEF OpInv
  <2>8. PromptInv(T)'
    BY <1>2, <1>8, <1>9, <2>1, <2>2 DEF PromptInv
  <2>9. GateInv(T)'
    BY <1>3, <1>9, <2>2 DEF GateInv, LoginOps
  <2>10. "first_sync" \notin Faults => OneStoreInv(T)'
    <3> SUFFICES ASSUME "first_sync" \notin Faults PROVE OneStoreInv(T)'
      OBVIOUS
    <3>1. OneStoreInv(T)
      BY <2>1 DEF PasswordPage
    <3>2. \A v \in Users : v # u /\ Has(pool, v) /\ worker.session[v] # None =>
            worker.session[v] = pool[v].store
      BY <1>2, <1>u, <2>1, <3>1 DEF OneStoreInv
    <3>3. \A v \in Users \ {u} : Has(pool, v)' =>
            (/\ Encrypted(pool[v]) => pool[v].sec[2] = pool[v].store
             /\ ~Encrypted(pool[v]) => pool[v].plain = pool[v].store
             /\ Wrapped(pool[v]) => pool[v].store \in trusted
             /\ worker.session[v] # None => worker.session[v] = pool[v].store)'
      <4> TAKE v \in Users \ {u}
      <4>1. pool'[v] = pool[v] /\ worker' = worker /\ trusted' = trusted
        BY <1>2, <1>10
      <4>2. QED BY <3>1, <3>2, <4>1 DEF OneStoreInv, Has, Encrypted, Wrapped
    <3>4. (/\ Encrypted(pool[u]) => pool[u].sec[2] = pool[u].store
           /\ ~Encrypted(pool[u]) => pool[u].plain = pool[u].store
           /\ worker.session[u] = pool[u].store)'
      BY <1>2, <1>10, <2>2, <2>4 DEF Encrypted
    <3>5. QED BY <2>3, <3>3, <3>4 DEF OneStoreInv
  <2>11. Faults = {} => KeyInv(T)'
    <3> SUFFICES ASSUME Faults = {} PROVE KeyInv(T)'
      OBVIOUS
    <3>1. KeyInv(T) /\ ~Steered(T)
      BY <1>2, <2>1, <2>2 DEF PasswordPage, Steered
    <3>2. \A v \in Users : v # u =>
            ~(Has(pool, v) /\ ~Encrypted(pool[v]) /\ worker.session[v] # None)
      BY <1>2, <1>u, <2>1, <3>1 DEF KeyInv
    <3>3. \A v \in Users : v # u =>
            ~(Has(pool, v) /\ ~Encrypted(pool[v]) /\ worker.session[v] # None)'
      BY <1>2, <1>10, <3>2 DEF Has, Encrypted
    <3>4. Steered(T)' /\ T'.ops = {n} /\ T'.prompt = "none" /\ T'.ms = u
          /\ T'.dataKey = s /\ T'.blob = s
      BY <1>3, <1>8, <1>9, <2>2 DEF Steered
    <3>5. (\A v \in Users : Wrapped(pool[v]) => pool[v].sec[2] = pool[v].master[2])'
      <4>1. \A v \in Users \ {u} : Wrapped(pool'[v]) => pool'[v].sec[2] = pool'[v].master[2]
        BY <1>10, <3>1 DEF KeyInv, Wrapped
      <4>2. ~Wrapped(pool'[u])
        BY <2>3 DEF Wrapped
      <4>3. QED BY <4>1, <4>2 DEF Wrapped
    <3>6. QED BY <1>2, <1>3, <2>2, <3>3, <3>4, <3>5 DEF KeyInv
  <2>12. PasswordPage(T)'
    BY <2>7, <2>8, <2>9, <2>10, <2>11, EnvStays DEF PasswordPage
  <2>13. (\A x \in trusted : x \in Stores /\ owner[x] # NoUser)'
    BY <1>2, <2>1 DEF PasswordInv
  <2>14. QED BY <1>9, <2>5, <2>12, <2>13 DEF PasswordInv
<1>18. QED BY <1>13, <1>15, <1>16, <1>17, EnvStays DEF AllInv

\* The store of a new login: the first number nobody's login has used.
LEMMA FreeStore ==
  ASSUME TypeOK, FreeStores # {}, NEW s, s = CHOOSE x \in FreeStores : \A y \in FreeStores : x <= y
  PROVE  s \in Stores /\ s \in Slots /\ s # None /\ owner[s] = NoUser
<1>1. FreeStores \in SUBSET Nat
  BY AccountsAssumption DEF FreeStores, Stores
<1> DEFINE R == OpToRel(<, Nat)
<1>2. \A x, y \in Nat : y < x => <<y, x>> \in R
  BY DEF OpToRel
<1>3. IsWellFoundedOn(R, Nat)
  BY NatLessThanWellFounded DEF OpToRel
<1> HIDE DEF R
<1>4. PICK x \in FreeStores : \A y \in FreeStores : ~(<<y, x>> \in R)
  BY <1>1, <1>3, WFMin, Zenon
<1>5. \A y \in FreeStores : y \in Nat /\ x \in Nat /\ ~(y < x)
  BY <1>1, <1>2, <1>4
<1>6. \A y \in FreeStores : x <= y
  BY <1>5
<1>7. s \in FreeStores
  BY <1>6
<1>8. s \in Stores /\ owner[s] = NoUser
  BY <1>7 DEF FreeStores
<1>9. Stores \subseteq Slots /\ None \notin Stores
  BY AccountsAssumption DEF Stores, Slots, None
<1>10. QED BY <1>8, <1>9

\* Page S of a login's operation n, which draws data key k.
LoginPage(S, T, n, k) ==
  /\ S \in Page /\ S.open = T.open /\ S.acc = T.acc /\ S.key = T.key /\ S.prompt = T.prompt
  /\ S.active = T.active /\ S.ms = T.ms /\ S.blob = T.blob /\ S.ops = T.ops \cup {n}
  /\ S.dataKey = k

LEMMA LoginPageFacts ==
  ASSUME NEW T \in Page, NEW n \in Op, NEW k \in Slots, NEW S,
         S = [Begin(T, n) EXCEPT !.dataKey = k]
  PROVE  LoginPage(S, T, n, k)
<1> DEFINE B == Begin(T, n)
<1>1. B \in Page /\ OnlyOps(B, T) /\ B.ops = T.ops \cup {n}
  BY BeginFacts
<1>2. S = [B EXCEPT !.dataKey = k]
  OBVIOUS
<1> HIDE DEF B
<1>3. /\ S \in Page /\ S.open = B.open /\ S.acc = B.acc /\ S.key = B.key
      /\ S.prompt = B.prompt /\ S.active = B.active /\ S.ms = B.ms /\ S.blob = B.blob
      /\ S.ops = B.ops /\ S.dataKey = k
  BY <1>1, <1>2 DEF Page
<1>4. QED BY <1>1, <1>3 DEF OnlyOps, LoginPage

LEMMA StartLoginFacts ==
  ASSUME TypeOK, NEW t \in Tabs, NEW u \in Users, NEW d \in BOOLEAN, StartLogin(t, u, d)
  PROVE  \E s, n, S :
           /\ s \in Stores /\ s \in Slots /\ s # None /\ owner[s] = NoUser
           /\ n \in Op /\ n.kind = "login" /\ n.user = u /\ n.step = "start" /\ n.store = s
           /\ LoginPage(S, tab[t], n, IF d THEN s ELSE tab[t].dataKey)
           /\ owner' = [owner EXCEPT ![s] = u] /\ Keep(t, S)
<1> DEFINE s == CHOOSE x \in FreeStores : \A y \in FreeStores : x <= y
           n == [kind |-> "login", user |-> u, step |-> "start",
                 store |-> s, key |-> None, secret |-> None]
           k == IF d THEN s ELSE tab[t].dataKey
           S == [Begin(tab[t], n) EXCEPT !.dataKey = k]
<1>1. FreeStores # {} /\ owner' = [owner EXCEPT ![s] = u]
  BY DEF StartLogin
<1>2. Keep(t, [Begin(tab[t], n) EXCEPT !.dataKey = IF d THEN s ELSE @])
  BY DEF StartLogin
<1>3. s \in Stores /\ s \in Slots /\ s # None /\ owner[s] = NoUser
  BY <1>1, FreeStore
<1> HIDE DEF s
<1>4. n \in Op /\ n.kind = "login" /\ n.user = u /\ n.step = "start" /\ n.store = s
  BY <1>3, AccountsAssumption DEF Op, None, Slots
<1>5. tab[t] \in Page /\ k \in Slots
  BY <1>3, Here DEF Page
<1>6. Begin(tab[t], n).dataKey = tab[t].dataKey
  BY <1>5 DEF Begin, Page
<1>7. [Begin(tab[t], n) EXCEPT !.dataKey = IF d THEN s ELSE @] = S
  BY <1>6
<1> HIDE DEF n
<1>8. LoginPage(S, tab[t], n, k)
  BY <1>4, <1>5, LoginPageFacts
<1>9. Keep(t, S)
  BY <1>2, <1>7 DEF n
<1> HIDE DEF S
<1>10. QED BY <1>1, <1>3, <1>4, <1>8, <1>9

\* A login begins over a store nobody has.
LEMMA StartLoginKeeps ==
  ASSUME OneTab, AllInv, UNCHANGED env, NEW t \in Tabs, NEW u \in Users, NEW d \in BOOLEAN,
         SubmitEnabled(tab[t]), StartLogin(t, u, d), d => u \notin Oauth, ~d => u \in Oauth
  PROVE  AllInv'
<1> DEFINE T == tab[t]
<1>1. /\ TypeOK /\ StoreInv /\ T \in Page /\ T.ops \subseteq Op
      /\ T.open /\ T.acc = pool /\ ActiveInv(T) /\ T.prompt = "none" /\ Room(T)
      /\ NewInv(T) /\ \A p \in T.ops : ~(p.kind = "restore" /\ p.step = "start")
  BY UserStart DEF SubmitEnabled, Busy, StoreInv
<1> PICK s, n, S :
      /\ s \in Stores /\ s \in Slots /\ s # None /\ owner[s] = NoUser
      /\ n \in Op /\ n.kind = "login" /\ n.user = u /\ n.step = "start" /\ n.store = s
      /\ LoginPage(S, tab[t], n, IF d THEN s ELSE tab[t].dataKey)
      /\ owner' = [owner EXCEPT ![s] = u] /\ Keep(t, S)
  BY <1>1, StartLoginFacts
<1>2. /\ owner' = [owner EXCEPT ![s] = u] /\ Keep(t, S)
      /\ UNCHANGED <<devkey, devkeys, stores, queue, secret, trusted, worker>>
  BY DEF StartLogin
<1>3. s \in Stores /\ s \in Slots /\ s # None /\ owner[s] = NoUser
  OBVIOUS
<1>4. u # NoUser /\ \A v \in Users : v # NoUser
  BY AccountsAssumption
<1>5. n \in Op /\ n.kind = "login" /\ n.user = u /\ n.step = "start" /\ n.store = s
  OBVIOUS
<1>6. /\ S \in Page /\ S.open /\ S.acc = pool /\ S.key = T.key /\ S.prompt = "none"
      /\ S.active = T.active /\ S.ms = T.ms /\ S.blob = T.blob /\ S.ops = T.ops \cup {n}
      /\ S.dataKey = IF d THEN s ELSE T.dataKey
  BY <1>1 DEF LoginPage
<1>7. /\ pool' = pool /\ tab' = [tab EXCEPT ![t] = S]
      /\ tab' \in [Tabs -> Page] /\ T' = S /\ \A x \in Tabs : x = t
  BY <1>1, <1>2, <1>6, Moved DEF Keep
<1>8. /\ owner' \in [Stores -> People] /\ owner'[s] = u
       /\ \A x \in Stores : owner[x] # NoUser => owner'[x] = owner[x]
  BY <1>1, <1>2, <1>3 DEF TypeOK, People
<1>9. TypeOK'
  BY <1>1, <1>2, <1>7, <1>8 DEF TypeOK
<1>10. \A x : \A v \in Users : Kept(x, v) => Kept(x, v)'
  BY <1>2, <1>4, <1>8 DEF Kept
<1>11. s \notin queue /\ \A v \in Users : pool[v].store # s
  BY <1>1, <1>3, <1>4 DEF StoreInv, Kept
<1>12. StoreInv'
  <2>1. \A p \in LoginOps(S) : p = n \/ p \in LoginOps(T)
    BY <1>6 DEF LoginOps
  <2>2. \A p \in LoginOps(T) : p.user \in Users /\ p.store \in Stores /\ p.store # s
                               /\ owner'[p.store] = p.user
    <3> TAKE p \in LoginOps(T)
    <3>1. p.user \in Users
      BY <1>1 DEF LoginOps, Op
    <3>2. p.store \in Stores /\ owner[p.store] = p.user
      BY <1>1 DEF NewInv
    <3>3. QED BY <1>3, <1>4, <1>8, <3>1, <3>2
  <2>3. NewInv(S)'
    <3>1. (\A p \in LoginOps(S) :
             /\ p.store \in Stores \ queue /\ owner[p.store] = p.user
             /\ p.step = "sync" => p.store \in stores
             /\ \A v \in Users : pool[v].store # p.store)'
      <4> SUFFICES ASSUME NEW p \in LoginOps(S)
                   PROVE  (/\ p.store \in Stores \ queue /\ owner[p.store] = p.user
                           /\ p.step = "sync" => p.store \in stores
                           /\ \A v \in Users : pool[v].store # p.store)'
        BY DEF LoginOps
      <4>1. CASE p = n
        BY <1>2, <1>3, <1>5, <1>7, <1>8, <1>11, <4>1
      <4>2. CASE p \in LoginOps(T)
        BY <1>1, <1>2, <1>7, <2>2, <4>2 DEF NewInv
      <4>3. QED BY <2>1, <4>1, <4>2
    <3>2. \A p, q \in LoginOps(S) : p.store = q.store => p = q
      BY <1>1, <1>5, <2>1, <2>2 DEF NewInv
    <3>3. QED BY <3>1, <3>2 DEF NewInv, LoginOps
  <2>4. RestoreInv(S)
    BY <1>1, <1>5, <1>6 DEF RestoreInv
  <2>5. ActiveInv(S)
    BY <1>1, <1>5, <1>6 DEF ActiveInv
  <2>6. \A v \in Users : pool'[v].store # None => Kept(pool[v].store, v)'
    BY <1>1, <1>7, <1>10 DEF StoreInv, Kept
  <2>7. \A x \in queue' : owner'[x] # NoUser
    BY <1>1, <1>2, <1>8 DEF StoreInv, TypeOK
  <2>8. QED BY <1>1, <1>6, <1>7, <2>3, <2>4, <2>5, <2>6, <2>7, StoreStep
<1>13. Oauth = Users => PlainInv'
  <2> SUFFICES ASSUME Oauth = Users PROVE PlainInv'
    OBVIOUS
  <2>1. PlainInv /\ PlainPage(T) /\ ~d
    BY <1>1, UserStart DEF AllInv
  <2>2. PlainPage(S)
    BY <1>5, <1>6, <2>1 DEF PlainPage
  <2>3. QED BY <1>7, <2>1, <2>2 DEF PlainInv, PlainPage, Encrypted
<1>14. ASSUME Oauth = {}, Calm PROVE PasswordInv'
  <2>1. PasswordInv /\ PasswordPage(T) /\ PromptInv(T) /\ T.ops = {} /\ d
    BY <1>1, <1>14, UserStart
  <2>2. S.ops = {n} /\ S.dataKey = s
    BY <1>6, <2>1
  <2>3. s \notin trusted
    BY <1>3, <2>1 DEF PasswordInv
  <2>4. \A v \in Users : pool[v].master[2] # s
    <3> TAKE v \in Users
    <3>1. EntryInv(v)
      BY <2>1 DEF PasswordInv
    <3>2. CASE Has(pool, v)
      <4>1. CASE Wrapped(pool[v])
        BY <1>3, <3>1, <3>2, <4>1 DEF EntryInv
      <4>2. CASE ~Wrapped(pool[v])
        <5>1. pool[v].master = <<None, None>>
          BY <3>1, <3>2, <4>2 DEF EntryInv
        <5>2. QED BY <1>3, <5>1
      <4>3. QED BY <4>1, <4>2
    <3>3. CASE ~Has(pool, v)
      <4>1. pool[v].master = <<None, None>>
        BY <1>4, <3>3, EmptyTypes DEF Has
      <4>2. QED BY <1>3, <4>1
    <3>4. QED BY <3>2, <3>3
  <2>5. \A v \in Users : EntryInv(v)'
    <3> TAKE v \in Users
    <3>1. EntryInv(v) /\ pool'[v] = pool[v]
      BY <1>7, <2>1 DEF PasswordInv
    <3>2. \A x \in Stores : owner[x] # NoUser => owner'[x] # NoUser
      BY <1>8
    <3>3. \A x \in Stores : Kept(x, v) => Kept(x, v)'
      BY <1>10
    <3>4. QED BY <1>2, <3>1, <3>2, <3>3, EntryStays
  <2>6. OpInv(T)'
    <3>1. InLogin(S, n)'
      BY <1>2, <1>5, <1>6, <1>7, <2>2, <2>3, <2>4 DEF InLogin
    <3>2. QED BY <1>7, <2>2, <3>1 DEF OpInv
  <2>7. PromptInv(T)'
    BY <1>3, <1>4, <1>6, <1>7, <1>8, <2>1, <2>2 DEF PromptInv
  <2>8. "unsettled" \notin Faults => GateInv(T)'
    BY <1>1, <1>2, <1>6, <1>7, <2>1 DEF PasswordPage, GateInv, LoginOps, Has
  <2>9. "first_sync" \notin Faults => OneStoreInv(T)'
    BY <1>2, <1>7, <2>1 DEF PasswordPage, OneStoreInv, Has, Encrypted, Wrapped
  <2>10. Faults = {} => KeyInv(T)'
    <3> SUFFICES ASSUME Faults = {} PROVE KeyInv(T)'
      OBVIOUS
    <3>1. KeyInv(T) /\ ~Steered(T) /\ ~Steered(S)
      BY <1>1, <1>5, <1>6, <2>1, <2>2 DEF PasswordPage, Steered
    <3>2. \A v \in Users : Wrapped(pool[v]) => pool[v].sec[2] = pool[v].master[2]
      BY <3>1 DEF KeyInv
    <3>3. \A v \in Users : ~(Has(pool, v) /\ ~Encrypted(pool[v]) /\ worker.session[v] # None)
      BY <2>1, <3>1 DEF KeyInv
    <3>4. (\A v \in Users : Wrapped(pool[v]) => pool[v].sec[2] = pool[v].master[2])'
      BY <1>7, <3>2 DEF Wrapped
    <3>5. (\A v \in Users : ~(Has(pool, v) /\ ~Encrypted(pool[v]) /\ worker.session[v] # None))'
      BY <1>2, <1>7, <3>3 DEF Has, Encrypted
    <3>6. ~Steered(T)' /\ T'.ops = {n} /\ T'.prompt = "none"
      BY <1>6, <1>7, <2>2, <3>1 DEF Steered
    <3>7. QED BY <1>5, <3>4, <3>5, <3>6 DEF KeyInv
  <2>11. PasswordPage(T)'
    BY <2>6, <2>7, <2>8, <2>9, <2>10, EnvStays DEF PasswordPage
  <2>12. (\A x \in trusted : x \in Stores /\ owner[x] # NoUser)'
    BY <1>2, <1>8, <2>1 DEF PasswordInv
  <2>13. QED BY <1>7, <2>5, <2>11, <2>12 DEF PasswordInv
<1>15. QED BY <1>9, <1>12, <1>13, <1>14, EnvStays DEF AllInv

LEMMA HandleSubmitKeeps ==
  ASSUME OneTab, AllInv, UNCHANGED env, NEW t \in Tabs, NEW u \in Users,
         HandleSubmit(t, u) \/ HandleOauthSignIn(t, u)
  PROVE  AllInv'
<1>1. CASE HandleSubmit(t, u)
  BY <1>1, StartLoginKeeps DEF HandleSubmit, SignIn, SignUp
<1>2. CASE HandleOauthSignIn(t, u)
  BY <1>2, StartLoginKeeps DEF HandleOauthSignIn, SignInWithOauth
<1>3. QED BY <1>1, <1>2

\* Page S after the entry of u is gone: with nothing under way but its own restore, and
\* signed out if u was the active account.
Left(S, T, u) ==
  /\ S.open /\ S.acc = [T.acc EXCEPT ![u] = NoEntry] /\ S.ops = {} /\ S.prompt = "none"
  /\ S.key \in {T.key, None} /\ S.dataKey \in {T.dataKey, None}
  /\ \A o \in T.ops : o.kind = "restore" /\ o.step = "start"
  /\ \/ S.ms = NoUser /\ (u = T.active \/ T.ms = NoUser)
     \/ /\ S.ms = T.ms /\ S.active = T.active /\ S.blob = T.blob
        /\ u # T.active /\ T.prompt = "none" /\ T.ops = {}

LEMMA LeaveStep ==
  ASSUME OneTab, AllInv, UNCHANGED env, NEW t \in Tabs, NEW u \in Users, tab[t].open,
         NEW S \in Page, Save(t, S), Left(S, tab[t], u), devkey' \in Nat,
         RetireStores({tab[t].acc[u].store} \ {None}) \/ UNCHANGED <<stores, queue>>,
         UNCHANGED <<devkeys, owner, secret, trusted, worker>>
  PROVE  AllInv'
<1> DEFINE T == tab[t]
<1>1. /\ TypeOK /\ StoreInv /\ T \in Page /\ T.acc = pool /\ NoEntry \in Entry
  BY UserStart, EmptyTypes
<1>2. /\ S.open /\ S.acc = [pool EXCEPT ![u] = NoEntry] /\ S.ops = {} /\ S.prompt = "none"
      /\ S.key \in {T.key, None} /\ S.dataKey \in {T.dataKey, None}
      /\ \A o \in T.ops : o.kind = "restore" /\ o.step = "start"
      /\ \/ S.ms = NoUser /\ (u = T.active \/ T.ms = NoUser)
         \/ /\ S.ms = T.ms /\ S.active = T.active /\ S.blob = T.blob
            /\ u # T.active /\ T.prompt = "none" /\ T.ops = {}
  BY <1>1 DEF Left
<1>3. u # NoUser /\ None \notin Stores
  BY AccountsAssumption DEF None, Stores
<1>4. /\ pool' = S.acc /\ tab' = [tab EXCEPT ![t] = S]
      /\ tab' \in [Tabs -> Page] /\ T' = S /\ \A x \in Tabs : x = t
  BY <1>1, Moved DEF Save
<1>5. /\ pool' \in [Users -> Entry] /\ pool'[u] = NoEntry
      /\ \A v \in Users : v # u => pool'[v] = pool[v]
  BY <1>1, <1>2, <1>4 DEF TypeOK
<1> PICK old : old = {tab[t].acc[u].store} \ {None}
  OBVIOUS
<1>6. \A x \in old : x = pool[u].store /\ Kept(x, u)
  BY <1>1 DEF StoreInv
<1>7. /\ queue \subseteq queue' /\ queue' \subseteq queue \cup old
      /\ stores' \subseteq stores /\ stores \subseteq stores' \cup old
      /\ old \subseteq Stores
  BY <1>6 DEF RetireStores, Kept
<1>8. TypeOK'
  BY <1>1, <1>4, <1>5, <1>7 DEF TypeOK
<1>9. \A v \in Users : v # u => \A x : Kept(x, v) => Kept(x, v)'
  BY <1>6, <1>7 DEF Kept
<1>10. StoreInv'
  <2>1. NewInv(S)'
    BY <1>2 DEF NewInv, LoginOps
  <2>2. RestoreInv(S) /\ ActiveInv(S)
    BY <1>2 DEF RestoreInv, ActiveInv
  <2>3. \A v \in Users : pool'[v].store # None => Kept(pool[v].store, v)'
    <3> TAKE v \in Users
    <3>1. CASE v = u
      BY <1>5, <3>1, EmptyTypes
    <3>2. CASE v # u
      BY <1>1, <1>5, <1>9, <3>2 DEF StoreInv, Kept
    <3>3. QED BY <3>1, <3>2
  <2>4. \A x \in queue' : owner'[x] # NoUser
    BY <1>1, <1>3, <1>6, <1>7 DEF StoreInv, Kept
  <2>5. QED BY <1>1, <1>2, <1>4, <2>1, <2>2, <2>3, <2>4, StoreStep
<1>11. Oauth = Users => PlainInv'
  <2> SUFFICES ASSUME Oauth = Users PROVE PlainInv'
    OBVIOUS
  <2>1. PlainInv /\ PlainPage(T)
    BY UserStart DEF AllInv
  <2>2. PlainPage(S)
    BY <1>2, <2>1 DEF PlainPage
  <2>3. ~Encrypted(NoEntry) /\ NoEntry.device = <<None, None>>
    BY EmptyTypes DEF Encrypted
  <2>4. \A v \in Users : ~Encrypted(pool'[v]) /\ pool'[v].device = <<None, None>>
    BY <1>5, <2>1, <2>3 DEF PlainInv
  <2>5. QED BY <1>4, <2>2, <2>4 DEF PlainInv, PlainPage, Encrypted
<1>12. ASSUME Oauth = {}, Calm PROVE PasswordInv'
  <2>1. PasswordInv /\ PasswordPage(T) /\ PromptInv(T)
    BY <1>12, UserStart
  <2>2. ~Has(pool, u)' /\ ~Wrapped(pool'[u])
    BY <1>5, EmptyTypes DEF Has, Wrapped
  <2>3. \A v \in Users : EntryInv(v)'
    <3>1. ASSUME NEW v \in Users, v # u PROVE EntryInv(v)'
      <4>1. EntryInv(v) /\ pool'[v] = pool[v]
        BY <1>5, <2>1, <3>1 DEF PasswordInv
      <4>2. \A x \in Stores : Kept(x, v) => Kept(x, v)'
        BY <1>9, <3>1
      <4>3. QED BY <4>1, <4>2, EntryStays
    <3>2. EntryInv(u)'
      BY <2>2 DEF EntryInv
    <3>3. QED BY <3>1, <3>2
  <2>4. OpInv(T)'
    BY <1>2, <1>4 DEF OpInv
  <2>5. PromptInv(T)'
    BY <1>2, <1>4, <2>1 DEF PromptInv
  <2>6. "unsettled" \notin Faults => GateInv(T)'
    <3> SUFFICES ASSUME "unsettled" \notin Faults, S.ms # NoUser, Has(pool, S.ms)'
                 PROVE  S.blob \in trusted'
      BY <1>4 DEF GateInv
    <3>1. GateInv(T) /\ S.ms = T.ms /\ S.blob = T.blob /\ T.prompt = "none" /\ T.ms = T.active
          /\ T.ms # u /\ T.ms \in Users
      BY <1>1, <1>2, <2>1 DEF PasswordPage, PromptInv, Page, People
    <3>2. Has(pool, T.ms)
      BY <1>5, <3>1 DEF Has
    <3>3. T.ops \subseteq LoginOps(T)
      BY <1>2
    <3>4. QED BY <3>1, <3>2, <3>3, AccountsAssumption DEF GateInv
  <2>7. "first_sync" \notin Faults => OneStoreInv(T)'
    <3> SUFFICES ASSUME "first_sync" \notin Faults PROVE OneStoreInv(T)'
      OBVIOUS
    <3>1. \A v \in Users : Has(pool, v) =>
            /\ Encrypted(pool[v]) => pool[v].sec[2] = pool[v].store
            /\ ~Encrypted(pool[v]) => pool[v].plain = pool[v].store
            /\ Wrapped(pool[v]) => pool[v].store \in trusted
            /\ worker.session[v] # None => worker.session[v] = pool[v].store
      BY <1>2, <2>1 DEF PasswordPage, OneStoreInv
    <3>2. \A v \in Users : Has(pool, v)' => Has(pool, v) /\ pool'[v] = pool[v]
      BY <1>5, <2>2 DEF Has
    <3>3. QED BY <3>1, <3>2 DEF OneStoreInv, Encrypted, Wrapped
  <2>8. Faults = {} => KeyInv(T)'
    <3> SUFFICES ASSUME Faults = {} PROVE KeyInv(T)'
      OBVIOUS
    <3>1. KeyInv(T)
      BY <2>1 DEF PasswordPage
    <3>2. (\A v \in Users : Wrapped(pool[v]) => pool[v].sec[2] = pool[v].master[2])'
      <4>1. \A v \in Users : v # u /\ Wrapped(pool'[v]) => pool'[v].sec[2] = pool'[v].master[2]
        BY <1>5, <3>1 DEF KeyInv, Wrapped
      <4>2. QED BY <2>2, <4>1 DEF Wrapped
    <3>3. (\A v \in Users : ~(Has(pool, v) /\ ~Encrypted(pool[v]) /\ worker.session[v] # None))'
      <4>1. ASSUME NEW v \in Users, v # u, Has(pool, v), ~Encrypted(pool[v]),
                     worker.session[v] # None
            PROVE  FALSE
        <5>1. T.ms = v /\ Steered(T)
          BY <1>2, <3>1, <4>1 DEF KeyInv
        <5>2. T.active = v
          BY <2>1, <4>1, <5>1, AccountsAssumption DEF PromptInv
        <5>3. QED BY <1>2, <4>1, <5>1, <5>2, AccountsAssumption DEF Steered
      <4>2. \A v \in Users : Has(pool, v)' => v # u /\ Has(pool, v) /\ pool'[v] = pool[v]
        BY <1>5, <2>2 DEF Has
      <4>3. QED BY <4>1, <4>2 DEF Encrypted
    <3>4. ~Steered(T)' /\ T'.ops = {} /\ T'.prompt = "none"
      BY <1>2, <1>4 DEF Steered
    <3>5. QED BY <3>2, <3>3, <3>4 DEF KeyInv
  <2>9. PasswordPage(T)'
    BY <2>4, <2>5, <2>6, <2>7, <2>8, EnvStays DEF PasswordPage
  <2>10. (\A x \in trusted : x \in Stores /\ owner[x] # NoUser)'
    BY <2>1 DEF PasswordInv
  <2>11. QED BY <1>4, <2>3, <2>9, <2>10 DEF PasswordInv
<1>13. QED BY <1>8, <1>10, <1>11, <1>12, EnvStays DEF AllInv

\* An account the page may make its active one.
LEMMA ActivePerson ==
  ASSUME NEW T \in Page, NEW acc, NEW n \in ActiveOf(T, acc)
  PROVE  n \in People /\ (n # NoUser => n \in Users)
BY DEF ActiveOf, Page, People, Accounts

LEMMA SignOutKeeps ==
  ASSUME OneTab, "interrupted" \notin Faults, AllInv, UNCHANGED env, NEW t \in Tabs,
         SignOut(t), tab[t].open \/ tab[t].prompt # "none"
  PROVE  AllInv'
<1> DEFINE T == tab[t]
           u == T.active
           acc == [T.acc EXCEPT ![u] = NoEntry]
<1>1. T \in Page /\ T.open /\ T.acc = pool
  BY UserStart
<1>2. /\ Has(T.acc, u) /\ T.ops = {} /\ devkey' = None
      /\ RetireStores({T.acc[u].store} \ {None})
      /\ UNCHANGED <<devkeys, owner, secret, trusted, worker>>
  BY DEF SignOut, Leavable
<1>3. u \in Users
  BY <1>1, <1>2 DEF Has, Page, People
<1> DEFINE S(n) == [T EXCEPT !.acc = acc, !.active = n, !.ms = NoUser, !.blob = None,
                             !.key = None, !.dataKey = None, !.pending = NoEntry,
                             !.prompt = "none"]
           people == ActiveOf([T EXCEPT !.active = NoUser], acc)
<1>4. \E n \in people : Save(t, S(n))
  BY Zenon DEF SignOut
<1>5. [T EXCEPT !.active = NoUser] \in Page
  BY <1>1 DEF Page, People
<1>6. \A n \in people : n \in People
  BY <1>5, ActivePerson
<1>7. acc \in [Users -> Entry] /\ None \in Slots /\ None \in Nat
  BY <1>1, EmptyTypes, AccountsAssumption DEF Page, None, Slots
<1> HIDE DEF people
<1>8. ASSUME NEW n \in People
      PROVE  /\ S(n) \in Page /\ S(n).open = T.open /\ S(n).acc = acc /\ S(n).ops = T.ops
             /\ S(n).prompt = "none" /\ S(n).key = None /\ S(n).dataKey = None
             /\ S(n).ms = NoUser
  <2> DEFINE Q == [T EXCEPT !.acc = acc, !.active = n, !.ms = NoUser, !.blob = None]
  <2>1. Q \in Page /\ Q.open = T.open /\ Q.acc = acc /\ Q.ops = T.ops /\ Q.ms = NoUser
    <3> HIDE DEF acc
    <3>1. QED BY <1>1, <1>7, <1>8 DEF Page, People
  <2>2. S(n) = [Q EXCEPT !.key = None, !.dataKey = None, !.pending = NoEntry, !.prompt = "none"]
    OBVIOUS
  <2> HIDE DEF Q, S
  <2>3. QED BY <1>7, <2>1, <2>2, EmptyTypes DEF Page
<1> HIDE DEF S
<1>9. PICK n \in people : Save(t, S(n))
  BY <1>4
<1>10. S(n) \in Page /\ Left(S(n), T, u)
  BY <1>1, <1>2, <1>6, <1>8, <1>9 DEF Left
<1>11. devkey' \in Nat
  BY <1>2, <1>7
<1>12. QED BY <1>1, <1>2, <1>3, <1>9, <1>10, <1>11, LeaveStep

LEMMA RemoveAccountKeeps ==
  ASSUME OneTab, "interrupted" \notin Faults, AllInv, UNCHANGED env, NEW t \in Tabs,
         NEW u \in Users, RemoveAccount(t, u), tab[t].open, tab[t].prompt = "none",
         u # tab[t].active
  PROVE  AllInv'
<1> DEFINE T == tab[t]
           S == [T EXCEPT !.acc = [T.acc EXCEPT ![u] = NoEntry]]
<1>1. TypeOK /\ T \in Page /\ T.open /\ T.acc = pool
  BY UserStart
<1>2. /\ T.ops = {} /\ Save(t, S)
      /\ RetireStores({T.acc[u].store} \ {None})
      /\ UNCHANGED <<devkey, devkeys, owner, secret, trusted, worker>>
  BY DEF RemoveAccount, Leavable
<1>3. /\ S \in Page /\ S.open = T.open /\ S.acc = [T.acc EXCEPT ![u] = NoEntry]
      /\ S.ops = T.ops /\ S.prompt = T.prompt /\ S.active = T.active
      /\ S.key = T.key /\ S.dataKey = T.dataKey /\ S.ms = T.ms /\ S.blob = T.blob
  BY <1>1, EmptyTypes DEF Page
<1> HIDE DEF S
<1>4. Left(S, T, u)
  BY <1>1, <1>2, <1>3 DEF Left
<1>5. devkey' \in Nat
  BY <1>1, <1>2 DEF TypeOK
<1>6. QED BY <1>1, <1>2, <1>3, <1>4, <1>5, LeaveStep

\* A rejected session's account goes, its store stays.
LEMMA RestoreRejectedKeeps ==
  ASSUME OneTab, AllInv, UNCHANGED env, NEW t \in Tabs, NEW o \in tab[t].ops,
         RestoreRejected(t, o)
  PROVE  AllInv'
<1> DEFINE T == tab[t]
           u == o.user
           acc == [T.accs EXCEPT ![u] = NoEntry]
           people == ActiveOf([T EXCEPT !.active = NoUser], acc)
           S(n) == [Drop(T, o) EXCEPT !.acc = acc, !.active = n]
<1>1. /\ o.kind = "restore" /\ o.step = "start"
      /\ UNCHANGED <<devkey, devkeys, stores, queue, owner, secret, trusted, worker>>
  BY DEF RestoreRejected
<1>2. \E n \in people : Save(t, S(n))
  BY Zenon DEF RestoreRejected
<1>3. /\ TypeOK /\ StoreInv /\ T \in Page /\ u \in Users /\ T.open /\ T.acc = pool
      /\ o \in Op
  BY OpStart
<1>4. /\ T.ops = {o} /\ T.prompt = "none" /\ T.ms = NoUser /\ T.accs = T.acc
  BY <1>1, <1>3 DEF StoreInv, RestoreInv
<1>5. [T EXCEPT !.active = NoUser] \in Page
  BY <1>3 DEF Page, People
<1>6. \A n \in people : n \in People
  BY <1>5, ActivePerson
<1>7. acc \in [Users -> Entry] /\ acc = [T.acc EXCEPT ![u] = NoEntry]
  BY <1>3, <1>4, EmptyTypes DEF Page
<1> HIDE DEF people, acc
<1>8. ASSUME NEW n \in People
      PROVE  S(n) \in Page /\ Left(S(n), T, u)
  <2> DEFINE D == Drop(T, o)
  <2>1. D \in Page /\ OnlyOps(D, T) /\ D.ops = {}
    BY <1>3, <1>4, DropFacts
  <2>2. S(n) = [D EXCEPT !.acc = acc, !.active = n]
    OBVIOUS
  <2> HIDE DEF D, S
  <2>3. /\ S(n) \in Page /\ S(n).open = D.open /\ S(n).acc = acc /\ S(n).ops = D.ops
        /\ S(n).prompt = D.prompt /\ S(n).key = D.key /\ S(n).dataKey = D.dataKey
        /\ S(n).ms = D.ms
    BY <1>7, <1>8, <2>1, <2>2 DEF Page
  <2>4. QED BY <1>1, <1>3, <1>4, <1>7, <2>1, <2>3 DEF Left, OnlyOps
<1> HIDE DEF S
<1>9. PICK n \in people : Save(t, S(n))
  BY <1>2
<1>10. devkey' \in Nat
  BY <1>1, <1>3 DEF TypeOK
<1>11. QED BY <1>1, <1>3, <1>6, <1>8, <1>9, <1>10, LeaveStep

\* A step that changes no more than the recovery keys on the server.
LEMMA SecretStep ==
  ASSUME AllInv,
         UNCHANGED <<env, pool, devkey, devkeys, stores, queue, owner, trusted, worker, tab>>,
         secret' \in [Users -> Nat]
  PROVE  AllInv'
<1>1. TypeOK' /\ StoreInv'
  BY DEF AllInv, TypeOK, StoreInv, PageInv, RestoreInv, NewInv, ActiveInv, LoginOps, Kept
<1>2. Oauth = Users => PlainInv'
  BY DEF AllInv, PlainInv, PlainPage, Encrypted
<1>3. Oauth = {} /\ Calm => PasswordInv'
  <2> SUFFICES ASSUME Oauth = {}, Calm PROVE PasswordInv'
    OBVIOUS
  <2>1. PasswordInv
    BY DEF AllInv
  <2>2. \A u \in Users : EntryInv(u)'
    BY <2>1 DEF PasswordInv, EntryInv, Has, Kept, Encrypted, Wrapped
  <2>3. \A x \in Tabs : PasswordPage(tab[x])'
    <3> TAKE x \in Tabs
    <3>1. PasswordPage(tab[x])
      BY <2>1 DEF PasswordInv
    <3>2. QED BY <3>1 DEF PasswordPage, OpInv, InDevice, InRestore, InLogin, InHistory,
             InRecover, InUnlock, Live, PromptInv, PendingInv, GateInv, LoginOps, OneStoreInv,
             KeyInv, Steered, Has, Encrypted, Wrapped, Faults
  <2>4. QED BY <2>1, <2>2, <2>3 DEF PasswordInv
<1>4. QED BY <1>1, <1>2, <1>3, EnvStays DEF AllInv

LEMMA RegenerateRecoveryKeyKeeps ==
  ASSUME OneTab, AllInv, UNCHANGED env, NEW t \in Tabs, RegenerateRecoveryKey(t)
  PROVE  AllInv'
<1> DEFINE u == tab[t].ms
<1>1. UNCHANGED <<pool, devkey, devkeys, stores, queue, owner, trusted, worker, tab>>
  BY DEF RegenerateRecoveryKey
<1>2. secret \in [Users -> Nat] /\ secret' = [secret EXCEPT ![u] = @ + 1]
  BY DEF AllInv, TypeOK, RegenerateRecoveryKey
<1>3. secret[u] \in Nat
  BY AccountsAssumption DEF RegenerateRecoveryKey
<1>4. secret[u] + 1 \in Nat
  BY <1>3
<1>5. secret' \in [Users -> Nat]
  BY <1>2, <1>4
<1>6. QED BY <1>1, <1>5, SecretStep

\* A renewed token is persisted into the entry that is there.
LEMMA TokenRefreshKeeps ==
  ASSUME OneTab, AllInv, UNCHANGED env, NEW t \in Tabs, NEW c \in Stores, TokenRefresh(t, c)
  PROVE  AllInv'
<1> DEFINE T == tab[t]
           u == owner[c]
           M == [T EXCEPT !.blob = IF T.ms = u THEN c ELSE @]
           S == PersistSessionBlob(M, u, c)
<1>1. /\ u \in Oauth /\ u \in T.watch /\ Save(t, S)
      /\ UNCHANGED <<devkey, devkeys, stores, queue, owner, secret, trusted, worker>>
  BY DEF TokenRefresh
<1>2. TypeOK /\ StoreInv /\ T \in Page /\ PageInv(T) /\ RestoreInv(T) /\ ActiveInv(T)
  BY Here DEF AllInv, StoreInv
<1>3. u \in Users /\ c \in Slots
  BY <1>1, <1>2, AccountsAssumption DEF Page, Stores, Slots
<1>4. T.open /\ T.acc = pool
  <2>1. CASE ~T.open
    <3>1. T = [Closed EXCEPT !.active = T.active]
      BY <1>2, <2>1 DEF PageInv
    <3>2. T.watch = {}
      BY <3>1 DEF Closed
    <3>3. QED BY <1>1, <3>2
  <2>2. QED BY <1>2, <2>1 DEF PageInv
<1>5. \A p \in T.ops : ~(p.kind = "restore" /\ p.step = "start")
  BY <1>1, <1>2 DEF RestoreInv
<1>6. /\ M \in Page /\ M.open = T.open /\ M.acc = T.acc /\ M.active = T.active /\ M.ops = T.ops
      /\ M.prompt = T.prompt /\ M.key = T.key /\ M.dataKey = T.dataKey
  <2>1. (IF T.ms = u THEN c ELSE T.blob) \in Slots
    BY <1>2, <1>3 DEF Page
  <2>2. QED BY <1>2, <2>1 DEF Page
<1> HIDE DEF M, S
<1>7. Persisted(S, M, u, c)
  BY <1>3, <1>6, PersistFacts DEF S
<1>8. /\ S \in Page /\ S.open = T.open /\ S.active = T.active /\ S.ops = T.ops
      /\ S.prompt = T.prompt /\ S.key = T.key /\ S.dataKey = T.dataKey
      /\ \A v \in Users : S.acc[v].store = T.acc[v].store
  <2>1. /\ S \in Page /\ S.open = M.open /\ S.active = M.active /\ S.ops = M.ops
        /\ S.prompt = M.prompt /\ S.key = M.key /\ S.dataKey = M.dataKey
    BY <1>7 DEF Persisted
  <2>2. \A v \in Users : S.acc[v].store = M.acc[v].store
    BY <1>7 DEF Persisted
  <2>3. QED BY <1>6, <2>1, <2>2
<1>9. /\ pool' = S.acc /\ tab' = [tab EXCEPT ![t] = S]
      /\ tab' \in [Tabs -> Page] /\ T' = S /\ \A x \in Tabs : x = t
  BY <1>1, <1>2, <1>8, Moved DEF Save
<1>10. TypeOK'
  BY <1>1, <1>2, <1>8, <1>9 DEF TypeOK, Page
<1>11. StoreInv'
  <2>1. Quiet(T, S)
    BY <1>2, <1>4, <1>5, <1>8 DEF Quiet, ActiveInv
  <2>2. QED BY <1>1, <1>2, <1>8, <1>9, <2>1, QuietStores
<1>12. Oauth = Users => PlainInv'
  <2> SUFFICES ASSUME Oauth = Users PROVE PlainInv'
    OBVIOUS
  <2>1. PlainInv /\ PlainPage(T)
    BY DEF AllInv, PlainInv
  <2>2. PlainPage(S)
    BY <1>8, <2>1 DEF PlainPage
  <2>3. \A v \in Users : S.acc[v].sec = pool[v].sec /\ S.acc[v].device = pool[v].device
    <3>1. M.key = None
      BY <1>6, <2>1 DEF PlainPage
    <3>2. \A v \in Users : S.acc[v].sec = M.acc[v].sec /\ S.acc[v].device = M.acc[v].device
      BY <1>7, <3>1 DEF Persisted
    <3>3. QED BY <1>4, <1>6, <3>2
  <2>4. \A v \in Users : ~Encrypted(pool'[v]) /\ pool'[v].device = <<None, None>>
    BY <1>9, <2>1, <2>3 DEF PlainInv, Encrypted
  <2>5. QED BY <1>9, <2>2, <2>4 DEF PlainInv, PlainPage, Encrypted
<1>13. QED BY <1>1, <1>10, <1>11, <1>12, EnvStays DEF AllInv

\* What a step has to show that leaves the profile's one page closed.
LEMMA ClosedStep ==
  ASSUME OneTab, AllInv, UNCHANGED env, NEW t \in Tabs, NEW u \in People,
         tab' = [tab EXCEPT ![t] = [Closed EXCEPT !.active = u]],
         worker' = [session |-> [v \in Users |-> None], clients |-> {}],
         UNCHANGED <<devkey, devkeys, owner, secret, trusted>>,
         stores' \subseteq Slots, queue' \subseteq Stores,
         pool' \in [Users -> Entry], \A s \in queue' : owner[s] # NoUser,
         UNCHANGED <<pool, stores, queue>> \/ \A v \in Users : pool'[v] = NoEntry
  PROVE  AllInv'
<1> DEFINE S == [Closed EXCEPT !.active = u]
<1>1. /\ S \in Page /\ S.open = FALSE /\ S.ops = {} /\ S.prompt = "none" /\ S.active = u
      /\ S.ms = NoUser /\ S.key = None /\ S.dataKey = None
      /\ S = [Closed EXCEPT !.active = S.active]
  BY EmptyTypes DEF Page
<1>2. tab' = [tab EXCEPT ![t] = S]
  OBVIOUS
<1> HIDE DEF S
<1>3. TypeOK /\ StoreInv
  BY DEF AllInv
<1>4. tab' \in [Tabs -> Page] /\ tab'[t] = S /\ \A x \in Tabs : x = t
  BY <1>1, <1>2, <1>3, Moved
<1>5. worker' \in [session : [Users -> Slots], clients : SUBSET Slots]
      /\ \A v \in Users : worker'.session[v] = None
  BY AccountsAssumption DEF None, Slots
<1>6. TypeOK'
  BY <1>3, <1>4, <1>5 DEF TypeOK
<1>7. StoreInv'
  <2>1. (\A v \in Users : pool[v].store # None => Kept(pool[v].store, v))'
    BY <1>3, EmptyTypes DEF StoreInv, Kept
  <2>2. PageInv(tab[t])'
    BY <1>1, <1>4 DEF PageInv
  <2>3. RestoreInv(tab[t])' /\ NewInv(tab[t])' /\ ActiveInv(tab[t])'
    BY <1>1, <1>4 DEF RestoreInv, NewInv, LoginOps, ActiveInv
  <2>4. QED BY <1>4, <2>1, <2>2, <2>3 DEF StoreInv
<1>8. Oauth = Users => PlainInv'
  <2> SUFFICES ASSUME Oauth = Users PROVE PlainInv'
    OBVIOUS
  <2>1. \A v \in Users : ~Encrypted(pool'[v]) /\ pool'[v].device = <<None, None>>
    BY EmptyTypes DEF AllInv, PlainInv, Encrypted
  <2>2. PlainPage(S)
    BY <1>1 DEF PlainPage
  <2>3. QED BY <1>4, <2>1, <2>2 DEF PlainInv, PlainPage, Encrypted
<1>9. Oauth = {} /\ Calm => PasswordInv'
  <2> SUFFICES ASSUME Oauth = {}, Calm PROVE PasswordInv'
    OBVIOUS
  <2>1. PasswordInv /\ PasswordPage(tab[t])
    BY DEF AllInv, PasswordInv
  <2>2. \A v \in Users : Has(pool, v)' => UNCHANGED <<pool, stores, queue>>
    BY DEF Has
  <2>3. \A v \in Users : EntryInv(v)'
    <3> TAKE v \in Users
    <3>1. CASE Has(pool, v)'
      <4>1. EntryInv(v) /\ UNCHANGED <<pool, stores, queue>>
        BY <2>1, <2>2, <3>1 DEF PasswordInv
      <4>2. \A x \in Stores : Kept(x, v) => Kept(x, v)'
        BY <4>1 DEF Kept
      <4>3. QED BY <1>5, <4>1, <4>2, EntryStays
    <3>2. CASE ~Has(pool, v)'
      BY <3>2 DEF EntryInv
    <3>3. QED BY <3>1, <3>2
  <2>4. OpInv(tab[t])' /\ PromptInv(tab[t])' /\ GateInv(tab[t])'
    BY <1>1, <1>4 DEF OpInv, PromptInv, GateInv
  <2>5. \A v \in Users : Has(pool, v)' => Has(pool, v) /\ pool'[v] = pool[v]
    BY <2>2 DEF Has
  <2>6. "first_sync" \notin Faults => OneStoreInv(tab[t])'
    <3> SUFFICES ASSUME "first_sync" \notin Faults PROVE OneStoreInv(tab[t])'
      OBVIOUS
    <3>1. OneStoreInv(tab[t])
      BY <2>1 DEF PasswordPage
    <3>2. QED BY <1>5, <2>5, <3>1 DEF OneStoreInv, Encrypted, Wrapped
  <2>7. Faults = {} => KeyInv(tab[t])'
    <3> SUFFICES ASSUME Faults = {} PROVE KeyInv(tab[t])'
      OBVIOUS
    <3>1. \A v \in Users : Wrapped(pool[v]) => pool[v].sec[2] = pool[v].master[2]
      BY <2>1 DEF PasswordPage, KeyInv
    <3>2. (\A v \in Users : Wrapped(pool[v]) => pool[v].sec[2] = pool[v].master[2])'
      BY <3>1, EmptyTypes DEF Wrapped
    <3>3. ~Steered(tab[t])'
      BY <1>1, <1>4 DEF Steered
    <3>4. QED BY <1>1, <1>4, <1>5, <3>2, <3>3 DEF KeyInv
  <2>8. PasswordPage(tab[t])'
    BY <2>4, <2>6, <2>7, EnvStays DEF PasswordPage
  <2>9. (\A x \in trusted : x \in Stores /\ owner[x] # NoUser)'
    BY <2>1 DEF PasswordInv
  <2>10. QED BY <1>4, <2>3, <2>8, <2>9 DEF PasswordInv
<1>10. QED BY <1>6, <1>7, <1>8, <1>9, EnvStays DEF AllInv

\* The worker dies with the last tab.
LEMMA CloseKeeps ==
  ASSUME OneTab, AllInv, UNCHANGED env, NEW t \in Tabs, Close(t)
  PROVE  AllInv'
<1>1. \A x \in Tabs : x = t
  BY DEF OneTab
<1>2. /\ tab' = [tab EXCEPT ![t] = [Closed EXCEPT !.active = tab[t].active]]
      /\ worker' = [session |-> [v \in Users |-> None], clients |-> {}]
      /\ UNCHANGED <<pool, devkey, devkeys, stores, queue, owner, secret, trusted>>
  BY <1>1 DEF Close
<1>3. /\ TypeOK /\ \A s \in queue : owner[s] # NoUser
  BY DEF AllInv, StoreInv
<1>4. /\ stores' \subseteq Slots /\ queue' \subseteq Stores /\ pool' \in [Users -> Entry]
      /\ tab[t].active \in People
  BY <1>2, <1>3 DEF TypeOK, Page
<1>5. \A s \in queue' : owner[s] # NoUser
  BY <1>2, <1>3
<1>6. QED BY <1>2, <1>4, <1>5, ClosedStep

\* A reset forgets every account and queues the stores they named.
LEMMA ResetAppKeeps ==
  ASSUME OneTab, AllInv, UNCHANGED env, NEW t \in Tabs, ResetApp(t)
  PROVE  AllInv'
<1>1. \A x \in Tabs : x = t
  BY DEF OneTab
<1> DEFINE named == {pool[u].store : u \in Users} \ {None}
<1>2. /\ tab' = [tab EXCEPT ![t] = Closed]
      /\ worker' = [session |-> [v \in Users |-> None], clients |-> {}]
      /\ pool' = [u \in Users |-> NoEntry]
      /\ queue' = {s \in named : IsOpen(s)} /\ stores' = stores \ {s \in named : ~IsOpen(s)}
      /\ UNCHANGED <<devkey, devkeys, owner, secret, trusted>>
  BY <1>1 DEF ResetApp
<1>3. Closed = [Closed EXCEPT !.active = NoUser] /\ NoUser \in People
  <2>1. Closed.active = NoUser
    BY DEF Closed
  <2>2. QED BY <2>1, EmptyTypes DEF Page, People
<1>4. TypeOK /\ StoreInv
  BY DEF AllInv
<1>5. \A s \in named : s \in Stores /\ owner[s] # NoUser
  BY <1>4, AccountsAssumption DEF StoreInv, Kept
<1>6. /\ stores' \subseteq Slots /\ queue' \subseteq Stores /\ \A s \in queue' : owner[s] # NoUser
  BY <1>2, <1>4, <1>5 DEF TypeOK
<1>7. pool' \in [Users -> Entry] /\ \A v \in Users : pool'[v] = NoEntry
  BY <1>2, EmptyTypes
<1>8. tab' = [tab EXCEPT ![t] = [Closed EXCEPT !.active = NoUser]]
  BY <1>2, <1>3
<1>9. QED BY <1>2, <1>3, <1>6, <1>7, <1>8, ClosedStep

\* Page S as it is after the first render: the mount effect restores the active account,
\* asks for its secret or does nothing.
Loaded(S, u) ==
  /\ S \in Page /\ S.open /\ S.acc = pool /\ S.accs = pool /\ S.active = u
  /\ S.ms = NoUser /\ S.key = None /\ S.dataKey = None /\ S.watch = {}
  /\ \/ S.ops = {} /\ S.prompt = "none"
     \/ /\ u \in Users /\ Has(pool, u) /\ Encrypted(pool[u])
        /\ S.ops = {} /\ S.prompt = "unlock" /\ S.pending = pool[u]
     \/ /\ u \in Users /\ Has(pool, u) /\ Encrypted(pool[u]) /\ Wrapped(pool[u])
        /\ S.prompt = "none"
        /\ \E n : S.ops = {n} /\ n.kind = "device" /\ n.step = "start" /\ n.user = u
     \/ /\ u \in Users /\ Has(pool, u) /\ ~Encrypted(pool[u])
        /\ S.prompt = "none"
        /\ \E n : /\ S.ops = {n} /\ n.kind = "restore" /\ n.step = "start" /\ n.user = u
                  /\ n.store = pool[u].plain

LEMMA AutoRestoreFacts ==
  ASSUME TypeOK, NEW u \in Users, Has(pool, u), NEW T \in Page, T.open, T.acc = pool,
         T.accs = pool, T.active = u, T.ms = NoUser, T.key = None, T.dataKey = None,
         T.watch = {}, T.ops = {}, T.prompt = "none", NEW S, S = AutoRestore(T, u)
  PROVE  Loaded(S, u)
<1> DEFINE e == T.acc[u]
           o(kind, s) == [kind |-> kind, user |-> u, step |-> "start",
                          store |-> s, key |-> None, secret |-> None]
<1>1. e \in Entry /\ e = pool[u] /\ e.plain \in Slots /\ None \in Slots /\ None \in Nat
  BY AccountsAssumption DEF TypeOK, Entry, None, Slots
<1>2. CASE Encrypted(e) /\ e.device # <<None, None>>
  <2> DEFINE n == o("device", None)
  <2>1. S = Begin(T, n)
    BY <1>2 DEF AutoRestore
  <2>2. n \in Op /\ n.kind = "device" /\ n.step = "start" /\ n.user = u
    BY <1>1 DEF Op
  <2> HIDE DEF n
  <2>3. S \in Page /\ OnlyOps(S, T) /\ S.ops = T.ops \cup {n}
    BY <2>1, <2>2, BeginFacts
  <2>4. S.ops = {n}
    BY <2>3
  <2>5. QED BY <1>1, <1>2, <2>2, <2>3, <2>4 DEF OnlyOps, Loaded, Wrapped
<1>3. CASE Encrypted(e) /\ e.device = <<None, None>>
  <2>1. S = [T EXCEPT !.prompt = "unlock", !.pending = e]
    BY <1>3 DEF AutoRestore
  <2>2. /\ S \in Page /\ S.open = T.open /\ S.acc = T.acc /\ S.accs = T.accs
        /\ S.active = T.active /\ S.ms = T.ms /\ S.key = T.key /\ S.dataKey = T.dataKey
        /\ S.watch = T.watch /\ S.ops = T.ops /\ S.prompt = "unlock" /\ S.pending = e
    BY <1>1, <2>1 DEF Page
  <2>3. QED BY <1>1, <1>3, <2>2 DEF Loaded
<1>4. CASE ~Encrypted(e) /\ e.plain # None
  <2> DEFINE n == o("restore", e.plain)
  <2>1. S = Begin(T, n)
    BY <1>4 DEF AutoRestore
  <2>2. n \in Op /\ n.kind = "restore" /\ n.step = "start" /\ n.user = u /\ n.store = e.plain
    BY <1>1 DEF Op
  <2> HIDE DEF n
  <2>3. S \in Page /\ OnlyOps(S, T) /\ S.ops = T.ops \cup {n}
    BY <2>1, <2>2, BeginFacts
  <2>4. S.ops = {n}
    BY <2>3
  <2>5. QED BY <1>1, <1>4, <2>2, <2>3, <2>4 DEF OnlyOps, Loaded
<1>5. CASE ~Encrypted(e) /\ e.plain = None
  <2>1. S = T
    BY <1>5 DEF AutoRestore
  <2>2. QED BY <2>1 DEF Loaded
<1>6. QED BY <1>2, <1>3, <1>4, <1>5

\* A page load: the reaper deletes the queued stores, and the page starts.
LEMMA LoadKeeps ==
  ASSUME OneTab, AllInv, UNCHANGED env, NEW t \in Tabs, Load(t)
  PROVE  AllInv'
<1> DEFINE T == tab[t]
           L(u) == [Closed EXCEPT !.open = TRUE, !.acc = pool, !.accs = pool, !.active = u]
           R(u) == IF u = NoUser THEN L(u) ELSE AutoRestore(L(u), u)
<1>1. TypeOK /\ StoreInv /\ T \in Page /\ PageInv(T)
  BY Here DEF AllInv, StoreInv
<1>2. /\ ~T.open /\ ReapStores(worker.clients)
      /\ \E u \in ActiveOf(T, pool) : Keep(t, R(u))
      /\ UNCHANGED <<devkey, devkeys, owner, secret, trusted, worker>>
  BY Zenon DEF Load
<1>3. /\ worker = [session |-> [v \in Users |-> None], clients |-> {}]
      /\ T = [Closed EXCEPT !.active = T.active]
  BY <1>1, <1>2 DEF PageInv
<1>4. /\ \A v \in Users : worker.session[v] = None
      /\ T.ops = {} /\ T.prompt = "none" /\ T.ms = NoUser
  BY <1>1, <1>3, EmptyTypes DEF Page
<1>5. queue' = {} /\ stores' = stores \ queue
  BY <1>2, <1>3 DEF ReapStores
<1>6. ASSUME NEW u \in ActiveOf(T, pool) PROVE Loaded(R(u), u)
  <2>1. u \in People /\ (u # NoUser => u \in Users)
    BY <1>1, <1>6, ActivePerson
  <2>2. u # NoUser => Has(pool, u)
    BY <1>6 DEF ActiveOf, Accounts
  <2>3. pool \in [Users -> Entry]
    BY <1>1 DEF TypeOK
  <2>4. /\ L(u) \in Page /\ L(u).open /\ L(u).acc = pool /\ L(u).accs = pool /\ L(u).active = u
        /\ L(u).ms = NoUser /\ L(u).key = None /\ L(u).dataKey = None /\ L(u).watch = {}
        /\ L(u).ops = {} /\ L(u).prompt = "none"
    <3>1. Closed.watch = {}
      BY DEF Closed
    <3>2. QED BY <2>1, <2>3, <3>1, EmptyTypes DEF Page
  <2> HIDE DEF L
  <2>5. CASE u = NoUser
    BY <2>4, <2>5 DEF Loaded
  <2>6. CASE u # NoUser
    <3>1. R(u) = AutoRestore(L(u), u)
      BY <2>6
    <3>2. QED BY <1>1, <2>1, <2>2, <2>4, <2>6, <3>1, AutoRestoreFacts
  <2>7. QED BY <2>5, <2>6
<1> HIDE DEF R
<1>7. \E u, S : Keep(t, S) /\ Loaded(S, u)
  BY <1>2, <1>6
<1>8. PICK u, S : Keep(t, S) /\ Loaded(S, u)
  BY <1>7
<1>9. /\ S \in Page /\ S.open /\ S.acc = pool /\ S.accs = pool /\ S.active = u
      /\ S.ms = NoUser /\ S.key = None /\ S.dataKey = None /\ S.watch = {}
  BY <1>8 DEF Loaded
<1>10. \/ S.ops = {} /\ S.prompt = "none"
       \/ /\ u \in Users /\ Has(pool, u) /\ Encrypted(pool[u])
          /\ S.ops = {} /\ S.prompt = "unlock" /\ S.pending = pool[u]
       \/ /\ u \in Users /\ Has(pool, u) /\ Encrypted(pool[u]) /\ Wrapped(pool[u])
          /\ S.prompt = "none"
          /\ \E n : S.ops = {n} /\ n.kind = "device" /\ n.step = "start" /\ n.user = u
       \/ /\ u \in Users /\ Has(pool, u) /\ ~Encrypted(pool[u])
          /\ S.prompt = "none"
          /\ \E n : /\ S.ops = {n} /\ n.kind = "restore" /\ n.step = "start" /\ n.user = u
                    /\ n.store = pool[u].plain
  BY <1>8 DEF Loaded
<1>11. /\ pool' = pool /\ tab' = [tab EXCEPT ![t] = S]
       /\ tab' \in [Tabs -> Page] /\ T' = S /\ \A x \in Tabs : x = t
  BY <1>1, <1>8, <1>9, Moved DEF Keep
<1>12. TypeOK'
  BY <1>1, <1>2, <1>5, <1>11 DEF TypeOK
<1>13. \A x, v : Kept(x, v) => Kept(x, v)'
  BY <1>2, <1>5 DEF Kept
<1>14. StoreInv'
  <2>1. LoginOps(S) = {}
    BY <1>10 DEF LoginOps
  <2>2. NewInv(S)'
    BY <2>1 DEF NewInv, LoginOps
  <2>3. RestoreInv(S)
    BY <1>9, <1>10 DEF RestoreInv
  <2>4. ActiveInv(S)
    BY <1>9, <1>10 DEF ActiveInv
  <2>5. \A v \in Users : pool'[v].store # None => Kept(pool[v].store, v)'
    BY <1>1, <1>11, <1>13 DEF StoreInv, Kept
  <2>6. QED BY <1>1, <1>5, <1>9, <1>11, <2>2, <2>3, <2>4, <2>5, StoreStep
<1>15. Oauth = Users => PlainInv'
  <2> SUFFICES ASSUME Oauth = Users PROVE PlainInv'
    OBVIOUS
  <2>1. PlainInv
    BY DEF AllInv
  <2>2. PlainPage(S)
    BY <1>9, <1>10, <2>1 DEF PlainPage, PlainInv
  <2>3. QED BY <1>11, <2>1, <2>2 DEF PlainInv, PlainPage, Encrypted
<1>16. ASSUME Oauth = {}, Calm PROVE PasswordInv'
  <2>1. PasswordInv /\ PasswordPage(T)
    BY <1>16 DEF AllInv, PasswordInv
  <2>2. \A v \in Users : EntryInv(v)'
    <3> TAKE v \in Users
    <3>1. EntryInv(v) /\ pool'[v] = pool[v]
      BY <1>11, <2>1 DEF PasswordInv
    <3>2. \A x \in Stores : Kept(x, v) => Kept(x, v)'
      BY <1>13
    <3>3. QED BY <1>2, <3>1, <3>2, EntryStays
  <2>3. OpInv(T)'
    <3>1. \A p, q \in S.ops : p = q
      BY <1>10
    <3>2. \A p \in S.ops : InDevice(S, p)' \/ InRestore(S, p)'
      <4>1. CASE /\ u \in Users /\ Has(pool, u) /\ Encrypted(pool[u]) /\ Wrapped(pool[u])
                 /\ S.prompt = "none"
                 /\ \E n : S.ops = {n} /\ n.kind = "device" /\ n.step = "start" /\ n.user = u
        BY <1>2, <1>4, <1>9, <1>11, <4>1 DEF InDevice, Has, Wrapped
      <4>2. CASE /\ u \in Users /\ Has(pool, u) /\ ~Encrypted(pool[u])
                 /\ S.prompt = "none"
                 /\ \E n : /\ S.ops = {n} /\ n.kind = "restore" /\ n.step = "start" /\ n.user = u
                           /\ n.store = pool[u].plain
        BY <1>9, <1>11, <4>2 DEF InRestore, Has, Encrypted
      <4>3. CASE S.ops = {}
        BY <4>3
      <4>4. QED BY <1>10, <4>1, <4>2, <4>3
    <3>3. QED BY <1>11, <3>1, <3>2 DEF OpInv, InDevice, InRestore
  <2>4. PromptInv(T)'
    BY <1>9, <1>10, <1>11 DEF PromptInv, PendingInv, Has
  <2>5. GateInv(T)'
    BY <1>9, <1>11 DEF GateInv
  <2>6. "first_sync" \notin Faults => OneStoreInv(T)'
    BY <1>2, <1>4, <1>11, <2>1 DEF PasswordPage, OneStoreInv, Has, Encrypted, Wrapped
  <2>7. Faults = {} => KeyInv(T)'
    <3> SUFFICES ASSUME Faults = {} PROVE KeyInv(T)'
      OBVIOUS
    <3>1. (\A v \in Users : Wrapped(pool[v]) => pool[v].sec[2] = pool[v].master[2])'
      BY <1>11, <2>1 DEF PasswordPage, KeyInv, Wrapped
    <3>2. (\A v \in Users : worker.session[v] = None)'
      BY <1>2, <1>4
    <3>3. S.prompt \in {"none", "unlock"} /\ \A p \in S.ops : p.step = "start" /\ p.kind # "login"
      BY <1>10
    <3>4. ~Steered(S)
      BY <3>3 DEF Steered
    <3>5. QED BY <1>11, <3>1, <3>2, <3>3, <3>4 DEF KeyInv, Steered
  <2>8. PasswordPage(T)'
    BY <2>3, <2>4, <2>5, <2>6, <2>7, EnvStays DEF PasswordPage
  <2>9. (\A x \in trusted : x \in Stores /\ owner[x] # NoUser)'
    BY <1>2, <2>1 DEF PasswordInv
  <2>10. QED BY <1>11, <2>2, <2>8, <2>9 DEF PasswordInv
<1>17. QED BY <1>12, <1>14, <1>15, <1>16, EnvStays DEF AllInv

-----------------------------------------------------------------------------
(* The invariant. *)

LEMMA InitInv ==
  ASSUME Init
  PROVE  AllInv
<1>1. \A u \in Users : pool[u] = NoEntry
  BY DEF Init
<1>2. \A t \in Tabs : tab[t] = Closed
  BY DEF Init
<1>3. Closed.active = NoUser
  BY DEF Closed
<1>4. Closed = [Closed EXCEPT !.active = Closed.active]
  BY EmptyTypes DEF Page
<1>5. TypeOK
  <2>1. pool \in [Users -> Entry] /\ tab \in [Tabs -> Page]
    BY EmptyTypes DEF Init
  <2>2. devkey \in Nat /\ devkeys \in Nat /\ stores \subseteq Slots /\ queue \subseteq Stores
        /\ trusted \subseteq Slots /\ owner \in [Stores -> People]
    BY DEF Init, None, People
  <2>3. secret \in [Users -> Nat]
    BY DEF Init, None
  <2>4. worker \in [session : [Users -> Slots], clients : SUBSET Slots]
    BY AccountsAssumption DEF Init, None, Slots
  <2>5. QED BY <2>1, <2>2, <2>3, <2>4 DEF TypeOK
<1>6. StoreInv
  <2>1. PageInv(Closed)
    BY <1>4, EmptyTypes DEF PageInv, Init
  <2>2. RestoreInv(Closed) /\ NewInv(Closed) /\ ActiveInv(Closed)
    BY EmptyTypes DEF RestoreInv, NewInv, LoginOps, ActiveInv
  <2>3. (\A u \in Users : pool[u].store = None) /\ queue = {}
    BY <1>1, EmptyTypes DEF Init
  <2>4. QED BY <1>2, <2>1, <2>2, <2>3 DEF StoreInv
<1>7. PlainInv
  <2>1. PlainPage(Closed)
    BY EmptyTypes DEF PlainPage
  <2>2. \A u \in Users : ~Encrypted(pool[u]) /\ pool[u].device = <<None, None>>
    BY <1>1, EmptyTypes DEF Encrypted
  <2>3. QED BY <1>2, <2>1, <2>2 DEF PlainInv
<1>8. PasswordInv
  <2>1. \A u \in Users : ~Has(pool, u) /\ ~Wrapped(pool[u])
    BY <1>1, EmptyTypes DEF Has, Wrapped
  <2>2. ~Steered(Closed)
    BY EmptyTypes DEF Steered
  <2>3. OpInv(Closed) /\ PromptInv(Closed) /\ GateInv(Closed)
    BY EmptyTypes DEF OpInv, PromptInv, GateInv
  <2>4. OneStoreInv(Closed) /\ KeyInv(Closed)
    BY <2>1, <2>2, EmptyTypes DEF OneStoreInv, KeyInv
  <2>5. PasswordPage(Closed)
    BY <2>3, <2>4 DEF PasswordPage
  <2>6. \A u \in Users : EntryInv(u)
    BY <2>1 DEF EntryInv
  <2>7. trusted = {}
    BY DEF Init
  <2>8. QED BY <1>2, <2>5, <2>6, <2>7 DEF PasswordInv
<1>9. QED BY <1>5, <1>6, <1>7, <1>8 DEF AllInv

LEMMA OpStepKeeps ==
  ASSUME OneTab, AllInv, UNCHANGED env, NEW t \in Tabs, NEW o \in tab[t].ops, OpStep(t, o)
  PROVE  AllInv'
<1>1. CASE DeviceUnwrap(t, o)
  BY <1>1, DeviceUnwrapKeeps
<1>2. CASE DeviceRestored(t, o)
  BY <1>2, DeviceRestoredKeeps
<1>3. CASE DeviceFailed(t, o)
  BY <1>3, DeviceFailedKeeps
<1>4. CASE Restored(t, o)
  BY <1>4, RestoredKeeps
<1>5. CASE RestoreFailed(t, o)
  BY <1>5, RestoreFailedKeeps
<1>6. CASE RestoreRejected(t, o)
  BY <1>6, RestoreRejectedKeeps
<1>7. CASE LoggedIn(t, o)
  BY <1>7, LoggedInKeeps
<1>8. CASE SignInFailed(t, o)
  BY <1>8, SignInFailedKeeps
<1>9. CASE CompleteSignIn(t, o)
  BY <1>9, CompleteSignInKeeps
<1>10. CASE EnsureHistoryAccess(t, o)
  BY <1>10, EnsureHistoryAccessKeeps
<1>11. CASE EnableRecovery(t, o)
  BY <1>11, EnableRecoveryKeeps
<1>12. CASE BootstrapFailed(t, o)
  BY <1>12, BootstrapFailedKeeps
<1>13. CASE ShowRecoveryKey(t, o)
  BY <1>13, ShowRecoveryKeyKeeps
<1>14. CASE RecoveryKeyAccepted(t, o)
  BY <1>14, RecoveryKeyAcceptedKeeps
<1>15. CASE UnlockRestored(t, o)
  BY <1>15, UnlockRestoredKeeps
<1>16. CASE UnlockFailed(t, o)
  BY <1>16, UnlockFailedKeeps
<1>17. CASE UnlockRecovered(t, o)
  BY <1>17, UnlockRecoveredKeeps
<1>18. QED BY <1>1, <1>2, <1>3, <1>4, <1>5, <1>6, <1>7, <1>8, <1>9, <1>10, <1>11, <1>12, <1>13,
              <1>14, <1>15, <1>16, <1>17 DEF OpStep

LEMMA UserStepKeeps ==
  ASSUME OneTab, "interrupted" \notin Faults, AllInv, UNCHANGED env, NEW t \in Tabs, UserStep(t)
  PROVE  AllInv'
<1>1. CASE Load(t)
  BY <1>1, LoadKeeps
<1>2. CASE Close(t)
  BY <1>2, CloseKeeps
<1>3. CASE GateSignOut(t)
  BY <1>3, SignOutKeeps DEF GateSignOut
<1>4. CASE ResetApp(t)
  BY <1>4, ResetAppKeeps
<1>5. CASE RegenerateRecoveryKey(t)
  BY <1>5, RegenerateRecoveryKeyKeeps
<1>6. CASE RetryRecoverySetup(t)
  BY <1>6, RetryRecoverySetupKeeps
<1>7. CASE ConfirmKeySaved(t)
  BY <1>7, ConfirmKeySavedKeeps
<1>8. CASE SubmitRecoveryKey(t)
  BY <1>8, SubmitRecoveryKeyKeeps
<1>9. ASSUME NEW k \in 1..MaxSecret, Unlock(t, k) PROVE AllInv'
  BY <1>9, UnlockKeeps
<1>10. ASSUME NEW u \in Users, HandleSubmit(t, u) \/ HandleOauthSignIn(t, u) PROVE AllInv'
  BY <1>10, HandleSubmitKeeps
<1>11. ASSUME NEW u \in Users, HandleSwitch(t, u) \/ HandleContinueAs(t, u) PROVE AllInv'
  BY <1>11, SwitchAccountKeeps DEF HandleSwitch, HandleContinueAs, SubmitEnabled
<1>12. ASSUME NEW u \in Users, HandleRemove(t, u) PROVE AllInv'
  BY <1>12, SignOutKeeps, RemoveAccountKeeps DEF HandleRemove
<1>13. ASSUME NEW c \in Stores, TokenRefresh(t, c) PROVE AllInv'
  BY <1>13, TokenRefreshKeeps
<1>14. QED BY <1>1, <1>2, <1>3, <1>4, <1>5, <1>6, <1>7, <1>8, <1>9, <1>10, <1>11, <1>12, <1>13
           DEF UserStep

LEMMA NextInv ==
  ASSUME OneTab, AccountsInv, [Next]_vars
  PROVE  AccountsInv'
<1>1. UNCHANGED env
  BY DEF Next, vars
<1> SUFFICES ASSUME "interrupted" \notin Faults PROVE AllInv'
  BY <1>1, EnvStays DEF AccountsInv
<1>2. AllInv
  BY DEF AccountsInv
<1>3. CASE Next
  BY <1>1, <1>2, <1>3, UserStepKeeps, OpStepKeeps DEF Next
<1>4. CASE UNCHANGED vars
  <2>1. secret' \in [Users -> Nat]
    BY <1>2, <1>4 DEF AllInv, TypeOK, vars
  <2>2. QED BY <1>2, <1>4, <2>1, SecretStep DEF vars
<1>5. QED BY <1>3, <1>4

-----------------------------------------------------------------------------
(* What holds of every behaviour of a profile with one tab.                *)

\* The invariant the others follow from: entries, stores, keys, operations and screens
\* agree, in the surroundings AccountsInv names.
THEOREM AccountsConsistent ==
  ASSUME OneTab
  PROVE  Spec => []AccountsInv
<1>1. Init => AccountsInv
  BY InitInv DEF AccountsInv
<1>2. AccountsInv /\ [Next]_vars => AccountsInv'
  BY NextInv
<1>3. QED BY <1>1, <1>2, PTL DEF Spec

\* retireStore and reapStores delete no store an account names (storeReaper.ts,
\* completeSignIn, signOut, resetApp), whatever fails, is repeated or overlaps, as long as
\* the user leaves no account while an operation of the tab awaits.
THEOREM StoresKept ==
  ASSUME OneTab
  PROVE  Spec => []NamedStoresKept
<1>1. AccountsInv => NamedStoresKept
  BY DEF AccountsInv, AllInv, StoreInv, Kept, NamedStoresKept
<1>2. QED BY <1>1, AccountsConsistent, PTL

\* Whoever opens a wrap of a sealed entry opens its session and its store (sealDataKey).
THEOREM EnvelopeOpens ==
  ASSUME OneTab
  PROVE  Spec => []SealedOpens
<1>1. AccountsInv => SealedOpens
  <2> SUFFICES ASSUME AccountsInv, Uniform, Faults = {}, NEW u \in Users,
                      Encrypted(pool[u]), pool[u].master # <<None, None>>
               PROVE  LET e == pool[u] IN
                        /\ e.sec[1] = e.master[2] /\ e.device[2] = e.master[2]
                        /\ e.sec[2] \in stores => StoreKey(e.sec[2]) = e.sec[1]
    BY DEF SealedOpens
  <2>1. AllInv /\ Calm
    BY DEF AccountsInv, Calm
  <2>2. Oauth = {}
    BY <2>1 DEF Uniform, AllInv, PlainInv
  <2>3. Has(pool, u)
    BY EmptyTypes, AccountsAssumption DEF Has, Encrypted
  <2>4. EntryInv(u) /\ \E t \in Tabs : KeyInv(tab[t])
    BY <2>1, <2>2 DEF AllInv, PasswordInv, PasswordPage, OneTab
  <2>5. Wrapped(pool[u])
    BY <2>3, <2>4 DEF EntryInv
  <2>6. /\ pool[u].sec[1] = pool[u].master[2] /\ pool[u].device[2] = pool[u].master[2]
        /\ pool[u].sec[2] = pool[u].master[2]
    BY <2>3, <2>4, <2>5 DEF EntryInv, KeyInv
  <2>7. QED BY <2>2, <2>6 DEF StoreKey
<1>2. QED BY <1>1, AccountsConsistent, PTL

\* While the recovery key is on the screen, it opens the account, on a device that holds
\* the account's keys: closing the tab is safe (bootstrapWithKey).
THEOREM SaveScreenSafe ==
  ASSUME OneTab
  PROVE  Spec => []SaveScreenIsSafe
<1>1. AccountsInv => SaveScreenIsSafe
  <2> SUFFICES ASSUME AccountsInv, Oauth = {}, Faults = {}, NEW t \in Tabs,
                      tab[t].prompt = "save"
               PROVE  /\ pool[tab[t].ms].master[1] = tab[t].shown
                      /\ tab[t].blob \in trusted
    BY DEF SaveScreenIsSafe
  <2>1. AllInv /\ Calm
    BY DEF AccountsInv, Calm
  <2>2. PromptInv(tab[t]) /\ KeyInv(tab[t])
    BY <2>1 DEF AllInv, PasswordInv, PasswordPage
  <2>3. QED BY <2>2 DEF PromptInv, KeyInv
<1>2. QED BY <1>1, AccountsConsistent, PTL

\* A restore with the device key needs no recovery check: the device reads already
\* (restoreWithDeviceKey).
THEOREM SilentRestores ==
  ASSUME OneTab
  PROVE  Spec => []SilentRestoreReads
<1>1. AccountsInv => SilentRestoreReads
  <2> SUFFICES ASSUME AccountsInv, Uniform, Faults \subseteq {"unsettled"}, NEW u \in Users,
                      Wrapped(pool[u])
               PROVE  pool[u].sec[2] \in trusted
    BY DEF SilentRestoreReads, Wrapped
  <2>1. AllInv /\ Calm
    BY DEF AccountsInv, Calm
  <2>2. Oauth = {}
    BY <2>1 DEF Uniform, AllInv, PlainInv, Wrapped
  <2>3. Has(pool, u)
    BY EmptyTypes, AccountsAssumption DEF Has, Wrapped
  <2>4. EntryInv(u) /\ \E t \in Tabs : OneStoreInv(tab[t])
    BY <2>1, <2>2 DEF AllInv, PasswordInv, PasswordPage, OneTab
  <2>5. QED BY <2>3, <2>4 DEF EntryInv, OneStoreInv
<1>2. QED BY <1>1, AccountsConsistent, PTL

\* A live session that cannot read history is behind a gate once the operation that
\* brought it is over (ensureHistoryAccess).
THEOREM GatesStand ==
  ASSUME OneTab
  PROVE  Spec => []GateWhenUnreadable
<1>1. AccountsInv => GateWhenUnreadable
  <2> SUFFICES ASSUME AccountsInv, Oauth = {}, Faults \subseteq {"first_sync"}, NEW t \in Tabs,
                      Has(pool, tab[t].ms), tab[t].ops = {}, tab[t].prompt = "none"
               PROVE  tab[t].blob \in trusted
    BY DEF GateWhenUnreadable
  <2>1. AllInv /\ Calm
    BY DEF AccountsInv, Calm
  <2>2. GateInv(tab[t])
    BY <2>1 DEF AllInv, PasswordInv, PasswordPage
  <2>3. QED BY <2>2 DEF GateInv, Has
<1>2. QED BY <1>1, AccountsConsistent, PTL
=============================================================================
