----------------------------- MODULE DeviceTrust -----------------------------
(***************************************************************************)
(* How the devices of one account get at its encrypted history: secure     *)
(* backup and its recovery key, the passkeys that wrap that key            *)
(* (ui/src/lib/passkeyWrap.ts, ui/src/auth/passkeyPrf.ts), the gate of      *)
(* ui/src/components/VerifyDeviceScreen.tsx with the callbacks of           *)
(* ui/src/hooks/useAuth.ts behind it, the account view's key window, the    *)
(* reset of an account, and incoming emoji verification                    *)
(* (DeviceVerification in bridge_matrix.rs).                               *)
(*                                                                         *)
(* A secret is a number: k > 0 is the k-th random recovery key, -c the PRF *)
(* output of passkey c.  A passkey syncs with the user's keychain, so any  *)
(* device can assert any of them.  Every continuation between two awaits   *)
(* is one step.                                                            *)
(***************************************************************************)
EXTENDS Integers, FiniteSets

CONSTANTS Devices,
          MaxKey,    \* bound: recovery keys ever generated
          MaxCred,   \* bound: passkeys ever registered
          Envs       \* the surroundings a behaviour may run in

\* What may go wrong in a behaviour.  closing: a tab, or the key window, is
\* closed while a key is being made or is on screen; rotation: a key is
\* regenerated from the account view; load: the wrap record cannot be read;
\* overlap: two devices enrol passkeys at the same time; stale: an account is
\* reset while a screen of another device carries its key; device_key: the
\* browser loses its device key; request: another client asks to be verified;
\* cancel: the user calls a verification off.
Mishaps == {"closing", "rotation", "load", "overlap", "stale", "device_key", "request", "cancel"}

ASSUME DeviceTrustAssumption ==
  /\ {MaxKey, MaxCred} \subseteq Nat \ {0}
  /\ Envs \subseteq [oauth : BOOLEAN, legacy : BOOLEAN, passkeys : BOOLEAN, faults : SUBSET Mishaps]

None == 0
Creds == 1..MaxCred
Prf(c) == -c                        \* derivePrfSecret: the same for a passkey everywhere
EmptyRecord == [c \in Creds |-> None]   \* a wrap record: the key each passkey's wrap holds

VARIABLES
  env,     \* fixed: OAuth account or password, legacy custody, passkeys usable, mishaps
  ssss,    \* homeserver: the secret that opens secret storage, None before set-up
  wraps,   \* homeserver account data: the wrap record
  keys,    \* recovery keys generated so far
  creds,   \* passkeys registered so far
  held,    \* secrets the user wrote down because the application showed them
  lies,    \* shown as the recovery key although they opened nothing
  dev,     \* the devices
  sas      \* incoming verification at each device

vars == <<env, ssss, wraps, keys, creds, held, lies, dev, sas>>
server == <<ssss, wraps, keys, creds>>

Faults == env.faults
May(f) == f \in Faults

\* AccountSession, as far as trust goes.  master: the secret dataKeyWrap is
\* sealed under; local: passkeyWrap, the record's local copy.
NoEntry == [exists |-> FALSE, custody |-> "none", saved |-> FALSE,
            local |-> EmptyRecord, master |-> None]

NoOp == [kind |-> "none", key |-> None, cred |-> None, rec |-> EmptyRecord]
Prompt(kind, key) == [kind |-> kind, key |-> key]
NoPrompt == Prompt("none", None)

\* The state AuthProvider starts a page with: refs and React state are gone.
Blank(e, trusted) ==
  [ms |-> FALSE, trusted |-> trusted, entry |-> e, prompt |-> NoPrompt, enrolled |-> FALSE,
   custody |-> "manual", op |-> NoOp, reset |-> "no", shown |-> None, modal |-> FALSE]

\* pending: PENDING_VERIFICATION; ref: verificationRef; handle: the SAS object
\* is attached; screen: the verification state shown; loop: the current tick
\* loop, "busy" while it awaits advance; late: what the advance of a stopped
\* loop still has to deliver; closing: the 1.5 s timer after success.
NoSas == [flow |-> "none", pending |-> FALSE, ref |-> FALSE, handle |-> FALSE, screen |-> "none",
          loop |-> "off", got |-> "none", late |-> "none", closing |-> FALSE]

Init ==
  /\ env \in Envs
  /\ ssss = IF env.legacy THEN Prf(1) ELSE None   \* enableRecoveryWithPassphrase, long ago
  /\ wraps = EmptyRecord
  /\ keys = 0
  /\ creds = IF env.legacy THEN 1 ELSE 0
  /\ held = {} /\ lies = {}
  /\ dev = [d \in Devices |-> Blank(NoEntry, FALSE)]
  /\ sas = [d \in Devices |-> NoSas]

-----------------------------------------------------------------------------
(* Helpers. *)

Idle(d) == dev[d].op.kind = "none"
Update(d, D) == dev' = [dev EXCEPT ![d] = D]
WithOp(D, kind, key) == [D EXCEPT !.op = [NoOp EXCEPT !.kind = kind, !.key = key]]
Finish(D) == [D EXCEPT !.op = NoOp]

\* hasEnrolledPasskey
HasEnrolled(rec) == \E c \in Creds : rec[c] # None

\* Mutant: one wrap instead of a record of wraps.
SingleWrap(rec, c, k) == [EmptyRecord EXCEPT ![c] = k]

\* addPasskeyWrap
AddPasskeyWrap(rec, c, k) == [rec EXCEPT ![c] = k]

\* unwrapRecoveryKey, with the fallback of both unlock paths to the raw secret.
Unwrap(rec, c) == IF rec[c] # None THEN rec[c] ELSE Prf(c)

\* sealDataKey: nothing to seal without a data key (OAuth).
SealDataKey(D, k) ==
  IF env.oauth THEN D ELSE [D EXCEPT !.entry.master = k, !.entry.custody = D.custody]

\* markKeySaved
MarkKeySaved(D) == [D EXCEPT !.entry.saved = TRUE]

\* offerPasskeySpeedup
OfferPasskeySpeedup(D, k) ==
  [D EXCEPT !.prompt = IF env.passkeys THEN Prompt("speedup", k) ELSE NoPrompt]

\* recoverWithKey (external: the SDK opens secret storage or refuses).
Opens(s) == s # None /\ s = ssss

\* A screen or an operation of the device still carries a key.
CarriesKey(d) == dev[d].prompt.key # None \/ dev[d].op.kind \notin {"none", "history"}

-----------------------------------------------------------------------------
(* The screens. *)

\* What the router of VerifyDeviceScreen puts on screen: a reset first, then a
\* verification, then the prompt.
Shows(d, kind) ==
  /\ dev[d].reset = "no" /\ sas[d].screen = "none"
  /\ dev[d].prompt.kind = kind

\* Each screen's buttons are there while its prompt shows and nothing it started
\* is still running (its busy flag).
SaveRecoveryKey(d) == Shows(d, "save") /\ Idle(d)
OffersSpeedup(d) == Shows(d, "speedup") /\ Idle(d)
SavesLegacyKey(d) == Shows(d, "save-legacy-key") /\ Idle(d) /\ env.passkeys
VerifyThisDevice(d) == Shows(d, "verify") /\ Idle(d)
UnlockSession(d) == Shows(d, "unlock") /\ Idle(d)
RecoverySetupFailed(d) == Shows(d, "error") /\ Idle(d)

-----------------------------------------------------------------------------
(* Signing in, reloading, signing out. *)

\* signIn, signInWithOauth, completeSignIn: a new device; the entry keeps what a
\* fresh sign-in cannot know.
SignIn(d) ==
  /\ ~dev[d].ms /\ Idle(d) /\ dev[d].prompt.kind # "unlock"
  /\ Update(d, WithOp([dev[d] EXCEPT !.ms = TRUE, !.trusted = FALSE,
                       !.entry = [NoEntry EXCEPT !.exists = TRUE, !.saved = dev[d].entry.saved,
                                                 !.local = dev[d].entry.local]],
                      "history", None))
  /\ UNCHANGED <<env, server, held, lies, sas>>

\* ensureHistoryAccess, once recoveryStatus has settled.
EnsureHistoryAccess(d) ==
  /\ dev[d].op.kind = "history"
  /\ \/ /\ ssss = None
        /\ Update(d, WithOp(dev[d], "enable", None))
     \/ /\ ssss # None /\ dev[d].trusted
        /\ Update(d, Finish([dev[d] EXCEPT !.prompt =
                     IF dev[d].entry.custody = "passkey" /\ ~dev[d].entry.saved
                     THEN Prompt("save-legacy-key", None) ELSE @]))
     \/ \E rec \in {wraps} \cup (IF May("load") THEN {EmptyRecord} ELSE {}) :
          /\ ssss # None /\ ~dev[d].trusted
          /\ Update(d, Finish([dev[d] EXCEPT !.enrolled = HasEnrolled(rec) \/ ssss < 0,
                                             !.prompt = Prompt("verify", None)]))
  /\ UNCHANGED <<env, server, held, lies, sas>>

\* A page load: restoreWithDeviceKey for a sealed entry (the token-persistence
\* effect then writes custodyRef into the entry), the unlock gate when the
\* device key is gone, restoreSession and ensureHistoryAccess for a v1 entry.
\* A password entry that was never sealed cannot be opened any more.
Reload(d) ==
  LET e == dev[d].entry IN
  /\ e.exists
  /\ May("closing") \/ (~CarriesKey(d) /\ dev[d].shown = None /\ dev[d].reset = "no")
  /\ \/ /\ e.master # None
        /\ Update(d, [Blank([e EXCEPT !.custody = "manual"], dev[d].trusted) EXCEPT !.ms = TRUE])
     \/ /\ e.master # None /\ May("device_key")
        /\ Update(d, [Blank(e, dev[d].trusted) EXCEPT !.prompt = Prompt("unlock", None)])
     \/ /\ env.oauth
        /\ Update(d, WithOp([Blank(e, dev[d].trusted) EXCEPT !.ms = TRUE], "history", None))
     \/ /\ ~env.oauth /\ e.master = None
        /\ Update(d, Blank(e, FALSE))
  /\ sas' = [sas EXCEPT ![d] = [NoSas EXCEPT !.flow = sas[d].flow]]
  /\ UNCHANGED <<env, server, held, lies>>

\* signOut: also the escape hatch of every gate, whatever is in flight.  The
\* verification handle and its loop are left alone.
SignOutOf(D) ==
  [Blank(NoEntry, FALSE) EXCEPT !.enrolled = D.enrolled, !.op = D.op]

SignOut(d) ==
  /\ dev[d].entry.exists /\ dev[d].reset = "no" /\ Idle(d)
  /\ dev[d].prompt.kind \in {"none", "verify", "unlock", "error"}
  /\ Update(d, SignOutOf(dev[d]))
  /\ sas' = [sas EXCEPT ![d].screen = "none"]
  /\ UNCHANGED <<env, server, held, lies>>

-----------------------------------------------------------------------------
(* The first device: bootstrap, save the key, add a passkey. *)

\* bootstrapWithKey: enableRecovery makes the key.  The SDK refuses when a
\* backup it has no keys for exists.
EnableRecovery(d) ==
  /\ dev[d].op.kind = "enable" /\ ssss = None /\ keys < MaxKey
  /\ keys' = keys + 1 /\ ssss' = keys + 1
  /\ Update(d, WithOp([dev[d] EXCEPT !.trusted = TRUE], "show", keys + 1))
  /\ UNCHANGED <<env, wraps, creds, held, lies, sas>>

\* bootstrapWithKey: seal, then show the key.
ShowRecoveryKey(d) ==
  /\ dev[d].op.kind = "show"
  /\ LET k == dev[d].op.key IN
     Update(d, Finish([SealDataKey(dev[d], k) EXCEPT !.prompt = Prompt("save", k)]))
  /\ UNCHANGED <<env, server, held, lies, sas>>

\* bootstrapWithKey: every attempt failed.
BootstrapFailed(d) ==
  /\ dev[d].op.kind = "enable"
  /\ Update(d, Finish([dev[d] EXCEPT !.prompt = Prompt("error", None)]))
  /\ UNCHANGED <<env, server, held, lies, sas>>

\* RecoverySetupFailed, retryRecoverySetup: straight to the bootstrap again.
RetryRecoverySetup(d) ==
  /\ RecoverySetupFailed(d)
  /\ Update(d, WithOp([dev[d] EXCEPT !.prompt = NoPrompt], "enable", None))
  /\ UNCHANGED <<env, server, held, lies, sas>>

\* VerifyKeyStep: the user types groups of the saved copy back before the screen
\* lets go.
VerifyKeyStep(k) == held' = held \cup {k}

\* confirmKeySaved
ConfirmKeySaved(d) ==
  /\ SaveRecoveryKey(d)
  /\ LET k == dev[d].prompt.key IN
     /\ VerifyKeyStep(k)
     /\ Update(d, OfferPasskeySpeedup(SealDataKey(MarkKeySaved(dev[d]), k), k))
  /\ UNCHANGED <<env, server, lies, sas>>

\* OfferPasskeySpeedup, onSkip: "Not now", or "Done" after enrolling.
DismissSpeedup(d) ==
  /\ OffersSpeedup(d)
  /\ Update(d, [dev[d] EXCEPT !.prompt = NoPrompt])
  /\ UNCHANGED <<env, server, held, lies, sas>>

\* registerPasskeyPrf succeeded (a provider without PRF, or a cancelled gesture,
\* changes nothing).
RegisterPasskey(d) ==
  /\ OffersSpeedup(d) /\ creds < MaxCred
  /\ May("overlap") \/ \A e \in Devices \ {d} : dev[e].op.kind \notin {"register", "enrol"}
  /\ creds' = creds + 1
  /\ Update(d, [dev[d] EXCEPT !.op = [NoOp EXCEPT !.kind = "register", !.cred = creds + 1,
                                                  !.key = dev[d].prompt.key]])
  /\ UNCHANGED <<env, ssss, wraps, keys, held, lies, sas>>

\* loadWrapRecord: what cannot be read is an empty record.
LoadWrapRecord(d) ==
  /\ dev[d].op.kind = "register"
  /\ \E rec \in {wraps} \cup (IF May("load") THEN {EmptyRecord} ELSE {}) :
       Update(d, [dev[d] EXCEPT !.op.kind = "enrol", !.op.rec = rec])
  /\ UNCHANGED <<env, server, held, lies, sas>>

\* addPasskeySpeedup: save the record with the new wrap, then record custody,
\* enrolment and the local copy.  (rekeyToEncryptedStore has no credentials to
\* work with and returns at once.)
AddPasskeySpeedup(d) ==
  /\ dev[d].op.kind = "enrol"
  /\ LET rec == AddPasskeyWrap(dev[d].op.rec, dev[d].op.cred, dev[d].op.key) IN
     /\ wraps' = rec
     /\ Update(d, Finish([dev[d] EXCEPT !.custody = "passkey", !.enrolled = TRUE,
                                        !.entry.local = rec, !.entry.custody = "passkey"]))
  /\ UNCHANGED <<env, ssss, keys, creds, held, lies, sas>>

\* saveWrapRecord throws: the screen says nothing has changed.
EnrolFailed(d) ==
  /\ dev[d].op.kind = "enrol"
  /\ Update(d, Finish(dev[d]))
  /\ UNCHANGED <<env, server, held, lies, sas>>

-----------------------------------------------------------------------------
(* A returning device: the verify gate and the at-rest unlock gate. *)

\* VerifyThisDevice, submitRecoveryKey: recoverWithKey accepts the key (a wrong
\* one is an error on the screen and changes nothing).
Recover(d, s) ==
  /\ Opens(s)
  /\ Update(d, WithOp([dev[d] EXCEPT !.trusted = TRUE], "recovered", s))
  /\ UNCHANGED <<env, server, held, lies, sas>>

SubmitRecoveryKey(d) ==
  /\ VerifyThisDevice(d)
  /\ \E s \in held : Recover(d, s)

\* VerifyThisDevice's passkey button, unlockWithPasskey.
CanUnlockWithPasskey(d) == env.passkeys /\ dev[d].enrolled

UnlockWithPasskey(d) ==
  /\ VerifyThisDevice(d) /\ CanUnlockWithPasskey(d)
  /\ \E c \in 1..creds, rec \in {wraps} \cup (IF May("load") THEN {EmptyRecord} ELSE {}) :
       Recover(d, Unwrap(rec, c))

\* submitRecoveryKey, after the bounded sync: seal, and offer a passkey to an
\* account that has none.
RecoveryKeyAccepted(d) ==
  /\ dev[d].op.kind = "recovered"
  /\ LET D == SealDataKey(dev[d], dev[d].op.key) IN
     Update(d, Finish(IF dev[d].enrolled THEN [D EXCEPT !.prompt = NoPrompt]
                      ELSE OfferPasskeySpeedup(D, dev[d].op.key)))
  /\ UNCHANGED <<env, server, held, lies, sas>>

\* UnlockSession: a passkey is offered unless custody is manual.
UnlockLeadsWithPasskey(d) == env.passkeys /\ dev[d].entry.custody # "manual"

\* unlockAndRestore: the secret opens the at-rest wrap, then secret storage.
\* When only the first works the session is live but the gate stays.
UnlockAndRestore(D, s) ==
  IF Opens(s) THEN [D EXCEPT !.ms = TRUE, !.trusted = TRUE, !.prompt = NoPrompt,
                             !.entry.custody = D.custody]
  ELSE [D EXCEPT !.ms = TRUE, !.entry.custody = D.custody]

SubmitUnlockKey(d) ==
  /\ UnlockSession(d)
  /\ \E s \in held : s = dev[d].entry.master /\ Update(d, UnlockAndRestore(dev[d], s))
  /\ UNCHANGED <<env, server, held, lies, sas>>

\* unlockSessionWithPasskey: unwraps the local copy; there is no client yet.
UnlockSessionWithPasskey(d) ==
  /\ UnlockSession(d) /\ UnlockLeadsWithPasskey(d)
  /\ \E c \in 1..creds :
       LET s == Unwrap(dev[d].entry.local, c)
           D == UnlockAndRestore([dev[d] EXCEPT !.custody = "passkey"], s) IN
       /\ s = dev[d].entry.master
       /\ Update(d, IF Opens(s) THEN [D EXCEPT !.enrolled = TRUE] ELSE D)
  /\ UNCHANGED <<env, server, held, lies, sas>>

-----------------------------------------------------------------------------
(* Keys shown again, rotated, reset. *)

Reveal(s) ==
  /\ held' = held \cup {s}
  /\ lies' = IF Opens(s) THEN lies ELSE lies \cup {s}

\* SaveLegacyKey, revealLegacyKey: the PRF secret of the passkey the user picks.
SaveLegacyKey(d) ==
  /\ SavesLegacyKey(d)
  /\ \E c \in 1..creds : Reveal(Prf(c))
  /\ Update(d, [MarkKeySaved(dev[d]) EXCEPT !.prompt = NoPrompt])
  /\ UNCHANGED <<env, server, sas>>

\* The account view is behind no gate.
InApp(d) == dev[d].ms /\ Shows(d, "none") /\ Idle(d)

\* RecoveryKeyModal, revealRecoveryKey.
RevealRecoveryKey(d) ==
  /\ InApp(d) /\ dev[d].enrolled /\ env.passkeys
  /\ \E c \in 1..creds : Reveal(Prf(c))
  /\ UNCHANGED <<env, server, dev, sas>>

\* RecoveryKeyModal: the rotation is offered when no passkey seems enrolled.
ConfirmRegenerate(d) ==
  /\ InApp(d) /\ ~dev[d].enrolled /\ May("rotation") /\ dev[d].trusted
  /\ Update(d, WithOp([dev[d] EXCEPT !.modal = TRUE], "rotate", None))
  /\ UNCHANGED <<env, server, held, lies, sas>>

\* regenerateRecoveryKey, resetRecovery: the wrap record is not rewritten.
RegenerateRecoveryKey(d) ==
  /\ dev[d].op.kind = "rotate" /\ keys < MaxKey
  /\ keys' = keys + 1 /\ ssss' = keys + 1
  /\ Update(d, WithOp(dev[d], "rotated", keys + 1))
  /\ UNCHANGED <<env, wraps, creds, held, lies, sas>>

\* The answer reaches the window, unless it was closed meanwhile.
ShowRegenerated(d) ==
  /\ dev[d].op.kind = "rotated"
  /\ held' = IF dev[d].modal THEN held \cup {dev[d].op.key} ELSE held
  /\ Update(d, [Finish(dev[d]) EXCEPT !.modal = FALSE])
  /\ UNCHANGED <<env, server, lies, sas>>

\* Escape or a click beside the window, also while the key is being generated.
CloseModal(d) ==
  /\ dev[d].modal /\ May("closing")
  /\ Update(d, [dev[d] EXCEPT !.modal = FALSE])
  /\ UNCHANGED <<env, server, held, lies, sas>>

\* "Reset my account" at a gate; ResetAccount asks for a plan.  The unlock gate
\* has no session, so there the plan cannot be made.
StartReset(d) ==
  /\ VerifyThisDevice(d) \/ UnlockSession(d)
  /\ Update(d, [dev[d] EXCEPT !.reset = IF dev[d].ms THEN "plan" ELSE "refused"])
  /\ UNCHANGED <<env, server, held, lies, sas>>

CancelReset(d) ==
  /\ dev[d].reset \in {"plan", "refused", "failed"} /\ Idle(d)
  /\ Update(d, [dev[d] EXCEPT !.reset = "no"])
  /\ UNCHANGED <<env, server, held, lies, sas>>

\* resetAccount starts: the workspaces come first.
RunReset(d) ==
  /\ dev[d].reset \in {"plan", "failed"} /\ Idle(d)
  /\ Update(d, WithOp([dev[d] EXCEPT !.reset = "running"], "plan", None))
  /\ UNCHANGED <<env, server, held, lies, sas>>

\* Mutant: the key is rotated before the workspaces are handed over.
RotateFirst(d) ==
  /\ dev[d].op.kind = "plan"
  /\ \/ ssss' = ssss /\ keys' = keys /\ Update(d, [dev[d] EXCEPT !.op.kind = "reset"])
     \/ /\ keys < MaxKey
        /\ keys' = keys + 1 /\ ssss' = keys + 1
        /\ Update(d, [Finish(dev[d]) EXCEPT !.reset = "failed"])
  /\ UNCHANGED <<env, wraps, creds, held, lies, sas>>

\* resetAccount: every workspace is handed over or deleted, or one refuses and
\* the rest is not done.
ResetWorkspaces(d) ==
  /\ dev[d].op.kind = "plan"
  /\ \/ Update(d, [dev[d] EXCEPT !.op.kind = "reset"])
     \/ Update(d, [Finish(dev[d]) EXCEPT !.reset = "failed"])
  /\ UNCHANGED <<env, server, held, lies, sas>>

\* resetAccount: resetRecovery.
ResetRecovery(d) ==
  /\ dev[d].op.kind = "reset"
  /\ \/ /\ keys < MaxKey /\ (May("stale") \/ \A e \in Devices \ {d} : ~CarriesKey(e))
        /\ keys' = keys + 1 /\ ssss' = keys + 1
        /\ Update(d, WithOp(dev[d], "clear", keys + 1))
     \/ /\ Update(d, [Finish(dev[d]) EXCEPT !.reset = "failed"])
        /\ UNCHANGED <<keys, ssss>>
  /\ UNCHANGED <<env, wraps, creds, held, lies, sas>>

\* Mutant: the wraps of the old key are left in account data.
KeepWraps(d) ==
  /\ dev[d].op.kind = "clear"
  /\ Update(d, [Finish(dev[d]) EXCEPT !.reset = "done", !.shown = dev[d].op.key, !.enrolled = FALSE,
                  !.custody = "manual", !.entry.local = EmptyRecord,
                  !.entry.custody = "manual", !.entry.saved = FALSE])
  /\ UNCHANGED <<env, server, held, lies, sas>>

\* resetAccount: clear the wraps (best effort) and what the entry says of them.
ClearWraps(d) ==
  /\ dev[d].op.kind = "clear"
  /\ wraps' \in {EmptyRecord} \cup (IF May("load") THEN {wraps} ELSE {})
  /\ Update(d, [Finish(dev[d]) EXCEPT !.reset = "done", !.shown = dev[d].op.key, !.enrolled = FALSE,
                  !.custody = "manual", !.entry.local = EmptyRecord,
                  !.entry.custody = "manual", !.entry.saved = FALSE])
  /\ UNCHANGED <<env, ssss, keys, creds, held, lies, sas>>

\* ResetAccount: the new key is checked like the first one, then signOut.
FinishReset(d) ==
  /\ dev[d].reset = "done"
  /\ VerifyKeyStep(dev[d].shown)
  /\ Update(d, SignOutOf(dev[d]))
  /\ sas' = [sas EXCEPT ![d].screen = "none"]
  /\ UNCHANGED <<env, server, lies>>

-----------------------------------------------------------------------------
(* Incoming emoji verification. *)

\* External: another client of the user asks, starts SAS once we are ready, and
\* confirms after us; the listener records the request.
PeerRequests(d) ==
  /\ May("request") /\ dev[d].ms /\ sas[d].flow = "none"   \* bound: one request in a behaviour,
  /\ d = CHOOSE e \in Devices : TRUE                       \* by symmetry to one device
  /\ sas' = [sas EXCEPT ![d].flow = "requested", ![d].pending = TRUE]
  /\ UNCHANGED <<env, server, held, lies, dev>>

PeerSteps(d) ==
  /\ \/ sas[d].flow = "accepted" /\ sas' = [sas EXCEPT ![d].flow = "started"]
     \/ sas[d].flow = "started" /\ sas[d].handle /\ sas' = [sas EXCEPT ![d].flow = "emoji"]
     \/ sas[d].flow = "confirmed" /\ sas' = [sas EXCEPT ![d].flow = "done"]
  /\ UNCHANGED <<env, server, held, lies, dev>>

PeerCancels(d) ==
  /\ May("cancel") /\ sas[d].flow \in {"requested", "accepted", "started", "emoji"}
  /\ sas' = [sas EXCEPT ![d].flow = "cancelled"]
  /\ UNCHANGED <<env, server, held, lies, dev>>

\* The 2.5 s poll: take the recorded flow unless a handle is held.
PollVerification(d) ==
  /\ dev[d].ms /\ sas[d].pending /\ ~sas[d].ref
  /\ sas' = [sas EXCEPT ![d].pending = FALSE, ![d].ref = TRUE, ![d].screen = "pending"]
  /\ UNCHANGED <<env, server, held, lies, dev>>

\* verificationStopRef: a loop awaiting its advance delivers it all the same.
Stop(S) == [S EXCEPT !.loop = "off", !.late = IF S.loop = "busy" THEN S.got ELSE @]

\* VerificationFlow: which buttons the screen has.
Buttons(screen) ==
  CASE screen = "pending" -> {"accept", "cancel"}
    [] screen = "emoji" -> {"confirm", "cancel"}
    [] screen = "started" -> {"cancel"}
    [] OTHER -> {}

\* acceptIncomingVerification, runVerificationLoop.
AcceptVerification(d) ==
  /\ "accept" \in Buttons(sas[d].screen) /\ sas[d].ref
  /\ LET S == Stop(sas[d]) IN
     sas' = [sas EXCEPT ![d] = [S EXCEPT !.loop = "timer",
               !.flow = IF @ = "requested" THEN "accepted" ELSE @]]
  /\ UNCHANGED <<env, server, held, lies, dev>>

\* DeviceVerification::state_string
StateString(S) ==
  CASE S.flow = "cancelled" -> "cancelled"
    [] ~S.handle -> "pending"
    [] S.flow \in {"emoji", "confirmed"} -> "emoji"
    [] S.flow = "done" -> "done"
    [] OTHER -> "started"

\* The tick calls DeviceVerification::advance, which attaches a started SAS.
Tick(d) ==
  /\ sas[d].loop = "timer"
  /\ LET S == [sas[d] EXCEPT !.handle = @ \/ sas[d].flow = "started"] IN
     sas' = [sas EXCEPT ![d] = [S EXCEPT !.loop = "busy", !.got = StateString(S)]]
  /\ UNCHANGED <<env, server, held, lies, dev>>

\* What a tick does with the answer.
Deliver(S, status) ==
  CASE status = "done" -> [S EXCEPT !.screen = "done", !.closing = TRUE]
    [] status = "cancelled" -> [S EXCEPT !.screen = "none", !.ref = FALSE]
    [] OTHER -> [S EXCEPT !.screen = status]

\* done: the device is trusted and the gate, whatever it is, goes.
Verified(d, status) ==
  IF status = "done" THEN Update(d, [dev[d] EXCEPT !.trusted = TRUE, !.prompt = NoPrompt])
  ELSE UNCHANGED dev

\* Mutant: the loop goes on only while the user has something to compare.
StopsAtStarted(d) ==
  /\ sas[d].loop = "busy"
  /\ LET S == Deliver(sas[d], sas[d].got) IN
     sas' = [sas EXCEPT ![d] = [S EXCEPT !.got = "none",
               !.loop = IF sas[d].got \in {"done", "cancelled", "started"} THEN "off" ELSE "timer"]]
  /\ Verified(d, sas[d].got)
  /\ UNCHANGED <<env, server, held, lies>>

TickDone(d) ==
  /\ sas[d].loop = "busy"
  /\ LET S == Deliver(sas[d], sas[d].got) IN
     sas' = [sas EXCEPT ![d] = [S EXCEPT !.got = "none",
               !.loop = IF sas[d].got \in {"done", "cancelled"} THEN "off" ELSE "timer"]]
  /\ Verified(d, sas[d].got)
  /\ UNCHANGED <<env, server, held, lies>>

\* The tick of a stopped loop comes back: it still sets the screen.
LateTick(d) ==
  /\ sas[d].late # "none"
  /\ sas' = [sas EXCEPT ![d] = [Deliver(sas[d], sas[d].late) EXCEPT !.late = "none"]]
  /\ Verified(d, sas[d].late)
  /\ UNCHANGED <<env, server, held, lies>>

\* confirmVerification: the emoji match.
ConfirmVerification(d) ==
  /\ "confirm" \in Buttons(sas[d].screen) /\ sas[d].flow = "emoji" /\ sas[d].ref
  /\ sas' = [sas EXCEPT ![d].flow = "confirmed"]
  /\ UNCHANGED <<env, server, held, lies, dev>>

\* cancelVerification
CancelVerification(d) ==
  /\ May("cancel") /\ "cancel" \in Buttons(sas[d].screen)
  /\ LET S == Stop(sas[d]) IN
     sas' = [sas EXCEPT ![d] = [S EXCEPT !.ref = FALSE, !.screen = "none",
               !.flow = IF sas[d].ref /\ @ # "done" THEN "cancelled" ELSE @]]
  /\ UNCHANGED <<env, server, held, lies, dev>>

\* The 1.5 s timer after success.
CloseVerified(d) ==
  /\ sas[d].closing
  /\ sas' = [sas EXCEPT ![d].closing = FALSE, ![d].ref = FALSE, ![d].screen = "none"]
  /\ UNCHANGED <<env, server, held, lies, dev>>

-----------------------------------------------------------------------------
Keyed(d) ==
  \/ SignIn(d) \/ EnsureHistoryAccess(d) \/ Reload(d) \/ SignOut(d)
  \/ EnableRecovery(d) \/ ShowRecoveryKey(d) \/ BootstrapFailed(d) \/ RetryRecoverySetup(d)
  \/ ConfirmKeySaved(d) \/ DismissSpeedup(d)
  \/ RegisterPasskey(d) \/ LoadWrapRecord(d) \/ AddPasskeySpeedup(d) \/ EnrolFailed(d)
  \/ SubmitRecoveryKey(d) \/ UnlockWithPasskey(d) \/ RecoveryKeyAccepted(d)
  \/ SubmitUnlockKey(d) \/ UnlockSessionWithPasskey(d)
  \/ SaveLegacyKey(d) \/ RevealRecoveryKey(d)
  \/ ConfirmRegenerate(d) \/ RegenerateRecoveryKey(d) \/ ShowRegenerated(d) \/ CloseModal(d)
  \/ StartReset(d) \/ CancelReset(d) \/ RunReset(d) \/ ResetWorkspaces(d)
  \/ ResetRecovery(d) \/ ClearWraps(d) \/ FinishReset(d)

Emoji(d) ==
  \/ PeerRequests(d) \/ PeerSteps(d) \/ PeerCancels(d) \/ PollVerification(d)
  \/ AcceptVerification(d) \/ Tick(d) \/ TickDone(d) \/ LateTick(d)
  \/ ConfirmVerification(d) \/ CancelVerification(d) \/ CloseVerified(d)

Next == \E d \in Devices : Keyed(d) \/ Emoji(d)

\* Timers and awaits go on; the other client goes on; the user is not obliged
\* to do anything.
Fairness ==
  \A d \in Devices : /\ WF_vars(Tick(d)) /\ WF_vars(TickDone(d)) /\ WF_vars(LateTick(d))
                     /\ WF_vars(CloseVerified(d)) /\ WF_vars(PeerSteps(d))

Spec == Init /\ [][Next]_vars /\ Fairness

-----------------------------------------------------------------------------
(* Properties. *)

\* Whatever the passkeys, retries, reloads and resets, the recovery key in force
\* is one the user has confirmed to hold (VerifyKeyStep, "EVERY account now
\* leaves setup having seen its key"), unless a screen still carries it: nothing
\* the application does on its own replaces it, and a reset that fails has not
\* replaced it either ("a failure here leaves the old key working").  Not so when
\* a tab or the key window is closed at the wrong moment, or when a verification
\* that succeeds dismisses the save screen.
HeldKeyOpens ==
  /\ Faults \cap {"closing", "request"} = {}
  /\ ssss > 0
  => ssss \in held \/ \E d \in Devices : ssss \in {dev[d].prompt.key, dev[d].op.key, dev[d].shown}

\* The verify gate offers a passkey only where it works: every wrap a device at
\* the gate can load holds the key in force, whatever other devices have
\* enrolled or reset before ("leaving them would let a passkey unlock to a key
\* that opens nothing", resetAccount).  Rotating the key in the account view,
\* a reset that overtakes another device's enrolment and one interrupted halfway
\* do leave such wraps.
OfferedPasskeyOpens ==
  \A d \in Devices :
    /\ VerifyThisDevice(d) /\ CanUnlockWithPasskey(d)
    /\ Faults \cap {"closing", "rotation", "stale", "load"} = {}
    /\ ~\E e \in Devices : dev[e].op.kind = "clear"
    => \A c \in Creds : wraps[c] # None => Opens(wraps[c])

\* A passkey enrolled on one device is not displaced by another's: a wrap leaves
\* the record only by a reset ("a user can enrol a laptop AND a phone without
\* either displacing the other", passkeyWrap.ts).  Enrolments that overlap, and
\* a record that could not be read, do lose wraps.
EnrolmentsKept ==
  [][ Faults \cap {"overlap", "load"} = {} =>
      \A c \in Creds : wraps[c] # None /\ wraps'[c] = None =>
        \E d \in Devices : dev[d].op.kind = "clear" ]_vars

\* An accepted verification goes on by itself: the emoji come up for the user to
\* compare, and once the user has said that they match the screen goes away -
\* unless the page is reloaded or somebody calls it off.  The tick loop of
\* runVerificationLoop must outlive every state in between.
VerificationEnds ==
  "cancel" \notin Faults =>
    \A d \in Devices :
      /\ sas[d].flow = "accepted" ~> sas[d].screen = "emoji" \/ ~sas[d].ref
      /\ sas[d].flow = "confirmed" ~> sas[d].screen = "none"

\* revealRecoveryKey: "The returned PRF secret is the same secret recoverWithKey
\* / the CLI's recover_with_key / the verify gate accept."
RevealedKeyOpens == lies = {}
=============================================================================
