------------------------ MODULE DeviceTrust_proofs -------------------------
(***************************************************************************)
(* What holds of recovery keys, passkeys and the verify gate for every set *)
(* of devices, every number of keys and passkeys, and every mixture of     *)
(* mishaps.                                                                *)
(*                                                                         *)
(* Sound says which keys a device can be carrying at which of its awaits   *)
(* and screens, and Sourced where those keys come from.  On these rest the *)
(* three guarantees: EnrolInv is what EnrolmentsKept needs, GateInv what   *)
(* OfferedPasskeyOpens needs, and HeldKeyOpens is inductive relative to    *)
(* Sound and Sourced.                                                      *)
(*                                                                         *)
(* Most actions change nothing of the keys (Quiet); every other action is  *)
(* a case of its own in the proof of each guarantee.                       *)
(***************************************************************************)
EXTENDS DeviceTrust, TLAPS

\* The custodies of a session, the prompts of the gate, the stages of a reset,
\* and the awaits a device can be in; the last six of them hold a key.
Custodies == {"manual", "passkey"}
PromptKinds == {"none", "save", "speedup", "save-legacy-key", "verify", "unlock", "error"}
Resets == {"no", "plan", "refused", "running", "failed", "done"}
BareOps == {"none", "history", "enable", "rotate", "plan", "reset"}
KeyOps == {"show", "register", "enrol", "recovered", "rotated", "clear"}

\* The records of the model.
Record == [Creds -> Int]
Entry == [exists : BOOLEAN, custody : Custodies \cup {"none"}, saved : BOOLEAN,
          local : Record, master : Int]
Operation == [kind : BareOps \cup KeyOps, key : Int, cred : 0..MaxCred, rec : Record]
Prompts == [kind : PromptKinds, key : Int]
Device == [ms : BOOLEAN, trusted : BOOLEAN, entry : Entry, prompt : Prompts,
           enrolled : BOOLEAN, custody : Custodies, op : Operation, reset : Resets,
           shown : Int, modal : BOOLEAN]

\* Type correctness of the key side.
TrustType ==
  /\ env \in Envs
  /\ ssss \in Int /\ wraps \in Record /\ keys \in Nat /\ creds \in 0..MaxCred
  /\ held \subseteq Int
  /\ dev \in [Devices -> Device]

\* What holds of one device by itself: where its keys are.
Sound(D) ==
  /\ D.prompt.key # None <=> D.prompt.kind \in {"save", "speedup"}
  /\ D.op.key # None <=> D.op.kind \in KeyOps
  /\ ~D.ms => /\ D.op.kind = "none" /\ D.prompt.kind \in {"none", "unlock"}
              /\ D.reset \in {"no", "refused"}
  /\ D.op.kind \in {"history", "enable", "show", "recovered"} => D.prompt.key = None
  /\ D.reset = "running" <=> D.op.kind \in {"plan", "reset", "clear"}
  /\ D.reset \notin {"no", "refused"} =>
       D.prompt.key = None /\ D.op.kind \in {"none", "plan", "reset", "clear"}
  /\ D.shown # None => D.reset = "done"
  /\ D.op.kind \in {"rotate", "rotated"} => May("rotation") /\ (D.modal \/ May("closing"))

\* Nobody is asking for a verification.
Unasked == ~May("request") => sas = [d \in Devices |-> NoSas]

\* A key the user holds, a passkey's own secret, or none at all.
Given(k) == k <= None \/ k \in held

\* Where the keys of one device come from.
Sourced(D) ==
  /\ D.prompt.key <= keys /\ D.op.key <= keys /\ D.shown <= keys
  /\ D.prompt.kind = "speedup" => Given(D.prompt.key)
  /\ D.op.kind \in {"register", "enrol", "recovered"} => Given(D.op.key)
  /\ D.op.kind = "enrol" => \A c \in Creds : D.op.rec[c] <= keys /\ Given(D.op.rec[c])

\* And those of the server and of the user.
SourceInv ==
  /\ ssss <= keys
  /\ \A k \in held : k <= keys
  /\ \A c \in Creds : wraps[c] <= keys /\ Given(wraps[c])
  /\ \A d \in Devices : Sourced(dev[d])

\* The devices between registering a passkey and storing its wrap.
Enrolling(d) == dev[d].op.kind \in {"register", "enrol"}
EnrolInv ==
  Faults \cap {"overlap", "load"} = {} =>
    /\ \A d, e \in Devices : Enrolling(d) /\ Enrolling(e) => d = e
    /\ \A d \in Devices : dev[d].op.kind = "enrol" =>
         \A c \in Creds : wraps[c] # None => dev[d].op.rec[c] # None

\* The keys of a device are the one in force.
InForce(D) ==
  /\ D.prompt.key # None => D.prompt.key = ssss
  /\ D.op.kind \in KeyOps => D.op.key = ssss
  /\ D.op.kind = "enrol" => \A c \in Creds : D.op.rec[c] # None => D.op.rec[c] = ssss

\* A device that holds no key.
Bare(D) == D.prompt.key = None /\ D.op.kind \notin KeyOps
\* Only device d knows the key in force.
Fresh(d) ==
  /\ ssss > 0 /\ ssss \notin held
  /\ \A c \in Creds : wraps[c] # ssss
  /\ \A e \in Devices : dev[e].shown # ssss /\ (e # d => Bare(dev[e]))
GateInv ==
  Faults \cap {"closing", "rotation", "stale", "load"} = {} =>
    /\ \A d \in Devices : InForce(dev[d])
    /\ \A d \in Devices : dev[d].op.kind = "clear" => Fresh(d)
    /\ (\A d \in Devices : dev[d].op.kind # "clear") =>
         \A c \in Creds : wraps[c] # None => wraps[c] = ssss

\* A step that may throw a screen away before the user is done with it.
Interrupted == May("closing") \/ May("request")

\* A step of one device, from D to E, that makes, stores and gives out no key:
\* what it drops the user holds already, or a closed tab takes with it.
Quiet(D, E) ==
  /\ \/ E.prompt = D.prompt
     \/ E.prompt.key = None /\ (D.prompt.kind = "save" => Interrupted)
  /\ \/ E.op = D.op
     \/ E.op.kind \in BareOps /\ (D.op.kind \in KeyOps \ {"enrol"} => May("closing"))
  /\ E.shown = D.shown \/ (E.shown = None /\ (D.shown # None => May("closing")))

\* E differs from D in what the entry, and nothing else, keeps.
SameButEntry(D, E) ==
  /\ E \in Device /\ E.ms = D.ms /\ E.trusted = D.trusted /\ E.prompt = D.prompt
  /\ E.enrolled = D.enrolled /\ E.custody = D.custody /\ E.op = D.op /\ E.reset = D.reset
  /\ E.shown = D.shown /\ E.modal = D.modal

-----------------------------------------------------------------------------
(* The operators of the model. *)

\* The empty record is a record, and the empty operation an operation.
LEMMA EmptyFacts ==
  /\ EmptyRecord \in Record /\ \A c \in Creds : EmptyRecord[c] = None
  /\ NoOp \in Operation /\ NoOp.kind = "none" /\ NoOp.key = None
  /\ NoEntry \in Entry
  /\ NoPrompt \in Prompts /\ NoPrompt.kind = "none" /\ NoPrompt.key = None
<1>1. None \in Int /\ None \in 0..MaxCred
  BY DeviceTrustAssumption DEF None
<1>2. EmptyRecord \in Record /\ \A c \in Creds : EmptyRecord[c] = None
  BY <1>1 DEF EmptyRecord, Record
<1>3. NoOp \in Operation /\ NoOp.kind = "none" /\ NoOp.key = None
  BY <1>1, <1>2 DEF NoOp, Operation, BareOps, KeyOps
<1>4. NoEntry \in Entry
  BY <1>1, <1>2 DEF NoEntry, Entry, Custodies
<1>5. NoPrompt \in Prompts /\ NoPrompt.kind = "none" /\ NoPrompt.key = None
  BY <1>1 DEF NoPrompt, Prompt, Prompts, PromptKinds
<1>6. QED BY <1>2, <1>3, <1>4, <1>5

\* A prompt of the application is one.
LEMMA PromptFacts ==
  ASSUME NEW kind \in PromptKinds, NEW k \in Int
  PROVE  /\ Prompt(kind, k) \in Prompts
         /\ Prompt(kind, k).kind = kind /\ Prompt(kind, k).key = k
BY DEF Prompt, Prompts

\* The parts of a device.
LEMMA DeviceParts ==
  ASSUME NEW D \in Device
  PROVE  /\ D.entry \in Entry /\ D.prompt \in Prompts /\ D.op \in Operation
         /\ D.prompt.kind \in PromptKinds /\ D.prompt.key \in Int
         /\ D.op.kind \in BareOps \cup KeyOps /\ D.op.key \in Int
         /\ D.op.cred \in 0..MaxCred /\ D.op.rec \in Record
         /\ D.entry.local \in Record /\ D.entry.master \in Int
         /\ D.ms \in BOOLEAN /\ D.trusted \in BOOLEAN /\ D.enrolled \in BOOLEAN
         /\ D.custody \in Custodies /\ D.reset \in Resets /\ D.shown \in Int
         /\ D.modal \in BOOLEAN
BY DEF Device, Entry, Prompts, Operation

\* What starting, ending and carrying an operation changes.
LEMMA OpFacts ==
  ASSUME NEW D \in Device, NEW kind \in BareOps \cup KeyOps, NEW k \in Int
  PROVE  /\ WithOp(D, kind, k) \in Device
         /\ WithOp(D, kind, k) = [D EXCEPT !.op = WithOp(D, kind, k).op]
         /\ WithOp(D, kind, k).op.kind = kind /\ WithOp(D, kind, k).op.key = k
         /\ Finish(D) \in Device /\ Finish(D) = [D EXCEPT !.op = NoOp]
<1> DEFINE o == [NoOp EXCEPT !.kind = kind, !.key = k]
<1>1. o \in Operation /\ o.kind = kind /\ o.key = k
  BY EmptyFacts DEF Operation
<1>2. WithOp(D, kind, k) = [D EXCEPT !.op = o]
  BY DEF WithOp
<1> HIDE DEF o
<1>3. [D EXCEPT !.op = o] \in Device /\ [D EXCEPT !.op = o].op = o
  BY <1>1 DEF Device
<1>4. Finish(D) \in Device /\ Finish(D) = [D EXCEPT !.op = NoOp]
  BY EmptyFacts DEF Finish, Device
<1>5. QED BY <1>1, <1>2, <1>3, <1>4

\* Sealing and marking the key saved touch the entry only.
LEMMA EntryFacts ==
  ASSUME NEW D \in Device, NEW k \in Int
  PROVE  SameButEntry(D, SealDataKey(D, k)) /\ SameButEntry(D, MarkKeySaved(D))
<1> DEFINE e == [D.entry EXCEPT !.master = k, !.custody = D.custody]
           m == [D.entry EXCEPT !.saved = TRUE]
<1>1. e \in Entry /\ m \in Entry
  BY DeviceParts DEF Entry
<1>2. /\ SealDataKey(D, k) \in {D, [D EXCEPT !.entry = e]}
      /\ MarkKeySaved(D) = [D EXCEPT !.entry = m]
  BY DEF SealDataKey, MarkKeySaved, Device
<1> HIDE DEF e, m
<1>3. \A x \in Entry : SameButEntry(D, [D EXCEPT !.entry = x])
  BY DEF SameButEntry, Device
<1>4. SameButEntry(D, D)
  BY DEF SameButEntry
<1>5. QED BY <1>1, <1>2, <1>3, <1>4

\* A page starts with nothing.
LEMMA BlankFacts ==
  ASSUME NEW e \in Entry, NEW t \in BOOLEAN
  PROVE  /\ Blank(e, t) \in Device /\ Blank(e, t).ms = FALSE /\ Blank(e, t).prompt = NoPrompt
         /\ Blank(e, t).op = NoOp /\ Blank(e, t).reset = "no" /\ Blank(e, t).shown = None
         /\ Blank(e, t).modal = FALSE
<1>1. None \in Int
  BY DEF None
<1>2. QED BY <1>1, EmptyFacts DEF Blank, Device, Custodies, Resets
-----------------------------------------------------------------------------
(* The steps that make, store and give out no key. *)

\* Every device is carrying its keys as Sound says.
DevicesSound == \A d \in Devices : Sound(dev[d])

\* A quiet step of device d; the user may learn a passkey's own secret.
Settled(d) ==
  /\ UNCHANGED <<env, ssss, wraps, keys>> /\ creds' = creds
  /\ held \subseteq held' /\ held' \subseteq Int
  /\ \A k \in held' : k \in held \/ k <= None
  /\ dev' \in [Devices -> Device]
  /\ Sound(dev'[d]) /\ Quiet(dev[d], dev'[d])
  /\ \A e \in Devices \ {d} : dev'[e] = dev[e]

\* Replacing one device by another.
LEMMA Replaced ==
  ASSUME TrustType, NEW d \in Devices, NEW E \in Device, Update(d, E)
  PROVE  /\ dev' \in [Devices -> Device] /\ dev'[d] = E
         /\ \A e \in Devices \ {d} : dev'[e] = dev[e]
BY DEF TrustType, Update

\* What a quiet step has to show.
LEMMA QuietUpdate ==
  ASSUME TrustType, NEW d \in Devices, NEW E \in Device, Update(d, E),
         UNCHANGED <<env, server, held>>, Sound(E), Quiet(dev[d], E)
  PROVE  Settled(d)
BY Replaced DEF Settled, server, TrustType

\* Ending an operation that holds no key, or an enrolment.
LEMMA FinishQuiet ==
  ASSUME NEW D \in Device, Sound(D), NEW E \in Device,
         D.ms, E.ms, E.op = NoOp, E.shown = D.shown, E.modal = D.modal,
         D.op.kind \in BareOps \/ D.op.kind = "enrol" \/ May("closing"),
         \/ E.prompt = D.prompt
         \/ E.prompt.key = None /\ D.prompt.kind # "save"
              /\ E.prompt.kind \notin {"save", "speedup"},
         E.reset = D.reset \/ (E.reset = "failed" /\ D.op.kind \in {"plan", "reset", "clear"}),
         E.reset # "running"
  PROVE  Sound(E) /\ Quiet(D, E)
<1>1. E.op.kind = "none" /\ E.op.key = None
  BY EmptyFacts
<1>2. /\ "none" \in BareOps /\ "none" \notin KeyOps
      /\ \A x \in BareOps : x \notin KeyOps
  BY DEF BareOps, KeyOps
<1>3. Quiet(D, E)
  BY <1>1, <1>2 DEF Quiet
<1>4. Sound(E)
  BY <1>1, <1>2 DEF Sound
<1>5. QED BY <1>3, <1>4

\* The devices of a state.
LEMMA Here ==
  ASSUME TrustType, DevicesSound, NEW d \in Devices
  PROVE  dev[d] \in Device /\ Sound(dev[d])
BY DEF TrustType, DevicesSound

\* A sign-in keeps what the device's entry said and asks the server.
LEMMA SignInQuiet ==
  ASSUME TrustType, DevicesSound, NEW d \in Devices, SignIn(d)
  PROVE  Settled(d)
<1> DEFINE n == [NoEntry EXCEPT !.exists = TRUE, !.saved = dev[d].entry.saved,
                                !.local = dev[d].entry.local]
           S == [dev[d] EXCEPT !.ms = TRUE, !.trusted = FALSE, !.entry = n]
           E == WithOp(S, "history", None)
<1>1. dev[d] \in Device /\ Sound(dev[d]) /\ dev[d].op.kind = "none" /\ ~dev[d].ms
  BY Here DEF SignIn, Idle
<1>2. n \in Entry
  BY <1>1, DeviceParts, EmptyFacts DEF Entry
<1>3. Update(d, E) /\ UNCHANGED <<env, server, held>>
  BY DEF SignIn
<1> HIDE DEF n
<1>4. /\ S \in Device /\ S.ms = TRUE /\ S.prompt = dev[d].prompt /\ S.op = dev[d].op
      /\ S.reset = dev[d].reset /\ S.shown = dev[d].shown /\ S.modal = dev[d].modal
  BY <1>1, <1>2 DEF Device
<1> HIDE DEF S
<1>5. "history" \in BareOps /\ None \in Int
  BY DEF BareOps, None
<1>6. /\ E \in Device /\ E.ms = TRUE /\ E.prompt = dev[d].prompt
      /\ E.op.kind = "history" /\ E.op.key = None
      /\ E.reset = dev[d].reset /\ E.shown = dev[d].shown /\ E.modal = dev[d].modal
  BY <1>4, <1>5, OpFacts DEF Device
<1> HIDE DEF E
<1>7. Sound(E) /\ Quiet(dev[d], E)
  BY <1>1, <1>6 DEF Sound, Quiet, BareOps, KeyOps
<1>8. QED BY <1>3, <1>6, <1>7, QuietUpdate

\* Finding out what secure backup is like starts the set-up or opens a gate.
LEMMA HistoryQuiet ==
  ASSUME TrustType, DevicesSound, NEW d \in Devices, EnsureHistoryAccess(d)
  PROVE  Settled(d)
<1>1. /\ dev[d] \in Device /\ Sound(dev[d]) /\ dev[d].op.kind = "history"
      /\ dev[d].prompt.key = None
  BY Here DEF EnsureHistoryAccess, Sound
<1>2. UNCHANGED <<env, server, held>>
  BY DEF EnsureHistoryAccess
<1>3. "enable" \in BareOps /\ "history" \in BareOps /\ None \in Int
  BY DEF BareOps, None
<1>4. {"save-legacy-key", "verify"} \subseteq PromptKinds
  BY DEF PromptKinds
<1>5. CASE Update(d, WithOp(dev[d], "enable", None))
  <2> DEFINE E == WithOp(dev[d], "enable", None)
  <2>1. /\ E \in Device /\ E.ms = dev[d].ms /\ E.prompt = dev[d].prompt
        /\ E.op.kind = "enable" /\ E.op.key = None
        /\ E.reset = dev[d].reset /\ E.shown = dev[d].shown /\ E.modal = dev[d].modal
    BY <1>1, <1>3, OpFacts DEF Device
  <2>2. Update(d, E)
    BY <1>5
  <2> HIDE DEF E
  <2>3. Sound(E) /\ Quiet(dev[d], E)
    BY <1>1, <2>1 DEF Sound, Quiet, BareOps, KeyOps
  <2>4. QED BY <1>2, <2>1, <2>2, <2>3, QuietUpdate
<1>6. ASSUME NEW b \in BOOLEAN, NEW p \in Prompts, p.key = None,
             p.kind \notin {"save", "speedup"} \/ p = dev[d].prompt,
             Update(d, Finish([dev[d] EXCEPT !.enrolled = b, !.prompt = p]))
      PROVE  Settled(d)
  <2> DEFINE P == [dev[d] EXCEPT !.enrolled = b, !.prompt = p]
             E == Finish(P)
  <2>1. /\ P \in Device /\ P.ms = dev[d].ms /\ P.prompt = p /\ P.reset = dev[d].reset
        /\ P.shown = dev[d].shown /\ P.modal = dev[d].modal
    BY <1>1, <1>6 DEF Device
  <2>2. Update(d, E)
    BY <1>6
  <2> HIDE DEF P
  <2>3. /\ E \in Device /\ E.ms = dev[d].ms /\ E.op = NoOp /\ E.prompt = p
        /\ E.reset = dev[d].reset /\ E.shown = dev[d].shown /\ E.modal = dev[d].modal
    BY <1>3, <2>1, OpFacts DEF Device
  <2> HIDE DEF E
  <2>4. dev[d].ms /\ dev[d].prompt.kind # "save" /\ dev[d].reset # "running"
    BY <1>1 DEF Sound
  <2>5. Sound(E) /\ Quiet(dev[d], E)
    BY <1>1, <1>3, <1>6, <2>3, <2>4, FinishQuiet
  <2>6. QED BY <1>2, <2>2, <2>3, <2>5, QuietUpdate
<1>7. CASE Update(d, Finish([dev[d] EXCEPT !.prompt =
                     IF dev[d].entry.custody = "passkey" /\ ~dev[d].entry.saved
                     THEN Prompt("save-legacy-key", None) ELSE @]))
  <2> DEFINE p == IF dev[d].entry.custody = "passkey" /\ ~dev[d].entry.saved
                  THEN Prompt("save-legacy-key", None) ELSE dev[d].prompt
  <2>1. p \in Prompts /\ p.key = None
    BY <1>1, <1>3, <1>4, PromptFacts, DeviceParts
  <2>2. p.kind \notin {"save", "speedup"} \/ p = dev[d].prompt
    BY <1>3, <1>4, PromptFacts
  <2>3. Update(d, Finish([dev[d] EXCEPT !.prompt = p]))
    BY <1>7
  <2> HIDE DEF p
  <2>4. [dev[d] EXCEPT !.prompt = p] = [dev[d] EXCEPT !.enrolled = dev[d].enrolled, !.prompt = p]
    BY <1>1 DEF Device
  <2>5. dev[d].enrolled \in BOOLEAN
    BY <1>1, DeviceParts
  <2>6. QED BY <1>6, <2>1, <2>2, <2>3, <2>4, <2>5
<1>8. ASSUME NEW rec, Update(d, Finish([dev[d] EXCEPT !.enrolled = HasEnrolled(rec) \/ ssss < 0,
                                             !.prompt = Prompt("verify", None)]))
      PROVE  Settled(d)
  <2>1. /\ Prompt("verify", None) \in Prompts /\ Prompt("verify", None).key = None
        /\ Prompt("verify", None).kind = "verify"
    BY <1>3, <1>4, PromptFacts
  <2> DEFINE b == HasEnrolled(rec) \/ ssss < 0
  <2>2. b \in BOOLEAN
    OBVIOUS
  <2>3. Update(d, Finish([dev[d] EXCEPT !.enrolled = b, !.prompt = Prompt("verify", None)]))
    BY <1>8
  <2> HIDE DEF b
  <2>4. QED BY <1>6, <2>1, <2>2, <2>3
<1>9. QED BY <1>5, <1>7, <1>8 DEF EnsureHistoryAccess

\* A page load starts again from the entry; only a closed tab loses a key by it.
LEMMA ReloadQuiet ==
  ASSUME TrustType, DevicesSound, NEW d \in Devices, Reload(d)
  PROVE  Settled(d)
<1> DEFINE e == dev[d].entry
<1>1. /\ dev[d] \in Device /\ Sound(dev[d])
      /\ May("closing") \/ (~CarriesKey(d) /\ dev[d].shown = None /\ dev[d].reset = "no")
  BY Here DEF Reload
<1>2. UNCHANGED <<env, server, held>>
  BY DEF Reload
<1>3. e \in Entry /\ [e EXCEPT !.custody = "manual"] \in Entry
  BY <1>1, DeviceParts DEF Entry, Custodies
<1>4. "history" \in BareOps /\ None \in Int /\ "unlock" \in PromptKinds
  BY DEF BareOps, None, PromptKinds
<1>5. /\ May("closing") \/ (dev[d].prompt.key = None /\ dev[d].op.kind \in {"none", "history"}
                             /\ dev[d].shown = None)
      /\ dev[d].prompt.kind = "save" => May("closing")
  BY <1>1 DEF CarriesKey, Sound
<1>6. ASSUME NEW E \in Device, Update(d, E), E.prompt.key = None,
             E.prompt.kind \notin {"save", "speedup"},
             \/ E.op = NoOp /\ (E.ms \/ E.prompt.kind \in {"none", "unlock"})
             \/ E.op.kind = "history" /\ E.op.key = None /\ E.ms = TRUE,
             E.reset = "no", E.shown = None
      PROVE  Settled(d)
  <2>1. /\ E.op.kind \in {"none", "history"} /\ E.op.key = None
        /\ ~E.ms => E.op.kind = "none"
    BY <1>6, EmptyFacts
  <2>2. Sound(E)
    BY <1>6, <2>1 DEF Sound, BareOps, KeyOps
  <2>3. E.op.kind \in BareOps /\ (dev[d].op.kind \in KeyOps \ {"enrol"} => May("closing"))
    BY <1>5, <2>1 DEF BareOps, KeyOps
  <2>4. E.prompt.key = None /\ (dev[d].prompt.kind = "save" => Interrupted)
    BY <1>5, <1>6 DEF Interrupted
  <2>5. E.shown = None /\ (dev[d].shown # None => May("closing"))
    BY <1>5, <1>6
  <2>6. Quiet(dev[d], E)
    BY ONLY <2>3, <2>4, <2>5, Zenon DEF Quiet
  <2>7. QED BY <1>2, <1>6, <2>2, <2>6, QuietUpdate
<1>7. dev[d].trusted \in BOOLEAN /\ FALSE \in BOOLEAN /\ TRUE \in BOOLEAN
  BY <1>1, DeviceParts
<1>8. CASE Update(d, [Blank([e EXCEPT !.custody = "manual"], dev[d].trusted) EXCEPT !.ms = TRUE])
  <2> DEFINE B == Blank([e EXCEPT !.custody = "manual"], dev[d].trusted)
             E == [B EXCEPT !.ms = TRUE]
  <2>1. B \in Device /\ B.prompt = NoPrompt /\ B.op = NoOp /\ B.reset = "no" /\ B.shown = None
    BY <1>3, <1>7, BlankFacts
  <2>2. Update(d, E)
    BY <1>8
  <2> HIDE DEF B
  <2>3. /\ E \in Device /\ E.prompt = NoPrompt /\ E.op = NoOp /\ E.reset = "no"
        /\ E.shown = None
    BY <2>1 DEF Device
  <2> HIDE DEF E
  <2>4. QED BY <1>6, <2>2, <2>3, EmptyFacts
<1>9. CASE Update(d, [Blank(e, dev[d].trusted) EXCEPT !.prompt = Prompt("unlock", None)])
  <2> DEFINE B == Blank(e, dev[d].trusted)
             p == Prompt("unlock", None)
             E == [B EXCEPT !.prompt = p]
  <2>1. B \in Device /\ B.op = NoOp /\ B.reset = "no" /\ B.shown = None
    BY <1>3, <1>7, BlankFacts
  <2>2. p \in Prompts /\ p.kind = "unlock" /\ p.key = None
    BY <1>4, PromptFacts
  <2>3. Update(d, E)
    BY <1>9
  <2> HIDE DEF B, p
  <2>4. E \in Device /\ E.prompt = p /\ E.op = NoOp /\ E.reset = "no" /\ E.shown = None
    BY <2>1, <2>2 DEF Device
  <2> HIDE DEF E
  <2>5. QED BY <1>6, <2>2, <2>3, <2>4
<1>10. CASE Update(d, WithOp([Blank(e, dev[d].trusted) EXCEPT !.ms = TRUE], "history", None))
  <2> DEFINE B == Blank(e, dev[d].trusted)
             S == [B EXCEPT !.ms = TRUE]
             E == WithOp(S, "history", None)
  <2>1. B \in Device /\ B.prompt = NoPrompt /\ B.reset = "no" /\ B.shown = None
    BY <1>3, <1>7, BlankFacts
  <2>2. Update(d, E)
    BY <1>10
  <2> HIDE DEF B
  <2>3. S \in Device /\ S.ms = TRUE /\ S.prompt = NoPrompt /\ S.reset = "no" /\ S.shown = None
    BY <2>1 DEF Device
  <2> HIDE DEF S
  <2>4. /\ E \in Device /\ E.ms = TRUE /\ E.prompt = NoPrompt /\ E.op.kind = "history"
        /\ E.op.key = None /\ E.reset = "no" /\ E.shown = None
    BY <1>4, <2>3, OpFacts DEF Device
  <2> HIDE DEF E
  <2>5. QED BY <1>6, <2>2, <2>4, EmptyFacts
<1>11. CASE Update(d, Blank(e, FALSE))
  <2> DEFINE E == Blank(e, FALSE)
  <2>1. /\ E \in Device /\ E.prompt = NoPrompt /\ E.op = NoOp /\ E.reset = "no"
        /\ E.shown = None
    BY <1>3, <1>7, BlankFacts
  <2>2. Update(d, E)
    BY <1>11
  <2> HIDE DEF E
  <2>3. QED BY <1>6, <2>1, <2>2, EmptyFacts
<1>12. QED BY <1>8, <1>9, <1>10, <1>11 DEF Reload

\* Another prompt without a key: nothing is lost unless the user was still being
\* shown a new key.
LEMMA PromptQuiet ==
  ASSUME NEW D \in Device, Sound(D), NEW E \in Device,
         E.ms = D.ms \/ E.ms = TRUE, E.op = D.op, E.reset = D.reset, E.shown = D.shown,
         E.modal = D.modal,
         \/ E.prompt = D.prompt
         \/ /\ E.prompt.key = None /\ E.prompt.kind = "none"
            /\ D.prompt.kind = "save" => Interrupted
  PROVE  Sound(E) /\ Quiet(D, E)
<1>1. E.ms \in BOOLEAN /\ D.ms \in BOOLEAN
  BY DeviceParts
<1>2. Sound(E)
  BY <1>1 DEF Sound
<1>3. Quiet(D, E)
  BY DEF Quiet
<1>4. QED BY <1>2, <1>3

\* Starting an operation that holds no key, behind a screen or from the account
\* view.
LEMMA BeginQuiet ==
  ASSUME NEW D \in Device, Sound(D), D.op.kind = "none", NEW E \in Device,
         E.ms = D.ms, E.prompt.key = None, E.prompt.kind \notin {"save", "speedup"},
         D.prompt.key = None, E.op.key = None, E.shown = D.shown, E.ms,
         \/ E.op.kind = "plan" /\ E.reset = "running" /\ D.shown = None
         \/ E.op.kind = "enable" /\ E.reset = "no" /\ D.reset = "no"
         \/ /\ E.op.kind = "rotate" /\ E.reset = "no" /\ D.reset = "no"
            /\ E.modal /\ May("rotation")
  PROVE  Sound(E) /\ Quiet(D, E)
<1>1. Sound(E)
  BY DEF Sound, BareOps, KeyOps
<1>2. Quiet(D, E)
  <2>1. E.op.kind \in BareOps /\ D.op.kind \notin KeyOps
    BY DEF BareOps, KeyOps
  <2>2. D.prompt.kind # "save"
    BY DEF Sound
  <2>3. QED BY <2>1, <2>2 DEF Quiet
<1>3. QED BY <1>1, <1>2

\* A gate's way out: the screens that offer it show no key.
LEMMA SignOutQuiet ==
  ASSUME TrustType, DevicesSound, NEW d \in Devices, SignOut(d)
  PROVE  Settled(d)
<1> DEFINE B == Blank(NoEntry, FALSE)
           E == [B EXCEPT !.enrolled = dev[d].enrolled, !.op = dev[d].op]
<1>1. /\ dev[d] \in Device /\ Sound(dev[d]) /\ dev[d].op.kind = "none" /\ dev[d].reset = "no"
      /\ dev[d].prompt.kind \in {"none", "verify", "unlock", "error"}
  BY Here DEF SignOut, Idle
<1>2. B \in Device /\ B.prompt = NoPrompt /\ B.reset = "no" /\ B.shown = None
  BY BlankFacts, EmptyFacts
<1>3. Update(d, E) /\ UNCHANGED <<env, server, held>>
  BY DEF SignOut, SignOutOf
<1> HIDE DEF B
<1>4. /\ E \in Device /\ E.prompt = NoPrompt /\ E.reset = "no" /\ E.shown = None
      /\ E.op = dev[d].op
  BY <1>1, <1>2, DeviceParts DEF Device
<1> HIDE DEF E
<1>5. Sound(E)
  BY <1>1, <1>4, EmptyFacts DEF Sound
<1>6. dev[d].prompt.kind # "save" /\ dev[d].shown = None
  BY <1>1 DEF Sound
<1>7. Quiet(dev[d], E)
  BY <1>4, <1>6, EmptyFacts DEF Quiet
<1>8. QED BY <1>3, <1>4, <1>5, <1>7, QuietUpdate

\* Setting up a backup failed, and is tried again.
LEMMA BootstrapQuiet ==
  ASSUME TrustType, DevicesSound, NEW d \in Devices,
         BootstrapFailed(d) \/ RetryRecoverySetup(d)
  PROVE  Settled(d)
<1>1. dev[d] \in Device /\ Sound(dev[d]) /\ UNCHANGED <<env, server, held>>
  BY Here DEF BootstrapFailed, RetryRecoverySetup
<1>2. /\ Prompt("error", None) \in Prompts /\ Prompt("error", None).key = None
      /\ Prompt("error", None).kind = "error"
  BY PromptFacts DEF PromptKinds, None
<1>3. "enable" \in BareOps /\ None \in Int
  BY DEF BareOps, None
<1>4. CASE BootstrapFailed(d)
  <2> DEFINE P == [dev[d] EXCEPT !.prompt = Prompt("error", None)]
             E == Finish(P)
  <2>1. Update(d, E) /\ dev[d].op.kind = "enable"
    BY <1>4 DEF BootstrapFailed
  <2>2. /\ P \in Device /\ P.ms = dev[d].ms /\ P.prompt = Prompt("error", None)
        /\ P.reset = dev[d].reset /\ P.shown = dev[d].shown /\ P.modal = dev[d].modal
    BY <1>1, <1>2 DEF Device
  <2> HIDE DEF P
  <2>3. /\ E \in Device /\ E.ms = dev[d].ms /\ E.op = NoOp /\ E.prompt = Prompt("error", None)
        /\ E.reset = dev[d].reset /\ E.shown = dev[d].shown /\ E.modal = dev[d].modal
    BY <1>3, <2>2, OpFacts DEF Device
  <2> HIDE DEF E
  <2>4. dev[d].ms /\ dev[d].prompt.kind # "save" /\ dev[d].reset # "running"
    BY <1>1, <2>1 DEF Sound
  <2>5. Sound(E) /\ Quiet(dev[d], E)
    BY <1>1, <1>2, <1>3, <2>1, <2>3, <2>4, FinishQuiet
  <2>6. QED BY <1>1, <2>1, <2>3, <2>5, QuietUpdate
<1>5. CASE RetryRecoverySetup(d)
  <2> DEFINE P == [dev[d] EXCEPT !.prompt = NoPrompt]
             E == WithOp(P, "enable", None)
  <2>1. /\ Update(d, E) /\ dev[d].op.kind = "none" /\ dev[d].reset = "no"
        /\ dev[d].prompt.kind = "error"
    BY <1>5 DEF RetryRecoverySetup, RecoverySetupFailed, Shows, Idle
  <2>2. /\ P \in Device /\ P.ms = dev[d].ms /\ P.prompt = NoPrompt /\ P.reset = dev[d].reset
        /\ P.shown = dev[d].shown
    BY <1>1, EmptyFacts DEF Device
  <2> HIDE DEF P
  <2>3. /\ E \in Device /\ E.ms = dev[d].ms /\ E.prompt = NoPrompt /\ E.op.kind = "enable"
        /\ E.op.key = None /\ E.reset = dev[d].reset /\ E.shown = dev[d].shown
    BY <1>3, <2>2, OpFacts DEF Device
  <2> HIDE DEF E
  <2>4. dev[d].ms /\ dev[d].prompt.key = None
    BY <1>1, <2>1 DEF Sound
  <2>5. Sound(E) /\ Quiet(dev[d], E)
    BY <1>1, <2>1, <2>3, <2>4, EmptyFacts, BeginQuiet
  <2>6. QED BY <1>1, <2>1, <2>3, <2>5, QuietUpdate
<1>6. QED BY <1>4, <1>5

\* "Not now", and an enrolment the server refused.
LEMMA SpeedupQuiet ==
  ASSUME TrustType, DevicesSound, NEW d \in Devices, DismissSpeedup(d) \/ EnrolFailed(d)
  PROVE  Settled(d)
<1>1. dev[d] \in Device /\ Sound(dev[d]) /\ UNCHANGED <<env, server, held>>
  BY Here DEF DismissSpeedup, EnrolFailed
<1>2. CASE DismissSpeedup(d)
  <2> DEFINE E == [dev[d] EXCEPT !.prompt = NoPrompt]
  <2>1. Update(d, E) /\ dev[d].prompt.kind = "speedup"
    BY <1>2 DEF DismissSpeedup, OffersSpeedup, Shows
  <2>2. /\ E \in Device /\ E.prompt = NoPrompt /\ E.ms = dev[d].ms /\ E.op = dev[d].op
        /\ E.reset = dev[d].reset /\ E.shown = dev[d].shown /\ E.modal = dev[d].modal
    BY <1>1, EmptyFacts DEF Device
  <2> HIDE DEF E
  <2>3. Sound(E) /\ Quiet(dev[d], E)
    BY <1>1, <2>1, <2>2, EmptyFacts, PromptQuiet
  <2>4. QED BY <1>1, <2>1, <2>2, <2>3, QuietUpdate
<1>3. CASE EnrolFailed(d)
  <2> DEFINE E == Finish(dev[d])
  <2>1. Update(d, E) /\ dev[d].op.kind = "enrol"
    BY <1>3 DEF EnrolFailed
  <2>2. /\ E \in Device /\ E.prompt = dev[d].prompt /\ E.ms = dev[d].ms /\ E.op = NoOp
        /\ E.reset = dev[d].reset /\ E.shown = dev[d].shown /\ E.modal = dev[d].modal
    <3>1. "none" \in BareOps /\ None \in Int
      BY DEF BareOps, None
    <3>2. QED BY <1>1, <3>1, OpFacts DEF Device
  <2> HIDE DEF E
  <2>3. dev[d].ms /\ dev[d].reset # "running"
    BY <1>1, <2>1 DEF Sound
  <2>4. Sound(E) /\ Quiet(dev[d], E)
    BY <1>1, <2>1, <2>2, <2>3, FinishQuiet
  <2>5. QED BY <1>1, <2>1, <2>2, <2>4, QuietUpdate
<1>4. QED BY <1>2, <1>3

\* What the unlock gate does with a secret that opened the store.
LEMMA UnlockFacts ==
  ASSUME NEW D \in Device, Sound(D), D.prompt.kind = "unlock", NEW s,
         NEW x \in Device, x.ms = D.ms, x.prompt = D.prompt, x.op = D.op, x.reset = D.reset,
         x.shown = D.shown, x.modal = D.modal,
         NEW E, E \in {UnlockAndRestore(x, s), [UnlockAndRestore(x, s) EXCEPT !.enrolled = TRUE]}
  PROVE  E \in Device /\ Sound(E) /\ Quiet(D, E)
<1> DEFINE e == [x.entry EXCEPT !.custody = x.custody]
<1>1. e \in Entry
  BY DeviceParts DEF Entry
<1>2. /\ UnlockAndRestore(x, s) \in
           {[x EXCEPT !.ms = TRUE, !.trusted = TRUE, !.prompt = NoPrompt, !.entry = e],
            [x EXCEPT !.ms = TRUE, !.entry = e]}
  BY DEF UnlockAndRestore, Device
<1> HIDE DEF e
<1>3. \A U \in {[x EXCEPT !.ms = TRUE, !.trusted = TRUE, !.prompt = NoPrompt, !.entry = e],
                [x EXCEPT !.ms = TRUE, !.entry = e]} :
        /\ U \in Device /\ U.ms = TRUE /\ U.prompt \in {NoPrompt, D.prompt} /\ U.op = D.op
        /\ U.reset = D.reset /\ U.shown = D.shown /\ U.modal = D.modal
  BY <1>1, EmptyFacts DEF Device
<1>4. \A U \in Device :
        /\ [U EXCEPT !.enrolled = TRUE] \in Device
        /\ [U EXCEPT !.enrolled = TRUE].ms = U.ms
        /\ [U EXCEPT !.enrolled = TRUE].prompt = U.prompt
        /\ [U EXCEPT !.enrolled = TRUE].op = U.op
        /\ [U EXCEPT !.enrolled = TRUE].reset = U.reset
        /\ [U EXCEPT !.enrolled = TRUE].shown = U.shown
        /\ [U EXCEPT !.enrolled = TRUE].modal = U.modal
  BY DEF Device
<1> DEFINE R == UnlockAndRestore(x, s)
<1>5. /\ E \in Device /\ E.ms = TRUE /\ E.prompt \in {NoPrompt, D.prompt} /\ E.op = D.op
      /\ E.reset = D.reset /\ E.shown = D.shown /\ E.modal = D.modal
  <2>1. /\ R \in Device /\ R.ms = TRUE /\ R.prompt \in {NoPrompt, D.prompt} /\ R.op = D.op
        /\ R.reset = D.reset /\ R.shown = D.shown /\ R.modal = D.modal
    BY <1>2, <1>3
  <2>2. E \in {R, [R EXCEPT !.enrolled = TRUE]}
    OBVIOUS
  <2> HIDE DEF R
  <2>3. CASE E = R
    BY <2>1, <2>3
  <2>4. CASE E = [R EXCEPT !.enrolled = TRUE]
    BY <1>4, <2>1, <2>4
  <2>5. QED BY <2>2, <2>3, <2>4
<1>6. Sound(E) /\ Quiet(D, E)
  BY <1>5, EmptyFacts, PromptQuiet
<1>7. QED BY <1>5, <1>6

\* The unlock gate needs the secret the store was sealed under, and shows none.
LEMMA UnlockQuiet ==
  ASSUME TrustType, DevicesSound, NEW d \in Devices,
         SubmitUnlockKey(d) \/ UnlockSessionWithPasskey(d)
  PROVE  Settled(d)
<1>1. /\ dev[d] \in Device /\ Sound(dev[d]) /\ UNCHANGED <<env, server, held>>
      /\ dev[d].prompt.kind = "unlock"
  BY Here DEF SubmitUnlockKey, UnlockSessionWithPasskey, UnlockSession, Shows
<1> DEFINE P == [dev[d] EXCEPT !.custody = "passkey"]
<1>2. /\ P \in Device /\ P.ms = dev[d].ms /\ P.prompt = dev[d].prompt /\ P.op = dev[d].op
      /\ P.reset = dev[d].reset /\ P.shown = dev[d].shown /\ P.modal = dev[d].modal
  BY <1>1 DEF Device, Custodies
<1>3. CASE SubmitUnlockKey(d)
  <2>1. PICK s \in held : Update(d, UnlockAndRestore(dev[d], s))
    BY <1>3 DEF SubmitUnlockKey
  <2> DEFINE E == UnlockAndRestore(dev[d], s)
  <2>2. E \in Device /\ Sound(E) /\ Quiet(dev[d], E)
    BY <1>1, UnlockFacts
  <2> HIDE DEF E
  <2>3. Update(d, E)
    BY <2>1 DEF E
  <2>4. QED BY <1>1, <2>2, <2>3, QuietUpdate
<1>4. CASE UnlockSessionWithPasskey(d)
  <2>1. PICK c \in 1..creds :
          LET s == Unwrap(dev[d].entry.local, c)
              U == UnlockAndRestore(P, s) IN
          Update(d, IF Opens(s) THEN [U EXCEPT !.enrolled = TRUE] ELSE U)
    BY <1>4 DEF UnlockSessionWithPasskey
  <2> DEFINE s == Unwrap(dev[d].entry.local, c)
             U == UnlockAndRestore(P, s)
             E == IF Opens(s) THEN [U EXCEPT !.enrolled = TRUE] ELSE U
  <2>2. Update(d, E)
    BY <2>1
  <2> HIDE DEF P, s
  <2>3. E \in {U, [U EXCEPT !.enrolled = TRUE]}
    OBVIOUS
  <2>4. E \in Device /\ Sound(E) /\ Quiet(dev[d], E)
    BY <1>1, <1>2, <2>3, UnlockFacts
  <2> HIDE DEF E
  <2>5. QED BY <1>1, <2>2, <2>4, QuietUpdate
<1>5. QED BY <1>3, <1>4

\* What the user learns by seeing a passkey's own secret.
LEMMA LearnQuiet ==
  ASSUME TrustType, NEW d \in Devices, NEW E \in Device, Update(d, E),
         UNCHANGED <<env, server>>, Sound(E), Quiet(dev[d], E),
         NEW c \in 1..creds, held' = held \cup {Prf(c)}
  PROVE  Settled(d)
<1>1. Prf(c) \in Int /\ Prf(c) <= None
  BY DEF Prf, None, TrustType
<1>2. held \subseteq held' /\ held' \subseteq Int /\ \A k \in held' : k \in held \/ k <= None
  BY <1>1 DEF TrustType
<1>3. QED BY <1>2, Replaced DEF Settled, server

\* Showing the secret of a passkey, at the gate or in the account view.
LEMMA RevealQuiet ==
  ASSUME TrustType, DevicesSound, NEW d \in Devices, SaveLegacyKey(d) \/ RevealRecoveryKey(d)
  PROVE  Settled(d)
<1>1. dev[d] \in Device /\ Sound(dev[d]) /\ UNCHANGED <<env, server>>
  BY Here DEF SaveLegacyKey, RevealRecoveryKey
<1>2. PICK c \in 1..creds : held' = held \cup {Prf(c)}
  BY DEF SaveLegacyKey, RevealRecoveryKey, Reveal
<1>3. CASE SaveLegacyKey(d)
  <2> DEFINE S == MarkKeySaved(dev[d])
             E == [S EXCEPT !.prompt = NoPrompt]
  <2>1. Update(d, E) /\ dev[d].prompt.kind = "save-legacy-key"
    BY <1>3 DEF SaveLegacyKey, SavesLegacyKey, Shows
  <2>2. /\ S \in Device /\ S.ms = dev[d].ms /\ S.op = dev[d].op /\ S.reset = dev[d].reset
        /\ S.shown = dev[d].shown /\ S.modal = dev[d].modal
    <3>1. SameButEntry(dev[d], S)
      BY <1>1, EntryFacts DEF None
    <3>2. QED BY <3>1 DEF SameButEntry
  <2> HIDE DEF S
  <2>3. /\ E \in Device /\ E.prompt = NoPrompt /\ E.ms = dev[d].ms /\ E.op = dev[d].op
        /\ E.reset = dev[d].reset /\ E.shown = dev[d].shown /\ E.modal = dev[d].modal
    BY <2>2, EmptyFacts DEF Device
  <2> HIDE DEF E
  <2>4. Sound(E) /\ Quiet(dev[d], E)
    BY <1>1, <2>1, <2>3, EmptyFacts, PromptQuiet
  <2>5. QED BY <1>1, <1>2, <2>1, <2>3, <2>4, LearnQuiet
<1>4. CASE RevealRecoveryKey(d)
  <2>1. Update(d, dev[d])
    <3>1. dev' = dev
      BY <1>4 DEF RevealRecoveryKey
    <3>2. dev = [dev EXCEPT ![d] = dev[d]]
      BY DEF TrustType
    <3>3. QED BY <3>1, <3>2 DEF Update
  <2>2. Quiet(dev[d], dev[d])
    BY DEF Quiet
  <2>3. QED BY <1>1, <1>2, <2>1, <2>2, LearnQuiet
<1>5. QED BY <1>3, <1>4

\* The key window opens, or is closed early.
LEMMA WindowQuiet ==
  ASSUME TrustType, DevicesSound, NEW d \in Devices, ConfirmRegenerate(d) \/ CloseModal(d)
  PROVE  Settled(d)
<1>1. dev[d] \in Device /\ Sound(dev[d]) /\ UNCHANGED <<env, server, held>>
  BY Here DEF ConfirmRegenerate, CloseModal
<1>2. CASE ConfirmRegenerate(d)
  <2> DEFINE P == [dev[d] EXCEPT !.modal = TRUE]
             E == WithOp(P, "rotate", None)
  <2>1. /\ Update(d, E) /\ May("rotation") /\ dev[d].ms /\ dev[d].op.kind = "none"
        /\ dev[d].reset = "no" /\ dev[d].prompt.kind = "none"
    BY <1>2 DEF ConfirmRegenerate, InApp, Shows, Idle
  <2>2. /\ P \in Device /\ P.ms = dev[d].ms /\ P.prompt = dev[d].prompt
        /\ P.reset = dev[d].reset /\ P.shown = dev[d].shown /\ P.modal = TRUE
    BY <1>1 DEF Device
  <2> HIDE DEF P
  <2>3. "rotate" \in BareOps /\ None \in Int
    BY DEF BareOps, None
  <2>4. /\ E \in Device /\ E.ms = dev[d].ms /\ E.prompt = dev[d].prompt
        /\ E.op.kind = "rotate" /\ E.op.key = None
        /\ E.reset = dev[d].reset /\ E.shown = dev[d].shown /\ E.modal = TRUE
    BY <2>2, <2>3, OpFacts DEF Device
  <2> HIDE DEF E
  <2>5. dev[d].prompt.key = None
    BY <1>1, <2>1 DEF Sound
  <2>6. Sound(E) /\ Quiet(dev[d], E)
    BY <1>1, <2>1, <2>4, <2>5, BeginQuiet
  <2>7. QED BY <1>1, <2>1, <2>4, <2>6, QuietUpdate
<1>3. CASE CloseModal(d)
  <2> DEFINE E == [dev[d] EXCEPT !.modal = FALSE]
  <2>1. Update(d, E) /\ May("closing")
    BY <1>3 DEF CloseModal
  <2>2. /\ E \in Device /\ E.prompt = dev[d].prompt /\ E.ms = dev[d].ms /\ E.op = dev[d].op
        /\ E.reset = dev[d].reset /\ E.shown = dev[d].shown
    BY <1>1 DEF Device
  <2> HIDE DEF E
  <2>3. Sound(E)
    BY <1>1, <2>1, <2>2 DEF Sound
  <2>4. Quiet(dev[d], E)
    BY <2>2 DEF Quiet
  <2>5. QED BY <1>1, <2>1, <2>2, <2>3, <2>4, QuietUpdate
<1>4. QED BY <1>2, <1>3

\* A reset up to the point where the key is replaced, a failure there included.
LEMMA ResetQuiet ==
  ASSUME TrustType, DevicesSound, NEW d \in Devices,
         \/ StartReset(d) \/ CancelReset(d) \/ RunReset(d) \/ ResetWorkspaces(d)
         \/ ResetRecovery(d) /\ Update(d, [Finish(dev[d]) EXCEPT !.reset = "failed"])
              /\ UNCHANGED <<keys, ssss>>
  PROVE  Settled(d)
<1>1. dev[d] \in Device /\ Sound(dev[d]) /\ UNCHANGED <<env, server, held>>
  BY Here DEF StartReset, CancelReset, RunReset, ResetWorkspaces, ResetRecovery, server
<1>2. /\ {"plan", "reset", "none"} \subseteq BareOps /\ None \in Int
      /\ {"no", "plan", "refused", "running", "failed", "done"} = Resets
  BY DEF BareOps, None, Resets
<1>3. ASSUME NEW r \in Resets \ {"running", "done"}, Update(d, [dev[d] EXCEPT !.reset = r]),
             dev[d].op.kind = "none", dev[d].shown = None,
             r \notin {"no", "refused"} => dev[d].prompt.key = None /\ dev[d].ms
      PROVE  Settled(d)
  <2> DEFINE E == [dev[d] EXCEPT !.reset = r]
  <2>1. /\ E \in Device /\ E.prompt = dev[d].prompt /\ E.ms = dev[d].ms /\ E.op = dev[d].op
        /\ E.reset = r /\ E.shown = dev[d].shown /\ E.modal = dev[d].modal
    BY <1>1, <1>3 DEF Device
  <2>2. Update(d, E)
    BY <1>3
  <2> HIDE DEF E
  <2>3. Sound(E)
    BY <1>1, <1>3, <2>1 DEF Sound
  <2>4. Quiet(dev[d], E)
    BY <2>1 DEF Quiet
  <2>5. QED BY <1>1, <2>1, <2>2, <2>3, <2>4, QuietUpdate
<1>4. CASE StartReset(d)
  <2>1. /\ dev[d].prompt.kind \in {"verify", "unlock"} /\ dev[d].op.kind = "none"
        /\ dev[d].reset = "no"
    BY <1>4 DEF StartReset, VerifyThisDevice, UnlockSession, Shows, Idle
  <2>2. dev[d].prompt.key = None /\ dev[d].shown = None
    BY <1>1, <2>1 DEF Sound
  <2>3. CASE dev[d].ms
    <3>1. Update(d, [dev[d] EXCEPT !.reset = "plan"])
      BY <1>4, <2>3 DEF StartReset
    <3>2. QED BY <1>2, <1>3, <2>1, <2>2, <2>3, <3>1
  <2>4. CASE ~dev[d].ms
    <3>1. Update(d, [dev[d] EXCEPT !.reset = "refused"])
      BY <1>4, <2>4 DEF StartReset
    <3>2. QED BY <1>2, <1>3, <2>1, <2>2, <3>1
  <2>5. QED BY <2>3, <2>4
<1>5. CASE CancelReset(d)
  <2>1. /\ Update(d, [dev[d] EXCEPT !.reset = "no"]) /\ dev[d].op.kind = "none"
        /\ dev[d].reset # "done"
    BY <1>5 DEF CancelReset, Idle
  <2>2. dev[d].shown = None
    BY <1>1, <2>1 DEF Sound
  <2>3. QED BY <1>2, <1>3, <2>1, <2>2
<1>6. CASE RunReset(d)
  <2> DEFINE P == [dev[d] EXCEPT !.reset = "running"]
             E == WithOp(P, "plan", None)
  <2>1. Update(d, E) /\ dev[d].reset \in {"plan", "failed"} /\ dev[d].op.kind = "none"
    BY <1>6 DEF RunReset, Idle
  <2>2. /\ dev[d].ms /\ dev[d].prompt.key = None /\ dev[d].shown = None
        /\ dev[d].prompt.kind \notin {"save", "speedup"}
    BY <1>1, <2>1 DEF Sound
  <2>3. /\ P \in Device /\ P.ms = dev[d].ms /\ P.prompt = dev[d].prompt
        /\ P.reset = "running" /\ P.shown = dev[d].shown
    BY <1>1, <1>2 DEF Device
  <2> HIDE DEF P
  <2>4. /\ E \in Device /\ E.ms = dev[d].ms /\ E.prompt = dev[d].prompt
        /\ E.op.kind = "plan" /\ E.op.key = None
        /\ E.reset = "running" /\ E.shown = dev[d].shown
    BY <1>2, <2>3, OpFacts DEF Device
  <2> HIDE DEF E
  <2>5. Sound(E) /\ Quiet(dev[d], E)
    BY <1>1, <2>1, <2>2, <2>4, BeginQuiet
  <2>6. QED BY <1>1, <2>1, <2>4, <2>5, QuietUpdate
<1>7. ASSUME Update(d, [Finish(dev[d]) EXCEPT !.reset = "failed"]),
             dev[d].op.kind \in {"plan", "reset"}
      PROVE  Settled(d)
  <2> DEFINE F == Finish(dev[d])
             E == [F EXCEPT !.reset = "failed"]
  <2>1. /\ F \in Device /\ F.prompt = dev[d].prompt /\ F.ms = dev[d].ms /\ F.op = NoOp
        /\ F.shown = dev[d].shown /\ F.modal = dev[d].modal
    BY <1>1, <1>2, OpFacts DEF Device
  <2>2. Update(d, E)
    BY <1>7
  <2> HIDE DEF F
  <2>3. /\ E \in Device /\ E.prompt = dev[d].prompt /\ E.ms = dev[d].ms /\ E.op = NoOp
        /\ E.reset = "failed" /\ E.shown = dev[d].shown /\ E.modal = dev[d].modal
    BY <1>2, <2>1 DEF Device
  <2> HIDE DEF E
  <2>4. dev[d].ms
    BY <1>1, <1>7 DEF Sound
  <2>5. Sound(E) /\ Quiet(dev[d], E)
    BY <1>1, <1>2, <1>7, <2>3, <2>4, FinishQuiet
  <2>6. QED BY <1>1, <2>2, <2>3, <2>5, QuietUpdate
<1>8. CASE /\ dev[d].op.kind = "plan"
           /\ Update(d, [dev[d] EXCEPT !.op.kind = "reset"])
  <2> DEFINE o == [dev[d].op EXCEPT !.kind = "reset"]
             E == [dev[d] EXCEPT !.op = o]
  <2>1. o \in Operation /\ o.kind = "reset" /\ o.key = dev[d].op.key
    BY <1>1, <1>2, DeviceParts DEF Operation
  <2>2. Update(d, E)
    BY <1>8
  <2> HIDE DEF o
  <2>3. /\ E \in Device /\ E.prompt = dev[d].prompt /\ E.ms = dev[d].ms /\ E.op = o
        /\ E.reset = dev[d].reset /\ E.shown = dev[d].shown /\ E.modal = dev[d].modal
    BY <1>1, <2>1 DEF Device
  <2> HIDE DEF E
  <2>4. Sound(E)
    BY <1>1, <1>8, <2>1, <2>3 DEF Sound, KeyOps
  <2>5. Quiet(dev[d], E)
    BY <1>2, <1>8, <2>1, <2>3 DEF Quiet, KeyOps
  <2>6. QED BY <1>1, <2>2, <2>3, <2>4, <2>5, QuietUpdate
<1>9. CASE ResetWorkspaces(d)
  BY <1>7, <1>8, <1>9 DEF ResetWorkspaces
<1>10. QED BY <1>4, <1>5, <1>6, <1>7, <1>9 DEF ResetRecovery

\* A verification gives out no key; one that succeeds dismisses whatever screen
\* is up, which takes a request.
LEMMA EmojiQuiet ==
  ASSUME TrustType, DevicesSound, Unasked, NEW d \in Devices, Emoji(d)
  PROVE  Settled(d)
<1>1. dev[d] \in Device /\ Sound(dev[d])
  BY Here
<1>2. UNCHANGED <<env, server, held>>
  BY DEF Emoji, PeerRequests, PeerSteps, PeerCancels, PollVerification, AcceptVerification,
         Tick, TickDone, LateTick, ConfirmVerification, CancelVerification, CloseVerified
<1>3. CASE dev' = dev
  <2>1. Update(d, dev[d])
    BY <1>3 DEF TrustType, Update
  <2>2. Quiet(dev[d], dev[d])
    BY DEF Quiet
  <2>3. QED BY <1>1, <1>2, <2>1, <2>2, QuietUpdate
<1>4. CASE dev' # dev
  <2> DEFINE E == [dev[d] EXCEPT !.trusted = TRUE, !.prompt = NoPrompt]
  <2>1. Update(d, E) /\ (sas[d].loop = "busy" \/ sas[d].late # "none")
    BY <1>4 DEF Emoji, PeerRequests, PeerSteps, PeerCancels, PollVerification,
         AcceptVerification, Tick, TickDone, LateTick, ConfirmVerification,
         CancelVerification, CloseVerified, Verified
  <2>2. Interrupted
    <3>1. CASE ~May("request")
      <4>1. sas[d] = NoSas
        BY <3>1 DEF Unasked
      <4>2. QED BY <2>1, <4>1 DEF NoSas
    <3>2. QED BY <3>1 DEF Interrupted
  <2>3. /\ E \in Device /\ E.prompt = NoPrompt /\ E.ms = dev[d].ms /\ E.op = dev[d].op
        /\ E.reset = dev[d].reset /\ E.shown = dev[d].shown /\ E.modal = dev[d].modal
    BY <1>1, EmptyFacts DEF Device
  <2> HIDE DEF E
  <2>4. Sound(E) /\ Quiet(dev[d], E)
    BY <1>1, <2>2, <2>3, EmptyFacts, PromptQuiet
  <2>5. QED BY <1>2, <2>1, <2>3, <2>4, QuietUpdate
<1>5. QED BY <1>3, <1>4

\* Without a request no verification ever starts.
LEMMA UnaskedStep ==
  ASSUME Unasked, NEW d \in Devices, Keyed(d) \/ Emoji(d), env' = env
  PROVE  Unasked'
<1>1. SUFFICES ASSUME ~May("request") PROVE sas' = sas
  BY <1>1 DEF Unasked, May, Faults
<1>2. sas = [e \in Devices |-> NoSas] /\ sas[d] = NoSas
  BY <1>1 DEF Unasked
<1>3. /\ [sas EXCEPT ![d].screen = "none"] = sas
      /\ [sas EXCEPT ![d] = [NoSas EXCEPT !.flow = sas[d].flow]] = sas
  <2>1. [NoSas EXCEPT !.screen = "none"] = NoSas /\ [NoSas EXCEPT !.flow = NoSas.flow] = NoSas
    BY DEF NoSas
  <2>2. [sas EXCEPT ![d] = NoSas] = sas
    BY <1>2
  <2>3. [sas EXCEPT ![d].screen = "none"] = [sas EXCEPT ![d] = [sas[d] EXCEPT !.screen = "none"]]
    OBVIOUS
  <2>4. QED BY <1>2, <2>1, <2>2, <2>3
<1>4. CASE Emoji(d)
  <2>1. /\ NoSas.flow = "none" /\ NoSas.pending = FALSE /\ NoSas.screen = "none"
        /\ NoSas.loop = "off" /\ NoSas.late = "none" /\ NoSas.closing = FALSE
    BY DEF NoSas
  <2>2. Buttons("none") = {}
    BY DEF Buttons
  <2>3. FALSE
    BY <1>1, <1>2, <1>4, <2>1, <2>2 DEF Emoji, PeerRequests, PeerSteps, PeerCancels,
         PollVerification, AcceptVerification, Tick, TickDone, LateTick, ConfirmVerification,
         CancelVerification, CloseVerified
  <2>4. QED BY <2>3
<1>5. CASE Keyed(d)
  BY <1>3, <1>2, <1>5 DEF Keyed, SignIn, EnsureHistoryAccess, Reload, SignOut, EnableRecovery,
     ShowRecoveryKey, BootstrapFailed, RetryRecoverySetup, ConfirmKeySaved, DismissSpeedup,
     RegisterPasskey, LoadWrapRecord, AddPasskeySpeedup, EnrolFailed, SubmitRecoveryKey,
     UnlockWithPasskey, Recover, RecoveryKeyAccepted, SubmitUnlockKey, UnlockSessionWithPasskey,
     SaveLegacyKey, RevealRecoveryKey, ConfirmRegenerate, RegenerateRecoveryKey,
     ShowRegenerated, CloseModal, StartReset, CancelReset, RunReset, ResetWorkspaces,
     ResetRecovery, ClearWraps, FinishReset
<1>6. QED BY <1>4, <1>5

-----------------------------------------------------------------------------
(* The steps that make, store and give out keys. *)

\* Only device d changes, and it is left carrying its keys as Sound says.
Moved(d) ==
  /\ env' = env /\ creds' \in 0..MaxCred
  /\ dev' \in [Devices -> Device] /\ Sound(dev'[d])
  /\ \A e \in Devices \ {d} : dev'[e] = dev[e]

\* A new key, which only device d carries yet.
NewKey(d) ==
  /\ Moved(d) /\ keys' = keys + 1 /\ ssss' = keys + 1 /\ UNCHANGED <<wraps, held>>
  /\ dev'[d].prompt = dev[d].prompt /\ dev'[d].shown = dev[d].shown
  /\ dev'[d].op.key = keys + 1
  /\ dev[d].op.kind \in BareOps /\ dev[d].op.key = None
  /\ \/ dev'[d].op.kind = "show" /\ ssss = None
     \/ dev'[d].op.kind = "rotated" /\ May("rotation")
     \/ /\ dev'[d].op.kind = "clear" /\ dev[d].prompt.key = None
        /\ May("stale") \/ \A e \in Devices \ {d} : ~CarriesKey(e)

\* Setting up, rotating and resetting make a new key.
LEMMA KeyMade ==
  ASSUME TrustType, DevicesSound, NEW d \in Devices,
         EnableRecovery(d) \/ RegenerateRecoveryKey(d) \/ ResetRecovery(d)
  PROVE  Settled(d) \/ NewKey(d)
<1>1. /\ dev[d] \in Device /\ Sound(dev[d]) /\ UNCHANGED <<env, wraps, creds, held>>
  BY Here DEF EnableRecovery, RegenerateRecoveryKey, ResetRecovery
<1> DEFINE k == keys + 1
           P == [dev[d] EXCEPT !.trusted = TRUE]
<1>2. k \in Int /\ k # None
  BY DEF TrustType, None
<1>3. /\ P \in Device /\ P.ms = dev[d].ms /\ P.prompt = dev[d].prompt /\ P.reset = dev[d].reset
      /\ P.shown = dev[d].shown /\ P.modal = dev[d].modal
  BY <1>1 DEF Device
<1>4. ASSUME NEW kind \in {"show", "rotated", "clear"}, NEW x \in {P, dev[d]},
             Update(d, WithOp(x, kind, k)), keys' = k, ssss' = k,
             \/ kind = "show" /\ ssss = None /\ dev[d].op.kind = "enable"
             \/ kind = "rotated" /\ dev[d].op.kind = "rotate"
             \/ /\ kind = "clear" /\ dev[d].op.kind = "reset"
                /\ May("stale") \/ \A e \in Devices \ {d} : ~CarriesKey(e)
      PROVE  NewKey(d)
  <2> DEFINE E == WithOp(x, kind, k)
  <2>1. /\ x \in Device /\ x.ms = dev[d].ms /\ x.prompt = dev[d].prompt
        /\ x.reset = dev[d].reset /\ x.shown = dev[d].shown /\ x.modal = dev[d].modal
    BY <1>1, <1>3, <1>4
  <2>2. kind \in KeyOps /\ kind \in BareOps \cup KeyOps
    BY DEF KeyOps
  <2>3. Update(d, E)
    BY <1>4
  <2> HIDE DEF P, k
  <2>4. /\ E \in Device /\ E.ms = dev[d].ms /\ E.prompt = dev[d].prompt
        /\ E.op.kind = kind /\ E.op.key = k
        /\ E.reset = dev[d].reset /\ E.shown = dev[d].shown /\ E.modal = dev[d].modal
    BY <1>2, <2>1, <2>2, OpFacts DEF Device
  <2> HIDE DEF E
  <2>5. /\ dev[d].op.kind \in BareOps /\ dev[d].op.key = None /\ dev[d].ms
        /\ kind \in {"show", "clear"} => dev[d].prompt.key = None
        /\ kind = "rotated" => May("rotation") /\ (dev[d].modal \/ May("closing"))
    BY <1>1, <1>4 DEF Sound, BareOps, KeyOps
  <2>6. Sound(E)
    BY <1>1, <1>2, <1>4, <2>2, <2>4, <2>5 DEF Sound
  <2>7. /\ dev' \in [Devices -> Device] /\ dev'[d] = E
        /\ \A e \in Devices \ {d} : dev'[e] = dev[e]
    BY <2>3, <2>4, Replaced
  <2>8. Moved(d)
    BY <1>1, <2>6, <2>7 DEF Moved, TrustType
  <2>9. QED BY <1>1, <1>4, <2>4, <2>5, <2>7, <2>8 DEF k, NewKey
<1>5. CASE EnableRecovery(d)
  <2>1. Update(d, WithOp(P, "show", k)) /\ keys' = k /\ ssss' = k
    BY <1>5 DEF EnableRecovery
  <2>2. ssss = None /\ dev[d].op.kind = "enable"
    BY <1>5 DEF EnableRecovery
  <2> HIDE DEF P, k
  <2>3. QED BY <1>4, <2>1, <2>2
<1>6. CASE RegenerateRecoveryKey(d)
  <2>1. Update(d, WithOp(dev[d], "rotated", k)) /\ keys' = k /\ ssss' = k
    BY <1>6 DEF RegenerateRecoveryKey
  <2>2. dev[d].op.kind = "rotate"
    BY <1>6 DEF RegenerateRecoveryKey
  <2> HIDE DEF P, k
  <2>3. QED BY <1>4, <2>1, <2>2
<1>7. CASE ResetRecovery(d)
  <2>1. CASE /\ Update(d, [Finish(dev[d]) EXCEPT !.reset = "failed"])
             /\ UNCHANGED <<keys, ssss>>
    BY <1>7, <2>1, ResetQuiet
  <2>2. CASE /\ keys < MaxKey /\ (May("stale") \/ \A e \in Devices \ {d} : ~CarriesKey(e))
             /\ keys' = keys + 1 /\ ssss' = keys + 1
             /\ Update(d, WithOp(dev[d], "clear", keys + 1))
    <3>1. Update(d, WithOp(dev[d], "clear", k)) /\ keys' = k /\ ssss' = k
      BY <2>2
    <3>2. dev[d].op.kind = "reset"
      BY <1>7 DEF ResetRecovery
    <3> HIDE DEF P, k
    <3>3. QED BY <1>4, <2>2, <3>1, <3>2
  <2>3. QED BY <1>7, <2>1, <2>2 DEF ResetRecovery
<1>8. QED BY <1>5, <1>6, <1>7

\* The new key comes up on the save screen.
KeyShown(d) ==
  /\ Moved(d) /\ UNCHANGED <<ssss, wraps, keys, held>>
  /\ dev[d].op.kind = "show" /\ dev[d].prompt.key = None
  /\ dev'[d].prompt.kind = "save" /\ dev'[d].prompt.key = dev[d].op.key
  /\ dev'[d].op.kind = "none" /\ dev'[d].op.key = None /\ dev'[d].shown = dev[d].shown

\* ShowRecoveryKey does that.
LEMMA ShowFacts ==
  ASSUME TrustType, DevicesSound, NEW d \in Devices, ShowRecoveryKey(d)
  PROVE  KeyShown(d)
<1> DEFINE k == dev[d].op.key
           S == SealDataKey(dev[d], k)
           P == [S EXCEPT !.prompt = Prompt("save", k)]
           E == Finish(P)
<1>1. /\ dev[d] \in Device /\ Sound(dev[d]) /\ dev[d].op.kind = "show" /\ Update(d, E)
      /\ UNCHANGED <<env, server, held>>
  BY Here DEF ShowRecoveryKey
<1>2. /\ k \in Int /\ k # None /\ dev[d].ms /\ dev[d].prompt.key = None
      /\ dev[d].reset # "running"
  BY <1>1, DeviceParts DEF Sound, KeyOps
<1>3. SameButEntry(dev[d], S)
  BY <1>1, <1>2, EntryFacts
<1>4. "save" \in PromptKinds /\ "none" \in BareOps /\ "none" \notin KeyOps /\ None \in Int
  BY DEF PromptKinds, BareOps, KeyOps, None
<1> HIDE DEF S, k
<1>5. /\ Prompt("save", k) \in Prompts /\ Prompt("save", k).kind = "save"
      /\ Prompt("save", k).key = k
  BY <1>2, <1>4, PromptFacts
<1>6. /\ P \in Device /\ P.ms = dev[d].ms /\ P.prompt = Prompt("save", k)
      /\ P.reset = dev[d].reset /\ P.shown = dev[d].shown /\ P.modal = dev[d].modal
  BY <1>3, <1>5 DEF SameButEntry, Device
<1> HIDE DEF P
<1>7. /\ E \in Device /\ E.ms = dev[d].ms /\ E.prompt = Prompt("save", k) /\ E.op = NoOp
      /\ E.reset = dev[d].reset /\ E.shown = dev[d].shown /\ E.modal = dev[d].modal
  BY <1>4, <1>6, OpFacts DEF Device
<1> HIDE DEF E
<1>8. dev[d].reset \in {"no", "refused"}
  BY <1>1 DEF Sound
<1>9. Sound(E)
  BY <1>1, <1>2, <1>4, <1>5, <1>7, <1>8, EmptyFacts DEF Sound
<1>10. QED BY <1>1, <1>2, <1>5, <1>7, <1>9, EmptyFacts, Replaced
         DEF KeyShown, Moved, server, k, TrustType

\* The user has it and is offered a passkey, where there are passkeys.
KeyConfirmed(d) ==
  /\ Moved(d) /\ UNCHANGED <<ssss, wraps, keys>>
  /\ held' = held \cup {dev[d].prompt.key}
  /\ dev[d].prompt.key # None
  /\ dev'[d].prompt.key \in {None, dev[d].prompt.key}
  /\ dev'[d].op = dev[d].op /\ dev'[d].shown = dev[d].shown

\* ConfirmKeySaved does that.
LEMMA ConfirmFacts ==
  ASSUME TrustType, DevicesSound, NEW d \in Devices, ConfirmKeySaved(d)
  PROVE  KeyConfirmed(d)
<1> DEFINE k == dev[d].prompt.key
           M == MarkKeySaved(dev[d])
           S == SealDataKey(M, k)
           p == IF env.passkeys THEN Prompt("speedup", k) ELSE NoPrompt
           E == [S EXCEPT !.prompt = p]
<1>1. /\ dev[d] \in Device /\ Sound(dev[d]) /\ dev[d].prompt.kind = "save" /\ Update(d, E)
      /\ UNCHANGED <<env, server>> /\ held' = held \cup {k} /\ dev[d].op.kind = "none"
      /\ dev[d].reset = "no"
  BY Here DEF ConfirmKeySaved, SaveRecoveryKey, Shows, Idle, VerifyKeyStep, OfferPasskeySpeedup
<1>2. k \in Int /\ k # None /\ dev[d].ms
  BY <1>1, DeviceParts DEF Sound
<1>3. SameButEntry(dev[d], M)
  BY <1>1, <1>2, EntryFacts
<1> HIDE DEF M, k
<1>4. SameButEntry(M, S)
  BY <1>2, <1>3, EntryFacts DEF SameButEntry
<1>5. /\ p \in Prompts /\ p.key \in {None, k}
      /\ \/ p.kind = "speedup" /\ p.key = k
         \/ p.kind = "none" /\ p.key = None
  BY <1>2, EmptyFacts, PromptFacts DEF PromptKinds
<1> HIDE DEF S, p
<1>6. /\ E \in Device /\ E.ms = dev[d].ms /\ E.prompt = p /\ E.op = dev[d].op
      /\ E.reset = dev[d].reset /\ E.shown = dev[d].shown /\ E.modal = dev[d].modal
  BY <1>3, <1>4, <1>5 DEF SameButEntry, Device
<1> HIDE DEF E
<1>7. Sound(E)
  BY <1>1, <1>2, <1>5, <1>6 DEF Sound
<1>8. QED BY <1>1, <1>2, <1>5, <1>6, <1>7, Replaced
        DEF KeyConfirmed, Moved, server, k, TrustType

\* A passkey is registered, to wrap the key that is still on the screen.
PasskeyMade(d) ==
  /\ Moved(d) /\ UNCHANGED <<ssss, wraps, keys, held>>
  /\ dev[d].prompt.kind = "speedup" /\ dev'[d].prompt = dev[d].prompt
  /\ dev[d].op.kind = "none" /\ dev[d].op.key = None
  /\ dev'[d].op.kind = "register" /\ dev'[d].op.key = dev[d].prompt.key
  /\ dev'[d].shown = dev[d].shown
  /\ May("overlap") \/ \A e \in Devices \ {d} : dev[e].op.kind \notin {"register", "enrol"}

\* RegisterPasskey does that.
LEMMA RegisterFacts ==
  ASSUME TrustType, DevicesSound, NEW d \in Devices, RegisterPasskey(d)
  PROVE  PasskeyMade(d)
<1> DEFINE o == [NoOp EXCEPT !.kind = "register", !.cred = creds + 1, !.key = dev[d].prompt.key]
           E == [dev[d] EXCEPT !.op = o]
<1>1. /\ dev[d] \in Device /\ Sound(dev[d]) /\ dev[d].prompt.kind = "speedup" /\ Update(d, E)
      /\ UNCHANGED <<env, ssss, wraps, keys, held>> /\ creds' = creds + 1 /\ creds < MaxCred
      /\ dev[d].op.kind = "none" /\ dev[d].reset = "no"
      /\ May("overlap") \/ \A e \in Devices \ {d} : dev[e].op.kind \notin {"register", "enrol"}
  BY Here DEF RegisterPasskey, OffersSpeedup, Shows, Idle
<1>2. /\ dev[d].prompt.key \in Int /\ dev[d].prompt.key # None /\ dev[d].ms
      /\ dev[d].op.key = None
  BY <1>1, DeviceParts DEF Sound, KeyOps
<1>3. creds + 1 \in 0..MaxCred
  BY <1>1, DeviceTrustAssumption DEF TrustType
<1>4. o \in Operation /\ o.kind = "register" /\ o.key = dev[d].prompt.key
  BY <1>2, <1>3, EmptyFacts DEF Operation, KeyOps
<1> HIDE DEF o
<1>5. /\ E \in Device /\ E.ms = dev[d].ms /\ E.prompt = dev[d].prompt /\ E.op = o
      /\ E.reset = dev[d].reset /\ E.shown = dev[d].shown /\ E.modal = dev[d].modal
  BY <1>1, <1>4 DEF Device
<1> HIDE DEF E
<1>6. Sound(E)
  BY <1>1, <1>2, <1>4, <1>5 DEF Sound, KeyOps
<1>7. QED BY <1>1, <1>2, <1>3, <1>4, <1>5, <1>6, Replaced DEF PasskeyMade, Moved

\* The wrap record is loaded, or cannot be read.
RecordLoaded(d) ==
  /\ Moved(d) /\ UNCHANGED <<ssss, wraps, keys, held>>
  /\ dev[d].op.kind = "register" /\ dev'[d].op.kind = "enrol"
  /\ dev'[d].op.key = dev[d].op.key
  /\ \/ dev'[d].op.rec = wraps
     \/ May("load") /\ dev'[d].op.rec = EmptyRecord
  /\ dev'[d].prompt = dev[d].prompt /\ dev'[d].shown = dev[d].shown

\* LoadWrapRecord does that.
LEMMA LoadFacts ==
  ASSUME TrustType, DevicesSound, NEW d \in Devices, LoadWrapRecord(d)
  PROVE  RecordLoaded(d)
<1>1. /\ dev[d] \in Device /\ Sound(dev[d]) /\ dev[d].op.kind = "register"
      /\ UNCHANGED <<env, server, held>>
  BY Here DEF LoadWrapRecord
<1>2. PICK rec \in {wraps} \cup (IF May("load") THEN {EmptyRecord} ELSE {}) :
        Update(d, [dev[d] EXCEPT !.op.kind = "enrol", !.op.rec = rec])
  BY DEF LoadWrapRecord
<1>3. rec \in Record /\ (rec = wraps \/ (May("load") /\ rec = EmptyRecord))
  BY EmptyFacts DEF TrustType
<1> DEFINE o == [dev[d].op EXCEPT !.kind = "enrol", !.rec = rec]
           E == [dev[d] EXCEPT !.op = o]
<1>4. Update(d, E)
  BY <1>1, <1>2 DEF Device
<1>5. o \in Operation /\ o.kind = "enrol" /\ o.key = dev[d].op.key /\ o.rec = rec
  BY <1>1, <1>3, DeviceParts DEF Operation, KeyOps
<1> HIDE DEF o
<1>6. /\ E \in Device /\ E.ms = dev[d].ms /\ E.prompt = dev[d].prompt /\ E.op = o
      /\ E.reset = dev[d].reset /\ E.shown = dev[d].shown /\ E.modal = dev[d].modal
  BY <1>1, <1>5 DEF Device
<1> HIDE DEF E
<1>7. Sound(E)
  BY <1>1, <1>5, <1>6 DEF Sound, KeyOps
<1>8. QED BY <1>1, <1>3, <1>4, <1>5, <1>6, <1>7, Replaced
        DEF RecordLoaded, Moved, server, TrustType

\* The record goes to the server with the new wrap in it.
WrapStored(d) ==
  /\ Moved(d) /\ UNCHANGED <<ssss, keys, held>>
  /\ dev[d].op.kind = "enrol" /\ dev[d].op.key # None
  /\ wraps' \in Record
  /\ \A c \in Creds : wraps'[c] \in {dev[d].op.key, dev[d].op.rec[c]}
  /\ dev'[d].op.kind = "none" /\ dev'[d].op.key = None
  /\ dev'[d].prompt = dev[d].prompt /\ dev'[d].shown = dev[d].shown

\* AddPasskeySpeedup does that.
LEMMA EnrolFacts ==
  ASSUME TrustType, DevicesSound, NEW d \in Devices, AddPasskeySpeedup(d)
  PROVE  WrapStored(d)
<1> DEFINE rec == AddPasskeyWrap(dev[d].op.rec, dev[d].op.cred, dev[d].op.key)
           e == [dev[d].entry EXCEPT !.local = rec, !.custody = "passkey"]
           P == [dev[d] EXCEPT !.custody = "passkey", !.enrolled = TRUE, !.entry = e]
           E == Finish(P)
<1>1. /\ dev[d] \in Device /\ Sound(dev[d]) /\ dev[d].op.kind = "enrol" /\ wraps' = rec
      /\ UNCHANGED <<env, ssss, keys, creds, held>>
  BY Here DEF AddPasskeySpeedup
<1>2. Update(d, E)
  BY <1>1 DEF AddPasskeySpeedup, Device
<1>3. dev[d].op.key \in Int /\ dev[d].op.key # None /\ dev[d].op.rec \in Record
  BY <1>1, DeviceParts DEF Sound, KeyOps
<1>4. rec \in Record /\ \A c \in Creds : rec[c] \in {dev[d].op.key, dev[d].op.rec[c]}
  BY <1>3 DEF AddPasskeyWrap, Record
<1> HIDE DEF rec
<1>5. e \in Entry
  <2>1. dev[d].entry \in Entry /\ rec \in Record
    BY <1>1, <1>4, DeviceParts
  <2>2. QED BY ONLY <2>1 DEF Entry, Custodies
<1> HIDE DEF e
<1>6. /\ P \in Device /\ P.ms = dev[d].ms /\ P.prompt = dev[d].prompt
      /\ P.reset = dev[d].reset /\ P.shown = dev[d].shown /\ P.modal = dev[d].modal
  BY <1>1, <1>5 DEF Device, Custodies
<1> HIDE DEF P
<1>7. /\ E \in Device /\ E.ms = dev[d].ms /\ E.prompt = dev[d].prompt /\ E.op = NoOp
      /\ E.reset = dev[d].reset /\ E.shown = dev[d].shown /\ E.modal = dev[d].modal
  <2>1. "none" \in BareOps /\ None \in Int
    BY DEF BareOps, None
  <2>2. QED BY <1>6, <2>1, OpFacts DEF Device
<1> HIDE DEF E
<1>8. dev[d].ms /\ dev[d].reset # "running"
  BY <1>1 DEF Sound
<1>9. Sound(E)
  BY <1>1, <1>7, <1>8, FinishQuiet
<1>10. QED BY <1>1, <1>2, <1>3, <1>4, <1>7, <1>9, EmptyFacts, Replaced
         DEF WrapStored, Moved, TrustType

\* Secret storage opens with a secret the user typed or a passkey gave.
KeyEntered(d) ==
  /\ Moved(d) /\ UNCHANGED <<ssss, wraps, keys, held>>
  /\ dev[d].op.kind = "none" /\ dev[d].op.key = None
  /\ dev'[d].op.kind = "recovered" /\ dev'[d].op.key = ssss /\ ssss # None
  /\ \/ ssss \in held \/ ssss < None
     \/ \E c \in Creds : wraps[c] = ssss
  /\ dev'[d].prompt = dev[d].prompt /\ dev'[d].shown = dev[d].shown

\* SubmitRecoveryKey and UnlockWithPasskey do that.
LEMMA RecoverFacts ==
  ASSUME TrustType, DevicesSound, NEW d \in Devices,
         SubmitRecoveryKey(d) \/ UnlockWithPasskey(d)
  PROVE  KeyEntered(d)
<1>1. /\ dev[d] \in Device /\ Sound(dev[d]) /\ dev[d].op.kind = "none"
      /\ dev[d].prompt.kind = "verify" /\ dev[d].reset = "no"
  BY Here DEF SubmitRecoveryKey, UnlockWithPasskey, VerifyThisDevice, Shows, Idle
<1>2. /\ Recover(d, ssss) /\ ssss # None
      /\ \/ ssss \in held \/ ssss < None
         \/ \E c \in Creds : wraps[c] = ssss
  <2>1. CASE SubmitRecoveryKey(d)
    BY <2>1 DEF SubmitRecoveryKey, Recover, Opens
  <2>2. CASE UnlockWithPasskey(d)
    <3>1. PICK c \in 1..creds, rec \in {wraps} \cup (IF May("load") THEN {EmptyRecord} ELSE {}) :
            Recover(d, Unwrap(rec, c))
      BY <2>2 DEF UnlockWithPasskey
    <3>2. Unwrap(rec, c) = ssss /\ ssss # None
      BY <3>1 DEF Recover, Opens
    <3>3. c \in Creds /\ c \in Int /\ c > 0
      BY DeviceTrustAssumption DEF Creds, TrustType
    <3>4. CASE rec[c] = None
      BY <3>1, <3>2, <3>3, <3>4 DEF Unwrap, Prf, None
    <3>5. CASE rec[c] # None
      <4>1. rec[c] = ssss /\ rec = wraps
        BY <3>2, <3>3, <3>5, EmptyFacts DEF Unwrap
      <4>2. QED BY <3>1, <3>2, <3>3, <4>1
    <3>6. QED BY <3>4, <3>5
  <2>3. QED BY <2>1, <2>2
<1> DEFINE P == [dev[d] EXCEPT !.trusted = TRUE]
           E == WithOp(P, "recovered", ssss)
<1>3. Update(d, E) /\ UNCHANGED <<env, server, held>>
  BY <1>2 DEF Recover
<1>4. /\ P \in Device /\ P.ms = dev[d].ms /\ P.prompt = dev[d].prompt
      /\ P.reset = dev[d].reset /\ P.shown = dev[d].shown /\ P.modal = dev[d].modal
  BY <1>1 DEF Device
<1> HIDE DEF P
<1>5. "recovered" \in KeyOps /\ ssss \in Int
  BY DEF KeyOps, TrustType
<1>6. /\ E \in Device /\ E.ms = dev[d].ms /\ E.prompt = dev[d].prompt
      /\ E.op.kind = "recovered" /\ E.op.key = ssss
      /\ E.reset = dev[d].reset /\ E.shown = dev[d].shown /\ E.modal = dev[d].modal
  BY <1>4, <1>5, OpFacts DEF Device
<1> HIDE DEF E
<1>7. dev[d].ms /\ dev[d].op.key = None
  BY <1>1 DEF Sound, KeyOps
<1>8. Sound(E)
  BY <1>1, <1>2, <1>5, <1>6, <1>7 DEF Sound
<1>9. QED BY <1>1, <1>2, <1>3, <1>6, <1>7, <1>8, Replaced
        DEF KeyEntered, Moved, server, TrustType

\* The gate goes; an account without a passkey is offered one for the key.
KeyAccepted(d) ==
  /\ Moved(d) /\ UNCHANGED <<ssss, wraps, keys, held>>
  /\ dev[d].op.kind = "recovered" /\ dev[d].op.key # None /\ dev[d].prompt.key = None
  /\ dev'[d].prompt.key \in {None, dev[d].op.key}
  /\ dev'[d].op.kind = "none" /\ dev'[d].op.key = None /\ dev'[d].shown = dev[d].shown

\* RecoveryKeyAccepted does that.
LEMMA AcceptFacts ==
  ASSUME TrustType, DevicesSound, NEW d \in Devices, RecoveryKeyAccepted(d)
  PROVE  KeyAccepted(d)
<1> DEFINE k == dev[d].op.key
           S == SealDataKey(dev[d], k)
           p == IF dev[d].enrolled \/ ~env.passkeys THEN NoPrompt ELSE Prompt("speedup", k)
           P == [S EXCEPT !.prompt = p]
           E == Finish(P)
<1>1. /\ dev[d] \in Device /\ Sound(dev[d]) /\ dev[d].op.kind = "recovered"
      /\ UNCHANGED <<env, server, held>>
  BY Here DEF RecoveryKeyAccepted
<1>2. Update(d, E)
  BY <1>1 DEF RecoveryKeyAccepted, OfferPasskeySpeedup
<1>3. /\ k \in Int /\ k # None /\ dev[d].ms /\ dev[d].prompt.key = None
      /\ dev[d].reset \in {"no", "refused"}
  BY <1>1, DeviceParts DEF Sound, KeyOps
<1>4. SameButEntry(dev[d], S)
  BY <1>1, <1>3, EntryFacts
<1> HIDE DEF S, k
<1>5. /\ p \in Prompts
      /\ \/ p.kind = "speedup" /\ p.key = k
         \/ p.kind = "none" /\ p.key = None
  BY <1>3, EmptyFacts, PromptFacts DEF PromptKinds
<1> HIDE DEF p
<1>6. /\ P \in Device /\ P.ms = dev[d].ms /\ P.prompt = p
      /\ P.reset = dev[d].reset /\ P.shown = dev[d].shown /\ P.modal = dev[d].modal
  BY <1>4, <1>5 DEF SameButEntry, Device
<1> HIDE DEF P
<1>7. /\ E \in Device /\ E.ms = dev[d].ms /\ E.prompt = p /\ E.op = NoOp
      /\ E.reset = dev[d].reset /\ E.shown = dev[d].shown /\ E.modal = dev[d].modal
  <2>1. "none" \in BareOps /\ None \in Int
    BY DEF BareOps, None
  <2>2. QED BY <1>6, <2>1, OpFacts DEF Device
<1> HIDE DEF E
<1>8. Sound(E)
  BY <1>1, <1>3, <1>5, <1>7, EmptyFacts DEF Sound, KeyOps
<1>9. QED BY <1>1, <1>2, <1>3, <1>5, <1>7, <1>8, EmptyFacts, Replaced
        DEF KeyAccepted, Moved, server, k, TrustType

\* The rotated key reaches the window, which only an early close can have taken
\* away.
RotationShown(d) ==
  /\ Moved(d) /\ UNCHANGED <<ssss, wraps, keys>>
  /\ dev[d].op.kind = "rotated"
  /\ held' = held \cup {dev[d].op.key} \/ (held' = held /\ May("closing"))
  /\ dev'[d].op.kind = "none" /\ dev'[d].op.key = None
  /\ dev'[d].prompt = dev[d].prompt /\ dev'[d].shown = dev[d].shown

\* ShowRegenerated does that.
LEMMA RotatedFacts ==
  ASSUME TrustType, DevicesSound, NEW d \in Devices, ShowRegenerated(d)
  PROVE  RotationShown(d)
<1> DEFINE F == Finish(dev[d])
           E == [F EXCEPT !.modal = FALSE]
<1>1. /\ dev[d] \in Device /\ Sound(dev[d]) /\ dev[d].op.kind = "rotated" /\ Update(d, E)
      /\ UNCHANGED <<env, server>>
      /\ held' = IF dev[d].modal THEN held \cup {dev[d].op.key} ELSE held
  BY Here DEF ShowRegenerated
<1>2. F \in Device /\ F = [dev[d] EXCEPT !.op = NoOp]
  <2>1. "none" \in BareOps /\ None \in Int
    BY DEF BareOps, None
  <2>2. QED BY <1>1, <2>1, OpFacts
<1>3. /\ F.ms = dev[d].ms /\ F.prompt = dev[d].prompt /\ F.op = NoOp
      /\ F.reset = dev[d].reset /\ F.shown = dev[d].shown
  BY <1>1, <1>2 DEF Device
<1> HIDE DEF F
<1>4. /\ E \in Device /\ E.ms = dev[d].ms /\ E.prompt = dev[d].prompt /\ E.op = NoOp
      /\ E.reset = dev[d].reset /\ E.shown = dev[d].shown
  BY <1>2, <1>3 DEF Device
<1> HIDE DEF E
<1>5. dev[d].ms /\ dev[d].reset # "running" /\ (dev[d].modal \/ May("closing"))
  BY <1>1 DEF Sound
<1>6. Sound(E)
  BY <1>1, <1>4, <1>5, EmptyFacts DEF Sound, KeyOps
<1>7. held' = held \cup {dev[d].op.key} \/ (held' = held /\ May("closing"))
  BY <1>1, <1>5
<1>8. QED BY <1>1, <1>4, <1>6, <1>7, EmptyFacts, Replaced
        DEF RotationShown, Moved, server, TrustType

\* The wraps of the old key go, and the new key comes up.
WrapsCleared(d) ==
  /\ Moved(d) /\ UNCHANGED <<ssss, keys, held>>
  /\ dev[d].op.kind = "clear" /\ dev[d].prompt.key = None /\ dev[d].shown = None
  /\ wraps' = EmptyRecord \/ (wraps' = wraps /\ May("load"))
  /\ dev'[d].prompt = dev[d].prompt /\ dev'[d].shown = dev[d].op.key
  /\ dev'[d].op.kind = "none" /\ dev'[d].op.key = None

\* ClearWraps does that.
LEMMA ClearFacts ==
  ASSUME TrustType, DevicesSound, NEW d \in Devices, ClearWraps(d)
  PROVE  WrapsCleared(d)
<1> DEFINE k == dev[d].op.key
           F == Finish(dev[d])
           e == [F.entry EXCEPT !.local = EmptyRecord, !.custody = "manual", !.saved = FALSE]
           E == [F EXCEPT !.reset = "done", !.shown = k, !.enrolled = FALSE,
                          !.custody = "manual", !.entry = e]
<1>1. /\ dev[d] \in Device /\ Sound(dev[d]) /\ dev[d].op.kind = "clear"
      /\ wraps' = EmptyRecord \/ (wraps' = wraps /\ May("load"))
      /\ UNCHANGED <<env, ssss, keys, creds, held>>
  BY Here DEF ClearWraps
<1>2. /\ F \in Device /\ F.ms = dev[d].ms /\ F.prompt = dev[d].prompt /\ F.op = NoOp
      /\ F.modal = dev[d].modal
  <2>1. "none" \in BareOps /\ None \in Int
    BY DEF BareOps, None
  <2>2. QED BY <1>1, <2>1, OpFacts DEF Device
<1>3. Update(d, E)
  BY <1>1, <1>2 DEF ClearWraps, Device
<1>4. k \in Int /\ dev[d].ms /\ dev[d].prompt.key = None /\ dev[d].shown = None
  BY <1>1, DeviceParts DEF Sound
<1> HIDE DEF F, k
<1>5. e \in Entry
  <2>1. F.entry \in Entry /\ EmptyRecord \in Record
    BY <1>2, DeviceParts, EmptyFacts
  <2>2. QED BY ONLY <2>1 DEF Entry, Custodies
<1> HIDE DEF e
<1>6. /\ E \in Device /\ E.ms = dev[d].ms /\ E.prompt = dev[d].prompt /\ E.op = NoOp
      /\ E.reset = "done" /\ E.shown = k /\ E.modal = dev[d].modal
  BY <1>2, <1>4, <1>5 DEF Device, Resets, Custodies
<1> HIDE DEF E
<1>7. Sound(E)
  BY <1>1, <1>4, <1>6, EmptyFacts DEF Sound, KeyOps
<1>8. QED BY <1>1, <1>3, <1>4, <1>6, <1>7, EmptyFacts, Replaced
        DEF WrapsCleared, Moved, TrustType, k

\* The new key is checked like the first one, and the device signs out.
ResetFinished(d) ==
  /\ Moved(d) /\ UNCHANGED <<ssss, wraps, keys>>
  /\ held' = held \cup {dev[d].shown}
  /\ dev[d].op.kind = "none" /\ dev[d].op.key = None /\ dev[d].prompt.key = None
  /\ dev'[d].op = dev[d].op /\ dev'[d].prompt.key = None /\ dev'[d].shown = None

\* FinishReset does that.
LEMMA FinishFacts ==
  ASSUME TrustType, DevicesSound, NEW d \in Devices, FinishReset(d)
  PROVE  ResetFinished(d)
<1> DEFINE B == Blank(NoEntry, FALSE)
           E == [B EXCEPT !.enrolled = dev[d].enrolled, !.op = dev[d].op]
<1>1. /\ dev[d] \in Device /\ Sound(dev[d]) /\ dev[d].reset = "done" /\ Update(d, E)
      /\ UNCHANGED <<env, server>> /\ held' = held \cup {dev[d].shown}
  BY Here DEF FinishReset, VerifyKeyStep, SignOutOf
<1>2. /\ dev[d].op.kind = "none" /\ dev[d].op.key = None /\ dev[d].prompt.key = None
  BY <1>1 DEF Sound, KeyOps
<1>3. /\ B \in Device /\ B.prompt = NoPrompt /\ B.reset = "no" /\ B.shown = None
  BY BlankFacts, EmptyFacts
<1> HIDE DEF B
<1>4. /\ E \in Device /\ E.prompt = NoPrompt /\ E.reset = "no" /\ E.shown = None
      /\ E.op = dev[d].op
  BY <1>1, <1>3, DeviceParts DEF Device
<1> HIDE DEF E
<1>5. Sound(E)
  BY <1>1, <1>2, <1>4, EmptyFacts DEF Sound
<1>6. QED BY <1>1, <1>2, <1>4, <1>5, EmptyFacts, Replaced
        DEF ResetFinished, Moved, server, TrustType

\* Every step of a device is quiet or one of these.
LEMMA StepKinds ==
  ASSUME TrustType, DevicesSound, Unasked, NEW d \in Devices, Keyed(d) \/ Emoji(d)
  PROVE  \/ Settled(d) \/ NewKey(d) \/ KeyShown(d) \/ KeyConfirmed(d) \/ PasskeyMade(d)
         \/ RecordLoaded(d) \/ WrapStored(d) \/ KeyEntered(d) \/ KeyAccepted(d)
         \/ RotationShown(d) \/ WrapsCleared(d) \/ ResetFinished(d)
<1>1. CASE Emoji(d)
  BY <1>1, EmojiQuiet
<1>2. CASE SignIn(d) \/ EnsureHistoryAccess(d) \/ Reload(d) \/ SignOut(d)
  BY <1>2, SignInQuiet, HistoryQuiet, ReloadQuiet, SignOutQuiet
<1>3. CASE BootstrapFailed(d) \/ RetryRecoverySetup(d) \/ DismissSpeedup(d) \/ EnrolFailed(d)
  BY <1>3, BootstrapQuiet, SpeedupQuiet
<1>4. CASE SubmitUnlockKey(d) \/ UnlockSessionWithPasskey(d) \/ SaveLegacyKey(d)
           \/ RevealRecoveryKey(d) \/ ConfirmRegenerate(d) \/ CloseModal(d)
  BY <1>4, UnlockQuiet, RevealQuiet, WindowQuiet
<1>5. CASE StartReset(d) \/ CancelReset(d) \/ RunReset(d) \/ ResetWorkspaces(d)
  BY <1>5, ResetQuiet
<1>6. CASE EnableRecovery(d) \/ RegenerateRecoveryKey(d) \/ ResetRecovery(d)
  BY <1>6, KeyMade
<1>7. CASE ShowRecoveryKey(d) \/ ConfirmKeySaved(d) \/ RegisterPasskey(d) \/ LoadWrapRecord(d)
  BY <1>7, ShowFacts, ConfirmFacts, RegisterFacts, LoadFacts
<1>8. CASE AddPasskeySpeedup(d) \/ SubmitRecoveryKey(d) \/ UnlockWithPasskey(d)
           \/ RecoveryKeyAccepted(d)
  BY <1>8, EnrolFacts, RecoverFacts, AcceptFacts
<1>9. CASE ShowRegenerated(d) \/ ClearWraps(d) \/ FinishReset(d)
  BY <1>9, RotatedFacts, ClearFacts, FinishFacts
<1>10. QED
  BY <1>1, <1>2, <1>3, <1>4, <1>5, <1>6, <1>7, <1>8, <1>9 DEF Keyed

-----------------------------------------------------------------------------
(* The invariants, one by one. *)

\* Types, and where each device carries its keys.
LEMMA TypeStep ==
  ASSUME TrustType, DevicesSound, Unasked, NEW d \in Devices, Keyed(d) \/ Emoji(d)
  PROVE  TrustType' /\ DevicesSound' /\ env' = env
<1>1. /\ env' = env /\ creds' \in 0..MaxCred /\ ssss' \in Int /\ keys' \in Nat
      /\ held' \subseteq Int /\ dev' \in [Devices -> Device] /\ Sound(dev'[d])
      /\ \A e \in Devices \ {d} : dev'[e] = dev[e]
  <2>1. CASE Settled(d)
    BY <2>1 DEF Settled, TrustType
  <2>2. CASE NewKey(d)
    BY <2>2 DEF NewKey, Moved, TrustType
  <2>3. CASE KeyShown(d) \/ PasskeyMade(d) \/ RecordLoaded(d) \/ WrapStored(d)
             \/ KeyEntered(d) \/ KeyAccepted(d) \/ WrapsCleared(d)
    BY <2>3 DEF KeyShown, PasskeyMade, RecordLoaded, WrapStored, KeyEntered, KeyAccepted,
         WrapsCleared, Moved, TrustType
  <2>4. CASE KeyConfirmed(d) \/ RotationShown(d) \/ ResetFinished(d)
    <3>1. dev[d].prompt.key \in Int /\ dev[d].op.key \in Int /\ dev[d].shown \in Int
      BY DeviceParts DEF TrustType
    <3>2. QED
      BY <2>4, <3>1 DEF KeyConfirmed, RotationShown, ResetFinished, Moved, TrustType
  <2>5. QED BY <2>1, <2>2, <2>3, <2>4, StepKinds
<1>2. wraps' \in Record
  BY StepKinds, EmptyFacts DEF Settled, NewKey, KeyShown, KeyConfirmed, PasskeyMade,
     RecordLoaded, WrapStored, KeyEntered, KeyAccepted, RotationShown, WrapsCleared,
     ResetFinished, TrustType
<1>3. DevicesSound'
  <2>1. \A e \in Devices : Sound(dev'[e])
    BY <1>1 DEF DevicesSound
  <2>2. QED BY <1>1, <2>1 DEF DevicesSound, Sound, May, Faults
<1>4. QED BY <1>1, <1>2, <1>3 DEF TrustType

\* Where the keys come from.
LEMMA SourceStep ==
  ASSUME TrustType, DevicesSound, Unasked, SourceInv, NEW d \in Devices, Keyed(d) \/ Emoji(d)
  PROVE  SourceInv'
<1>1. /\ keys \in Nat /\ keys' \in Nat /\ keys <= keys' /\ held \subseteq held'
      /\ \A e \in Devices \ {d} : dev'[e] = dev[e]
      /\ dev[d] \in Device /\ dev'[d] \in Device /\ Sound(dev'[d]) /\ Sound(dev[d])
      /\ ssss \in Int /\ wraps \in Record
  BY Here, StepKinds, TypeStep DEF Settled, NewKey, KeyShown, KeyConfirmed, PasskeyMade,
     RecordLoaded, WrapStored, KeyEntered, KeyAccepted, RotationShown, WrapsCleared,
     ResetFinished, TrustType, Moved
<1>2. Sourced(dev[d]) /\ \A e \in Devices : Sourced(dev[e])
  BY DEF SourceInv
<1> DEFINE D == dev[d]
           E == dev'[d]
<1>3. /\ D.prompt.key \in Int /\ D.op.key \in Int /\ D.shown \in Int /\ D.op.rec \in Record
      /\ E.prompt.key \in Int /\ E.op.key \in Int /\ E.shown \in Int /\ E.op.rec \in Record
  BY <1>1, DeviceParts
<1>4. ASSUME NEW k \in Int, k <= keys, Given(k)
      PROVE  k <= keys' /\ (k <= None \/ k \in held')
  BY <1>1, <1>4 DEF Given
<1>5. \A e \in Devices \ {d} : Sourced(dev[e])'
  <2>1. TAKE e \in Devices \ {d}
  <2>2. dev'[e] = dev[e] /\ Sourced(dev[e]) /\ dev[e] \in Device
    BY <1>1, <1>2 DEF TrustType
  <2>3. /\ dev[e].prompt.key \in Int /\ dev[e].op.key \in Int /\ dev[e].shown \in Int
        /\ \A c \in Creds : dev[e].op.rec[c] \in Int
    BY <2>2, DeviceParts DEF Record
  <2>4. QED BY <1>1, <1>4, <2>2, <2>3 DEF Sourced, Given
<1>6. Sourced(dev[d])'
  <2> DEFINE Good(p, o, s) ==
               /\ p.key <= keys' /\ o.key <= keys' /\ s <= keys'
               /\ p.kind = "speedup" => p.key <= None \/ p.key \in held'
               /\ o.kind \in {"register", "enrol", "recovered"} =>
                    o.key <= None \/ o.key \in held'
               /\ o.kind = "enrol" => \A c \in Creds :
                    o.rec[c] <= keys' /\ (o.rec[c] <= None \/ o.rec[c] \in held')
  <2>1. SUFFICES Good(E.prompt, E.op, E.shown)
    BY DEF Sourced, Given
  <2>2. /\ D.prompt.key <= keys /\ D.op.key <= keys /\ D.shown <= keys
        /\ D.prompt.kind = "speedup" => Given(D.prompt.key)
        /\ D.op.kind \in {"register", "enrol", "recovered"} => Given(D.op.key)
        /\ D.op.kind = "enrol" => \A c \in Creds : D.op.rec[c] <= keys /\ Given(D.op.rec[c])
    BY <1>2 DEF Sourced
  <2>3. /\ E.prompt.key # None <=> E.prompt.kind \in {"save", "speedup"}
        /\ E.op.key # None <=> E.op.kind \in KeyOps
    BY <1>1 DEF Sound
  <2>4. None \in Int /\ None <= keys /\ None <= keys' /\ Given(None)
    BY <1>1 DEF None, Given
  <2>5. \A c \in Creds : D.op.rec[c] \in Int /\ wraps[c] \in Int
    BY <1>1, <1>3 DEF Record
  <2>6. \A x \in KeyOps : x \notin BareOps
    BY DEF BareOps, KeyOps
  <2> HIDE DEF D, E
  <2>7. CASE Settled(d)
    <3>1. /\ E.prompt = D.prompt \/ E.prompt.key = None
          /\ E.op = D.op \/ E.op.kind \in BareOps
          /\ E.shown = D.shown \/ E.shown = None
      BY <2>7 DEF Settled, Quiet, D, E
    <3>2. E.op = D.op \/ (E.op.key = None /\ E.op.kind \notin {"register", "enrol", "recovered"})
      BY <2>3, <2>6, <3>1 DEF KeyOps
    <3>3. E.prompt = D.prompt \/ (E.prompt.key = None /\ E.prompt.kind # "speedup")
      BY <2>3, <3>1
    <3>4. QED BY <1>1, <1>3, <1>4, <2>2, <2>4, <2>5, <3>1, <3>2, <3>3
  <2>8. CASE NewKey(d)
    <3>1. /\ E.prompt = D.prompt /\ E.shown = D.shown /\ E.op.key = keys + 1
          /\ keys' = keys + 1 /\ E.op.kind \in {"show", "rotated", "clear"}
      BY <2>8 DEF NewKey, D, E
    <3>2. QED BY <1>1, <1>3, <1>4, <2>2, <3>1
  <2>9. CASE KeyShown(d)
    <3>1. /\ E.prompt.kind = "save" /\ E.prompt.key = D.op.key /\ E.op.kind = "none"
          /\ E.op.key = None /\ E.shown = D.shown
      BY <2>9 DEF KeyShown, D, E
    <3>2. QED BY <1>1, <1>3, <2>2, <2>4, <3>1
  <2>10. CASE KeyConfirmed(d)
    <3>1. /\ E.prompt.key \in {None, D.prompt.key} /\ E.op = D.op /\ E.shown = D.shown
          /\ D.prompt.key \in held'
      BY <2>10 DEF KeyConfirmed, D, E
    <3>2. QED BY <1>1, <1>3, <1>4, <2>2, <2>4, <2>5, <3>1
  <2>11. CASE PasskeyMade(d)
    <3>1. /\ D.prompt.kind = "speedup" /\ E.prompt = D.prompt /\ E.op.kind = "register"
          /\ E.op.key = D.prompt.key /\ E.shown = D.shown
      BY <2>11 DEF PasskeyMade, D, E
    <3>2. QED BY <1>1, <1>3, <1>4, <2>2, <3>1
  <2>12. CASE RecordLoaded(d)
    <3>1. /\ E.prompt = D.prompt /\ E.op.kind = "enrol" /\ D.op.kind = "register"
          /\ E.op.key = D.op.key /\ E.op.rec \in {wraps, EmptyRecord} /\ E.shown = D.shown
      BY <2>12 DEF RecordLoaded, D, E
    <3>2. \A c \in Creds : E.op.rec[c] \in Int /\ E.op.rec[c] <= keys /\ Given(E.op.rec[c])
      BY <2>4, <2>5, <3>1, EmptyFacts DEF SourceInv
    <3>3. QED BY <1>1, <1>3, <1>4, <2>2, <3>1, <3>2
  <2>13. CASE WrapStored(d) \/ RotationShown(d)
    <3>1. /\ E.prompt = D.prompt /\ E.op.kind = "none" /\ E.op.key = None /\ E.shown = D.shown
      BY <2>13 DEF WrapStored, RotationShown, D, E
    <3>2. QED BY <1>1, <1>3, <1>4, <2>2, <2>4, <3>1
  <2>14. CASE KeyEntered(d)
    <3>1. /\ E.prompt = D.prompt /\ E.op.kind = "recovered" /\ E.op.key = ssss
          /\ E.shown = D.shown
          /\ ssss \in held \/ ssss < None \/ \E c \in Creds : wraps[c] = ssss
      BY <2>14 DEF KeyEntered, D, E
    <3>2. ssss <= keys /\ Given(ssss)
      BY <1>1, <2>4, <3>1 DEF SourceInv, Given
    <3>3. QED BY <1>1, <1>3, <1>4, <2>2, <3>1, <3>2
  <2>15. CASE KeyAccepted(d)
    <3>1. /\ E.prompt.key \in {None, D.op.key} /\ E.op.kind = "none" /\ E.op.key = None
          /\ E.shown = D.shown /\ D.op.kind = "recovered"
      BY <2>15 DEF KeyAccepted, D, E
    <3>2. QED BY <1>1, <1>3, <1>4, <2>2, <2>4, <3>1
  <2>16. CASE WrapsCleared(d)
    <3>1. /\ E.prompt = D.prompt /\ E.op.kind = "none" /\ E.op.key = None
          /\ E.shown = D.op.key
      BY <2>16 DEF WrapsCleared, D, E
    <3>2. QED BY <1>1, <1>3, <1>4, <2>2, <2>4, <3>1
  <2>17. CASE ResetFinished(d)
    <3>1. /\ E.prompt.key = None /\ E.op = D.op /\ E.shown = None
      BY <2>17 DEF ResetFinished, D, E
    <3>2. QED BY <1>1, <1>3, <1>4, <2>2, <2>4, <2>5, <3>1
  <2>18. QED
    BY <2>7, <2>8, <2>9, <2>10, <2>11, <2>12, <2>13, <2>14, <2>15, <2>16, <2>17, StepKinds
<1>7. ssss' <= keys' /\ \A k \in held' : k <= keys'
  <2>1. /\ ssss <= keys /\ D.prompt.key <= keys /\ D.op.key <= keys /\ D.shown <= keys
        /\ None <= keys
    BY <1>1, <1>2 DEF SourceInv, Sourced, None
  <2>2. \A k \in held : k \in Int /\ k <= keys
    BY DEF SourceInv, TrustType
  <2>3. ssss' \in {ssss, keys'}
    BY StepKinds DEF Settled, NewKey, KeyShown, KeyConfirmed, PasskeyMade,
       RecordLoaded, WrapStored, KeyEntered, KeyAccepted, RotationShown, WrapsCleared,
       ResetFinished
  <2>4. \A k \in held' : k \in held \cup {D.prompt.key, D.op.key, D.shown} \/ k <= None
    BY StepKinds DEF Settled, NewKey, KeyShown, KeyConfirmed, PasskeyMade,
       RecordLoaded, WrapStored, KeyEntered, KeyAccepted, RotationShown, WrapsCleared,
       ResetFinished
  <2>5. held' \subseteq Int /\ None \in Int
    BY TypeStep DEF TrustType, None
  <2> HIDE DEF D, E
  <2>6. QED BY <1>1, <1>3, <2>1, <2>2, <2>3, <2>4, <2>5
<1>8. \A c \in Creds : wraps'[c] <= keys' /\ (wraps'[c] <= None \/ wraps'[c] \in held')
  <2>1. \A c \in Creds : wraps[c] \in Int /\ wraps[c] <= keys /\ Given(wraps[c])
    BY <1>1 DEF SourceInv, Record
  <2>2. CASE wraps' = wraps
    BY <1>4, <2>1, <2>2
  <2>3. CASE wraps' = EmptyRecord
    BY <1>1, <2>3, EmptyFacts DEF None
  <2>4. CASE WrapStored(d)
    <3>1. \A c \in Creds : D.op.rec[c] \in Int /\ D.op.rec[c] <= keys /\ Given(D.op.rec[c])
      BY <1>2, <1>3, <2>4 DEF WrapStored, Sourced, Record
    <3>2. D.op.key \in Int /\ D.op.key <= keys /\ Given(D.op.key)
      BY <1>2, <1>3, <2>4 DEF WrapStored, Sourced
    <3>3. \A c \in Creds : wraps'[c] \in {D.op.key, D.op.rec[c]}
      BY <2>4 DEF WrapStored
    <3> HIDE DEF D, E
    <3>4. QED BY <1>4, <3>1, <3>2, <3>3
  <2>5. QED
    BY <2>2, <2>3, <2>4, StepKinds DEF Settled, NewKey, KeyShown, KeyConfirmed, PasskeyMade,
       RecordLoaded, KeyEntered, KeyAccepted, RotationShown, WrapsCleared, ResetFinished
<1>9. \A e \in Devices : Sourced(dev[e])'
  BY <1>5, <1>6
<1>10. QED BY <1>7, <1>8, <1>9 DEF SourceInv, Given

\* One device enrols at a time, and knows every wrap there is.
LEMMA EnrolStep ==
  ASSUME TrustType, DevicesSound, Unasked, EnrolInv, NEW d \in Devices, Keyed(d) \/ Emoji(d)
  PROVE  EnrolInv'
<1>1. /\ env' = env /\ \A e \in Devices \ {d} : dev'[e] = dev[e]
  BY StepKinds, TypeStep DEF Settled, NewKey, KeyShown, KeyConfirmed, PasskeyMade,
     RecordLoaded, WrapStored, KeyEntered, KeyAccepted, RotationShown, WrapsCleared,
     ResetFinished, Moved
<1>2. SUFFICES ASSUME Faults \cap {"overlap", "load"} = {}
      PROVE  /\ \A a, b \in Devices : Enrolling(a)' /\ Enrolling(b)' => a = b
             /\ \A a \in Devices : dev'[a].op.kind = "enrol" =>
                  \A c \in Creds : wraps'[c] # None => dev'[a].op.rec[c] # None
  BY <1>1 DEF EnrolInv, Faults
<1>3. ~May("overlap") /\ ~May("load")
  BY <1>2 DEF May
<1>4. /\ \A a, b \in Devices : Enrolling(a) /\ Enrolling(b) => a = b
      /\ \A a \in Devices : dev[a].op.kind = "enrol" =>
           \A c \in Creds : wraps[c] # None => dev[a].op.rec[c] # None
  BY <1>2 DEF EnrolInv
<1>5. \A x \in BareOps : x \notin {"register", "enrol"}
  BY DEF BareOps
<1>6. Enrolling(d)' => Enrolling(d) \/ \A e \in Devices \ {d} : ~Enrolling(e)
  <2>1. CASE Settled(d)
    BY <1>5, <2>1 DEF Settled, Quiet, Enrolling
  <2>2. CASE PasskeyMade(d)
    BY <1>3, <2>2 DEF PasskeyMade, Enrolling
  <2>3. QED
    BY <2>1, <2>2, StepKinds DEF NewKey, KeyShown, KeyConfirmed, RecordLoaded, WrapStored,
       KeyEntered, KeyAccepted, RotationShown, WrapsCleared, ResetFinished, Enrolling
<1>7. \A a, b \in Devices : Enrolling(a)' /\ Enrolling(b)' => a = b
  BY <1>1, <1>4, <1>6 DEF Enrolling
<1>8. CASE wraps' = wraps
  <2>1. dev'[d].op.kind = "enrol" => dev'[d].op = dev[d].op \/ dev'[d].op.rec = wraps
    <3>1. CASE Settled(d)
      BY <1>5, <3>1 DEF Settled, Quiet
    <3>2. QED
      BY <1>3, <3>1, StepKinds DEF NewKey, KeyShown, KeyConfirmed, PasskeyMade, RecordLoaded,
         WrapStored, KeyEntered, KeyAccepted, RotationShown, WrapsCleared, ResetFinished
  <2>2. QED BY <1>1, <1>4, <1>7, <1>8, <2>1
<1>9. CASE WrapStored(d)
  <2>1. Enrolling(d) /\ dev'[d].op.kind = "none"
    BY <1>9 DEF WrapStored, Enrolling
  <2>2. \A a \in Devices : dev'[a].op.kind # "enrol"
    BY <1>1, <1>4, <2>1 DEF Enrolling
  <2>3. QED BY <1>7, <2>2
<1>10. CASE wraps' = EmptyRecord
  BY <1>7, <1>10, EmptyFacts
<1>11. QED
  BY <1>8, <1>9, <1>10, StepKinds DEF Settled, NewKey, KeyShown, KeyConfirmed, PasskeyMade,
     RecordLoaded, KeyEntered, KeyAccepted, RotationShown, WrapsCleared, ResetFinished

\* The key in force stays within reach of the user.
LEMMA HeldStep ==
  ASSUME TrustType, DevicesSound, Unasked, SourceInv, HeldKeyOpens,
         NEW d \in Devices, Keyed(d) \/ Emoji(d)
  PROVE  HeldKeyOpens'
<1>1. /\ env' = env /\ held \subseteq held'
      /\ \A e \in Devices \ {d} : dev'[e] = dev[e]
      /\ dev[d] \in Device /\ Sound(dev[d]) /\ Sound(dev'[d])
  BY Here, StepKinds, TypeStep DEF Settled, NewKey, KeyShown, KeyConfirmed, PasskeyMade,
     RecordLoaded, WrapStored, KeyEntered, KeyAccepted, RotationShown, WrapsCleared,
     ResetFinished, Moved
<1>2. SUFFICES ASSUME Faults \cap {"closing", "request"} = {}, ssss' > 0
      PROVE  \/ ssss' \in held'
             \/ \E e \in Devices : ssss' \in {dev'[e].prompt.key, dev'[e].op.key, dev'[e].shown}
  BY <1>1 DEF HeldKeyOpens, Faults
<1>3. ~May("closing") /\ ~Interrupted
  BY <1>2 DEF May, Interrupted
<1>4. CASE NewKey(d)
  BY <1>4 DEF NewKey
<1>5. CASE ~NewKey(d)
  <2>1. ssss' = ssss /\ ssss \in Int
    BY <1>5, StepKinds DEF Settled, KeyShown, KeyConfirmed, PasskeyMade,
       RecordLoaded, WrapStored, KeyEntered, KeyAccepted, RotationShown, WrapsCleared,
       ResetFinished, TrustType
  <2>2. \/ ssss \in held
        \/ \E e \in Devices : ssss \in {dev[e].prompt.key, dev[e].op.key, dev[e].shown}
    BY <1>2, <2>1 DEF HeldKeyOpens
  <2>3. CASE ssss \in held
    BY <1>1, <2>1, <2>3
  <2>4. CASE \E e \in Devices \ {d} : ssss \in {dev[e].prompt.key, dev[e].op.key, dev[e].shown}
    BY <1>1, <2>1, <2>4
  <2>5. CASE ssss \notin held /\ ssss \in {dev[d].prompt.key, dev[d].op.key, dev[d].shown}
    <3> DEFINE D == dev[d]
               E == dev'[d]
    <3>1. ssss # None /\ ~Given(ssss)
      BY <1>2, <2>1, <2>5 DEF None, Given
    <3>2. /\ D.prompt.kind = "speedup" => Given(D.prompt.key)
          /\ D.op.kind \in {"register", "enrol", "recovered"} => Given(D.op.key)
      BY DEF SourceInv, Sourced
    <3>3. /\ D.prompt.key # None <=> D.prompt.kind \in {"save", "speedup"}
          /\ D.op.key # None <=> D.op.kind \in KeyOps
      BY <1>1 DEF Sound
    <3>4. SUFFICES ssss \in held' \/ ssss \in {E.prompt.key, E.op.key, E.shown}
      BY <2>1
    <3>5. CASE Settled(d)
      <4>1. /\ E.prompt = D.prompt \/ D.prompt.kind # "save"
            /\ E.op = D.op \/ D.op.kind \notin KeyOps \ {"enrol"}
            /\ E.shown = D.shown \/ D.shown = None
        BY <1>3, <3>5 DEF Settled, Quiet
      <4> HIDE DEF D, E
      <4>2. ssss = D.prompt.key => E.prompt = D.prompt
        BY <3>1, <3>2, <3>3, <4>1
      <4>3. ssss = D.op.key => E.op = D.op
        BY <3>1, <3>2, <3>3, <4>1
      <4>4. ssss = D.shown => E.shown = D.shown
        BY <3>1, <4>1
      <4>5. QED BY <2>5, <4>2, <4>3, <4>4 DEF D
    <3>6. CASE KeyShown(d) \/ KeyConfirmed(d) \/ WrapsCleared(d) \/ ResetFinished(d)
      BY <2>5, <3>1, <3>6 DEF KeyShown, KeyConfirmed, WrapsCleared, ResetFinished
    <3>7. CASE PasskeyMade(d) \/ RecordLoaded(d) \/ KeyEntered(d) \/ RotationShown(d)
      BY <1>3, <2>5, <3>1, <3>7 DEF PasskeyMade, RecordLoaded, KeyEntered, RotationShown
    <3>8. CASE WrapStored(d) \/ KeyAccepted(d)
      <4>1. D.op.kind \in {"enrol", "recovered"}
        BY <3>8 DEF WrapStored, KeyAccepted
      <4>2. ssss # D.op.key
        BY <3>1, <3>2, <4>1
      <4>3. QED BY <2>5, <3>1, <3>8, <4>2 DEF WrapStored, KeyAccepted
    <3>9. QED BY <1>5, <3>5, <3>6, <3>7, <3>8, StepKinds
  <2>6. QED BY <2>2, <2>3, <2>4, <2>5
<1>6. QED BY <1>4, <1>5

\* A step of a device that holds no key leaves it without one, while only another
\* device knows the key in force.
LEMMA BareStep ==
  ASSUME TrustType, DevicesSound, Unasked, NEW d \in Devices, Keyed(d) \/ Emoji(d),
         NEW a \in Devices \ {d}, dev[a].op.kind = "clear", Fresh(a),
         ~May("rotation"), ~May("stale")
  PROVE  /\ Bare(dev'[d]) /\ UNCHANGED <<ssss, wraps>>
         /\ dev'[d].shown \in {None, dev[d].shown}
         /\ \A k \in held' : k \in held \/ k <= None \/ k = dev[d].shown
<1>1. /\ Bare(dev[d]) /\ ssss > 0 /\ ssss \notin held /\ \A c \in Creds : wraps[c] # ssss
  BY DEF Fresh
<1>2. /\ dev[d] \in Device /\ Sound(dev[d]) /\ ssss \in Int
  BY Here DEF TrustType
<1> DEFINE D == dev[d]
           E == dev'[d]
<1>3. /\ D.prompt.key = None /\ D.op.kind \notin KeyOps
      /\ D.prompt.kind \notin {"save", "speedup"}
  BY <1>1, <1>2 DEF Bare, Sound
<1>4. "none" \notin KeyOps /\ \A x \in BareOps : x \notin KeyOps
  BY DEF BareOps, KeyOps
<1>5. CASE Settled(d)
  <2>1. /\ E.prompt = D.prompt \/ E.prompt.key = None
        /\ E.op = D.op \/ E.op.kind \in BareOps
        /\ E.shown = D.shown \/ E.shown = None
        /\ UNCHANGED <<ssss, wraps>>
        /\ \A k \in held' : k \in held \/ k <= None
    BY <1>5 DEF Settled, Quiet
  <2>2. QED BY <1>3, <1>4, <2>1 DEF Bare
<1>6. CASE NewKey(d)
  <2>1. ssss # None /\ CarriesKey(a)
    BY <1>1 DEF None, CarriesKey
  <2>2. QED BY <1>6, <2>1 DEF NewKey
<1>7. CASE KeyEntered(d)
  <2>1. ~(ssss < None)
    BY <1>1, <1>2 DEF None
  <2>2. QED BY <1>1, <1>7, <2>1 DEF KeyEntered
<1>8. CASE KeyConfirmed(d) \/ PasskeyMade(d)
  BY <1>3, <1>8 DEF KeyConfirmed, PasskeyMade
<1>9. CASE \/ KeyShown(d) \/ RecordLoaded(d) \/ WrapStored(d) \/ KeyAccepted(d)
           \/ RotationShown(d) \/ WrapsCleared(d)
  BY <1>3, <1>9 DEF KeyShown, RecordLoaded, WrapStored, KeyAccepted, RotationShown,
     WrapsCleared, KeyOps
<1>10. CASE ResetFinished(d)
  BY <1>3, <1>10 DEF ResetFinished, Bare
<1>11. QED BY <1>5, <1>6, <1>7, <1>8, <1>9, <1>10, StepKinds

\* Every key on a screen, in an await or in a wrap is the one in force, but for
\* the moment in which a reset has replaced it and not yet cleared the wraps.
LEMMA GateStep ==
  ASSUME TrustType, DevicesSound, Unasked, SourceInv, GateInv,
         NEW d \in Devices, Keyed(d) \/ Emoji(d)
  PROVE  GateInv'
<1>1. /\ env' = env
      /\ \A e \in Devices \ {d} : dev'[e] = dev[e]
      /\ dev[d] \in Device /\ Sound(dev[d]) /\ Sound(dev'[d])
      /\ ssss \in Int /\ keys \in Nat
  BY Here, StepKinds, TypeStep DEF Settled, NewKey, KeyShown, KeyConfirmed, PasskeyMade,
     RecordLoaded, WrapStored, KeyEntered, KeyAccepted, RotationShown, WrapsCleared,
     ResetFinished, Moved, TrustType
<1>2. SUFFICES ASSUME Faults \cap {"closing", "rotation", "stale", "load"} = {}
      PROVE  /\ \A e \in Devices : InForce(dev[e])'
             /\ \A e \in Devices : dev'[e].op.kind = "clear" => Fresh(e)'
             /\ (\A e \in Devices : dev'[e].op.kind # "clear") =>
                  \A c \in Creds : wraps'[c] # None => wraps'[c] = ssss'
  BY <1>1 DEF GateInv, Faults
<1>3. ~May("closing") /\ ~May("rotation") /\ ~May("stale") /\ ~May("load")
  BY <1>2 DEF May
<1>4. /\ \A e \in Devices : InForce(dev[e])
      /\ \A e \in Devices : dev[e].op.kind = "clear" => Fresh(e)
      /\ (\A e \in Devices : dev[e].op.kind # "clear") =>
           \A c \in Creds : wraps[c] # None => wraps[c] = ssss
  BY <1>2 DEF GateInv
<1> DEFINE D == dev[d]
           E == dev'[d]
<1>5. /\ \A x \in BareOps : x \notin KeyOps
      /\ "none" \notin KeyOps /\ "clear" \in KeyOps /\ "enrol" \in KeyOps /\ "show" \in KeyOps
      /\ "rotated" \in KeyOps /\ "register" \in KeyOps /\ "recovered" \in KeyOps
  BY DEF BareOps, KeyOps
<1>6. /\ D.prompt.key # None => D.prompt.key = ssss
      /\ D.op.kind \in KeyOps => D.op.key = ssss
      /\ D.op.kind = "enrol" => \A c \in Creds : D.op.rec[c] # None => D.op.rec[c] = ssss
      /\ D.op.key # None <=> D.op.kind \in KeyOps
      /\ D.prompt.key # None <=> D.prompt.kind \in {"save", "speedup"}
  BY <1>1, <1>4 DEF InForce, Sound
<1>7. ASSUME NewKey(d) PROVE \A e \in Devices \ {d} : Bare(dev[e])
  <2>1. TAKE e \in Devices \ {d}
  <2>2. CASE ssss = None
    <3>1. InForce(dev[e]) /\ Sound(dev[e])
      BY <1>4 DEF DevicesSound
    <3>2. QED BY <2>2, <3>1 DEF InForce, Sound, Bare
  <2>3. CASE ~CarriesKey(e)
    BY <2>3 DEF CarriesKey, Bare, KeyOps
  <2>4. QED BY <1>3, <1>7, <2>2, <2>3 DEF NewKey
<1>8. \A e \in Devices : InForce(dev[e])'
  <2>1. CASE NewKey(d)
    <3>1. \A e \in Devices \ {d} : InForce(dev[e])'
      BY <1>1, <1>5, <1>7, <2>1 DEF Bare, InForce
    <3>2. /\ D.op.kind \in BareOps /\ E.prompt = D.prompt /\ E.op.key = ssss'
          /\ E.op.kind # "enrol"
          /\ \/ ssss = None
             \/ D.prompt.key = None
      BY <1>3, <2>1 DEF NewKey
    <3>3. InForce(dev[d])'
      BY <1>6, <3>2 DEF InForce
    <3>4. QED BY <3>1, <3>3
  <2>2. CASE ~NewKey(d)
    <3>1. ssss' = ssss
      BY <2>2, StepKinds DEF Settled, KeyShown, KeyConfirmed, PasskeyMade,
         RecordLoaded, WrapStored, KeyEntered, KeyAccepted, RotationShown, WrapsCleared,
         ResetFinished
    <3>2. \A e \in Devices \ {d} : InForce(dev[e])'
      BY <1>1, <1>4, <3>1 DEF InForce
    <3>3. /\ E.prompt.key # None => E.prompt.key = ssss
          /\ E.op.kind \in KeyOps => E.op.key = ssss
          /\ E.op.kind = "enrol" => \A c \in Creds : E.op.rec[c] # None => E.op.rec[c] = ssss
      <4>1. CASE Settled(d)
        <5>1. /\ E.prompt = D.prompt \/ E.prompt.key = None
              /\ E.op = D.op \/ E.op.kind \in BareOps
          BY <4>1 DEF Settled, Quiet
        <5> HIDE DEF D, E
        <5>2. QED BY <1>5, <1>6, <5>1
      <4>2. CASE KeyShown(d) \/ KeyConfirmed(d) \/ PasskeyMade(d) \/ KeyEntered(d)
        <5>1. /\ \/ E.prompt.key \in {None, D.prompt.key}
                 \/ D.op.kind = "show" /\ E.prompt.key = D.op.key
              /\ \/ E.op = D.op \/ E.op.kind = "none"
                 \/ E.op.kind = "register" /\ D.prompt.kind = "speedup"
                      /\ E.op.key = D.prompt.key
                 \/ E.op.kind = "recovered" /\ E.op.key = ssss
          BY <4>2 DEF KeyShown, KeyConfirmed, PasskeyMade, KeyEntered
        <5> HIDE DEF D, E
        <5>2. QED BY <1>5, <1>6, <5>1
      <4>3. CASE RecordLoaded(d)
        <5>1. /\ D.op.kind = "register" /\ E.op.key = D.op.key /\ E.op.rec = wraps
              /\ E.prompt = D.prompt
          BY <1>3, <4>3 DEF RecordLoaded
        <5>2. \A e \in Devices : dev[e].op.kind # "clear"
          <6>1. SUFFICES ASSUME NEW e \in Devices, dev[e].op.kind = "clear" PROVE FALSE
            OBVIOUS
          <6>2. Bare(D)
            BY <1>4, <5>1, <6>1 DEF Fresh
          <6>3. QED BY <1>5, <5>1, <6>2 DEF Bare
        <5> HIDE DEF D, E
        <5>3. QED BY <1>4, <1>5, <1>6, <5>1, <5>2
      <4>4. CASE WrapStored(d) \/ KeyAccepted(d) \/ RotationShown(d) \/ WrapsCleared(d)
                 \/ ResetFinished(d)
        BY <1>5, <1>6, <4>4 DEF WrapStored, KeyAccepted, RotationShown, WrapsCleared,
           ResetFinished
      <4>5. QED BY <2>2, <4>1, <4>2, <4>3, <4>4, StepKinds
    <3>4. QED BY <3>1, <3>2, <3>3 DEF InForce
  <2>3. QED BY <2>1, <2>2
<1>9. ASSUME NEW a \in Devices, dev'[a].op.kind = "clear"
      PROVE  Fresh(a)'
  <2>1. CASE NewKey(d)
    <3>1. a = d
      BY <1>1, <1>5, <1>7, <1>9, <2>1 DEF Bare
    <3>2. /\ ssss' = keys + 1 /\ UNCHANGED <<wraps, held>> /\ E.shown = D.shown
      BY <2>1 DEF NewKey
    <3>3. /\ \A k \in held : k <= keys
          /\ \A c \in Creds : wraps[c] <= keys
          /\ \A e \in Devices : dev[e].shown <= keys
      BY DEF SourceInv, Sourced
    <3>4. /\ held \subseteq Int /\ \A c \in Creds : wraps[c] \in Int
          /\ \A e \in Devices : dev[e].shown \in Int
      BY DeviceParts DEF TrustType, Record
    <3>5. \A e \in Devices : dev'[e].shown = dev[e].shown
      BY <1>1, <3>2
    <3>6. /\ ssss' > 0 /\ ssss' \notin held' /\ \A c \in Creds : wraps'[c] # ssss'
          /\ \A e \in Devices : dev'[e].shown # ssss'
      BY <1>1, <3>2, <3>3, <3>4, <3>5
    <3>7. \A e \in Devices : e # d => Bare(dev[e])'
      BY <1>1, <1>7, <2>1 DEF Bare
    <3>8. QED BY <3>1, <3>6, <3>7 DEF Fresh
  <2>2. CASE ~NewKey(d) /\ a = d
    <3>1. Settled(d) /\ E.op = D.op
      <4>1. CASE Settled(d)
        BY <1>5, <1>9, <2>2, <4>1 DEF Settled, Quiet
      <4>2. CASE KeyConfirmed(d) \/ ResetFinished(d)
        <5>1. D.op.kind = "clear"
          BY <1>9, <2>2, <4>2 DEF KeyConfirmed, ResetFinished
        <5>2. D.prompt.key = None
          BY <1>1, <5>1 DEF Sound
        <5>3. QED BY <4>2, <5>1, <5>2 DEF KeyConfirmed, ResetFinished
      <4>3. QED
        BY <1>9, <2>2, <4>1, <4>2, StepKinds DEF KeyShown, PasskeyMade, RecordLoaded,
           WrapStored, KeyEntered, KeyAccepted, RotationShown, WrapsCleared
    <3>2. Fresh(d) /\ UNCHANGED <<ssss, wraps>> /\ (E.shown = D.shown \/ E.shown = None)
      BY <1>4, <1>9, <2>2, <3>1 DEF Settled, Quiet
    <3>3. \A k \in held' : k \in held \/ k <= None
      BY <3>1 DEF Settled
    <3>4. ssss' > 0 /\ ssss' \notin held' /\ E.shown # ssss'
      BY <1>1, <3>2, <3>3 DEF Fresh, None
    <3>5. QED BY <1>1, <2>2, <3>2, <3>4 DEF Fresh, Bare
  <2>3. CASE ~NewKey(d) /\ a # d
    <3>1. dev[a].op.kind = "clear" /\ Fresh(a)
      BY <1>1, <1>4, <1>9, <2>3
    <3>2. /\ Bare(dev'[d]) /\ UNCHANGED <<ssss, wraps>>
          /\ E.shown \in {None, D.shown}
          /\ \A k \in held' : k \in held \/ k <= None \/ k = D.shown
      BY <1>3, <2>3, <3>1, BareStep
    <3>3. ssss' > 0 /\ ssss' \notin held' /\ E.shown # ssss'
      BY <1>1, <3>1, <3>2 DEF Fresh, None
    <3>4. QED BY <1>1, <3>1, <3>2, <3>3 DEF Fresh, Bare
  <2>4. QED BY <2>1, <2>2, <2>3
<1>10. ASSUME \A e \in Devices : dev'[e].op.kind # "clear"
       PROVE  \A c \in Creds : wraps'[c] # None => wraps'[c] = ssss'
  <2>1. CASE WrapsCleared(d)
    BY <1>3, <2>1, EmptyFacts DEF WrapsCleared
  <2>2. CASE ~WrapsCleared(d)
    <3>1. D.op.kind # "clear"
      <4>1. SUFFICES ASSUME D.op.kind = "clear" PROVE FALSE
        OBVIOUS
      <4>2. E.op.kind # "clear"
        BY <1>10
      <4>3. ~Settled(d)
        BY <1>3, <1>5, <4>1, <4>2 DEF Settled, Quiet
      <4>4. ~NewKey(d)
        BY <1>5, <4>1 DEF NewKey
      <4>5. QED
        BY <2>2, <4>1, <4>2, <4>3, <4>4, StepKinds DEF KeyShown, KeyConfirmed, PasskeyMade,
           RecordLoaded, WrapStored, KeyEntered, KeyAccepted, RotationShown, ResetFinished
    <3>2. \A c \in Creds : wraps[c] # None => wraps[c] = ssss
      BY <1>1, <1>4, <1>10, <3>1
    <3>3. CASE NewKey(d)
      <4>1. ssss = None /\ wraps' = wraps
        BY <1>3, <1>10, <3>3 DEF NewKey
      <4>2. QED BY <3>2, <4>1
    <3>4. CASE WrapStored(d)
      <4>1. /\ D.op.kind = "enrol" /\ ssss' = ssss
            /\ \A c \in Creds : wraps'[c] \in {D.op.key, D.op.rec[c]}
        BY <3>4 DEF WrapStored
      <4> HIDE DEF D
      <4>2. QED BY <1>5, <1>6, <4>1
    <3>5. QED
      BY <2>2, <3>2, <3>3, <3>4, StepKinds DEF Settled, KeyShown, KeyConfirmed, PasskeyMade,
         RecordLoaded, KeyEntered, KeyAccepted, RotationShown, ResetFinished
  <2>3. QED BY <2>1, <2>2
<1>11. QED BY <1>8, <1>9, <1>10

-----------------------------------------------------------------------------
(* The theorems. *)

\* All of it together is inductive.
TrustInv ==
  /\ TrustType /\ DevicesSound /\ Unasked
  /\ SourceInv /\ EnrolInv /\ GateInv /\ HeldKeyOpens

\* Before anybody signs in, no device holds anything.
LEMMA TrustInit == Init => TrustInv
<1>1. SUFFICES ASSUME Init PROVE TrustInv
  OBVIOUS
<1> DEFINE B == Blank(NoEntry, FALSE)
<1>2. /\ B \in Device /\ B.ms = FALSE /\ B.prompt = NoPrompt /\ B.op = NoOp /\ B.reset = "no"
      /\ B.shown = None
  BY EmptyFacts, BlankFacts
<1>3. dev = [d \in Devices |-> B]
  BY <1>1 DEF Init
<1> HIDE DEF B
<1>4. /\ dev \in [Devices -> Device]
      /\ \A d \in Devices : /\ dev[d].ms = FALSE /\ dev[d].prompt.key = None
                            /\ dev[d].prompt.kind = "none" /\ dev[d].op.kind = "none"
                            /\ dev[d].op.key = None /\ dev[d].reset = "no"
                            /\ dev[d].shown = None
  BY <1>2, <1>3, EmptyFacts
<1>5. ssss \in Int /\ ssss <= None /\ keys = None /\ held = {} /\ creds \in 0..MaxCred
  BY <1>1, DeviceTrustAssumption DEF Init, Prf, None
<1>6. wraps \in Record /\ \A c \in Creds : wraps[c] = None
  BY <1>1, EmptyFacts DEF Init
<1>7. "none" \notin KeyOps
  BY DEF KeyOps
<1>8. TrustType
  <2>1. env \in Envs /\ keys \in Nat /\ held \subseteq Int
    BY <1>1, <1>5 DEF Init, None
  <2>2. QED BY <1>4, <1>5, <1>6, <2>1 DEF TrustType
<1>9. DevicesSound
  BY <1>4, <1>7 DEF DevicesSound, Sound
<1>10. Unasked
  BY <1>1 DEF Unasked, Init
<1>11. SourceInv
  BY <1>4, <1>5, <1>6 DEF SourceInv, Sourced, Given, None
<1>12. EnrolInv
  BY <1>4 DEF EnrolInv, Enrolling
<1>13. GateInv
  BY <1>4, <1>6, <1>7 DEF GateInv, InForce
<1>14. HeldKeyOpens
  BY <1>5 DEF HeldKeyOpens, None
<1>15. QED BY <1>8, <1>9, <1>10, <1>11, <1>12, <1>13, <1>14 DEF TrustInv

\* Every step keeps it.
LEMMA TrustStep == TrustInv /\ [Next]_vars => TrustInv'
<1>1. SUFFICES ASSUME TrustInv, [Next]_vars PROVE TrustInv'
  OBVIOUS
<1>2. CASE UNCHANGED vars
  BY <1>1, <1>2 DEF vars, TrustInv, TrustType, DevicesSound, Unasked, SourceInv, EnrolInv, GateInv,
     HeldKeyOpens, Sound, Sourced, Given, Enrolling, InForce, Fresh, Bare, May, Faults
<1>3. CASE Next
  <2>1. PICK d \in Devices : Keyed(d) \/ Emoji(d)
    BY <1>3 DEF Next
  <2>2. /\ TrustType /\ DevicesSound /\ Unasked
        /\ SourceInv /\ EnrolInv /\ GateInv /\ HeldKeyOpens
    BY <1>1 DEF TrustInv
  <2>3. TrustType' /\ DevicesSound' /\ env' = env
    BY <2>1, <2>2, TypeStep
  <2>4. Unasked'
    BY <2>1, <2>2, <2>3, UnaskedStep
  <2>5. SourceInv' /\ EnrolInv' /\ GateInv' /\ HeldKeyOpens'
    BY <2>1, <2>2, SourceStep, EnrolStep, GateStep, HeldStep
  <2>6. QED BY <2>3, <2>4, <2>5 DEF TrustInv
<1>4. QED BY <1>1, <1>2, <1>3

\* At every moment each device holds only the keys its screen or its await
\* accounts for, every key came from the user, a passkey or a generator, and the
\* guarantees below hold.
THEOREM TrustConsistent == Spec => []TrustInv
<1>1. Init => TrustInv
  BY TrustInit
<1>2. TrustInv /\ [Next]_vars => TrustInv'
  BY TrustStep
<1>3. QED BY <1>1, <1>2, PTL DEF Spec

\* No interleaving of set-ups, retries, reloads, rotations and resets on any
\* number of devices puts a recovery key in force that the user neither holds nor
\* is still being shown (confirmKeySaved, resetAccount).
THEOREM HeldOpens == Spec => []HeldKeyOpens
<1>1. TrustInv => HeldKeyOpens
  BY DEF TrustInv
<1>2. QED BY <1>1, TrustConsistent, PTL

\* Every wrap a device at the verify gate can load holds the key in force, however
\* many passkeys were enrolled and accounts reset before (unlockWithPasskey).
THEOREM PasskeysOpen == Spec => []OfferedPasskeyOpens
<1>1. TrustInv => OfferedPasskeyOpens
  BY DEF TrustInv, GateInv, OfferedPasskeyOpens, Opens
<1>2. QED BY <1>1, TrustConsistent, PTL

\* A wrap leaves the record only by a reset, however many devices enrol passkeys
\* (addPasskeySpeedup).
THEOREM EnrolmentsStay == Spec => EnrolmentsKept
<1> DEFINE Kept == Faults \cap {"overlap", "load"} = {} =>
             \A c \in Creds : wraps[c] # None /\ wraps'[c] = None =>
               \E d \in Devices : dev[d].op.kind = "clear"
<1>1. TrustInv /\ [Next]_vars => [Kept]_vars
  <2>1. SUFFICES ASSUME TrustInv, Next, Faults \cap {"overlap", "load"} = {},
                        NEW c \in Creds, wraps[c] # None, wraps'[c] = None
                 PROVE  \E d \in Devices : dev[d].op.kind = "clear"
    OBVIOUS
  <2>2. PICK d \in Devices : Keyed(d) \/ Emoji(d)
    BY <2>1 DEF Next
  <2>3. TrustType /\ DevicesSound /\ Unasked /\ EnrolInv
    BY <2>1 DEF TrustInv
  <2>4. ~WrapStored(d)
    BY <2>1, <2>3 DEF WrapStored, EnrolInv
  <2>5. WrapsCleared(d)
    BY <2>1, <2>2, <2>3, <2>4, StepKinds DEF Settled, NewKey, KeyShown, KeyConfirmed,
       PasskeyMade, RecordLoaded, KeyEntered, KeyAccepted, RotationShown, ResetFinished
  <2>6. QED BY <2>5 DEF WrapsCleared
<1>2. QED BY <1>1, TrustConsistent, PTL DEF Spec, EnrolmentsKept
=============================================================================
