--------------------------- MODULE MCDeviceTrust ---------------------------
(* DeviceTrust for TLC: two devices, two recovery keys, two passkeys. *)
EXTENDS DeviceTrust

Calm(oauth, legacy, passkeys) ==
  [oauth |-> oauth, legacy |-> legacy, passkeys |-> passkeys, faults |-> {}]
With(e, faults) == [e EXCEPT !.faults = faults]

\* Calm surroundings of every kind; mishaps one or two at a time.
PassingEnvs ==
  {Calm(o, l, p) : o \in BOOLEAN, l \in BOOLEAN, p \in BOOLEAN}
    \cup {With(Calm(FALSE, FALSE, TRUE), f) :
            f \in {{"closing", "rotation"}, {"load"}, {"overlap"}, {"stale"}, {"device_key"}}}
    \cup {With(Calm(TRUE, FALSE, FALSE), {"request"}),
          With(Calm(FALSE, FALSE, FALSE), {"request", "cancel"})}

\* A first device that sets up a passkey; nothing goes wrong.
RevealEnvs == {Calm(FALSE, FALSE, TRUE)}
=============================================================================
