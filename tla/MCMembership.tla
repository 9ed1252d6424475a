---------------------------- MODULE MCMembership ----------------------------
(* Membership for TLC: a creator, a second person and a third. *)
EXTENDS Membership

CONSTANTS ann, bob, cat

Env(members, managers, most, limit, accounts, faults) ==
  [members |-> members \cup {<<ann, "admin">>}, managers |-> managers, acts |-> most,
   limit |-> limit, accounts |-> accounts, faults |-> faults]

\* People come and go by invitation and by role; cat starts outside.
Managed(second, managers, most, faults) ==
  Env({<<bob, second>>}, managers, most, 0, {cat}, faults)

\* Two knock on a link; the admin stays.
Linked(limit, accounts, faults) == Env({}, {}, 0, limit, accounts, faults \cup {"link"})

PassingEnvs ==
  {Managed("editor", {ann}, 3, {"direct"}), Managed("admin", {ann, bob}, 4, {}),
   Managed("editor", {ann}, 2, {"delete", "refused", "direct"}),
   Managed("viewer", {ann}, 2, {"decline", "direct"}),
   Managed("viewer", {ann}, 1, {"decline", "direct", "wander"}),
   Managed("admin", {ann, bob}, 2, {"hasty"}),
   Linked(0, {ann, bob}, {}), Linked(0, {ann}, {"no_storage"}), Linked(1, {ann}, {"closing"}),
   Linked(1, Users, {"expire", "refused"}),
   Env({<<bob, "editor">>}, {}, 0, 0, {}, {"link", "refollow"}),
   Env({<<bob, "editor">>}, {}, 0, 0, {}, {"link", "revoke", "hasty"})}

LimitEnvs == {Linked(1, Users, {"hasty"})}
=============================================================================
