--------------------------- MODULE MCAccessControl ---------------------------
(***************************************************************************)
(* A small instance of AccessControl: an owner, a security admin who       *)
(* administers roles and keys but does not hold what is the owner's, and a *)
(* user who holds nothing at first.                                        *)
(***************************************************************************)
EXTENDS AccessControl, TLC

CONSTANTS u1, u2, u3

MCBuiltinRoles == [n \in Builtin |-> IF n = "owner" THEN Registered ELSE {"roles.manage", "keys.manage"}]
MCSeeded == <<[actor |-> u1, role |-> "owner"], [actor |-> u2, role |-> "security-admin"]>>
MCBundles == {{"roles.manage", "keys.manage"}, {"roles.manage", "pii.reveal"}, {"app.use"}}

Symmetry == Permutations(Requests)
=============================================================================
