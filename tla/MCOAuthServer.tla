--------------------------- MODULE MCOAuthServer ---------------------------
(***************************************************************************)
(* Small instances of OAuthServer.                                         *)
(***************************************************************************)
EXTENDS OAuthServer, TLC

CONSTANTS u1, u2, c1, c2

MCConfig(users, stored, code, first, maxEvents) ==
    [users |-> users, stored |-> stored, code |-> code, first |-> first, reuse |-> FALSE,
     timebox |-> FALSE, features |-> {}, maxEvents |-> maxEvents]

\* A client with a row and its administrators; a client that refreshes its
\* sessions, with and without a reuse interval; two users and two clients
\* the resolver answers for, one of them the operator's own.
MCConfigs ==
    {[MCConfig({u1}, {c1}, {}, {}, 8) EXCEPT !.features = {"admin"}],
     [MCConfig({u1}, {c1}, {}, {}, 8) EXCEPT !.features = {"refresh", "accounts"}, !.timebox = TRUE],
     [MCConfig({u1}, {}, {c1}, {}, 8) EXCEPT !.features = {"refresh"}, !.reuse = TRUE],
     MCConfig({u1, u2}, {}, {c1, c2}, {c2}, 7)}

Symmetry == UNION {Permutations(S) : S \in {Scopes, Authorizations, Sessions, Requests}}
=============================================================================
