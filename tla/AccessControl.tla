---------------------------- MODULE AccessControl ----------------------------
(***************************************************************************)
(* The management plane's access control (internal/iam, api/security.go,   *)
(* api/iam.go): roles are sets of permissions, actors hold roles by        *)
(* assignments, API keys carry scopes, and whoever administers them may    *)
(* hand out only what it holds itself (grantCeiling).                      *)
(*                                                                         *)
(* Nothing here runs in a transaction: a request is let in by the guard,   *)
(* reads what it is about, asks for the ceiling and writes, each in a step *)
(* of its own.  A request that is refused changes nothing, and one that    *)
(* names what is not there, or is there already, when it begins is left    *)
(* out.  The reads of the ceiling's loop are one step, and so are the      *)
(* reads of what never changes (a role's builtin flag, a permission's      *)
(* being known) and the write after them.                                  *)
(***************************************************************************)
EXTENDS Naturals, Sequences

CONSTANTS
    Users, Keys, Service,   \* actors: accounts, API keys, the service_role token
    Builtin, Custom,        \* roles
    Permissions,            \* every permission name, the two below among them
    RolesManage, KeysManage,
    OwnerOnlyPermissions,
    Registered,             \* the permissions there from the start
    BuiltinRoles,           \* [Builtin -> SUBSET Registered]
    Seeded,                 \* the assignments there from the start: <<[actor, role], ...>>
    Bundles,                \* the sets of permissions that requests name
    Callers,                \* the actors that make requests
    Requests, None,
    MaxAssignments, MaxEvents   \* bounds

Roles == Builtin \cup Custom
Actors == Users \cup Keys

ASSUME AccessAssumption ==
    /\ {RolesManage, KeysManage} \cup OwnerOnlyPermissions \cup Registered \subseteq Permissions
    /\ BuiltinRoles \in [Builtin -> SUBSET Registered]
    /\ Seeded \in Seq([actor : Users, role : Builtin])
    /\ \A i, j \in DOMAIN Seeded : Seeded[i] = Seeded[j] => i = j
    /\ Bundles \subseteq SUBSET Permissions
    /\ Builtin \cap Custom = {} /\ Users \cap Keys = {} /\ Service \notin Actors
    /\ Callers \subseteq Actors \cup {Service}
    /\ None \notin Actors \cup Roles
    /\ MaxAssignments \in Nat /\ MaxEvents \in Nat

VARIABLES
    permissions,    \* dilion_authz.permissions
    role,           \* dilion_authz.roles: what each grants, {} when there is no such role
    assignment,     \* dilion_authz.role_assignments, by id
    key,            \* dilion_authz.api_keys
    deleted,        \* accounts that are gone
    req,            \* where each request stands
    events,
    vouched         \* per role, the permissions its last writer held

vars == <<permissions, role, assignment, key, deleted, req, events, vouched>>

Idle == [pc |-> "idle", op |-> None, by |-> None, role |-> None, actor |-> None, id |-> 0,
         perms |-> {}, read |-> {}, held |-> {}, active |-> FALSE]
Goto(r, pc) == req' = [req EXCEPT ![r].pc = pc]
Finish(r) == req' = [req EXCEPT ![r] = Idle]

-----------------------------------------------------------------------------
(***************************************************************************)
(* Who holds what.                                                         *)
(***************************************************************************)

LiveAssignments == {i \in DOMAIN assignment : assignment[i].live}
RolesOf(a) == {assignment[i].role : i \in {j \in LiveAssignments : assignment[j].actor = a}}
HeldByRole(a) == UNION {role[r] : r \in RolesOf(a)}

\* A key a user issued holds nothing its creator no longer does.
HeldByKey(k) ==
    IF key[k].st # "live" THEN {}
    ELSE IF key[k].by \in Users THEN key[k].scopes \cap HeldByRole(key[k].by) ELSE key[k].scopes

\* Can, together with scopesAllow: what the actor's request may do.
Held(a) ==
    IF a = Service THEN Permissions
    ELSE IF a \in Keys THEN key[a].scopes \cap (HeldByRole(a) \cup HeldByKey(a))
    ELSE HeldByRole(a)

\* VerifyKey, or an access token whose account is still there; the second
\* factor of its session is module SecondFactors'.
Authenticated(a) ==
    \/ a = Service
    \/ a \in Users \ deleted
    \/ a \in Keys /\ key[a].st = "live"

-----------------------------------------------------------------------------
(***************************************************************************)
(* A request gets past the guard.                                          *)
(***************************************************************************)

Allowed(a, permission) == Authenticated(a) /\ permission \in Held(a)

\* guard.handle, then the handler.
Begin(r, by, permission, q) ==
    /\ events' = events + 1
    /\ Allowed(by, permission)
    /\ req' = [req EXCEPT ![r] = [q EXCEPT !.by = by]]
    /\ UNCHANGED <<permissions, role, assignment, key, deleted, vouched>>

\* createRole and createApiKey ask for the ceiling at once.
CreateRole(r, by, n, perms) ==
    /\ role[n] = {}
    /\ Begin(r, by, RolesManage, [Idle EXCEPT !.pc = "ceiling", !.op = "createRole", !.role = n, !.perms = perms])

CreateKey(r, by, k, scopes) ==
    /\ by \notin Keys /\ key[k].st = "none"
    /\ Begin(r, by, KeysManage, [Idle EXCEPT !.pc = "ceiling", !.op = "createKey", !.actor = k, !.perms = scopes])

\* The others read the role, the assignment or the key they name first.
UpdateRole(r, by, n, perms) ==
    /\ role[n] \notin {{}, perms}
    /\ Begin(r, by, RolesManage, [Idle EXCEPT !.pc = "read", !.op = "updateRole", !.role = n, !.perms = perms])

CreateAssignment(r, by, n, a) ==
    /\ role[n] # {}
    /\ Begin(r, by, RolesManage, [Idle EXCEPT !.pc = "read", !.op = "grant", !.role = n, !.actor = a])

RevokeAssignment(r, by, i) ==
    /\ assignment[i].live
    /\ Begin(r, by, RolesManage, [Idle EXCEPT !.pc = "read", !.op = "revoke", !.id = i,
                                              !.role = assignment[i].role])

RevokeKey(r, by, k) ==
    /\ key[k].st = "live"
    /\ Begin(r, by, KeysManage, [Idle EXCEPT !.pc = "read", !.op = "revokeKey", !.actor = k])

\* CreatePermission: on conflict do nothing.
CreatePermission(by, p) ==
    /\ events < MaxEvents /\ events' = events + 1
    /\ Allowed(by, RolesManage)
    /\ p \notin permissions
    /\ permissions' = permissions \cup {p}
    /\ UNCHANGED <<role, assignment, key, deleted, req, vouched>>

-----------------------------------------------------------------------------
(***************************************************************************)
(* The handlers.                                                           *)
(***************************************************************************)

\* GetRole, or GetAssignment and then the role it is of, or GetKey.
Read(r) ==
    /\ req[r].pc = "read"
    /\ LET cur == IF req[r].op = "revokeKey" THEN key[req[r].actor].scopes ELSE role[req[r].role]
       IN  req' = [req EXCEPT ![r] = IF cur = {} THEN Idle ELSE [@ EXCEPT !.pc = "ceiling", !.read = cur]]
    /\ UNCHANGED <<permissions, role, assignment, key, deleted, events, vouched>>

\* Variants named Mut... are plausible slips of the code; each breaks a property.
MutAskedOfNew(r) == IF req[r].op = "updateRole" THEN req[r].read ELSE req[r].read \cup req[r].perms

\* What the caller must hold: what it adds and, as removing a permission
\* changes what the holders can do as much, what is there.
Asked(r) == req[r].read \cup req[r].perms

\* grantCeiling; a request it lets through remembers who asked only for the
\* creator of a key.
GrantCeiling(r) ==
    /\ req[r].pc = "ceiling"
    /\ LET held == Held(req[r].by)
           op == req[r].op
       IN  req' = [req EXCEPT ![r] = IF Asked(r) \subseteq held
                                     THEN [@ EXCEPT !.pc = IF op = "grant" THEN "check" ELSE "write",
                                                    !.by = IF op = "createKey" THEN req[r].by ELSE None,
                                                    !.held = held \cap (req[r].read \cup req[r].perms),
                                                    !.read = {}]
                                     ELSE Idle]
    /\ UNCHANGED <<permissions, role, assignment, key, deleted, events, vouched>>

HoldsAlready(n, a) == \E i \in LiveAssignments : assignment[i].role = n /\ assignment[i].actor = a

MutAlreadyActiveNever(r) == FALSE

\* GrantRole: an active assignment of the pair is a conflict.
AlreadyActive(r) == HoldsAlready(req[r].role, req[r].actor)

CheckAssignment(r) ==
    /\ req[r].pc = "check"
    /\ req' = [req EXCEPT ![r] = IF AlreadyActive(r) THEN Idle
                                 ELSE [@ EXCEPT !.pc = "write", !.active = HoldsAlready(req[r].role, req[r].actor)]]
    /\ UNCHANGED <<permissions, role, assignment, key, deleted, events, vouched>>

\* rolePermissions, and the same of a key's scopes.
Grantable(perms) == perms # {} /\ perms \cap OwnerOnlyPermissions = {} /\ perms \subseteq permissions

\* The role is inserted, unless its name is taken, or replaced, unless it is
\* builtin.
WriteRole(r) ==
    LET n == req[r].role
    IN  /\ req[r].pc = "write" /\ req[r].op \in {"createRole", "updateRole"}
        /\ IF /\ Grantable(req[r].perms) /\ n \in Custom
              /\ req[r].op = "createRole" => role[n] = {}
           THEN /\ role' = [role EXCEPT ![n] = req[r].perms]
                /\ vouched' = [vouched EXCEPT ![n] = req[r].held]
           ELSE UNCHANGED <<role, vouched>>
        /\ Finish(r)
        /\ UNCHANGED <<permissions, assignment, key, deleted, events>>

\* The assignment is inserted; no index keeps a second one of the pair out.
InsertAssignment(r) ==
    /\ req[r].pc = "write" /\ req[r].op = "grant"
    /\ Len(assignment) < MaxAssignments
    /\ assignment' = Append(assignment, [actor |-> req[r].actor, role |-> req[r].role, live |-> TRUE,
                                         vouched |-> req[r].held,
                                         raced |-> HoldsAlready(req[r].role, req[r].actor) /\ ~req[r].active])
    /\ Finish(r)
    /\ UNCHANGED <<permissions, role, key, deleted, events, vouched>>

\* revoked_at is set once.
EndAssignment(r) ==
    /\ req[r].pc = "write" /\ req[r].op = "revoke"
    /\ assignment' = [assignment EXCEPT ![req[r].id].live = FALSE]
    /\ Finish(r)
    /\ UNCHANGED <<permissions, role, key, deleted, events, vouched>>

\* createKey: the id is new.
InsertKey(r) ==
    LET k == req[r].actor
    IN  /\ req[r].pc = "write" /\ req[r].op = "createKey"
        /\ key' = IF Grantable(req[r].perms) /\ key[k].st = "none"
                  THEN [key EXCEPT ![k] = [st |-> "live", scopes |-> req[r].perms, by |-> req[r].by,
                                           vouched |-> req[r].held]]
                  ELSE key
        /\ Finish(r)
        /\ UNCHANGED <<permissions, role, assignment, deleted, events, vouched>>

EndKey(r) ==
    /\ req[r].pc = "write" /\ req[r].op = "revokeKey"
    /\ key' = [key EXCEPT ![req[r].actor].st = "revoked"]
    /\ Finish(r)
    /\ UNCHANGED <<permissions, role, assignment, deleted, events, vouched>>

\* A key's time is up; VerifyKey and Can refuse it from then on.
KeyExpires(k) ==
    /\ events < MaxEvents /\ events' = events + 1
    /\ key[k].st = "live"
    /\ key' = [key EXCEPT ![k].st = "expired"]
    /\ UNCHANGED <<permissions, role, assignment, deleted, req, vouched>>

\* revokeUserRoleAssignments, in the transaction that deletes the account.
DeleteUser(u) ==
    /\ events < MaxEvents /\ events' = events + 1
    /\ u \notin deleted
    /\ deleted' = deleted \cup {u}
    /\ assignment' = [i \in DOMAIN assignment |->
                        IF assignment[i].actor = u THEN [assignment[i] EXCEPT !.live = FALSE] ELSE assignment[i]]
    /\ UNCHANGED <<permissions, role, key, req, vouched>>

-----------------------------------------------------------------------------
\* The builtin roles are there, and the first assignments were made by hand.
Init ==
    /\ permissions = Registered
    /\ role = [n \in Roles |-> IF n \in Builtin THEN BuiltinRoles[n] ELSE {}]
    /\ assignment = [i \in DOMAIN Seeded |-> [actor |-> Seeded[i].actor, role |-> Seeded[i].role, live |-> TRUE,
                                              vouched |-> BuiltinRoles[Seeded[i].role], raced |-> FALSE]]
    /\ key = [k \in Keys |-> [st |-> "none", scopes |-> {}, by |-> None, vouched |-> {}]]
    /\ deleted = {}
    /\ req = [r \in Requests |-> Idle]
    /\ events = 0
    /\ vouched = [n \in Roles |-> {}]

RequestBegins(r) ==
    /\ events < MaxEvents /\ req[r].pc = "idle"
    /\ \E by \in Callers :
         \/ \E n \in Custom, perms \in Bundles : CreateRole(r, by, n, perms)
         \/ \E n \in Custom, perms \in Bundles : UpdateRole(r, by, n, perms)
         \/ \E n \in Roles, a \in Actors : CreateAssignment(r, by, n, a)
         \/ \E i \in DOMAIN assignment : RevokeAssignment(r, by, i)
         \/ \E k \in Keys, scopes \in Bundles : CreateKey(r, by, k, scopes)
         \/ \E k \in Keys : RevokeKey(r, by, k)

Next ==
    \/ \E r \in Requests :
        \/ RequestBegins(r)
        \/ Read(r) \/ GrantCeiling(r) \/ CheckAssignment(r)
        \/ WriteRole(r) \/ InsertAssignment(r) \/ EndAssignment(r) \/ InsertKey(r) \/ EndKey(r)
    \/ \E by \in Callers, p \in Permissions : CreatePermission(by, p)
    \/ \E k \in Keys : KeyExpires(k)
    \/ \E u \in Users : DeleteUser(u)

Spec == Init /\ [][Next]_vars

-----------------------------------------------------------------------------
(***************************************************************************)
(* Properties.                                                             *)
(***************************************************************************)

\* No way through the requests leads to a permission that nobody was entitled
\* to hand out: whatever an active assignment gives was held, when its ceiling
\* was checked, by whoever made the assignment or by whoever last wrote the
\* role, and so were the scopes of every key (grantCeiling: "without it, the
\* permission to administer grants was a way to every other permission").
\* This covers roles that are widened between the check and the assignment.
NoEscalation ==
    /\ \A i \in LiveAssignments :
        role[assignment[i].role] \subseteq assignment[i].vouched \cup vouched[assignment[i].role]
    /\ \A k \in Keys : key[k].scopes \subseteq key[k].vouched

\* "Re-granting an already active (actor, role) pair is a conflict": a pair has
\* two active assignments, of which revoking one takes nothing away, only when
\* one was inserted after the other's check and before its insert (GrantRole
\* checks and inserts in two statements).
UnambiguousUnlessRaced ==
    \A i, j \in LiveAssignments :
        /\ i < j
        /\ assignment[i].role = assignment[j].role
        /\ assignment[i].actor = assignment[j].actor
        => assignment[j].raced
=============================================================================
