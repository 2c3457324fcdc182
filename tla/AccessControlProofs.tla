------------------------ MODULE AccessControlProofs ------------------------
(***************************************************************************)
(* Nobody hands out what they do not hold, and a pair is assigned twice    *)
(* only by a race, for any number of actors, roles, keys, permissions and  *)
(* requests.                                                               *)
(***************************************************************************)
EXTENDS AccessControl, SequenceTheorems, TLAPS

Assignments == [actor : Actors, role : Roles, live : BOOLEAN, vouched : SUBSET Permissions, raced : BOOLEAN]

KeyRows == [st : {"none", "live", "expired", "revoked"}, scopes : SUBSET Permissions,
            by : Users \cup {Service, None}, vouched : SUBSET Permissions]

Standings == [pc : {"idle", "read", "ceiling", "check", "write"},
              op : {None, "createRole", "updateRole", "createKey", "grant", "revoke", "revokeKey"},
              by : Actors \cup {Service, None}, role : Roles \cup {None}, actor : Actors \cup {None},
              id : Nat, perms : SUBSET Permissions, read : SUBSET Permissions,
              held : SUBSET Permissions, active : BOOLEAN]

\* What a request under way names, by its operation.
Named(q) ==
    \/ q.pc = "idle"
    \/ q.op \in {"createRole", "updateRole"} /\ q.role \in Custom
    \/ q.op = "createKey" /\ q.pc # "read" /\ q.actor \in Keys /\ q.by \notin Keys
    \/ q.op = "grant" /\ q.role \in Roles /\ q.actor \in Actors /\ q.perms = {}
    \/ q.op = "revoke" /\ q.role \in Roles
    \/ q.op = "revokeKey" /\ q.actor \in Keys

TypeOK ==
    /\ permissions \in SUBSET Permissions
    /\ role \in [Roles -> SUBSET Permissions]
    /\ assignment \in Seq(Assignments)
    /\ key \in [Keys -> KeyRows]
    /\ deleted \in SUBSET Users
    /\ req \in [Requests -> Standings]
    /\ \A r \in Requests : Named(req[r])
    /\ events \in Nat
    /\ vouched \in [Roles -> SUBSET Permissions]

\* What a request that got this far has been let through for.  The check of an
\* assignment was made against the role as it was read; what the role has been
\* given since is vouched for by whoever gave it.
Covered(q) ==
    /\ q.op = "grant" /\ q.pc = "ceiling" => role[q.role] \subseteq q.read \cup vouched[q.role]
    /\ q.op = "grant" /\ q.pc \in {"check", "write"} => role[q.role] \subseteq q.held \cup vouched[q.role]
    /\ q.op \in {"createRole", "updateRole", "createKey"} /\ q.pc = "write" => q.perms \subseteq q.held
    /\ q.pc = "check" => q.op = "grant"
    /\ q.active = FALSE

CeilingInv == \A r \in Requests : Covered(req[r])

-----------------------------------------------------------------------------
(***************************************************************************)
(* Types.                                                                  *)
(***************************************************************************)

\* What the changes of single fields leave of a row.
LEMMA AssignmentEnded ==
    ASSUME NEW a \in Assignments
    PROVE  LET b == [a EXCEPT !.live = FALSE]
           IN  b \in Assignments /\ ~b.live /\ b.actor = a.actor /\ b.role = a.role
               /\ b.vouched = a.vouched /\ b.raced = a.raced
BY DEF Assignments

LEMMA KeyEnded ==
    ASSUME NEW k \in KeyRows, NEW st \in {"expired", "revoked"}
    PROVE  LET l == [k EXCEPT !.st = st]
           IN  l \in KeyRows /\ l.scopes = k.scopes /\ l.vouched = k.vouched
BY DEF KeyRows

LEMMA IdleIsTyped == Idle \in Standings /\ Named(Idle)
BY DEF Idle, Standings, Named

\* Every step of a request leaves the others as they are.
LEMMA StandingTyped ==
    ASSUME TypeOK, NEW r \in Requests, NEW q \in Standings, Named(q), req' = [req EXCEPT ![r] = q]
    PROVE  req' \in [Requests -> Standings] /\ \A s \in Requests : Named(req'[s])
BY DEF TypeOK

LEMMA BeginTyped ==
    ASSUME TypeOK, NEW r \in Requests, NEW by \in Callers, NEW permission, NEW q \in Standings,
           Begin(r, by, permission, q), Named([q EXCEPT !.by = by])
    PROVE  TypeOK'
<1>1. [q EXCEPT !.by = by] \in Standings
  BY AccessAssumption DEF Standings
<1>2. req' = [req EXCEPT ![r] = [q EXCEPT !.by = by]] /\ events' \in Nat
      /\ UNCHANGED <<permissions, role, assignment, key, deleted, vouched>>
  BY DEF Begin, TypeOK
<1> HIDE DEF Begin, Standings, Named
<1>3. req' \in [Requests -> Standings] /\ \A s \in Requests : Named(req'[s])
  BY <1>1, <1>2, StandingTyped
<1> QED
  BY <1>2, <1>3 DEF TypeOK

(* Every variable keeps its type, and a request names what its operation is about. *)
THEOREM TypeCorrect == Spec => []TypeOK
<1> USE AccessAssumption DEF Roles, Actors
<1>1. Init => TypeOK
  <2> SUFFICES ASSUME Init PROVE TypeOK
    OBVIOUS
  <2>1. assignment \in Seq(Assignments)
    <3> DEFINE Pairs == [actor : Users, role : Builtin]
    <3>pairs. Seeded \in Seq(Pairs)
      OBVIOUS
    <3> HIDE DEF Pairs
    <3>1. PICK n \in Nat : Seeded \in [1 .. n -> Pairs]
      BY <3>pairs, SeqDef
    <3> USE DEF Pairs
    <3>2. assignment \in [1 .. n -> Assignments]
      BY <3>1 DEF Init, Assignments
    <3> QED
      BY <3>2, SeqDef
  <2>2. req \in [Requests -> Standings] /\ \A r \in Requests : Named(req[r])
    BY IdleIsTyped DEF Init
  <2>3. key \in [Keys -> KeyRows]
    BY DEF Init, KeyRows
  <2>4. role \in [Roles -> SUBSET Permissions] /\ vouched \in [Roles -> SUBSET Permissions]
    BY DEF Init
  <2> QED
    BY <2>1, <2>2, <2>3, <2>4 DEF Init, TypeOK
<1>2. TypeOK /\ [Next]_vars => TypeOK'
  <2> SUFFICES ASSUME TypeOK, [Next]_vars
               PROVE  TypeOK'
    OBVIOUS
  <2>1. ASSUME NEW r \in Requests, RequestBegins(r) PROVE TypeOK'
    <3>1. PICK by \in Callers :
            \/ \E n \in Custom, perms \in Bundles : CreateRole(r, by, n, perms)
            \/ \E n \in Custom, perms \in Bundles : UpdateRole(r, by, n, perms)
            \/ \E n \in Roles, a \in Actors : CreateAssignment(r, by, n, a)
            \/ \E i \in DOMAIN assignment : RevokeAssignment(r, by, i)
            \/ \E k \in Keys, scopes \in Bundles : CreateKey(r, by, k, scopes)
            \/ \E k \in Keys : RevokeKey(r, by, k)
      BY <2>1 DEF RequestBegins
    <3>2. ASSUME NEW n \in Custom, NEW perms \in Bundles, CreateRole(r, by, n, perms) PROVE TypeOK'
      <4> DEFINE q == [Idle EXCEPT !.pc = "ceiling", !.op = "createRole", !.role = n, !.perms = perms]
      <4>1. q \in Standings /\ Named([q EXCEPT !.by = by]) /\ Begin(r, by, RolesManage, q)
        BY <3>2 DEF Idle, Standings, Named, CreateRole
      <4> QED
        BY <4>1, BeginTyped
    <3>3. ASSUME NEW n \in Custom, NEW perms \in Bundles, UpdateRole(r, by, n, perms) PROVE TypeOK'
      <4> DEFINE q == [Idle EXCEPT !.pc = "read", !.op = "updateRole", !.role = n, !.perms = perms]
      <4>1. q \in Standings /\ Named([q EXCEPT !.by = by]) /\ Begin(r, by, RolesManage, q)
        BY <3>3 DEF Idle, Standings, Named, UpdateRole
      <4> QED
        BY <4>1, BeginTyped
    <3>4. ASSUME NEW n \in Roles, NEW a \in Actors, CreateAssignment(r, by, n, a) PROVE TypeOK'
      <4> DEFINE q == [Idle EXCEPT !.pc = "read", !.op = "grant", !.role = n, !.actor = a]
      <4>1. q \in Standings /\ Named([q EXCEPT !.by = by]) /\ Begin(r, by, RolesManage, q)
        BY <3>4 DEF Idle, Standings, Named, CreateAssignment
      <4> QED
        BY <4>1, BeginTyped
    <3>5. ASSUME NEW i \in DOMAIN assignment, RevokeAssignment(r, by, i) PROVE TypeOK'
      <4> DEFINE q == [Idle EXCEPT !.pc = "read", !.op = "revoke", !.id = i, !.role = assignment[i].role]
      <4>1. assignment[i].role \in Roles /\ i \in Nat
        <5>1. assignment \in Seq(Assignments) /\ i \in 1 .. Len(assignment)
          BY DEF TypeOK
        <5>2. assignment[i] \in Assignments
          BY <5>1, ElementOfSeq
        <5> QED
          BY <5>1, <5>2 DEF Assignments
      <4>2. q \in Standings /\ Named([q EXCEPT !.by = by]) /\ Begin(r, by, RolesManage, q)
        BY <3>5, <4>1 DEF Idle, Standings, Named, RevokeAssignment
      <4> QED
        BY <4>2, BeginTyped
    <3>6. ASSUME NEW k \in Keys, NEW scopes \in Bundles, CreateKey(r, by, k, scopes) PROVE TypeOK'
      <4> DEFINE q == [Idle EXCEPT !.pc = "ceiling", !.op = "createKey", !.actor = k, !.perms = scopes]
      <4>1. q \in Standings /\ Named([q EXCEPT !.by = by]) /\ Begin(r, by, KeysManage, q)
        BY <3>6 DEF Idle, Standings, Named, CreateKey
      <4> QED
        BY <4>1, BeginTyped
    <3>7. ASSUME NEW k \in Keys, RevokeKey(r, by, k) PROVE TypeOK'
      <4> DEFINE q == [Idle EXCEPT !.pc = "read", !.op = "revokeKey", !.actor = k]
      <4>1. q \in Standings /\ Named([q EXCEPT !.by = by]) /\ Begin(r, by, KeysManage, q)
        BY <3>7 DEF Idle, Standings, Named, RevokeKey
      <4> QED
        BY <4>1, BeginTyped
    <3> QED
      BY <3>1, <3>2, <3>3, <3>4, <3>5, <3>6, <3>7
  <2>2. ASSUME NEW r \in Requests, Read(r) PROVE TypeOK'
    <3> DEFINE cur == IF req[r].op = "revokeKey" THEN key[req[r].actor].scopes ELSE role[req[r].role]
               q == IF cur = {} THEN Idle ELSE [req[r] EXCEPT !.pc = "ceiling", !.read = cur]
    <3>1. req[r] \in Standings /\ Named(req[r]) /\ req[r].pc = "read"
      BY <2>2 DEF TypeOK, Read
    <3>2. cur \in SUBSET Permissions
      BY <3>1 DEF TypeOK, Named, KeyRows
    <3>4. req' = [req EXCEPT ![r] = q]
      BY <2>2 DEF Read
    <3> HIDE DEF cur
    <3>3. q \in Standings /\ Named(q)
      <4>1. CASE cur = {}
        BY <4>1, IdleIsTyped
      <4>2. CASE cur # {}
        <5>1. q = [req[r] EXCEPT !.pc = "ceiling", !.read = cur]
          BY <4>2
        <5> HIDE DEF q
        <5>typed. req[r] \in Standings
          BY <3>1
        <5>2. /\ q \in Standings /\ q.pc = "ceiling" /\ q.op = req[r].op /\ q.by = req[r].by
              /\ q.role = req[r].role /\ q.actor = req[r].actor /\ q.perms = req[r].perms
          BY <5>typed, <3>2, <5>1 DEF Standings
        <5> QED
          BY <3>1, <5>2 DEF Named
      <4> QED
        BY <4>1, <4>2
    <3>5. req' \in [Requests -> Standings] /\ \A s \in Requests : Named(req'[s])
      BY <3>3, <3>4, StandingTyped
    <3> QED
      BY <2>2, <3>5 DEF Read, TypeOK
  <2>3. ASSUME NEW r \in Requests, GrantCeiling(r) PROVE TypeOK'
    <3> DEFINE held == Held(req[r].by)
               q == IF Asked(r) \subseteq held
                    THEN [req[r] EXCEPT !.pc = IF req[r].op = "grant" THEN "check" ELSE "write",
                                        !.by = IF req[r].op = "createKey" THEN req[r].by ELSE None,
                                        !.held = held \cap (req[r].read \cup req[r].perms),
                                        !.read = {}]
                    ELSE Idle
    <3>1. req[r] \in Standings /\ Named(req[r]) /\ req[r].pc = "ceiling"
      BY <2>3 DEF TypeOK, GrantCeiling
    <3>3. req' = [req EXCEPT ![r] = q]
      BY <2>3 DEF GrantCeiling
    <3> HIDE DEF held
    <3>2. q \in Standings /\ Named(q)
      <4>1. held \cap (req[r].read \cup req[r].perms) \in SUBSET Permissions
        BY <3>1 DEF Standings
      <4>2. CASE ~(Asked(r) \subseteq held)
        BY <4>2, IdleIsTyped
      <4>3. CASE Asked(r) \subseteq held
        <5> DEFINE pc == IF req[r].op = "grant" THEN "check" ELSE "write"
                   by == IF req[r].op = "createKey" THEN req[r].by ELSE None
                   h == held \cap (req[r].read \cup req[r].perms)
        <5>1. pc \in {"check", "write"} /\ by \in {req[r].by, None}
          OBVIOUS
        <5>2. q = [req[r] EXCEPT !.pc = pc, !.by = by, !.held = h, !.read = {}]
          BY <4>3
        <5>3. req[r].op = "createKey" => by = req[r].by
          OBVIOUS
        <5> HIDE DEF pc, by, h
        <5>4. h \in SUBSET Permissions
          BY <4>1 DEF h
        <5> HIDE DEF q
        <5>typed. req[r] \in Standings
          BY <3>1
        <5>5. /\ q \in Standings /\ q.pc = pc /\ q.op = req[r].op /\ q.by = by
              /\ q.role = req[r].role /\ q.actor = req[r].actor /\ q.perms = req[r].perms
          BY <5>typed, <5>1, <5>2, <5>4 DEF Standings
        <5> QED
          BY <3>1, <5>1, <5>3, <5>5 DEF Named
      <4> QED
        BY <4>2, <4>3
    <3>4. req' \in [Requests -> Standings] /\ \A s \in Requests : Named(req'[s])
      BY <3>2, <3>3, StandingTyped
    <3> QED
      BY <2>3, <3>4 DEF GrantCeiling, TypeOK
  <2>4. ASSUME NEW r \in Requests, CheckAssignment(r) PROVE TypeOK'
    <3> DEFINE q == IF AlreadyActive(r) THEN Idle
                    ELSE [req[r] EXCEPT !.pc = "write", !.active = HoldsAlready(req[r].role, req[r].actor)]
    <3>1. req[r] \in Standings /\ Named(req[r]) /\ req[r].pc = "check"
      BY <2>4 DEF TypeOK, CheckAssignment
    <3>2. HoldsAlready(req[r].role, req[r].actor) \in BOOLEAN
      BY DEF HoldsAlready
    <3>3. q \in Standings /\ Named(q)
      <4>1. CASE AlreadyActive(r)
        BY <4>1, IdleIsTyped
      <4>2. CASE ~AlreadyActive(r)
        <5>1. q = [req[r] EXCEPT !.pc = "write", !.active = HoldsAlready(req[r].role, req[r].actor)]
          BY <4>2
        <5> HIDE DEF q
        <5>typed. req[r] \in Standings
          BY <3>1
        <5>2. /\ q \in Standings /\ q.pc = "write" /\ q.op = req[r].op /\ q.by = req[r].by
              /\ q.role = req[r].role /\ q.actor = req[r].actor /\ q.perms = req[r].perms
          BY <5>typed, <3>2, <5>1 DEF Standings
        <5> QED
          BY <3>1, <5>2 DEF Named
      <4> QED
        BY <4>1, <4>2
    <3>4. req' = [req EXCEPT ![r] = q]
      BY <2>4 DEF CheckAssignment
    <3>5. req' \in [Requests -> Standings] /\ \A s \in Requests : Named(req'[s])
      BY <3>3, <3>4, StandingTyped
    <3> QED
      BY <2>4, <3>5 DEF CheckAssignment, TypeOK
  <2>5. ASSUME NEW r \in Requests, Finish(r)
        PROVE  req' \in [Requests -> Standings] /\ \A s \in Requests : Named(req'[s])
    BY <2>5, IdleIsTyped, StandingTyped DEF Finish
  <2>6. ASSUME NEW r \in Requests, WriteRole(r) PROVE TypeOK'
    <3>1. Finish(r) /\ UNCHANGED <<permissions, assignment, key, deleted, events>>
      BY <2>6 DEF WriteRole
    <3>2. role' \in [Roles -> SUBSET Permissions] /\ vouched' \in [Roles -> SUBSET Permissions]
      <4>1. req[r].perms \in SUBSET Permissions /\ req[r].held \in SUBSET Permissions
        BY DEF TypeOK, Standings
      <4>2. \/ role' = [role EXCEPT ![req[r].role] = req[r].perms]
                /\ vouched' = [vouched EXCEPT ![req[r].role] = req[r].held]
            \/ UNCHANGED <<role, vouched>>
        BY <2>6 DEF WriteRole
      <4> QED
        BY <4>1, <4>2 DEF TypeOK
    <3> QED
      BY <2>5, <3>1, <3>2 DEF TypeOK
  <2>7. ASSUME NEW r \in Requests, InsertAssignment(r) PROVE TypeOK'
    <3> DEFINE new == [actor |-> req[r].actor, role |-> req[r].role, live |-> TRUE, vouched |-> req[r].held,
                       raced |-> HoldsAlready(req[r].role, req[r].actor) /\ ~req[r].active]
    <3>1. /\ Finish(r) /\ assignment' = Append(assignment, new)
          /\ UNCHANGED <<permissions, role, key, deleted, events, vouched>>
      BY <2>7 DEF InsertAssignment
    <3>2. new \in Assignments
      BY <2>7 DEF InsertAssignment, TypeOK, Standings, Named, Assignments
    <3>3. assignment' \in Seq(Assignments)
      BY <3>1, <3>2, AppendProperties DEF TypeOK
    <3> QED
      BY <2>5, <3>1, <3>3 DEF TypeOK
  <2>8. ASSUME NEW r \in Requests, EndAssignment(r) PROVE TypeOK'
    <3>1. /\ Finish(r) /\ assignment' = [assignment EXCEPT ![req[r].id].live = FALSE]
          /\ UNCHANGED <<permissions, role, key, deleted, events, vouched>>
      BY <2>8 DEF EndAssignment
    <3>2. PICK n \in Nat : assignment \in [1 .. n -> Assignments]
      BY SeqDef DEF TypeOK
    <3>3. assignment' \in [1 .. n -> Assignments]
      BY <3>1, <3>2, AssignmentEnded
    <3>4. assignment' \in Seq(Assignments)
      BY <3>3, SeqDef
    <3> QED
      BY <2>5, <3>1, <3>4 DEF TypeOK
  <2>9. ASSUME NEW r \in Requests, InsertKey(r) PROVE TypeOK'
    <3>1. Finish(r) /\ UNCHANGED <<permissions, role, assignment, deleted, events, vouched>>
      BY <2>9 DEF InsertKey
    <3>2. req[r] \in Standings /\ Named(req[r]) /\ req[r].op = "createKey" /\ req[r].pc = "write"
      BY <2>9 DEF InsertKey, TypeOK
    <3>3. req[r].actor \in Keys /\ req[r].by \in Users \cup {Service, None}
      BY <3>2 DEF Standings, Named
    <3>4. key' \in [Keys -> KeyRows]
      BY <2>9, <3>2, <3>3 DEF InsertKey, TypeOK, Standings, KeyRows
    <3> QED
      BY <2>5, <3>1, <3>4 DEF TypeOK
  <2>10. ASSUME NEW r \in Requests, EndKey(r) PROVE TypeOK'
    <3>1. Finish(r) /\ UNCHANGED <<permissions, role, assignment, deleted, events, vouched>>
      BY <2>10 DEF EndKey
    <3>2. key' \in [Keys -> KeyRows]
      BY <2>10, KeyEnded DEF EndKey, TypeOK
    <3> QED
      BY <2>5, <3>1, <3>2 DEF TypeOK
  <2>11. ASSUME NEW by \in Callers, NEW p \in Permissions, CreatePermission(by, p) PROVE TypeOK'
    BY <2>11 DEF CreatePermission, TypeOK
  <2>12. ASSUME NEW k \in Keys, KeyExpires(k) PROVE TypeOK'
    <3>1. key' \in [Keys -> KeyRows]
      BY <2>12, KeyEnded DEF KeyExpires, TypeOK
    <3> QED
      BY <2>12, <3>1 DEF KeyExpires, TypeOK
  <2>13. ASSUME NEW u \in Users, DeleteUser(u) PROVE TypeOK'
    <3>1. PICK n \in Nat : assignment \in [1 .. n -> Assignments]
      BY SeqDef DEF TypeOK
    <3>2. assignment' \in [1 .. n -> Assignments]
      BY <2>13, <3>1, AssignmentEnded DEF DeleteUser
    <3>3. assignment' \in Seq(Assignments)
      BY <3>2, SeqDef
    <3> QED
      BY <2>13, <3>3 DEF DeleteUser, TypeOK
  <2>14. ASSUME UNCHANGED vars PROVE TypeOK'
    BY <2>14 DEF vars, TypeOK
  <2> QED
    BY <2>1, <2>2, <2>3, <2>4, <2>6, <2>7, <2>8, <2>9, <2>10, <2>11, <2>12, <2>13, <2>14 DEF Next
<1> QED
  BY <1>1, <1>2, PTL DEF Spec

-----------------------------------------------------------------------------
(***************************************************************************)
(* The ceiling.                                                            *)
(***************************************************************************)

LEMMA IdleIsCovered == Covered(Idle)
BY DEF Covered, Idle

\* A step of one request that writes no role.
LEMMA OtherRequests ==
    ASSUME TypeOK, CeilingInv, NEW r \in Requests, NEW q, Covered(q),
           req' = [req EXCEPT ![r] = q], UNCHANGED <<role, vouched>>
    PROVE  CeilingInv'
<1>1. ASSUME NEW s \in Requests PROVE Covered(req[s])'
  <2>1. Covered(req'[s])
    BY DEF TypeOK, CeilingInv
  <2> QED
    BY <2>1 DEF Covered
<1> QED
  BY <1>1 DEF CeilingInv

\* A request that has just begun has asked for nothing yet.
LEMMA BeginCovered ==
    ASSUME TypeOK, CeilingInv, NEW r \in Requests, NEW by, NEW permission, NEW q,
           Begin(r, by, permission, q), DOMAIN q = DOMAIN Idle,
           q.pc \in {"read", "ceiling"}, q.op = "grant" => q.pc = "read", q.active = FALSE
    PROVE  CeilingInv'
<1>1. Covered([q EXCEPT !.by = by])
  BY DEF Covered, Idle
<1> QED
  BY <1>1, OtherRequests DEF Begin

LEMMA CeilingInvStep ==
    ASSUME TypeOK, CeilingInv, [Next]_vars PROVE CeilingInv'
<1>1. ASSUME NEW r \in Requests, RequestBegins(r) PROVE CeilingInv'
  <2> HIDE DEF Begin
  <2>1. PICK by \in Callers :
          \/ \E n \in Custom, perms \in Bundles : CreateRole(r, by, n, perms)
          \/ \E n \in Custom, perms \in Bundles : UpdateRole(r, by, n, perms)
          \/ \E n \in Roles, a \in Actors : CreateAssignment(r, by, n, a)
          \/ \E i \in DOMAIN assignment : RevokeAssignment(r, by, i)
          \/ \E k \in Keys, scopes \in Bundles : CreateKey(r, by, k, scopes)
          \/ \E k \in Keys : RevokeKey(r, by, k)
    BY <1>1 DEF RequestBegins
  <2>2. ASSUME NEW n, NEW perms, CreateRole(r, by, n, perms) PROVE CeilingInv'
    BY <2>2, BeginCovered DEF CreateRole, Idle
  <2>3. ASSUME NEW n, NEW perms, UpdateRole(r, by, n, perms) PROVE CeilingInv'
    BY <2>3, BeginCovered DEF UpdateRole, Idle
  <2>4. ASSUME NEW n, NEW a, CreateAssignment(r, by, n, a) PROVE CeilingInv'
    BY <2>4, BeginCovered DEF CreateAssignment, Idle
  <2>5. ASSUME NEW i, RevokeAssignment(r, by, i) PROVE CeilingInv'
    BY <2>5, BeginCovered DEF RevokeAssignment, Idle
  <2>6. ASSUME NEW k, NEW scopes, CreateKey(r, by, k, scopes) PROVE CeilingInv'
    BY <2>6, BeginCovered DEF CreateKey, Idle
  <2>7. ASSUME NEW k, RevokeKey(r, by, k) PROVE CeilingInv'
    BY <2>7, BeginCovered DEF RevokeKey, Idle
  <2> QED
    BY <2>1, <2>2, <2>3, <2>4, <2>5, <2>6, <2>7
<1>2. ASSUME NEW r \in Requests, Read(r) PROVE CeilingInv'
  <2> DEFINE cur == IF req[r].op = "revokeKey" THEN key[req[r].actor].scopes ELSE role[req[r].role]
             p == [req[r] EXCEPT !.pc = "ceiling", !.read = cur]
             q == IF cur = {} THEN Idle ELSE p
  <2>1. req[r] \in Standings /\ Covered(req[r])
    BY DEF TypeOK, CeilingInv
  <2>2. p.pc = "ceiling" /\ p.op = req[r].op /\ p.role = req[r].role /\ p.active = req[r].active /\ p.read = cur
    BY <2>1 DEF Standings
  <2>3. req[r].op = "grant" => cur = role[req[r].role]
    OBVIOUS
  <2>4. Covered(p)
    <3> HIDE DEF p, cur
    <3> QED
      BY <2>1, <2>2, <2>3 DEF Covered
  <2>5. Covered(q)
    BY <2>4, IdleIsCovered
  <2>6. req' = [req EXCEPT ![r] = q] /\ UNCHANGED <<role, vouched>>
    BY <1>2 DEF Read
  <2> QED
    BY <2>5, <2>6, OtherRequests
<1>3. ASSUME NEW r \in Requests, GrantCeiling(r) PROVE CeilingInv'
  <2> DEFINE held == Held(req[r].by)
             pc == IF req[r].op = "grant" THEN "check" ELSE "write"
             by == IF req[r].op = "createKey" THEN req[r].by ELSE None
             h == held \cap (req[r].read \cup req[r].perms)
             p == [req[r] EXCEPT !.pc = pc, !.by = by, !.held = h, !.read = {}]
             q == IF Asked(r) \subseteq held THEN p ELSE Idle
  <2>1. req[r] \in Standings /\ Covered(req[r]) /\ Named(req[r]) /\ req[r].pc = "ceiling"
    BY <1>3 DEF TypeOK, CeilingInv, GrantCeiling
  <2>2. req[r] \in Standings
    BY <2>1
  <2>3. /\ p.pc = pc /\ p.op = req[r].op /\ p.role = req[r].role /\ p.active = req[r].active
        /\ p.perms = req[r].perms /\ p.held = h
    <3> HIDE DEF pc, by, h
    <3> QED
      BY <2>2 DEF Standings
  <2>4. ASSUME Asked(r) \subseteq held PROVE Covered(p)
    <3>1. h = req[r].read \cup req[r].perms
      BY <2>4 DEF Asked
    <3>2. req[r].op = "grant" => req[r].perms = {}
      BY <2>1 DEF Named
    <3>3. pc \in {"check", "write"} /\ (req[r].op = "grant" <=> pc = "check")
      OBVIOUS
    <3> HIDE DEF p, h, held, pc, by
    <3> QED
      BY <2>1, <2>3, <3>1, <3>2, <3>3 DEF Covered
  <2>5. Covered(q)
    BY <2>4, IdleIsCovered
  <2>6. req' = [req EXCEPT ![r] = q] /\ UNCHANGED <<role, vouched>>
    BY <1>3 DEF GrantCeiling
  <2> QED
    BY <2>5, <2>6, OtherRequests
<1>4. ASSUME NEW r \in Requests, CheckAssignment(r) PROVE CeilingInv'
  <2> DEFINE active == HoldsAlready(req[r].role, req[r].actor)
             p == [req[r] EXCEPT !.pc = "write", !.active = active]
             q == IF AlreadyActive(r) THEN Idle ELSE p
  <2>1. req[r] \in Standings
    BY DEF TypeOK
  <2>2. Covered(req[r]) /\ Named(req[r]) /\ req[r].pc = "check"
    BY <1>4 DEF TypeOK, CeilingInv, CheckAssignment
  <2>3. /\ p.pc = "write" /\ p.op = req[r].op /\ p.role = req[r].role
        /\ p.perms = req[r].perms /\ p.held = req[r].held /\ p.active = active
    BY <2>1 DEF Standings
  <2>4. ASSUME ~AlreadyActive(r) PROVE Covered(p)
    <3>1. active = FALSE
      BY <2>4 DEF AlreadyActive, HoldsAlready
    <3>2. req[r].op = "grant"
      BY <2>2 DEF Covered
    <3> HIDE DEF p, active
    <3> QED
      BY <2>2, <2>3, <3>1 DEF Covered
  <2>5. Covered(q)
    BY <2>4, IdleIsCovered
  <2>6. req' = [req EXCEPT ![r] = q] /\ UNCHANGED <<role, vouched>>
    BY <1>4 DEF CheckAssignment
  <2> QED
    BY <2>5, <2>6, OtherRequests
<1>5. ASSUME NEW r \in Requests, Finish(r), UNCHANGED <<role, vouched>> PROVE CeilingInv'
  BY <1>5, IdleIsCovered, OtherRequests DEF Finish
<1>6. ASSUME NEW r \in Requests, WriteRole(r) PROVE CeilingInv'
  <2>1. CASE UNCHANGED <<role, vouched>>
    BY <1>5, <1>6, <2>1 DEF WriteRole
  <2>2. CASE /\ role' = [role EXCEPT ![req[r].role] = req[r].perms]
             /\ vouched' = [vouched EXCEPT ![req[r].role] = req[r].held]
    <3>1. req[r].perms \subseteq req[r].held
      BY <1>6 DEF WriteRole, CeilingInv, Covered
    <3>2. \A n \in Roles : \/ role'[n] = role[n] /\ vouched'[n] = vouched[n]
                           \/ role'[n] \subseteq vouched'[n]
      BY <2>2, <3>1 DEF TypeOK
    <3>3. req' = [req EXCEPT ![r] = Idle]
      BY <1>6 DEF WriteRole, Finish
    <3>4. ASSUME NEW s \in Requests PROVE Covered(req[s])'
      <4>1. Covered(req'[s]) /\ (req'[s].pc = "idle" \/ req'[s] = req[s])
        BY <3>3, IdleIsCovered DEF CeilingInv, TypeOK, Idle
      <4>2. req'[s].pc # "idle" /\ req'[s].op = "grant" => req'[s].role \in Roles
        BY <4>1 DEF TypeOK, Named
      <4> QED
        BY <3>2, <4>1, <4>2 DEF Covered
    <3> QED
      BY <3>4 DEF CeilingInv
  <2> QED
    BY <1>6, <2>1, <2>2 DEF WriteRole
<1>7. ASSUME UNCHANGED <<req, role, vouched>> PROVE CeilingInv'
  BY <1>7 DEF CeilingInv, Covered
<1>8. CASE \E by \in Callers, p \in Permissions : CreatePermission(by, p)
  BY <1>7, <1>8 DEF CreatePermission
<1>9. CASE \E k \in Keys : KeyExpires(k)
  BY <1>7, <1>9 DEF KeyExpires
<1>10. CASE \E u \in Users : DeleteUser(u)
  BY <1>7, <1>10 DEF DeleteUser
<1>11. ASSUME NEW r \in Requests, InsertAssignment(r) PROVE CeilingInv'
  BY <1>5, <1>11 DEF InsertAssignment
<1>12. ASSUME NEW r \in Requests, EndAssignment(r) PROVE CeilingInv'
  BY <1>5, <1>12 DEF EndAssignment
<1>13. ASSUME NEW r \in Requests, InsertKey(r) PROVE CeilingInv'
  BY <1>5, <1>13 DEF InsertKey
<1>14. ASSUME NEW r \in Requests, EndKey(r) PROVE CeilingInv'
  BY <1>5, <1>14 DEF EndKey
<1>15. CASE UNCHANGED vars
  BY <1>7, <1>15 DEF vars
<1> QED
  BY <1>1, <1>2, <1>3, <1>4, <1>6, <1>8, <1>9, <1>10, <1>11, <1>12, <1>13, <1>14, <1>15 DEF Next

-----------------------------------------------------------------------------
(***************************************************************************)
(* Assignments and keys.                                                   *)
(***************************************************************************)

\* Nothing but an insert makes an assignment active or changes an active one.
Kept == \A i \in LiveAssignments' : i \in LiveAssignments /\ assignment'[i] = assignment[i]

LEMMA EndedIsKept ==
    ASSUME TypeOK, NEW r \in Requests, EndAssignment(r) PROVE Kept
<1>1. DOMAIN assignment' = DOMAIN assignment
  BY DEF EndAssignment
<1>2. ASSUME NEW i \in DOMAIN assignment
      PROVE  assignment'[i] = assignment[i] \/ ~assignment'[i].live
  <2>1. assignment[i] \in Assignments
    BY ElementOfSeq DEF TypeOK
  <2>2. ~[assignment[i] EXCEPT !.live = FALSE].live
    BY <2>1, AssignmentEnded
  <2>3. assignment' = [assignment EXCEPT ![req[r].id].live = FALSE]
    BY DEF EndAssignment
  <2> QED
    BY <2>2, <2>3
<1> QED
  BY <1>1, <1>2 DEF Kept, LiveAssignments

LEMMA DeletedIsKept ==
    ASSUME TypeOK, NEW u \in Users, DeleteUser(u) PROVE Kept
<1>1. ASSUME NEW i \in DOMAIN assignment
      PROVE  assignment'[i] = assignment[i] \/ ~assignment'[i].live
  <2>1. assignment[i] \in Assignments
    BY ElementOfSeq DEF TypeOK
  <2>2. ~[assignment[i] EXCEPT !.live = FALSE].live
    BY <2>1, AssignmentEnded
  <2> QED
    BY <2>2 DEF DeleteUser
<1>2. DOMAIN assignment' = DOMAIN assignment
  BY DEF DeleteUser
<1> QED
  BY <1>1, <1>2 DEF Kept, LiveAssignments

\* An insert adds one assignment after all others.
LEMMA Inserted ==
    ASSUME TypeOK, NEW r \in Requests, InsertAssignment(r)
    PROVE  LET last == Len(assignment) + 1
           IN  /\ LiveAssignments' \subseteq LiveAssignments \cup {last}
               /\ \A i \in LiveAssignments : i < last /\ assignment'[i] = assignment[i]
               /\ assignment'[last].role = req[r].role /\ assignment'[last].actor = req[r].actor
               /\ assignment'[last].vouched = req[r].held
               /\ assignment'[last].raced = (HoldsAlready(req[r].role, req[r].actor) /\ ~req[r].active)
<1> DEFINE last == Len(assignment) + 1
           new == [actor |-> req[r].actor, role |-> req[r].role, live |-> TRUE, vouched |-> req[r].held,
                   raced |-> HoldsAlready(req[r].role, req[r].actor) /\ ~req[r].active]
<1>1. assignment' = Append(assignment, new) /\ assignment \in Seq(Assignments)
  BY DEF InsertAssignment, TypeOK
<1>2. /\ Len(assignment) \in Nat /\ DOMAIN assignment = 1 .. Len(assignment)
      /\ DOMAIN assignment' = 1 .. last
      /\ assignment'[last] = new /\ \A i \in 1 .. Len(assignment) : assignment'[i] = assignment[i]
  <2> HIDE DEF new
  <2> QED
    BY <1>1
<1> QED
  BY <1>2 DEF LiveAssignments

\* A step that neither inserts nor grants nor writes a role or a key.
LEMMA EscalationKept ==
    ASSUME NoEscalation, Kept, UNCHANGED <<role, vouched, key>> PROVE NoEscalation'
BY DEF NoEscalation, Kept

LEMMA UnchangedIsKept == assignment' = assignment => Kept
BY DEF Kept, LiveAssignments

(* Whatever an active assignment or a key gives was held, when its ceiling was
   checked, by somebody who could hand it out (grantCeiling), however roles were
   rewritten in the meantime.                                                *)
THEOREM EveryGrantWasHeld == Spec => []NoEscalation
<1> USE AccessAssumption
<1>1. Init => CeilingInv /\ NoEscalation
  <2> SUFFICES ASSUME Init PROVE CeilingInv /\ NoEscalation
    OBVIOUS
  <2>1. CeilingInv
    BY IdleIsCovered DEF Init, CeilingInv
  <2>2. ASSUME NEW i \in LiveAssignments
        PROVE  role[assignment[i].role] \subseteq assignment[i].vouched \cup vouched[assignment[i].role]
    <3>1. i \in DOMAIN Seeded
      BY DEF Init, LiveAssignments
    <3>2. Seeded[i] \in [actor : Users, role : Builtin]
      <4> DEFINE Pairs == [actor : Users, role : Builtin]
      <4>1. Seeded \in Seq(Pairs)
        OBVIOUS
      <4> HIDE DEF Pairs
      <4>2. Seeded[i] \in Pairs
        BY <3>1, <4>1, ElementOfSeq
      <4> QED
        BY <4>2 DEF Pairs
    <3> QED
      BY <3>1, <3>2 DEF Init, Roles
  <2>3. \A k \in Keys : key[k].scopes \subseteq key[k].vouched
    BY DEF Init
  <2> QED
    BY <2>1, <2>2, <2>3 DEF NoEscalation
<1>2. ASSUME TypeOK, CeilingInv, NoEscalation, [Next]_vars PROVE NoEscalation'
  <2> USE <1>2
  <2>1. ASSUME UNCHANGED <<role, assignment, key, vouched>> PROVE NoEscalation'
    BY <2>1, UnchangedIsKept, EscalationKept
  <2>2. ASSUME NEW r \in Requests, RequestBegins(r) PROVE NoEscalation'
    BY <2>1, <2>2 DEF RequestBegins, Begin, CreateRole, UpdateRole, CreateAssignment, RevokeAssignment,
                      CreateKey, RevokeKey
  <2>3. ASSUME NEW r \in Requests, Read(r) \/ GrantCeiling(r) \/ CheckAssignment(r) PROVE NoEscalation'
    BY <2>1, <2>3 DEF Read, GrantCeiling, CheckAssignment
  <2>4. ASSUME NEW r \in Requests, WriteRole(r) PROVE NoEscalation'
    <3>1. CASE UNCHANGED <<role, vouched>>
      BY <2>1, <2>4, <3>1 DEF WriteRole
    <3>2. CASE /\ role' = [role EXCEPT ![req[r].role] = req[r].perms]
               /\ vouched' = [vouched EXCEPT ![req[r].role] = req[r].held]
      <4>1. req[r].perms \subseteq req[r].held
        BY <2>4 DEF WriteRole, CeilingInv, Covered
      <4>2. \A n \in Roles : \/ role'[n] = role[n] /\ vouched'[n] = vouched[n]
                             \/ role'[n] \subseteq vouched'[n]
        BY <3>2, <4>1 DEF TypeOK
      <4>3. UNCHANGED <<assignment, key>>
        BY <2>4 DEF WriteRole
      <4>4. \A i \in LiveAssignments : assignment[i].role \in Roles
        <5>1. assignment \in Seq(Assignments)
          BY DEF TypeOK
        <5>2. \A i \in DOMAIN assignment : assignment[i] \in Assignments
          BY <5>1, ElementOfSeq, LenProperties
        <5> QED
          BY <5>2 DEF LiveAssignments, Assignments
      <4>5. LiveAssignments' = LiveAssignments
        BY <4>3 DEF LiveAssignments
      <4> QED
        BY <4>2, <4>3, <4>4, <4>5 DEF NoEscalation
    <3> QED
      BY <2>4, <3>1, <3>2 DEF WriteRole
  <2>5. ASSUME NEW r \in Requests, InsertAssignment(r) PROVE NoEscalation'
    <3>1. role[req[r].role] \subseteq req[r].held \cup vouched[req[r].role]
      BY <2>5 DEF InsertAssignment, CeilingInv, Covered
    <3>2. UNCHANGED <<role, vouched, key>>
      BY <2>5 DEF InsertAssignment
    <3> QED
      BY <2>5, <3>1, <3>2, Inserted DEF NoEscalation
  <2>6. ASSUME NEW r \in Requests, EndAssignment(r) PROVE NoEscalation'
    BY <2>6, EndedIsKept, EscalationKept DEF EndAssignment
  <2>7. ASSUME NEW r \in Requests, InsertKey(r) PROVE NoEscalation'
    <3>1. UNCHANGED <<role, vouched, assignment>>
      BY <2>7 DEF InsertKey
    <3>2. req[r].perms \subseteq req[r].held
      BY <2>7 DEF InsertKey, CeilingInv, Covered
    <3>3. \A k \in Keys : key'[k].scopes \subseteq key'[k].vouched
      BY <2>7, <3>2 DEF InsertKey, NoEscalation, TypeOK
    <3> QED
      BY <3>1, <3>3, UnchangedIsKept DEF NoEscalation, Kept
  <2>8. ASSUME UNCHANGED <<role, vouched, assignment>>,
               \A l \in Keys : key'[l].scopes = key[l].scopes /\ key'[l].vouched = key[l].vouched
        PROVE  NoEscalation'
    BY <2>8, UnchangedIsKept DEF NoEscalation, Kept
  <2>9. ASSUME NEW r \in Requests, EndKey(r) PROVE NoEscalation'
    <3>1. \A l \in Keys : key'[l].scopes = key[l].scopes /\ key'[l].vouched = key[l].vouched
      BY <2>9, KeyEnded DEF EndKey, TypeOK
    <3> QED
      BY <2>8, <2>9, <3>1 DEF EndKey
  <2>10. CASE \E by \in Callers, p \in Permissions : CreatePermission(by, p)
    BY <2>1, <2>10 DEF CreatePermission
  <2>11. ASSUME NEW k \in Keys, KeyExpires(k) PROVE NoEscalation'
    <3>1. \A l \in Keys : key'[l].scopes = key[l].scopes /\ key'[l].vouched = key[l].vouched
      BY <2>11, KeyEnded DEF KeyExpires, TypeOK
    <3> QED
      BY <2>8, <2>11, <3>1 DEF KeyExpires
  <2>12. CASE \E u \in Users : DeleteUser(u)
    BY <2>12, DeletedIsKept, EscalationKept DEF DeleteUser
  <2>13. CASE UNCHANGED vars
    BY <2>1, <2>13 DEF vars
  <2> QED
    BY <2>2, <2>3, <2>4, <2>5, <2>6, <2>7, <2>9, <2>10, <2>11, <2>12, <2>13 DEF Next
<1> QED
  BY <1>1, <1>2, CeilingInvStep, TypeCorrect, PTL DEF Spec

(* A pair has two active assignments only when one was inserted between the
   other's check and its insert: GrantRole refuses every other repetition.   *)
THEOREM PairsAreUnambiguous == Spec => []UnambiguousUnlessRaced
<1>1. Init => CeilingInv /\ UnambiguousUnlessRaced
  <2> SUFFICES ASSUME Init PROVE CeilingInv /\ UnambiguousUnlessRaced
    OBVIOUS
  <2>1. CeilingInv
    BY IdleIsCovered DEF Init, CeilingInv
  <2> DEFINE Pairs == [actor : Users, role : Builtin]
  <2>2. Seeded \in Seq(Pairs) /\ \A i, j \in DOMAIN Seeded : Seeded[i] = Seeded[j] => i = j
    BY AccessAssumption
  <2>3. \A i \in DOMAIN Seeded : Seeded[i] \in Pairs
    <3> HIDE DEF Pairs
    <3> QED
      BY <2>2, ElementOfSeq, LenProperties
  <2>4. \A i, j \in DOMAIN Seeded :
          Seeded[i].actor = Seeded[j].actor /\ Seeded[i].role = Seeded[j].role => i = j
    BY <2>2, <2>3
  <2>5. DOMAIN Seeded \subseteq Int
    <3> HIDE DEF Pairs
    <3> QED
      BY <2>2, LenProperties
  <2>6. LiveAssignments = DOMAIN Seeded /\ \A i \in DOMAIN Seeded :
          assignment[i].actor = Seeded[i].actor /\ assignment[i].role = Seeded[i].role
    BY DEF Init, LiveAssignments
  <2> HIDE DEF Pairs
  <2>7. UnambiguousUnlessRaced
    BY <2>4, <2>5, <2>6 DEF UnambiguousUnlessRaced
  <2> QED
    BY <2>1, <2>7
<1>2. ASSUME TypeOK, CeilingInv, UnambiguousUnlessRaced, [Next]_vars PROVE UnambiguousUnlessRaced'
  <2> USE <1>2
  <2>1. ASSUME Kept PROVE UnambiguousUnlessRaced'
    BY <2>1 DEF Kept, UnambiguousUnlessRaced
  <2>2. ASSUME assignment' = assignment PROVE UnambiguousUnlessRaced'
    BY <2>1, <2>2, UnchangedIsKept
  <2>3. ASSUME NEW r \in Requests, InsertAssignment(r) PROVE UnambiguousUnlessRaced'
    <3> DEFINE last == Len(assignment) + 1
    <3>1. req[r].active = FALSE
      BY DEF CeilingInv, Covered
    <3>2. /\ LiveAssignments' \subseteq LiveAssignments \cup {last}
          /\ \A i \in LiveAssignments : i < last /\ assignment'[i] = assignment[i]
          /\ assignment'[last].role = req[r].role /\ assignment'[last].actor = req[r].actor
          /\ assignment'[last].raced = (HoldsAlready(req[r].role, req[r].actor) /\ ~req[r].active)
      BY <2>3, Inserted
    <3>3. LiveAssignments \subseteq Nat /\ last \in Nat
      BY DEF TypeOK, LiveAssignments
    <3> HIDE DEF last
    <3> SUFFICES ASSUME NEW i \in LiveAssignments', NEW j \in LiveAssignments', i < j,
                        assignment'[i].role = assignment'[j].role,
                        assignment'[i].actor = assignment'[j].actor
                 PROVE  assignment'[j].raced
      BY DEF UnambiguousUnlessRaced
    <3>4. i \in LiveAssignments
      BY <3>2, <3>3
    <3>5. CASE j \in LiveAssignments
      BY <3>2, <3>4, <3>5 DEF UnambiguousUnlessRaced
    <3>6. CASE j = last
      <4>1. HoldsAlready(req[r].role, req[r].actor)
        BY <3>2, <3>4, <3>6 DEF HoldsAlready
      <4> QED
        BY <3>1, <3>2, <3>6, <4>1
    <3> QED
      BY <3>2, <3>5, <3>6
  <2>4. ASSUME NEW r \in Requests, EndAssignment(r) PROVE UnambiguousUnlessRaced'
    BY <2>1, <2>4, EndedIsKept
  <2>5. CASE \E u \in Users : DeleteUser(u)
    BY <2>1, <2>5, DeletedIsKept
  <2>6. ASSUME NEW r \in Requests, RequestBegins(r) PROVE UnambiguousUnlessRaced'
    BY <2>2, <2>6 DEF RequestBegins, Begin, CreateRole, UpdateRole, CreateAssignment, RevokeAssignment,
                      CreateKey, RevokeKey
  <2>7. ASSUME NEW r \in Requests,
               Read(r) \/ GrantCeiling(r) \/ CheckAssignment(r) \/ WriteRole(r) \/ InsertKey(r) \/ EndKey(r)
        PROVE  UnambiguousUnlessRaced'
    BY <2>2, <2>7 DEF Read, GrantCeiling, CheckAssignment, WriteRole, InsertKey, EndKey
  <2>8. CASE \E by \in Callers, p \in Permissions : CreatePermission(by, p)
    BY <2>2, <2>8 DEF CreatePermission
  <2>9. CASE \E k \in Keys : KeyExpires(k)
    BY <2>2, <2>9 DEF KeyExpires
  <2>10. CASE UNCHANGED vars
    BY <2>2, <2>10 DEF vars
  <2> QED
    BY <2>3, <2>4, <2>5, <2>6, <2>7, <2>8, <2>9, <2>10 DEF Next
<1> QED
  BY <1>1, <1>2, CeilingInvStep, TypeCorrect, PTL DEF Spec
=============================================================================
