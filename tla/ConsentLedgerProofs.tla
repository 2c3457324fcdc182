------------------------- MODULE ConsentLedgerProofs -------------------------
(***************************************************************************)
(* The projection follows the ledger, notices are due and outbox events    *)
(* are handled once, for any number of consents, subjects, engines,        *)
(* revisions and policies, whatever the clocks of the engines say.         *)
(***************************************************************************)
EXTENDS ConsentLedger, DeliveryTasks, TLAPS, WellFoundedInduction, FiniteSetTheorems

Entries == [action : {"GRANT", "WITHDRAW", "RECONFIRM_NOTICE"}, at : Nat \ {0}, period : Nat]

Rows == [granted : BOOLEAN, at : Nat, notice : Nat, due : Nat,
         policy : Policies \cup {None}, revision : Revisions \cup {None}]

Candidates == [c : Consents, granted : BOOLEAN, at : Nat, notice : Nat, policy : Policies]

Scans == [pc : {"idle", "reconcile", "notify"}, cursor : Consents \cup {0}, todo : SUBSET Candidates, at : Nat]

Changing == [pc : {"idle", "sealed"}, c : Consents \cup {0}, granted : BOOLEAN, at : Nat,
             policy : Policies \cup {None}, revision : Revisions \cup {None}]

Asked == [subject : Subjects, status : {"REQUESTED", "CANCELED", "DONE"}, key : Nat]

Posted == [type : {"user.deleted", "consent.reconfirm_due"}, subject : Subjects, published : BOOLEAN]

Dispatchers == [pc : {"idle", "next", "create", "tasks", "publish"}, batch : SUBSET Nat, x : Nat,
                dests : SUBSET Destinations]

LedgerTypeOK ==
    /\ conf \in Configs /\ now \in Nat \ {0} /\ events \in Nat
    /\ assigned \in [Subjects -> Policies \cup {None}]
    /\ revision \in [Engines -> Revisions]
    /\ ledger \in [Consents -> Seq(Entries)]
    /\ row \in [Consents -> Rows]
    /\ shredded \in SUBSET Subjects
    /\ upd \in [Updates -> Changing]
    /\ \A w \in Updates : upd[w].pc = "sealed" =>
          upd[w].c \in Consents /\ upd[w].at > 0 /\ upd[w].policy \in Policies /\ upd[w].revision \in Revisions
    /\ scan \in [Engines -> Scans]
    /\ outbox \in Seq(Posted)
    /\ disp \in [Engines -> Dispatchers]
    /\ request \in Seq(Asked)
    /\ task \in SUBSET (Nat \X Destinations)

-----------------------------------------------------------------------------
(***************************************************************************)
(* The invariant of the ledger, its rows and the scans.                    *)
(***************************************************************************)

IsLast(c, i) == i \in Changes(c) /\ \A j \in Changes(c) : j <= i
IsNewest(c, n) == n \in Notices(c) /\ \A j \in Notices(c) : ledger[c][j].at <= ledger[c][n].at

\* Changes are in the order of their times, and a notice is never ahead of
\* the clock.
LedgerInv ==
    \A c \in Consents :
        /\ \A i, j \in Changes(c) : i < j => ledger[c][i].at < ledger[c][j].at
        /\ Changes(c) # {} => \E i \in Changes(c) : IsLast(c, i)
        /\ Notices(c) # {} => \E n \in Notices(c) : IsNewest(c, n)
        /\ \A n \in Notices(c) : ledger[c][n].at <= now

\* A row is the last change and, unless it was made anew after an erasure,
\* knows the newest notice; what it has scheduled is a period away from both.
Mirrors(c) ==
    IF row[c] = NoRow
    THEN Deleted(SubjectOf[c]) \/ Notices(c) = {}
    ELSE /\ \E i \in Changes(c) :
               /\ IsLast(c, i) /\ row[c].at = ledger[c][i].at
               /\ row[c].granted = (ledger[c][i].action = "GRANT")
         /\ row[c].notice = 0 \/ \E n \in Notices(c) : IsNewest(c, n) /\ row[c].notice = ledger[c][n].at
         /\ Deleted(SubjectOf[c]) \/ \A n \in Notices(c) : ledger[c][n].at <= row[c].notice
         /\ row[c].due > 0 =>
               /\ row[c].revision \in Revisions /\ row[c].policy \in Policies
               /\ row[c].due >= row[c].at + Period(row[c].revision, row[c].policy)
               /\ row[c].due >= row[c].notice + Period(row[c].revision, row[c].policy)

RowInv == \A c \in Consents : Mirrors(c)

\* A candidate was the last change when it was read.  While it is, no notice
\* came after the clock of the scan was read that the row does not know of.
Knows(e, x) ==
    /\ \E i \in Changes(x.c) : ledger[x.c][i].at = x.at
    /\ scan[e].pc = "notify" =>
          /\ scan[e].at <= now
          /\ row[x.c] # NoRow /\ row[x.c].at = x.at =>
                \A n \in Notices(x.c) : ledger[x.c][n].at <= scan[e].at \/ ledger[x.c][n].at <= row[x.c].notice

ScanInv == \A e \in Engines : \A x \in scan[e].todo : Knows(e, x)

\* NoticesAreDue, of one notice and without the choice of the last change.
Due(c, n) ==
    /\ \E i \in Changes(c) : i < n
    /\ \A i \in Changes(c) : i < n /\ (\A j \in Changes(c) : j < n => j <= i) =>
          ledger[c][i].action = "GRANT" /\ ledger[c][n].at >= ledger[c][i].at + ledger[c][n].period
    /\ ~Deleted(SubjectOf[c]) =>
          \A j \in Notices(c) : j < n => ledger[c][n].at >= ledger[c][j].at + ledger[c][n].period

DueInv == \A c \in Consents : \A n \in Notices(c) : Due(c, n)

ConsentInv == LedgerInv /\ RowInv /\ ScanInv /\ DueInv

-----------------------------------------------------------------------------
(***************************************************************************)
(* The invariant of the outbox.                                            *)
(***************************************************************************)

\* What publishing an event says was done.
Handled(x) ==
    IF outbox[x].type = "user.deleted"
    THEN \E i \in DOMAIN request : request[i].subject = outbox[x].subject
    ELSE \A dst \in Destinations : <<x, dst>> \in task

Working(e) ==
    /\ disp[e].batch \subseteq DOMAIN outbox
    /\ disp[e].pc \in {"create", "tasks", "publish"} => disp[e].x \in DOMAIN outbox
    /\ disp[e].pc = "create" => outbox[disp[e].x].type = "user.deleted"
    /\ disp[e].pc = "tasks" => /\ outbox[disp[e].x].type # "user.deleted"
                               /\ \A dst \in Destinations \ disp[e].dests : <<disp[e].x, dst>> \in task
    /\ disp[e].pc = "publish" => Handled(disp[e].x)

\* A key is used once, and for the subject of its event.
KeysInv ==
    \A i \in DOMAIN request : request[i].key > 0 =>
        /\ request[i].key \in DOMAIN outbox /\ request[i].subject = outbox[request[i].key].subject
        /\ \A j \in DOMAIN request : request[j].key = request[i].key => i = j

OutboxInv ==
    /\ \A x \in DOMAIN outbox : outbox[x].published => Handled(x)
    /\ KeysInv
    /\ \A e \in Engines : Working(e)

-----------------------------------------------------------------------------
(***************************************************************************)
(* What is chosen is there.                                                *)
(***************************************************************************)

LEMMA Smallest ==
    ASSUME NEW T \in SUBSET Nat, T # {} PROVE \E m \in T : \A n \in T : m <= n
<1> DEFINE R == {p \in Nat \X Nat : p[1] < p[2]}
<1>1. IsWellFoundedOn(R, Nat)
  BY NatLessThanWellFounded DEF OpToRel
<1>2. \A m, n \in Nat : n < m => <<n, m>> \in R
  OBVIOUS
<1> HIDE DEF R
<1>3. PICK m \in T : \A n \in T : ~ (<<n, m>> \in R)
  BY <1>1, WFMin
<1>4. \A n \in T : ~ (n < m)
  BY <1>2, <1>3
<1>5. m \in Nat /\ \A n \in T : n \in Nat
  OBVIOUS
<1>6. \A n \in T : m <= n
  BY <1>4, <1>5
<1> QED
  BY <1>6

\* By the size of the set.
LEMMA Largest ==
    ASSUME NEW T \in SUBSET Nat, IsFiniteSet(T), T # {} PROVE \E m \in T : \A n \in T : n <= m
<1> DEFINE Top(S) == \E m \in S : \A n \in S : n <= m
           Sizes == {k \in Nat : \E S \in SUBSET Nat : IsFiniteSet(S) /\ Cardinality(S) = k /\ S # {} /\ ~Top(S)}
<1>1. SUFFICES ASSUME ~Top(T) PROVE FALSE
  OBVIOUS
<1>2. Cardinality(T) \in Sizes
  BY <1>1, FS_CardinalityType
<1>3. PICK k \in Sizes : \A n \in Sizes : k <= n
  BY <1>2, Smallest
<1>4. PICK S \in SUBSET Nat : IsFiniteSet(S) /\ Cardinality(S) = k /\ S # {} /\ ~Top(S)
  BY <1>3
<1>5. PICK t \in S : TRUE
  BY <1>4
<1>6. IsFiniteSet(S \ {t}) /\ Cardinality(S \ {t}) = k - 1
  BY <1>4, FS_RemoveElement
<1>7. k \in Nat /\ k - 1 \in Nat /\ k - 1 < k
  <2>1. Cardinality(S \ {t}) \in Nat
    BY <1>6, FS_CardinalityType
  <2> QED
    BY <1>3, <1>6, <2>1
<1>8. CASE S \ {t} = {}
  <2>1. S = {t}
    BY <1>5, <1>8
  <2>2. t \in Nat /\ t <= t
    BY <1>5
  <2> QED
    BY <1>4, <2>1, <2>2
<1>9. CASE S \ {t} # {}
  <2>1. k - 1 \notin Sizes
    <3>1. ASSUME k - 1 \in Sizes PROVE k <= k - 1
      BY <1>3, <3>1
    <3> QED
      BY <1>7, <3>1
  <2>2. Top(S \ {t})
    BY <1>6, <1>7, <1>9, <2>1
  <2>3. PICK m \in S \ {t} : \A n \in S \ {t} : n <= m
    BY <2>2
  <2>4. m \in Nat /\ t \in Nat /\ t <= t
    BY <1>4, <1>5
  <2>5. CASE t <= m
    BY <1>4, <2>3, <2>5
  <2>6. CASE m <= t
    <3>1. \A n \in S : n \in Nat
      BY <1>4
    <3>2. \A n \in S : n <= t
      BY <2>3, <2>4, <2>6, <3>1
    <3> QED
      BY <1>4, <3>2
  <2> QED
    BY <2>4, <2>5, <2>6
<1> QED
  BY <1>8, <1>9

LEMMA FirstIsThere ==
    ASSUME NEW S \in SUBSET Candidates, S # {} PROVE First(S) \in S
<1> DEFINE T == {x.c : x \in S}
<1>1. T \in SUBSET Nat /\ T # {}
  <2>1. \A x \in S : x.c \in Consents
    BY DEF Candidates
  <2>2. \A c \in Consents : c \in Nat
    BY LedgerAssumption
  <2> QED
    BY <2>1, <2>2
<1>2. PICK m \in T : \A n \in T : m <= n
  BY <1>1, Smallest
<1>3. \E x \in S : \A y \in S : x.c <= y.c
  BY <1>2
<1> QED
  BY <1>3 DEF First

LEMMA PolicyTyped ==
    ASSUME LedgerTypeOK
    PROVE  /\ \A s \in Subjects : PolicyOf(s) \in Policies
           /\ \A p : \A r \in Revisions : Resolve(r, p) \in Policies /\ Resolve(r, p) \in DOMAIN Rules[r]
           /\ \A p : \A r \in Revisions : Period(r, p) \in Nat
<1>1. \A s \in Subjects : PolicyOf(s) \in Policies
  BY LedgerAssumption DEF LedgerTypeOK, PolicyOf
<1>2. \A p : \A r \in Revisions : Resolve(r, p) \in Policies /\ Resolve(r, p) \in DOMAIN Rules[r]
  BY LedgerAssumption DEF Resolve
<1>3. \A r \in Revisions, p \in Policies : p \in DOMAIN Rules[r] => Rules[r][p].period \in Nat
  BY LedgerAssumption
<1> QED
  BY <1>1, <1>2, <1>3 DEF Period

-----------------------------------------------------------------------------
(***************************************************************************)
(* What a change does to the row it is about, and to no other.             *)
(***************************************************************************)

\* Of the rows of f only the one of x may differ in g.
Only(f, g, D, x) == \A y \in D : y # x => g[y] = f[y]

LEMMA EntryTyped ==
    ASSUME LedgerTypeOK, NEW c \in Consents, NEW i \in DOMAIN ledger[c]
    PROVE  /\ ledger[c][i].at \in Nat /\ ledger[c][i].at > 0 /\ ledger[c][i].period \in Nat
           /\ ledger[c][i].action \in {"GRANT", "WITHDRAW", "RECONFIRM_NOTICE"}
<1>1. PICK q \in Seq(Entries) : q = ledger[c]
  BY DEF LedgerTypeOK
<1>2. \A j \in DOMAIN q : q[j] \in Entries
  OBVIOUS
<1> QED
  BY <1>1, <1>2 DEF Entries

\* The times of the events S, if one of them is the newest.
LEMMA LastAtIs ==
    ASSUME LedgerTypeOK, NEW c \in Consents, NEW S \in SUBSET (DOMAIN ledger[c]),
           S = {} \/ \E n \in S : \A i \in S : ledger[c][i].at <= ledger[c][n].at
    PROVE  /\ LastAt(c, S) \in Nat
           /\ \A i \in S : ledger[c][i].at <= LastAt(c, S)
           /\ S = {} => LastAt(c, S) = 0
           /\ S # {} => LastAt(c, S) > 0 /\ \E i \in S : LastAt(c, S) = ledger[c][i].at
<1>1. CASE S = {}
  BY <1>1 DEF LastAt
<1>2. CASE S # {}
  <2> DEFINE T == {ledger[c][i].at : i \in S}
  <2>1. \A i \in S : ledger[c][i].at \in Nat /\ ledger[c][i].at > 0
    BY EntryTyped
  <2>2. \E t \in T : \A i \in S : ledger[c][i].at <= t
    BY <1>2
  <2>3. LastAt(c, S) = CHOOSE t \in T : \A i \in S : ledger[c][i].at <= t
    BY <1>2 DEF LastAt
  <2> HIDE DEF T
  <2>4. LastAt(c, S) \in T /\ \A i \in S : ledger[c][i].at <= LastAt(c, S)
    BY <2>2, <2>3
  <2>5. PICK i \in S : LastAt(c, S) = ledger[c][i].at
    BY <2>4 DEF T
  <2>6. LastAt(c, S) \in Nat /\ LastAt(c, S) > 0
    BY <2>1, <2>5
  <2> QED
    BY <1>2, <2>4, <2>5, <2>6
<1> QED
  BY <1>1, <1>2

\* An event at the end of a ledger leaves those before it.
LEMMA Appended ==
    ASSUME LedgerTypeOK, NEW c \in Consents, NEW action, NEW at, NEW period,
           [action |-> action, at |-> at, period |-> period] \in Entries, AppendEvent(c, action, at, period)
    PROVE  /\ ledger' \in [Consents -> Seq(Entries)]
           /\ Only(ledger, ledger', Consents, c)
           /\ Len(ledger[c]) + 1 \notin DOMAIN ledger[c]
           /\ DOMAIN ledger'[c] = DOMAIN ledger[c] \cup {Len(ledger[c]) + 1}
           /\ \A i \in DOMAIN ledger[c] : i < Len(ledger[c]) + 1 /\ ledger'[c][i] = ledger[c][i]
           /\ ledger'[c][Len(ledger[c]) + 1] = [action |-> action, at |-> at, period |-> period]
<1>1. PICK v \in Entries : v = [action |-> action, at |-> at, period |-> period]
  OBVIOUS
<1>2. ledger' = [ledger EXCEPT ![c] = Append(ledger[c], v)]
  BY <1>1 DEF AppendEvent
<1>3. PICK q \in Seq(Entries) : q = ledger[c]
  BY DEF LedgerTypeOK
<1>4. /\ Append(q, v) \in Seq(Entries) /\ Len(q) \in Nat
      /\ DOMAIN Append(q, v) = DOMAIN q \cup {Len(q) + 1} /\ Len(q) + 1 \notin DOMAIN q
      /\ \A i \in DOMAIN q : i < Len(q) + 1 /\ Append(q, v)[i] = q[i]
      /\ Append(q, v)[Len(q) + 1] = v
  OBVIOUS
<1>5. ledger' \in [Consents -> Seq(Entries)] /\ ledger'[c] = Append(q, v) /\ Only(ledger, ledger', Consents, c)
  BY <1>2, <1>3, <1>4 DEF LedgerTypeOK, Only
<1> QED
  BY <1>1, <1>3, <1>4, <1>5

LEMMA EventTyped == ASSUME LedgerTypeOK, NEW feature, Event(feature) PROVE events' \in Nat
BY DEF LedgerTypeOK, Event

LEMMA RowTyped == NoRow \in Rows /\ NoRow.due = 0 /\ NoRow.notice = 0 /\ NoRow.at = 0
BY DEF NoRow, Rows

\* What is scheduled is a period away from the grant and from the notice.
LEMMA DueTyped ==
    ASSUME LedgerTypeOK, NEW r \in Revisions, NEW p \in Policies, NEW granted \in BOOLEAN, NEW at \in Nat, NEW notice \in Nat
    PROVE  LET dueAt == ReconfirmDue(r, p, granted, at, notice)
           IN  /\ dueAt \in Nat
               /\ dueAt > 0 => dueAt >= at + Period(r, p) /\ dueAt >= notice + Period(r, p)
<1>1. PICK period \in Nat : period = Period(r, p)
  BY PolicyTyped
<1>2. PICK t \in Nat : t = Later(at, notice) /\ t >= at /\ t >= notice
  BY DEF Later
<1>3. ReconfirmDue(r, p, granted, at, notice) = IF granted /\ period > 0 THEN t + period ELSE 0
  BY <1>1, <1>2 DEF ReconfirmDue
<1>4. t + period >= at + period /\ t + period >= notice + period /\ t + period \in Nat
  BY <1>2
<1> QED
  BY <1>1, <1>3, <1>4

LEMMA IndicesTyped ==
    ASSUME LedgerTypeOK, NEW c \in Consents
    PROVE  /\ Changes(c) \in SUBSET DOMAIN ledger[c] /\ Notices(c) \in SUBSET DOMAIN ledger[c]
           /\ DOMAIN ledger[c] \in SUBSET Nat
           /\ \A i \in DOMAIN ledger[c] : i \in Notices(c) <=> ledger[c][i].action = "RECONFIRM_NOTICE"
           /\ Changes(c) \cup Notices(c) = DOMAIN ledger[c] /\ Changes(c) \cap Notices(c) = {}
<1>1. PICK q \in Seq(Entries) : q = ledger[c]
  BY DEF LedgerTypeOK
<1>2. DOMAIN q \in SUBSET Nat
  OBVIOUS
<1> QED
  BY <1>1, <1>2 DEF Changes, Notices

\* A change: its time is after the changes before it, and its row is due a
\* period after it and after every notice.
LEMMA Committed ==
    ASSUME LedgerTypeOK, LedgerInv, NEW w \in Updates, CommitConsent(w)
    PROVE  \E c \in Consents, at \in Nat \ {0}, granted \in BOOLEAN :
              /\ upd' = [upd EXCEPT ![w] = NoUpdate]
              /\ AppendEvent(c, IF granted THEN "GRANT" ELSE "WITHDRAW", at, 0)
              /\ \A i \in Changes(c) : ledger[c][i].at < at
              /\ row' \in [Consents -> Rows] /\ Only(row, row', Consents, c)
              /\ row'[c].granted = granted /\ row'[c].at = at /\ row'[c].notice = row[c].notice
              /\ row'[c].revision \in Revisions /\ row'[c].policy \in Policies
              /\ row'[c].due > 0 =>
                    /\ row'[c].due >= at + Period(row'[c].revision, row'[c].policy)
                    /\ \A n \in Notices(c) :
                          row'[c].due >= ledger[c][n].at + Period(row'[c].revision, row'[c].policy)
<1> DEFINE u == upd[w]
           dueAt == ReconfirmDue(u.revision, u.policy, u.granted, Stamped(w), LastAt(u.c, Notices(u.c)))
<1>1. u.c \in Consents /\ u.granted \in BOOLEAN /\ u.at \in Nat /\ u.at > 0 /\ u.policy \in Policies /\ u.revision \in Revisions
  BY DEF CommitConsent, LedgerTypeOK, Changing
<1>2. PICK c \in Consents : c = u.c
  BY <1>1
<1>3. Stamped(w) \in Nat /\ Stamped(w) > 0 /\ \A i \in Changes(c) : ledger[c][i].at < Stamped(w)
  <2>1. PICK previous \in Nat : /\ previous = LastAt(c, Changes(c))
                                /\ \A i \in Changes(c) : ledger[c][i].at <= previous /\ previous > 0
    <3>1. Changes(c) = {} \/ \E n \in Changes(c) : \A i \in Changes(c) : ledger[c][i].at <= ledger[c][n].at
      <4>1. ASSUME NEW n \in Changes(c), IsLast(c, n), NEW i \in Changes(c) PROVE ledger[c][i].at <= ledger[c][n].at
        <5>1. i \in Nat /\ n \in Nat /\ i <= n /\ ledger[c][i].at \in Nat /\ ledger[c][n].at \in Nat
          BY <4>1, IndicesTyped, EntryTyped DEF IsLast
        <5>2. i < n => ledger[c][i].at < ledger[c][n].at
          BY DEF LedgerInv
        <5> QED
          BY <5>1, <5>2
      <4> QED
        BY <4>1 DEF LedgerInv
    <3> QED
      BY <3>1, LastAtIs, IndicesTyped
  <2>2. \A i \in Changes(c) : ledger[c][i].at \in Nat
    BY IndicesTyped, EntryTyped
  <2>3. Stamped(w) = IF previous > 0 /\ u.at <= previous THEN previous + 1 ELSE u.at
    BY <1>2, <2>1 DEF Stamped
  <2>4. PICK t \in Nat : t = u.at /\ t > 0
    BY <1>1
  <2>5. Stamped(w) \in Nat /\ Stamped(w) > 0 /\ (previous > 0 => previous < Stamped(w))
    BY <2>3, <2>4
  <2>6. ASSUME NEW i \in Changes(c) PROVE ledger[c][i].at < Stamped(w)
    BY <2>1, <2>2, <2>5
  <2> QED
    BY <2>5, <2>6
<1>4. PICK notice \in Nat : /\ notice = LastAt(c, Notices(c))
                            /\ \A n \in Notices(c) : ledger[c][n].at <= notice
  <2>1. Notices(c) = {} \/ \E n \in Notices(c) : \A i \in Notices(c) : ledger[c][i].at <= ledger[c][n].at
    BY DEF LedgerInv, IsNewest
  <2> QED
    BY <2>1, LastAtIs, IndicesTyped
<1>5. PICK period \in Nat : period = Period(u.revision, u.policy)
  BY <1>1, PolicyTyped
<1>6. dueAt \in Nat /\ (dueAt > 0 => dueAt >= Stamped(w) + period /\ dueAt >= notice + period)
  BY <1>1, <1>2, <1>3, <1>4, <1>5, DueTyped
<1>7. ASSUME dueAt > 0, NEW n \in Notices(c) PROVE dueAt >= ledger[c][n].at + period
  <2>1. ledger[c][n].at \in Nat /\ ledger[c][n].at <= notice
    BY <1>4, IndicesTyped, EntryTyped
  <2>2. ledger[c][n].at + period <= notice + period
    BY <2>1
  <2> HIDE DEF dueAt
  <2> QED
    BY <1>6, <1>7, <2>1, <2>2
<1>8. row' = [row EXCEPT ![c] = [granted |-> u.granted, at |-> Stamped(w), notice |-> row[c].notice, due |-> dueAt,
                                 policy |-> u.policy, revision |-> u.revision]]
  BY <1>2 DEF CommitConsent
<1>9. /\ upd' = [upd EXCEPT ![w] = NoUpdate]
      /\ AppendEvent(c, IF u.granted THEN "GRANT" ELSE "WITHDRAW", Stamped(w), 0)
  BY <1>2 DEF CommitConsent
<1> HIDE DEF dueAt, u
<1>10. /\ row' \in [Consents -> Rows] /\ Only(row, row', Consents, c)
       /\ row'[c].granted = u.granted /\ row'[c].at = Stamped(w) /\ row'[c].notice = row[c].notice /\ row'[c].due = dueAt
       /\ row'[c].revision = u.revision /\ row'[c].policy = u.policy
  <2>1. row \in [Consents -> Rows] /\ row[c].notice \in Nat
    BY DEF LedgerTypeOK, Rows
  <2>2. [granted |-> u.granted, at |-> Stamped(w), notice |-> row[c].notice, due |-> dueAt,
         policy |-> u.policy, revision |-> u.revision] \in Rows
    BY <1>1, <1>3, <1>6, <2>1 DEF Rows
  <2> QED
    BY <1>8, <2>1, <2>2 DEF Only
<1> QED
  BY <1>1, <1>3, <1>5, <1>6, <1>7, <1>9, <1>10

\* No scan gets a candidate or another clock.
Shrunk ==
    \A f \in Engines : /\ scan'[f].todo \subseteq scan[f].todo
                       /\ scan'[f].todo = {} \/ (scan'[f].pc = scan[f].pc /\ scan'[f].at = scan[f].at)

LEMMA Taken ==
    ASSUME LedgerTypeOK, NEW e \in Engines, NEW x, scan' = [scan EXCEPT ![e].todo = @ \ {x}]
    PROVE  scan' \in [Engines -> Scans] /\ Shrunk
<1>1. scan[e] \in Scans /\ scan \in [Engines -> Scans]
  BY DEF LedgerTypeOK
<1>2. /\ scan' \in [Engines -> Scans] /\ scan'[e].todo = scan[e].todo \ {x}
      /\ scan'[e].pc = scan[e].pc /\ scan'[e].at = scan[e].at
      /\ \A f \in Engines : f # e => scan'[f] = scan[f]
  BY <1>1 DEF Scans
<1> QED
  BY <1>2 DEF Shrunk

\* A schedule is written if its row is as it was read.
LEMMA Rescheduled ==
    ASSUME LedgerTypeOK, NEW e \in Engines, ReconcileRow(e)
    PROVE  /\ scan' \in [Engines -> Scans] /\ Shrunk
           /\ \/ row' = row
              \/ \E c \in Consents :
                    /\ row[c] # NoRow
                    /\ row' \in [Consents -> Rows] /\ Only(row, row', Consents, c)
                    /\ row'[c].granted = row[c].granted /\ row'[c].at = row[c].at /\ row'[c].notice = row[c].notice
                    /\ row'[c].revision \in Revisions /\ row'[c].policy \in Policies
                    /\ row'[c].due > 0 =>
                          /\ row'[c].due >= row[c].at + Period(row'[c].revision, row'[c].policy)
                          /\ row'[c].due >= row[c].notice + Period(row'[c].revision, row'[c].policy)
<1>1. PICK x \in Candidates : x = First(scan[e].todo)
  BY FirstIsThere DEF ReconcileRow, LedgerTypeOK, Scans
<1>2. scan' = [scan EXCEPT ![e].todo = @ \ {x}]
  BY <1>1 DEF ReconcileRow
<1>3. x.c \in Consents /\ x.granted \in BOOLEAN /\ x.at \in Nat /\ x.notice \in Nat /\ x.policy \in Policies
  BY DEF Candidates
<1>4. revision[e] \in Revisions
  BY DEF LedgerTypeOK
<1>5. PICK dueAt \in Nat : /\ dueAt = ReconfirmDue(revision[e], x.policy, x.granted, x.at, x.notice)
                           /\ dueAt > 0 => /\ dueAt >= x.at + Period(revision[e], x.policy)
                                           /\ dueAt >= x.notice + Period(revision[e], x.policy)
  BY <1>3, <1>4, DueTyped
<1>6. \/ row' = row
      \/ /\ row[x.c] # NoRow /\ row[x.c].at = x.at /\ row[x.c].notice = x.notice
         /\ row' = [row EXCEPT ![x.c].due = dueAt, ![x.c].policy = x.policy, ![x.c].revision = revision[e]]
  BY <1>1, <1>5 DEF ReconcileRow
<1>7. CASE row' = row
  BY <1>2, <1>7, Taken
<1>8. CASE /\ row[x.c] # NoRow /\ row[x.c].at = x.at /\ row[x.c].notice = x.notice
           /\ row' = [row EXCEPT ![x.c].due = dueAt, ![x.c].policy = x.policy, ![x.c].revision = revision[e]]
  <2>1. PICK c \in Consents, p \in Policies, r \in Revisions : c = x.c /\ p = x.policy /\ r = revision[e]
    BY <1>3, <1>4
  <2>2. /\ row[c] # NoRow /\ row[c].at = x.at /\ row[c].notice = x.notice
        /\ row' = [row EXCEPT ![c].due = dueAt, ![c].policy = p, ![c].revision = r]
    BY <1>8, <2>1
  <2>3. /\ row' \in [Consents -> Rows] /\ Only(row, row', Consents, c)
        /\ row'[c].granted = row[c].granted /\ row'[c].at = row[c].at /\ row'[c].notice = row[c].notice
        /\ row'[c].due = dueAt /\ row'[c].policy = p /\ row'[c].revision = r
    <3>1. row[c] \in Rows /\ row \in [Consents -> Rows]
      BY DEF LedgerTypeOK
    <3> QED
      BY <2>2, <3>1 DEF Rows, Only
  <2>4. dueAt > 0 => dueAt >= row[c].at + Period(r, p) /\ dueAt >= row[c].notice + Period(r, p)
    BY <1>5, <2>1, <2>2
  <2>5. scan' \in [Engines -> Scans] /\ Shrunk
    BY <1>2, Taken
  <2> QED
    BY <2>2, <2>3, <2>4, <2>5
<1> QED
  BY <1>6, <1>7, <1>8

\* A notice is written if the row is still due by the clock of the scan.
LEMMA Noticed ==
    ASSUME LedgerTypeOK, NEW e \in Engines, EmitReconfirmNotice(e)
    PROVE  /\ scan' \in [Engines -> Scans] /\ Shrunk
           /\ \/ UNCHANGED <<ledger, outbox, row>>
              \/ \E x \in scan[e].todo : \E period \in Nat \ {0} :
                    /\ scan[e].pc = "notify" /\ x \in Candidates
                    /\ row[x.c].granted /\ row[x.c].at = x.at
                    /\ period = Period(row[x.c].revision, row[x.c].policy)
                    /\ row[x.c].due > 0 /\ row[x.c].due <= scan[e].at
                    /\ AppendEvent(x.c, "RECONFIRM_NOTICE", scan[e].at, period)
                    /\ outbox' = Append(outbox, [type |-> "consent.reconfirm_due", subject |-> SubjectOf[x.c],
                                                 published |-> FALSE])
                    /\ row' \in [Consents -> Rows] /\ Only(row, row', Consents, x.c)
                    /\ row'[x.c].granted = row[x.c].granted /\ row'[x.c].at = row[x.c].at
                    /\ row'[x.c].policy = row[x.c].policy /\ row'[x.c].revision = row[x.c].revision
                    /\ row'[x.c].notice = scan[e].at /\ row'[x.c].due = scan[e].at + period
<1>1. PICK x \in scan[e].todo : x = First(scan[e].todo) /\ x \in Candidates
  BY FirstIsThere DEF EmitReconfirmNotice, LedgerTypeOK, Scans
<1>2. scan' = [scan EXCEPT ![e].todo = @ \ {x}] /\ scan[e].pc = "notify"
  BY <1>1 DEF EmitReconfirmNotice
<1>3. x.c \in Consents /\ x.policy \in Policies
  BY <1>1 DEF Candidates
<1>4. scan[e].at \in Nat /\ revision[e] \in Revisions /\ row[x.c].due \in Nat
  BY <1>3 DEF LedgerTypeOK, Scans, Rows
<1>5. PICK period \in Nat : period = Period(revision[e], x.policy)
  BY <1>3, <1>4, PolicyTyped
<1>6. \/ UNCHANGED <<ledger, outbox, row>>
      \/ /\ period > 0 /\ StillDue(e, x)
         /\ AppendEvent(x.c, "RECONFIRM_NOTICE", scan[e].at, period)
         /\ outbox' = Append(outbox, [type |-> "consent.reconfirm_due", subject |-> SubjectOf[x.c],
                                      published |-> FALSE])
         /\ row' = [row EXCEPT ![x.c].notice = scan[e].at, ![x.c].due = scan[e].at + period]
  BY <1>1, <1>5 DEF EmitReconfirmNotice
<1>7. CASE UNCHANGED <<ledger, outbox, row>>
  BY <1>2, <1>7, Taken
<1>8. CASE /\ period > 0 /\ StillDue(e, x)
           /\ AppendEvent(x.c, "RECONFIRM_NOTICE", scan[e].at, period)
           /\ outbox' = Append(outbox, [type |-> "consent.reconfirm_due", subject |-> SubjectOf[x.c],
                                        published |-> FALSE])
           /\ row' = [row EXCEPT ![x.c].notice = scan[e].at, ![x.c].due = scan[e].at + period]
  <2>1. /\ row[x.c].granted /\ row[x.c].at = x.at /\ row[x.c].policy = x.policy /\ row[x.c].revision = revision[e]
        /\ row[x.c].due \in 1 .. scan[e].at
    BY <1>8 DEF StillDue, Current
  <2>2. row[x.c].due > 0 /\ row[x.c].due <= scan[e].at /\ scan[e].at + period \in Nat
    BY <1>4, <2>1
  <2>3. /\ row' \in [Consents -> Rows] /\ Only(row, row', Consents, x.c)
        /\ row'[x.c].granted = row[x.c].granted /\ row'[x.c].at = row[x.c].at /\ row'[x.c].notice = scan[e].at
        /\ row'[x.c].due = scan[e].at + period
        /\ row'[x.c].policy = row[x.c].policy /\ row'[x.c].revision = row[x.c].revision
    <3>1. PICK c \in Consents, at \in Nat, dueAt \in Nat : c = x.c /\ at = scan[e].at /\ dueAt = scan[e].at + period
      BY <1>3, <1>4, <2>2
    <3>2. row' = [row EXCEPT ![c].notice = at, ![c].due = dueAt]
      BY <1>8, <3>1
    <3>3. row[c] \in Rows /\ row \in [Consents -> Rows]
      BY DEF LedgerTypeOK
    <3>4. /\ row' \in [Consents -> Rows] /\ Only(row, row', Consents, c)
          /\ row'[c].granted = row[c].granted /\ row'[c].at = row[c].at /\ row'[c].notice = at
          /\ row'[c].due = dueAt /\ row'[c].policy = row[c].policy /\ row'[c].revision = row[c].revision
      BY <3>2, <3>3 DEF Rows, Only
    <3> QED
      BY <3>1, <3>4
  <2>4. scan' \in [Engines -> Scans] /\ Shrunk
    BY <1>2, Taken
  <2>5. period \in Nat \ {0} /\ period = Period(row[x.c].revision, row[x.c].policy)
    BY <1>5, <1>8, <2>1
  <2> QED
    BY <1>1, <1>2, <1>8, <2>1, <2>2, <2>3, <2>4, <2>5
<1> QED
  BY <1>6, <1>7, <1>8

LEMMA CandidateTyped ==
    ASSUME LedgerTypeOK, NEW c \in Consents
    PROVE  Candidate(c) \in Candidates /\ Candidate(c).c = c /\ Candidate(c).at = row[c].at
<1>1. row[c] \in Rows /\ SubjectOf[c] \in Subjects
  BY LedgerAssumption DEF LedgerTypeOK
<1>2. PolicyOf(SubjectOf[c]) \in Policies
  BY <1>1, PolicyTyped
<1> QED
  BY <1>1, <1>2 DEF Candidate, Candidates, Rows

\* What the scan of e reads, in either of its two reads: rows that are there.
ReadRows(e) ==
    /\ scan' \in [Engines -> Scans] /\ Only(scan, scan', Engines, e)
    /\ \A x \in scan'[e].todo : row[x.c] # NoRow /\ row[x.c].at = x.at
    /\ scan'[e].pc = "notify" => scan'[e].at = now

LEMMA PageRead == ASSUME LedgerTypeOK, NEW e \in Engines, ReconcileRead(e) PROVE ReadRows(e)
<1> DEFINE rest == {c \in Present : c > scan[e].cursor}
           page == {c \in rest : Cardinality({d \in rest : d < c}) < conf.batch}
           todo == {Candidate(c) : c \in {d \in page : ~Current(e, d)}}
           cursor == IF Cardinality(page) < conf.batch THEN 0 ELSE CHOOSE c \in page : \A d \in page : d <= c
<1>1. scan' = [scan EXCEPT ![e] = [pc |-> "reconcile", at |-> 0, todo |-> todo, cursor |-> cursor]]
  BY DEF ReconcileRead
<1>2. page \in SUBSET Present /\ Present \in SUBSET Consents
  BY DEF Present
<1>3. cursor \in Consents \cup {0}
  <2> HIDE DEF page
  <2>1. IsFiniteSet(page) /\ page \in SUBSET Nat
    BY <1>2, LedgerAssumption, FS_Subset
  <2>2. CASE page = {}
    <3>1. Cardinality(page) = 0 /\ 0 < conf.batch
      BY <2>2, FS_EmptySet, LedgerAssumption DEF LedgerTypeOK
    <3> QED
      BY <3>1
  <2>3. CASE page # {}
    <3>1. \E c \in page : \A d \in page : d <= c
      BY <2>1, <2>3, Largest
    <3>2. (CHOOSE c \in page : \A d \in page : d <= c) \in page
      BY <3>1
    <3> QED
      BY <1>2, <3>2
  <2> QED
    BY <2>2, <2>3
<1>4. todo \in SUBSET Candidates /\ \A x \in todo : row[x.c] # NoRow /\ row[x.c].at = x.at
  <2> HIDE DEF page
  <2>1. \A c \in page : Candidate(c) \in Candidates /\ Candidate(c).c = c /\ Candidate(c).at = row[c].at /\ row[c] # NoRow
    BY <1>2, CandidateTyped DEF Present
  <2> QED
    BY <2>1
<1> HIDE DEF todo, cursor
<1>5. [pc |-> "reconcile", at |-> 0, todo |-> todo, cursor |-> cursor] \in Scans
  BY <1>3, <1>4 DEF Scans
<1> QED
  BY <1>1, <1>4, <1>5 DEF LedgerTypeOK, ReadRows, Only

LEMMA DueRead == ASSUME LedgerTypeOK, NEW e \in Engines, ScanReconfirmDue(e) PROVE ReadRows(e)
<1> DEFINE dueAt == {c \in Present : /\ row[c].granted /\ Current(e, c)
                                     /\ row[c].due \in 1 .. now
                                     /\ SubjectOf[c] \notin shredded}
           before(c, d) == row[c].due < row[d].due \/ (row[c].due = row[d].due /\ c < d)
           page == {d \in dueAt : Cardinality({b \in dueAt : before(b, d)}) < conf.batch}
           todo == {Candidate(c) : c \in page}
<1>1. scan' = [scan EXCEPT ![e].pc = "notify", ![e].at = now, ![e].todo = todo]
  BY DEF ScanReconfirmDue
<1>2. page \in SUBSET Present /\ Present \in SUBSET Consents
  BY DEF Present
<1>3. todo \in SUBSET Candidates /\ \A x \in todo : row[x.c] # NoRow /\ row[x.c].at = x.at
  <2> HIDE DEF page
  <2>1. \A c \in page : Candidate(c) \in Candidates /\ Candidate(c).c = c /\ Candidate(c).at = row[c].at /\ row[c] # NoRow
    BY <1>2, CandidateTyped DEF Present
  <2> QED
    BY <2>1
<1> HIDE DEF todo
<1>4. scan[e] \in Scans /\ scan \in [Engines -> Scans] /\ now \in Nat
  BY DEF LedgerTypeOK
<1>5. /\ scan' \in [Engines -> Scans] /\ Only(scan, scan', Engines, e)
      /\ scan'[e].todo = todo /\ scan'[e].at = now
  BY <1>1, <1>3, <1>4 DEF Scans, Only
<1> QED
  BY <1>3, <1>5 DEF ReadRows

-----------------------------------------------------------------------------
(***************************************************************************)
(* The invariant of the ledger, kind of step by kind of step.              *)
(***************************************************************************)

LEMMA IndexAdded ==
    ASSUME LedgerTypeOK, NEW c \in Consents, NEW action, NEW at, NEW period,
           [action |-> action, at |-> at, period |-> period] \in Entries, AppendEvent(c, action, at, period)
    PROVE  \E n \in Nat :
              /\ \A d \in Consents : d # c => /\ ledger'[d] = ledger[d]
                                              /\ Changes(d)' = Changes(d) /\ Notices(d)' = Notices(d)
              /\ n \notin DOMAIN ledger[c]
              /\ \A i \in DOMAIN ledger[c] : i < n /\ ledger'[c][i] = ledger[c][i]
              /\ ledger'[c][n].action = action /\ ledger'[c][n].at = at /\ ledger'[c][n].period = period
              /\ action = "RECONFIRM_NOTICE" => Changes(c)' = Changes(c) /\ Notices(c)' = Notices(c) \cup {n}
              /\ action # "RECONFIRM_NOTICE" => Changes(c)' = Changes(c) \cup {n} /\ Notices(c)' = Notices(c)
<1>1. PICK n \in Nat : n = Len(ledger[c]) + 1
  <2>1. PICK q \in Seq(Entries) : q = ledger[c]
    BY DEF LedgerTypeOK
  <2> QED
    BY <2>1
<1>2. /\ Only(ledger, ledger', Consents, c)
      /\ n \notin DOMAIN ledger[c] /\ DOMAIN ledger'[c] = DOMAIN ledger[c] \cup {n}
      /\ \A i \in DOMAIN ledger[c] : i < n /\ ledger'[c][i] = ledger[c][i]
      /\ ledger'[c][n] = [action |-> action, at |-> at, period |-> period]
  BY <1>1, Appended
<1>3. \A d \in Consents : d # c => ledger'[d] = ledger[d]
  BY <1>2 DEF Only
<1>4. \A d \in Consents : d # c => Changes(d)' = Changes(d) /\ Notices(d)' = Notices(d)
  BY <1>3 DEF Changes, Notices
<1>5. ledger'[c][n].action = action /\ ledger'[c][n].at = at /\ ledger'[c][n].period = period
  BY <1>2
<1>6. action = "RECONFIRM_NOTICE" => Changes(c)' = Changes(c) /\ Notices(c)' = Notices(c) \cup {n}
  BY <1>2, <1>5 DEF Changes, Notices
<1>7. action # "RECONFIRM_NOTICE" => Changes(c)' = Changes(c) \cup {n} /\ Notices(c)' = Notices(c)
  BY <1>2, <1>5 DEF Changes, Notices
<1> QED
  BY <1>2, <1>3, <1>4, <1>5, <1>6, <1>7

\* No subject that is erased becomes one that is not.
Erasing == \A s \in Subjects : Deleted(s) => Deleted(s)'

LEMMA SubjectTyped == \A c \in Consents : SubjectOf[c] \in Subjects
BY LedgerAssumption

\* Time passes, scans drop candidates, subjects are erased.
LEMMA QuietKeeps ==
    ASSUME LedgerTypeOK, ConsentInv, ledger' = ledger, now' \in Nat, now <= now', Erasing, Shrunk,
           \A c \in Consents : \/ row'[c] = row[c]
                               \/ row'[c] = NoRow /\ Deleted(SubjectOf[c])'
    PROVE  ConsentInv'
<1>1. \A c \in Consents : Changes(c)' = Changes(c) /\ Notices(c)' = Notices(c)
  BY DEF Changes, Notices
<1>2. \A c \in Consents : \A i : IsLast(c, i)' = IsLast(c, i) /\ IsNewest(c, i)' = IsNewest(c, i)
  BY <1>1 DEF IsLast, IsNewest
<1>3. LedgerInv'
  <2>1. ASSUME NEW c \in Consents, NEW n \in Notices(c) PROVE ledger[c][n].at <= now'
    <3>1. ledger[c][n].at <= now
      BY DEF ConsentInv, LedgerInv
    <3>2. ledger[c][n].at \in Nat /\ now \in Nat
      BY IndicesTyped, EntryTyped DEF LedgerTypeOK
    <3> QED
      BY <3>1, <3>2
  <2> QED
    BY <1>1, <1>2, <2>1 DEF ConsentInv, LedgerInv
<1>4. RowInv'
  <2>1. \A c \in Consents : Deleted(SubjectOf[c]) => Deleted(SubjectOf[c])'
    BY SubjectTyped DEF Erasing
  <2> QED
    BY <1>1, <1>2, <2>1 DEF ConsentInv, RowInv, Mirrors
<1>5. ScanInv'
  <2>1. ASSUME NEW e \in Engines, NEW x \in scan'[e].todo
        PROVE  /\ x \in scan[e].todo /\ x.c \in Consents /\ x.at \in Nat
               /\ scan'[e].pc = scan[e].pc /\ scan'[e].at = scan[e].at
    BY <2>1 DEF Shrunk, LedgerTypeOK, Scans, Candidates
  <2>2. ASSUME NEW e \in Engines, NEW x \in scan'[e].todo, scan'[e].pc = "notify"
        PROVE  /\ scan'[e].at <= now'
               /\ row'[x.c] # NoRow /\ row'[x.c].at = x.at =>
                    \A n \in Notices(x.c)' : ledger'[x.c][n].at <= scan'[e].at \/ ledger'[x.c][n].at <= row'[x.c].notice
    <3>1. scan[e].at <= now /\ scan[e].at \in Nat /\ now \in Nat
      BY <2>1, <2>2 DEF ConsentInv, ScanInv, Knows, LedgerTypeOK, Scans
    <3>2. scan[e].at <= now'
      BY <3>1
    <3> QED
      BY <1>1, <2>1, <2>2, <3>2 DEF ConsentInv, ScanInv, Knows
  <2> QED
    BY <1>1, <2>1, <2>2 DEF ConsentInv, ScanInv, Knows
<1>6. DueInv'
  <2>1. \A c \in Consents : Deleted(SubjectOf[c]) => Deleted(SubjectOf[c])'
    BY SubjectTyped DEF Erasing
  <2> QED
    BY <1>1, <2>1 DEF ConsentInv, DueInv, Due
<1> QED
  BY <1>3, <1>4, <1>5, <1>6 DEF ConsentInv

\* A commit is about one consent; nothing else is disturbed.
LEMMA CommitKeeps == ASSUME LedgerTypeOK, ConsentInv, NEW w \in Updates, CommitConsent(w) PROVE ConsentInv'
<1>1. PICK c \in Consents, at \in Nat \ {0}, granted \in BOOLEAN :
              /\ AppendEvent(c, IF granted THEN "GRANT" ELSE "WITHDRAW", at, 0)
              /\ \A i \in Changes(c) : ledger[c][i].at < at
              /\ row' \in [Consents -> Rows] /\ Only(row, row', Consents, c)
              /\ row'[c].granted = granted /\ row'[c].at = at /\ row'[c].notice = row[c].notice
              /\ row'[c].revision \in Revisions /\ row'[c].policy \in Policies
              /\ row'[c].due > 0 =>
                    /\ row'[c].due >= at + Period(row'[c].revision, row'[c].policy)
                    /\ \A n \in Notices(c) :
                          row'[c].due >= ledger[c][n].at + Period(row'[c].revision, row'[c].policy)
  BY Committed DEF ConsentInv
<1>2. PICK action \in {"GRANT", "WITHDRAW"} : action = IF granted THEN "GRANT" ELSE "WITHDRAW"
  OBVIOUS
<1>3. [action |-> action, at |-> at, period |-> 0] \in Entries
  BY DEF Entries
<1>4. AppendEvent(c, action, at, 0)
  BY <1>1, <1>2
<1>5. PICK n \in Nat :
              /\ \A d \in Consents : d # c => /\ ledger'[d] = ledger[d]
                                              /\ Changes(d)' = Changes(d) /\ Notices(d)' = Notices(d)
              /\ n \notin DOMAIN ledger[c]
              /\ \A i \in DOMAIN ledger[c] : i < n /\ ledger'[c][i] = ledger[c][i]
              /\ ledger'[c][n].action = action /\ ledger'[c][n].at = at
              /\ Changes(c)' = Changes(c) \cup {n} /\ Notices(c)' = Notices(c)
  BY <1>3, <1>4, IndexAdded
<1>6. UNCHANGED <<now, scan, request>>
  BY DEF CommitConsent, intakeVars
<1>7. \A s : Deleted(s)' = Deleted(s)
  BY <1>6 DEF Deleted
<1>8. /\ \A d \in Consents : Changes(d) \subseteq DOMAIN ledger[d] /\ Notices(d) \subseteq DOMAIN ledger[d]
      /\ \A i \in Changes(c) \cup Notices(c) : i \in Nat /\ i < n /\ ledger'[c][i] = ledger[c][i]
  BY <1>5, IndicesTyped
<1>9. IsLast(c, n)' /\ \A i : IsLast(c, i)' => i = n
  <2>1. n <= n /\ \A i \in Changes(c) : i <= n /\ ~(n <= i)
    BY <1>8
  <2> QED
    BY <1>5, <2>1 DEF IsLast
<1>10. \A i : IsNewest(c, i)' = IsNewest(c, i)
  BY <1>5, <1>8 DEF IsNewest
<1>11. \A d \in Consents : \A i : d # c => IsLast(d, i)' = IsLast(d, i) /\ IsNewest(d, i)' = IsNewest(d, i)
  BY <1>5 DEF IsLast, IsNewest
<1>12. LedgerInv'
  <2>1. ASSUME NEW d \in Consents, d # c
        PROVE  /\ \A i, j \in Changes(d)' : i < j => ledger'[d][i].at < ledger'[d][j].at
               /\ Changes(d)' # {} => \E i \in Changes(d)' : IsLast(d, i)'
               /\ Notices(d)' # {} => \E k \in Notices(d)' : IsNewest(d, k)'
               /\ \A k \in Notices(d)' : ledger'[d][k].at <= now'
    BY <1>5, <1>6, <1>11, <2>1 DEF ConsentInv, LedgerInv
  <2>2. \A i, j \in Changes(c)' : i < j => ledger'[c][i].at < ledger'[c][j].at
    <3>1. \A i, j \in Changes(c) : i < j => ledger[c][i].at < ledger[c][j].at
      BY DEF ConsentInv, LedgerInv
    <3>2. \A i \in Changes(c) : ~(n < i) /\ ~(n < n)
      BY <1>8
    <3> QED
      BY <1>1, <1>5, <1>8, <3>1, <3>2
  <2>3. n \in Changes(c)' /\ IsLast(c, n)'
    BY <1>5, <1>9
  <2>4. Notices(c)' # {} => \E k \in Notices(c)' : IsNewest(c, k)'
    BY <1>5, <1>10 DEF ConsentInv, LedgerInv
  <2>5. \A k \in Notices(c)' : ledger'[c][k].at <= now'
    BY <1>5, <1>6, <1>8 DEF ConsentInv, LedgerInv
  <2> QED
    BY <2>1, <2>2, <2>3, <2>4, <2>5 DEF LedgerInv
<1>13. RowInv'
  <2>1. ASSUME NEW d \in Consents, d # c PROVE row'[d] = row[d]
    BY <1>1, <2>1 DEF Only
  <2>2. row'[c] # NoRow
    BY <1>1, RowTyped
  <2>3. IsLast(c, n)' /\ n \in Changes(c)' /\ row'[c].at = ledger'[c][n].at
        /\ row'[c].granted = (ledger'[c][n].action = "GRANT")
    BY <1>1, <1>2, <1>5, <1>9
  <2>4. row'[c].notice = 0 \/ \E k \in Notices(c)' : IsNewest(c, k)' /\ row'[c].notice = ledger'[c][k].at
    <3>1. row[c].notice = 0 \/ \E k \in Notices(c) : IsNewest(c, k) /\ row[c].notice = ledger[c][k].at
      BY RowTyped DEF ConsentInv, RowInv, Mirrors
    <3> QED
      BY <1>1, <1>5, <1>8, <1>10, <3>1
  <2>5. Deleted(SubjectOf[c])' \/ \A k \in Notices(c)' : ledger'[c][k].at <= row'[c].notice
    BY <1>1, <1>5, <1>7, <1>8 DEF ConsentInv, RowInv, Mirrors
  <2>6. row'[c].due > 0 =>
                   /\ row'[c].revision \in Revisions /\ row'[c].policy \in Policies
                   /\ row'[c].due >= row'[c].at + Period(row'[c].revision, row'[c].policy)
                   /\ row'[c].due >= row'[c].notice + Period(row'[c].revision, row'[c].policy)
    <3>1. PICK period \in Nat : period = Period(row'[c].revision, row'[c].policy)
      BY <1>1, PolicyTyped
    <3>2. row'[c].due \in Nat /\ row[c].notice \in Nat
      BY <1>1 DEF Rows, LedgerTypeOK
    <3>3. CASE row[c].notice = 0
      <4>1. row'[c].notice = 0
        BY <1>1, <3>3
      <4>2. row'[c].due > 0 => row'[c].due >= 0 + period
        BY <1>1, <3>1, <3>2
      <4> QED
        BY <1>1, <3>1, <4>1, <4>2
    <3>4. CASE row[c].notice # 0
      BY <1>1, <3>1, <3>4, RowTyped DEF ConsentInv, RowInv, Mirrors
    <3> QED
      BY <3>3, <3>4
  <2>7. \A d \in Consents : d # c => \A k \in Notices(d) : ledger'[d][k].at = ledger[d][k].at
    BY <1>5
  <2>8. ASSUME NEW d \in Consents, d # c PROVE Mirrors(d)'
    BY <1>5, <1>7, <1>11, <2>1, <2>8 DEF ConsentInv, RowInv, Mirrors
  <2>9. Mirrors(c)'
    BY <2>2, <2>3, <2>4, <2>5, <2>6 DEF Mirrors
  <2> QED
    BY <2>8, <2>9 DEF RowInv
<1>14. ScanInv'
  <2>1. ASSUME NEW e \in Engines, NEW x \in scan[e].todo PROVE x.c \in Consents /\ x.at \in Nat
    BY DEF LedgerTypeOK, Scans, Candidates
  <2>2. ASSUME NEW e \in Engines, NEW x \in scan[e].todo PROVE \E i \in Changes(x.c)' : ledger'[x.c][i].at = x.at
    <3>1. PICK i \in Changes(x.c) : ledger[x.c][i].at = x.at
      BY DEF ConsentInv, ScanInv, Knows
    <3> QED
      BY <1>5, <1>8, <2>1, <3>1
  <2>3. ASSUME NEW e \in Engines, NEW x \in scan[e].todo, scan[e].pc = "notify", row'[x.c] # NoRow, row'[x.c].at = x.at,
               NEW k \in Notices(x.c)'
        PROVE  ledger'[x.c][k].at <= scan[e].at \/ ledger'[x.c][k].at <= row'[x.c].notice
    <3>1. x.c # c
      <4>1. ASSUME x.c = c PROVE FALSE
        <5>1. PICK i \in Changes(c) : ledger[c][i].at = x.at
          BY <4>1 DEF ConsentInv, ScanInv, Knows
        <5>2. x.at < at /\ x.at = at
          BY <1>1, <2>3, <4>1, <5>1
        <5> QED
          BY <2>1, <5>2
      <4> QED
        BY <4>1
    <3>2. row'[x.c] = row[x.c] /\ ledger'[x.c] = ledger[x.c] /\ Notices(x.c)' = Notices(x.c)
      BY <1>1, <1>5, <2>1, <3>1 DEF Only
    <3> QED
      BY <2>3, <3>2 DEF ConsentInv, ScanInv, Knows
  <2> QED
    BY <1>6, <2>2, <2>3 DEF ConsentInv, ScanInv, Knows
<1>15. DueInv'
  <2>1. ASSUME NEW d \in Consents, d # c, NEW k \in Notices(d)' PROVE Due(d, k)'
    BY <1>5, <1>7, <2>1 DEF ConsentInv, DueInv, Due
  <2>2. ASSUME NEW k \in Notices(c)' PROVE Due(c, k)'
    <3>1. k \in Notices(c) /\ k < n /\ k \in Nat /\ ~(n < k)
      BY <1>5, <1>8
    <3>2. Due(c, k)
      BY <3>1 DEF ConsentInv, DueInv
    <3>3. \A i : i \in Changes(c)' /\ i < k <=> i \in Changes(c) /\ i < k
      BY <1>5, <3>1
    <3>4. \A i \in Changes(c) \cup Notices(c) : ledger'[c][i] = ledger[c][i]
      BY <1>8
    <3> QED
      BY <1>5, <1>7, <3>1, <3>2, <3>3, <3>4 DEF Due
  <2> QED
    BY <2>1, <2>2 DEF DueInv
<1> QED
  BY <1>12, <1>13, <1>14, <1>15 DEF ConsentInv

\* A schedule that is written is still a period away from the grant and the
\* notice of its row.
LEMMA RescheduleKeeps == ASSUME LedgerTypeOK, ConsentInv, NEW e \in Engines, ReconcileRow(e) PROVE ConsentInv'
<1>1. UNCHANGED <<now, ledger, request>> /\ scan' \in [Engines -> Scans] /\ Shrunk
  BY Rescheduled DEF ReconcileRow, intakeVars
<1>2. \A s : Deleted(s)' = Deleted(s)
  BY <1>1 DEF Deleted
<1>3. CASE row' = row
  <2>1. now' \in Nat /\ now <= now'
    BY <1>1 DEF LedgerTypeOK
  <2>2. Erasing
    BY <1>2 DEF Erasing
  <2> QED
    BY <1>1, <1>3, <2>1, <2>2, QuietKeeps
<1>4. CASE row' # row
  <2>1. PICK c \in Consents :
                    /\ row[c] # NoRow
                    /\ row' \in [Consents -> Rows] /\ Only(row, row', Consents, c)
                    /\ row'[c].granted = row[c].granted /\ row'[c].at = row[c].at /\ row'[c].notice = row[c].notice
                    /\ row'[c].revision \in Revisions /\ row'[c].policy \in Policies
                    /\ row'[c].due > 0 =>
                          /\ row'[c].due >= row[c].at + Period(row'[c].revision, row'[c].policy)
                          /\ row'[c].due >= row[c].notice + Period(row'[c].revision, row'[c].policy)
    BY <1>4, Rescheduled
  <2>2. \A d \in Consents : Changes(d)' = Changes(d) /\ Notices(d)' = Notices(d)
    BY <1>1 DEF Changes, Notices
  <2>3. \A d \in Consents : \A i : IsLast(d, i)' = IsLast(d, i) /\ IsNewest(d, i)' = IsNewest(d, i)
    BY <1>1, <2>2 DEF IsLast, IsNewest
  <2>4. LedgerInv' /\ DueInv'
    BY <1>1, <1>2, <2>2, <2>3 DEF ConsentInv, LedgerInv, DueInv, Due
  <2>5. \A d \in Consents : d # c => row'[d] = row[d]
    BY <2>1 DEF Only
  <2>6. row'[c] # NoRow
    <3>1. PICK i \in Changes(c) : row[c].at = ledger[c][i].at
      BY <2>1 DEF ConsentInv, RowInv, Mirrors
    <3>2. row'[c].at > 0
      BY <2>1, <3>1, IndicesTyped, EntryTyped
    <3> QED
      BY <3>2, RowTyped
  <2>7. Mirrors(c)'
    BY <1>1, <1>2, <2>1, <2>2, <2>3, <2>6 DEF ConsentInv, RowInv, Mirrors
  <2>8. ASSUME NEW d \in Consents, d # c PROVE Mirrors(d)'
    BY <1>1, <1>2, <2>2, <2>3, <2>5, <2>8 DEF ConsentInv, RowInv, Mirrors
  <2>9. RowInv'
    BY <2>7, <2>8 DEF RowInv
  <2>10. \A d \in Consents : row'[d].at = row[d].at /\ row'[d].notice = row[d].notice /\ (row'[d] = NoRow => row[d] = NoRow)
    BY <2>1, <2>5, <2>6
  <2>11. ASSUME NEW f \in Engines, NEW x \in scan'[f].todo
         PROVE  /\ x \in scan[f].todo /\ x.c \in Consents
                /\ scan'[f].pc = scan[f].pc /\ scan'[f].at = scan[f].at
    BY <1>1, <2>11 DEF Shrunk, LedgerTypeOK, Scans, Candidates
  <2>12. \A d \in Consents : row'[d] # NoRow => row[d] # NoRow
    BY <2>1, <2>5
  <2>13. ASSUME NEW f \in Engines, NEW x \in scan'[f].todo PROVE Knows(f, x)'
    <3>1. Knows(f, x) /\ x.c \in Consents
      BY <2>11 DEF ConsentInv, ScanInv
    <3> QED
      BY <1>1, <2>2, <2>10, <2>11, <2>12, <3>1 DEF Knows
  <2>14. ScanInv'
    BY <2>13 DEF ScanInv
  <2> QED
    BY <2>4, <2>9, <2>14 DEF ConsentInv
<1> QED
  BY <1>3, <1>4

\* A row that is read is its last change, and the clock of the scan is ahead
\* of every notice.
LEMMA ReadKeeps ==
    ASSUME LedgerTypeOK, ConsentInv, NEW e \in Engines, ReadRows(e), UNCHANGED <<now, ledger, row, request>>
    PROVE  ConsentInv'
<1>1. \A d \in Consents : Changes(d)' = Changes(d) /\ Notices(d)' = Notices(d)
  BY DEF Changes, Notices
<1>2. \A d \in Consents : \A i : IsLast(d, i)' = IsLast(d, i) /\ IsNewest(d, i)' = IsNewest(d, i)
  BY <1>1 DEF IsLast, IsNewest
<1>3. \A s : Deleted(s)' = Deleted(s)
  BY DEF Deleted
<1>4. LedgerInv' /\ DueInv' /\ RowInv'
  BY <1>1, <1>2, <1>3 DEF ConsentInv, LedgerInv, DueInv, Due, RowInv, Mirrors
<1>5. ASSUME NEW f \in Engines, NEW x \in scan'[f].todo, f # e
      PROVE  x \in scan[f].todo /\ scan'[f] = scan[f] /\ x.c \in Consents
  BY <1>5 DEF ReadRows, Only, LedgerTypeOK, Scans, Candidates
<1>6. ASSUME NEW x \in scan'[e].todo
      PROVE  /\ \E i \in Changes(x.c) : ledger[x.c][i].at = x.at
             /\ x.c \in Consents
             /\ \A n \in Notices(x.c) : ledger[x.c][n].at <= now
  <2>1. x.c \in Consents /\ row[x.c] # NoRow /\ row[x.c].at = x.at
    BY <1>6 DEF ReadRows, Scans, Candidates
  <2> QED
    BY <2>1 DEF ConsentInv, RowInv, Mirrors, LedgerInv
<1>7. now <= now
  BY DEF LedgerTypeOK
<1>8. ASSUME NEW f \in Engines, NEW x \in scan'[f].todo PROVE Knows(f, x)'
  <2>1. CASE f # e
    BY <1>1, <1>5, <2>1 DEF ConsentInv, ScanInv, Knows
  <2>2. CASE f = e
    BY <1>1, <1>6, <1>7, <2>2 DEF ReadRows, Knows
  <2> QED
    BY <2>1, <2>2
<1>9. ScanInv'
  BY <1>8 DEF ScanInv
<1> QED
  BY <1>4, <1>9 DEF ConsentInv

\* A notice that is written comes a period after the grant and the notice its
\* row knows of, and is the newest of its consent.
LEMMA NoticeKeeps == ASSUME LedgerTypeOK, ConsentInv, NEW e \in Engines, EmitReconfirmNotice(e) PROVE ConsentInv'
<1>1. UNCHANGED <<now, request>> /\ scan' \in [Engines -> Scans] /\ Shrunk
  BY Noticed DEF EmitReconfirmNotice
<1>2. \A s : Deleted(s)' = Deleted(s)
  BY <1>1 DEF Deleted
<1>3. CASE UNCHANGED <<ledger, outbox, row>>
  <2>1. now' \in Nat /\ now <= now'
    BY <1>1 DEF LedgerTypeOK
  <2>2. Erasing
    BY <1>2 DEF Erasing
  <2> QED
    BY <1>1, <1>3, <2>1, <2>2, QuietKeeps
<1>4. CASE \E x \in scan[e].todo : \E period \in Nat \ {0} :
                    /\ scan[e].pc = "notify" /\ x \in Candidates
                    /\ row[x.c].granted /\ row[x.c].at = x.at
                    /\ period = Period(row[x.c].revision, row[x.c].policy)
                    /\ row[x.c].due > 0 /\ row[x.c].due <= scan[e].at
                    /\ AppendEvent(x.c, "RECONFIRM_NOTICE", scan[e].at, period)
                    /\ outbox' = Append(outbox, [type |-> "consent.reconfirm_due", subject |-> SubjectOf[x.c],
                                                 published |-> FALSE])
                    /\ row' \in [Consents -> Rows] /\ Only(row, row', Consents, x.c)
                    /\ row'[x.c].granted = row[x.c].granted /\ row'[x.c].at = row[x.c].at
                    /\ row'[x.c].policy = row[x.c].policy /\ row'[x.c].revision = row[x.c].revision
                    /\ row'[x.c].notice = scan[e].at /\ row'[x.c].due = scan[e].at + period
  <2>1. PICK x \in scan[e].todo : \E period \in Nat \ {0} :
                    /\ scan[e].pc = "notify" /\ x \in Candidates
                    /\ row[x.c].granted /\ row[x.c].at = x.at
                    /\ period = Period(row[x.c].revision, row[x.c].policy)
                    /\ row[x.c].due > 0 /\ row[x.c].due <= scan[e].at
                    /\ AppendEvent(x.c, "RECONFIRM_NOTICE", scan[e].at, period)
                    /\ row' \in [Consents -> Rows] /\ Only(row, row', Consents, x.c)
                    /\ row'[x.c].granted = row[x.c].granted /\ row'[x.c].at = row[x.c].at
                    /\ row'[x.c].policy = row[x.c].policy /\ row'[x.c].revision = row[x.c].revision
                    /\ row'[x.c].notice = scan[e].at /\ row'[x.c].due = scan[e].at + period
    BY <1>4
  <2>2. PICK c \in Consents, t \in Nat : c = x.c /\ t = scan[e].at
    BY <2>1 DEF LedgerTypeOK, Scans, Candidates
  <2>3. PICK period \in Nat \ {0} :
                    /\ row[c].granted /\ row[c].at = x.at
                    /\ period = Period(row[c].revision, row[c].policy)
                    /\ row[c].due > 0 /\ row[c].due <= t
                    /\ AppendEvent(c, "RECONFIRM_NOTICE", t, period)
                    /\ row' \in [Consents -> Rows] /\ Only(row, row', Consents, c)
                    /\ row'[c].granted = row[c].granted /\ row'[c].at = row[c].at
                    /\ row'[c].policy = row[c].policy /\ row'[c].revision = row[c].revision
                    /\ row'[c].notice = t /\ row'[c].due = t + period
    BY <2>1, <2>2
  <2>4. row[c] # NoRow /\ row'[c] # NoRow
    BY <2>2, <2>3, RowTyped
  <2>5. row[c].at \in Nat /\ row[c].notice \in Nat /\ row[c].due \in Nat
    BY DEF LedgerTypeOK, Rows
  <2>6. /\ row[c].revision \in Revisions /\ row[c].policy \in Policies
        /\ row[c].at + period <= t /\ row[c].notice + period <= t /\ 0 < t
    <3>1. row[c].due >= row[c].at + period /\ row[c].due >= row[c].notice + period
          /\ row[c].revision \in Revisions /\ row[c].policy \in Policies
      BY <2>3, <2>4 DEF ConsentInv, RowInv, Mirrors
    <3> QED
      BY <2>3, <2>5, <3>1
  <2>7. PICK i0 \in Changes(c) :
           IsLast(c, i0) /\ row[c].at = ledger[c][i0].at /\ ledger[c][i0].action = "GRANT"
    BY <2>3, <2>4 DEF ConsentInv, RowInv, Mirrors
  <2>8. t <= now /\ \A k \in Notices(c) : ledger[c][k].at \in Nat /\ ledger[c][k].at <= t
    <3>1. Knows(e, x) /\ scan[e].pc = "notify"
      BY <2>1 DEF ConsentInv, ScanInv
    <3>2. t <= now /\ \A k \in Notices(c) : ledger[c][k].at <= t \/ ledger[c][k].at <= row[c].notice
      BY <2>2, <2>3, <2>4, <3>1 DEF Knows
    <3>3. \A k \in Notices(c) : ledger[c][k].at \in Nat
      BY IndicesTyped, EntryTyped
    <3>4. row[c].notice <= t
      BY <2>5, <2>6
    <3> QED
      BY <2>5, <3>2, <3>3, <3>4
  <2>9. [action |-> "RECONFIRM_NOTICE", at |-> t, period |-> period] \in Entries
    BY <2>6 DEF Entries
  <2>10. PICK n \in Nat :
              /\ \A d \in Consents : d # c => /\ ledger'[d] = ledger[d]
                                              /\ Changes(d)' = Changes(d) /\ Notices(d)' = Notices(d)
              /\ n \notin DOMAIN ledger[c]
              /\ \A i \in DOMAIN ledger[c] : i < n /\ ledger'[c][i] = ledger[c][i]
              /\ ledger'[c][n].at = t /\ ledger'[c][n].period = period
              /\ Changes(c)' = Changes(c) /\ Notices(c)' = Notices(c) \cup {n}
    BY <2>3, <2>9, IndexAdded
  <2>11. \A i \in Changes(c) \cup Notices(c) : i \in Nat /\ i < n /\ ~(n < i) /\ ledger'[c][i] = ledger[c][i]
    BY <2>10, IndicesTyped
  <2>12. /\ \A d \in Consents : \A i : IsLast(d, i)' = IsLast(d, i)
         /\ \A d \in Consents : \A i : d # c => IsNewest(d, i)' = IsNewest(d, i)
    BY <2>10 DEF IsLast, IsNewest
  <2>13. IsNewest(c, n)'
    <3>1. t <= t
      OBVIOUS
    <3> QED
      BY <2>8, <2>10, <2>11, <3>1 DEF IsNewest
  <2>14. \A d \in Consents : d # c => row'[d] = row[d]
    BY <2>3 DEF Only
  <2>15. LedgerInv'
    <3>1. ASSUME NEW d \in Consents, d # c
          PROVE  /\ \A i, j \in Changes(d)' : i < j => ledger'[d][i].at < ledger'[d][j].at
                 /\ Changes(d)' # {} => \E i \in Changes(d)' : IsLast(d, i)'
                 /\ Notices(d)' # {} => \E k \in Notices(d)' : IsNewest(d, k)'
                 /\ \A k \in Notices(d)' : ledger'[d][k].at <= now'
      BY <1>1, <2>10, <2>12, <3>1 DEF ConsentInv, LedgerInv
    <3>2. \A i, j \in Changes(c)' : i < j => ledger'[c][i].at < ledger'[c][j].at
      BY <2>10, <2>11 DEF ConsentInv, LedgerInv
    <3>3. \E i \in Changes(c)' : IsLast(c, i)'
      BY <2>7, <2>10, <2>12
    <3>4. \E k \in Notices(c)' : IsNewest(c, k)'
      BY <2>10, <2>13
    <3>5. \A k \in Notices(c)' : ledger'[c][k].at <= now'
      BY <1>1, <2>8, <2>10, <2>11 DEF ConsentInv, LedgerInv
    <3> QED
      BY <3>1, <3>2, <3>3, <3>4, <3>5 DEF LedgerInv
  <2>16. RowInv'
    <3>1. ASSUME NEW d \in Consents, d # c PROVE Mirrors(d)'
      BY <1>2, <2>10, <2>12, <2>14, <3>1 DEF ConsentInv, RowInv, Mirrors
    <3>2. i0 \in Changes(c)' /\ IsLast(c, i0)' /\ row'[c].at = ledger'[c][i0].at
          /\ row'[c].granted = (ledger'[c][i0].action = "GRANT")
      <4>1. row[c].granted \in BOOLEAN
        BY DEF LedgerTypeOK, Rows
      <4> QED
        BY <2>3, <2>7, <2>10, <2>11, <2>12, <4>1
    <3>3. row'[c].notice = ledger'[c][n].at /\ n \in Notices(c)' /\ IsNewest(c, n)'
      BY <2>3, <2>10, <2>13
    <3>4. \A k \in Notices(c)' : ledger'[c][k].at <= row'[c].notice
      BY <2>3, <2>8, <2>10, <2>11
    <3>5. /\ row'[c].revision \in Revisions /\ row'[c].policy \in Policies
          /\ row'[c].due >= row'[c].at + Period(row'[c].revision, row'[c].policy)
          /\ row'[c].due >= row'[c].notice + Period(row'[c].revision, row'[c].policy)
      <4>1. period = Period(row'[c].revision, row'[c].policy)
        BY <2>3
      <4>2. t + period >= row[c].at + period /\ t + period >= t + period
        BY <2>5, <2>6
      <4> QED
        BY <2>3, <2>6, <4>1, <4>2
    <3>6. Mirrors(c)'
      BY <2>4, <3>2, <3>3, <3>4, <3>5 DEF Mirrors
    <3> QED
      BY <3>1, <3>6 DEF RowInv
  <2>17. ScanInv'
    <3>1. ASSUME NEW f \in Engines, NEW y \in scan'[f].todo
          PROVE  /\ Knows(f, y) /\ y.c \in Consents
                 /\ scan'[f].pc = scan[f].pc /\ scan'[f].at = scan[f].at /\ scan[f].at \in Nat
      BY <1>1, <3>1 DEF Shrunk, LedgerTypeOK, Scans, Candidates, ConsentInv, ScanInv
    <3>2. ASSUME NEW f \in Engines, NEW y \in scan'[f].todo, y.c # c PROVE Knows(f, y)'
      <4>1. /\ row'[y.c] = row[y.c] /\ ledger'[y.c] = ledger[y.c]
            /\ Changes(y.c)' = Changes(y.c) /\ Notices(y.c)' = Notices(y.c)
        BY <2>10, <2>14, <3>1, <3>2
      <4> QED
        BY <1>1, <3>1, <4>1 DEF Knows
    <3>3. ASSUME NEW f \in Engines, NEW y \in scan'[f].todo, y.c = c PROVE Knows(f, y)'
      <4>1. \E i \in Changes(c)' : ledger'[c][i].at = y.at
        BY <2>10, <2>11, <3>1, <3>3 DEF Knows
      <4>2. \A k \in Notices(c)' : ledger'[c][k].at <= row'[c].notice
        BY <2>3, <2>8, <2>10, <2>11
      <4> QED
        BY <1>1, <3>1, <3>3, <4>1, <4>2 DEF Knows
    <3> QED
      BY <3>2, <3>3 DEF ScanInv
  <2>18. DueInv'
    <3>1. ASSUME NEW d \in Consents, d # c, NEW k \in Notices(d)' PROVE Due(d, k)'
      BY <1>2, <2>10, <3>1 DEF ConsentInv, DueInv, Due
    <3>2. ASSUME NEW k \in Notices(c) PROVE Due(c, k)'
      <4>1. Due(c, k)
        BY DEF ConsentInv, DueInv
      <4>2. ~(n < k)
        BY <2>11
      <4>3. \A j : j \in Notices(c)' /\ j < k <=> j \in Notices(c) /\ j < k
        BY <2>10, <4>2
      <4> QED
        BY <1>2, <2>10, <2>11, <4>1, <4>3 DEF Due
    <3>3. Due(c, n)'
      <4>1. \E i \in Changes(c)' : i < n
        BY <2>7, <2>10, <2>11
      <4>2. ASSUME NEW i \in Changes(c)', i < n, \A j \in Changes(c)' : j < n => j <= i
            PROVE  ledger'[c][i].action = "GRANT" /\ ledger'[c][n].at >= ledger'[c][i].at + ledger'[c][n].period
        <5>1. i0 <= i /\ i <= i0 /\ i \in Nat /\ i0 \in Nat
          BY <2>7, <2>10, <2>11, <4>2 DEF IsLast
        <5>2. i = i0
          BY <5>1
        <5> QED
          BY <2>5, <2>6, <2>7, <2>10, <2>11, <5>2
      <4>3. ASSUME ~Deleted(SubjectOf[c]), NEW j \in Notices(c)', j < n
            PROVE  ledger'[c][n].at >= ledger'[c][j].at + ledger'[c][n].period
        <5>1. j \in Notices(c)
          BY <2>10, <4>3
        <5>2. ledger[c][j].at <= row[c].notice
          BY <2>4, <4>3, <5>1 DEF ConsentInv, RowInv, Mirrors
        <5>3. ledger[c][j].at + period <= t
          BY <2>5, <2>6, <2>8, <5>1, <5>2
        <5> QED
          BY <2>8, <2>10, <2>11, <5>1, <5>3
      <4> QED
        BY <1>2, <4>1, <4>2, <4>3 DEF Due
    <3> QED
      BY <2>10, <3>1, <3>2, <3>3 DEF DueInv
  <2> QED
    BY <2>15, <2>16, <2>17, <2>18 DEF ConsentInv
<1> QED
  BY <1>3, <1>4, Noticed

-----------------------------------------------------------------------------
(***************************************************************************)
(* Requests and events are added, and only their state changes.            *)
(***************************************************************************)

Requesting ==
    \/ request' = request
    \/ \E v \in Asked : /\ request' = Append(request, v)
                        /\ v.key > 0 => /\ v.key \in DOMAIN outbox /\ v.subject = outbox[v.key].subject
                                        /\ \A i \in DOMAIN request : request[i].key # v.key
    \/ \E i \in DOMAIN request, verdict \in {"CANCELED", "DONE"} :
          request[i].status = "REQUESTED" /\ request' = [request EXCEPT ![i].status = verdict]

LEMMA RequestsStay ==
    ASSUME LedgerTypeOK, Requesting
    PROVE  /\ request' \in Seq(Asked) /\ Erasing
           /\ \A i \in DOMAIN request : /\ i \in DOMAIN request' /\ request'[i].subject = request[i].subject
                                        /\ request'[i].key = request[i].key
<1>1. PICK q \in Seq(Asked) : q = request
  BY DEF LedgerTypeOK
<1>2. CASE request' = request
  BY <1>1, <1>2 DEF Erasing, Deleted
<1>3. ASSUME NEW v \in Asked, request' = Append(request, v)
      PROVE  /\ request' \in Seq(Asked) /\ Erasing
             /\ \A i \in DOMAIN q : i \in DOMAIN request' /\ request'[i] = q[i]
  <2>1. Append(q, v) \in Seq(Asked) /\ \A i \in DOMAIN q : i \in DOMAIN Append(q, v) /\ Append(q, v)[i] = q[i]
    OBVIOUS
  <2> QED
    BY <1>1, <1>3, <2>1 DEF Erasing, Deleted
<1>4. ASSUME NEW i \in DOMAIN request, NEW verdict \in {"CANCELED", "DONE"}, request[i].status = "REQUESTED",
             request' = [request EXCEPT ![i].status = verdict]
      PROVE  /\ request' \in Seq(Asked) /\ Erasing
             /\ \A j \in DOMAIN q : j \in DOMAIN request' /\ request'[j].subject = q[j].subject /\ request'[j].key = q[j].key
  <2>1. \A j \in DOMAIN q : q[j] \in Asked
    OBVIOUS
  <2>2. [q[i] EXCEPT !.status = verdict] \in Asked /\ [q[i] EXCEPT !.status = verdict].subject = q[i].subject
        /\ [q[i] EXCEPT !.status = verdict].key = q[i].key
    BY <1>1, <2>1 DEF Asked
  <2>3. PICK v \in Asked : v = [q[i] EXCEPT !.status = verdict] /\ v.subject = q[i].subject /\ v.key = q[i].key
    BY <2>2
  <2>4. request' = [q EXCEPT ![i] = v]
    BY <1>1, <1>4, <2>3
  <2>5. request' \in Seq(Asked) /\ DOMAIN request' = DOMAIN q /\ request'[i] = v /\ \A j \in DOMAIN q : j # i => request'[j] = q[j]
    BY <1>1, <2>4
  <2> QED
    BY <1>1, <1>4, <2>3, <2>5 DEF Erasing, Deleted
<1> QED
  BY <1>1, <1>2, <1>3, <1>4 DEF Requesting

Posting ==
    \/ outbox' = outbox
    \/ \E v \in Posted : v.published = FALSE /\ outbox' = Append(outbox, v)
    \/ \E e \in Engines : disp[e].pc = "publish" /\ disp[e].x \in DOMAIN outbox
                          /\ outbox' = [outbox EXCEPT ![disp[e].x].published = TRUE]

LEMMA EventsStay ==
    ASSUME LedgerTypeOK, Posting
    PROVE  /\ outbox' \in Seq(Posted)
           /\ \A x \in DOMAIN outbox : /\ x \in DOMAIN outbox' /\ outbox'[x].subject = outbox[x].subject
                                       /\ outbox'[x].type = outbox[x].type
           /\ \A x \in DOMAIN outbox' : outbox'[x].published =>
                 \/ x \in DOMAIN outbox /\ outbox[x].published
                 \/ \E e \in Engines : disp[e].pc = "publish" /\ disp[e].x = x /\ x \in DOMAIN outbox
<1>1. PICK q \in Seq(Posted) : q = outbox
  BY DEF LedgerTypeOK
<1>2. CASE outbox' = outbox
  BY <1>1, <1>2
<1>3. ASSUME NEW v \in Posted, v.published = FALSE, outbox' = Append(q, v)
      PROVE  /\ outbox' \in Seq(Posted)
             /\ \A x \in DOMAIN q : x \in DOMAIN outbox' /\ outbox'[x] = q[x]
             /\ \A x \in DOMAIN outbox' : x \notin DOMAIN q => outbox'[x].published = FALSE
  <2>1. /\ Append(q, v) \in Seq(Posted) /\ \A x \in DOMAIN q : x \in DOMAIN Append(q, v) /\ Append(q, v)[x] = q[x]
        /\ \A x \in DOMAIN Append(q, v) : x \notin DOMAIN q => Append(q, v)[x] = v
    OBVIOUS
  <2> QED
    BY <1>3, <2>1
<1>4. ASSUME NEW e \in Engines, NEW y \in DOMAIN q, y = disp[e].x, disp[e].pc = "publish", outbox' = [q EXCEPT ![y].published = TRUE]
      PROVE  /\ outbox' \in Seq(Posted) /\ DOMAIN outbox' = DOMAIN q
             /\ \A x \in DOMAIN q : /\ outbox'[x].subject = q[x].subject /\ outbox'[x].type = q[x].type
                                    /\ x # y => outbox'[x] = q[x]
  <2>1. \A x \in DOMAIN q : q[x] \in Posted
    OBVIOUS
  <2>2. [q[y] EXCEPT !.published = TRUE] \in Posted /\ [q[y] EXCEPT !.published = TRUE].subject = q[y].subject
        /\ [q[y] EXCEPT !.published = TRUE].type = q[y].type
    BY <2>1 DEF Posted
  <2>3. PICK v \in Posted : v = [q[y] EXCEPT !.published = TRUE] /\ v.subject = q[y].subject /\ v.type = q[y].type
    BY <2>2
  <2>4. outbox' = [q EXCEPT ![y] = v]
    BY <1>4, <2>3
  <2>5. outbox' \in Seq(Posted) /\ DOMAIN outbox' = DOMAIN q /\ outbox'[y] = v /\ \A x \in DOMAIN q : x # y => outbox'[x] = q[x]
    BY <2>4
  <2> QED
    BY <2>3, <2>5
<1> QED
  BY <1>1, <1>2, <1>3, <1>4 DEF Posting

LEMMA KeysStay == ASSUME LedgerTypeOK, KeysInv, Requesting, Posting PROVE KeysInv'
<1>1. PICK q \in Seq(Asked) : q = request
  BY DEF LedgerTypeOK
<1>2. \A x \in DOMAIN outbox : x \in DOMAIN outbox' /\ outbox'[x].subject = outbox[x].subject
  BY EventsStay
<1>3. \A i \in DOMAIN request : request'[i].subject = request[i].subject /\ request'[i].key = request[i].key
  BY RequestsStay
<1>4. CASE DOMAIN request' = DOMAIN request
  BY <1>2, <1>3, <1>4 DEF KeysInv
<1>5. ASSUME NEW v \in Asked, request' = Append(request, v),
             v.key > 0 => /\ v.key \in DOMAIN outbox /\ v.subject = outbox[v.key].subject
                          /\ \A i \in DOMAIN request : request[i].key # v.key
      PROVE  KeysInv'
  <2>1. PICK n \in Nat : /\ n \notin DOMAIN q /\ DOMAIN request' = DOMAIN q \cup {n} /\ request'[n] = v
    <3>1. /\ Len(q) + 1 \in Nat /\ Len(q) + 1 \notin DOMAIN q
          /\ DOMAIN Append(q, v) = DOMAIN q \cup {Len(q) + 1} /\ Append(q, v)[Len(q) + 1] = v
      OBVIOUS
    <3> QED
      BY <1>1, <1>5, <3>1
  <2> QED
    BY <1>1, <1>2, <1>3, <1>5, <2>1 DEF KeysInv
<1>6. ASSUME NEW i \in DOMAIN request, NEW verdict, request' = [request EXCEPT ![i].status = verdict]
      PROVE  DOMAIN request' = DOMAIN request
  BY <1>6
<1>7. request' = request => DOMAIN request' = DOMAIN request
  OBVIOUS
<1> QED
  BY <1>4, <1>5, <1>6, <1>7 DEF Requesting

\* What was done for an event stays done, and what an engine knows of its
\* event stays true while it does not move.
LEMMA HandledStays ==
    ASSUME LedgerTypeOK, OutboxInv, Requesting, Posting, task \subseteq task'
    PROVE  /\ \A x \in DOMAIN outbox : x \in DOMAIN outbox' /\ (Handled(x) => Handled(x)')
           /\ \A x \in DOMAIN outbox' : outbox'[x].published => Handled(x)'
           /\ KeysInv'
           /\ \A e \in Engines : disp'[e] = disp[e] => Working(e)'
<1>1. \A x \in DOMAIN outbox : /\ x \in DOMAIN outbox' /\ outbox'[x].subject = outbox[x].subject
                               /\ outbox'[x].type = outbox[x].type
  BY EventsStay
<1>2. \A i \in DOMAIN request : i \in DOMAIN request' /\ request'[i].subject = request[i].subject
  BY RequestsStay
<1>3. ASSUME NEW x \in DOMAIN outbox, Handled(x) PROVE Handled(x)'
  BY <1>1, <1>2, <1>3 DEF Handled
<1>4. ASSUME NEW x \in DOMAIN outbox', outbox'[x].published PROVE Handled(x)'
  <2>1. CASE x \in DOMAIN outbox /\ outbox[x].published
    BY <1>3, <2>1 DEF OutboxInv
  <2>2. CASE \E e \in Engines : disp[e].pc = "publish" /\ disp[e].x = x /\ x \in DOMAIN outbox
    BY <1>3, <2>2 DEF OutboxInv, Working
  <2> QED
    BY <1>4, <2>1, <2>2, EventsStay
<1>5. KeysInv'
  BY KeysStay DEF OutboxInv
<1>6. ASSUME NEW e \in Engines, disp'[e] = disp[e] PROVE Working(e)'
  <2>1. Working(e)
    BY DEF OutboxInv
  <2> QED
    BY <1>1, <1>3, <1>6, <2>1 DEF Working
<1> QED
  BY <1>1, <1>3, <1>4, <1>5, <1>6

LEMMA Dispatched ==
    ASSUME LedgerTypeOK, NEW e \in Engines, NEW d \in Dispatchers, Turn(e, d)
    PROVE  disp' \in [Engines -> Dispatchers] /\ disp'[e] = d /\ Only(disp, disp', Engines, e)
BY DEF LedgerTypeOK, Turn, Only

LEMMA TurnTyped ==
    ASSUME NEW d \in Dispatchers
    PROVE  /\ NoDispatch \in Dispatchers /\ Forget(d) \in Dispatchers
           /\ Forget(d).batch \subseteq d.batch /\ Forget(d).pc = "next"
           /\ \A pc \in {"next", "create", "tasks", "publish"} :
                 [d EXCEPT !.pc = pc] \in Dispatchers /\ [d EXCEPT !.pc = pc].x = d.x
                 /\ [d EXCEPT !.pc = pc].batch = d.batch /\ [d EXCEPT !.pc = pc].dests = d.dests
                 /\ [d EXCEPT !.pc = pc].pc = pc
BY DEF Dispatchers, NoDispatch, Forget

\* The next event of a batch is the smallest.
LEMMA TakenEvent ==
    ASSUME LedgerTypeOK, OutboxInv, NEW e \in Engines, TakeEvent(e)
    PROVE  \/ Turn(e, NoDispatch)
           \/ \E x \in disp[e].batch : \E d \in Dispatchers :
                 /\ Turn(e, d) /\ d.x = x /\ d.batch = disp[e].batch /\ d.pc \in {"create", "tasks", "publish"}
                 /\ d.pc = "tasks" <=> outbox[x].type = "consent.reconfirm_due"
                 /\ d.pc = "tasks" => d.dests = Destinations
                 /\ d.pc = "publish" => Active(outbox[x].subject) \/ Deleted(outbox[x].subject)
<1>1. PICK d \in Dispatchers : d = disp[e]
  BY DEF LedgerTypeOK
<1>2. CASE d.batch = {}
  BY <1>1, <1>2 DEF TakeEvent
<1>3. CASE d.batch # {}
  <2>1. \E x \in d.batch : \A z \in d.batch : x <= z
    BY <1>3, Smallest DEF Dispatchers
  <2>2. PICK x \in d.batch : x = CHOOSE y \in d.batch : \A z \in d.batch : y <= z
    BY <2>1
  <2>3. PICK pc \in {"create", "tasks", "publish"} :
           pc = IF outbox[x].type = "consent.reconfirm_due" THEN "tasks"
                ELSE IF Active(outbox[x].subject) \/ Deleted(outbox[x].subject) THEN "publish" ELSE "create"
    OBVIOUS
  <2>4. PICK dests \in SUBSET Destinations : dests = IF pc = "tasks" THEN Destinations ELSE {}
    OBVIOUS
  <2>5. Turn(e, [d EXCEPT !.x = x, !.pc = pc, !.dests = dests])
    BY <1>1, <1>3, <2>2, <2>3, <2>4 DEF TakeEvent
  <2>6. x \in Nat
    BY DEF Dispatchers
  <2>7. PICK v : v = [d EXCEPT !.x = x, !.pc = pc, !.dests = dests]
    OBVIOUS
  <2>8. v \in Dispatchers /\ v.x = x /\ v.pc = pc /\ v.dests = dests /\ v.batch = d.batch
    BY <2>4, <2>6, <2>7 DEF Dispatchers
  <2>9. Turn(e, v)
    BY <2>5, <2>7
  <2> QED
    BY <1>1, <2>3, <2>4, <2>8, <2>9
<1> QED
  BY <1>2, <1>3

-----------------------------------------------------------------------------
(***************************************************************************)
(* Types, and what becomes of requests and events, action by action.       *)
(***************************************************************************)

Typed == LedgerTypeOK' /\ Requesting /\ Posting

LEMMA ChangeTyped == ASSUME LedgerTypeOK, ConsentInv, NEW w \in Updates PROVE
    /\ \A e \in Engines, c \in Consents, g \in BOOLEAN : UpdateConsent(w, e, c, g) => Typed
    /\ CommitConsent(w) => Typed
<1>1. ASSUME NEW e \in Engines, NEW c \in Consents, NEW g \in BOOLEAN, UpdateConsent(w, e, c, g) PROVE Typed
  <2>1. PICK p \in Policies, r \in Revisions : r = revision[e] /\ p = Resolve(r, PolicyOf(SubjectOf[c]))
    BY PolicyTyped DEF LedgerTypeOK
  <2>2. [pc |-> "sealed", c |-> c, granted |-> g, at |-> now, policy |-> p, revision |-> r] \in Changing
    BY DEF LedgerTypeOK, Changing
  <2>3. upd' = [upd EXCEPT ![w] = [pc |-> "sealed", c |-> c, granted |-> g, at |-> now, policy |-> p, revision |-> r]]
    BY <1>1, <2>1 DEF UpdateConsent
  <2>4. /\ upd' \in [Updates -> Changing]
        /\ \A v \in Updates : upd'[v].pc = "sealed" =>
              upd'[v].c \in Consents /\ upd'[v].at > 0 /\ upd'[v].policy \in Policies /\ upd'[v].revision \in Revisions
    BY <2>2, <2>3 DEF LedgerTypeOK
  <2>5. events' \in Nat
    BY <1>1, EventTyped DEF UpdateConsent
  <2> QED
    BY <1>1, <2>4, <2>5 DEF UpdateConsent, Typed, LedgerTypeOK, Requesting, Posting, ledgerVars, intakeVars
<1>2. ASSUME CommitConsent(w) PROVE Typed
  <2>1. PICK c \in Consents, at \in Nat \ {0}, granted \in BOOLEAN :
              /\ upd' = [upd EXCEPT ![w] = NoUpdate]
              /\ AppendEvent(c, IF granted THEN "GRANT" ELSE "WITHDRAW", at, 0)
              /\ row' \in [Consents -> Rows]
    BY <1>2, Committed DEF ConsentInv
  <2>2. PICK action \in {"GRANT", "WITHDRAW"} : action = IF granted THEN "GRANT" ELSE "WITHDRAW"
    OBVIOUS
  <2>3. ledger' \in [Consents -> Seq(Entries)]
    <3>1. [action |-> action, at |-> at, period |-> 0] \in Entries
      BY DEF Entries
    <3> QED
      BY <2>1, <2>2, <3>1, Appended
  <2>4. NoUpdate \in Changing /\ NoUpdate.pc # "sealed"
    BY DEF NoUpdate, Changing
  <2>5. /\ upd' \in [Updates -> Changing]
        /\ \A v \in Updates : upd'[v].pc = "sealed" =>
              upd'[v].c \in Consents /\ upd'[v].at > 0 /\ upd'[v].policy \in Policies /\ upd'[v].revision \in Revisions
    BY <2>1, <2>4 DEF LedgerTypeOK
  <2> QED
    BY <1>2, <2>1, <2>3, <2>5 DEF CommitConsent, Typed, LedgerTypeOK, Requesting, Posting, intakeVars
<1> QED
  BY <1>1, <1>2

LEMMA ScanTyped == ASSUME LedgerTypeOK, ConsentInv, NEW e \in Engines PROVE
    /\ ReconcileRead(e) => Typed
    /\ ReconcileRow(e) => Typed
    /\ ScanReconfirmDue(e) => Typed
    /\ EmitReconfirmNotice(e) => Typed
    /\ SkipCandidate(e) => Typed
    /\ EndScan(e) => Typed
<1>1. ASSUME ReconcileRead(e) PROVE Typed
  <2>1. scan' \in [Engines -> Scans]
    BY <1>1, PageRead DEF ReadRows
  <2>2. events' \in Nat
    BY <1>1, EventTyped DEF ReconcileRead
  <2> QED
    BY <1>1, <2>1, <2>2 DEF ReconcileRead, Typed, LedgerTypeOK, Requesting, Posting, ledgerVars, intakeVars
<1>2. ASSUME ReconcileRow(e) PROVE Typed
  <2>1. scan' \in [Engines -> Scans] /\ row' \in [Consents -> Rows]
    BY <1>2, Rescheduled DEF LedgerTypeOK
  <2> QED
    BY <1>2, <2>1 DEF ReconcileRow, Typed, LedgerTypeOK, Requesting, Posting, intakeVars
<1>3. ASSUME ScanReconfirmDue(e) PROVE Typed
  <2>1. scan' \in [Engines -> Scans]
    BY <1>3, DueRead DEF ReadRows
  <2> QED
    BY <1>3, <2>1 DEF ScanReconfirmDue, Typed, LedgerTypeOK, Requesting, Posting, ledgerVars, intakeVars
<1>4. ASSUME EmitReconfirmNotice(e) PROVE Typed
  <2>1. scan' \in [Engines -> Scans]
    BY <1>4, Noticed
  <2>2. row' \in [Consents -> Rows] /\ ledger' \in [Consents -> Seq(Entries)] /\ Posting
    <3>1. CASE UNCHANGED <<ledger, outbox, row>>
      BY <3>1 DEF LedgerTypeOK, Posting
    <3>2. CASE ~UNCHANGED <<ledger, outbox, row>>
      <4>1. PICK x \in scan[e].todo : \E period \in Nat \ {0} :
                    /\ x \in Candidates
                    /\ row[x.c].due > 0 /\ row[x.c].due <= scan[e].at
                    /\ AppendEvent(x.c, "RECONFIRM_NOTICE", scan[e].at, period)
                    /\ outbox' = Append(outbox, [type |-> "consent.reconfirm_due", subject |-> SubjectOf[x.c],
                                                 published |-> FALSE])
                    /\ row' \in [Consents -> Rows]
        BY <1>4, <3>2, Noticed
      <4>2. PICK c \in Consents, t \in Nat : c = x.c /\ t = scan[e].at
        BY <4>1 DEF LedgerTypeOK, Scans, Candidates
      <4>3. PICK period \in Nat \ {0} : AppendEvent(c, "RECONFIRM_NOTICE", t, period)
        BY <4>1, <4>2
      <4>4. row[c].due \in Nat
        BY DEF LedgerTypeOK, Rows
      <4>5. [action |-> "RECONFIRM_NOTICE", at |-> t, period |-> period] \in Entries
        BY <4>1, <4>2, <4>4 DEF Entries
      <4>6. ledger' \in [Consents -> Seq(Entries)]
        BY <4>3, <4>5, Appended
      <4>7. [type |-> "consent.reconfirm_due", subject |-> SubjectOf[c], published |-> FALSE] \in Posted
        BY SubjectTyped DEF Posted
      <4>8. Posting
        BY <4>1, <4>2, <4>7 DEF Posting
      <4> QED
        BY <4>1, <4>6, <4>8
    <3> QED
      BY <3>1, <3>2
  <2>3. outbox' \in Seq(Posted)
    BY <2>2, EventsStay
  <2> QED
    BY <1>4, <2>1, <2>2, <2>3 DEF EmitReconfirmNotice, Typed, LedgerTypeOK, Requesting
<1>5. ASSUME SkipCandidate(e) PROVE Typed
  <2>1. scan' \in [Engines -> Scans]
    BY <1>5, Taken DEF SkipCandidate
  <2> QED
    BY <1>5, <2>1 DEF SkipCandidate, Typed, LedgerTypeOK, Requesting, Posting, ledgerVars, intakeVars
<1>6. ASSUME EndScan(e) PROVE Typed
  <2>1. [NoScan EXCEPT !.cursor = scan[e].cursor] \in Scans
    BY DEF LedgerTypeOK, Scans, NoScan
  <2> QED
    BY <1>6, <2>1 DEF EndScan, Typed, LedgerTypeOK, Requesting, Posting, ledgerVars, intakeVars
<1> QED
  BY <1>1, <1>2, <1>3, <1>4, <1>5, <1>6

LEMMA RequestTyped == ASSUME LedgerTypeOK PROVE
    /\ \A s \in Subjects : CreateRequest(s) \/ UserDeleted(s) \/ ShredConsentKey(s) => Typed
    /\ \A i \in DOMAIN request : CancelRequest(i) \/ Erase(i) => Typed
<1>1. ASSUME NEW s \in Subjects, CreateRequest(s) PROVE Typed
  <2>1. Requesting
    BY <1>1 DEF CreateRequest, Requesting, Asked
  <2>2. request' \in Seq(Asked)
    BY <2>1, RequestsStay
  <2>3. events' \in Nat
    BY <1>1, EventTyped DEF CreateRequest
  <2> QED
    BY <1>1, <2>1, <2>2, <2>3 DEF CreateRequest, Typed, LedgerTypeOK, Posting, ledgerVars
<1>2. ASSUME NEW s \in Subjects, UserDeleted(s) PROVE Typed
  <2>1. Posting
    BY <1>2 DEF UserDeleted, Posting, Posted
  <2>2. outbox' \in Seq(Posted)
    BY <2>1, EventsStay
  <2>3. events' \in Nat
    BY <1>2, EventTyped DEF UserDeleted
  <2> QED
    BY <1>2, <2>1, <2>2, <2>3 DEF UserDeleted, Typed, LedgerTypeOK, Requesting, ledgerVars
<1>3. ASSUME NEW s \in Subjects, ShredConsentKey(s) PROVE Typed
  <2>1. events' \in Nat
    BY <1>3, EventTyped DEF ShredConsentKey
  <2> QED
    BY <1>3, <2>1 DEF ShredConsentKey, Typed, LedgerTypeOK, Requesting, Posting, intakeVars
<1>4. ASSUME NEW i \in DOMAIN request, CancelRequest(i) \/ Erase(i) PROVE Typed
  <2>1. Requesting
    BY <1>4 DEF CancelRequest, Erase, Requesting
  <2>2. request' \in Seq(Asked)
    BY <2>1, RequestsStay
  <2>3. events' \in Nat
    BY <1>4, EventTyped DEF CancelRequest, Erase
  <2>4. row' \in [Consents -> Rows]
    BY <1>4, RowTyped DEF CancelRequest, Erase, LedgerTypeOK, ledgerVars
  <2> QED
    BY <1>4, <2>1, <2>2, <2>3, <2>4 DEF CancelRequest, Erase, Typed, LedgerTypeOK, Posting, ledgerVars
<1> QED
  BY <1>1, <1>2, <1>3, <1>4

LEMMA DispatchTyped == ASSUME LedgerTypeOK, OutboxInv, NEW e \in Engines PROVE
    /\ PollOutbox(e) => Typed /\ \E d \in Dispatchers : Turn(e, d) /\ d.pc = "next" /\ d.batch \subseteq DOMAIN outbox
    /\ TakeEvent(e) => Typed
    /\ CreateFromOutbox(e) => Typed
    /\ InsertTask(e) => Typed
    /\ Fail(e) => Typed
    /\ Publish(e) => Typed
<1>1. PICK old \in Dispatchers : old = disp[e]
  BY DEF LedgerTypeOK
<1>2. ASSUME PollOutbox(e)
      PROVE  Typed /\ \E d \in Dispatchers : Turn(e, d) /\ d.pc = "next" /\ d.batch \subseteq DOMAIN outbox
  <2>1. PICK open \in SUBSET DOMAIN outbox : Turn(e, [NoDispatch EXCEPT !.pc = "next", !.batch = open])
    BY <1>2 DEF PollOutbox
  <2>2. DOMAIN outbox \in SUBSET Nat
    <3>1. PICK q \in Seq(Posted) : q = outbox
      BY DEF LedgerTypeOK
    <3> QED
      BY <3>1
  <2>3. PICK d : d = [NoDispatch EXCEPT !.pc = "next", !.batch = open]
    OBVIOUS
  <2>4. d = [pc |-> "next", batch |-> open, x |-> 0, dests |-> {}]
    BY <2>3 DEF NoDispatch
  <2>5. d \in Dispatchers /\ d.pc = "next" /\ d.batch = open
    BY <2>2, <2>4 DEF Dispatchers
  <2>6. disp' \in [Engines -> Dispatchers] /\ Turn(e, d)
    BY <2>1, <2>3, <2>5, Dispatched
  <2> QED
    BY <1>2, <2>5, <2>6 DEF PollOutbox, Typed, LedgerTypeOK, Requesting, Posting, ledgerVars
<1>3. ASSUME TakeEvent(e) PROVE Typed
  <2>1. disp' \in [Engines -> Dispatchers]
    BY <1>1, <1>3, TakenEvent, TurnTyped, Dispatched
  <2> QED
    BY <1>3, <2>1 DEF TakeEvent, Typed, LedgerTypeOK, Requesting, Posting, ledgerVars
<1>4. ASSUME CreateFromOutbox(e) PROVE Typed
  <2>1. disp[e].pc = "create" /\ Turn(e, [disp[e] EXCEPT !.pc = "publish"])
    BY <1>4 DEF CreateFromOutbox
  <2>2. disp' \in [Engines -> Dispatchers]
    BY <1>1, <2>1, TurnTyped, Dispatched
  <2>3. disp[e].x \in Nat /\ outbox[disp[e].x].subject \in Subjects
    <3>1. PICK q \in Seq(Posted) : q = outbox
      BY DEF LedgerTypeOK
    <3>2. \A x \in DOMAIN q : x \in Nat /\ q[x] \in Posted
      OBVIOUS
    <3>3. disp[e].x \in DOMAIN q
      BY <2>1, <3>1 DEF OutboxInv, Working
    <3> QED
      BY <3>1, <3>2, <3>3 DEF Posted
  <2>4. Requesting
    <3>1. PICK v : v = [subject |-> outbox[disp[e].x].subject, status |-> "REQUESTED", key |-> disp[e].x]
      OBVIOUS
    <3>2. v \in Asked /\ v.key = disp[e].x /\ v.subject = outbox[disp[e].x].subject
      BY <2>3, <3>1 DEF Asked
    <3>3. request' = request \/ (request' = Append(request, v) /\ ~Replayed(disp[e].x))
      BY <1>4, <3>1 DEF CreateFromOutbox
    <3>4. disp[e].x \in DOMAIN outbox
      BY <2>1 DEF OutboxInv, Working
    <3> QED
      BY <3>2, <3>3, <3>4 DEF Requesting, Replayed
  <2>5. request' \in Seq(Asked)
    BY <2>4, RequestsStay
  <2> QED
    BY <1>4, <2>2, <2>4, <2>5 DEF CreateFromOutbox, Typed, LedgerTypeOK, Posting, ledgerVars
<1>5. ASSUME InsertTask(e) PROVE Typed
  <2>1. CASE disp[e].dests = {}
    <3>1. Turn(e, [disp[e] EXCEPT !.pc = "publish"]) /\ UNCHANGED task
      BY <1>5, <2>1 DEF InsertTask
    <3>2. disp' \in [Engines -> Dispatchers]
      BY <1>1, <3>1, TurnTyped, Dispatched
    <3> QED
      BY <1>5, <3>1, <3>2 DEF InsertTask, Typed, LedgerTypeOK, Requesting, Posting, ledgerVars
  <2>2. CASE disp[e].dests # {}
    <3>1. PICK dst \in disp[e].dests : task' = task \cup {<<disp[e].x, dst>>} /\ Turn(e, [disp[e] EXCEPT !.dests = @ \ {dst}])
      BY <1>5, <2>2 DEF InsertTask
    <3>2. [old EXCEPT !.dests = @ \ {dst}] \in Dispatchers /\ old.x \in Nat /\ dst \in Destinations
      BY <1>1, <3>1 DEF Dispatchers
    <3>3. disp' \in [Engines -> Dispatchers]
      BY <1>1, <3>1, <3>2, Dispatched
    <3>4. task' \in SUBSET (Nat \X Destinations)
      BY <1>1, <3>1, <3>2 DEF LedgerTypeOK
    <3> QED
      BY <1>5, <3>3, <3>4 DEF InsertTask, Typed, LedgerTypeOK, Requesting, Posting, ledgerVars
  <2> QED
    BY <2>1, <2>2
<1>6. ASSUME Fail(e) PROVE Typed
  <2>1. disp' \in [Engines -> Dispatchers]
    BY <1>1, <1>6, TurnTyped, Dispatched DEF Fail
  <2>2. events' \in Nat
    BY <1>6, EventTyped DEF Fail
  <2> QED
    BY <1>6, <2>1, <2>2 DEF Fail, Typed, LedgerTypeOK, Requesting, Posting, ledgerVars
<1>7. ASSUME Publish(e) PROVE Typed
  <2>1. disp[e].pc = "publish" /\ disp[e].x \in DOMAIN outbox /\ Posting
    BY <1>7 DEF Publish, OutboxInv, Working, Posting
  <2>2. disp' \in [Engines -> Dispatchers]
    BY <1>1, <1>7, TurnTyped, Dispatched DEF Publish
  <2>3. outbox' \in Seq(Posted)
    BY <2>1, EventsStay
  <2> QED
    BY <1>7, <2>1, <2>2, <2>3 DEF Publish, Typed, LedgerTypeOK, Requesting, ledgerVars
<1> QED
  BY <1>2, <1>3, <1>4, <1>5, <1>6, <1>7

LEMMA EnvironmentTyped == ASSUME LedgerTypeOK PROVE
    /\ Tick => Typed
    /\ \A s \in Subjects, p \in Policies \cup {None} : AssignPolicy(s, p) => Typed
    /\ \A e \in Engines, r \in Revisions : Restart(e, r) => Typed
    /\ UNCHANGED vars => Typed
<1>1. ASSUME Tick PROVE Typed
  BY <1>1 DEF Tick, Typed, LedgerTypeOK, Requesting, Posting, ledgerVars, intakeVars
<1>2. ASSUME NEW s \in Subjects, NEW p \in Policies \cup {None}, AssignPolicy(s, p) PROVE Typed
  <2>1. events' \in Nat
    BY <1>2, EventTyped DEF AssignPolicy
  <2> QED
    BY <1>2, <2>1 DEF AssignPolicy, Typed, LedgerTypeOK, Requesting, Posting, ledgerVars, intakeVars
<1>3. ASSUME NEW e \in Engines, NEW r \in Revisions, Restart(e, r) PROVE Typed
  <2>1. events' \in Nat
    BY <1>3, EventTyped DEF Restart
  <2>2. NoDispatch \in Dispatchers /\ NoScan \in Scans
    BY DEF NoDispatch, Dispatchers, NoScan, Scans
  <2> QED
    BY <1>3, <2>1, <2>2 DEF Restart, Turn, Typed, LedgerTypeOK, Requesting, Posting, ledgerVars
<1>4. ASSUME UNCHANGED vars PROVE Typed
  BY <1>4 DEF vars, Typed, LedgerTypeOK, Requesting, Posting, ledgerVars, intakeVars
<1> QED
  BY <1>1, <1>2, <1>3, <1>4

\* Every step keeps the types, adds requests and events and takes none away.
LEMMA StepTyped == ASSUME LedgerTypeOK, ConsentInv, OutboxInv, [Next]_vars PROVE Typed
BY ChangeTyped, ScanTyped, RequestTyped, DispatchTyped, EnvironmentTyped DEF Next

-----------------------------------------------------------------------------
(***************************************************************************)
(* The invariants, action by action.                                       *)
(***************************************************************************)

\* The steps that leave the ledger alone and drop candidates at most.
LEMMA Quiet ==
    ASSUME LedgerTypeOK, ConsentInv, Requesting, UNCHANGED <<now, ledger>>, Shrunk,
           \A c \in Consents : \/ row'[c] = row[c]
                               \/ row'[c] = NoRow /\ Deleted(SubjectOf[c])'
    PROVE  ConsentInv'
<1>1. now' \in Nat /\ now <= now'
  BY DEF LedgerTypeOK
<1>2. Erasing
  BY RequestsStay
<1> QED
  BY <1>1, <1>2, QuietKeeps

LEMMA ScanKeeps == ASSUME LedgerTypeOK, ConsentInv, NEW e \in Engines PROVE
    /\ ReconcileRead(e) => ConsentInv'
    /\ ReconcileRow(e) => ConsentInv'
    /\ ScanReconfirmDue(e) => ConsentInv'
    /\ EmitReconfirmNotice(e) => ConsentInv'
    /\ SkipCandidate(e) => ConsentInv'
    /\ EndScan(e) => ConsentInv'
<1>1. ASSUME ReconcileRead(e) PROVE ConsentInv'
  BY <1>1, PageRead, ReadKeeps DEF ReconcileRead, ledgerVars, intakeVars
<1>2. ASSUME ScanReconfirmDue(e) PROVE ConsentInv'
  BY <1>2, DueRead, ReadKeeps DEF ScanReconfirmDue, ledgerVars, intakeVars
<1>3. ASSUME SkipCandidate(e) PROVE ConsentInv'
  <2>1. Shrunk
    BY <1>3, Taken DEF SkipCandidate
  <2> QED
    BY <1>3, <2>1, Quiet DEF SkipCandidate, ledgerVars, intakeVars, Requesting
<1>4. ASSUME EndScan(e) PROVE ConsentInv'
  <2>1. \A f \in Engines : scan'[f] = scan[f] \/ scan'[f].todo = {}
    BY <1>4 DEF EndScan, NoScan, LedgerTypeOK
  <2>2. Shrunk
    BY <2>1 DEF Shrunk
  <2> QED
    BY <1>4, <2>2, Quiet DEF EndScan, ledgerVars, intakeVars, Requesting
<1> QED
  BY <1>1, <1>2, <1>3, <1>4, RescheduleKeeps, NoticeKeeps

LEMMA Publishing ==
    ASSUME LedgerTypeOK, NEW e \in Engines
    PROVE  \E d \in Dispatchers : /\ d = [disp[e] EXCEPT !.pc = "publish"]
                                  /\ d.pc = "publish" /\ d.x = disp[e].x /\ d.batch = disp[e].batch
<1>1. PICK old \in Dispatchers : old = disp[e]
  BY DEF LedgerTypeOK
<1>2. PICK d : d = [old EXCEPT !.pc = "publish"]
  OBVIOUS
<1>3. d \in Dispatchers /\ d.pc = "publish" /\ d.x = old.x /\ d.batch = old.batch
  BY <1>2 DEF Dispatchers
<1> QED
  BY <1>1, <1>2, <1>3

LEMMA ConsentStep == ASSUME LedgerTypeOK, ConsentInv, OutboxInv, [Next]_vars PROVE ConsentInv'
<1>1. Requesting
  BY StepTyped DEF Typed
<1>2. ASSUME UNCHANGED scan PROVE Shrunk
  BY <1>2 DEF Shrunk
<1>3. ASSUME NEW w \in Updates, NEW e \in Engines, NEW c \in Consents, NEW g \in BOOLEAN, UpdateConsent(w, e, c, g)
      PROVE  ConsentInv'
  BY <1>1, <1>2, <1>3, Quiet DEF UpdateConsent, ledgerVars
<1>4. ASSUME NEW s \in Subjects, CreateRequest(s) \/ UserDeleted(s) \/ ShredConsentKey(s) PROVE ConsentInv'
  BY <1>1, <1>2, <1>4, Quiet DEF CreateRequest, UserDeleted, ShredConsentKey, ledgerVars
<1>5. ASSUME NEW i \in DOMAIN request, CancelRequest(i) PROVE ConsentInv'
  BY <1>1, <1>2, <1>5, Quiet DEF CancelRequest, ledgerVars
<1>6. ASSUME NEW i \in DOMAIN request, Erase(i) PROVE ConsentInv'
  <2>1. PICK s : s = request[i].subject
    OBVIOUS
  <2>2. \A c \in Consents : row'[c] = row[c] \/ (row'[c] = NoRow /\ SubjectOf[c] = s)
    BY <1>6, <2>1 DEF Erase
  <2>3. Deleted(s)'
    <3>1. PICK q \in Seq(Asked) : q = request
      BY DEF LedgerTypeOK
    <3>2. request' = [q EXCEPT ![i].status = "DONE"] /\ i \in DOMAIN q /\ \A j \in DOMAIN q : q[j] \in Asked
      BY <1>6, <3>1 DEF Erase
    <3>3. i \in DOMAIN request' /\ request'[i].status = "DONE" /\ request'[i].subject = q[i].subject
      BY <3>2 DEF Asked
    <3> QED
      BY <2>1, <3>1, <3>3 DEF Deleted
  <2> QED
    BY <1>1, <1>2, <1>6, <2>2, <2>3, Quiet DEF Erase
<1>7. ASSUME NEW e \in Engines, \/ PollOutbox(e) \/ TakeEvent(e) \/ CreateFromOutbox(e)
                                \/ InsertTask(e) \/ Fail(e) \/ Publish(e)
      PROVE  ConsentInv'
  <2>1. UNCHANGED <<now, ledger, row, scan>>
    BY <1>7 DEF PollOutbox, TakeEvent, CreateFromOutbox, InsertTask, Fail, Publish, ledgerVars
  <2> QED
    BY <1>1, <1>2, <2>1, Quiet
<1>8. ASSUME NEW s \in Subjects, NEW p \in Policies \cup {None}, AssignPolicy(s, p) PROVE ConsentInv'
  BY <1>1, <1>2, <1>8, Quiet DEF AssignPolicy, ledgerVars
<1>9. ASSUME NEW e \in Engines, NEW r \in Revisions, Restart(e, r) PROVE ConsentInv'
  <2>1. \A f \in Engines : scan'[f] = scan[f] \/ scan'[f].todo = {}
    BY <1>9 DEF Restart, NoScan, LedgerTypeOK
  <2>2. Shrunk
    BY <2>1 DEF Shrunk
  <2> QED
    BY <1>1, <1>9, <2>2, Quiet DEF Restart, ledgerVars
<1>10. ASSUME Tick PROVE ConsentInv'
  <2>1. now' \in Nat /\ now <= now'
    BY <1>10 DEF Tick, LedgerTypeOK
  <2>2. Erasing
    BY <1>1, RequestsStay
  <2> QED
    BY <1>2, <1>10, <2>1, <2>2, QuietKeeps DEF Tick, ledgerVars
<1>11. ASSUME UNCHANGED vars PROVE ConsentInv'
  BY <1>1, <1>2, <1>11, Quiet DEF vars, ledgerVars
<1> QED
  BY <1>3, <1>4, <1>5, <1>6, <1>7, <1>8, <1>9, <1>10, <1>11, CommitKeeps, ScanKeeps DEF Next

LEMMA OutboxStep == ASSUME LedgerTypeOK, ConsentInv, OutboxInv, [Next]_vars PROVE OutboxInv'
<1>1. Requesting /\ Posting
  BY StepTyped DEF Typed
<1>2. ASSUME task \subseteq task', \A e \in Engines : disp'[e] = disp[e] \/ Working(e)' PROVE OutboxInv'
  BY <1>1, <1>2, HandledStays DEF OutboxInv
<1>3. ASSUME UNCHANGED task
      PROVE  \A x \in DOMAIN outbox : /\ x \in DOMAIN outbox' /\ outbox'[x].type = outbox[x].type
                                      /\ Handled(x) => Handled(x)'
  BY <1>1, <1>3, HandledStays, EventsStay
<1>4. ASSUME UNCHANGED <<disp, task>> PROVE OutboxInv'
  BY <1>2, <1>4
<1>5. ASSUME NEW e \in Engines, NEW d \in Dispatchers, Turn(e, d), UNCHANGED task, Working(e)' PROVE OutboxInv'
  <2>1. \A f \in Engines : f # e => disp'[f] = disp[f]
    BY <1>5, Dispatched DEF Only
  <2> QED
    BY <1>2, <1>5, <2>1
<1>6. NoDispatch \in Dispatchers /\ NoDispatch.batch = {} /\ NoDispatch.pc = "idle"
  BY DEF NoDispatch, Dispatchers
<1>7. ASSUME NEW e \in Engines, Turn(e, NoDispatch), UNCHANGED task PROVE OutboxInv'
  <2>1. disp'[e] = NoDispatch
    BY <1>6, <1>7, Dispatched
  <2>2. Working(e)'
    BY <1>6, <2>1 DEF Working
  <2> QED
    BY <1>5, <1>6, <1>7, <2>2
<1>8. ASSUME NEW e \in Engines, Turn(e, Forget(disp[e])), UNCHANGED task PROVE OutboxInv'
  <2>1. PICK d \in Dispatchers : d = Forget(disp[e]) /\ d.pc = "next" /\ d.batch \subseteq disp[e].batch
    BY TurnTyped DEF LedgerTypeOK
  <2>2. disp'[e] = d
    BY <1>8, <2>1, Dispatched
  <2>3. disp[e].batch \subseteq DOMAIN outbox
    BY DEF OutboxInv, Working
  <2>4. Working(e)'
    BY <1>3, <1>8, <2>1, <2>2, <2>3 DEF Working
  <2> QED
    BY <1>5, <1>8, <2>1, <2>4
<1>9. ASSUME NEW e \in Engines, PollOutbox(e) PROVE OutboxInv'
  <2>1. PICK d \in Dispatchers : Turn(e, d) /\ d.pc = "next" /\ d.batch \subseteq DOMAIN outbox
    BY <1>9, DispatchTyped
  <2>2. UNCHANGED <<outbox, task>>
    BY <1>9 DEF PollOutbox
  <2>3. Working(e)'
    BY <2>1, <2>2, Dispatched DEF Working
  <2> QED
    BY <1>5, <2>1, <2>2, <2>3
<1>10. ASSUME NEW e \in Engines, TakeEvent(e) PROVE OutboxInv'
  <2>1. UNCHANGED <<outbox, task, request>>
    BY <1>10 DEF TakeEvent
  <2>2. CASE Turn(e, NoDispatch)
    BY <1>7, <2>1, <2>2
  <2>3. ASSUME NEW x \in disp[e].batch, NEW d \in Dispatchers,
                 /\ Turn(e, d) /\ d.x = x /\ d.batch = disp[e].batch /\ d.pc \in {"create", "tasks", "publish"}
                 /\ d.pc = "tasks" <=> outbox[x].type = "consent.reconfirm_due"
                 /\ d.pc = "tasks" => d.dests = Destinations
                 /\ d.pc = "publish" => Active(outbox[x].subject) \/ Deleted(outbox[x].subject)
        PROVE  OutboxInv'
    <3>1. disp'[e] = d
      BY <2>3, Dispatched
    <3>2. x \in DOMAIN outbox /\ disp[e].batch \subseteq DOMAIN outbox
      BY DEF OutboxInv, Working
    <3>3. outbox[x].type \in {"user.deleted", "consent.reconfirm_due"}
      <4>1. PICK q \in Seq(Posted) : q = outbox
        BY DEF LedgerTypeOK
      <4>2. \A y \in DOMAIN q : q[y] \in Posted
        OBVIOUS
      <4> QED
        BY <3>2, <4>1, <4>2 DEF Posted
    <3>4. d.pc = "publish" => Handled(x)
      BY <2>3, <3>3 DEF Handled, Active, Deleted
    <3>5. Handled(x) => Handled(x)'
      BY <1>3, <2>1, <3>2
    <3>6. Working(e)'
      BY <2>1, <2>3, <3>1, <3>2, <3>3, <3>4, <3>5 DEF Working
    <3> QED
      BY <1>5, <2>1, <2>3, <3>6
  <2> QED
    BY <1>10, <2>2, <2>3, TakenEvent
<1>11. ASSUME NEW e \in Engines, CreateFromOutbox(e) PROVE OutboxInv'
  <2>1. disp[e].pc = "create" /\ Turn(e, [disp[e] EXCEPT !.pc = "publish"]) /\ UNCHANGED <<outbox, task>>
    BY <1>11 DEF CreateFromOutbox
  <2>2. PICK d \in Dispatchers : /\ d = [disp[e] EXCEPT !.pc = "publish"]
                                 /\ d.pc = "publish" /\ d.x = disp[e].x /\ d.batch = disp[e].batch
    BY Publishing
  <2>3. disp'[e] = d
    BY <2>1, <2>2, Dispatched
  <2>4. PICK x \in DOMAIN outbox : x = disp[e].x /\ outbox[x].type = "user.deleted"
    BY <2>1 DEF OutboxInv, Working
  <2>5. x > 0
    <3>1. PICK q \in Seq(Posted) : q = outbox
      BY DEF LedgerTypeOK
    <3> QED
      BY <3>1
  <2>6. \E i \in DOMAIN request' : request'[i].subject = outbox[x].subject
    <3>1. CASE Replayed(x)
      BY <2>4, <2>5, <3>1, <1>1, RequestsStay DEF Replayed, OutboxInv, KeysInv
    <3>2. CASE Active(outbox[x].subject)
      BY <3>2, <1>1, RequestsStay DEF Active
    <3>3. CASE ~Replayed(x) /\ ~Active(outbox[x].subject)
      <4>1. PICK v : v = [subject |-> outbox[x].subject, status |-> "REQUESTED", key |-> x]
        OBVIOUS
      <4>2. request' = Append(request, v) /\ v.subject = outbox[x].subject
        BY <1>11, <2>4, <3>3, <4>1 DEF CreateFromOutbox
      <4>3. PICK q \in Seq(Asked) : q = request
        BY DEF LedgerTypeOK
      <4>4. request' \in Seq(Asked)
        BY <1>1, RequestsStay
      <4>5. Len(q) + 1 \in DOMAIN Append(q, v) /\ Append(q, v)[Len(q) + 1] = v
        OBVIOUS
      <4> QED
        BY <4>2, <4>3, <4>5
    <3> QED
      BY <3>1, <3>2, <3>3
  <2>7. Handled(x)'
    BY <2>1, <2>4, <2>6 DEF Handled
  <2>8. Working(e)'
    BY <2>1, <2>2, <2>3, <2>4, <2>7 DEF Working, OutboxInv
  <2> QED
    BY <1>5, <2>1, <2>2, <2>8
<1>12. ASSUME NEW e \in Engines, InsertTask(e) PROVE OutboxInv'
  <2>1. disp[e].pc = "tasks" /\ UNCHANGED <<outbox, request>>
    BY <1>12 DEF InsertTask
  <2>2. Working(e)
    BY DEF OutboxInv
  <2>3. CASE disp[e].dests = {}
    <3>1. Turn(e, [disp[e] EXCEPT !.pc = "publish"]) /\ UNCHANGED task
      BY <1>12, <2>3 DEF InsertTask
    <3>2. PICK d \in Dispatchers : /\ d = [disp[e] EXCEPT !.pc = "publish"]
                                   /\ d.pc = "publish" /\ d.x = disp[e].x /\ d.batch = disp[e].batch
      BY Publishing
    <3>3. disp'[e] = d
      BY <3>1, <3>2, Dispatched
    <3>4. Handled(d.x)'
      BY <2>1, <2>2, <2>3, <3>1, <3>2 DEF Working, Handled
    <3>5. Working(e)'
      BY <2>1, <2>2, <3>2, <3>3, <3>4 DEF Working
    <3> QED
      BY <1>5, <3>1, <3>2, <3>5
  <2>4. CASE disp[e].dests # {}
    <3>1. PICK dst \in disp[e].dests : task' = task \cup {<<disp[e].x, dst>>} /\ Turn(e, [disp[e] EXCEPT !.dests = @ \ {dst}])
      BY <1>12, <2>4 DEF InsertTask
    <3>2. PICK old \in Dispatchers : old = disp[e]
      BY DEF LedgerTypeOK
    <3>3. PICK d : d = [old EXCEPT !.dests = @ \ {dst}]
      OBVIOUS
    <3>4. d \in Dispatchers /\ d.pc = old.pc /\ d.x = old.x /\ d.batch = old.batch /\ d.dests = old.dests \ {dst}
      BY <3>3 DEF Dispatchers
    <3>5. disp'[e] = d /\ \A f \in Engines : f # e => disp'[f] = disp[f]
      BY <3>1, <3>2, <3>3, <3>4, Dispatched DEF Only
    <3>6. Working(e)'
      BY <2>1, <2>2, <3>1, <3>2, <3>4, <3>5 DEF Working
    <3> QED
      BY <1>2, <3>1, <3>5, <3>6
  <2> QED
    BY <2>3, <2>4
<1>13. ASSUME NEW e \in Engines, Fail(e) \/ Publish(e) PROVE OutboxInv'
  BY <1>8, <1>13 DEF Fail, Publish
<1>14. ASSUME NEW e \in Engines, NEW r \in Revisions, Restart(e, r) PROVE OutboxInv'
  BY <1>7, <1>14 DEF Restart
<1>15. ASSUME NEW e \in Engines, \/ ReconcileRead(e) \/ ReconcileRow(e) \/ ScanReconfirmDue(e)
                                 \/ EmitReconfirmNotice(e) \/ SkipCandidate(e) \/ EndScan(e)
       PROVE  OutboxInv'
  BY <1>4, <1>15 DEF ReconcileRead, ReconcileRow, ScanReconfirmDue, EmitReconfirmNotice, SkipCandidate, EndScan, intakeVars
<1>16. ASSUME NEW w \in Updates,
              CommitConsent(w) \/ \E e \in Engines, c \in Consents, g \in BOOLEAN : UpdateConsent(w, e, c, g)
       PROVE  OutboxInv'
  BY <1>4, <1>16 DEF CommitConsent, UpdateConsent, intakeVars
<1>17. ASSUME \/ \E s \in Subjects : CreateRequest(s) \/ UserDeleted(s) \/ ShredConsentKey(s)
              \/ \E i \in DOMAIN request : CancelRequest(i) \/ Erase(i)
       PROVE  OutboxInv'
  BY <1>4, <1>17 DEF CreateRequest, UserDeleted, ShredConsentKey, CancelRequest, Erase, intakeVars
<1>18. ASSUME \/ \E s \in Subjects, p \in Policies \cup {None} : AssignPolicy(s, p)
              \/ Tick \/ UNCHANGED vars
       PROVE  OutboxInv'
  BY <1>4, <1>18 DEF AssignPolicy, Tick, vars, intakeVars
<1> QED
  BY <1>9, <1>10, <1>11, <1>12, <1>13, <1>14, <1>15, <1>16, <1>17, <1>18 DEF Next

-----------------------------------------------------------------------------
(***************************************************************************)
(* The beginning, and the theorems.                                        *)
(***************************************************************************)

Inv == LedgerTypeOK /\ ConsentInv /\ OutboxInv

LEMMA InitInv == Init => Inv
<1> SUFFICES ASSUME Init PROVE Inv
  OBVIOUS
<1>1. conf.backfilled \subseteq Consents
  BY LedgerAssumption DEF Init
<1>2. PICK grant : grant = [action |-> "GRANT", at |-> 1, period |-> 0]
  OBVIOUS
<1>3. grant \in Entries /\ grant.action = "GRANT" /\ grant.at = 1
  BY <1>2 DEF Entries
<1>4. <<grant>> \in Seq(Entries) /\ DOMAIN <<grant>> = {1} /\ <<grant>>[1] = grant /\ <<>> \in Seq(Entries)
      /\ DOMAIN <<>> = {}
  BY <1>3
<1>5. ledger = [c \in Consents |-> IF c \in conf.backfilled THEN <<grant>> ELSE <<>>]
  BY <1>2 DEF Init
<1>6. PICK first : first = [NoRow EXCEPT !.granted = TRUE, !.at = 1]
  OBVIOUS
<1>7. /\ first \in Rows /\ first # NoRow /\ first.granted = TRUE /\ first.at = 1 /\ first.notice = 0 /\ first.due = 0
  BY <1>6 DEF NoRow, Rows
<1>8. row = [c \in Consents |-> IF c \in conf.backfilled THEN first ELSE NoRow]
  BY <1>6 DEF Init
<1>9. LedgerTypeOK
  <2>1. ledger \in [Consents -> Seq(Entries)] /\ row \in [Consents -> Rows]
    BY <1>4, <1>5, <1>7, <1>8, RowTyped
  <2>2. NoUpdate \in Changing /\ NoUpdate.pc # "sealed" /\ NoScan \in Scans /\ NoDispatch \in Dispatchers
    BY DEF NoUpdate, Changing, NoScan, Scans, NoDispatch, Dispatchers
  <2>3. revision \in [Engines -> Revisions]
    BY DEF Init
  <2>4. <<>> \in Seq(Posted) /\ <<>> \in Seq(Asked)
    OBVIOUS
  <2> QED
    BY <2>1, <2>2, <2>3, <2>4 DEF Init, LedgerTypeOK
<1>10. ASSUME NEW c \in Consents
       PROVE  /\ Notices(c) = {}
              /\ c \in conf.backfilled => Changes(c) = {1} /\ ledger[c][1] = grant
              /\ c \notin conf.backfilled => Changes(c) = {}
  <2>1. CASE c \in conf.backfilled
    BY <1>3, <1>4, <1>5, <2>1 DEF Changes, Notices
  <2>2. CASE c \notin conf.backfilled
    BY <1>4, <1>5, <2>2 DEF Changes, Notices
  <2> QED
    BY <2>1, <2>2
<1>11. LedgerInv
  BY <1>10 DEF LedgerInv, IsLast
<1>12. RowInv
  <2>1. ASSUME NEW c \in Consents, c \in conf.backfilled PROVE Mirrors(c)
    <3>1. row[c] = first /\ IsLast(c, 1) /\ 1 \in Changes(c)
      BY <1>8, <1>10, <2>1 DEF IsLast
    <3>2. row[c].granted = (ledger[c][1].action = "GRANT") /\ row[c].at = ledger[c][1].at
      BY <1>3, <1>7, <1>10, <2>1, <3>1
    <3>3. row[c] # NoRow /\ row[c].notice = 0 /\ ~(row[c].due > 0)
      BY <1>7, <3>1
    <3> QED
      BY <1>10, <3>1, <3>2, <3>3 DEF Mirrors
  <2>2. ASSUME NEW c \in Consents, c \notin conf.backfilled PROVE Mirrors(c)
    BY <1>8, <1>10, <2>2 DEF Mirrors
  <2> QED
    BY <2>1, <2>2 DEF RowInv
<1>13. ScanInv
  BY DEF Init, NoScan, ScanInv
<1>14. DueInv
  BY <1>10 DEF DueInv
<1>15. OutboxInv
  BY DEF Init, NoDispatch, OutboxInv, KeysInv, Working
<1> QED
  BY <1>9, <1>11, <1>12, <1>13, <1>14, <1>15 DEF Inv, ConsentInv

LEMMA StepInv == Inv /\ [Next]_vars => Inv'
BY StepTyped, ConsentStep, OutboxStep DEF Inv, Typed

\* The invariant of the proofs holds in every state.
THEOREM Invariant == Spec => []Inv
<1> QED
  BY InitInv, StepInv, PTL DEF Spec

\* Every variable of the consent ledger keeps its type, with any number of
\* engines and revisions.
THEOREM TypeCorrect == Spec => []LedgerTypeOK
<1>1. Inv => LedgerTypeOK
  BY DEF Inv
<1> QED
  BY <1>1, Invariant, PTL

LEMMA InvMirrors == Inv => ProjectionMirrorsLedger
<1> SUFFICES ASSUME Inv, NEW c \in Present
             PROVE  /\ Changes(c) # {}
                    /\ row[c].granted = (ledger[c][Latest(c)].action = "GRANT")
                    /\ row[c].at = ledger[c][Latest(c)].at
                    /\ row[c].notice \in {0, LastAt(c, Notices(c))}
  BY DEF ProjectionMirrorsLedger
<1>1. c \in Consents /\ row[c] # NoRow /\ Mirrors(c) /\ LedgerTypeOK
  BY DEF Present, Inv, ConsentInv, RowInv
<1>2. PICK i \in Changes(c) : /\ IsLast(c, i) /\ row[c].at = ledger[c][i].at
                              /\ row[c].granted = (ledger[c][i].action = "GRANT")
  BY <1>1 DEF Mirrors
<1>3. \A j \in Changes(c) : j \in Nat /\ ledger[c][j].at \in Nat /\ j <= i
  BY <1>1, <1>2, IndicesTyped, EntryTyped DEF IsLast
<1>4. \A j, k \in Changes(c) : j < k => ledger[c][j].at < ledger[c][k].at
  BY <1>1 DEF Inv, ConsentInv, LedgerInv
<1> DEFINE Newest(k) == \A j \in Changes(c) : \/ ledger[c][j].at < ledger[c][k].at
                                              \/ ledger[c][j].at = ledger[c][k].at /\ j <= k
<1>5. Newest(i)
  BY <1>3, <1>4
<1>6. Latest(c) \in Changes(c) /\ Newest(Latest(c))
  BY <1>5 DEF Latest
<1>7. Latest(c) = i
  <2>1. PICK k \in Changes(c) : k = Latest(c)
    BY <1>6
  <2>2. Newest(k)
    BY <1>6, <2>1
  <2>3. ledger[c][i].at < ledger[c][k].at \/ (ledger[c][i].at = ledger[c][k].at /\ i <= k)
    BY <2>2
  <2>4. k \in Nat /\ i \in Nat /\ k <= i /\ (k < i => ledger[c][k].at < ledger[c][i].at)
        /\ ledger[c][k].at \in Nat /\ ledger[c][i].at \in Nat
    BY <1>3, <1>4
  <2> HIDE DEF Newest
  <2>5. k = i
    BY <2>3, <2>4
  <2> QED
    BY <2>1, <2>5
<1>8. ASSUME NEW n \in Notices(c), IsNewest(c, n) PROVE ledger[c][n].at = LastAt(c, Notices(c))
  <2>1. /\ LastAt(c, Notices(c)) \in Nat /\ ledger[c][n].at <= LastAt(c, Notices(c))
        /\ \E k \in Notices(c) : LastAt(c, Notices(c)) = ledger[c][k].at
    BY <1>1, <1>8, LastAtIs, IndicesTyped DEF IsNewest
  <2>2. LastAt(c, Notices(c)) <= ledger[c][n].at /\ ledger[c][n].at \in Nat
    BY <1>1, <1>8, <2>1, IndicesTyped, EntryTyped DEF IsNewest
  <2> QED
    BY <2>1, <2>2
<1>9. row[c].notice \in {0, LastAt(c, Notices(c))}
  BY <1>1, <1>8 DEF Mirrors
<1> QED
  BY <1>2, <1>7, <1>9

\* What the scanner goes by is what the ledger answers, although clocks
\* disagree, changes, schedules and notices interleave and erasures delete rows.
THEOREM ProjectionFollows == Spec => []ProjectionMirrorsLedger
BY Invariant, InvMirrors, PTL

LEMMA InvDue == Inv => NoticesAreDue
<1> SUFFICES ASSUME Inv, NEW c \in Consents, NEW n \in Notices(c)
             PROVE  LET changes == {i \in Changes(c) : i < n}
                        last == CHOOSE i \in changes : \A j \in changes : j <= i
                        earlier == IF Deleted(SubjectOf[c]) THEN {} ELSE {j \in Notices(c) : j < n}
                    IN  /\ changes # {}
                        /\ ledger[c][last].action = "GRANT"
                        /\ \A i \in {last} \cup earlier :
                              ledger[c][n].at >= ledger[c][i].at + ledger[c][n].period
  BY DEF NoticesAreDue
<1> DEFINE changes == {i \in Changes(c) : i < n}
           last == CHOOSE i \in changes : \A j \in changes : j <= i
<1>1. LedgerTypeOK /\ Due(c, n)
  BY DEF Inv, ConsentInv, DueInv
<1>2. changes # {} /\ changes \in SUBSET Nat
  BY <1>1, IndicesTyped DEF Due
<1>3. IsFiniteSet(changes)
  <2>1. PICK q \in Seq(Entries) : q = ledger[c]
    BY <1>1 DEF LedgerTypeOK
  <2>2. Len(q) \in Nat /\ DOMAIN q = 1 .. Len(q)
    OBVIOUS
  <2>3. IsFiniteSet(1 .. Len(q))
    BY <2>2, FS_Interval
  <2>4. changes \subseteq DOMAIN q
    BY <1>1, <2>1, IndicesTyped
  <2> HIDE DEF changes
  <2> QED
    BY <2>2, <2>3, <2>4, FS_Subset
<1>4. \E i \in changes : \A j \in changes : j <= i
  <2> HIDE DEF changes
  <2> QED
    BY <1>2, <1>3, Largest
<1>5. last \in changes /\ \A j \in changes : j <= last
  <2> HIDE DEF changes
  <2> QED
    BY <1>4
<1> HIDE DEF last
<1>6. ledger[c][last].action = "GRANT" /\ ledger[c][n].at >= ledger[c][last].at + ledger[c][n].period
  BY <1>1, <1>5 DEF Due
<1>7. ASSUME ~Deleted(SubjectOf[c]), NEW j \in Notices(c), j < n
      PROVE  ledger[c][n].at >= ledger[c][j].at + ledger[c][n].period
  BY <1>1, <1>7 DEF Due
<1> QED
  BY <1>2, <1>6, <1>7 DEF last

\* No subject is asked early or while the consent is withdrawn, whichever
\* engines scan at the same time, with whichever policies.
THEOREM NoticesComeDue == Spec => []NoticesAreDue
BY Invariant, InvDue, PTL

LEMMA InvHandled == Inv => EventsAreHandledOnce
BY DEF Inv, OutboxInv, KeysInv, Handled, EventsAreHandledOnce

\* Engines that die, fail and work on the same events lose none and make no
\* request twice.
THEOREM EventsHandled == Spec => []EventsAreHandledOnce
BY Invariant, InvHandled, PTL

-----------------------------------------------------------------------------
(***************************************************************************)
(* The deliveries that notices and requests wait for (DeliveryTasks):      *)
(* claims are exclusive, settled deliveries are final, attempts are        *)
(* accounted for, what is completed was accepted and the roll-up moves as  *)
(* the erasure pipeline assumes, for any number of requests, destinations  *)
(* and senders.  TypeOK here is the one of DeliveryTasks.                  *)
(***************************************************************************)
LEMMA NoTaskIsNone == NoTask \notin Tasks
BY DEF NoTask, Tasks

(* Every variable keeps its type, and a sender writes only what it claimed. *)
THEOREM DeliveriesTyped == DeliverySpec => []TypeOK
<1> USE DeliveryAssumption DEF Open, Settled
<1>1. DeliveryInit => TypeOK
  BY DEF DeliveryInit, TypeOK
<1>2. TypeOK /\ [DeliveryNext]_deliveryVars => TypeOK'
  <2> SUFFICES ASSUME TypeOK, [DeliveryNext]_deliveryVars
               PROVE  TypeOK'
    OBVIOUS
  <2>1. ASSUME NEW s \in Senders, Claim(s) PROVE TypeOK'
    <3>1. PICK c \in SUBSET Claimable :
            /\ batch' = [batch EXCEPT ![s] = c]
            /\ status' = [t \in Tasks |-> IF t \in c THEN "running" ELSE status[t]]
            /\ attempts' = [t \in Tasks |-> IF t \in c THEN attempts[t] + 1 ELSE attempts[t]]
            /\ nth' = [nth EXCEPT ![s] = [t \in Tasks |-> IF t \in c THEN attempts[t] + 1 ELSE 0]]
            /\ stale' = [t \in Tasks |-> t \notin c /\ stale[t]]
            /\ reclaims' = [t \in Tasks |->
                    IF t \in c /\ status[t] = "running" THEN reclaims[t] + 1 ELSE reclaims[t]]
      BY <2>1 DEF Claim
    <3>2. /\ UNCHANGED <<dest, due, cur, outcome, accepted, retried, overtaken, lost, overtakes, edits>>
          /\ batch[s] = {}
      BY <2>1 DEF Claim, envVars
    <3>3. c \subseteq Tasks
      BY DEF Claimable
    <3>4. status' \in [Tasks -> {"none"} \cup Open \cup Settled] /\ attempts' \in [Tasks -> Nat]
      BY <3>1 DEF TypeOK
    <3>5. stale' \in [Tasks -> BOOLEAN] /\ reclaims' \in [Tasks -> Nat]
      BY <3>1 DEF TypeOK
    <3>6. batch' \in [Senders -> SUBSET Tasks] /\ nth' \in [Senders -> [Tasks -> Nat]]
      BY <3>1, <3>3 DEF TypeOK
    <3>7. \A v \in Senders : cur'[v] = NoTask \/ cur'[v] \in batch'[v]
      BY <3>1, <3>2 DEF TypeOK
    <3> QED
      BY <3>2, <3>4, <3>5, <3>6, <3>7 DEF TypeOK
  <2>2. ASSUME NEW s \in Senders, NEW t \in Tasks, Execute(s, t) PROVE TypeOK'
    <3>1. outcome' \in [Senders -> {"ok", "retry", "terminal"}] /\ accepted' \in SUBSET Tasks
      BY <2>2 DEF Execute, TypeOK
    <3>2. /\ UNCHANGED <<dest, status, attempts, due, stale, batch, nth, retried, reclaims,
                         overtaken, lost, overtakes, edits>>
          /\ cur' = [cur EXCEPT ![s] = t] /\ t \in batch[s]
      BY <2>2 DEF Execute, rowVars, envVars
    <3> QED
      BY <3>1, <3>2 DEF TypeOK
  <2>3. ASSUME NEW s \in Senders, NextInBatch(s)
        PROVE  /\ batch' \in [Senders -> SUBSET Tasks]
               /\ nth' \in [Senders -> [Tasks -> Nat]]
               /\ cur' \in [Senders -> Tasks \cup {NoTask}]
               /\ outcome' \in [Senders -> {"ok", "retry", "terminal"}]
               /\ \A v \in Senders : cur'[v] = NoTask \/ cur'[v] \in batch'[v]
    BY <2>3 DEF NextInBatch, TypeOK
  <2>4. ASSUME NEW s \in Senders, CompleteTask(s) PROVE TypeOK'
    <3>1. /\ NextInBatch(s) /\ status' \in [Tasks -> {"none"} \cup Open \cup Settled]
          /\ UNCHANGED <<dest, attempts, due, stale, accepted, retried, reclaims, overtaken,
                         lost, overtakes, edits>>
      BY <2>4 DEF CompleteTask, TypeOK, histVars, envVars
    <3> QED
      BY <2>3, <3>1 DEF TypeOK
  <2>5. ASSUME NEW s \in Senders, FailTask(s) PROVE TypeOK'
    <3>1. /\ NextInBatch(s)
          /\ UNCHANGED <<dest, attempts, stale, accepted, reclaims, overtaken,
                         lost, overtakes, edits>>
      BY <2>5 DEF FailTask, envVars
    <3>2. cur[s] \in Tasks /\ cur[s] \in batch[s]
      BY <2>5 DEF FailTask, TypeOK
    <3>3. status' \in [Tasks -> {"none"} \cup Open \cup Settled]
      BY <2>5, <3>2 DEF FailTask, TypeOK
    <3>4. due' \in [Tasks -> BOOLEAN]
      BY <2>5, <3>2 DEF FailTask, TypeOK, Dead
    <3>5. retried' \in [Tasks -> SUBSET (0 .. MaxAttempts - 1)]
      <4>1. CASE Dead(s)
        BY <2>5, <4>1 DEF FailTask, TypeOK
      <4>2. CASE ~Dead(s)
        <5>1. nth[s][cur[s]] \in 0 .. MaxAttempts - 1
          BY <3>2, <4>2 DEF Dead, TypeOK
        <5>2. retried' = [retried EXCEPT ![cur[s]] = retried[cur[s]] \cup {nth[s][cur[s]]}]
          BY <2>5, <4>2 DEF FailTask
        <5> QED
          BY <3>2, <5>1, <5>2 DEF TypeOK
      <4> QED
        BY <4>1, <4>2
    <3> QED
      BY <2>3, <3>1, <3>3, <3>4, <3>5 DEF TypeOK
  <2>6. ASSUME NEW s \in Senders, OutcomeLost(s) PROVE TypeOK'
    <3>1. /\ NextInBatch(s) /\ lost' \in 0 .. MaxLost
          /\ UNCHANGED <<dest, status, attempts, due, stale, accepted, retried, reclaims, overtaken,
                         overtakes, edits>>
      BY <2>6 DEF OutcomeLost, TypeOK, histVars, rowVars
    <3> QED
      BY <2>3, <3>1 DEF TypeOK
  <2>7. ASSUME NEW s \in Senders, SenderStops(s) PROVE TypeOK'
    BY <2>7 DEF SenderStops, TypeOK, histVars, rowVars
  <2>8. ASSUME NEW t \in Tasks, BackoffElapses(t) PROVE TypeOK'
    BY <2>8 DEF BackoffElapses, TypeOK, senderVars, histVars, envVars
  <2>9. ASSUME NEW t \in Tasks, ClaimExpires(t) PROVE TypeOK'
    BY <2>9 DEF ClaimExpires, TypeOK, senderVars, histVars, envVars
  <2>10. ASSUME NEW t \in Tasks, ClaimOvertaken(t) PROVE TypeOK'
    BY <2>10 DEF ClaimOvertaken, TypeOK, senderVars
  <2>11. ASSUME NEW r \in Reqs, FanOut(r) PROVE TypeOK'
    BY <2>11 DEF FanOut, TypeOK, senderVars, histVars, envVars
  <2>12. ASSUME NEW d \in Dests, EditDestination(d) PROVE TypeOK'
    BY <2>12 DEF EditDestination, TypeOK, rowVars, senderVars, histVars
  <2>13. ASSUME UNCHANGED deliveryVars PROVE TypeOK'
    BY <2>13 DEF deliveryVars, rowVars, senderVars, histVars, envVars, TypeOK
  <2> QED
    BY <2>1, <2>2, <2>4, <2>5, <2>6, <2>7, <2>8, <2>9, <2>10, <2>11, <2>12, <2>13
       DEF DeliveryNext, Work, Elapse
<1> QED
  BY <1>1, <1>2, PTL DEF DeliverySpec

-----------------------------------------------------------------------------
(***************************************************************************)
(* Claims: what a sender holds is the task's current attempt.              *)
(***************************************************************************)

ClaimInv == ClaimsCurrent /\ AttemptsExclusive

\* A sender lets go of a task, or of all of them; it may write to what it held.
LEMMA LetGo ==
    ASSUME TypeOK, ClaimInv, NEW s \in Senders, NEW rest \in SUBSET batch[s],
           batch' = [batch EXCEPT ![s] = rest],
           UNCHANGED <<attempts, nth, stale, overtaken>>,
           \A t \in Tasks : status'[t] = status[t] \/ (t \in batch[s] /\ t \notin rest)
    PROVE  ClaimInv'
<1>1. \A v \in Senders : batch'[v] \subseteq batch[v] /\ batch[v] \subseteq Tasks
  BY DEF TypeOK
<1>2. AttemptsExclusive'
  BY <1>1 DEF ClaimInv, AttemptsExclusive
<1>3. ASSUME NEW v \in Senders, NEW t \in batch'[v], t \notin overtaken
      PROVE  status'[t] = status[t]
  <2>1. CASE v = s
    BY <1>1, <1>3, <2>1 DEF TypeOK
  <2>2. CASE v # s
    BY <1>1, <1>3, <2>2 DEF ClaimInv, AttemptsExclusive
  <2> QED
    BY <2>1, <2>2
<1>4. ClaimsCurrent'
  BY <1>1, <1>3 DEF ClaimInv, ClaimsCurrent
<1> QED
  BY <1>2, <1>4 DEF ClaimInv

LEMMA ClaimsAreSound == DeliverySpec => []ClaimInv
<1>1. DeliveryInit => ClaimInv
  BY DEF DeliveryInit, ClaimInv, ClaimsCurrent, AttemptsExclusive
<1>2. TypeOK /\ ClaimInv /\ [DeliveryNext]_deliveryVars => ClaimInv'
  <2> SUFFICES ASSUME TypeOK, ClaimInv, [DeliveryNext]_deliveryVars
               PROVE  ClaimInv'
    OBVIOUS
  <2>1. ASSUME NEW s \in Senders, Claim(s) PROVE ClaimInv'
    <3>1. PICK c \in SUBSET Claimable :
            /\ batch' = [batch EXCEPT ![s] = c]
            /\ status' = [t \in Tasks |-> IF t \in c THEN "running" ELSE status[t]]
            /\ attempts' = [t \in Tasks |-> IF t \in c THEN attempts[t] + 1 ELSE attempts[t]]
            /\ nth' = [nth EXCEPT ![s] = [t \in Tasks |-> IF t \in c THEN attempts[t] + 1 ELSE 0]]
            /\ stale' = [t \in Tasks |-> t \notin c /\ stale[t]]
      BY <2>1 DEF Claim
    <3>2. overtaken' = overtaken /\ c \subseteq Tasks
      BY <2>1 DEF Claim, Claimable
    <3>3. /\ batch'[s] = c
          /\ \A t \in c : nth'[s][t] = attempts[t] + 1
          /\ \A v \in Senders : v # s => batch'[v] = batch[v] /\ nth'[v] = nth[v]
      BY <3>1, <3>2 DEF TypeOK
    <3>4. \A t \in Tasks : /\ attempts'[t] = IF t \in c THEN attempts[t] + 1 ELSE attempts[t]
                           /\ status'[t] = IF t \in c THEN "running" ELSE status[t]
                           /\ stale'[t] = (t \notin c /\ stale[t])
      BY <3>1
    <3>5. ASSUME NEW v \in Senders, NEW t \in batch[v], t \in c PROVE t \in overtaken
      BY <3>5 DEF ClaimInv, ClaimsCurrent, Claimable
    <3>6. \A v \in Senders : batch[v] \subseteq Tasks
      BY DEF TypeOK
    <3>7. \A t \in Tasks : attempts[t] \in Nat
      BY DEF TypeOK
    <3>8. ClaimsCurrent'
      <4> SUFFICES ASSUME NEW v \in Senders, NEW t \in batch'[v]
                   PROVE  /\ nth'[v][t] \in 1 .. attempts'[t]
                          /\ t \notin overtaken' =>
                              status'[t] = "running" /\ nth'[v][t] = attempts'[t] /\ ~stale'[t]
        BY DEF ClaimsCurrent
      <4>1. CASE v = s
        <5>1. t \in c /\ t \in Tasks /\ nth'[v][t] = attempts[t] + 1
          BY <3>2, <3>3, <4>1
        <5>2. attempts'[t] = attempts[t] + 1 /\ status'[t] = "running" /\ ~stale'[t]
          BY <3>4, <5>1
        <5>3. attempts[t] + 1 \in 1 .. attempts[t] + 1
          BY <3>7, <5>1
        <5> QED
          BY <5>1, <5>2, <5>3
      <4>2. CASE v # s
        <5>1. t \in batch[v] /\ nth'[v] = nth[v] /\ t \in Tasks
          BY <3>3, <3>6, <4>2
        <5>2. nth[v][t] \in 1 .. attempts[t] /\ (t \notin overtaken =>
                  status[t] = "running" /\ nth[v][t] = attempts[t] /\ ~stale[t])
          BY <5>1 DEF ClaimInv, ClaimsCurrent
        <5>3. nth'[v][t] \in 1 .. attempts'[t]
          BY <3>4, <3>7, <5>1, <5>2
        <5> QED
          BY <3>2, <3>4, <3>5, <5>1, <5>2, <5>3
      <4> QED
        BY <4>1, <4>2
    <3>9. AttemptsExclusive'
      <4>1. ASSUME NEW v \in Senders, v # s, NEW t \in batch[v], t \in c
            PROVE  t \in overtaken' /\ nth'[v][t] # nth'[s][t]
        <5>1. nth[v][t] \in 1 .. attempts[t] /\ t \in Tasks
          BY <3>6, <4>1 DEF ClaimInv, ClaimsCurrent
        <5>2. nth[v][t] # attempts[t] + 1
          BY <3>7, <5>1
        <5> QED
          BY <3>2, <3>3, <3>5, <4>1, <5>2
      <4> QED
        BY <3>2, <3>3, <4>1 DEF ClaimInv, AttemptsExclusive
    <3> QED
      BY <3>8, <3>9 DEF ClaimInv
  <2>2. ASSUME NEW s \in Senders, NEW t \in Tasks, Execute(s, t) PROVE ClaimInv'
    BY <2>2 DEF Execute, rowVars, ClaimInv, ClaimsCurrent, AttemptsExclusive
  <2>3. ASSUME NEW s \in Senders, CompleteTask(s) \/ FailTask(s) PROVE ClaimInv'
    <3>1. cur[s] \in batch[s] /\ cur[s] \in Tasks
      BY <2>3 DEF CompleteTask, FailTask, TypeOK
    <3>2. /\ batch' = [batch EXCEPT ![s] = batch[s] \ {cur[s]}]
          /\ UNCHANGED <<attempts, nth, stale, overtaken>>
          /\ \E x : status' = [status EXCEPT ![cur[s]] = x]
      BY <2>3 DEF CompleteTask, FailTask, NextInBatch, histVars
    <3>3. \A t \in Tasks : status'[t] = status[t] \/ (t \in batch[s] /\ t \notin batch[s] \ {cur[s]})
      BY <3>1, <3>2 DEF TypeOK
    <3> QED
      BY <3>2, <3>3, LetGo
  <2>4. ASSUME NEW s \in Senders, OutcomeLost(s) PROVE ClaimInv'
    BY <2>4, LetGo DEF OutcomeLost, NextInBatch, rowVars, histVars
  <2>5. ASSUME NEW s \in Senders, SenderStops(s) PROVE ClaimInv'
    BY <2>5, LetGo DEF SenderStops, rowVars, histVars
  <2>6. ASSUME NEW t \in Tasks, BackoffElapses(t) PROVE ClaimInv'
    BY <2>6 DEF BackoffElapses, senderVars, histVars, ClaimInv, ClaimsCurrent, AttemptsExclusive
  <2>7. ASSUME NEW t \in Tasks, ClaimExpires(t) PROVE ClaimInv'
    <3>1. /\ stale' = [stale EXCEPT ![t] = TRUE] /\ (\A s \in Senders : t \notin batch[s])
          /\ UNCHANGED <<status, attempts, batch, nth, overtaken>>
      BY <2>7 DEF ClaimExpires, AtWork, senderVars, histVars
    <3>2. \A s \in Senders : \A u \in batch[s] : stale'[u] = stale[u]
      BY <3>1 DEF TypeOK
    <3> QED
      BY <3>1, <3>2 DEF ClaimInv, ClaimsCurrent, AttemptsExclusive
  <2>8. ASSUME NEW t \in Tasks, ClaimOvertaken(t) PROVE ClaimInv'
    <3>1. /\ stale' = [stale EXCEPT ![t] = TRUE] /\ overtaken' = overtaken \cup {t}
          /\ UNCHANGED <<status, attempts, batch, nth>>
      BY <2>8 DEF ClaimOvertaken, senderVars
    <3>2. \A u \in Tasks : u \notin overtaken' => stale'[u] = stale[u] /\ u \notin overtaken
      BY <3>1 DEF TypeOK
    <3>3. \A s \in Senders : batch[s] \subseteq Tasks
      BY DEF TypeOK
    <3> QED
      BY <3>1, <3>2, <3>3 DEF ClaimInv, ClaimsCurrent, AttemptsExclusive
  <2>9. ASSUME NEW r \in Reqs, FanOut(r) PROVE ClaimInv'
    <3>1. /\ \A t \in Tasks : status[t] # "none" => status'[t] = status[t]
          /\ UNCHANGED <<attempts, stale, batch, nth, overtaken>>
      BY <2>9 DEF FanOut, senderVars, histVars
    <3>2. \A s \in Senders : batch[s] \subseteq Tasks
      BY DEF TypeOK
    <3> QED
      BY <3>1, <3>2 DEF ClaimInv, ClaimsCurrent, AttemptsExclusive
  <2>10. ASSUME NEW d \in Dests, EditDestination(d) PROVE ClaimInv'
    BY <2>10 DEF EditDestination, rowVars, senderVars, histVars, ClaimInv, ClaimsCurrent, AttemptsExclusive
  <2>11. ASSUME UNCHANGED deliveryVars PROVE ClaimInv'
    BY <2>11 DEF deliveryVars, rowVars, senderVars, histVars, ClaimInv, ClaimsCurrent, AttemptsExclusive
  <2> QED
    BY <2>1, <2>2, <2>3, <2>4, <2>5, <2>6, <2>7, <2>8, <2>9, <2>10, <2>11
       DEF DeliveryNext, Work, Elapse
<1> QED
  BY <1>1, <1>2, DeliveriesTyped, PTL DEF DeliverySpec

(* No two senders carry the same attempt of a task, nor, unless its claim   *)
(* was overtaken, the same task.                                            *)
THEOREM ClaimsAreExclusive == DeliverySpec => []AttemptsExclusive
BY ClaimsAreSound, PTL DEF ClaimInv

(* completed and dead are final unless the task's claim was overtaken.      *)
THEOREM SettledStaysSettled == DeliverySpec => SettledIsFinal
<1>1. TypeOK /\ ClaimInv /\ [DeliveryNext]_deliveryVars =>
        [\A t \in Tasks \ overtaken : status[t] \in Settled => status'[t] = status[t]]_deliveryVars
  <2> SUFFICES ASSUME TypeOK, ClaimInv, DeliveryNext, NEW t \in Tasks \ overtaken, status[t] \in Settled
               PROVE  status'[t] = status[t]
    OBVIOUS
  <2>0. \A s \in Senders : t \notin batch[s]
    BY DEF ClaimInv, ClaimsCurrent, Settled
  <2>1. ASSUME NEW s \in Senders, Claim(s) PROVE status'[t] = status[t]
    <3>1. PICK c \in SUBSET Claimable :
            status' = [u \in Tasks |-> IF u \in c THEN "running" ELSE status[u]]
      BY <2>1 DEF Claim
    <3>2. t \notin Claimable
      BY DEF Claimable, Settled
    <3> QED
      BY <3>1, <3>2
  <2>2. ASSUME NEW s \in Senders, CompleteTask(s) \/ FailTask(s) PROVE status'[t] = status[t]
    <3>1. cur[s] # t
      BY <2>0, <2>2 DEF CompleteTask, FailTask, TypeOK
    <3>2. \E x : status' = [status EXCEPT ![cur[s]] = x]
      BY <2>2 DEF CompleteTask, FailTask
    <3> QED
      BY <3>1, <3>2 DEF TypeOK
  <2>3. ASSUME NEW r \in Reqs, FanOut(r) PROVE status'[t] = status[t]
    BY <2>3 DEF FanOut, Settled
  <2> QED
    BY <2>1, <2>2, <2>3 DEF DeliveryNext, Work, Elapse, Execute, OutcomeLost, SenderStops, BackoffElapses,
       ClaimExpires, ClaimOvertaken, EditDestination, rowVars
<1> QED
  BY <1>1, DeliveriesTyped, ClaimsAreSound, PTL DEF DeliverySpec, SettledIsFinal

-----------------------------------------------------------------------------
(***************************************************************************)
(* Attempts: every start of a task is the first one, or is paid for by a   *)
(* failed attempt below the limit or by a reclaim.                         *)
(***************************************************************************)

CountInv == RetriesArePast /\ StartsExplained

LEMMA RetriedFinite ==
    ASSUME TypeOK, NEW t \in Tasks
    PROVE  IsFiniteSet(retried[t]) /\ Cardinality(retried[t]) \in Nat
<1>1. IsFiniteSet(0 .. MaxAttempts - 1)
  BY FS_Interval, DeliveryAssumption
<1>2. retried[t] \subseteq 0 .. MaxAttempts - 1
  BY DEF TypeOK
<1> QED
  BY <1>1, <1>2, FS_Subset, FS_CardinalityType

\* Steps that start nothing and write nothing to a task.
LEMMA NothingCounted ==
    ASSUME TypeOK, CountInv, UNCHANGED <<attempts, nth, retried, reclaims>>,
           \A s \in Senders : batch'[s] \subseteq batch[s],
           \A t \in Tasks : \/ status'[t] = status[t]
                            \/ status'[t] \in Settled
                            \/ status[t] = "none" /\ status'[t] = "pending"
    PROVE  CountInv'
<1>1. RetriesArePast'
  BY DEF CountInv, RetriesArePast
<1>2. ASSUME NEW t \in Tasks
      PROVE  attempts'[t] <= Cardinality(retried'[t]) + reclaims'[t]
                       + IF status'[t] \in {"none", "pending", "failed"} THEN 0 ELSE 1
  <2> DEFINE n == Cardinality(retried[t])
  <2>1. n \in Nat /\ attempts[t] \in Nat /\ reclaims[t] \in Nat
    BY RetriedFinite DEF TypeOK
  <2>2. attempts[t] <= n + reclaims[t]
                       + IF status[t] \in {"none", "pending", "failed"} THEN 0 ELSE 1
    BY DEF CountInv, StartsExplained
  <2> HIDE DEF n
  <2>3. attempts[t] <= n + reclaims[t]
                       + IF status'[t] \in {"none", "pending", "failed"} THEN 0 ELSE 1
    <3>1. CASE status'[t] = status[t]
      BY <2>2, <3>1
    <3>2. CASE status'[t] \in Settled
      BY <2>1, <2>2, <3>2 DEF Settled
    <3>3. CASE status[t] = "none" /\ status'[t] = "pending"
      BY <2>2, <3>3
    <3> QED
      BY <3>1, <3>2, <3>3
  <2> QED
    BY <2>3 DEF n
<1> QED
  BY <1>1, <1>2 DEF CountInv, StartsExplained

LEMMA AttemptsAreCounted == DeliverySpec => []CountInv
<1>1. DeliveryInit => CountInv
  <2> SUFFICES ASSUME DeliveryInit PROVE CountInv
    OBVIOUS
  <2>1. RetriesArePast
    BY DEF DeliveryInit, RetriesArePast
  <2>2. StartsExplained
    BY FS_EmptySet DEF DeliveryInit, StartsExplained
  <2> QED
    BY <2>1, <2>2 DEF CountInv
<1>2. TypeOK /\ ClaimInv /\ CountInv /\ [DeliveryNext]_deliveryVars => CountInv'
  <2> SUFFICES ASSUME TypeOK, ClaimInv, CountInv, [DeliveryNext]_deliveryVars
               PROVE  CountInv'
    OBVIOUS
  <2>1. ASSUME NEW s \in Senders, Claim(s) PROVE CountInv'
    <3>1. PICK c \in SUBSET Claimable :
            /\ batch' = [batch EXCEPT ![s] = c]
            /\ status' = [t \in Tasks |-> IF t \in c THEN "running" ELSE status[t]]
            /\ attempts' = [t \in Tasks |-> IF t \in c THEN attempts[t] + 1 ELSE attempts[t]]
            /\ nth' = [nth EXCEPT ![s] = [t \in Tasks |-> IF t \in c THEN attempts[t] + 1 ELSE 0]]
            /\ reclaims' = [t \in Tasks |->
                    IF t \in c /\ status[t] = "running" THEN reclaims[t] + 1 ELSE reclaims[t]]
      BY <2>1 DEF Claim
    <3>2. retried' = retried
      BY <2>1 DEF Claim
    <3>3. ASSUME NEW t \in Tasks
          PROVE  /\ retried'[t] \subseteq 1 .. attempts'[t]
                 /\ \A v \in Senders : t \in batch'[v] => nth'[v][t] \notin retried'[t]
      <4>1. attempts[t] \in Nat /\ retried[t] \subseteq 1 .. attempts[t]
        BY DEF CountInv, RetriesArePast, TypeOK
      <4>2. attempts'[t] \in {attempts[t], attempts[t] + 1}
        BY <3>1
      <4>3. retried'[t] \subseteq 1 .. attempts'[t] /\ attempts[t] + 1 \notin retried[t]
        BY <3>2, <4>1, <4>2
      <4>4. ASSUME NEW v \in Senders, t \in batch'[v] PROVE nth'[v][t] \notin retried'[t]
        <5>1. CASE v = s
          BY <3>1, <3>2, <4>3, <4>4, <5>1 DEF TypeOK
        <5>2. CASE v # s
          BY <3>1, <3>2, <4>4, <5>2 DEF CountInv, RetriesArePast, TypeOK
        <5> QED
          BY <5>1, <5>2
      <4> QED
        BY <4>3, <4>4
    <3>4. ASSUME NEW t \in Tasks
          PROVE  attempts'[t] <= Cardinality(retried'[t]) + reclaims'[t]
                       + IF status'[t] \in {"none", "pending", "failed"} THEN 0 ELSE 1
      <4> DEFINE n == Cardinality(retried[t])
      <4>1. n \in Nat /\ attempts[t] \in Nat /\ reclaims[t] \in Nat
        BY RetriedFinite DEF TypeOK
      <4>2. attempts[t] <= n + reclaims[t]
                       + IF status[t] \in {"none", "pending", "failed"} THEN 0 ELSE 1
        BY DEF CountInv, StartsExplained
      <4>3. Cardinality(retried'[t]) = n
        BY <3>2
      <4> HIDE DEF n
      <4>4. CASE t \notin c
        BY <3>1, <4>2, <4>3, <4>4
      <4>5. CASE t \in c /\ status[t] = "running"
        <5>1. attempts'[t] = attempts[t] + 1 /\ reclaims'[t] = reclaims[t] + 1 /\ status'[t] = "running"
          BY <3>1, <4>5
        <5>2. attempts[t] <= n + reclaims[t] + 1
          BY <4>2, <4>5
        <5> QED
          BY <4>1, <4>3, <5>1, <5>2
      <4>6. CASE t \in c /\ status[t] # "running"
        <5>1. attempts'[t] = attempts[t] + 1 /\ reclaims'[t] = reclaims[t] /\ status'[t] = "running"
          BY <3>1, <4>6
        <5>2. attempts[t] <= n + reclaims[t] + 0
          BY <4>2, <4>6 DEF Claimable
        <5> QED
          BY <4>1, <4>3, <5>1, <5>2
      <4> QED
        BY <4>4, <4>5, <4>6
    <3> QED
      BY <3>3, <3>4 DEF CountInv, RetriesArePast, StartsExplained
  <2>2. ASSUME NEW s \in Senders, CompleteTask(s) PROVE CountInv'
    <3>1. /\ batch' = [batch EXCEPT ![s] = batch[s] \ {cur[s]}]
          /\ status' = [status EXCEPT ![cur[s]] = "completed"]
          /\ UNCHANGED <<attempts, nth, retried, reclaims>>
      BY <2>2 DEF CompleteTask, NextInBatch, histVars
    <3>2. \A t \in Tasks : status'[t] = status[t] \/ status'[t] \in Settled
      BY <3>1 DEF TypeOK, Settled
    <3>3. \A v \in Senders : batch'[v] \subseteq batch[v]
      BY <3>1 DEF TypeOK
    <3> QED
      BY <3>1, <3>2, <3>3, NothingCounted
  <2>3. ASSUME NEW s \in Senders, FailTask(s) PROVE CountInv'
    <3>0. /\ cur[s] \in batch[s] /\ cur[s] \in Tasks
          /\ batch' = [batch EXCEPT ![s] = batch[s] \ {cur[s]}]
          /\ UNCHANGED <<attempts, nth, reclaims>>
      BY <2>3 DEF FailTask, NextInBatch, TypeOK
    <3>1. /\ \A v \in Senders : batch'[v] \subseteq batch[v]
          /\ cur[s] \notin batch'[s]
      BY <3>0 DEF TypeOK
    <3>2. CASE Dead(s)
      <4>1. status' = [status EXCEPT ![cur[s]] = "dead"] /\ retried' = retried
        BY <2>3, <3>2 DEF FailTask
      <4>2. \A t \in Tasks : status'[t] = status[t] \/ status'[t] \in Settled
        BY <4>1 DEF TypeOK, Settled
      <4> QED
        BY <3>0, <3>1, <4>1, <4>2, NothingCounted
    <3>3. CASE ~Dead(s)
      <4> DEFINE k == nth[s][cur[s]]
      <4>1. /\ status' = [status EXCEPT ![cur[s]] = "failed"]
            /\ retried' = [retried EXCEPT ![cur[s]] = retried[cur[s]] \cup {k}]
        BY <2>3, <3>3 DEF FailTask
      <4>2. k \in 1 .. attempts[cur[s]] /\ k \notin retried[cur[s]]
        BY <3>0 DEF ClaimInv, ClaimsCurrent, CountInv, RetriesArePast
      <4>3. /\ retried'[cur[s]] = retried[cur[s]] \cup {k}
            /\ \A t \in Tasks : t # cur[s] => retried'[t] = retried[t] /\ status'[t] = status[t]
            /\ status'[cur[s]] = "failed"
        BY <3>0, <4>1 DEF TypeOK
      <4>4. RetriesArePast'
        <5> SUFFICES ASSUME NEW t \in Tasks
                     PROVE  /\ retried'[t] \subseteq 1 .. attempts[t]
                            /\ \A v \in Senders : t \in batch'[v] => nth[v][t] \notin retried'[t]
          BY <3>0 DEF RetriesArePast
        <5>1. CASE t # cur[s]
          BY <3>1, <4>3, <5>1 DEF CountInv, RetriesArePast
        <5>2. CASE t = cur[s]
          <6>1. retried'[t] \subseteq 1 .. attempts[t]
            BY <4>2, <4>3, <5>2 DEF CountInv, RetriesArePast
          <6>2. ASSUME NEW v \in Senders, t \in batch'[v] PROVE nth[v][t] \notin retried'[t]
            <7>1. v # s /\ t \in batch[v]
              BY <3>1, <5>2, <6>2
            <7>2. nth[v][t] # k
              BY <3>0, <5>2, <7>1 DEF ClaimInv, AttemptsExclusive
            <7> QED
              BY <4>3, <5>2, <7>1, <7>2 DEF CountInv, RetriesArePast
          <6> QED
            BY <6>1, <6>2
        <5> QED
          BY <5>1, <5>2
      <4>5. StartsExplained'
        <5> SUFFICES ASSUME NEW t \in Tasks
                     PROVE  attempts[t] <= Cardinality(retried'[t]) + reclaims[t]
                              + IF status'[t] \in {"none", "pending", "failed"} THEN 0 ELSE 1
          BY <3>0 DEF StartsExplained
        <5>1. CASE t # cur[s]
          BY <4>3, <5>1 DEF CountInv, StartsExplained
        <5>2. CASE t = cur[s]
          <6> DEFINE n == Cardinality(retried[t])
          <6>1. n \in Nat /\ attempts[t] \in Nat /\ reclaims[t] \in Nat
            BY RetriedFinite DEF TypeOK
          <6>2. attempts[t] <= n + reclaims[t]
                       + IF status[t] \in {"none", "pending", "failed"} THEN 0 ELSE 1
            BY DEF CountInv, StartsExplained
          <6>3. Cardinality(retried'[t]) = n + 1
            BY <4>2, <4>3, <5>2, RetriedFinite, FS_AddElement
          <6> HIDE DEF n
          <6>4. attempts[t] <= n + reclaims[t] + 1
            BY <6>1, <6>2
          <6> QED
            BY <4>3, <5>2, <6>1, <6>3, <6>4
        <5> QED
          BY <5>1, <5>2
      <4> QED
        BY <4>4, <4>5 DEF CountInv
    <3> QED
      BY <3>2, <3>3
  <2>4. ASSUME NEW s \in Senders, OutcomeLost(s) \/ SenderStops(s) PROVE CountInv'
    <3>1. /\ \E rest \in SUBSET batch[s] : batch' = [batch EXCEPT ![s] = rest]
          /\ UNCHANGED <<status, attempts, nth, retried, reclaims>>
      BY <2>4 DEF OutcomeLost, SenderStops, NextInBatch, rowVars, histVars
    <3>2. \A v \in Senders : batch'[v] \subseteq batch[v]
      BY <3>1 DEF TypeOK
    <3> QED
      BY <3>1, <3>2, NothingCounted
  <2>5. ASSUME NEW r \in Reqs, FanOut(r) PROVE CountInv'
    <3>1. /\ \A t \in Tasks : status'[t] = status[t] \/ (status[t] = "none" /\ status'[t] = "pending")
          /\ UNCHANGED <<attempts, nth, retried, reclaims, batch>>
      BY <2>5 DEF FanOut, senderVars, histVars
    <3> QED
      BY <3>1, NothingCounted
  <2>6. ASSUME UNCHANGED <<status, attempts, nth, retried, reclaims, batch>> PROVE CountInv'
    BY <2>6, NothingCounted
  <2> QED
    BY <2>1, <2>2, <2>3, <2>4, <2>5, <2>6
       DEF DeliveryNext, Work, Elapse, Execute, BackoffElapses, ClaimExpires, ClaimOvertaken,
           EditDestination, deliveryVars, rowVars, senderVars, histVars
<1> QED
  BY <1>1, <1>2, DeliveriesTyped, ClaimsAreSound, PTL DEF DeliverySpec

(* A task is started at most maxTaskAttempts times more than it was found   *)
(* abandoned, whichever late writers come between.                          *)
THEOREM AttemptsAreBounded == DeliverySpec => []AttemptsAccounted
<1>1. TypeOK /\ CountInv => AttemptsAccounted
  <2> SUFFICES ASSUME TypeOK, CountInv, NEW t \in Tasks
               PROVE  attempts[t] <= MaxAttempts + reclaims[t]
    BY DEF AttemptsAccounted
  <2> DEFINE n == Cardinality(retried[t])
  <2>1. n \in Nat /\ attempts[t] \in Nat /\ reclaims[t] \in Nat
    BY RetriedFinite DEF TypeOK
  <2>2. attempts[t] <= n + reclaims[t]
                       + IF status[t] \in {"none", "pending", "failed"} THEN 0 ELSE 1
    BY DEF CountInv, StartsExplained
  <2>3. n <= MaxAttempts - 1
    <3>1. retried[t] \subseteq 1 .. MaxAttempts - 1
      BY DeliveryAssumption DEF CountInv, RetriesArePast, TypeOK
    <3>2. IsFiniteSet(1 .. MaxAttempts - 1) /\ Cardinality(1 .. MaxAttempts - 1) = MaxAttempts - 1
      BY FS_Interval, DeliveryAssumption
    <3> QED
      BY <3>1, <3>2, FS_Subset
  <2> HIDE DEF n
  <2> QED
    BY <2>1, <2>2, <2>3, DeliveryAssumption
<1> QED
  BY <1>1, DeliveriesTyped, AttemptsAreCounted, PTL

-----------------------------------------------------------------------------
(***************************************************************************)
(* Outcomes: as long as none is lost, what a destination accepted is       *)
(* completed or is about to be.                                            *)
(***************************************************************************)

OutcomeInv ==
    /\ \A t \in Tasks : status[t] = "completed" => t \in accepted
    /\ \A s \in Senders : cur[s] # NoTask /\ outcome[s] = "ok" => cur[s] \in accepted
    /\ \A t \in accepted \ overtaken :
          lost = 0 => \/ status[t] = "completed"
                      \/ \E s \in Senders : cur[s] = t /\ outcome[s] = "ok"

LEMMA OutcomesLand == DeliverySpec => []OutcomeInv
<1> USE NoTaskIsNone
<1>1. DeliveryInit => OutcomeInv
  BY DEF DeliveryInit, OutcomeInv
<1>2. TypeOK /\ ClaimInv /\ OutcomeInv /\ [DeliveryNext]_deliveryVars => OutcomeInv'
  <2> SUFFICES ASSUME TypeOK, ClaimInv, OutcomeInv, [DeliveryNext]_deliveryVars
               PROVE  OutcomeInv'
    OBVIOUS
  <2>1. ASSUME NEW s \in Senders, Claim(s) PROVE OutcomeInv'
    <3>1. PICK c \in SUBSET Claimable :
            status' = [t \in Tasks |-> IF t \in c THEN "running" ELSE status[t]]
      BY <2>1 DEF Claim
    <3>2. \A t \in Tasks : /\ status'[t] = "completed" => status[t] = "completed"
                           /\ status[t] = "completed" => status'[t] = "completed"
      BY <3>1 DEF Claimable
    <3>3. UNCHANGED <<cur, outcome, accepted, overtaken, lost>> /\ accepted \subseteq Tasks
      BY <2>1 DEF Claim, envVars, TypeOK
    <3> QED
      BY <3>2, <3>3 DEF OutcomeInv
  <2>2. ASSUME NEW s \in Senders, NEW t \in Tasks, Execute(s, t) PROVE OutcomeInv'
    <3>1. PICK o \in {"ok", "retry", "terminal"} :
            /\ outcome' = [outcome EXCEPT ![s] = o]
            /\ accepted' = IF o = "ok" THEN accepted \cup {t} ELSE accepted
      BY <2>2 DEF Execute
    <3>2. /\ UNCHANGED <<status, overtaken, lost>>
          /\ cur[s] = NoTask /\ cur' = [cur EXCEPT ![s] = t]
      BY <2>2 DEF Execute, rowVars, envVars
    <3>3. \A v \in Senders : v # s => cur'[v] = cur[v] /\ outcome'[v] = outcome[v]
      BY <3>1, <3>2 DEF TypeOK
    <3>4. cur'[s] = t /\ outcome'[s] = o
      BY <3>1, <3>2 DEF TypeOK
    <3>5. \A u \in accepted : u # NoTask
      BY DEF TypeOK
    <3> QED
      BY <3>1, <3>2, <3>3, <3>4, <3>5 DEF OutcomeInv
  <2>3. ASSUME NEW s \in Senders, CompleteTask(s) PROVE OutcomeInv'
    <3>1. /\ cur[s] # NoTask /\ cur[s] \in Tasks /\ outcome[s] = "ok"
          /\ status' = [status EXCEPT ![cur[s]] = "completed"]
          /\ cur' = [cur EXCEPT ![s] = NoTask]
          /\ UNCHANGED <<outcome, accepted, overtaken, lost>>
      BY <2>3 DEF CompleteTask, NextInBatch, histVars, envVars, TypeOK
    <3>2. \A v \in Senders : v # s => cur'[v] = cur[v]
      BY <3>1 DEF TypeOK
    <3>3. \A t \in Tasks : status'[t] = IF t = cur[s] THEN "completed" ELSE status[t]
      BY <3>1 DEF TypeOK
    <3>4. cur'[s] = NoTask /\ accepted \subseteq Tasks
      BY <3>1 DEF TypeOK
    <3> QED
      BY <3>1, <3>2, <3>3, <3>4 DEF OutcomeInv
  <2>4. ASSUME NEW s \in Senders, FailTask(s) PROVE OutcomeInv'
    <3>1. /\ cur[s] # NoTask /\ cur[s] \in Tasks /\ cur[s] \in batch[s] /\ outcome[s] # "ok"
          /\ cur' = [cur EXCEPT ![s] = NoTask]
          /\ UNCHANGED <<outcome, accepted, overtaken, lost>>
      BY <2>4 DEF FailTask, NextInBatch, envVars, TypeOK
    <3>2. PICK x \in {"dead", "failed"} : status' = [status EXCEPT ![cur[s]] = x]
      BY <2>4 DEF FailTask
    <3>3. \A v \in Senders : v # s => cur'[v] = cur[v]
      BY <3>1 DEF TypeOK
    <3>4. \A t \in Tasks : status'[t] = IF t = cur[s] THEN x ELSE status[t]
      BY <3>1, <3>2 DEF TypeOK
    <3>5. cur'[s] = NoTask /\ accepted \subseteq Tasks
      BY <3>1 DEF TypeOK
    <3>6. ASSUME cur[s] \in accepted \ overtaken, lost = 0 PROVE FALSE
      <4>1. status[cur[s]] = "running"
        BY <3>1, <3>6 DEF ClaimInv, ClaimsCurrent
      <4>2. PICK v \in Senders : cur[v] = cur[s] /\ outcome[v] = "ok"
        BY <3>6, <4>1 DEF OutcomeInv
      <4>3. v # s /\ cur[s] \in batch[v]
        BY <3>1, <4>2 DEF TypeOK
      <4> QED
        BY <3>1, <3>6, <4>3 DEF ClaimInv, AttemptsExclusive
    <3> QED
      BY <3>1, <3>3, <3>4, <3>5, <3>6 DEF OutcomeInv
  <2>5. ASSUME NEW s \in Senders, OutcomeLost(s) \/ SenderStops(s) PROVE OutcomeInv'
    <3>1. /\ cur' = [cur EXCEPT ![s] = NoTask] /\ lost' = lost + 1
          /\ UNCHANGED <<status, outcome, accepted>>
      BY <2>5 DEF OutcomeLost, SenderStops, NextInBatch, rowVars, histVars
    <3>2. lost' # 0
      BY <3>1, DeliveryAssumption DEF TypeOK
    <3>3. \A v \in Senders : cur'[v] = IF v = s THEN NoTask ELSE cur[v]
      BY <3>1 DEF TypeOK
    <3> QED
      BY <3>1, <3>2, <3>3 DEF OutcomeInv
  <2>6. ASSUME NEW r \in Reqs, FanOut(r) PROVE OutcomeInv'
    <3>1. \A t \in Tasks : /\ status'[t] = "completed" => status[t] = "completed"
                           /\ status[t] = "completed" => status'[t] = "completed"
      BY <2>6 DEF FanOut
    <3>2. UNCHANGED <<cur, outcome, accepted, overtaken, lost>> /\ accepted \subseteq Tasks
      BY <2>6 DEF FanOut, senderVars, histVars, envVars, TypeOK
    <3> QED
      BY <3>1, <3>2 DEF OutcomeInv
  <2>7. ASSUME NEW t \in Tasks, ClaimOvertaken(t) PROVE OutcomeInv'
    BY <2>7 DEF ClaimOvertaken, senderVars, OutcomeInv
  <2>8. ASSUME UNCHANGED <<status, cur, outcome, accepted, overtaken, lost>> PROVE OutcomeInv'
    BY <2>8 DEF OutcomeInv
  <2> QED
    BY <2>1, <2>2, <2>3, <2>4, <2>5, <2>6, <2>7, <2>8
       DEF DeliveryNext, Work, Elapse, BackoffElapses, ClaimExpires, EditDestination, deliveryVars, rowVars,
           senderVars, histVars, envVars
<1> QED
  BY <1>1, <1>2, DeliveriesTyped, ClaimsAreSound, PTL DEF DeliverySpec

(* A completed task was accepted by its destination, and a task that was    *)
(* not overtaken is dead-lettered after an acceptance only if an outcome    *)
(* was lost.                                                                *)
THEOREM CompletedMeansAccepted == DeliverySpec => []CompletedWasAccepted
<1>1. TypeOK /\ ClaimInv /\ OutcomeInv => CompletedWasAccepted
  <2> SUFFICES ASSUME TypeOK, ClaimInv, OutcomeInv, NEW t \in Tasks,
                      status[t] = "dead", t \in accepted, t \notin overtaken, lost = 0
               PROVE  FALSE
    BY DEF CompletedWasAccepted, OutcomeInv, TypeOK
  <2>1. PICK s \in Senders : cur[s] = t /\ outcome[s] = "ok"
    BY DEF OutcomeInv
  <2>2. t \in batch[s]
    BY <2>1, NoTaskIsNone DEF TypeOK
  <2> QED
    BY <2>2 DEF ClaimInv, ClaimsCurrent
<1> QED
  BY <1>1, DeliveriesTyped, ClaimsAreSound, OutcomesLand, PTL

-----------------------------------------------------------------------------
(***************************************************************************)
(* The roll-up of a request, which ErasurePipeline takes as a variable.    *)
(***************************************************************************)

LEMMA RollUpCases ==
    ASSUME NEW r \in Reqs
    PROVE  LET dead == \E t \in Tasks : t[1] = r /\ status[t] = "dead"
               open == \E t \in Tasks : t[1] = r /\ status[t] \in Open
           IN  /\ dead => RollUp(r) = "dead"
               /\ ~dead /\ open => RollUp(r) = "open"
               /\ ~dead /\ ~open => RollUp(r) \in {"clear", "none"}
BY DEF RollUp

LEMMA RollUpKept ==
    ASSUME NEW r \in Reqs, \A t \in Tasks : t[1] = r => status'[t] = status[t]
    PROVE  RollUp(r)' = RollUp(r)
<1>1. {status[t] : t \in {u \in Tasks : u[1] = r}} = {status'[t] : t \in {u \in Tasks : u[1] = r}}
  OBVIOUS
<1> QED
  BY <1>1 DEF RollUp

\* Open tasks change: the roll-up of their request was open, or dead and
\* another task keeps it so.
LEMMA RunningDecides ==
    ASSUME NEW r \in Reqs, NEW c \in SUBSET Tasks, \A t \in c : status[t] \in Open,
           \A t \in Tasks \ c : status'[t] = status[t]
    PROVE  RollUp(r)' = RollUp(r) \/ RollUp(r) = "open"
<1>1. CASE \A t \in c : t[1] # r
  BY <1>1, RollUpKept
<1>2. CASE \E t \in Tasks : t[1] = r /\ status[t] = "dead"
  <2>1. PICK t \in Tasks : t[1] = r /\ status[t] = "dead"
    BY <1>2
  <2>2. status'[t] = "dead"
    BY <2>1 DEF Open
  <2>3. RollUp(r)' = "dead"
    BY <2>1, <2>2 DEF RollUp
  <2> QED
    BY <1>2, <2>3, RollUpCases
<1>3. CASE ~(\A t \in c : t[1] # r) /\ ~(\E t \in Tasks : t[1] = r /\ status[t] = "dead")
  BY <1>3, RollUpCases
<1> QED
  BY <1>1, <1>2, <1>3

(* What the erasure pipeline assumes of the deliveries of a request: the    *)
(* roll-up moves from open to clear or dead, back only through a fan-out    *)
(* or a sender whose claim was overtaken.                                   *)
THEOREM RollUpsAsAssumed == DeliverySpec => RollUpAsAssumed
<1>1. TypeOK /\ ClaimInv /\ [DeliveryNext]_deliveryVars =>
        [\A r \in Reqs : RollUp(r)' # RollUp(r) =>
            \/ RollUp(r) = "open"
            \/ RollUp(r) \in {"none", "clear"} /\ FanOut(r)
            \/ \E t \in overtaken : t[1] = r]_deliveryVars
  <2> SUFFICES ASSUME TypeOK, ClaimInv, DeliveryNext, NEW r \in Reqs,
                      ~ \E t \in overtaken : t[1] = r
               PROVE  \/ RollUp(r)' = RollUp(r) \/ RollUp(r) = "open"
                      \/ RollUp(r) \in {"none", "clear"} /\ FanOut(r)
    OBVIOUS
  <2>1. ASSUME NEW s \in Senders, Claim(s) PROVE RollUp(r)' = RollUp(r) \/ RollUp(r) = "open"
    <3>1. PICK c \in SUBSET Claimable :
            status' = [t \in Tasks |-> IF t \in c THEN "running" ELSE status[t]]
      BY <2>1 DEF Claim
    <3>2. c \subseteq Tasks /\ \A t \in c : status[t] \in Open
      BY DEF Claimable, Open
    <3> QED
      BY <3>1, <3>2, RunningDecides
  <2>2. ASSUME NEW s \in Senders, CompleteTask(s) \/ FailTask(s)
        PROVE  RollUp(r)' = RollUp(r) \/ RollUp(r) = "open"
    <3>1. cur[s] \in Tasks /\ cur[s] \in batch[s]
      BY <2>2 DEF CompleteTask, FailTask, TypeOK
    <3>2. \A t \in Tasks \ {cur[s]} : status'[t] = status[t]
      BY <2>2, <3>1 DEF CompleteTask, FailTask, TypeOK
    <3>3. CASE cur[s][1] # r
      BY <3>2, <3>3, RollUpKept
    <3>4. CASE cur[s][1] = r
      <4>1. status[cur[s]] \in Open
        BY <3>1, <3>4 DEF ClaimInv, ClaimsCurrent, Open
      <4>2. {cur[s]} \in SUBSET Tasks /\ \A t \in {cur[s]} : status[t] \in Open
        BY <3>1, <4>1
      <4> QED
        BY <3>2, <4>2, RunningDecides
    <3> QED
      BY <3>3, <3>4
  <2>3. ASSUME NEW q \in Reqs, FanOut(q)
        PROVE  \/ RollUp(r)' = RollUp(r) \/ RollUp(r) = "open"
               \/ RollUp(r) \in {"none", "clear"} /\ FanOut(r)
    <3>1. \A t \in Tasks : status'[t] # status[t] => t[1] = q /\ status[t] = "none"
      BY <2>3 DEF FanOut
    <3>2. CASE q # r
      BY <3>1, <3>2, RollUpKept
    <3>3. CASE q = r
      <4>1. CASE \E t \in Tasks : t[1] = r /\ status[t] = "dead"
        <5>1. PICK t \in Tasks : t[1] = r /\ status[t] = "dead"
          BY <4>1
        <5>2. RollUp(r)' = "dead"
          BY <3>1, <5>1 DEF RollUp
        <5> QED
          BY <4>1, <5>2, RollUpCases
      <4>2. CASE ~ \E t \in Tasks : t[1] = r /\ status[t] = "dead"
        BY <2>3, <3>3, <4>2, RollUpCases
      <4> QED
        BY <4>1, <4>2
    <3> QED
      BY <3>2, <3>3
  <2>4. ASSUME status' = status PROVE RollUp(r)' = RollUp(r)
    BY <2>4, RollUpKept
  <2> QED
    BY <2>1, <2>2, <2>3, <2>4 DEF DeliveryNext, Work, Elapse, Execute, OutcomeLost, SenderStops,
       BackoffElapses, ClaimExpires, ClaimOvertaken, EditDestination, rowVars
<1> QED
  BY <1>1, DeliveriesTyped, ClaimsAreSound, PTL DEF DeliverySpec, RollUpAsAssumed
=============================================================================
