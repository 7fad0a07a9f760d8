---------------------------- MODULE Members_proofs ----------------------------
(***************************************************************************)
(* Who administers what, for any number of accounts, organisations and     *)
(* requests.                                                               *)
(*                                                                         *)
(* A membership write decided on a snapshot.  What makes its decision good *)
(* at the commit is that whatever would spoil it aborts it: if the account *)
(* it takes an administrator's role from still has that role, the          *)
(* organisation has another administrator, unless a deletion already under *)
(* way has taken one.  A withdrawal that has counted holds the lock; what  *)
(* it counted is outdated only by an invitation taken back.  And who is    *)
(* found without a membership has none until he goes, or has joined since. *)
(***************************************************************************)
EXTENDS Members, TLAPS

WritesKnow ==
  \A p \in Requests :
    req[p].kind = "write" /\ req[p].pc = "begun" =>
      /\ req[p].user \in Accounts /\ req[p].org \in Orgs
      /\ req[p].was # "none" /\ org[req[p].org] # "none" /\ user[req[p].user] # "none"
      /\ req[p].last = TRUE => req[p].role = "none"
      /\ req[p].was = "admin" /\ role[req[p].org][req[p].user] = "admin"
           => Admins(req[p].org) # {req[p].user} \/ req[p].org \in bereft

DemotesKnow ==
  /\ \A p \in Requests :
       req[p].kind = "demote" /\ req[p].pc = "counted" =>
         /\ req[p].user \in Accounts /\ user[req[p].user] # "none"
         /\ req[p].stale = FALSE => super # {req[p].user}
  /\ \A p, q \in Requests :
       /\ req[p].kind = "demote" /\ req[p].pc = "counted"
       /\ req[q].kind = "demote" /\ req[q].pc = "counted"
       => p = q

DoomedKnow ==
  \A a \in Accounts :
    Doomed(a) => /\ user[a] # "none"
                 /\ a \in joined \/ \A o \in Orgs : role[o][a] = "none"

MembersInv == MembersTypeOK /\ WritesKnow /\ DemotesKnow /\ AdminRemains /\ DoomedKnow

-----------------------------------------------------------------------------
(* Records *)

LEMMA RequestParts ==
  /\ \A kind \in {"write", "demote", "invite"}, pc \in {"idle", "begun", "mailing"},
        a \in Accounts \cup {Nobody} :
       /\ Acts(kind, pc, a) \in Request
       /\ Acts(kind, pc, a).pc = pc /\ Acts(kind, pc, a).kind = kind
  /\ Idle \in Request /\ Idle.pc = "idle"
  /\ \A r \in Request : /\ r.user \in Accounts \cup {Nobody} /\ r.org \in Orgs \cup {Nobody}
                        /\ r.was \in Roles /\ r.role \in Roles /\ r.last \in BOOLEAN
                        /\ r.stale \in BOOLEAN
  <1>1. \A kind \in {"write", "demote", "invite"}, pc \in {"idle", "begun", "mailing"},
           a \in Accounts \cup {Nobody} :
          /\ Acts(kind, pc, a) \in Request
          /\ Acts(kind, pc, a).pc = pc /\ Acts(kind, pc, a).kind = kind
    BY DEF Acts, Request, Roles
  <1>2. \A r \in Request : /\ r.user \in Accounts \cup {Nobody} /\ r.org \in Orgs \cup {Nobody}
                           /\ r.was \in Roles /\ r.role \in Roles /\ r.last \in BOOLEAN
                           /\ r.stale \in BOOLEAN
    BY DEF Request
  <1> QED
    BY <1>1, <1>2 DEF Idle

\* The rows of role, user and org that one account or organisation changes.
LEMMA RowsKept ==
  ASSUME MembersTypeOK, NEW o \in Orgs, NEW a \in Accounts, NEW r \in Roles,
         role' = [role EXCEPT ![o][a] = r]
  PROVE  /\ role' \in [Orgs -> [Accounts -> Roles]]
         /\ role'[o][a] = r
         /\ \A x \in Orgs, b \in Accounts : x # o \/ b # a => role'[x][b] = role[x][b]
  BY DEF MembersTypeOK

\* Who is deleted is gone, the others are as they were.
LEMMA Deleted ==
  ASSUME MembersTypeOK, NEW A, Delete(A)
  PROVE  /\ user' \in [Accounts -> {"none", "live", "gone"}]
         /\ \A a \in Accounts : /\ a \in A => user'[a] = "gone"
                                /\ a \notin A => user'[a] = user[a]
  BY DEF MembersTypeOK, Delete

\* A membership of somebody, an organisation that stands: what the type asks.
MembersAre == \A o \in Orgs, a \in Accounts : role[o][a] # "none" => user[a] = "live" /\ Standing(o)

\* One request changes, to what knows nothing of the rows.
LEMMA RequestEnds ==
  ASSUME MembersTypeOK, NEW p \in Requests, Ends(p)
  PROVE  /\ req' \in [Requests -> Request]
         /\ req'[p] = Idle
         /\ \A q \in Requests \ {p} : req'[q] = req[q]
  BY RequestParts DEF MembersTypeOK, Ends

LEMMA RequestMoves ==
  ASSUME MembersTypeOK, NEW p \in Requests, NEW pc \in {"counted", "withdrawing"}, Moves(p, pc)
  PROVE  /\ req' \in [Requests -> Request]
         /\ req'[p].pc = pc /\ req'[p].kind = req[p].kind /\ req'[p].user = req[p].user
         /\ \A q \in Requests \ {p} : req'[q] = req[q]
  <1>1. \A r \in Request : /\ [r EXCEPT !.pc = pc] \in Request
                           /\ [r EXCEPT !.pc = pc].pc = pc
                           /\ [r EXCEPT !.pc = pc].kind = r.kind
                           /\ [r EXCEPT !.pc = pc].user = r.user
    BY DEF Request
  <1>2. req' = [req EXCEPT ![p] = [req[p] EXCEPT !.pc = pc]] /\ req[p] \in Request
    BY DEF Moves, MembersTypeOK
  <1> QED
    BY <1>1, <1>2 DEF MembersTypeOK

\* A withdrawal ends one request, and marks who has counted.
LEMMA RequestsOutdated ==
  ASSUME MembersTypeOK, NEW p \in Requests,
         req' = [q \in Requests |-> IF q = p THEN Idle ELSE Outdated(q)]
  PROVE  /\ req' \in [Requests -> Request]
         /\ req'[p] = Idle
         /\ \A q \in Requests \ {p} :
              /\ req[q].pc # "counted" => req'[q] = req[q]
              /\ req[q].pc = "counted" => /\ req'[q].pc = "counted" /\ req'[q].stale = TRUE
                                          /\ req'[q].kind = req[q].kind
                                          /\ req'[q].user = req[q].user
  <1>1. \A r \in Request : /\ [r EXCEPT !.stale = TRUE] \in Request
                           /\ [r EXCEPT !.stale = TRUE].stale = TRUE
                           /\ [r EXCEPT !.stale = TRUE].pc = r.pc
                           /\ [r EXCEPT !.stale = TRUE].kind = r.kind
                           /\ [r EXCEPT !.stale = TRUE].user = r.user
    BY DEF Request
  <1>2. \A q \in Requests : req[q] \in Request
    BY DEF MembersTypeOK
  <1> QED
    BY <1>1, <1>2, RequestParts DEF Outdated

\* Who is deleted with his memberships; nobody else loses one.
LEMMA Cascaded ==
  ASSUME MembersTypeOK, NEW A, Cascade(A)
  PROVE  /\ user' \in [Accounts -> {"none", "live", "gone"}]
         /\ \A a \in Accounts : /\ a \in A => user'[a] = "gone"
                                /\ a \notin A => user'[a] = user[a]
         /\ role' \in [Orgs -> [Accounts -> Roles]]
         /\ \A o \in Orgs, a \in Accounts : /\ a \in A => role'[o][a] = "none"
                                            /\ a \notin A => role'[o][a] = role[o][a]
         /\ bereft' \subseteq Orgs /\ bereft \subseteq bereft'
         /\ \A o \in Orgs, a \in Accounts : a \in A /\ role[o][a] = "admin" => o \in bereft'
  <1>1. Delete(A)
    BY DEF Cascade
  <1>2. role \in [Orgs -> [Accounts -> Roles]] /\ "none" \in Roles /\ bereft \subseteq Orgs
    BY DEF MembersTypeOK, Roles
  <1> QED
    BY <1>1, <1>2, Deleted DEF Cascade, Admins

-----------------------------------------------------------------------------
(* Types *)

PurgeRun == [pc : {"idle", "listed", "judging"}, org : Orgs \cup {Nobody},
             left : SUBSET Accounts, found : SUBSET Accounts]

LEMMA PurgeParts ==
  ASSUME MembersTypeOK
  PROVE  /\ purge \in PurgeRun /\ NoPurge \in PurgeRun /\ NoPurge.found = {}
         /\ purge.left \subseteq Accounts /\ purge.found \subseteq Accounts
         /\ \A l, f \in SUBSET Accounts :
              /\ Judging(l, f) \in PurgeRun
              /\ Judging(l, f).found \subseteq f
  BY DEF MembersTypeOK, PurgeRun, NoPurge, Judging

LEMMA MembersTypes ==
  ASSUME MembersInv, [MembersNext]_membersVars
  PROVE  MembersTypeOK'
  <1> USE DEF MembersInv
  <1>0. CASE UNCHANGED membersVars
    BY <1>0 DEF membersVars, MembersTypeOK, Standing, Live
  <1>a. /\ user \in [Accounts -> {"none", "live", "gone"}]
        /\ super \subseteq Accounts /\ ready \subseteq Accounts
        /\ \A a \in super : user[a] = "live"
        /\ role \in [Orgs -> [Accounts -> Roles]]
        /\ org \in [Orgs -> {"none", "live", "trash", "due", "gone"}]
        /\ req \in [Requests -> Request]
        /\ purge \in PurgeRun
        /\ joined \subseteq Accounts /\ bereft \subseteq Orgs
        /\ MembersAre
    BY DEF MembersTypeOK, MembersAre, PurgeRun, Live
  <1>b. /\ \A o \in Orgs : org[o] \in {"live", "trash", "due"} <=> Standing(o)
        /\ \A r \in Roles : r \in {"none", "member", "admin"}
        /\ "admin" \in Roles /\ "none" \in Roles
    BY DEF Standing, Roles
  \* What the parts come to, once each is known.
  <1>c. ASSUME /\ user' \in [Accounts -> {"none", "live", "gone"}]
               /\ super' \subseteq Accounts /\ ready' \subseteq Accounts
               /\ \A a \in super' : user'[a] = "live"
               /\ role' \in [Orgs -> [Accounts -> Roles]]
               /\ org' \in [Orgs -> {"none", "live", "trash", "due", "gone"}]
               /\ req' \in [Requests -> Request]
               /\ purge' \in PurgeRun
               /\ joined' \subseteq Accounts /\ bereft' \subseteq Orgs
               /\ MembersAre'
        PROVE  MembersTypeOK'
    BY <1>c DEF MembersTypeOK, MembersAre, PurgeRun, Live
  <1>1. ASSUME NEW a \in Accounts, NEW o \in Orgs \cup {Nobody}, SetUp(a, o)
        PROVE  MembersTypeOK'
    <2>1. /\ user' \in [Accounts -> {"none", "live", "gone"}]
          /\ user'[a] = "live" /\ \A b \in Accounts : user[b] = "none"
          /\ super' = {a} /\ ready' = {a}
          /\ UNCHANGED <<req, purge, joined, bereft>>
      BY <1>1, <1>a DEF SetUp, raceVars
    <2>2. \A x \in Orgs, b \in Accounts : role[x][b] = "none"
      BY <1>a, <2>1 DEF MembersAre
    <2>3. CASE o = Nobody
      BY <1>1, <1>a, <1>c, <2>1, <2>2, <2>3 DEF SetUp, MembersAre
    <2>4. CASE o # Nobody
      <3>1. o \in Orgs /\ org' = [org EXCEPT ![o] = "live"] /\ role' = [role EXCEPT ![o][a] = "admin"]
        BY <1>1, <2>4 DEF SetUp
      <3>2. /\ org' \in [Orgs -> {"none", "live", "trash", "due", "gone"}] /\ org'[o] = "live"
            /\ \A x \in Orgs \ {o} : org'[x] = org[x]
        BY <1>a, <3>1
      <3>3. role' \in [Orgs -> [Accounts -> Roles]] /\ MembersAre'
        BY <1>a, <1>b, <2>1, <2>2, <3>1, <3>2, RowsKept DEF MembersAre, Standing
      <3> QED
        BY <1>a, <1>c, <2>1, <3>2, <3>3
    <2> QED
      BY <2>3, <2>4
  <1>2. ASSUME NEW a \in Accounts, NEW o \in Orgs, CreateTenant(o, a)
        PROVE  MembersTypeOK'
    <2>1. /\ org' = [org EXCEPT ![o] = "live"] /\ role' = [role EXCEPT ![o][a] = "admin"]
          /\ user' = [user EXCEPT ![a] = "live"] /\ UNCHANGED <<super, ready, req, purge, bereft>>
          /\ joined' \subseteq joined \cup {a}
      BY <1>2 DEF CreateTenant, Joins
    <2>2. /\ org' \in [Orgs -> {"none", "live", "trash", "due", "gone"}] /\ org'[o] = "live"
          /\ \A x \in Orgs \ {o} : org'[x] = org[x]
          /\ user' \in [Accounts -> {"none", "live", "gone"}] /\ user'[a] = "live"
          /\ \A b \in Accounts \ {a} : user'[b] = user[b]
      BY <1>a, <2>1
    <2>3. role' \in [Orgs -> [Accounts -> Roles]] /\ MembersAre'
      BY <1>a, <1>b, <2>1, <2>2, RowsKept DEF MembersAre, Standing
    <2>4. \A b \in super' : user'[b] = "live"
      BY <1>a, <2>1, <2>2
    <2> QED
      BY <1>a, <1>c, <2>1, <2>2, <2>3, <2>4
  <1>3. ASSUME NEW a \in Accounts, NEW o \in Orgs, NEW r \in Roles, AddMember(o, a, r)
        PROVE  MembersTypeOK'
    <2>1. /\ Standing(o) /\ role' = [role EXCEPT ![o][a] = r]
          /\ user' = [user EXCEPT ![a] = "live"]
          /\ UNCHANGED <<super, ready, org, req, purge, bereft>>
          /\ joined' \subseteq joined \cup {a}
      BY <1>3 DEF AddMember, Joins
    <2>2. /\ user' \in [Accounts -> {"none", "live", "gone"}] /\ user'[a] = "live"
          /\ \A b \in Accounts \ {a} : user'[b] = user[b]
      BY <1>a, <2>1
    <2>3. role' \in [Orgs -> [Accounts -> Roles]] /\ MembersAre'
      BY <1>a, <2>1, <2>2, RowsKept DEF MembersAre, Standing
    <2>4. \A b \in super' : user'[b] = "live"
      BY <1>a, <2>1, <2>2
    <2> QED
      BY <1>a, <1>c, <2>1, <2>2, <2>3, <2>4
  <1>4. ASSUME NEW a \in Accounts, Redeem(a) \/ Promote(a)
        PROVE  MembersTypeOK'
    <2>1. /\ UNCHANGED <<user, role, org, req, purge, joined, bereft>>
          /\ a \in Live /\ super' \subseteq super \cup {a} /\ ready' \subseteq ready \cup {a}
      BY <1>4 DEF Redeem, Promote, raceVars
    <2> QED
      BY <1>a, <1>c, <2>1 DEF Live, MembersAre, Standing
  <1>5. ASSUME NEW p \in Requests, NEW o \in Orgs, NEW a \in Accounts, NEW r \in Roles,
               BeginWrite(p, o, a, r)
        PROVE  MembersTypeOK'
    <2> DEFINE l == r = "none" /\ Homeless(a, {o})
               d == [kind |-> "write", pc |-> "begun", user |-> a, org |-> o,
                     was |-> role[o][a], role |-> r, last |-> l, stale |-> FALSE]
    <2>1. l \in BOOLEAN /\ role[o][a] \in Roles
      BY <1>a
    <2>2. d \in Request
      <3> HIDE DEF l
      <3> QED
        BY <2>1 DEF Request
    <2> HIDE DEF d
    <2>3. /\ req' = [req EXCEPT ![p] = d]
          /\ UNCHANGED <<user, super, ready, role, org, purge, joined, bereft>>
      BY <1>5 DEF BeginWrite, raceVars, d
    <2> QED
      BY <1>a, <1>c, <2>2, <2>3 DEF MembersAre, Standing
  <1>6. ASSUME NEW p \in Requests, CommitWrite(p)
        PROVE  MembersTypeOK'
    <2> DEFINE a == req[p].user
               o == req[p].org
    <2>1. /\ a \in Accounts /\ o \in Orgs /\ req[p].role \in Roles /\ req[p].was # "none"
          /\ req[p].last = TRUE => req[p].role = "none"
          /\ req[p].last \in BOOLEAN
          /\ UNCHANGED <<super, ready, org, purge, joined, bereft>>
      BY <1>6, <1>a, RequestParts DEF CommitWrite, WritesKnow, raceVars
    <2>2. CASE SnapshotStands(p)
      <3>1. /\ role' = [role EXCEPT ![o][a] = req[p].role]
            /\ Delete({b \in {a} : req[p].last})
            /\ req' = [q \in Requests |-> IF q = p \/ Conflict(p, q) THEN Idle ELSE req[q]]
        BY <1>6, <2>2 DEF CommitWrite
      <3>2. /\ role[o][a] = req[p].was
            /\ req[p].last = TRUE => Homeless(a, {o})
        BY <2>1, <2>2 DEF SnapshotStands
      <3>3. user[a] = "live" /\ Standing(o)
        BY <1>a, <2>1, <3>2 DEF MembersAre
      <3>4. /\ user' \in [Accounts -> {"none", "live", "gone"}]
            /\ \A b \in Accounts : user'[b] = user[b] \/ (b = a /\ req[p].last = TRUE)
        BY <2>1, <3>1, Deleted
      <3>5. req' \in [Requests -> Request]
        BY <1>a, <3>1, RequestParts
      <3>6. /\ role' \in [Orgs -> [Accounts -> Roles]]
            /\ role'[o][a] = req[p].role
            /\ \A x \in Orgs, b \in Accounts : x # o \/ b # a => role'[x][b] = role[x][b]
        <4> DEFINE r == req[p].role
        <4>1. a \in Accounts /\ o \in Orgs /\ r \in Roles /\ role' = [role EXCEPT ![o][a] = r]
          BY <2>1, <3>1
        <4> HIDE DEF a, o, r
        <4>2. /\ role' \in [Orgs -> [Accounts -> Roles]]
              /\ role'[o][a] = r
              /\ \A x \in Orgs, b \in Accounts : x # o \/ b # a => role'[x][b] = role[x][b]
          BY <4>1, RowsKept
        <4> QED
          BY <4>2 DEF r
      <3>7. MembersAre'
        <4> SUFFICES ASSUME NEW x \in Orgs, NEW b \in Accounts, role'[x][b] # "none"
                     PROVE  user'[b] = "live" /\ Standing(x)'
          BY DEF MembersAre
        <4>1. CASE b = a /\ req[p].last = TRUE
          <5>1. Homes(a) \subseteq {o}
            BY <3>2, <4>1 DEF Homeless
          <5> QED
            BY <2>1, <3>6, <4>1, <5>1 DEF Homes
        <4>2. CASE ~(b = a /\ req[p].last = TRUE)
          <5>1. user'[b] = user[b] /\ org' = org
            BY <2>1, <3>4, <4>2
          <5>2. CASE x = o /\ b = a
            BY <3>3, <5>1, <5>2 DEF Standing
          <5>3. CASE ~(x = o /\ b = a)
            BY <1>a, <3>6, <5>1, <5>3 DEF MembersAre, Standing
          <5> QED
            BY <5>2, <5>3
        <4> QED
          BY <4>1, <4>2
      <3>8. \A b \in super' : user'[b] = "live"
        BY <1>a, <2>1, <3>2, <3>4 DEF Homeless
      <3> QED
        BY <1>a, <1>c, <2>1, <3>4, <3>5, <3>6, <3>7, <3>8
    <2>3. CASE ~SnapshotStands(p)
      <3>1. Ends(p) /\ UNCHANGED <<role, user>>
        BY <1>6, <2>3 DEF CommitWrite
      <3> QED
        BY <1>a, <1>c, <2>1, <3>1, RequestEnds DEF MembersAre, Standing
    <2> QED
      BY <2>2, <2>3
  <1>7. ASSUME NEW p \in Requests, NEW a \in Accounts, BeginDemote(p, a)
        PROVE  MembersTypeOK'
    BY <1>7, <1>a, <1>c, RequestParts DEF BeginDemote, MembersAre, Standing, raceVars
  <1>8. ASSUME NEW p \in Requests, NEW a \in Accounts, BeginInvite(p, a)
        PROVE  MembersTypeOK'
    <2>1. /\ user' = [user EXCEPT ![a] = "live"] /\ super' = super \cup {a}
          /\ req' = [req EXCEPT ![p] = Acts("invite", "mailing", a)]
          /\ UNCHANGED <<ready, role, org, purge, joined, bereft>>
      BY <1>8 DEF BeginInvite, raceVars
    <2>2. req' \in [Requests -> Request]
      BY <1>a, <2>1, RequestParts
    <2> QED
      BY <1>a, <1>c, <2>1, <2>2 DEF MembersAre, Standing
  <1>9. ASSUME NEW p \in Requests,
               CountOthers(p) \/ Demote(p) \/ MailDelivered(p) \/ MailFails(p)
        PROVE  MembersTypeOK'
    <2>1. /\ UNCHANGED <<user, ready, role, org, purge, joined, bereft>> /\ super' \subseteq super
          /\ Ends(p) \/ Moves(p, "counted") \/ Moves(p, "withdrawing")
      BY <1>9 DEF CountOthers, Demote, MailDelivered, MailFails, raceVars
    <2>2. req' \in [Requests -> Request]
      BY <2>1, RequestEnds, RequestMoves
    <2> QED
      BY <1>a, <1>c, <2>1, <2>2 DEF MembersAre, Standing
  \* Accounts go with their memberships.
  <1>10. ASSUME NEW A, Cascade(A), UNCHANGED <<ready, org>>, joined' \subseteq joined,
                super' \subseteq super \ A,
                req' \in [Requests -> Request], purge' \in PurgeRun
         PROVE  MembersTypeOK'
    <2>1. MembersAre' /\ \A b \in super' : user'[b] = "live"
      BY <1>10, <1>a, Cascaded DEF MembersAre, Standing
    <2> QED
      BY <1>10, <1>a, <1>c, <2>1, Cascaded
  <1>11. ASSUME NEW p \in Requests, Withdraw(p)
         PROVE  MembersTypeOK'
    <2> DEFINE A == {req[p].user} \cap (super \ ready)
    <2>1. /\ Cascade(A) /\ super' = super \ A /\ UNCHANGED <<ready, org, purge>>
          /\ req' = [q \in Requests |-> IF q = p THEN Idle ELSE Outdated(q)]
          /\ joined' \subseteq joined
      BY <1>11 DEF Withdraw, Settles
    <2> HIDE DEF A
    <2> QED
      BY <1>10, <1>a, <2>1, RequestsOutdated
  <1>12. ASSUME DeleteFound
         PROVE  MembersTypeOK'
    <2> DEFINE A == purge.found \cap (Live \ super)
    <2>1. /\ Cascade(A) /\ super' = super \ A /\ UNCHANGED <<ready, org, req>>
          /\ purge' = Judging(purge.left, {}) /\ joined' \subseteq joined
      BY <1>12 DEF DeleteFound, Settles
    <2>2. purge' \in PurgeRun
      BY <2>1, PurgeParts
    <2> HIDE DEF A
    <2> QED
      BY <1>10, <1>a, <2>1, <2>2
  <1>13. ASSUME Crash
         PROVE  MembersTypeOK'
    <2>1. /\ req' = [p \in Requests |-> Idle] /\ purge' = NoPurge /\ joined' = {}
          /\ UNCHANGED <<user, super, ready, role, org, bereft>>
      BY <1>13 DEF Crash
    <2> QED
      BY <1>a, <1>c, <2>1, RequestParts, PurgeParts DEF MembersAre, Standing
  <1>14. ASSUME NEW o \in Orgs, TrashOrg(o) \/ RestoreOrg(o) \/ FallsDue(o)
         PROVE  MembersTypeOK'
    <2>1. PICK from \in SUBSET {"live", "trash", "due"}, to \in {"live", "trash", "due"} :
            MoveOrg(o, from, to)
      <3>1. /\ {"live"} \in SUBSET {"live", "trash", "due"}
            /\ {"trash"} \in SUBSET {"live", "trash", "due"}
            /\ {"trash", "due"} \in SUBSET {"live", "trash", "due"}
        OBVIOUS
      <3> QED
        BY <1>14, <3>1 DEF TrashOrg, RestoreOrg, FallsDue
    <2>2. /\ org' = [org EXCEPT ![o] = to] /\ Standing(o)
          /\ UNCHANGED <<user, super, ready, role, req, purge, joined, bereft>>
      BY <2>1 DEF MoveOrg, Standing, raceVars
    <2>3. /\ org' \in [Orgs -> {"none", "live", "trash", "due", "gone"}]
          /\ \A x \in Orgs : Standing(x)' <=> Standing(x)
      BY <1>a, <2>2 DEF Standing
    <2> QED
      BY <1>a, <1>c, <2>2, <2>3 DEF MembersAre
  <1>15. ASSUME purge' \in PurgeRun,
                UNCHANGED <<user, super, ready, role, org, req, joined, bereft>>
         PROVE  MembersTypeOK'
    BY <1>15, <1>a, <1>c DEF MembersAre, Standing
  <1>16. ASSUME NEW o \in Orgs, ListMembers(o)
         PROVE  MembersTypeOK'
    <2>1. /\ purge' = [pc |-> "listed", org |-> o,
                       left |-> {a \in Accounts : role[o][a] # "none"}, found |-> {}]
          /\ UNCHANGED <<user, super, ready, role, org, req, joined, bereft>>
      BY <1>16 DEF ListMembers, raceVars
    <2> QED
      BY <1>15, <2>1 DEF PurgeRun
  <1>17. ASSUME PurgeOrg
         PROVE  MembersTypeOK'
    <2> DEFINE o == purge.org
    <2>1. UNCHANGED <<user, super, ready, req, joined, bereft>>
      BY <1>17 DEF PurgeOrg, raceVars
    <2>2. CASE org[o] = "due"
      <3>1. /\ org' = [org EXCEPT ![o] = "gone"]
            /\ role' = [role EXCEPT ![o] = [a \in Accounts |-> "none"]]
            /\ purge' = Judging(purge.left, {})
        BY <1>17, <2>2 DEF PurgeOrg
      <3>2. purge' \in PurgeRun
        BY <3>1, PurgeParts
      <3>3. /\ org' \in [Orgs -> {"none", "live", "trash", "due", "gone"}]
            /\ \A x \in Orgs \ {o} : org'[x] = org[x]
        BY <1>a, <3>1
      <3>4. /\ role' \in [Orgs -> [Accounts -> Roles]]
            /\ \A x \in Orgs, a \in Accounts : role'[x][a] = IF x = o THEN "none" ELSE role[x][a]
        BY <1>a, <1>b, <3>1
      <3>5. MembersAre'
        <4> HIDE DEF o
        <4> QED
          BY <1>a, <2>1, <3>3, <3>4 DEF MembersAre, Standing
      <3> QED
        BY <1>a, <1>c, <2>1, <3>2, <3>3, <3>4, <3>5
    <2>3. CASE org[o] # "due"
      BY <1>15, <1>17, <2>1, <2>3, PurgeParts DEF PurgeOrg
    <2> QED
      BY <2>2, <2>3
  <1>18. ASSUME (\E a \in Accounts : JudgeMember(a)) \/ Reconcile
         PROVE  MembersTypeOK'
    <2>1. PICK l \in SUBSET Accounts, f \in SUBSET Accounts : purge' = Judging(l, f)
      <3>1. CASE Reconcile
        BY <3>1 DEF Reconcile
      <3>2. CASE \E a \in Accounts : JudgeMember(a)
        BY <3>2, PurgeParts DEF JudgeMember
      <3> QED
        BY <1>18, <3>1, <3>2
    <2>2. UNCHANGED <<user, super, ready, role, org, req, joined, bereft>>
      BY <1>18 DEF JudgeMember, Reconcile, raceVars
    <2> QED
      BY <1>15, <2>1, <2>2, PurgeParts
  <1> QED
    BY <1>0, <1>1, <1>2, <1>3, <1>4, <1>5, <1>6, <1>7, <1>8, <1>9, <1>11, <1>12, <1>13,
       <1>14, <1>16, <1>17, <1>18
       DEF MembersNext, Memberships, Appointments, Retention

-----------------------------------------------------------------------------
(* Administrators *)

Writing(p) == req[p].kind = "write" /\ req[p].pc = "begun"

\* What a write knows of the rows.
Knows(p) ==
  /\ req[p].user \in Accounts /\ req[p].org \in Orgs
  /\ req[p].was # "none" /\ org[req[p].org] # "none" /\ user[req[p].user] # "none"
  /\ req[p].last = TRUE => req[p].role = "none"
  /\ req[p].was = "admin" /\ role[req[p].org][req[p].user] = "admin"
       => \/ req[p].org \in bereft
          \/ \E b \in Accounts \ {req[p].user} : role[req[p].org][b] = "admin"

LEMMA WritesKnowIs == WritesKnow <=> \A p \in Requests : Writing(p) => Knows(p)
  <1>1. ASSUME NEW p \in Requests, req[p].user \in Accounts,
               role[req[p].org][req[p].user] = "admin"
        PROVE  Admins(req[p].org) # {req[p].user}
                 <=> \E b \in Accounts \ {req[p].user} : role[req[p].org][b] = "admin"
    BY <1>1 DEF Admins
  <1> QED
    BY <1>1 DEF WritesKnow, Writing, Knows

LEMMA WritesKnowNext == WritesKnow' <=> (\A p \in Requests : Writing(p) => Knows(p))'
  BY WritesKnowIs, PTL

\* Nobody becomes administrator of an organisation that had none, and no
\* administrator stops being one.
AdminsGrow ==
  /\ bereft' = bereft
  /\ \A o \in Orgs, a \in Accounts :
       /\ role[o][a] = "admin" => role'[o][a] = "admin"
       /\ role'[o][a] = "admin" /\ role[o][a] # "admin" /\ org[o] # "none" => Standing(o)
  /\ \A o \in Orgs : Standing(o)' /\ ~Standing(o) => \E a \in Accounts : role'[o][a] = "admin"

RowsLast ==
  /\ \A o \in Orgs : org[o] # "none" => org'[o] # "none"
  /\ \A a \in Accounts : user[a] # "none" => user'[a] # "none"

LEMMA AdminsGrowStep ==
  ASSUME MembersInv, AdminsGrow, RowsLast,
         \A p \in Requests : Writing(p)' => req'[p] = req[p]
  PROVE  (WritesKnow /\ AdminRemains)'
  <1> USE DEF MembersInv
  <1>1. ASSUME NEW p \in Requests, Writing(p)'
        PROVE  Knows(p)'
    <2>1. req'[p] = req[p] /\ Writing(p)
      BY <1>1 DEF Writing
    <2>2. Knows(p)
      BY <2>1, WritesKnowIs
    <2> DEFINE a == req[p].user
               o == req[p].org
    <2>3. ASSUME req[p].was = "admin", role'[o][a] = "admin", o \notin bereft
          PROVE  \E b \in Accounts \ {a} : role'[o][b] = "admin"
      <3>1. CASE role[o][a] = "admin"
        BY <2>2, <2>3, <3>1 DEF Knows, AdminsGrow
      <3>2. CASE role[o][a] # "admin"
        <4>1. Standing(o)
          BY <2>2, <2>3, <3>2 DEF Knows, AdminsGrow
        <4>2. PICK b \in Accounts : role[o][b] = "admin"
          BY <2>2, <2>3, <4>1 DEF Knows, AdminRemains, Admins
        <4> QED
          BY <2>2, <3>2, <4>2 DEF Knows, AdminsGrow
      <3> QED
        BY <3>1, <3>2
    <2> QED
      BY <2>1, <2>2, <2>3 DEF Knows, RowsLast, AdminsGrow
  <1>2. ASSUME NEW o \in Orgs, Standing(o)'
        PROVE  Admins(o)' # {} \/ o \in bereft'
    BY <1>2 DEF AdminRemains, AdminsGrow, Admins
  <1>3. WritesKnow'
    BY <1>1, WritesKnowNext
  <1> QED
    BY <1>2, <1>3 DEF AdminRemains

\* The memberships stay as they are.
LEMMA RowsRestStep ==
  ASSUME MembersInv, role' = role, bereft' = bereft, \A o \in Orgs : Standing(o)' => Standing(o), RowsLast,
         \A p \in Requests : Writing(p)' => req'[p] = req[p]
  PROVE  (WritesKnow /\ AdminRemains)'
  BY AdminsGrowStep DEF AdminsGrow

\* Whoever loses an administrator to a deletion is bereft.
LEMMA CascadeStep ==
  ASSUME MembersInv, NEW A, Cascade(A), org' = org,
         \A p \in Requests : Writing(p)' => req'[p] = req[p]
  PROVE  (WritesKnow /\ AdminRemains)'
  <1> USE DEF MembersInv
  <1>1. /\ \A o \in Orgs, a \in Accounts :
             /\ role[o][a] = "admin" /\ o \notin bereft' => role'[o][a] = "admin"
             /\ role'[o][a] = "admin" => role[o][a] = "admin"
        /\ bereft \subseteq bereft'
        /\ \A a \in Accounts : user[a] # "none" => user'[a] # "none"
    BY Cascaded
  <1>2. ASSUME NEW p \in Requests, Writing(p)'
        PROVE  Knows(p)'
    <2>1. req'[p] = req[p] /\ Writing(p)
      BY <1>2 DEF Writing
    <2>2. Knows(p)
      BY <2>1, WritesKnowIs
    <2> QED
      BY <1>1, <2>1, <2>2 DEF Knows
  <1>3. AdminRemains'
    BY <1>1 DEF AdminRemains, Admins, Standing
  <1> QED
    BY <1>2, <1>3, WritesKnowNext

LEMMA AdminsStep ==
  ASSUME MembersInv, MembersTypeOK', [MembersNext]_membersVars
  PROVE  (WritesKnow /\ AdminRemains)'
  <1> USE DEF MembersInv
  <1>a. /\ user \in [Accounts -> {"none", "live", "gone"}]
        /\ role \in [Orgs -> [Accounts -> Roles]]
        /\ org \in [Orgs -> {"none", "live", "trash", "due", "gone"}]
        /\ req \in [Requests -> Request]
        /\ \A o \in Orgs, a \in Accounts : role[o][a] # "none" => user[a] = "live" /\ Standing(o)
    BY DEF MembersTypeOK
  <1>b. Idle.pc # "begun" /\ Idle.pc # "counted"
    BY RequestParts
  <1>0. CASE UNCHANGED membersVars
    BY <1>0, RowsRestStep DEF membersVars, raceVars, Standing, RowsLast
  <1>1. ASSUME NEW a \in Accounts, NEW o \in Orgs \cup {Nobody}, SetUp(a, o)
        PROVE  (WritesKnow /\ AdminRemains)'
    <2>1. /\ \A b \in Accounts : user[b] = "none"
          /\ req' = req /\ bereft' = bereft
      BY <1>1 DEF SetUp, raceVars
    <2>2. \A p \in Requests : ~Writing(p)
      BY <2>1 DEF WritesKnow, Writing
    <2>3. WritesKnow'
      BY <2>1, <2>2 DEF WritesKnow, Writing
    <2>4. AdminRemains'
      <3>1. CASE o = Nobody
        BY <1>1, <2>1, <3>1 DEF SetUp, AdminRemains, Standing, Admins
      <3>2. CASE o # Nobody
        <4>1. /\ o \in Orgs /\ org' = [org EXCEPT ![o] = "live"]
              /\ role' = [role EXCEPT ![o][a] = "admin"] /\ "admin" \in Roles
          BY <1>1, <3>2 DEF SetUp, Roles
        <4>2. /\ role'[o][a] = "admin"
              /\ \A x \in Orgs, b \in Accounts : x # o => role'[x][b] = role[x][b]
          BY <4>1, RowsKept
        <4>3. \A x \in Orgs \ {o} : org'[x] = org[x]
          BY <1>a, <4>1
        <4> QED
          BY <2>1, <4>2, <4>3 DEF AdminRemains, Standing, Admins
      <3> QED
        BY <3>1, <3>2
    <2> QED
      BY <2>3, <2>4
  <1>2. ASSUME NEW a \in Accounts, NEW o \in Orgs, CreateTenant(o, a)
        PROVE  (WritesKnow /\ AdminRemains)'
    <2>1. /\ org[o] = "none" /\ org' = [org EXCEPT ![o] = "live"]
          /\ role' = [role EXCEPT ![o][a] = "admin"] /\ "admin" \in Roles
          /\ user' = [user EXCEPT ![a] = "live"] /\ req' = req /\ bereft' = bereft
      BY <1>2 DEF CreateTenant, Roles
    <2>2. /\ role'[o][a] = "admin"
          /\ \A x \in Orgs, b \in Accounts : x # o \/ b # a => role'[x][b] = role[x][b]
      BY <1>a, <2>1
    <2>3. /\ org'[o] = "live" /\ \A x \in Orgs \ {o} : org'[x] = org[x]
          /\ user'[a] = "live" /\ \A b \in Accounts \ {a} : user'[b] = user[b]
      BY <1>a, <2>1
    <2>4. AdminsGrow /\ RowsLast
      BY <1>a, <2>1, <2>2, <2>3 DEF AdminsGrow, RowsLast, Standing
    <2> QED
      BY <2>1, <2>4, AdminsGrowStep
  <1>3. ASSUME NEW a \in Accounts, NEW o \in Orgs, NEW r \in Roles, AddMember(o, a, r)
        PROVE  (WritesKnow /\ AdminRemains)'
    <2>1. /\ Standing(o) /\ role' = [role EXCEPT ![o][a] = r] /\ org' = org
          /\ role[o][a] = "none" /\ user' = [user EXCEPT ![a] = "live"]
          /\ req' = req /\ bereft' = bereft
      BY <1>3 DEF AddMember
    <2>2. \A x \in Orgs, b \in Accounts : x # o \/ b # a => role'[x][b] = role[x][b]
      BY <2>1, RowsKept
    <2>3. user'[a] = "live" /\ \A b \in Accounts \ {a} : user'[b] = user[b]
      BY <1>a, <2>1
    <2>4. AdminsGrow /\ RowsLast
      BY <1>a, <2>1, <2>2, <2>3 DEF AdminsGrow, RowsLast, Standing
    <2> QED
      BY <2>1, <2>4, AdminsGrowStep
  <1>4. ASSUME NEW a \in Accounts, Redeem(a) \/ Promote(a)
        PROVE  (WritesKnow /\ AdminRemains)'
    BY <1>4, RowsRestStep DEF Redeem, Promote, raceVars, Standing, RowsLast
  <1>5. ASSUME NEW p \in Requests, NEW o \in Orgs, NEW a \in Accounts, NEW r \in Roles,
               BeginWrite(p, o, a, r)
        PROVE  (WritesKnow /\ AdminRemains)'
    <2> DEFINE l == r = "none" /\ Homeless(a, {o})
               d == [kind |-> "write", pc |-> "begun", user |-> a, org |-> o,
                     was |-> role[o][a], role |-> r, last |-> l, stale |-> FALSE]
    <2>1. /\ d.user = a /\ d.org = o /\ d.was = role[o][a] /\ d.role = r
          /\ d.last = TRUE => r = "none"
      OBVIOUS
    <2> HIDE DEF d
    <2>2. /\ req' = [req EXCEPT ![p] = d] /\ UNCHANGED <<user, role, org, bereft>>
          /\ role[o][a] # "none" /\ org[o] = "live" /\ SparesLastAdmin(o, a)
      BY <1>5 DEF BeginWrite, raceVars, d
    <2>3. req'[p] = d /\ \A q \in Requests \ {p} : req'[q] = req[q]
      BY <1>a, <2>2
    <2>4. WritesKnow'
      <3> SUFFICES ASSUME NEW q \in Requests, Writing(q)'
                   PROVE  Knows(q)'
        BY WritesKnowNext
      <3>1. CASE q = p
        <4>1. user[a] = "live"
          BY <1>a, <2>2
        <4>2. role[o][a] = "admin" => \E b \in Accounts \ {a} : role[o][b] = "admin"
          BY <2>2 DEF SparesLastAdmin, Admins
        <4> QED
          BY <2>1, <2>2, <2>3, <3>1, <4>1, <4>2 DEF Knows
      <3>2. CASE q # p
        <4>1. req'[q] = req[q] /\ Writing(q)
          BY <2>3, <3>2 DEF Writing
        <4>2. Knows(q)
          BY <4>1, WritesKnowIs
        <4> QED
          BY <2>2, <4>1, <4>2 DEF Knows
      <3> QED
        BY <3>1, <3>2
    <2>5. AdminRemains'
      BY <2>2 DEF AdminRemains, Standing, Admins
    <2> QED
      BY <2>4, <2>5
  <1>6. ASSUME NEW p \in Requests, CommitWrite(p)
        PROVE  (WritesKnow /\ AdminRemains)'
    <2> DEFINE a == req[p].user
               o == req[p].org
               r == req[p].role
    <2>1. /\ Writing(p) /\ a \in Accounts /\ o \in Orgs /\ r \in Roles /\ req[p].was # "none"
          /\ bereft' = bereft
      BY <1>6, <1>a, RequestParts DEF CommitWrite, WritesKnow, Writing, raceVars
    <2>2. CASE SnapshotStands(p)
      <3>1. /\ role' = [role EXCEPT ![o][a] = r]
            /\ Delete({b \in {a} : req[p].last})
            /\ \A q \in Requests : req'[q] = IF q = p \/ Conflict(p, q) THEN Idle ELSE req[q]
            /\ org' = org
        BY <1>6, <2>2 DEF CommitWrite
      <3>2. role[o][a] = req[p].was
        BY <2>2 DEF SnapshotStands
      <3>3. RowsLast
        BY <3>1, Deleted DEF RowsLast
      <3>4. \A q \in Requests : Writing(q)' => req'[q] = req[q] /\ ~Conflict(p, q)
        BY <1>b, <3>1 DEF Writing
      <3>5. \A x \in Orgs, b \in Accounts : x # o \/ b # a => role'[x][b] = role[x][b]
        <4>1. a \in Accounts /\ o \in Orgs /\ r \in Roles /\ role' = [role EXCEPT ![o][a] = r]
          BY <2>1, <3>1
        <4> HIDE DEF a, o, r
        <4> QED
          BY <4>1, RowsKept
      <3>6. CASE req[p].was # "admin"
        <4>1. Standing(o)
          BY <1>a, <2>1, <3>2
        <4>2. AdminsGrow
          BY <2>1, <3>1, <3>2, <3>5, <3>6, <4>1 DEF AdminsGrow, Standing
        <4> QED
          BY <3>3, <3>4, <4>2, AdminsGrowStep
      <3>7. CASE req[p].was = "admin"
        <4>1. o \in bereft \/ \E b \in Accounts \ {a} : role[o][b] = "admin"
          BY <2>1, <3>2, <3>7, WritesKnowIs DEF Knows
        <4>2. AdminRemains'
          <5> SUFFICES ASSUME NEW x \in Orgs, Standing(x)', x \notin bereft
                       PROVE  \E c \in Accounts : role'[x][c] = "admin"
            BY <2>1 DEF AdminRemains, Admins
          <5>1. CASE x = o
            BY <3>5, <4>1, <5>1
          <5>2. CASE x # o
            <6>1. PICK c \in Accounts : role[x][c] = "admin"
              BY <3>1 DEF AdminRemains, Standing, Admins
            <6> QED
              BY <3>5, <5>2, <6>1
          <5> QED
            BY <5>1, <5>2
        <4>3. ASSUME NEW q \in Requests, Writing(q)'
              PROVE  Knows(q)'
          <5>1. req'[q] = req[q] /\ Writing(q) /\ ~Conflict(p, q)
            BY <3>4, <4>3 DEF Writing
          <5>2. Knows(q)
            BY <5>1, WritesKnowIs
          <5>3. ~(req[q].org = o /\ req[q].was = "admin")
            BY <3>7, <5>1 DEF Conflict, Writing
          <5>4. CASE req[q].was # "admin"
            BY <2>1, <3>3, <5>1, <5>2, <5>4 DEF Knows, RowsLast
          <5>5. CASE req[q].org # o
            <6>1. \A b2 \in Accounts : role'[req[q].org][b2] = role[req[q].org][b2]
              BY <3>5, <5>2, <5>5 DEF Knows
            <6> QED
              BY <2>1, <3>3, <5>1, <5>2, <6>1 DEF Knows, RowsLast
          <5> QED
            BY <5>3, <5>4, <5>5
        <4>4. WritesKnow'
          BY <4>3, WritesKnowNext
        <4> QED
          BY <4>2, <4>4
      <3> QED
        BY <3>6, <3>7
    <2>3. CASE ~SnapshotStands(p)
      <3>1. Ends(p) /\ UNCHANGED <<role, user, org>>
        BY <1>6, <2>3 DEF CommitWrite
      <3> QED
        BY <1>b, <2>1, <3>1, RequestEnds, RowsRestStep DEF Writing, Standing, RowsLast
    <2> QED
      BY <2>2, <2>3
  <1>7. ASSUME NEW p \in Requests, NEW a \in Accounts, BeginDemote(p, a)
        PROVE  (WritesKnow /\ AdminRemains)'
    <2>1. /\ req' = [req EXCEPT ![p] = Acts("demote", "begun", a)]
          /\ UNCHANGED <<user, role, org, bereft>>
      BY <1>7 DEF BeginDemote, raceVars
    <2>2. \A q \in Requests : Writing(q)' => req'[q] = req[q]
      BY <1>a, <2>1, RequestParts DEF Writing
    <2> QED
      BY <2>1, <2>2, RowsRestStep DEF Standing, RowsLast
  <1>8. ASSUME NEW p \in Requests, NEW a \in Accounts, BeginInvite(p, a)
        PROVE  (WritesKnow /\ AdminRemains)'
    <2>1. /\ req' = [req EXCEPT ![p] = Acts("invite", "mailing", a)]
          /\ user' = [user EXCEPT ![a] = "live"] /\ UNCHANGED <<role, org, bereft>>
      BY <1>8 DEF BeginInvite, raceVars
    <2>2. \A q \in Requests : Writing(q)' => req'[q] = req[q]
      BY <1>a, <2>1, RequestParts DEF Writing
    <2>3. RowsLast
      BY <1>a, <2>1 DEF RowsLast
    <2> QED
      BY <2>1, <2>2, <2>3, RowsRestStep DEF Standing
  <1>9. ASSUME NEW p \in Requests,
               CountOthers(p) \/ Demote(p) \/ MailDelivered(p) \/ MailFails(p)
        PROVE  (WritesKnow /\ AdminRemains)'
    <2>1. /\ UNCHANGED <<user, role, org, bereft>>
          /\ Ends(p) \/ Moves(p, "counted") \/ Moves(p, "withdrawing")
      BY <1>9 DEF CountOthers, Demote, MailDelivered, MailFails, raceVars
    <2>2. \A q \in Requests : Writing(q)' => req'[q] = req[q]
      BY <1>b, <2>1, RequestEnds, RequestMoves DEF Writing
    <2> QED
      BY <2>1, <2>2, RowsRestStep DEF Standing, RowsLast
  <1>10. ASSUME NEW p \in Requests, Withdraw(p)
         PROVE  (WritesKnow /\ AdminRemains)'
    <2> DEFINE A == {req[p].user} \cap (super \ ready)
    <2>1. /\ Cascade(A) /\ org' = org
          /\ req' = [q \in Requests |-> IF q = p THEN Idle ELSE Outdated(q)]
      BY <1>10 DEF Withdraw
    <2>2. \A q \in Requests : Writing(q)' => req'[q] = req[q]
      BY <1>b, <2>1, RequestsOutdated DEF Writing
    <2> HIDE DEF A
    <2> QED
      BY <2>1, <2>2, CascadeStep
  <1>11. ASSUME Crash
         PROVE  (WritesKnow /\ AdminRemains)'
    BY <1>11, <1>b, RowsRestStep DEF Crash, Writing, Standing, RowsLast
  <1>12. ASSUME NEW o \in Orgs, TrashOrg(o) \/ RestoreOrg(o) \/ FallsDue(o)
         PROVE  (WritesKnow /\ AdminRemains)'
    <2>1. PICK from \in SUBSET {"live", "trash", "due"}, to \in {"live", "trash", "due"} :
            MoveOrg(o, from, to)
      <3>1. /\ {"live"} \in SUBSET {"live", "trash", "due"}
            /\ {"trash"} \in SUBSET {"live", "trash", "due"}
            /\ {"trash", "due"} \in SUBSET {"live", "trash", "due"}
        OBVIOUS
      <3> QED
        BY <1>12, <3>1 DEF TrashOrg, RestoreOrg, FallsDue
    <2>2. /\ org' = [org EXCEPT ![o] = to] /\ Standing(o)
          /\ UNCHANGED <<user, role, req, bereft>>
      BY <2>1 DEF MoveOrg, raceVars, Standing
    <2>3. RowsLast /\ \A x \in Orgs : Standing(x)' => Standing(x)
      BY <1>a, <2>2 DEF Standing, RowsLast
    <2> QED
      BY <2>2, <2>3, RowsRestStep
  <1>13. ASSUME \/ \E o \in Orgs : ListMembers(o)
                \/ \E a \in Accounts : JudgeMember(a)
                \/ Reconcile
         PROVE  (WritesKnow /\ AdminRemains)'
    <2>1. UNCHANGED <<user, role, org, req, bereft>>
      BY <1>13 DEF ListMembers, JudgeMember, Reconcile, raceVars
    <2> QED
      BY <2>1, RowsRestStep DEF Standing, RowsLast
  <1>14. ASSUME PurgeOrg
         PROVE  (WritesKnow /\ AdminRemains)'
    <2> DEFINE o == purge.org
    <2>1. CASE org[o] = "due"
      <3>1. /\ org' = [org EXCEPT ![o] = "gone"]
            /\ role' = [role EXCEPT ![o] = [a \in Accounts |-> "none"]]
            /\ UNCHANGED <<user, req, bereft>>
        BY <1>14, <2>1 DEF PurgeOrg, raceVars
      <3>2. \A x \in Orgs : org'[x] = IF x = o THEN "gone" ELSE org[x]
        BY <1>a, <3>1
      <3>3. \A x \in Orgs, a \in Accounts : role'[x][a] = IF x = o THEN "none" ELSE role[x][a]
        BY <1>a, <3>1
      <3> HIDE DEF o
      <3>4. WritesKnow'
        BY <3>1, <3>2, <3>3 DEF WritesKnow, Admins
      <3>5. AdminRemains'
        BY <3>1, <3>2, <3>3 DEF AdminRemains, Standing, Admins
      <3> QED
        BY <3>4, <3>5
    <2>2. CASE org[o] # "due"
      BY <1>14, <2>2, RowsRestStep DEF PurgeOrg, raceVars, Standing, RowsLast
    <2> QED
      BY <2>1, <2>2
  <1>15. ASSUME DeleteFound
         PROVE  (WritesKnow /\ AdminRemains)'
    <2> DEFINE A == purge.found \cap (Live \ super)
    <2>1. Cascade(A) /\ UNCHANGED <<org, req>>
      BY <1>15 DEF DeleteFound
    <2> HIDE DEF A
    <2> QED
      BY <2>1, CascadeStep
  <1> QED
    BY <1>0, <1>1, <1>2, <1>3, <1>4, <1>5, <1>6, <1>7, <1>8, <1>9, <1>10, <1>11, <1>12, <1>13,
       <1>14, <1>15
       DEF MembersNext, Memberships, Appointments, Retention

-----------------------------------------------------------------------------
(* Superadmins *)

Counted(p) == req[p].kind = "demote" /\ req[p].pc = "counted"

\* Nobody stops being a superadmin, and nobody new has counted.
LEMMA SuperadminsGrow ==
  ASSUME MembersInv, super \subseteq super', super = {} => super' = {},
         \A a \in Accounts : user[a] # "none" => user'[a] # "none",
         \A p \in Requests : Counted(p)' => req'[p] = req[p]
  PROVE  DemotesKnow'
  <1> USE DEF MembersInv
  <1>1. ASSUME NEW p \in Requests, Counted(p)'
        PROVE  /\ req'[p] = req[p] /\ Counted(p)
               /\ user'[req'[p].user] # "none" /\ req'[p].user \in Accounts
               /\ req'[p].stale = FALSE => super' # {req'[p].user}
    <2>1. req'[p] = req[p] /\ Counted(p)
      BY <1>1 DEF Counted
    <2>2. /\ user[req[p].user] # "none" /\ req[p].user \in Accounts
          /\ req[p].stale = FALSE => super # {req[p].user}
      BY <2>1 DEF DemotesKnow, Counted
    <2> QED
      BY <2>1, <2>2
  <1> QED
    BY <1>1 DEF DemotesKnow, Counted

LEMMA DemotesStep ==
  ASSUME MembersInv, [MembersNext]_membersVars
  PROVE  DemotesKnow'
  <1> USE DEF MembersInv
  <1>a. /\ user \in [Accounts -> {"none", "live", "gone"}]
        /\ req \in [Requests -> Request]
        /\ super \subseteq Accounts /\ \A a \in super : user[a] = "live"
    BY DEF MembersTypeOK, Live
  <1>b. Idle.pc # "counted"
    BY RequestParts
  <1>0. CASE UNCHANGED <<user, super, req>>
    BY <1>0, SuperadminsGrow DEF Counted
  <1>1. ASSUME NEW a \in Accounts, NEW o \in Orgs \cup {Nobody}, SetUp(a, o)
        PROVE  DemotesKnow'
    BY <1>1 DEF SetUp, DemotesKnow
  \* An account appears.
  <1>2. ASSUME NEW a \in Accounts, user' = [user EXCEPT ![a] = "live"], super' = super, req' = req
        PROVE  DemotesKnow'
    BY <1>a, <1>2, SuperadminsGrow DEF Counted
  <1>3. ASSUME NEW a \in Accounts, Promote(a)
        PROVE  DemotesKnow'
    BY <1>3, SuperadminsGrow DEF Promote, Counted
  <1>4. ASSUME NEW p \in Requests, NEW o \in Orgs, NEW a \in Accounts, NEW r \in Roles,
               BeginWrite(p, o, a, r)
        PROVE  DemotesKnow'
    <2> DEFINE d == [kind |-> "write", pc |-> "begun", user |-> a, org |-> o,
                     was |-> role[o][a], role |-> r, last |-> r = "none" /\ Homeless(a, {o}),
                     stale |-> FALSE]
    <2>1. d.pc = "begun"
      OBVIOUS
    <2> HIDE DEF d
    <2>2. req' = [req EXCEPT ![p] = d] /\ UNCHANGED <<user, super>>
      BY <1>4 DEF BeginWrite, d
    <2>3. \A q \in Requests : Counted(q)' => req'[q] = req[q]
      BY <1>a, <2>1, <2>2 DEF Counted
    <2> QED
      BY <2>2, <2>3, SuperadminsGrow
  <1>5. ASSUME NEW p \in Requests, CommitWrite(p)
        PROVE  DemotesKnow'
    <2>1. super' = super /\ (user' = user \/ Delete({b \in {req[p].user} : req[p].last}))
      BY <1>5 DEF CommitWrite
    <2>2. \A q \in Requests : Counted(q)' => req'[q] = req[q]
      <3>1. CASE SnapshotStands(p)
        <4>1. req' = [q \in Requests |-> IF q = p \/ Conflict(p, q) THEN Idle ELSE req[q]]
          BY <1>5, <3>1 DEF CommitWrite
        <4> QED
          BY <1>b, <4>1 DEF Counted
      <3>2. CASE ~SnapshotStands(p)
        BY <1>5, <1>b, <3>2, RequestEnds DEF CommitWrite, Counted
      <3> QED
        BY <3>1, <3>2
    <2>3. \A a \in Accounts : user[a] # "none" => user'[a] # "none"
      BY <2>1, Deleted
    <2> QED
      BY <2>1, <2>2, <2>3, SuperadminsGrow
  <1>6. ASSUME NEW p \in Requests, NEW a \in Accounts, BeginDemote(p, a)
        PROVE  DemotesKnow'
    <2>1. req' = [req EXCEPT ![p] = Acts("demote", "begun", a)] /\ UNCHANGED <<user, super>>
      BY <1>6 DEF BeginDemote
    <2>2. \A q \in Requests : Counted(q)' => req'[q] = req[q]
      BY <1>a, <2>1, RequestParts DEF Counted
    <2> QED
      BY <2>1, <2>2, SuperadminsGrow
  <1>7. ASSUME NEW p \in Requests, NEW a \in Accounts, BeginInvite(p, a)
        PROVE  DemotesKnow'
    <2>1. /\ req' = [req EXCEPT ![p] = Acts("invite", "mailing", a)] /\ super # {}
          /\ user' = [user EXCEPT ![a] = "live"] /\ super' = super \cup {a}
      BY <1>7 DEF BeginInvite
    <2>2. \A q \in Requests : Counted(q)' => req'[q] = req[q]
      BY <1>a, <2>1, RequestParts DEF Counted
    <2> QED
      BY <1>a, <2>1, <2>2, SuperadminsGrow
  <1>8. ASSUME NEW p \in Requests, CountOthers(p)
        PROVE  DemotesKnow'
    <2> DEFINE a == req[p].user
    <2>1. UNCHANGED <<user, super>> /\ LockIsFree(p) /\ req[p].kind = "demote"
      BY <1>8 DEF CountOthers
    <2>2. CASE a \in super /\ super # {a} /\ LivingHomes(a) # {}
      <3>1. Moves(p, "counted")
        BY <1>8, <2>2 DEF CountOthers
      <3>2. a \in Accounts /\ user[a] = "live" /\ super # {a}
        BY <1>a, <2>2
      <3>3. req'[p].user = a /\ \A q \in Requests \ {p} : ~Counted(q)'
        BY <2>1, <3>1, RequestMoves DEF LockIsFree, Counted
      <3> QED
        BY <2>1, <3>2, <3>3 DEF DemotesKnow, Counted
    <2>3. CASE ~(a \in super /\ super # {a} /\ LivingHomes(a) # {})
      <3>1. Ends(p)
        BY <1>8, <2>3 DEF CountOthers
      <3>2. \A q \in Requests : Counted(q)' => req'[q] = req[q]
        BY <1>b, <3>1, RequestEnds DEF Counted
      <3> QED
        BY <2>1, <3>2, SuperadminsGrow
    <2> QED
      BY <2>2, <2>3
  <1>9. ASSUME NEW p \in Requests, Demote(p)
        PROVE  DemotesKnow'
    <2>1. Counted(p) /\ Ends(p)
      BY <1>9 DEF Demote, Counted
    <2>2. \A q \in Requests : ~Counted(q)'
      BY <1>b, <2>1, RequestEnds DEF DemotesKnow, Counted
    <2> QED
      BY <2>2 DEF DemotesKnow, Counted
  <1>10. ASSUME NEW p \in Requests, MailDelivered(p) \/ MailFails(p)
         PROVE  DemotesKnow'
    <2>1. Ends(p) \/ Moves(p, "withdrawing")
      BY <1>10 DEF MailDelivered, MailFails
    <2>2. UNCHANGED <<user, super>>
      BY <1>10 DEF MailDelivered, MailFails
    <2>3. \A q \in Requests : Counted(q)' => req'[q] = req[q]
      BY <1>b, <2>1, RequestEnds, RequestMoves DEF Counted
    <2> QED
      BY <2>2, <2>3, SuperadminsGrow
  <1>11. ASSUME NEW p \in Requests, Withdraw(p)
         PROVE  DemotesKnow'
    <2> DEFINE A == {req[p].user} \cap (super \ ready)
    <2>1. Cascade(A) /\ req' = [q \in Requests |-> IF q = p THEN Idle ELSE Outdated(q)]
      BY <1>11 DEF Withdraw
    <2> HIDE DEF A
    <2>2. \A a \in Accounts : user[a] # "none" => user'[a] # "none"
      BY <2>1, Cascaded
    <2>3. \A q \in Requests :
            Counted(q)' => Counted(q) /\ req'[q].user = req[q].user /\ req'[q].stale = TRUE
      BY <1>b, <2>1, RequestsOutdated DEF Counted
    <2> QED
      BY <2>2, <2>3 DEF DemotesKnow, Counted
  <1>12. ASSUME DeleteFound
         PROVE  DemotesKnow'
    <2> DEFINE A == purge.found \cap (Live \ super)
    <2>1. Cascade(A) /\ UNCHANGED <<super, req>>
      BY <1>12 DEF DeleteFound
    <2> HIDE DEF A
    <2>2. \A a \in Accounts : user[a] # "none" => user'[a] # "none"
      BY <2>1, Cascaded
    <2> QED
      BY <2>1, <2>2, SuperadminsGrow DEF Counted
  <1>13. ASSUME Crash
         PROVE  DemotesKnow'
    BY <1>13, <1>b, SuperadminsGrow DEF Crash, Counted
  \* Neither an account, an appointment nor a request.
  <1>14. ASSUME \/ UNCHANGED membersVars
                \/ \E a \in Accounts : Redeem(a) \/ JudgeMember(a)
                \/ \E o \in Orgs : TrashOrg(o) \/ RestoreOrg(o) \/ FallsDue(o) \/ ListMembers(o)
                \/ PurgeOrg \/ Reconcile
         PROVE  DemotesKnow'
    BY <1>0, <1>14 DEF membersVars, Redeem, JudgeMember, TrashOrg, RestoreOrg, FallsDue, MoveOrg,
                       ListMembers, PurgeOrg, Reconcile
  <1>15. ASSUME NEW a \in Accounts, NEW o \in Orgs,
                CreateTenant(o, a) \/ \E r \in Roles : AddMember(o, a, r)
         PROVE  DemotesKnow'
    BY <1>2, <1>15 DEF CreateTenant, AddMember
  <1> QED
    BY <1>1, <1>3, <1>4, <1>5, <1>6, <1>7, <1>8, <1>9, <1>10, <1>11, <1>12, <1>13, <1>14, <1>15
       DEF MembersNext, Memberships, Appointments, Retention

-----------------------------------------------------------------------------
(* Accounts found without a membership *)

Withdrawing(p) == req[p].pc = "withdrawing"

\* Nobody new is found, and who joins is not one who was found.
LEMMA FoundStay ==
  ASSUME MembersInv, purge'.found \subseteq purge.found,
         \A p \in Requests : Withdrawing(p)' => req'[p] = req[p],
         \A a \in Accounts : user[a] # "none" => user'[a] # "none",
         \A o \in Orgs, a \in Accounts :
           Doomed(a) /\ role[o][a] = "none" => role'[o][a] = "none" \/ a \in joined',
         \A a \in Accounts : a \in joined /\ Doomed(a)' => a \in joined'
  PROVE  DoomedKnow'
  <1>1. ASSUME NEW a \in Accounts, Doomed(a)'
        PROVE  Doomed(a)
    <2>1. CASE a \in purge'.found
      BY <2>1 DEF Doomed
    <2>2. CASE \E p \in Requests : Withdrawing(p)' /\ req'[p].user = a
      BY <2>2 DEF Doomed, Withdrawing
    <2> QED
      BY <1>1, <2>1, <2>2 DEF Doomed, Withdrawing
  <1> QED
    BY <1>1 DEF DoomedKnow, MembersInv

LEMMA DoomedStep ==
  ASSUME MembersInv, [MembersNext]_membersVars
  PROVE  DoomedKnow'
  <1> USE DEF MembersInv
  <1>a. /\ user \in [Accounts -> {"none", "live", "gone"}]
        /\ role \in [Orgs -> [Accounts -> Roles]]
        /\ req \in [Requests -> Request]
        /\ \A a \in super : user[a] = "live"
    BY DEF MembersTypeOK, Live
  <1>b. Idle.pc # "withdrawing"
    BY RequestParts
  \* Nobody joins and nobody is found.
  <1>1. ASSUME UNCHANGED <<user, joined>>, purge'.found \subseteq purge.found,
               \A p \in Requests : Withdrawing(p)' => req'[p] = req[p],
               \A o \in Orgs, a \in Accounts : role[o][a] = "none" => role'[o][a] = "none"
        PROVE  DoomedKnow'
    BY <1>1, FoundStay
  <1>2. ASSUME NEW a \in Accounts, NEW o \in Orgs \cup {Nobody}, SetUp(a, o)
        PROVE  DoomedKnow'
    <2>1. /\ \A b \in Accounts : user[b] = "none"
          /\ UNCHANGED <<req, purge>>
      BY <1>2 DEF SetUp
    <2> QED
      BY <2>1 DEF DoomedKnow, Doomed
  \* An account joins an organisation, and is noted if it was found.
  <1>3. ASSUME NEW a \in Accounts, NEW o \in Orgs, NEW r \in Roles,
               user' = [user EXCEPT ![a] = "live"], role' = [role EXCEPT ![o][a] = r],
               Joins(a), UNCHANGED <<req, purge>>
        PROVE  DoomedKnow'
    <2>1. \A x \in Orgs, b \in Accounts : x # o \/ b # a => role'[x][b] = role[x][b]
      BY <1>3, RowsKept
    <2>2. joined \subseteq joined' /\ (Doomed(a) => a \in joined')
      BY <1>3 DEF Joins
    <2>3. \A b \in Accounts : user[b] # "none" => user'[b] # "none"
      BY <1>3, <1>a
    <2> QED
      BY <1>3, <2>1, <2>2, <2>3, FoundStay DEF Withdrawing
  <1>4. ASSUME NEW p \in Requests, NEW o \in Orgs, NEW a \in Accounts, NEW r \in Roles,
               BeginWrite(p, o, a, r)
        PROVE  DoomedKnow'
    <2> DEFINE d == [kind |-> "write", pc |-> "begun", user |-> a, org |-> o,
                     was |-> role[o][a], role |-> r, last |-> r = "none" /\ Homeless(a, {o}),
                     stale |-> FALSE]
    <2>1. d.pc = "begun"
      OBVIOUS
    <2> HIDE DEF d
    <2>2. req' = [req EXCEPT ![p] = d] /\ UNCHANGED <<user, role, purge, joined>>
      BY <1>4 DEF BeginWrite, raceVars, d
    <2>3. \A q \in Requests : Withdrawing(q)' => req'[q] = req[q]
      BY <1>a, <2>1, <2>2 DEF Withdrawing
    <2> QED
      BY <1>1, <2>2, <2>3
  <1>5. ASSUME NEW p \in Requests, CommitWrite(p)
        PROVE  DoomedKnow'
    <2> DEFINE a == req[p].user
               o == req[p].org
    <2>1. /\ UNCHANGED <<purge, joined>> /\ a \in Accounts /\ o \in Orgs
          /\ req[p].was # "none" /\ req[p].role \in Roles
      BY <1>5, <1>a, RequestParts DEF CommitWrite, WritesKnow, raceVars
    <2>2. CASE SnapshotStands(p)
      <3>1. /\ role' = [role EXCEPT ![o][a] = req[p].role] /\ role[o][a] = req[p].was
            /\ Delete({b \in {a} : req[p].last})
            /\ req' = [q \in Requests |-> IF q = p \/ Conflict(p, q) THEN Idle ELSE req[q]]
        BY <1>5, <2>2 DEF CommitWrite, SnapshotStands
      <3>2. \A q \in Requests : Withdrawing(q)' => req'[q] = req[q]
        BY <1>b, <3>1 DEF Withdrawing
      <3>3. \A x \in Orgs, b \in Accounts : role[x][b] = "none" => role'[x][b] = "none"
        <4> DEFINE r == req[p].role
        <4>1. /\ a \in Accounts /\ o \in Orgs /\ r \in Roles /\ role' = [role EXCEPT ![o][a] = r]
              /\ role[o][a] # "none"
          BY <2>1, <3>1
        <4> HIDE DEF a, o, r
        <4> QED
          BY <4>1, RowsKept
      <3>4. \A b \in Accounts : user[b] # "none" => user'[b] # "none"
        BY <3>1, Deleted
      <3> QED
        BY <2>1, <3>2, <3>3, <3>4, FoundStay
    <2>3. CASE ~SnapshotStands(p)
      <3>1. Ends(p) /\ UNCHANGED <<role, user>>
        BY <1>5, <2>3 DEF CommitWrite
      <3>2. \A q \in Requests : Withdrawing(q)' => req'[q] = req[q]
        BY <1>b, <3>1, RequestEnds DEF Withdrawing
      <3> QED
        BY <1>1, <2>1, <3>1, <3>2
    <2> QED
      BY <2>2, <2>3
  <1>6. ASSUME NEW p \in Requests, NEW a \in Accounts, BeginDemote(p, a)
        PROVE  DoomedKnow'
    <2>1. /\ req' = [req EXCEPT ![p] = Acts("demote", "begun", a)]
          /\ UNCHANGED <<user, role, purge, joined>>
      BY <1>6 DEF BeginDemote, raceVars
    <2>2. \A q \in Requests : Withdrawing(q)' => req'[q] = req[q]
      BY <1>a, <2>1, RequestParts DEF Withdrawing
    <2> QED
      BY <1>1, <2>1, <2>2
  <1>7. ASSUME NEW p \in Requests, NEW a \in Accounts, BeginInvite(p, a)
        PROVE  DoomedKnow'
    <2>1. /\ req' = [req EXCEPT ![p] = Acts("invite", "mailing", a)]
          /\ user' = [user EXCEPT ![a] = "live"] /\ UNCHANGED <<role, purge, joined>>
      BY <1>7 DEF BeginInvite, raceVars
    <2>2. \A q \in Requests : Withdrawing(q)' => req'[q] = req[q]
      BY <1>a, <2>1, RequestParts DEF Withdrawing
    <2>3. \A b \in Accounts : user[b] # "none" => user'[b] # "none"
      BY <1>a, <2>1
    <2> QED
      BY <2>1, <2>2, <2>3, FoundStay
  <1>8. ASSUME NEW p \in Requests, CountOthers(p) \/ Demote(p) \/ MailDelivered(p)
        PROVE  DoomedKnow'
    <2>1. /\ UNCHANGED <<user, role, purge, joined>>
          /\ Ends(p) \/ Moves(p, "counted")
      BY <1>8 DEF CountOthers, Demote, MailDelivered, raceVars
    <2>2. \A q \in Requests : Withdrawing(q)' => req'[q] = req[q]
      BY <1>b, <2>1, RequestEnds, RequestMoves DEF Withdrawing
    <2> QED
      BY <1>1, <2>1, <2>2
  <1>9. ASSUME NEW p \in Requests, MailFails(p)
        PROVE  DoomedKnow'
    <2>1. UNCHANGED <<user, role, purge, joined>>
      BY <1>9 DEF MailFails, raceVars
    <2>2. CASE Untouched(req[p].user)
      <3> DEFINE a == req[p].user
      <3>1. Moves(p, "withdrawing") /\ user[a] # "none" /\ \A o \in Orgs : role[o][a] = "none"
        BY <1>9, <1>a, <2>2 DEF MailFails, Untouched, Homes
      <3>2. req'[p].user = a /\ \A q \in Requests \ {p} : req'[q] = req[q]
        BY <3>1, RequestMoves
      <3>3. \A b \in Accounts : Doomed(b)' => b = a \/ Doomed(b)
        BY <2>1, <3>2 DEF Doomed
      <3> QED
        BY <2>1, <3>1, <3>3 DEF DoomedKnow
    <2>3. CASE ~Untouched(req[p].user)
      <3>1. Ends(p)
        BY <1>9, <2>3 DEF MailFails
      <3>2. \A q \in Requests : Withdrawing(q)' => req'[q] = req[q]
        BY <1>b, <3>1, RequestEnds DEF Withdrawing
      <3> QED
        BY <1>1, <2>1, <3>2
    <2> QED
      BY <2>2, <2>3
  \* The statement deletes, and ends.
  <1>10. ASSUME NEW A, Cascade(A), Settles, purge'.found \subseteq purge.found,
                \A p \in Requests : Withdrawing(p)' => req'[p] = req[p]
         PROVE  DoomedKnow'
    <2>1. /\ \A o \in Orgs, a \in Accounts : role[o][a] = "none" => role'[o][a] = "none"
          /\ \A a \in Accounts : user[a] # "none" => user'[a] # "none"
      BY <1>10, Cascaded
    <2>2. \A a \in Accounts : a \in joined /\ Doomed(a)' => a \in joined'
      BY <1>10 DEF Settles
    <2> QED
      BY <1>10, <2>1, <2>2, FoundStay
  <1>11. ASSUME NEW p \in Requests, Withdraw(p)
         PROVE  DoomedKnow'
    <2> DEFINE A == {req[p].user} \cap (super \ ready)
    <2>1. /\ Cascade(A) /\ Settles /\ purge' = purge
          /\ req' = [q \in Requests |-> IF q = p THEN Idle ELSE Outdated(q)]
      BY <1>11 DEF Withdraw
    <2>2. \A q \in Requests : Withdrawing(q)' => req'[q] = req[q]
      BY <1>b, <2>1, RequestsOutdated DEF Withdrawing
    <2> HIDE DEF A
    <2> QED
      BY <1>10, <2>1, <2>2
  <1>12. ASSUME DeleteFound
         PROVE  DoomedKnow'
    <2> DEFINE A == purge.found \cap (Live \ super)
    <2>1. /\ Cascade(A) /\ Settles /\ req' = req /\ purge' = Judging(purge.left, {})
      BY <1>12 DEF DeleteFound
    <2>2. purge'.found \subseteq purge.found
      BY <2>1, PurgeParts
    <2> HIDE DEF A
    <2> QED
      BY <1>10, <2>1, <2>2
  <1>13. ASSUME Crash
         PROVE  DoomedKnow'
    <2>1. purge'.found = {} /\ \A p \in Requests : ~Withdrawing(p)'
      BY <1>13, <1>b, PurgeParts DEF Crash, Withdrawing
    <2> QED
      BY <2>1 DEF DoomedKnow, Doomed, Withdrawing
  <1>14. ASSUME \/ UNCHANGED membersVars
                \/ \E a \in Accounts : Redeem(a) \/ Promote(a)
                \/ \E o \in Orgs : TrashOrg(o) \/ RestoreOrg(o) \/ FallsDue(o)
         PROVE  DoomedKnow'
    <2>1. UNCHANGED <<user, role, req, purge, joined>>
      BY <1>14 DEF membersVars, raceVars, Redeem, Promote, TrashOrg, RestoreOrg, FallsDue, MoveOrg
    <2> QED
      BY <1>1, <2>1 DEF Withdrawing
  <1>15. ASSUME NEW o \in Orgs, ListMembers(o)
         PROVE  DoomedKnow'
    <2>1. UNCHANGED <<user, role, req, joined>> /\ purge'.found = {}
      BY <1>15 DEF ListMembers, raceVars
    <2> QED
      BY <1>1, <2>1 DEF Withdrawing
  <1>16. ASSUME PurgeOrg
         PROVE  DoomedKnow'
    <2> DEFINE o == purge.org
    <2>1. UNCHANGED <<user, req, joined>>
      BY <1>16 DEF PurgeOrg, raceVars
    <2>2. purge'.found = {}
      BY <1>16, PurgeParts DEF PurgeOrg
    <2>3. \A x \in Orgs, a \in Accounts : role[x][a] = "none" => role'[x][a] = "none"
      <3>1. \/ role' = role
            \/ role' = [role EXCEPT ![o] = [a \in Accounts |-> "none"]]
        BY <1>16 DEF PurgeOrg
      <3> HIDE DEF o
      <3> QED
        BY <1>a, <3>1
    <2> QED
      BY <1>1, <2>1, <2>2, <2>3 DEF Withdrawing
  \* Who is found now has no membership now.
  <1>17. ASSUME (\E a \in Accounts : JudgeMember(a)) \/ Reconcile
         PROVE  DoomedKnow'
    <2>1. UNCHANGED <<user, role, req, joined>>
      BY <1>17 DEF JudgeMember, Reconcile, raceVars
    <2>2. \A a \in purge'.found : Homeless(a, {})
      <3>1. ASSUME Reconcile
            PROVE  \A a \in purge'.found : Homeless(a, {})
        <4>1. purge' = Judging({}, {a \in Accounts : Homeless(a, {})})
          BY <3>1 DEF Reconcile
        <4>2. {a \in Accounts : Homeless(a, {})} \in SUBSET Accounts /\ {} \in SUBSET Accounts
          OBVIOUS
        <4>3. purge'.found \subseteq {a \in Accounts : Homeless(a, {})}
          BY <4>1, <4>2, PurgeParts
        <4> QED
          BY <4>3
      <3>2. ASSUME NEW a \in Accounts, JudgeMember(a)
            PROVE  \A b \in purge'.found : Homeless(b, {})
        <4>1. purge' = Judging(purge.left \ {a}, {b \in {a} : Homeless(b, {})})
          BY <3>2 DEF JudgeMember
        <4>2. {b \in {a} : Homeless(b, {})} \in SUBSET Accounts /\ purge.left \ {a} \in SUBSET Accounts
          BY PurgeParts
        <4>3. purge'.found \subseteq {b \in {a} : Homeless(b, {})}
          BY <4>1, <4>2, PurgeParts
        <4> QED
          BY <4>3
      <3> QED
        BY <1>17, <3>1, <3>2
    <2>3. \A a \in Accounts :
            Doomed(a)' => \/ Doomed(a)
                          \/ user[a] # "none" /\ \A o \in Orgs : role[o][a] = "none"
      BY <2>1, <2>2 DEF Doomed, Homeless, Homes, Live
    <2> QED
      BY <2>1, <2>3 DEF DoomedKnow
  <1>18. ASSUME NEW a \in Accounts, NEW o \in Orgs,
                CreateTenant(o, a) \/ \E r \in Roles : AddMember(o, a, r)
         PROVE  DoomedKnow'
    <2>1. PICK r \in Roles : role' = [role EXCEPT ![o][a] = r]
      BY <1>18 DEF CreateTenant, AddMember, Roles
    <2>2. user' = [user EXCEPT ![a] = "live"] /\ Joins(a) /\ UNCHANGED <<req, purge>>
      BY <1>18 DEF CreateTenant, AddMember
    <2> QED
      BY <1>3, <2>1, <2>2
  <1> QED
    BY <1>2, <1>4, <1>5, <1>6, <1>7, <1>8, <1>9, <1>11, <1>12, <1>13, <1>14, <1>15, <1>16, <1>17,
       <1>18
       DEF MembersNext, Memberships, Appointments, Retention

-----------------------------------------------------------------------------
(* What a request has read about members and appointments stays true until  *)
(* it commits, or its snapshot no longer stands (write), or it is marked as *)
(* outdated (demote); and who is found without a membership has none until  *)
(* he is deleted, or has joined since.                                      *)
THEOREM MembersInvariance == MembersSpec => []MembersInv
  <1>1. MembersInit => MembersInv
    <2> SUFFICES ASSUME MembersInit PROVE MembersInv
      OBVIOUS
    <2>1. MembersTypeOK
      BY RequestParts DEF MembersInit, MembersTypeOK, Roles, NoPurge, Standing, Live
    <2>2. \A p \in Requests : req[p].pc = "idle"
      BY RequestParts DEF MembersInit
    <2>3. \A o \in Orgs : ~Standing(o)
      BY DEF MembersInit, Standing
    <2>4. purge.found = {}
      BY DEF MembersInit, NoPurge
    <2> QED
      BY <2>1, <2>2, <2>3, <2>4
         DEF MembersInv, WritesKnow, DemotesKnow, AdminRemains, DoomedKnow, Doomed
  <1>2. MembersInv /\ [MembersNext]_membersVars => MembersInv'
    BY MembersTypes, AdminsStep, DemotesStep, DoomedStep DEF MembersInv
  <1> QED
    BY <1>1, <1>2, PTL DEF MembersSpec

(* Every row and request keeps its type, and every member is an account     *)
(* that lives, of an organisation that stands.                              *)
THEOREM MembersTypeCorrect == MembersSpec => []MembersTypeOK
  BY MembersInvariance, PTL DEF MembersInv

(* However many administrators remove or downgrade each other at once, the  *)
(* first commit aborts whoever counted with it: one is left, unless a       *)
(* deletion already under way took one that had just joined.                *)
THEOREM AdminRemainsHolds == MembersSpec => []AdminRemains
  BY MembersInvariance, PTL DEF MembersInv

(* A withdrawal counts under the lock it writes under, and no deletion of   *)
(* the homeless touches a superadmin: the last one goes only with an        *)
(* invitation taken back, or because he was counted upon one.               *)
THEOREM LastAppointmentStaysHolds == MembersSpec => LastAppointmentStays
  <1> DEFINE Explained == super # {} /\ super' = {} =>
                            \/ \E a \in super \ ready : user[a] = "live" /\ user'[a] = "gone"
                            \/ \E p \in Requests : req[p].stale /\ req'[p] = Idle
  <1>1. ASSUME MembersInv, [MembersNext]_membersVars
        PROVE  Explained
    <2> SUFFICES ASSUME super # {}, super' = {}
                 PROVE  \/ \E a \in super \ ready : user[a] = "live" /\ user'[a] = "gone"
                        \/ \E p \in Requests : req[p].stale /\ req'[p] = Idle
      OBVIOUS
    <2>1. MembersTypeOK /\ super \subseteq Accounts /\ \A a \in super : user[a] = "live"
      BY <1>1 DEF MembersInv, MembersTypeOK, Live
    <2>2. ASSUME NEW p \in Requests, Demote(p)
          PROVE  req[p].stale /\ req'[p] = Idle
      <3>1. super = {req[p].user} /\ Ends(p)
        BY <2>2 DEF Demote
      <3>2. req[p].stale # FALSE
        BY <1>1, <2>2, <3>1 DEF MembersInv, DemotesKnow, Demote
      <3>3. req[p].stale \in BOOLEAN
        BY <2>1, RequestParts DEF MembersTypeOK
      <3> QED
        BY <2>1, <3>1, <3>2, <3>3, RequestEnds
    <2>3. ASSUME NEW p \in Requests, Withdraw(p)
          PROVE  \E a \in super \ ready : user[a] = "live" /\ user'[a] = "gone"
      <3> DEFINE A == {req[p].user} \cap (super \ ready)
      <3>1. Cascade(A) /\ super' = super \ A /\ A \subseteq super \ ready
        BY <2>3 DEF Withdraw
      <3> HIDE DEF A
      <3>2. PICK a \in super : a \in A
        BY <3>1
      <3> QED
        BY <2>1, <3>1, <3>2, Cascaded
    <2>4. ASSUME super' = super \/ \E a \in Accounts : a \in super'
          PROVE  FALSE
      BY <2>4
    <2>5. ASSUME \/ \E a \in Accounts, o \in Orgs \cup {Nobody} : SetUp(a, o)
                 \/ \E a \in Accounts : Promote(a)
                 \/ \E p \in Requests, a \in Accounts : BeginInvite(p, a)
          PROVE  FALSE
      BY <2>4, <2>5 DEF SetUp, Promote, BeginInvite
    <2>6. ASSUME \/ UNCHANGED membersVars
                 \/ \E p \in Requests :
                      \/ Memberships(p)
                      \/ \E b \in Accounts : BeginDemote(p, b)
                      \/ CountOthers(p) \/ MailDelivered(p) \/ MailFails(p)
                 \/ \E b \in Accounts : Redeem(b)
                 \/ \E b \in Accounts, o \in Orgs : \/ CreateTenant(o, b)
                                                    \/ \E r \in Roles : AddMember(o, b, r)
                 \/ \E o \in Orgs : TrashOrg(o) \/ RestoreOrg(o) \/ FallsDue(o)
                 \/ Retention \/ Crash
          PROVE  FALSE
      BY <2>4, <2>6 DEF membersVars, Memberships, BeginWrite, CommitWrite, BeginDemote, CountOthers,
                        MailDelivered, MailFails, Redeem, CreateTenant, AddMember, TrashOrg,
                        RestoreOrg, FallsDue, MoveOrg, Retention, ListMembers, PurgeOrg,
                        JudgeMember, Reconcile, DeleteFound, Crash
    <2> QED
      BY <1>1, <2>2, <2>3, <2>5, <2>6 DEF MembersNext, Appointments
  <1> QED
    BY <1>1, MembersInvariance, PTL DEF MembersSpec, LastAppointmentStays

(* A removal aborts when its snapshot no longer stands; the deletions that  *)
(* found the account without a membership take only who joined since, and   *)
(* look at its appointment and password when they delete.                   *)
THEOREM OwnedAccountsStayHolds == MembersSpec => OwnedAccountsStay
  <1> DEFINE Goes(a) == /\ \A o \in Homes(a) : Removes(o, a) \/ a \in joined
                        /\ a \notin super \/ a \notin ready
             Owned == \A a \in Accounts : user[a] = "live" /\ user'[a] = "gone" => Goes(a)
  <1>1. ASSUME MembersInv, [MembersNext]_membersVars
        PROVE  Owned
    <2> SUFFICES ASSUME NEW a \in Accounts, user[a] = "live", user'[a] = "gone"
                 PROVE  Goes(a)
      OBVIOUS
    <2> USE DEF MembersInv
    <2>1. MembersTypeOK /\ user \in [Accounts -> {"none", "live", "gone"}]
      BY <1>1 DEF MembersTypeOK
    <2>2. ASSUME NEW b \in Accounts, user' = [user EXCEPT ![b] = "live"]
          PROVE  FALSE
      BY <2>1, <2>2
    <2>3. ASSUME user' = user
          PROVE  FALSE
      BY <2>3
    \* Whoever was found has no membership, or joined.
    <2>4. ASSUME Doomed(a), a \notin super \/ a \notin ready
          PROVE  Goes(a)
      BY <1>1, <2>4 DEF DoomedKnow, Homes
    <2>5. ASSUME NEW p \in Requests, Withdraw(p)
          PROVE  Goes(a)
      <3> DEFINE A == {req[p].user} \cap (super \ ready)
      <3>1. Cascade(A) /\ A \subseteq {req[p].user} /\ A \cap ready = {}
        BY <2>5 DEF Withdraw
      <3> HIDE DEF A
      <3>2. a \in A
        BY <2>1, <3>1, Cascaded
      <3>3. Doomed(a)
        BY <2>5, <3>1, <3>2 DEF Withdraw, Doomed
      <3> QED
        BY <2>4, <3>1, <3>2, <3>3
    <2>6. ASSUME DeleteFound
          PROVE  Goes(a)
      <3> DEFINE A == purge.found \cap (Live \ super)
      <3>1. Cascade(A) /\ A \subseteq purge.found /\ A \cap super = {}
        BY <2>6 DEF DeleteFound
      <3> HIDE DEF A
      <3>2. a \in A
        BY <2>1, <3>1, Cascaded
      <3> QED
        BY <2>4, <3>1, <3>2 DEF Doomed
    <2>7. ASSUME NEW p \in Requests, CommitWrite(p)
          PROVE  Goes(a)
      <3> DEFINE o == req[p].org
                 b == req[p].user
      <3>1. SnapshotStands(p)
        BY <2>3, <2>7 DEF CommitWrite
      <3>2. Delete({c \in {b} : req[p].last}) /\ req'[p] = Idle
        BY <2>7, <3>1 DEF CommitWrite
      <3>3. req[p] \in Request
        BY <2>1 DEF MembersTypeOK
      <3>4. req[p].last = TRUE /\ a = b
        BY <2>1, <3>2, <3>3, RequestParts, Deleted
      <3>5. /\ Homeless(b, {o}) /\ req[p].role = "none"
            /\ req[p].kind = "write" /\ req[p].pc = "begun"
        BY <1>1, <2>7, <3>1, <3>4 DEF SnapshotStands, CommitWrite, WritesKnow
      <3>6. Removes(o, a)
        BY <3>2, <3>4, <3>5 DEF Removes
      <3> QED
        BY <3>4, <3>5, <3>6 DEF Homeless
    <2>8. ASSUME \/ UNCHANGED membersVars
                 \/ \E p \in Requests :
                      \/ \E o \in Orgs, b \in Accounts, r \in Roles : BeginWrite(p, o, b, r)
                      \/ \E b \in Accounts : BeginDemote(p, b)
                      \/ CountOthers(p) \/ Demote(p) \/ MailDelivered(p) \/ MailFails(p)
                 \/ \E b \in Accounts : Redeem(b) \/ Promote(b) \/ JudgeMember(b)
                 \/ \E o \in Orgs : TrashOrg(o) \/ RestoreOrg(o) \/ FallsDue(o) \/ ListMembers(o)
                 \/ PurgeOrg \/ Reconcile \/ Crash
          PROVE  FALSE
      BY <2>3, <2>8 DEF membersVars, BeginWrite, BeginDemote, CountOthers, Demote, MailDelivered,
                        MailFails, Redeem, Promote, TrashOrg, RestoreOrg, FallsDue, MoveOrg,
                        ListMembers, JudgeMember, Reconcile, PurgeOrg, Crash
    <2>9. ASSUME NEW b \in Accounts,
                 \/ \E o \in Orgs \cup {Nobody} : SetUp(b, o)
                 \/ \E o \in Orgs : CreateTenant(o, b)
                 \/ \E o \in Orgs, r \in Roles : AddMember(o, b, r)
                 \/ \E p \in Requests : BeginInvite(p, b)
          PROVE  FALSE
      <3>1. user' = [user EXCEPT ![b] = "live"]
        BY <2>9 DEF SetUp, CreateTenant, AddMember, BeginInvite
      <3> QED
        BY <2>2, <3>1
    <2> QED
      BY <1>1, <2>5, <2>6, <2>7, <2>8, <2>9 DEF MembersNext, Memberships, Appointments, Retention
  <1> QED
    BY <1>1, MembersInvariance, PTL DEF MembersSpec, OwnedAccountsStay

=============================================================================
