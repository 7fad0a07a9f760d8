------------------------------- MODULE Members -------------------------------
(***************************************************************************)
(* Accounts, the organisations they belong to, and who administers them:   *)
(* superadmins.service.ts, the membership delegate of tenant-scope.ts,     *)
(* homeless-account.ts, admin.repository.ts, first-superadmin.ts and the   *)
(* organisations' part of retention-purge.service.ts.                      *)
(*                                                                         *)
(* A membership write is SERIALIZABLE: it decides on its snapshot, and the *)
(* first commit aborts what overlaps and conflicts.  A demotion counts and *)
(* writes under an advisory lock.  An invited superadmin is committed, then*)
(* mailed, and deleted again when the mail fails.                          *)
(*                                                                         *)
(* Outside of those writes an account is deleted by one READ COMMITTED     *)
(* statement "where ... memberships none".  It looks for memberships when  *)
(* it begins and deletes later: a membership that commits in between holds *)
(* no lock that would stop it, and goes with the account.  The account's   *)
(* own columns are looked at again.                                        *)
(***************************************************************************)
EXTENDS Naturals, FiniteSets

CONSTANTS
  Accounts,   \* bound: accounts that may ever exist
  Orgs,       \* bound: organisations that may ever exist
  Requests,   \* concurrent requests to the API
  Nobody

ASSUME MembersAssumption == Nobody \notin Accounts /\ Nobody \notin Orgs
ASSUME FiniteAssumption == IsFiniteSet(Accounts)

VARIABLES
  user,       \* user rows
  super,      \* accounts that are superadmins
  ready,      \* accounts that have a password
  role,       \* membership rows
  org,        \* tenant rows; "due": 30 days in the trash
  req,        \* requests in flight
  purge,      \* the retention run, at one organisation
  joined,     \* accounts given a membership while a statement deletes them
  bereft      \* organisations that lost an administrator to such a statement

raceVars    == <<joined, bereft>>
membersVars == <<user, super, ready, role, org, req, purge, joined, bereft>>

Roles   == {"none", "member", "admin"}
Request == [kind : {"write", "demote", "invite"},
            pc   : {"idle", "begun", "counted", "mailing", "withdrawing"},
            user : Accounts \cup {Nobody},
            org  : Orgs \cup {Nobody},
            was  : Roles,
            role : Roles,
            last : BOOLEAN,    \* a removal: the account goes with it
            stale : BOOLEAN]   \* a demotion: a superadmin it counted was withdrawn

Acts(kind, pc, a) == [kind |-> kind, pc |-> pc, user |-> a, org |-> Nobody,
                      was |-> "none", role |-> "none", last |-> FALSE,
                      stale |-> FALSE]
Idle    == Acts("write", "idle", Nobody)
NoPurge == [pc |-> "idle", org |-> Nobody, left |-> {}, found |-> {}]

-----------------------------------------------------------------------------
Live         == {a \in Accounts : user[a] = "live"}
Standing(o)  == org[o] \in {"live", "trash", "due"}
Admins(o)    == {a \in Accounts : role[o][a] = "admin"}
Homes(a)     == {o \in Orgs : role[o][a] # "none"}
LivingHomes(a) == {o \in Homes(a) : org[o] = "live"}

\* The where of deleteHomelessAccount, once the memberships in O are gone.
HomelessWhereverElse(a, O) == a \in Live \ super        \* mutant
Homeless(a, O) == a \in Live \ super /\ Homes(a) \subseteq O

Delete(A) == user' = [a \in Accounts |-> IF a \in A THEN "gone" ELSE user[a]]

\* The memberships go with the account, and so may the last administrator.
Cascade(A) ==
  /\ Delete(A)
  /\ role' = [o \in Orgs |-> [a \in Accounts |-> IF a \in A THEN "none" ELSE role[o][a]]]
  /\ bereft' = bereft \cup {o \in Orgs : Admins(o) \cap A # {}}

\* Accounts a statement has found without a membership, and is about to delete.
Doomed(a) == \/ a \in purge.found
             \/ \E p \in Requests : req[p].pc = "withdrawing" /\ req[p].user = a
Joins(a)  == joined' = joined \cup {b \in {a} : Doomed(b)}
Settles   == joined' = {a \in joined : Doomed(a)'}

Ends(p)      == req' = [req EXCEPT ![p] = Idle]
Moves(p, pc)  == req' = [req EXCEPT ![p].pc = pc]

MembersInit ==
  /\ user = [a \in Accounts |-> "none"]
  /\ super = {} /\ ready = {}
  /\ role = [o \in Orgs |-> [a \in Accounts |-> "none"]]
  /\ org = [o \in Orgs |-> "none"]
  /\ req = [p \in Requests |-> Idle]
  /\ purge = NoPurge
  /\ joined = {} /\ bereft = {}

-----------------------------------------------------------------------------
(* Accounts and organisations come to be. *)

(* createFirstSuperadmin, under its lock: only while there is no account.   *)
SetUp(a, o) ==
  /\ \A b \in Accounts : user[b] = "none"
  /\ user' = [user EXCEPT ![a] = "live"]
  /\ super' = {a} /\ ready' = {a}
  /\ IF o = Nobody THEN UNCHANGED <<org, role>>
                   ELSE org' = [org EXCEPT ![o] = "live"]
                        /\ role' = [role EXCEPT ![o][a] = "admin"]
  /\ UNCHANGED <<req, purge, raceVars>>

\* An account that exists is attached, a new one is invited.
Exists(a) == user[a] # "gone" /\ Live # {}

CreateTenant(o, a) ==
  /\ org[o] = "none" /\ super # {}
  /\ Exists(a)
  /\ org' = [org EXCEPT ![o] = "live"]
  /\ user' = [user EXCEPT ![a] = "live"]
  /\ role' = [role EXCEPT ![o][a] = "admin"]
  /\ Joins(a)
  /\ UNCHANGED <<super, ready, req, purge, bereft>>

\* createLocal and attachExisting; the organisation may meanwhile be trashed.
AddMember(o, a, r) ==
  /\ Standing(o)
  /\ Exists(a)
  /\ role[o][a] = "none" /\ r # "none"
  /\ user' = [user EXCEPT ![a] = "live"]
  /\ role' = [role EXCEPT ![o][a] = r]
  /\ Joins(a)
  /\ UNCHANGED <<super, ready, org, req, purge, bereft>>

\* The first password, through the link of an invitation.
Redeem(a) ==
  /\ a \in Live \ ready
  /\ ready' = ready \cup {a}
  /\ UNCHANGED <<user, super, role, org, req, purge, raceVars>>

-----------------------------------------------------------------------------
(* updateGroup and remove, in one SERIALIZABLE transaction. *)

SparesLastAdmin(o, a) == role[o][a] = "admin" => Admins(o) # {a}

BeginWrite(p, o, a, r) ==
  /\ req[p].pc = "idle"
  /\ org[o] = "live"
  /\ role[o][a] \notin {"none", r}
  /\ SparesLastAdmin(o, a)
  /\ req' = [req EXCEPT ![p] = [kind |-> "write", pc |-> "begun", user |-> a, org |-> o,
                                was |-> role[o][a], role |-> r,
                                last |-> r = "none" /\ Homeless(a, {o}), stale |-> FALSE]]
  /\ UNCHANGED <<user, super, ready, role, org, purge, raceVars>>

\* Both have counted the administrators, or both have written or judged by
\* the same account.
ReadsCommitted(p, q) == FALSE                              \* mutant
Conflict(p, q) ==
  /\ req[q].kind = "write" /\ req[q].pc = "begun"
  /\ \/ req[p].org = req[q].org /\ req[p].was = "admin" /\ req[q].was = "admin"
     \/ req[p].user = req[q].user /\ \/ req[p].org = req[q].org
                                     \/ req[p].role = "none" /\ req[q].role = "none"

\* An update of the membership, or a delete of the account, whose row has
\* changed since the snapshot fails, and so does a cascade onto a membership
\* the snapshot does not know.
SnapshotStands(p) ==
  /\ role[req[p].org][req[p].user] = req[p].was
  /\ req[p].last => Homeless(req[p].user, {req[p].org})

CommitWrite(p) ==
  LET a == req[p].user  o == req[p].org IN
  /\ req[p].kind = "write" /\ req[p].pc = "begun"
  /\ IF SnapshotStands(p)
       THEN /\ role' = [role EXCEPT ![o][a] = req[p].role]
            /\ Delete({b \in {a} : req[p].last})
            /\ req' = [q \in Requests |-> IF q = p \/ Conflict(p, q) THEN Idle ELSE req[q]]
       ELSE Ends(p) /\ UNCHANGED <<role, user>>
  /\ UNCHANGED <<super, ready, org, purge, raceVars>>

-----------------------------------------------------------------------------
(* Superadmins. *)

Promote(a) ==
  /\ super # {}
  /\ a \in Live \ super
  /\ super' = super \cup {a}
  /\ UNCHANGED <<user, ready, role, org, req, purge, raceVars>>

BeginDemote(p, a) ==
  /\ req[p].pc = "idle"
  /\ Live # {}
  /\ req' = [req EXCEPT ![p] = Acts("demote", "begun", a)]
  /\ UNCHANGED <<user, super, ready, role, org, purge, raceVars>>

LockIsFreeAlways(p) == TRUE                                \* mutant
LockIsFree(p) == \A q \in Requests : ~(req[q].kind = "demote" /\ req[q].pc = "counted")

(* Under SUPERADMIN_LOCK: is it one, are there others, has it a home?       *)
CountOthers(p) ==
  LET a == req[p].user IN
  /\ req[p].kind = "demote" /\ req[p].pc = "begun"
  /\ LockIsFree(p)
  /\ IF a \in super /\ super # {a} /\ LivingHomes(a) # {}
       THEN Moves(p, "counted") ELSE Ends(p)
  /\ UNCHANGED <<user, super, ready, role, org, purge, raceVars>>

(* The where asks for the home again.                                       *)
Demote(p) ==
  LET a == req[p].user IN
  /\ req[p].kind = "demote" /\ req[p].pc = "counted"
  /\ super' = IF a \in super /\ LivingHomes(a) # {} THEN super \ {a} ELSE super
  /\ Ends(p)
  /\ UNCHANGED <<user, ready, role, org, purge, raceVars>>

(* invite: the account, appointed and without a password, is committed      *)
(* before its mail is delivered.                                            *)
BeginInvite(p, a) ==
  /\ req[p].pc = "idle"
  /\ super # {}
  /\ user[a] = "none"
  /\ user' = [user EXCEPT ![a] = "live"]
  /\ super' = super \cup {a}
  /\ req' = [req EXCEPT ![p] = Acts("invite", "mailing", a)]
  /\ UNCHANGED <<ready, role, org, purge, raceVars>>

MailDelivered(p) ==
  /\ req[p].kind = "invite" /\ req[p].pc = "mailing"
  /\ Ends(p)
  /\ UNCHANGED <<user, super, ready, role, org, purge, raceVars>>

\* It may have been delivered all the same, and the link redeemed.
UntouchedEvenIfReady(a) == a \in super /\ Homes(a) = {}   \* mutant
Untouched(a) == a \in super \ ready /\ Homes(a) = {}

(* The statement that takes the account back begins ...                     *)
MailFails(p) ==
  /\ req[p].kind = "invite" /\ req[p].pc = "mailing"
  /\ IF Untouched(req[p].user) THEN Moves(p, "withdrawing") ELSE Ends(p)
  /\ UNCHANGED <<user, super, ready, role, org, purge, raceVars>>

Outdated(q) == IF req[q].pc = "counted" THEN [req[q] EXCEPT !.stale = TRUE] ELSE req[q]

(* ... and deletes, whether or not somebody else is a superadmin.           *)
Withdraw(p) ==
  LET A == {req[p].user} \cap (super \ ready) IN
  /\ req[p].pc = "withdrawing"
  /\ Cascade(A)
  /\ super' = super \ A
  /\ req' = [q \in Requests |-> IF q = p THEN Idle ELSE Outdated(q)]
  /\ UNCHANGED <<ready, org, purge>>
  /\ Settles

(* The process dies: nothing is rolled back that was committed.             *)
Crash ==
  /\ req # [p \in Requests |-> Idle] \/ purge # NoPurge
  /\ req' = [p \in Requests |-> Idle]
  /\ purge' = NoPurge
  /\ joined' = {}
  /\ UNCHANGED <<user, super, ready, role, org, bereft>>

-----------------------------------------------------------------------------
(* The trash of organisations, and the retention run. *)

MoveOrg(o, from, to) ==
  /\ org[o] \in from
  /\ org' = [org EXCEPT ![o] = to]
  /\ UNCHANGED <<user, super, ready, role, req, purge, raceVars>>

TrashOrg(o)   == MoveOrg(o, {"live"}, "trash")
RestoreOrg(o) == MoveOrg(o, {"trash", "due"}, "live")
FallsDue(o)   == MoveOrg(o, {"trash"}, "due")

(* The members are read before the organisation that names them goes.       *)
ListMembers(o) ==
  /\ purge.pc = "idle"
  /\ org[o] = "due"
  /\ purge' = [pc |-> "listed", org |-> o, left |-> {a \in Accounts : role[o][a] # "none"},
                found |-> {}]
  /\ UNCHANGED <<user, super, ready, role, org, req, raceVars>>

Judging(left, found) ==
  IF left = {} /\ found = {} THEN NoPurge
    ELSE [pc |-> "judging", org |-> Nobody, left |-> left, found |-> found]

PurgeOrg ==
  LET o == purge.org IN
  /\ purge.pc = "listed"
  /\ IF org[o] = "due"
       THEN /\ org' = [org EXCEPT ![o] = "gone"]
            /\ role' = [role EXCEPT ![o] = [a \in Accounts |-> "none"]]
            /\ purge' = Judging(purge.left, {})
       ELSE purge' = NoPurge /\ UNCHANGED <<org, role>>
  /\ UNCHANGED <<user, super, ready, req, raceVars>>

(* deleteHomelessAccount, member by member, looks for a membership.         *)
JudgeMember(a) ==
  /\ purge.pc = "judging" /\ purge.found = {}
  /\ a \in purge.left
  /\ purge' = Judging(purge.left \ {a}, {b \in {a} : Homeless(b, {})})
  /\ UNCHANGED <<user, super, ready, role, org, req, raceVars>>

(* deleteHomelessAccounts, at the end of every run, looks at all of them.   *)
Reconcile ==
  /\ purge.pc = "idle"
  /\ \E a \in Accounts : Homeless(a, {})
  /\ purge' = Judging({}, {a \in Accounts : Homeless(a, {})})
  /\ UNCHANGED <<user, super, ready, role, org, req, raceVars>>

(* What either found goes, unless it has become a superadmin.               *)
DeleteFound ==
  /\ purge.found # {}
  /\ Cascade(purge.found \cap (Live \ super))
  /\ purge' = Judging(purge.left, {})
  /\ UNCHANGED <<super, ready, org, req>>
  /\ Settles

-----------------------------------------------------------------------------
Memberships(p) ==
  \/ \E o \in Orgs, a \in Accounts, r \in Roles : BeginWrite(p, o, a, r)
  \/ CommitWrite(p)

Appointments(p) ==
  \/ \E a \in Accounts : BeginDemote(p, a) \/ BeginInvite(p, a)
  \/ CountOthers(p) \/ Demote(p) \/ MailDelivered(p) \/ MailFails(p) \/ Withdraw(p)

Retention ==
  \/ \E o \in Orgs : ListMembers(o)
  \/ PurgeOrg
  \/ \E a \in Accounts : JudgeMember(a)
  \/ Reconcile \/ DeleteFound

MembersNext ==
  \/ \E p \in Requests : Memberships(p) \/ Appointments(p)
  \/ \E a \in Accounts, o \in Orgs \cup {Nobody} : SetUp(a, o)
  \/ \E a \in Accounts, o \in Orgs : \/ CreateTenant(o, a)
                                     \/ \E r \in Roles : AddMember(o, a, r)
  \/ \E a \in Accounts : Redeem(a) \/ Promote(a)
  \/ \E o \in Orgs : TrashOrg(o) \/ RestoreOrg(o) \/ FallsDue(o)
  \/ Retention
  \/ Crash

MembersSpec == MembersInit /\ [][MembersNext]_membersVars

-----------------------------------------------------------------------------
(* Properties *)

(* Every variable stays in its type; only accounts that exist are members,  *)
(* and only of organisations that exist.                                    *)
MembersTypeOK ==
  /\ user \in [Accounts -> {"none", "live", "gone"}]
  /\ super \subseteq Live /\ ready \subseteq Accounts
  /\ role \in [Orgs -> [Accounts -> Roles]]
  /\ org \in [Orgs -> {"none", "live", "trash", "due", "gone"}]
  /\ req \in [Requests -> Request]
  /\ purge \in [pc : {"idle", "listed", "judging"}, org : Orgs \cup {Nobody},
                left : SUBSET Accounts, found : SUBSET Accounts]
  /\ joined \subseteq Accounts /\ bereft \subseteq Orgs
  /\ \A o \in Orgs, a \in Accounts : role[o][a] # "none" => user[a] = "live" /\ Standing(o)

(* Administrators who remove or downgrade each other at once leave every    *)
(* organisation with one, in the trash and back out of it.  Only a deletion *)
(* that was already under way when its administrator joined may take him.   *)
AdminRemains == \A o \in Orgs : Standing(o) => Admins(o) # {} \/ o \in bereft

(* Superadmins who withdraw each other's appointment at once leave one, and *)
(* no deletion of the homeless takes the last.  He goes only with an        *)
(* invitation nobody has redeemed, or because he was counted upon one.      *)
LastAppointmentStays ==
  [][super # {} /\ super' = {} =>
       \/ \E a \in super \ ready : user[a] = "live" /\ user'[a] = "gone"
       \/ \E p \in Requests : req[p].stale /\ req'[p] = Idle]_membersVars

\* A membership goes by the request that names it.
Removes(o, a) ==
  \E p \in Requests : /\ req[p].kind = "write" /\ req[p].pc = "begun" /\ req'[p] = Idle
                      /\ req[p].org = o /\ req[p].user = a /\ req[p].role = "none"

(* Nobody who belongs to an organisation, or who is a superadmin with a     *)
(* password, is deleted, however late the mail fails, the purge judges or   *)
(* the last membership goes - but who joins while a statement deletes him.  *)
OwnedAccountsStay ==
  [][\A a \in Accounts :
       user[a] = "live" /\ user'[a] = "gone" =>
         /\ \A o \in Homes(a) : Removes(o, a) \/ a \in joined
         /\ a \notin super \/ a \notin ready]_membersVars

(* "A membership that comes into being between the check and the DELETE has *)
(* to make the DELETE not match."                                           *)
MembersStay ==
  [][\A a \in Accounts :
       user[a] = "live" /\ user'[a] = "gone" => \A o \in Homes(a) : Removes(o, a)]_membersVars

(* The number of superadmins keeps its one promise, "at least one".         *)
SuperadminRemains == (\E a \in Accounts : user[a] # "none") => super # {}

=============================================================================
