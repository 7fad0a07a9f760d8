----------------------------- MODULE Credentials -----------------------------
(***************************************************************************)
(* The ways into one local account: its password, its sessions, and the    *)
(* links that set a password (password-reset.service.ts, profile.service.  *)
(* ts, auth.service.ts, session.service.ts, and setPassword,               *)
(* resendInvitation and updateAccount of tenant-scope.ts).                 *)
(*                                                                         *)
(* A request reads the account, spends its time on Argon2, and then runs   *)
(* the statements of one transaction.  Script lists them; what they write  *)
(* becomes visible with the commit.  Every statement of READ COMMITTED sees*)
(* what is committed when it starts: rows inserted meanwhile escape it.    *)
(*                                                                         *)
(* A password is known by its number: every write of one is a new hash.    *)
(***************************************************************************)
EXTENDS Integers, Sequences, FiniteSets

CONSTANTS
  Callers,    \* concurrent requests to the API
  Sessions,    \* bound: sessions open at once
  Links,       \* bound: links unused at once
  Addresses,   \* e-mail addresses the account may have
  NoLink,
  MaxHash      \* bound: passwords ever written

ASSUME NoLinkAssumption == NoLink \notin Links
ASSUME HashAssumption == MaxHash \in Nat \ {0}
ASSUME AddressAssumption == Addresses # {}
ASSUME CallersAssumption == IsFiniteSet(Callers)

VARIABLES
  hash,        \* password_hash of the account, 0 for none
  redeemed,    \* its holder has set one through a link
  address,     \* e-mail of the account
  corrected,   \* an administrator changed it last
  session,     \* session rows
  link,        \* password_reset rows
  call          \* requests in flight

credentialVars == <<hash, redeemed, address, corrected, session, link, call>>

(* The statements of each kind of request, after its reads.                *)
Script ==
  [login   |-> <<"issue">>,
   change  |-> <<"write", "sweep", "take", "end", "commit", "issue">>,
   email   |-> <<"write", "sweep", "take", "commit">>,
   set     |-> <<"write", "sweep", "take", "end", "commit">>,
   confirm |-> <<"claim", "write", "end", "sweep", "take", "commit">>,
   ask     |-> <<"sweep", "take", "commit">>,
   resend  |-> <<"take", "commit">>]

NoneSerializable == {}                                     \* mutant
Serializable == {"resend"}

Kinds   == DOMAIN Script
Setters == {"change", "set", "confirm"}
Minters == {"ask", "resend"}

Session == [state : {"none", "open"}, hash : 0..MaxHash, alone : BOOLEAN]

Link == [state : {"none", "open", "expired"}, kind : {"reset", "invitation"},
         hash : 0..MaxHash, to : Addresses, alone : BOOLEAN]

\* alone: no request that replaces passwords or links was under way meanwhile.
Call == [kind : Kinds, at : 0..6, hash : 0..MaxHash, to : Addresses,
            link : Links \cup {NoLink}, links : SUBSET Links,
            sessions : SUBSET Sessions, alone : BOOLEAN]

NoCall == [kind |-> "login", at |-> 0, hash |-> 0, to |-> CHOOSE a \in Addresses : TRUE,
         link |-> NoLink, links |-> {}, sessions |-> {}, alone |-> TRUE]

\* A session that has ended and a link that was used are never looked at again:
\* the next one takes their place, once no request knows of them.
NoSession == [state |-> "none", hash |-> 0, alone |-> TRUE]
Unminted  == [state |-> "none", kind |-> "reset", hash |-> 0, to |-> NoCall.to, alone |-> TRUE]
Expired   == [Unminted EXCEPT !.state = "expired"]

-----------------------------------------------------------------------------
Busy(p)      == call[p].at # 0
Stands(p, s) == Busy(p) /\ Script[call[p].kind][call[p].at] = s
Passed(p, s) == \E i \in 1..(call[p].at - 1) : Script[call[p].kind][i] = s

Unused(l)    == link[l].state \in {"open", "expired"}      \* used_at IS NULL
Known(p)     == UNION {call[q].links \cup {call[q].link} : q \in Callers \ {p}}
NewLinks(p)  == {l \in Links \ Known(p) : link[l] = Unminted \/ l \in call[p].links}
NewLink(p)   == CHOOSE l \in NewLinks(p) : TRUE
NewSessions  == {s \in Sessions : /\ session[s] = NoSession
                                  /\ \A p \in Callers : s \notin call[p].sessions}
NewSession   == CHOOSE s \in NewSessions : TRUE
OpenSessions == {s \in Sessions : session[s].state = "open"}

(* Row locks, held until the commit.  Only a new address, being a key,     *)
(* makes foreign keys wait.                                                *)
InTransaction(p) == Busy(p) /\ ~Passed(p, "commit")
HoldsUser(p)     == InTransaction(p) /\ Passed(p, "write")
HoldsKey(p)      == call[p].kind = "email" /\ HoldsUser(p)
HoldsLink(p, l)  == InTransaction(p) /\ \/ Passed(p, "claim") /\ l = call[p].link
                                        \/ Passed(p, "take") /\ l \in call[p].links

UserFree(p)    == \A q \in Callers \ {p} : ~HoldsUser(q)
KeyFree(p)     == \A q \in Callers \ {p} : ~HoldsKey(q)
LinkUnguarded(p, l) == TRUE                                \* mutant
LinkFree(p, l) == \A q \in Callers \ {p} : ~HoldsLink(q, l)

Overlaps(p) == \E q \in Callers \ {p} : Busy(q) /\ call[q].kind # "login"

\* A request begins; one that replaces something overlaps all the others.
Starts(p, r) ==
  call' = [q \in Callers |->
            IF q = p THEN [r EXCEPT !.at = 1, !.alone = ~Overlaps(p)]
            ELSE IF r.kind # "login" /\ Busy(q) THEN [call[q] EXCEPT !.alone = FALSE]
            ELSE call[q]]

Advanced(p) == IF call[p].at < Len(Script[call[p].kind])
                 THEN [call[p] EXCEPT !.at = @ + 1] ELSE NoCall

CredentialsInit ==
  /\ hash \in {0, 1}
  /\ redeemed = (hash # 0)
  /\ address \in Addresses
  /\ corrected = FALSE
  /\ session = [s \in Sessions |-> NoSession]
  /\ LET first == CHOOSE l \in Links : TRUE IN
       link = [l \in Links |->
                 IF l # first \/ hash # 0 THEN Unminted
                 ELSE [state |-> "open", kind |-> "invitation", hash |-> 0,
                       to |-> address, alone |-> TRUE]]
  /\ call = [p \in Callers |-> NoCall]

-----------------------------------------------------------------------------
(* Callers begin with what they read. *)

\* Bounds: a request starts only while there is room for what it will write; a
\* link or a session waits for room until it is issued.
Users(K)     == Cardinality({q \in Callers : Busy(q) /\ call[q].kind \in K})
RoomToSet    == hash + Users(Setters) < MaxHash

(* login, with the password of the row it has read.                        *)
BeginLogin(p) ==
  /\ hash # 0
  /\ Starts(p, [NoCall EXCEPT !.kind = "login", !.hash = hash])

(* changePassword and changeEmail ask for the password once more.          *)
BeginChange(p) ==
  /\ OpenSessions # {} /\ hash # 0
  /\ RoomToSet
  /\ Starts(p, [NoCall EXCEPT !.kind = "change"])

BeginEmail(p, a) ==
  /\ OpenSessions # {} /\ hash # 0
  /\ a # address
  /\ Starts(p, [NoCall EXCEPT !.kind = "email", !.to = a])

BeginSet(p) ==
  /\ RoomToSet
  /\ Starts(p, [NoCall EXCEPT !.kind = "set"])

BeginConfirm(p, l) ==
  /\ link[l].state # "none"
  /\ RoomToSet
  /\ Starts(p, [NoCall EXCEPT !.kind = "confirm", !.link = l])

BeginAsk(p) ==
  /\ Starts(p, [NoCall EXCEPT !.kind = "ask", !.hash = hash, !.to = address])

(* resendInvitation is SERIALIZABLE: one snapshot, taken by its first read.*)
BeginResend(p) ==
  /\ hash = 0
  /\ Starts(p, [NoCall EXCEPT !.kind = "resend", !.hash = hash, !.to = address,
                            !.links = {l \in Links : Unused(l)}])

Begin(p) ==
  /\ ~Busy(p)
  /\ \/ BeginLogin(p) \/ BeginChange(p) \/ BeginSet(p) \/ BeginAsk(p) \/ BeginResend(p)
     \/ \E a \in Addresses : BeginEmail(p, a)
     \/ \E l \in Links : BeginConfirm(p, l)
  /\ UNCHANGED <<hash, redeemed, address, corrected, session, link>>

-----------------------------------------------------------------------------
(* The statements. *)

Claim(p) ==
  LET l == call[p].link IN
  /\ Stands(p, "claim")
  /\ LinkFree(p, l)
  /\ call' = [call EXCEPT ![p] = IF link[l].state = "open" THEN Advanced(p) ELSE NoCall]
  /\ UNCHANGED <<hash, redeemed, address, corrected, session, link>>

Write(p) ==
  /\ Stands(p, "write")
  /\ UserFree(p)
  /\ call' = [call EXCEPT ![p] = Advanced(p)]
  /\ UNCHANGED <<hash, redeemed, address, corrected, session, link>>

EndNothing(p) == call' = [call EXCEPT ![p] = Advanced(p)]    \* mutant
EndOpenSessions(p) ==
  call' = [call EXCEPT ![p] = [Advanced(p) EXCEPT !.sessions = OpenSessions]]

EndSessions(p) ==
  /\ Stands(p, "end")
  /\ EndOpenSessions(p)
  /\ UNCHANGED <<hash, redeemed, address, corrected, session, link>>

(* invalidateOpenTokens: the rows its snapshot finds, and then their locks. *)
Swept(p) == {l \in Links : Unused(l)}

Sweep(p) ==
  /\ Stands(p, "sweep")
  /\ call' = [call EXCEPT ![p] = [Advanced(p) EXCEPT !.links = Swept(p)]]
  /\ UNCHANGED <<hash, redeemed, address, corrected, session, link>>

\* A serializable update of a row changed since the snapshot fails.
RowsStand(p) ==
  call[p].kind \in Serializable => \A l \in call[p].links : Unused(l)

Take(p) ==
  /\ Stands(p, "take")
  /\ \A l \in call[p].links : Unused(l) => LinkFree(p, l)
  /\ call' = [call EXCEPT ![p] = IF RowsStand(p) THEN Advanced(p) ELSE NoCall]
  /\ UNCHANGED <<hash, redeemed, address, corrected, session, link>>

Devalued(p) == call[p].links \cup ({call[p].link} \ {NoLink})
AfterSweep(p) == [l \in Links |-> IF l \in Devalued(p)
                                    THEN Unminted ELSE link[l]]

CommitPassword(p) ==
  /\ Stands(p, "commit")
  /\ call[p].kind \in Setters
  /\ hash' = hash + 1
  /\ redeemed' = (redeemed \/ call[p].kind = "confirm")
  /\ link' = AfterSweep(p)
  /\ session' = [s \in Sessions |-> IF s \in call[p].sessions
                                      THEN NoSession ELSE session[s]]
  /\ call' = [call EXCEPT ![p] = IF call[p].kind = "change"
                                 THEN [Advanced(p) EXCEPT !.hash = hash + 1, !.links = {},
                                                          !.sessions = {}] ELSE NoCall]
  /\ UNCHANGED <<address, corrected>>

CommitAddress(p) ==
  /\ Stands(p, "commit")
  /\ call[p].kind = "email"
  /\ address' = call[p].to
  /\ corrected' = FALSE
  /\ link' = AfterSweep(p)
  /\ call' = [call EXCEPT ![p] = Advanced(p)]
  /\ UNCHANGED <<hash, redeemed, session>>

Minted(p, k) == [state |-> "open", kind |-> k, hash |-> call[p].hash, to |-> call[p].to,
                 alone |-> call[p].alone]

CommitLink(p) ==
  /\ Stands(p, "commit")
  /\ call[p].kind = "ask"
  /\ KeyFree(p)
  /\ NewLinks(p) # {}
  /\ link' = [AfterSweep(p) EXCEPT ![NewLink(p)] = Minted(p, "reset")]
  /\ call' = [call EXCEPT ![p] = Advanced(p)]
  /\ UNCHANGED <<hash, redeemed, address, corrected, session>>

(* Its foreign key fails on a user row changed since the snapshot, and of   *)
(* two overlapping resends the first commit aborts the other.               *)
CommitInvitation(p) ==
  /\ Stands(p, "commit")
  /\ call[p].kind = "resend"
  /\ KeyFree(p)
  /\ NewLinks(p) # {}
  /\ IF call[p].kind \in Serializable => hash = call[p].hash /\ address = call[p].to
       THEN /\ link' = [AfterSweep(p) EXCEPT ![NewLink(p)] = Minted(p, "invitation")]
            /\ call' = [q \in Callers |-> IF q = p \/ call[q].kind \in Serializable
                                        THEN NoCall ELSE call[q]]
       ELSE call' = [call EXCEPT ![p] = NoCall] /\ UNCHANGED link
  /\ UNCHANGED <<hash, redeemed, address, corrected, session>>

(* issue: nothing is compared a second time.                                *)
Issue(p) ==
  /\ Stands(p, "issue")
  /\ KeyFree(p)
  /\ NewSessions # {}
  /\ session' = [session EXCEPT ![NewSession] = [state |-> "open", hash |-> call[p].hash,
                                                 alone |-> call[p].alone]]
  /\ call' = [call EXCEPT ![p] = Advanced(p)]
  /\ UNCHANGED <<hash, redeemed, address, corrected, link>>

(* A lost connection, a crash, the transaction's timeout.                   *)
Fail(p) ==
  /\ Busy(p)
  /\ call' = [call EXCEPT ![p] = NoCall]
  /\ UNCHANGED <<hash, redeemed, address, corrected, session, link>>

-----------------------------------------------------------------------------
(* Single statements. *)

\* revoke, revokeOthers and revokeAllOf: one, all but one, all.
Revocable == {{s} : s \in OpenSessions} \cup {OpenSessions \ {s} : s \in OpenSessions}
               \cup {OpenSessions}

Revoke(S) ==
  /\ S # {}
  /\ session' = [s \in Sessions |-> IF s \in S THEN NoSession ELSE session[s]]
  /\ UNCHANGED <<hash, redeemed, address, corrected, link, call>>

\* updateAccount: an administrator corrects the address.
SetAddress(a) ==
  /\ a # address
  /\ \A p \in Callers : ~HoldsUser(p)
  /\ address' = a
  /\ corrected' = TRUE
  /\ UNCHANGED <<hash, redeemed, session, link, call>>

Expire(l) ==
  /\ link[l].state = "open"
  /\ link' = [link EXCEPT ![l] = Expired]
  /\ UNCHANGED <<hash, redeemed, address, corrected, session, call>>

-----------------------------------------------------------------------------
Step(p) ==
  \/ Claim(p) \/ Write(p) \/ EndSessions(p) \/ Sweep(p) \/ Take(p)
  \/ CommitPassword(p) \/ CommitAddress(p) \/ CommitLink(p) \/ CommitInvitation(p)
  \/ Issue(p)
  \/ Fail(p)

CredentialsNext ==
  \/ \E p \in Callers : Begin(p) \/ Step(p)
  \/ \E S \in Revocable : Revoke(S)
  \/ \E a \in Addresses : SetAddress(a)
  \/ \E l \in Links : Expire(l)

CredentialsSpec == CredentialsInit /\ [][CredentialsNext]_credentialVars

-----------------------------------------------------------------------------
(* Properties *)

(* Every variable stays in its type, every request inside its script.      *)
CredentialsTypeOK ==
  /\ hash \in 0..MaxHash
  /\ redeemed \in BOOLEAN
  /\ address \in Addresses
  /\ corrected \in BOOLEAN
  /\ session \in [Sessions -> Session]
  /\ link \in [Links -> Link]
  /\ call \in [Callers -> Call]
  /\ \A p \in Callers : call[p].at <= Len(Script[call[p].kind])
  /\ \A p \in Callers : call[p].kind = "confirm" => call[p].link \in Links

(* A link sets one password, however often its page is sent: it is unused   *)
(* until the commit of the request that redeems it.                         *)
RedeemedOnce ==
  [][\A p \in Callers :
       call[p].kind = "confirm" /\ hash' # hash /\ Stands(p, "commit") /\ ~Busy(p)'
         => link[call[p].link].state \in {"open", "expired"}]_credentialVars

(* Whatever is resent, asked for and redeemed at once, no two invitations    *)
(* are open; and none is once its holder has redeemed one, unless requests   *)
(* overlapped when it was sent: a redemption that has swept does not see an *)
(* invitation that commits before it does.                                  *)
InvitationsAreSingle ==
  \A l \in Links :
    link[l].state = "open" /\ link[l].kind = "invitation" =>
      /\ link[l].alone => ~redeemed
      /\ \A m \in Links \ {l} : link[m].state = "open" => link[m].kind # "invitation"

(* No session and no link outlives the password or the address it was made  *)
(* for, and the newest link is the only one, unless the request that made   *)
(* it overlapped another that replaces passwords or links.  An address      *)
(* changed by an administrator is the exception: updateAccount leaves the   *)
(* links of the old one alone.                                              *)
KeysFollowAccount ==
  /\ \A s \in OpenSessions : session[s].alone => session[s].hash = hash
  /\ \A l \in Links :
       link[l].state = "open" /\ link[l].alone =>
         /\ link[l].hash = hash
         /\ link[l].to = address \/ corrected
         /\ \A m \in Links \ {l} : link[m].state = "open" => ~link[m].alone

=============================================================================
