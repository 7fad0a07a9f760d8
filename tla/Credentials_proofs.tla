-------------------------- MODULE Credentials_proofs --------------------------
(***************************************************************************)
(* The keys of an account, for any number of requests, sessions and links. *)
(*                                                                         *)
(* No request holds a lock from its reads to its commit, so what makes a   *)
(* commit right is knowledge that ages well.  A link that is claimed stays *)
(* unused, because whoever would clear it has locked it first.  A resend   *)
(* still knows every open invitation, because one sent meanwhile aborts it.*)
(* And a request that has swept knows every key that was made alone: such  *)
(* a key is made only while no request is under way that would miss it.    *)
(*                                                                         *)
(* The last section puts the keys beside members and budgets.              *)
(***************************************************************************)
EXTENDS MCAccounts, Members_proofs, Quotas_proofs, FiniteSetTheorems, TLAPS

-----------------------------------------------------------------------------
(* The scripts *)

StandsAt(c, s) == c.at # 0 /\ Script[c.kind][c.at] = s
PassedBy(c, s) == \E i \in 1..(c.at - 1) : Script[c.kind][i] = s

\* How long a script is and what its statements are.
LEMMA Scripts ==
  /\ Kinds = {"login", "change", "email", "set", "confirm", "ask", "resend"}
  /\ Script["login"] = <<"issue">>
  /\ Script["change"] = <<"write", "sweep", "take", "end", "commit", "issue">>
  /\ Script["email"] = <<"write", "sweep", "take", "commit">>
  /\ Script["set"] = <<"write", "sweep", "take", "end", "commit">>
  /\ Script["confirm"] = <<"claim", "write", "end", "sweep", "take", "commit">>
  /\ Script["ask"] = <<"sweep", "take", "commit">>
  /\ Script["resend"] = <<"take", "commit">>
  BY DEF Kinds, Script

\* Where each statement stands in the script of a kind, 7 for nowhere.
Place(k, s) ==
  CASE s = "claim"  -> (IF k = "confirm" THEN 1 ELSE 7)
    [] s = "write"  -> (CASE k \in {"change", "email", "set"} -> 1
                          [] k = "confirm" -> 2 [] OTHER -> 7)
    [] s = "sweep"  -> (CASE k \in {"change", "email", "set"} -> 2
                          [] k = "confirm" -> 4 [] k = "ask" -> 1 [] OTHER -> 7)
    [] s = "take"   -> (CASE k \in {"change", "email", "set"} -> 3
                          [] k = "confirm" -> 5 [] k = "ask" -> 2 [] k = "resend" -> 1
                          [] OTHER -> 7)
    [] s = "end"    -> (CASE k \in {"change", "set"} -> 4
                          [] k = "confirm" -> 3 [] OTHER -> 7)
    [] s = "commit" -> (CASE k \in {"change", "set"} -> 5 [] k = "email" -> 4
                          [] k = "confirm" -> 6 [] k = "ask" -> 3 [] k = "resend" -> 2
                          [] OTHER -> 7)
    [] OTHER        -> (CASE k = "login" -> 1 [] k = "change" -> 6 [] OTHER -> 7)

Lasts(k) ==
  CASE k = "login" -> 1 [] k = "email" -> 4 [] k = "ask" -> 3 [] k = "resend" -> 2
    [] k = "set" -> 5 [] OTHER -> 6

LEMMA Places ==
  ASSUME NEW k \in Kinds
  PROVE  /\ Len(Script[k]) = Lasts(k)
         /\ \A s \in {"claim", "write", "sweep", "take", "end", "commit", "issue"} :
              \A i \in 1..Len(Script[k]) : Script[k][i] = s <=> i = Place(k, s)
  <1>1. CASE k = "login"
    BY <1>1, Scripts DEF Place, Lasts
  <1>2. CASE k = "change"
    BY <1>2, Scripts DEF Place, Lasts
  <1>3. CASE k = "email"
    BY <1>3, Scripts DEF Place, Lasts
  <1>4. CASE k = "set"
    BY <1>4, Scripts DEF Place, Lasts
  <1>5. CASE k = "confirm"
    BY <1>5, Scripts DEF Place, Lasts
  <1>6. CASE k = "ask"
    BY <1>6, Scripts DEF Place, Lasts
  <1>7. CASE k = "resend"
    BY <1>7, Scripts DEF Place, Lasts
  <1> QED
    BY <1>1, <1>2, <1>3, <1>4, <1>5, <1>6, <1>7, Scripts

LEMMA Positions ==
  ASSUME NEW c \in Call, c.at <= Len(Script[c.kind])
  PROVE  \A s \in {"claim", "write", "sweep", "take", "end", "commit", "issue"} :
           /\ StandsAt(c, s) <=> c.at # 0 /\ c.at = Place(c.kind, s)
           /\ PassedBy(c, s) <=> c.at > Place(c.kind, s)
  <1> DEFINE All == {"claim", "write", "sweep", "take", "end", "commit", "issue"}
  <1>1. c.kind \in Kinds /\ c.at \in 0..6
    BY DEF Call
  <1>2. \A s \in All : \A i \in 1..Len(Script[c.kind]) :
           Script[c.kind][i] = s <=> i = Place(c.kind, s)
    BY <1>1, Places
  <1>3. Len(Script[c.kind]) \in 1..6 /\ \A s \in All : Place(c.kind, s) \in 1..7
    BY <1>1, Places, Scripts DEF Place, Lasts
  <1>4. \A s \in All : Place(c.kind, s) < c.at => Place(c.kind, s) \in 1..(c.at - 1)
    BY <1>1, <1>3
  <1> HIDE DEF All
  <1>5. ASSUME NEW s \in All
        PROVE  /\ StandsAt(c, s) <=> c.at # 0 /\ c.at = Place(c.kind, s)
               /\ PassedBy(c, s) <=> c.at > Place(c.kind, s)
    BY <1>1, <1>2, <1>3, <1>4 DEF StandsAt, PassedBy
  <1> QED
    BY <1>5 DEF All

-----------------------------------------------------------------------------
(* The inductive invariant *)

\* c has begun its transaction, or soon will, and has not committed.
Pending(c)  == c.at # 0 /\ c.at <= Place(c.kind, "commit") /\ c.kind # "login"
HasSwept(c) == Pending(c) /\ (c.kind = "resend" \/ c.at > Place(c.kind, "sweep"))
HasEnded(c) == Pending(c) /\ c.at > Place(c.kind, "end")
Claimed(c)  == Pending(c) /\ c.at > Place(c.kind, "claim")

\* The link rows c has locked.
Owns(c, l) == \/ Claimed(c) /\ l = c.link
              \/ Pending(c) /\ c.at > Place(c.kind, "take") /\ l \in c.links

OpenKeys(k) == {l \in Links : link[l].state = "open" /\ link[l].kind = k}
AloneLinks    == {l \in Links : link[l].state = "open" /\ link[l].alone}
AloneSessions == {s \in Sessions : session[s].state = "open" /\ session[s].alone}

\* Room was taken for every password that is still to be written.
Unwritten == {p \in Callers : Pending(call[p]) /\ call[p].kind \in Setters}
RoomLeft  == hash + Cardinality(Unwritten) <= MaxHash

ClaimsAreLinks == \A p \in Callers : call[p].kind # "confirm" => call[p].link = NoLink

\* Who is alone shares its time with logins at most.
AloneIsAlone ==
  \A p, q \in Callers :
    Busy(p) /\ call[p].alone /\ Busy(q) /\ q # p => call[q].kind = "login"

\* One request holds a link, and what it has claimed is unused.
LinksExclude ==
  /\ \A p, q \in Callers : \A l \in Links :
       Owns(call[p], l) /\ Owns(call[q], l) /\ Unused(l) => p = q
  /\ \A p \in Callers : Claimed(call[p]) => Unused(call[p].link)

\* What a request read that nothing overlapped is still so.
ReadsStand ==
  \A p \in Callers : Busy(p) /\ call[p].alone =>
    /\ call[p].kind \in {"login", "ask", "resend"} => call[p].hash = hash
    /\ call[p].kind = "change" /\ ~Pending(call[p]) => call[p].hash = hash
    /\ call[p].kind \in Minters => call[p].to = address \/ corrected

\* What was made without an overlap was found by whoever looked.
SweepsFind ==
  \A p \in Callers :
    /\ HasSwept(call[p]) => AloneLinks \subseteq call[p].links
    /\ HasEnded(call[p]) => AloneSessions \subseteq call[p].sessions

\* A resend knows the open invitations: one sent meanwhile aborts it.
ResendsKnow ==
  \A p \in Callers : Busy(p) /\ call[p].kind = "resend" =>
    call[p].hash = 0 /\ OpenKeys("invitation") \subseteq call[p].links

RedeemedHasPassword == redeemed => hash # 0

CredentialsInv ==
  /\ CredentialsTypeOK /\ RoomLeft /\ ClaimsAreLinks /\ AloneIsAlone /\ LinksExclude
  /\ ReadsStand /\ SweepsFind /\ ResendsKnow /\ RedeemedHasPassword
  /\ InvitationsAreSingle /\ KeysFollowAccount

-----------------------------------------------------------------------------
(* Requests *)

\* d is the request c, which another one may have overlapped since.
Kept(c, d) ==
  /\ d.kind = c.kind /\ d.at = c.at /\ d.hash = c.hash /\ d.to = c.to
  /\ d.link = c.link /\ d.links = c.links /\ d.sessions = c.sessions
  /\ d.alone => c.alone

\* d is the request c one statement later.
Moved(c, d) ==
  /\ d.kind = c.kind /\ d.at = c.at + 1 /\ d.hash = c.hash /\ d.to = c.to
  /\ d.link = c.link /\ d.links = c.links /\ d.sessions = c.sessions
  /\ d.alone = c.alone

Sound(c) == /\ c \in Call
            /\ c.at <= Len(Script[c.kind])
            /\ c.kind = "confirm" => c.link \in Links

LEMMA LastPlace == \A k \in Kinds : Lasts(k) \in 1..6
  BY DEF Lasts

LEMMA CallParts ==
  ASSUME NEW c \in Call
  PROVE  /\ c.kind \in Kinds /\ c.at \in 0..6 /\ c.hash \in 0..MaxHash /\ c.to \in Addresses
         /\ c.link \in Links \cup {NoLink} /\ c.links \subseteq Links
         /\ c.sessions \subseteq Sessions /\ c.alone \in BOOLEAN
  BY DEF Call

LEMMA NoCallIsSound ==
  /\ NoCall \in Call /\ NoCall.at = 0 /\ NoCall.kind = "login" /\ NoCall.link = NoLink
  /\ NoCall.links = {} /\ NoCall.sessions = {} /\ NoCall.alone = TRUE
  /\ NoCall.hash = 0 /\ NoCall.to \in Addresses
  /\ Sound(NoCall)
  <1>1. (CHOOSE a \in Addresses : TRUE) \in Addresses
    BY AddressAssumption
  <1>2. "login" \in Kinds
    BY Scripts
  <1>3. 0 \in 0..MaxHash /\ 0 \in 0..6
    BY HashAssumption
  <1>4. /\ NoCall \in Call /\ NoCall.at = 0 /\ NoCall.kind = "login" /\ NoCall.link = NoLink
        /\ NoCall.links = {} /\ NoCall.sessions = {} /\ NoCall.alone = TRUE
        /\ NoCall.hash = 0 /\ NoCall.to \in Addresses
    BY <1>1, <1>2, <1>3 DEF NoCall, Call
  <1>5. Len(Script["login"]) = 1
    BY Scripts
  <1> QED
    BY <1>4, <1>5 DEF Sound

LEMMA SoundCalls ==
  ASSUME CredentialsTypeOK, NEW p \in Callers
  PROVE  Sound(call[p]) /\ call \in [Callers -> Call]
  BY DEF CredentialsTypeOK, Sound

\* The next statement, or the end of the request.
LEMMA Advance ==
  ASSUME CredentialsTypeOK, NEW p \in Callers
  PROVE  /\ Sound(Advanced(p))
         /\ call[p].at < Lasts(call[p].kind) => Moved(call[p], Advanced(p))
         /\ call[p].at = Lasts(call[p].kind) => Advanced(p) = NoCall
  <1>1. Sound(call[p]) /\ Sound(NoCall)
    BY SoundCalls, NoCallIsSound
  <1>2. call[p].kind \in Kinds /\ call[p].at \in 0..6
    BY <1>1, CallParts DEF Sound
  <1>3. Len(Script[call[p].kind]) = Lasts(call[p].kind) /\ Lasts(call[p].kind) \in 1..6
    BY <1>2, Places, LastPlace
  <1>4. CASE call[p].at < Lasts(call[p].kind)
    <2>1. Advanced(p) = [call[p] EXCEPT !.at = @ + 1]
      BY <1>3, <1>4 DEF Advanced
    <2>2. call[p].at + 1 \in 0..6 /\ call[p].at + 1 <= Len(Script[call[p].kind])
      BY <1>2, <1>3, <1>4
    <2>3. Advanced(p) \in Call /\ Moved(call[p], Advanced(p))
      BY <1>1, <2>1, <2>2 DEF Sound, Call, Moved
    <2> QED
      BY <1>1, <1>2, <1>4, <2>2, <2>3 DEF Sound, Moved
  <1>5. CASE ~ (call[p].at < Lasts(call[p].kind))
    BY <1>1, <1>2, <1>3, <1>5 DEF Advanced
  <1> QED
    BY <1>4, <1>5

\* d is a request with the reads of r, about to run its first statement.
Begun(r, d) ==
  /\ d.kind = r.kind /\ d.at = 1 /\ d.hash = r.hash /\ d.to = r.to
  /\ d.link = r.link /\ d.links = r.links /\ d.sessions = r.sessions

LEMMA Beginning ==
  ASSUME NEW r, Sound(r), NEW b \in BOOLEAN
  PROVE  LET d == [r EXCEPT !.at = 1, !.alone = b] IN Sound(d) /\ Begun(r, d) /\ d.alone = b
  <1> DEFINE d == [r EXCEPT !.at = 1, !.alone = b]
  <1>1. r \in Call /\ r.kind \in Kinds /\ (r.kind = "confirm" => r.link \in Links)
    BY CallParts DEF Sound
  <1>2. Len(Script[r.kind]) \in 1..6
    BY <1>1, Places, LastPlace
  <1>3. 1 \in 0..6
    OBVIOUS
  <1>4. d \in Call
    <2>1. [r EXCEPT !.at = 1] \in Call
      BY <1>1, <1>3 DEF Call
    <2> QED
      BY <2>1 DEF Call
  <1>5. Begun(r, d)
    BY <1>1 DEF Call, Begun
  <1>7. d.alone = b
    <2>1. CASE b = TRUE
      BY <1>1, <2>1 DEF Call
    <2>2. CASE b = FALSE
      BY <1>1, <2>2 DEF Call
    <2>3. b = TRUE \/ b = FALSE
      OBVIOUS
    <2> QED
      BY <2>1, <2>2, <2>3, Zenon
  <1> HIDE DEF d
  <1>6. Sound(d)
    <2>1. d.at = 1 /\ d.kind = r.kind /\ d.link = r.link
      BY <1>5 DEF Begun
    <2>2. d.kind \in Kinds /\ 1 <= Len(Script[d.kind])
      BY <1>1, <2>1, Places, LastPlace
    <2> QED
      BY <1>1, <1>4, <2>1, <2>2 DEF Sound
  <1> QED
    BY <1>5, <1>6, <1>7 DEF d

LEMMA Starting ==
  ASSUME CredentialsTypeOK, NEW p \in Callers, NEW r, Sound(r), Starts(p, r)
  PROVE  /\ \A q \in Callers : Sound(call'[q])
         /\ call' \in [Callers -> Call]
         /\ Begun(r, call'[p]) /\ call'[p].alone = ~Overlaps(p)
         /\ \A q \in Callers \ {p} :
              /\ Kept(call[q], call'[q])
              /\ r.kind # "login" /\ Busy(q) => ~call'[q].alone
  <1>1. \A q \in Callers : Sound(call[q])
    BY SoundCalls
  <1>2. r \in Call /\ r.kind \in Kinds
    BY CallParts DEF Sound
  <1>4. Overlaps(p) \in BOOLEAN
    BY DEF Overlaps
  <1>5. LET d == [r EXCEPT !.at = 1, !.alone = ~Overlaps(p)]
        IN  Sound(d) /\ Begun(r, d) /\ d.alone = ~Overlaps(p)
    BY <1>4, Beginning
  <1>6. \A q \in Callers : /\ Sound([call[q] EXCEPT !.alone = FALSE])
                           /\ Kept(call[q], [call[q] EXCEPT !.alone = FALSE])
                           /\ ~[call[q] EXCEPT !.alone = FALSE].alone
                           /\ Kept(call[q], call[q])
    BY <1>1 DEF Sound, Call, Kept
  <1>7. call' = [q \in Callers |->
            IF q = p THEN [r EXCEPT !.at = 1, !.alone = ~Overlaps(p)]
            ELSE IF r.kind # "login" /\ Busy(q) THEN [call[q] EXCEPT !.alone = FALSE]
            ELSE call[q]]
    BY DEF Starts
  <1>8. \A q \in Callers : Sound(call'[q])
    BY <1>1, <1>5, <1>6, <1>7
  <1>9. call' \in [Callers -> Call]
    BY <1>7, <1>8 DEF Sound
  <1>10. \A q \in Callers \ {p} :
              /\ Kept(call[q], call'[q])
              /\ r.kind # "login" /\ Busy(q) => ~call'[q].alone
    BY <1>6, <1>7
  <1> QED
    BY <1>5, <1>7, <1>8, <1>9, <1>10

-----------------------------------------------------------------------------
(* Steps *)

Statements == {"claim", "write", "sweep", "take", "end", "commit", "issue"}

LEMMA Views ==
  ASSUME CredentialsTypeOK, NEW p \in Callers
  PROVE  /\ \A s \in Statements : /\ Stands(p, s) <=> Busy(p) /\ call[p].at = Place(call[p].kind, s)
                                  /\ Passed(p, s) <=> call[p].at > Place(call[p].kind, s)
         /\ \A l \in Links : HoldsLink(p, l) <=> Owns(call[p], l)
         /\ call[p].at \in 0..6 /\ call[p].at <= Lasts(call[p].kind)
         /\ call[p].kind \in {"login", "change", "email", "set", "confirm", "ask", "resend"}
  <1>1. call[p] \in Call /\ call[p].at <= Len(Script[call[p].kind]) /\ call[p].kind \in Kinds
    BY SoundCalls, CallParts DEF Sound
  <1>2. ASSUME NEW s \in Statements
        PROVE  /\ Stands(p, s) <=> Busy(p) /\ call[p].at = Place(call[p].kind, s)
               /\ Passed(p, s) <=> call[p].at > Place(call[p].kind, s)
    <2>1. /\ StandsAt(call[p], s) <=> call[p].at # 0 /\ call[p].at = Place(call[p].kind, s)
          /\ PassedBy(call[p], s) <=> call[p].at > Place(call[p].kind, s)
      BY <1>1, Positions DEF Statements
    <2>2. Stands(p, s) <=> StandsAt(call[p], s)
      BY DEF Stands, StandsAt, Busy
    <2>3. Passed(p, s) <=> PassedBy(call[p], s)
      BY DEF Passed, PassedBy
    <2> QED
      BY <2>1, <2>2, <2>3 DEF Busy
  <1>3. call[p].at \in 0..6 /\ call[p].at <= Lasts(call[p].kind)
    BY <1>1, CallParts, Places
  <1>4. call[p].kind \in {"login", "change", "email", "set", "confirm", "ask", "resend"}
    BY <1>1, Scripts
  <1>5. ASSUME NEW l \in Links
        PROVE  HoldsLink(p, l) <=> Owns(call[p], l)
    <2>1. /\ Passed(p, "claim") <=> call[p].at > Place(call[p].kind, "claim")
          /\ Passed(p, "take") <=> call[p].at > Place(call[p].kind, "take")
          /\ Passed(p, "commit") <=> call[p].at > Place(call[p].kind, "commit")
      BY <1>2 DEF Statements
    <2>2. InTransaction(p) <=> call[p].at # 0 /\ call[p].at <= Place(call[p].kind, "commit")
      BY <1>3, <1>4, <2>1 DEF InTransaction, Busy, Place
    <2>3. call[p].kind = "login" => /\ ~(call[p].at > Place(call[p].kind, "claim"))
                                    /\ ~(call[p].at > Place(call[p].kind, "take"))
      BY <1>3 DEF Place
    <2> QED
      BY <2>1, <2>2, <2>3 DEF HoldsLink, Owns, Claimed, Pending
  <1> QED
    BY <1>2, <1>3, <1>4, <1>5

\* Two statements have two places.
LEMMA OnePlace ==
  ASSUME CredentialsTypeOK, NEW p \in Callers, NEW s \in Statements, NEW t \in Statements, s # t
  PROVE  call[p].at = Place(call[p].kind, s) => call[p].at # Place(call[p].kind, t)
  <1>1. /\ call[p].at \in 0..6
        /\ call[p].kind \in {"login", "change", "email", "set", "confirm", "ask", "resend"}
    BY Views
  <1>2. \A k \in {"login", "change", "email", "set", "confirm", "ask", "resend"} :
          Place(k, s) = Place(k, t) => Place(k, s) = 7
    BY DEF Place, Statements
  <1> QED
    BY <1>1, <1>2

Rows == <<hash, redeemed, address, corrected, session, link>>

\* What a request becomes that runs a statement before its commit.
Runs(c, d) ==
  /\ d.kind = c.kind /\ d.at = c.at + 1 /\ d.hash = c.hash /\ d.to = c.to /\ d.link = c.link
  /\ d.alone = c.alone
  /\ IF c.at = Place(c.kind, "sweep") THEN d.links = {l \in Links : Unused(l)}
                                      ELSE d.links = c.links
  /\ IF c.at = Place(c.kind, "end") THEN d.sessions = OpenSessions
                                    ELSE d.sessions = c.sessions

Others(p) == \A q \in Callers \ {p} : call'[q] = call[q]

\* One request changes.
LEMMA OneMoves ==
  ASSUME CredentialsTypeOK, NEW p \in Callers, NEW d, Sound(d), call' = [call EXCEPT ![p] = d]
  PROVE  /\ \A q \in Callers : Sound(call'[q])
         /\ call' \in [Callers -> Call]
         /\ call'[p] = d
         /\ Others(p)
  <1>1. call \in [Callers -> Call] /\ \A q \in Callers : Sound(call[q])
    BY SoundCalls
  <1>2. call'[p] = d /\ Others(p)
    BY <1>1 DEF Others
  <1>3. \A q \in Callers : Sound(call'[q])
    BY <1>1, <1>2 DEF Others
  <1>4. call' \in [Callers -> Call]
    BY <1>1 DEF Sound
  <1> QED
    BY <1>2, <1>3, <1>4

\* A request that runs a statement, or is over.
Quiet(p) ==
  /\ UNCHANGED Rows
  /\ call' \in [Callers -> Call]
  /\ \A q \in Callers : Sound(call'[q])
  /\ Others(p)
  /\ \/ call'[p] = NoCall
     \/ /\ Busy(p) /\ call[p].kind # "login"
        /\ call[p].at < Place(call[p].kind, "commit")
        /\ Runs(call[p], call'[p])
        /\ call[p].at = Place(call[p].kind, "claim") =>
             /\ Unused(call[p].link)
             /\ \A q \in Callers \ {p} : ~Owns(call[q], call[p].link)
        /\ call[p].at = Place(call[p].kind, "take") =>
             \A l \in call[p].links : Unused(l) => \A q \in Callers \ {p} : ~Owns(call[q], l)

LEMMA AdvanceRuns ==
  ASSUME CredentialsTypeOK, NEW p \in Callers, Busy(p),
         NEW s \in {"claim", "write", "take"}, call[p].at = Place(call[p].kind, s)
  PROVE  /\ call[p].kind # "login"
         /\ call[p].at < Place(call[p].kind, "commit")
         /\ Runs(call[p], Advanced(p))
         /\ Sound(Advanced(p))
  <1>1. /\ call[p].at \in 0..6
        /\ call[p].at <= Lasts(call[p].kind)
        /\ call[p].kind \in {"login", "change", "email", "set", "confirm", "ask", "resend"}
    BY Views
  <1>2. /\ call[p].kind # "login"
        /\ call[p].at < Place(call[p].kind, "commit")
        /\ call[p].at < Lasts(call[p].kind)
        /\ call[p].at # Place(call[p].kind, "sweep")
        /\ call[p].at # Place(call[p].kind, "end")
    BY <1>1 DEF Place, Lasts
  <1>3. Moved(call[p], Advanced(p)) /\ Sound(Advanced(p))
    BY <1>2, Advance
  <1> QED
    BY <1>2, <1>3 DEF Moved, Runs

\* EndSessions and Sweep run too, with what they have found.
LEMMA FindsRun ==
  ASSUME CredentialsTypeOK, NEW p \in Callers, Busy(p)
  PROVE  /\ call[p].at = Place(call[p].kind, "end") =>
              LET d == [Advanced(p) EXCEPT !.sessions = OpenSessions] IN
                /\ Sound(d) /\ Runs(call[p], d)
                /\ call[p].kind # "login" /\ call[p].at < Place(call[p].kind, "commit")
         /\ call[p].at = Place(call[p].kind, "sweep") =>
              LET d == [Advanced(p) EXCEPT !.links = {l \in Links : Unused(l)}] IN
                /\ Sound(d) /\ Runs(call[p], d)
                /\ call[p].kind # "login" /\ call[p].at < Place(call[p].kind, "commit")
  <1>1. /\ call[p].at \in 0..6
        /\ call[p].at <= Lasts(call[p].kind)
        /\ call[p].kind \in {"login", "change", "email", "set", "confirm", "ask", "resend"}
    BY Views
  <1>2. ASSUME NEW s \in {"end", "sweep"}, call[p].at = Place(call[p].kind, s)
        PROVE  /\ Moved(call[p], Advanced(p)) /\ Advanced(p) \in Call /\ Sound(Advanced(p))
               /\ call[p].kind # "login" /\ call[p].at < Place(call[p].kind, "commit")
               /\ call[p].at = Place(call[p].kind, "end") =>
                    call[p].at # Place(call[p].kind, "sweep")
    <2>1. /\ call[p].kind # "login"
          /\ call[p].at < Place(call[p].kind, "commit")
          /\ call[p].at < Lasts(call[p].kind)
          /\ call[p].at = Place(call[p].kind, "end") => call[p].at # Place(call[p].kind, "sweep")
      BY <1>1, <1>2 DEF Place, Lasts
    <2> QED
      BY <2>1, Advance DEF Sound
  <1>3. CASE call[p].at = Place(call[p].kind, "end")
    <2> DEFINE d == [Advanced(p) EXCEPT !.sessions = OpenSessions]
    <2>1. /\ Moved(call[p], Advanced(p)) /\ Advanced(p) \in Call /\ Sound(Advanced(p))
          /\ call[p].kind # "login" /\ call[p].at < Place(call[p].kind, "commit")
          /\ call[p].at # Place(call[p].kind, "sweep")
      BY <1>2, <1>3
    <2>2. OpenSessions \subseteq Sessions
      BY DEF OpenSessions
    <2>3. /\ d \in Call
          /\ d.kind = Advanced(p).kind /\ d.at = Advanced(p).at /\ d.hash = Advanced(p).hash
          /\ d.to = Advanced(p).to /\ d.link = Advanced(p).link /\ d.alone = Advanced(p).alone
          /\ d.links = Advanced(p).links /\ d.sessions = OpenSessions
      BY <2>1, <2>2 DEF Call
    <2> HIDE DEF d
    <2>4. Sound(d)
      BY <2>1, <2>3 DEF Sound
    <2>5. Runs(call[p], d)
      BY <1>3, <2>1, <2>3 DEF Runs, Moved
    <2> QED
      BY <1>3, <2>1, <2>4, <2>5 DEF d
  <1>4. CASE call[p].at = Place(call[p].kind, "sweep")
    <2> DEFINE F == {l \in Links : Unused(l)}
               d == [Advanced(p) EXCEPT !.links = F]
    <2>1. /\ Moved(call[p], Advanced(p)) /\ Advanced(p) \in Call /\ Sound(Advanced(p))
          /\ call[p].kind # "login" /\ call[p].at < Place(call[p].kind, "commit")
          /\ call[p].at # Place(call[p].kind, "end")
      BY <1>2, <1>4
    <2>2. F \subseteq Links
      OBVIOUS
    <2> HIDE DEF F
    <2>3. /\ d \in Call
          /\ d.kind = Advanced(p).kind /\ d.at = Advanced(p).at /\ d.hash = Advanced(p).hash
          /\ d.to = Advanced(p).to /\ d.link = Advanced(p).link /\ d.alone = Advanced(p).alone
          /\ d.links = F /\ d.sessions = Advanced(p).sessions
      BY <2>1, <2>2 DEF Call
    <2> HIDE DEF d
    <2>4. Sound(d)
      BY <2>1, <2>3 DEF Sound
    <2>5. Runs(call[p], d)
      BY <1>4, <2>1, <2>3 DEF Runs, Moved, F
    <2> QED
      BY <1>4, <2>1, <2>4, <2>5 DEF d, F
  <1> QED
    BY <1>3, <1>4

LEMMA QuietSteps ==
  ASSUME CredentialsTypeOK, NEW p \in Callers,
         Claim(p) \/ Write(p) \/ EndSessions(p) \/ Sweep(p) \/ Take(p) \/ Fail(p)
  PROVE  Quiet(p)
  <1>1. /\ \A s \in Statements : Stands(p, s) <=> Busy(p) /\ call[p].at = Place(call[p].kind, s)
        /\ \A l \in Links, q \in Callers : HoldsLink(q, l) <=> Owns(call[q], l)
    BY Views
  <1>2. Sound(NoCall) /\ Sound(call[p])
    BY NoCallIsSound, SoundCalls
  <1>p. call[p].kind = "confirm" => call[p].link \in Links
    BY <1>2 DEF Sound
  <1>3. CASE Claim(p)
    <2>1. /\ Busy(p) /\ call[p].at = Place(call[p].kind, "claim") /\ LinkFree(p, call[p].link)
          /\ UNCHANGED Rows
      BY <1>1, <1>3 DEF Claim, Rows, Statements
    <2>2. call[p].link \in Links
      BY <1>1, <1>p, <2>1, Views DEF Place
    <2>3. CASE link[call[p].link].state = "open"
      <3>1. call' = [call EXCEPT ![p] = Advanced(p)] /\ Unused(call[p].link)
        BY <1>3, <2>3 DEF Claim, Unused
      <3>2. /\ Runs(call[p], Advanced(p)) /\ Sound(Advanced(p))
            /\ call[p].kind # "login" /\ call[p].at < Place(call[p].kind, "commit")
        BY <2>1, AdvanceRuns
      <3>3. \A q \in Callers \ {p} : ~Owns(call[q], call[p].link)
        BY <1>1, <2>1, <2>2 DEF LinkFree
      <3>4. call[p].at # Place(call[p].kind, "take")
        BY <2>1, Views DEF Place
      <3> QED
        BY <2>1, <3>1, <3>2, <3>3, <3>4, OneMoves DEF Quiet
    <2>4. CASE link[call[p].link].state # "open"
      BY <1>2, <1>3, <2>1, <2>4, OneMoves DEF Claim, Quiet
    <2> QED
      BY <2>3, <2>4
  <1>4. CASE Write(p)
    <2>1. /\ Busy(p) /\ call[p].at = Place(call[p].kind, "write") /\ UNCHANGED Rows
          /\ call' = [call EXCEPT ![p] = Advanced(p)]
      BY <1>1, <1>4 DEF Write, Rows, Statements
    <2>2. /\ Runs(call[p], Advanced(p)) /\ Sound(Advanced(p))
          /\ call[p].kind # "login" /\ call[p].at < Place(call[p].kind, "commit")
      BY <2>1, AdvanceRuns
    <2>3. call[p].at # Place(call[p].kind, "take") /\ call[p].at # Place(call[p].kind, "claim")
      BY <2>1, OnePlace DEF Statements
    <2> QED
      BY <2>1, <2>2, <2>3, OneMoves DEF Quiet
  <1>5. CASE EndSessions(p)
    <2> DEFINE d == [Advanced(p) EXCEPT !.sessions = OpenSessions]
    <2>1. /\ Busy(p) /\ call[p].at = Place(call[p].kind, "end") /\ UNCHANGED Rows
          /\ call' = [call EXCEPT ![p] = d]
      BY <1>1, <1>5 DEF EndSessions, EndOpenSessions, Rows, Statements
    <2>2. /\ Runs(call[p], d) /\ Sound(d)
          /\ call[p].kind # "login" /\ call[p].at < Place(call[p].kind, "commit")
      BY <2>1, FindsRun
    <2>3. call[p].at # Place(call[p].kind, "take") /\ call[p].at # Place(call[p].kind, "claim")
      BY <2>1, OnePlace DEF Statements
    <2> HIDE DEF d
    <2> QED
      BY <2>1, <2>2, <2>3, OneMoves DEF Quiet
  <1>6. CASE Sweep(p)
    <2> DEFINE d == [Advanced(p) EXCEPT !.links = {l \in Links : Unused(l)}]
    <2>1. /\ Busy(p) /\ call[p].at = Place(call[p].kind, "sweep") /\ UNCHANGED Rows
          /\ call' = [call EXCEPT ![p] = d]
      BY <1>1, <1>6 DEF Sweep, Swept, Rows, Statements
    <2>2. /\ Runs(call[p], d) /\ Sound(d)
          /\ call[p].kind # "login" /\ call[p].at < Place(call[p].kind, "commit")
      BY <2>1, FindsRun
    <2>3. call[p].at # Place(call[p].kind, "take") /\ call[p].at # Place(call[p].kind, "claim")
      BY <2>1, OnePlace DEF Statements
    <2> HIDE DEF d
    <2> QED
      BY <2>1, <2>2, <2>3, OneMoves DEF Quiet
  <1>7. CASE Take(p)
    <2>1. /\ Busy(p) /\ call[p].at = Place(call[p].kind, "take") /\ UNCHANGED Rows
          /\ \A l \in call[p].links : Unused(l) => LinkFree(p, l)
          /\ \/ call' = [call EXCEPT ![p] = Advanced(p)]
             \/ call' = [call EXCEPT ![p] = NoCall]
      BY <1>1, <1>7 DEF Take, Rows, Statements
    <2>2. /\ Runs(call[p], Advanced(p)) /\ Sound(Advanced(p))
          /\ call[p].kind # "login" /\ call[p].at < Place(call[p].kind, "commit")
      BY <2>1, AdvanceRuns
    <2>3. \A l \in call[p].links : Unused(l) => \A q \in Callers \ {p} : ~Owns(call[q], l)
      <3>1. call[p].links \subseteq Links
        BY <1>2, CallParts DEF Sound
      <3> QED
        BY <1>1, <2>1, <3>1 DEF LinkFree
    <2>4. call[p].at # Place(call[p].kind, "claim")
      BY <2>1, OnePlace DEF Statements
    <2> QED
      BY <1>2, <2>1, <2>2, <2>3, <2>4, OneMoves DEF Quiet
  <1>8. CASE Fail(p)
    BY <1>2, <1>8, OneMoves DEF Fail, Quiet, Rows
  <1> QED
    BY <1>3, <1>4, <1>5, <1>6, <1>7, <1>8,
       Claim(p) \/ Write(p) \/ EndSessions(p) \/ Sweep(p) \/ Take(p) \/ Fail(p)

\* Begin, with the reads r.
Started(p, r) ==
  /\ UNCHANGED Rows
  /\ ~Busy(p) /\ Sound(r)
  /\ r.kind # "confirm" => r.link = NoLink
  /\ r.kind \in {"login", "ask", "resend"} => r.hash = hash
  /\ r.kind \in Minters => r.to = address
  /\ r.kind = "resend" => hash = 0 /\ r.links = {l \in Links : Unused(l)}
  /\ r.kind \in Setters => RoomToSet
  /\ Starts(p, r)

LEMMA Begins ==
  ASSUME CredentialsTypeOK, NEW p \in Callers, Begin(p)
  PROVE  \E r : Started(p, r)
  <1> DEFINE L == {l \in Links : Unused(l)}
             Fits(r) == /\ Sound(r)
                        /\ r.kind # "confirm" => r.link = NoLink
                        /\ r.kind \in {"login", "ask", "resend"} => r.hash = hash
                        /\ r.kind \in Minters => r.to = address
                        /\ r.kind = "resend" => hash = 0 /\ r.links = L
                        /\ r.kind \in Setters => RoomToSet
  <1>1. ~Busy(p) /\ UNCHANGED Rows
    BY DEF Begin, Rows
  <1>2. hash \in 0..MaxHash /\ address \in Addresses /\ L \subseteq Links
    BY DEF CredentialsTypeOK
  <1>3. \A r \in Call : r.at = 0 => r.at <= Len(Script[r.kind])
    <2>1. \A k \in Kinds : 0 <= Len(Script[k])
      BY Places, LastPlace
    <2> QED
      BY <2>1, CallParts
  <1>4. /\ {"login", "change", "email", "set", "confirm", "ask", "resend"} = Kinds
        /\ Setters = {"change", "set", "confirm"} /\ Minters = {"ask", "resend"}
    BY Scripts DEF Setters, Minters
  <1>5. NoCall \in Call /\ NoCall.at = 0 /\ NoCall.link = NoLink
    BY NoCallIsSound
  <1> HIDE DEF L
  <1>6. CASE BeginLogin(p)
    <2> DEFINE r == [NoCall EXCEPT !.kind = "login", !.hash = hash]
    <2>1. r \in Call /\ r.at = 0 /\ r.kind = "login" /\ r.hash = hash /\ r.link = NoLink
      BY <1>2, <1>4, <1>5 DEF Call
    <2>2. Starts(p, r)
      BY <1>6 DEF BeginLogin
    <2> HIDE DEF r
    <2>3. Fits(r)
      BY <1>3, <1>4, <2>1 DEF Sound
    <2> QED
      BY <1>1, <2>2, <2>3 DEF Started, L
  <1>7. CASE BeginChange(p)
    <2> DEFINE r == [NoCall EXCEPT !.kind = "change"]
    <2>1. r \in Call /\ r.at = 0 /\ r.kind = "change" /\ r.link = NoLink
      BY <1>4, <1>5 DEF Call
    <2>2. Starts(p, r) /\ RoomToSet
      BY <1>7 DEF BeginChange
    <2> HIDE DEF r
    <2>3. Fits(r)
      BY <1>3, <1>4, <2>1, <2>2 DEF Sound
    <2> QED
      BY <1>1, <2>2, <2>3 DEF Started, L
  <1>8. CASE BeginSet(p)
    <2> DEFINE r == [NoCall EXCEPT !.kind = "set"]
    <2>1. r \in Call /\ r.at = 0 /\ r.kind = "set" /\ r.link = NoLink
      BY <1>4, <1>5 DEF Call
    <2>2. Starts(p, r) /\ RoomToSet
      BY <1>8 DEF BeginSet
    <2> HIDE DEF r
    <2>3. Fits(r)
      BY <1>3, <1>4, <2>1, <2>2 DEF Sound
    <2> QED
      BY <1>1, <2>2, <2>3 DEF Started, L
  <1>9. CASE BeginAsk(p)
    <2> DEFINE r == [NoCall EXCEPT !.kind = "ask", !.hash = hash, !.to = address]
    <2>1. /\ r \in Call /\ r.at = 0 /\ r.kind = "ask" /\ r.link = NoLink
          /\ r.hash = hash /\ r.to = address
      BY <1>2, <1>4, <1>5 DEF Call
    <2>2. Starts(p, r)
      BY <1>9 DEF BeginAsk
    <2> HIDE DEF r
    <2>3. Fits(r)
      BY <1>3, <1>4, <2>1 DEF Sound
    <2> QED
      BY <1>1, <2>2, <2>3 DEF Started, L
  <1>10. CASE BeginResend(p)
    <2> DEFINE r == [NoCall EXCEPT !.kind = "resend", !.hash = hash, !.to = address, !.links = L]
    <2>1. /\ r \in Call /\ r.at = 0 /\ r.kind = "resend" /\ r.link = NoLink
          /\ r.hash = hash /\ r.to = address /\ r.links = L
      BY <1>2, <1>4, <1>5 DEF Call
    <2>2. Starts(p, r) /\ hash = 0
      BY <1>10 DEF BeginResend, L
    <2> HIDE DEF r
    <2>3. Fits(r)
      BY <1>3, <1>4, <2>1, <2>2 DEF Sound
    <2> QED
      BY <1>1, <2>2, <2>3 DEF Started, L
  <1>11. ASSUME NEW a \in Addresses, BeginEmail(p, a)
         PROVE  \E r : Started(p, r)
    <2> DEFINE r == [NoCall EXCEPT !.kind = "email", !.to = a]
    <2>1. r \in Call /\ r.at = 0 /\ r.kind = "email" /\ r.link = NoLink
      BY <1>4, <1>5 DEF Call
    <2>2. Starts(p, r)
      BY <1>11 DEF BeginEmail
    <2> HIDE DEF r
    <2>3. Fits(r)
      BY <1>3, <1>4, <2>1 DEF Sound
    <2> QED
      BY <1>1, <2>2, <2>3 DEF Started, L
  <1>12. ASSUME NEW l \in Links, BeginConfirm(p, l)
         PROVE  \E r : Started(p, r)
    <2> DEFINE r == [NoCall EXCEPT !.kind = "confirm", !.link = l]
    <2>1. r \in Call /\ r.at = 0 /\ r.kind = "confirm" /\ r.link = l
      BY <1>4, <1>5 DEF Call
    <2>2. Starts(p, r) /\ RoomToSet
      BY <1>12 DEF BeginConfirm
    <2> HIDE DEF r
    <2>3. Fits(r)
      BY <1>3, <1>4, <2>1, <2>2 DEF Sound
    <2> QED
      BY <1>1, <2>2, <2>3 DEF Started, L
  <1> QED
    BY <1>6, <1>7, <1>8, <1>9, <1>10, <1>11, <1>12 DEF Begin

-----------------------------------------------------------------------------
(* Commits *)

LEMMA SomeUnwritten ==
  ASSUME CredentialsTypeOK, RoomLeft, NEW p \in Unwritten
  PROVE  hash + 1 <= MaxHash
  <1>1. IsFiniteSet(Unwritten) /\ Cardinality(Unwritten) \in Nat
    BY CallersAssumption, FS_Subset, FS_CardinalityType DEF Unwritten
  <1>2. Cardinality(Unwritten) # 0
    BY <1>1, FS_EmptySet
  <1> QED
    BY <1>1, <1>2, HashAssumption DEF RoomLeft, CredentialsTypeOK

\* What a commit does to the links: those it swept and the one it redeems go.
Cleared(p, l) == \/ l \in call[p].links
                 \/ call[p].kind = "confirm" /\ l = call[p].link

LEMMA ClearedLinks ==
  ASSUME CredentialsTypeOK, ClaimsAreLinks, NEW p \in Callers
  PROVE  AfterSweep(p) = [l \in Links |-> IF Cleared(p, l) THEN Unminted ELSE link[l]]
  <1>1. call[p].kind = "confirm" => call[p].link \in Links
    BY SoundCalls DEF Sound
  <1>2. \A l \in Links : l \in Devalued(p) <=> Cleared(p, l)
    BY <1>1, NoLinkAssumption DEF Devalued, Cleared, ClaimsAreLinks
  <1> QED
    BY <1>2 DEF AfterSweep

\* The commit of a request that sets a password.
LEMMA PasswordCommits ==
  ASSUME CredentialsTypeOK, RoomLeft, ClaimsAreLinks, NEW p \in Callers, CommitPassword(p)
  PROVE  /\ Busy(p) /\ call[p].at = Place(call[p].kind, "commit") /\ call[p].kind \in Setters
         /\ hash' = hash + 1 /\ hash' \in 0..MaxHash
         /\ redeemed' = (redeemed \/ call[p].kind = "confirm")
         /\ UNCHANGED <<address, corrected>>
         /\ link' = [l \in Links |-> IF Cleared(p, l) THEN Unminted ELSE link[l]]
         /\ session' = [s \in Sessions |-> IF s \in call[p].sessions
                                             THEN NoSession ELSE session[s]]
         /\ call' \in [Callers -> Call]
         /\ \A q \in Callers : Sound(call'[q])
         /\ Others(p)
         /\ \/ call'[p] = NoCall
            \/ /\ call[p].kind = "change" /\ call'[p].kind = "change"
               /\ call'[p].at = 6 /\ call'[p].hash = hash' /\ call'[p].link = NoLink
               /\ call'[p].alone = call[p].alone
  <1>1. /\ Busy(p) /\ call[p].at = Place(call[p].kind, "commit") /\ call[p].kind \in Setters
        /\ hash' = hash + 1
        /\ redeemed' = (redeemed \/ call[p].kind = "confirm")
        /\ UNCHANGED <<address, corrected>>
        /\ session' = [s \in Sessions |-> IF s \in call[p].sessions
                                            THEN NoSession ELSE session[s]]
    BY Views DEF CommitPassword, Statements
  <1>2. p \in Unwritten
    BY <1>1, Views DEF Unwritten, Pending, Busy, Setters
  <1>3. hash' \in 0..MaxHash
    BY <1>1, <1>2, SomeUnwritten DEF CredentialsTypeOK
  <1>4. link' = [l \in Links |-> IF Cleared(p, l) THEN Unminted ELSE link[l]]
    BY ClearedLinks DEF CommitPassword
  <1>5. CASE call[p].kind = "change"
    <2> DEFINE d == [Advanced(p) EXCEPT !.hash = hash + 1, !.links = {}, !.sessions = {}]
    <2>1. call[p].at = 5 /\ call[p].at < Lasts(call[p].kind)
      BY <1>1, <1>5, Views DEF Place, Lasts
    <2>2. Moved(call[p], Advanced(p)) /\ Sound(Advanced(p)) /\ Advanced(p) \in Call
      BY <2>1, Advance DEF Sound
    <2>3. hash + 1 \in 0..MaxHash
      BY <1>1, <1>3
    <2>4. /\ d \in Call /\ d.kind = Advanced(p).kind /\ d.at = Advanced(p).at
          /\ d.hash = hash + 1 /\ d.alone = Advanced(p).alone /\ d.link = Advanced(p).link
      BY <2>2, <2>3 DEF Call
    <2>5. call' = [call EXCEPT ![p] = d]
      BY <1>5 DEF CommitPassword
    <2> HIDE DEF d
    <2>6. Sound(d)
      BY <2>2, <2>4 DEF Sound
    <2>7. call[p].link = NoLink
      BY <1>5 DEF ClaimsAreLinks
    <2>8. /\ d.kind = "change" /\ d.at = 6 /\ d.hash = hash' /\ d.link = NoLink
          /\ d.alone = call[p].alone
      BY <1>1, <1>5, <2>1, <2>2, <2>4, <2>7 DEF Moved
    <2> QED
      BY <1>1, <1>3, <1>4, <1>5, <2>5, <2>6, <2>8, OneMoves
  <1>6. CASE call[p].kind # "change"
    <2>1. call' = [call EXCEPT ![p] = NoCall]
      BY <1>6 DEF CommitPassword
    <2> QED
      BY <1>1, <1>3, <1>4, <2>1, NoCallIsSound, OneMoves
  <1> QED
    BY <1>5, <1>6

LEMMA AddressCommits ==
  ASSUME CredentialsTypeOK, ClaimsAreLinks, NEW p \in Callers, CommitAddress(p)
  PROVE  /\ Busy(p) /\ call[p].at = Place(call[p].kind, "commit") /\ call[p].kind = "email"
         /\ address' = call[p].to /\ corrected' = FALSE
         /\ UNCHANGED <<hash, redeemed, session>>
         /\ link' = [l \in Links |-> IF Cleared(p, l) THEN Unminted ELSE link[l]]
         /\ call' \in [Callers -> Call]
         /\ \A q \in Callers : Sound(call'[q])
         /\ Others(p)
         /\ call'[p] = NoCall
  <1>1. /\ Busy(p) /\ call[p].at = Place(call[p].kind, "commit") /\ call[p].kind = "email"
        /\ address' = call[p].to /\ corrected' = FALSE
        /\ UNCHANGED <<hash, redeemed, session>>
        /\ link' = AfterSweep(p)
        /\ call' = [call EXCEPT ![p] = Advanced(p)]
    BY Views DEF CommitAddress, Statements
  <1>2. call[p].at = Lasts(call[p].kind)
    BY <1>1 DEF Place, Lasts
  <1>3. Advanced(p) = NoCall
    BY <1>2, Advance
  <1> QED
    BY <1>1, <1>3, ClearedLinks, OneMoves, NoCallIsSound

\* A link is sent: n takes a place no other request knows of.
Mints(p, k, n) ==
  /\ n \in Links /\ n \notin Known(p)
  /\ link' = [[l \in Links |-> IF Cleared(p, l) THEN Unminted ELSE link[l]]
                EXCEPT ![n] = Minted(p, k)]
  /\ UNCHANGED <<hash, redeemed, address, corrected, session>>

LEMMA NewLinkIsNew ==
  ASSUME NEW p \in Callers, NewLinks(p) # {}
  PROVE  NewLink(p) \in Links /\ NewLink(p) \notin Known(p)
  BY DEF NewLink, NewLinks

LEMMA LinkCommits ==
  ASSUME CredentialsTypeOK, ClaimsAreLinks, NEW p \in Callers, CommitLink(p)
  PROVE  /\ Busy(p) /\ call[p].at = Place(call[p].kind, "commit") /\ call[p].kind = "ask"
         /\ \E n \in Links : Mints(p, "reset", n)
         /\ call' \in [Callers -> Call]
         /\ \A q \in Callers : Sound(call'[q])
         /\ Others(p)
         /\ call'[p] = NoCall
  <1>1. /\ Busy(p) /\ call[p].at = Place(call[p].kind, "commit") /\ call[p].kind = "ask"
        /\ NewLinks(p) # {}
        /\ UNCHANGED <<hash, redeemed, address, corrected, session>>
        /\ link' = [AfterSweep(p) EXCEPT ![NewLink(p)] = Minted(p, "reset")]
        /\ call' = [call EXCEPT ![p] = Advanced(p)]
    BY Views DEF CommitLink, Statements
  <1>2. call[p].at = Lasts(call[p].kind)
    BY <1>1 DEF Place, Lasts
  <1>3. Advanced(p) = NoCall
    BY <1>2, Advance
  <1>4. Mints(p, "reset", NewLink(p)) /\ NewLink(p) \in Links
    BY <1>1, ClearedLinks, NewLinkIsNew DEF Mints
  <1> QED
    BY <1>1, <1>3, <1>4, OneMoves, NoCallIsSound

LEMMA InvitationCommits ==
  ASSUME CredentialsTypeOK, ClaimsAreLinks, NEW p \in Callers, CommitInvitation(p)
  PROVE  /\ Busy(p) /\ call[p].at = Place(call[p].kind, "commit") /\ call[p].kind = "resend"
         /\ call' \in [Callers -> Call]
         /\ \A q \in Callers : Sound(call'[q])
         /\ call'[p] = NoCall
         /\ \/ /\ UNCHANGED Rows /\ Others(p)
            \/ /\ hash = call[p].hash
               /\ \E n \in Links : Mints(p, "invitation", n)
               /\ \A q \in Callers : /\ call[q].kind = "resend" => call'[q] = NoCall
                                     /\ call'[q] = NoCall \/ call'[q] = call[q]
  <1>1. /\ Busy(p) /\ call[p].at = Place(call[p].kind, "commit") /\ call[p].kind = "resend"
        /\ NewLinks(p) # {}
        /\ UNCHANGED <<hash, redeemed, address, corrected, session>>
    BY Views DEF CommitInvitation, Statements
  <1>2. Sound(NoCall) /\ \A q \in Callers : Sound(call[q])
    BY NoCallIsSound, SoundCalls
  <1>3. CASE hash = call[p].hash /\ address = call[p].to
    <2>1. /\ link' = [AfterSweep(p) EXCEPT ![NewLink(p)] = Minted(p, "invitation")]
          /\ call' = [q \in Callers |-> IF q = p \/ call[q].kind = "resend"
                                          THEN NoCall ELSE call[q]]
      BY <1>1, <1>3 DEF CommitInvitation, Serializable
    <2>2. Mints(p, "invitation", NewLink(p)) /\ NewLink(p) \in Links
      BY <1>1, <2>1, ClearedLinks, NewLinkIsNew DEF Mints
    <2>3. /\ \A q \in Callers : Sound(call'[q])
          /\ call' \in [Callers -> Call]
      BY <1>2, <2>1 DEF Sound
    <2> QED
      BY <1>1, <1>3, <2>1, <2>2, <2>3
  <1>4. CASE ~(hash = call[p].hash /\ address = call[p].to)
    <2>1. call' = [call EXCEPT ![p] = NoCall] /\ UNCHANGED Rows
      BY <1>1, <1>4 DEF CommitInvitation, Serializable, Rows
    <2> QED
      BY <1>1, <1>2, <2>1, OneMoves
  <1> QED
    BY <1>3, <1>4

LEMMA Issues ==
  ASSUME CredentialsTypeOK, NEW p \in Callers, Issue(p)
  PROVE  /\ Busy(p) /\ ~Pending(call[p]) /\ call[p].kind \in {"login", "change"}
         /\ UNCHANGED <<hash, redeemed, address, corrected, link>>
         /\ \E n \in Sessions :
              session' = [session EXCEPT ![n] = [state |-> "open", hash |-> call[p].hash,
                                                 alone |-> call[p].alone]]
         /\ call' \in [Callers -> Call]
         /\ \A q \in Callers : Sound(call'[q])
         /\ Others(p)
         /\ call'[p] = NoCall
  <1>1. /\ Busy(p) /\ call[p].at = Place(call[p].kind, "issue")
        /\ UNCHANGED <<hash, redeemed, address, corrected, link>>
        /\ session' = [session EXCEPT ![NewSession] = [state |-> "open", hash |-> call[p].hash,
                                                       alone |-> call[p].alone]]
        /\ NewSessions # {}
        /\ call' = [call EXCEPT ![p] = Advanced(p)]
    BY Views DEF Issue, Statements
  <1>2. /\ call[p].at \in 0..6
        /\ call[p].at <= Lasts(call[p].kind)
        /\ call[p].kind \in {"login", "change", "email", "set", "confirm", "ask", "resend"}
    BY Views
  <1>3. /\ call[p].kind \in {"login", "change"} /\ ~Pending(call[p])
        /\ call[p].at = Lasts(call[p].kind)
    BY <1>1, <1>2 DEF Place, Lasts, Pending
  <1>4. Advanced(p) = NoCall
    BY <1>3, Advance
  <1>5. NewSession \in Sessions
    BY <1>1 DEF NewSession, NewSessions
  <1> QED
    BY <1>1, <1>3, <1>4, <1>5, OneMoves, NoCallIsSound

-----------------------------------------------------------------------------
(* One step, case by case *)

Single == \/ \E S \in Revocable : Revoke(S)
          \/ \E a \in Addresses : SetAddress(a)
          \/ \E l \in Links : Expire(l)

\* A step of the specification is one of these.
LEMMA OneStep ==
  ASSUME CredentialsTypeOK, [CredentialsNext]_credentialVars
  PROVE  \/ UNCHANGED credentialVars
         \/ Single
         \/ \E p \in Callers :
              \/ \E r : Started(p, r)
              \/ Quiet(p)
              \/ CommitPassword(p) \/ CommitAddress(p) \/ CommitLink(p)
              \/ CommitInvitation(p) \/ Issue(p)
  <1>1. \A p \in Callers : Step(p) => \/ Quiet(p)
                                     \/ CommitPassword(p) \/ CommitAddress(p) \/ CommitLink(p)
                                     \/ CommitInvitation(p) \/ Issue(p)
    BY QuietSteps DEF Step
  <1>2. \A p \in Callers : Begin(p) => \E r : Started(p, r)
    BY Begins
  <1> QED
    BY <1>1, <1>2 DEF CredentialsNext, Single

\* The rows that hold nothing.
LEMMA Blank ==
  /\ NoSession \in Session /\ NoSession.state = "none"
  /\ Unminted \in Link /\ Unminted.state = "none"
  /\ Expired \in Link /\ Expired.state = "expired"
  <1>1. NoCall.to \in Addresses /\ 0 \in 0..MaxHash
    BY NoCallIsSound, HashAssumption
  <1> QED
    BY <1>1 DEF NoSession, Session, Expired, Unminted, Link

\* What a single statement leaves alone.
LEMMA Singles ==
  ASSUME CredentialsTypeOK, Single
  PROVE  /\ UNCHANGED <<hash, redeemed, call>>
         /\ address' \in Addresses /\ corrected' \in BOOLEAN
         /\ corrected' \/ UNCHANGED <<address, corrected>>
         /\ session' \in [Sessions -> Session]
         /\ \A s \in Sessions : session'[s] = session[s] \/ session'[s] = NoSession
         /\ link' \in [Links -> Link]
         /\ \A l \in Links : \/ link'[l] = link[l]
                             \/ link'[l] = Expired /\ link[l].state = "open"
  <1>1. NoSession \in Session /\ Expired \in Link
    BY Blank
  <1>2. ASSUME NEW S \in Revocable, Revoke(S)
        PROVE  /\ UNCHANGED <<hash, redeemed, call, address, corrected, link>>
               /\ session' \in [Sessions -> Session]
               /\ \A s \in Sessions : session'[s] = session[s] \/ session'[s] = NoSession
    BY <1>1, <1>2 DEF Revoke, CredentialsTypeOK
  <1>3. ASSUME NEW a \in Addresses, SetAddress(a)
        PROVE  /\ UNCHANGED <<hash, redeemed, call, session, link>>
               /\ address' \in Addresses /\ corrected' = TRUE
    BY <1>3 DEF SetAddress
  <1>4. ASSUME NEW l \in Links, Expire(l)
        PROVE  /\ UNCHANGED <<hash, redeemed, call, address, corrected, session>>
               /\ link' \in [Links -> Link]
               /\ \A m \in Links : \/ link'[m] = link[m]
                                   \/ link'[m] = Expired /\ link[m].state = "open"
    BY <1>1, <1>4 DEF Expire, CredentialsTypeOK
  <1> QED
    BY <1>2, <1>3, <1>4 DEF Single, CredentialsTypeOK

\* A link carries what its request had read.
LEMMA MintedIs ==
  ASSUME CredentialsTypeOK, NEW p \in Callers, NEW k \in {"reset", "invitation"}
  PROVE  /\ Minted(p, k) \in Link
         /\ Minted(p, k).state = "open" /\ Minted(p, k).kind = k
         /\ Minted(p, k).hash = call[p].hash /\ Minted(p, k).to = call[p].to
         /\ Minted(p, k).alone = call[p].alone
  <1>1. call[p].hash \in 0..MaxHash /\ call[p].to \in Addresses /\ call[p].alone \in BOOLEAN
    BY SoundCalls, CallParts DEF Sound
  <1> QED
    BY <1>1 DEF Minted, Link

\* The links after one was sent.
LEMMA MintsLinks ==
  ASSUME CredentialsTypeOK, NEW p \in Callers, NEW k \in {"reset", "invitation"},
         NEW n \in Links, Mints(p, k, n)
  PROVE  /\ link' \in [Links -> Link]
         /\ link'[n] = Minted(p, k)
         /\ \A l \in Links \ {n} : link'[l] = IF Cleared(p, l) THEN Unminted ELSE link[l]
         /\ \A q \in Callers \ {p} : n \notin call[q].links /\ n # call[q].link
  <1>1. Minted(p, k) \in Link /\ Unminted \in Link /\ link \in [Links -> Link]
    BY MintedIs, Blank DEF CredentialsTypeOK
  <1>2. \A q \in Callers \ {p} : n \notin call[q].links /\ n # call[q].link
    BY DEF Mints, Known
  <1> QED
    BY <1>1, <1>2 DEF Mints

\* The type is kept: a password is written only where room was left for it.
LEMMA CredentialsTypes ==
  ASSUME CredentialsTypeOK, RoomLeft, ClaimsAreLinks, [CredentialsNext]_credentialVars
  PROVE  CredentialsTypeOK'
  <1>1. /\ hash \in 0..MaxHash /\ redeemed \in BOOLEAN /\ address \in Addresses
        /\ corrected \in BOOLEAN /\ session \in [Sessions -> Session] /\ link \in [Links -> Link]
    BY DEF CredentialsTypeOK
  <1>2. ASSUME call' \in [Callers -> Call], \A q \in Callers : Sound(call'[q]),
               hash' \in 0..MaxHash, redeemed' \in BOOLEAN, address' \in Addresses,
               corrected' \in BOOLEAN, session' \in [Sessions -> Session], link' \in [Links -> Link]
        PROVE  CredentialsTypeOK'
    BY <1>2 DEF CredentialsTypeOK, Sound
  <1>3. CASE UNCHANGED credentialVars
    BY <1>3 DEF credentialVars, CredentialsTypeOK
  <1>4. CASE Single
    BY <1>4, Singles DEF CredentialsTypeOK
  <1>5. ASSUME NEW p \in Callers, NEW r, Started(p, r)
        PROVE  CredentialsTypeOK'
    BY <1>1, <1>2, <1>5, Starting DEF Started, Rows
  <1>6. ASSUME NEW p \in Callers, Quiet(p)
        PROVE  CredentialsTypeOK'
    BY <1>1, <1>2, <1>6 DEF Quiet, Rows
  <1>7. ASSUME NEW p \in Callers, CommitPassword(p)
        PROVE  CredentialsTypeOK'
    BY <1>1, <1>2, <1>7, PasswordCommits, Blank
  <1>8. ASSUME NEW p \in Callers, CommitAddress(p)
        PROVE  CredentialsTypeOK'
    <2>1. call[p].to \in Addresses
      BY SoundCalls, CallParts DEF Sound
    <2> QED
      BY <1>1, <1>2, <1>8, <2>1, AddressCommits, Blank
  <1>9. ASSUME NEW p \in Callers, CommitLink(p) \/ CommitInvitation(p)
        PROVE  CredentialsTypeOK'
    <2>1. /\ call' \in [Callers -> Call]
          /\ \A q \in Callers : Sound(call'[q])
          /\ \/ UNCHANGED Rows
             \/ \E n \in Links : Mints(p, "invitation", n) \/ Mints(p, "reset", n)
      BY <1>9, LinkCommits, InvitationCommits
    <2>2. CASE UNCHANGED Rows
      BY <1>1, <1>2, <2>1, <2>2 DEF Rows
    <2>3. ASSUME NEW n \in Links, Mints(p, "invitation", n) \/ Mints(p, "reset", n)
          PROVE  CredentialsTypeOK'
      <3>1. link' \in [Links -> Link]
        BY <2>3, MintsLinks
      <3> QED
        BY <1>1, <1>2, <2>1, <2>3, <3>1 DEF Mints
    <2> QED
      BY <2>1, <2>2, <2>3
  <1>10. ASSUME NEW p \in Callers, Issue(p)
         PROVE  CredentialsTypeOK'
    <2>1. call[p].hash \in 0..MaxHash /\ call[p].alone \in BOOLEAN
      BY SoundCalls, CallParts DEF Sound
    <2>2. [state |-> "open", hash |-> call[p].hash, alone |-> call[p].alone] \in Session
      BY <2>1 DEF Session
    <2> HIDE DEF Session
    <2>3. session' \in [Sessions -> Session]
      BY <1>1, <1>10, <2>2, Issues
    <2> QED
      BY <1>1, <1>2, <1>10, <2>3, Issues
  <1> QED
    BY <1>3, <1>4, <1>5, <1>6, <1>7, <1>8, <1>9, <1>10, OneStep

-----------------------------------------------------------------------------
(* What the places of a request say, before and after a step *)

LEMMA KeptIs ==
  ASSUME NEW c, NEW d, Kept(c, d)
  PROVE  /\ Pending(d) <=> Pending(c)
         /\ HasSwept(d) <=> HasSwept(c)
         /\ HasEnded(d) <=> HasEnded(c)
         /\ Claimed(d) <=> Claimed(c)
         /\ \A l : Owns(d, l) <=> Owns(c, l)
  BY DEF Kept, Pending, HasSwept, HasEnded, Claimed, Owns

LEMMA NothingPending ==
  /\ ~Pending(NoCall) /\ ~HasSwept(NoCall) /\ ~HasEnded(NoCall) /\ ~Claimed(NoCall)
  /\ \A l : ~Owns(NoCall, l)
  BY NoCallIsSound DEF Pending, HasSwept, HasEnded, Claimed, Owns

LEMMA BegunIs ==
  ASSUME NEW r, NEW d, Begun(r, d), Sound(d)
  PROVE  /\ Pending(d) <=> r.kind # "login"
         /\ HasSwept(d) => r.kind = "resend"
         /\ ~HasEnded(d) /\ ~Claimed(d)
         /\ \A l : ~Owns(d, l)
  <1>1. d.kind = r.kind /\ d.at = 1
    BY DEF Begun
  <1>2. d.kind \in {"login", "change", "email", "set", "confirm", "ask", "resend"}
    BY CallParts, Scripts DEF Sound
  <1> QED
    BY <1>1, <1>2 DEF Pending, HasSwept, HasEnded, Claimed, Owns, Place

LEMMA RunsIs ==
  ASSUME CredentialsTypeOK, NEW p \in Callers, NEW d, Runs(call[p], d), Busy(p),
         call[p].kind # "login", call[p].at < Place(call[p].kind, "commit")
  PROVE  /\ Pending(call[p]) /\ Pending(d)
         /\ HasSwept(d) => \/ d.links = {l \in Links : Unused(l)}
                           \/ HasSwept(call[p]) /\ d.links = call[p].links
         /\ HasEnded(d) => \/ d.sessions = OpenSessions
                           \/ HasEnded(call[p]) /\ d.sessions = call[p].sessions
         /\ Claimed(d) => Claimed(call[p]) \/ call[p].at = Place(call[p].kind, "claim")
         /\ Claimed(d) => call[p].kind = "confirm"
         /\ d.kind = "resend" => d.links = call[p].links
         /\ \A l : Owns(d, l) =>
              \/ Owns(call[p], l)
              \/ call[p].at = Place(call[p].kind, "claim") /\ l = call[p].link
              \/ call[p].at = Place(call[p].kind, "take") /\ l \in call[p].links
  <1>1. /\ call[p].at \in 0..6 /\ call[p].at # 0
        /\ call[p].kind \in {"change", "email", "set", "confirm", "ask", "resend"}
    BY Views DEF Busy
  <1>2. d.kind = call[p].kind /\ d.at = call[p].at + 1 /\ d.link = call[p].link
    BY DEF Runs
  <1>3. \A k \in {"change", "email", "set", "confirm", "ask", "resend"} :
          /\ Place(k, "commit") \in 2..6
          /\ \A s \in Statements : Place(k, s) \in 1..7
          /\ k = "resend" => Place(k, "sweep") = 7
          /\ Place(k, "claim") # 7 => k = "confirm"
    <2> SUFFICES ASSUME NEW k \in {"change", "email", "set", "confirm", "ask", "resend"}
                 PROVE  /\ Place(k, "commit") \in 2..6
                        /\ \A s \in Statements : Place(k, s) \in 1..7
                        /\ k = "resend" => Place(k, "sweep") = 7
                        /\ Place(k, "claim") # 7 => k = "confirm"
      OBVIOUS
    <2>1. \A s \in Statements : Place(k, s) \in 1..7
      BY DEF Place, Statements
    <2>2. Place(k, "commit") \in 2..6
      BY DEF Place
    <2>4. k = "resend" => Place(k, "sweep") = 7
      BY DEF Place
    <2>5. Place(k, "claim") # 7 => k = "confirm"
      BY DEF Place
    <2> QED
      BY <2>1, <2>2, <2>4, <2>5
  <1>4. Pending(call[p]) /\ Pending(d)
    BY <1>1, <1>2, <1>3 DEF Pending, Statements
  <1>5. HasSwept(d) => \/ d.links = {l \in Links : Unused(l)}
                       \/ HasSwept(call[p]) /\ d.links = call[p].links
    BY <1>1, <1>2, <1>3, <1>4 DEF HasSwept, Runs, Statements
  <1>6. HasEnded(d) => \/ d.sessions = OpenSessions
                       \/ HasEnded(call[p]) /\ d.sessions = call[p].sessions
    BY <1>1, <1>2, <1>3, <1>4 DEF HasEnded, Runs, Statements
  <1>7. /\ Claimed(d) => Claimed(call[p]) \/ call[p].at = Place(call[p].kind, "claim")
        /\ Claimed(d) => call[p].kind = "confirm"
    BY <1>1, <1>2, <1>3, <1>4 DEF Claimed, Statements
  <1>8. d.kind = "resend" => d.links = call[p].links
    BY <1>1, <1>2, <1>3 DEF Runs, Statements
  <1>9. ASSUME NEW l, Owns(d, l)
        PROVE  \/ Owns(call[p], l)
               \/ call[p].at = Place(call[p].kind, "claim") /\ l = call[p].link
               \/ call[p].at = Place(call[p].kind, "take") /\ l \in call[p].links
    <2>1. CASE Claimed(d) /\ l = d.link
      BY <1>2, <1>7, <2>1 DEF Owns
    <2>2. CASE Pending(d) /\ d.at > Place(d.kind, "take") /\ l \in d.links
      <3>1. call[p].at >= Place(call[p].kind, "take")
        BY <1>1, <1>2, <1>3, <2>2 DEF Statements
      <3>2. call[p].at # Place(call[p].kind, "sweep")
        BY <1>1, <3>1 DEF Place
      <3>3. l \in call[p].links
        BY <2>2, <3>2 DEF Runs
      <3>4. CASE call[p].at = Place(call[p].kind, "take")
        BY <3>3, <3>4
      <3>5. CASE call[p].at # Place(call[p].kind, "take")
        <4>1. call[p].at > Place(call[p].kind, "take")
          BY <1>1, <1>3, <3>1, <3>5 DEF Statements
        <4> QED
          BY <1>4, <3>3, <4>1 DEF Owns
      <3> QED
        BY <3>4, <3>5
    <2> QED
      BY <1>9, <2>1, <2>2 DEF Owns
  <1> QED
    BY <1>4, <1>5, <1>6, <1>7, <1>8, <1>9

\* At its commit a request has done all the rest.
LEMMA CommitsIs ==
  ASSUME CredentialsTypeOK, NEW p \in Callers, Busy(p), call[p].kind # "login",
         call[p].at = Place(call[p].kind, "commit")
  PROVE  /\ Pending(call[p]) /\ HasSwept(call[p])
         /\ call[p].kind \in Setters => HasEnded(call[p])
         /\ call[p].kind = "confirm" => Claimed(call[p])
         /\ \A l : Cleared(p, l) <=> Owns(call[p], l)
         /\ call[p].kind \in {"change", "email", "set", "confirm", "ask", "resend"}
  <1>1. /\ call[p].at \in 0..6 /\ call[p].at # 0
        /\ call[p].kind \in {"change", "email", "set", "confirm", "ask", "resend"}
    BY Views DEF Busy
  <1>2. /\ Pending(call[p]) /\ HasSwept(call[p])
        /\ call[p].kind \in Setters => HasEnded(call[p])
        /\ call[p].kind = "confirm" <=> Claimed(call[p])
        /\ call[p].at > Place(call[p].kind, "take")
    BY <1>1 DEF Pending, HasSwept, HasEnded, Claimed, Setters, Place
  <1> QED
    BY <1>1, <1>2 DEF Cleared, Owns

-----------------------------------------------------------------------------
(* The parts of the invariant *)

\* What every step but a beginning and an invitation's commit does to the requests.
Follows(c, d) ==
  \/ d = c \/ d = NoCall
  \/ /\ Pending(c) /\ Pending(d)
     /\ d.kind = c.kind /\ d.link = c.link /\ d.alone = c.alone
  \/ /\ Pending(c) /\ ~Pending(d)
     /\ d.kind = "change" /\ d.link = NoLink /\ c.kind = "change" /\ d.alone = c.alone

LEMMA AllFollow ==
  ASSUME CredentialsTypeOK, RoomLeft, ClaimsAreLinks, [CredentialsNext]_credentialVars,
         \A p \in Callers : ~ \E r : Started(p, r)
  PROVE  \A q \in Callers : Follows(call[q], call'[q])
  <1>1. CASE UNCHANGED call
    BY <1>1 DEF Follows
  <1>2. ASSUME NEW p \in Callers, Quiet(p)
        PROVE  \A q \in Callers : Follows(call[q], call'[q])
    <2>1. Follows(call[p], call'[p])
      BY <1>2, RunsIs DEF Follows, Quiet, Runs
    <2> QED
      BY <1>2, <2>1 DEF Quiet, Others, Follows
  <1>3. ASSUME NEW p \in Callers, CommitPassword(p)
        PROVE  \A q \in Callers : Follows(call[q], call'[q])
    <2>1. /\ Others(p)
          /\ \/ call'[p] = NoCall
             \/ /\ call[p].kind = "change" /\ call'[p].kind = "change"
                /\ call'[p].at = 6 /\ call'[p].link = NoLink
                /\ call'[p].alone = call[p].alone
          /\ Busy(p) /\ call[p].at = Place(call[p].kind, "commit") /\ call[p].kind \in Setters
      BY <1>3, PasswordCommits
    <2>2. Pending(call[p])
      BY <2>1, CommitsIs DEF Setters
    <2>3. call'[p] # NoCall => ~Pending(call'[p])
      BY <2>1 DEF Pending, Place
    <2> QED
      BY <2>1, <2>2, <2>3 DEF Others, Follows
  <1>4. ASSUME NEW p \in Callers,
               CommitAddress(p) \/ CommitLink(p) \/ CommitInvitation(p) \/ Issue(p)
        PROVE  \A q \in Callers : Follows(call[q], call'[q])
    BY <1>4, AddressCommits, LinkCommits, InvitationCommits, Issues DEF Others, Follows
  <1> QED
    BY <1>1, <1>2, <1>3, <1>4, OneStep, Singles DEF credentialVars

LEMMA CountUnwritten ==
  /\ IsFiniteSet(Unwritten) /\ Cardinality(Unwritten) \in Nat
  /\ \A S \in SUBSET Unwritten : Cardinality(S) <= Cardinality(Unwritten)
  /\ \A p \in Unwritten : \A S \in SUBSET (Unwritten \ {p}) :
       Cardinality(S) + 1 <= Cardinality(Unwritten)
  <1>1. IsFiniteSet(Unwritten) /\ Cardinality(Unwritten) \in Nat
    BY CallersAssumption, FS_Subset, FS_CardinalityType DEF Unwritten
  <1>2. \A S \in SUBSET Unwritten : Cardinality(S) <= Cardinality(Unwritten)
    BY <1>1, FS_Subset
  <1>3. ASSUME NEW p \in Unwritten, NEW S \in SUBSET (Unwritten \ {p})
        PROVE  Cardinality(S) + 1 <= Cardinality(Unwritten)
    <2>1. /\ IsFiniteSet(Unwritten \ {p})
          /\ Cardinality(Unwritten \ {p}) = Cardinality(Unwritten) - 1
      BY <1>1, FS_RemoveElement
    <2>2. Cardinality(S) <= Cardinality(Unwritten \ {p}) /\ Cardinality(S) \in Nat
      BY <2>1, FS_Subset, FS_CardinalityType
    <2> QED
      BY <1>1, <2>1, <2>2
  <1> QED
    BY <1>1, <1>2, <1>3

LEMMA RoomStays ==
  ASSUME CredentialsTypeOK, RoomLeft, ClaimsAreLinks, [CredentialsNext]_credentialVars
  PROVE  RoomLeft'
  <1>0. hash \in 0..MaxHash /\ MaxHash \in Nat
    BY HashAssumption DEF CredentialsTypeOK
  <1>1. ASSUME NEW p \in Callers, NEW r, Started(p, r)
        PROVE  RoomLeft'
    <2>1. /\ \A q \in Callers \ {p} : Kept(call[q], call'[q])
          /\ Begun(r, call'[p]) /\ Sound(call'[p]) /\ Sound(r)
          /\ hash' = hash /\ ~Busy(p)
          /\ r.kind \in Setters => RoomToSet
      BY <1>1, Starting DEF Started, Rows
    <2>2. Unwritten' \subseteq Unwritten \cup {p} /\ p \notin Unwritten
      BY <2>1, KeptIs DEF Unwritten, Kept, Pending, Busy
    <2>3. CASE r.kind \in Setters
      <3> DEFINE T == {q \in Callers : Busy(q) /\ call[q].kind \in Setters}
      <3>1. hash + Cardinality(T) < MaxHash
        BY <2>1, <2>3 DEF RoomToSet, Users
      <3>2. IsFiniteSet(T) /\ Cardinality(T) \in Nat
        BY CallersAssumption, FS_Subset, FS_CardinalityType
      <3>3. p \notin T
        BY <2>1
      <3>4. Unwritten \subseteq T
        BY DEF Unwritten, Pending, Busy
      <3> HIDE DEF T
      <3>5. /\ IsFiniteSet(T \cup {p})
            /\ Cardinality(T \cup {p}) = Cardinality(T) + 1
        BY <3>2, <3>3, FS_AddElement
      <3>6. Unwritten' \subseteq T \cup {p}
        BY <2>2, <3>4
      <3>7. Cardinality(Unwritten') <= Cardinality(T) + 1 /\ Cardinality(Unwritten') \in Nat
        BY <3>5, <3>6, FS_Subset, FS_CardinalityType
      <3> QED
        BY <1>0, <2>1, <3>1, <3>2, <3>7 DEF RoomLeft
    <2>4. CASE r.kind \notin Setters
      <3>1. p \notin Unwritten'
        BY <2>1, <2>4 DEF Unwritten, Begun
      <3>2. Unwritten' \subseteq Unwritten
        BY <2>2, <3>1
      <3>3. Cardinality(Unwritten') <= Cardinality(Unwritten) /\ Cardinality(Unwritten') \in Nat
        BY <3>2, CountUnwritten, FS_Subset, FS_CardinalityType
      <3> QED
        BY <1>0, <2>1, <3>3, CountUnwritten DEF RoomLeft
    <2> QED
      BY <2>3, <2>4
  <1>2. CASE \A p \in Callers : ~ \E r : Started(p, r)
    <2>1. Unwritten' \subseteq Unwritten
      BY <1>2, AllFollow, NothingPending DEF Follows, Unwritten
    <2>2. IsFiniteSet(Unwritten') /\ Cardinality(Unwritten') \in Nat
      BY <2>1, CountUnwritten, FS_Subset, FS_CardinalityType
    <2>3. CASE hash' = hash
      BY <1>0, <2>1, <2>2, <2>3, CountUnwritten DEF RoomLeft
    <2>4. ASSUME NEW p \in Callers, CommitPassword(p)
          PROVE  RoomLeft'
      <3>1. /\ Busy(p) /\ call[p].at = Place(call[p].kind, "commit") /\ call[p].kind \in Setters
            /\ hash' = hash + 1
            /\ \/ call'[p] = NoCall
               \/ call'[p].kind = "change" /\ call'[p].at = 6
        BY <2>4, PasswordCommits
      <3>2. p \in Unwritten
        BY <3>1, CommitsIs DEF Unwritten, Setters
      <3>3. p \notin Unwritten'
        BY <3>1, NothingPending DEF Unwritten, Pending, Place
      <3>4. Cardinality(Unwritten') + 1 <= Cardinality(Unwritten)
        BY <2>1, <3>2, <3>3, CountUnwritten
      <3> QED
        BY <1>0, <2>2, <3>1, <3>4, CountUnwritten DEF RoomLeft
    <2>5. \/ hash' = hash
          \/ \E p \in Callers : CommitPassword(p)
      BY <1>2, OneStep, Singles, AddressCommits, LinkCommits, InvitationCommits, Issues
         DEF credentialVars, Quiet, Rows, Mints
    <2> QED
      BY <2>3, <2>4, <2>5
  <1> QED
    BY <1>1, <1>2

LEMMA ClaimsStay ==
  ASSUME CredentialsTypeOK, RoomLeft, ClaimsAreLinks, [CredentialsNext]_credentialVars
  PROVE  ClaimsAreLinks'
  <1>1. ASSUME NEW p \in Callers, NEW r, Started(p, r)
        PROVE  ClaimsAreLinks'
    <2>1. /\ \A q \in Callers \ {p} : Kept(call[q], call'[q])
          /\ Begun(r, call'[p])
          /\ r.kind # "confirm" => r.link = NoLink
      BY <1>1, Starting DEF Started
    <2> QED
      BY <2>1 DEF ClaimsAreLinks, Kept, Begun
  <1>2. CASE \A p \in Callers : ~ \E r : Started(p, r)
    BY <1>2, AllFollow, NoCallIsSound DEF Follows, ClaimsAreLinks
  <1> QED
    BY <1>1, <1>2

LEMMA AloneStays ==
  ASSUME CredentialsTypeOK, RoomLeft, ClaimsAreLinks, AloneIsAlone,
         [CredentialsNext]_credentialVars
  PROVE  AloneIsAlone'
  <1> SUFFICES ASSUME NEW p \in Callers, NEW q \in Callers \ {p},
                      Busy(p)', call'[p].alone, Busy(q)'
               PROVE  call'[q].kind = "login"
    BY DEF AloneIsAlone
  <1>1. ASSUME NEW s \in Callers, NEW r, Started(s, r)
        PROVE  call'[q].kind = "login"
    <2>1. /\ \A x \in Callers \ {s} : /\ Kept(call[x], call'[x])
                                      /\ r.kind # "login" /\ Busy(x) => ~call'[x].alone
          /\ Begun(r, call'[s]) /\ call'[s].alone = ~Overlaps(s)
      BY <1>1, Starting DEF Started
    <2>2. \A x \in Callers \ {s} : Busy(x)' => Busy(x)
      BY <2>1 DEF Kept, Busy
    <2>3. CASE p = s
      BY <2>1, <2>2, <2>3 DEF Overlaps, Kept
    <2>4. CASE q = s
      BY <2>1, <2>2, <2>4 DEF Begun
    <2>5. CASE p # s /\ q # s
      BY <2>1, <2>2, <2>5 DEF AloneIsAlone, Kept
    <2> QED
      BY <2>3, <2>4, <2>5
  <1>2. CASE \A s \in Callers : ~ \E r : Started(s, r)
    <2>1. \A x \in Callers : Busy(x)' =>
            /\ Busy(x) /\ call'[x].kind = call[x].kind /\ call'[x].alone = call[x].alone
      BY <1>2, AllFollow, NoCallIsSound DEF Follows, Busy, Pending
    <2> QED
      BY <2>1 DEF AloneIsAlone
  <1> QED
    BY <1>1, <1>2

\* A request that commits and is alone: no other one looks for what it makes.
LEMMA CommitsAlone ==
  ASSUME AloneIsAlone, NEW p \in Callers, Busy(p), call[p].alone
  PROVE  \A q \in Callers \ {p} : ~Pending(call[q]) /\ (Busy(q) => call[q].kind = "login")
  BY DEF AloneIsAlone, Pending, Busy

\* Requests that own a link, after the step.
LEMMA LinksStay ==
  ASSUME CredentialsTypeOK, RoomLeft, ClaimsAreLinks, LinksExclude,
         [CredentialsNext]_credentialVars
  PROVE  LinksExclude'
  <1>l. \A q \in Callers : Claimed(call[q]) => call[q].link \in Links /\ Owns(call[q], call[q].link)
    <2>1. ASSUME NEW q \in Callers, Claimed(call[q])
          PROVE  call[q].link \in Links
      <3>1. call[q].kind = "confirm"
        BY <2>1, Views DEF Claimed, Place
      <3> QED
        BY <3>1, SoundCalls DEF Sound
    <2> QED
      BY <2>1 DEF Owns
  \* Nobody owns more than before, and no link comes back.
  <1>1. ASSUME \A q \in Callers : /\ \A l \in Links : Owns(call'[q], l) => Owns(call[q], l)
                                  /\ Claimed(call'[q]) => Claimed(call[q])
                                                          /\ call'[q].link = call[q].link,
               \A l \in Links, q \in Callers : Owns(call'[q], l) => (Unused(l)' => Unused(l)),
               \A l \in Links : Unused(l) /\ ~Unused(l)'
                 => \A q \in Callers : Claimed(call'[q]) => call'[q].link # l
        PROVE  LinksExclude'
    <2>1. \A p, q \in Callers : \A l \in Links :
            Owns(call'[p], l) /\ Owns(call'[q], l) /\ Unused(l)' => p = q
      BY <1>1 DEF LinksExclude
    <2>2. \A q \in Callers : Claimed(call'[q]) => Unused(call[q].link)'
      BY <1>1, <1>l DEF LinksExclude, Unused
    <2> QED
      BY <2>1, <2>2 DEF LinksExclude, Unused
  <1>2. CASE UNCHANGED credentialVars
    BY <1>2, <1>1 DEF credentialVars, Unused
  <1>3. CASE Single
    <2>1. \A l \in Links : Unused(l)' <=> Unused(l)
      BY <1>3, Singles, Blank DEF Unused
    <2>2. call' = call
      BY <1>3, Singles
    <2> QED
      BY <1>1, <2>1, <2>2
  <1>4. ASSUME NEW p \in Callers, NEW r, Started(p, r)
        PROVE  LinksExclude'
    <2>1. /\ \A q \in Callers \ {p} : Kept(call[q], call'[q])
          /\ Begun(r, call'[p]) /\ Sound(call'[p]) /\ link' = link
      BY <1>4, Starting DEF Started, Rows
    <2>2. \A l : ~Owns(call'[p], l)
      BY <2>1, BegunIs
    <2>3. ~Claimed(call'[p])
      BY <2>1, BegunIs
    <2>4. \A q \in Callers \ {p} : /\ \A l \in Links : Owns(call'[q], l) => Owns(call[q], l)
                                   /\ Claimed(call'[q]) => Claimed(call[q])
                                                           /\ call'[q].link = call[q].link
      BY <2>1, KeptIs DEF Kept
    <2>5. \A l : Unused(l)' <=> Unused(l)
      BY <2>1 DEF Unused
    <2> QED
      BY <1>1, <2>2, <2>3, <2>4, <2>5
  <1>5. ASSUME NEW p \in Callers, Quiet(p)
        PROVE  LinksExclude'
    <2>1. /\ \A q \in Callers \ {p} : call'[q] = call[q]
          /\ \A l : Unused(l)' <=> Unused(l)
      BY <1>5 DEF Quiet, Others, Rows, Unused
    <2>2. CASE call'[p] = NoCall
      BY <1>1, <2>1, <2>2, NothingPending
    <2>3. CASE call'[p] # NoCall
      <3>1. /\ Busy(p) /\ call[p].kind # "login"
            /\ call[p].at < Place(call[p].kind, "commit")
            /\ Runs(call[p], call'[p])
            /\ call[p].at = Place(call[p].kind, "claim") =>
                 /\ Unused(call[p].link)
                 /\ \A q \in Callers \ {p} : ~Owns(call[q], call[p].link)
            /\ call[p].at = Place(call[p].kind, "take") =>
                 \A l \in call[p].links : Unused(l) => \A q \in Callers \ {p} : ~Owns(call[q], l)
        BY <1>5, <2>3 DEF Quiet
      <3>2. \A l \in Links : \A q \in Callers \ {p} :
              ~(Owns(call'[p], l) /\ Owns(call'[q], l) /\ Unused(l)')
        <4> SUFFICES ASSUME NEW l \in Links, NEW q \in Callers \ {p},
                            Owns(call'[p], l), Owns(call[q], l), Unused(l)
                     PROVE  FALSE
          BY <2>1
        <4>1. \/ Owns(call[p], l)
              \/ call[p].at = Place(call[p].kind, "claim") /\ l = call[p].link
              \/ call[p].at = Place(call[p].kind, "take") /\ l \in call[p].links
          BY <3>1, RunsIs
        <4> QED
          BY <3>1, <4>1 DEF LinksExclude
      <3>3. Claimed(call'[p]) => Unused(call[p].link)'
        <4>1. Claimed(call'[p]) => Claimed(call[p]) \/ call[p].at = Place(call[p].kind, "claim")
          BY <3>1, RunsIs
        <4>2. call'[p].link = call[p].link
          BY <3>1 DEF Runs
        <4> QED
          BY <2>1, <3>1, <4>1, <4>2 DEF LinksExclude
      <3>4. \A s, q \in Callers : \A l \in Links :
              Owns(call'[s], l) /\ Owns(call'[q], l) /\ Unused(l)' => s = q
        BY <2>1, <3>2 DEF LinksExclude
      <3>5. \A q \in Callers : Claimed(call'[q]) => Unused(call[q].link)'
        BY <2>1, <3>3 DEF LinksExclude
      <3> QED
        BY <3>4, <3>5 DEF LinksExclude, Unused
    <2> QED
      BY <2>2, <2>3
  \* A commit clears links that it owns, and ends.
  <1>6. ASSUME NEW p \in Callers, Busy(p), call[p].kind # "login",
               call[p].at = Place(call[p].kind, "commit"),
               \A q \in Callers \ {p} : call'[q] = NoCall \/ call'[q] = call[q],
               \A l : ~Owns(call'[p], l), ~Claimed(call'[p]),
               \A q \in Callers : \A l \in Links : Owns(call'[q], l) =>
                 \/ link'[l] = link[l]
                 \/ Cleared(p, l) /\ link'[l] = Unminted
        PROVE  LinksExclude'
    <2>1. \A q \in Callers : /\ \A l \in Links : Owns(call'[q], l) => Owns(call[q], l)
                             /\ Claimed(call'[q]) => Claimed(call[q])
                                                     /\ call'[q].link = call[q].link
      BY <1>6, NothingPending
    <2>2. \A l \in Links, q \in Callers : Owns(call'[q], l) => (Unused(l)' => Unused(l))
      BY <1>6, Blank DEF Unused
    <2>3. ASSUME NEW l \in Links, Unused(l), ~Unused(l)', NEW q \in Callers,
                 Claimed(call'[q]), call'[q].link = l
          PROVE  FALSE
      <3>1. q # p /\ call'[q] = call[q] /\ Claimed(call[q]) /\ Owns(call[q], l)
        BY <1>6, <1>l, <2>3, NothingPending
      <3>2. link'[l] # link[l]
        BY <2>3 DEF Unused
      <3>3. Cleared(p, l)
        BY <1>6, <3>1, <3>2
      <3>4. Owns(call[p], l)
        BY <1>6, <3>3, CommitsIs
      <3> QED
        BY <2>3, <3>1, <3>4 DEF LinksExclude
    <2> QED
      BY <1>1, <2>1, <2>2, <2>3
  <1>7. ASSUME NEW p \in Callers, CommitPassword(p)
        PROVE  LinksExclude'
    <2>1. /\ Busy(p) /\ call[p].at = Place(call[p].kind, "commit") /\ call[p].kind \in Setters
          /\ link' = [l \in Links |-> IF Cleared(p, l) THEN Unminted ELSE link[l]]
          /\ Others(p)
          /\ \/ call'[p] = NoCall
             \/ call'[p].kind = "change" /\ call'[p].at = 6
      BY <1>7, PasswordCommits
    <2>2. (\A l : ~Owns(call'[p], l)) /\ ~Claimed(call'[p])
      BY <2>1, NothingPending DEF Owns, Claimed, Pending, Place
    <2> QED
      BY <1>6, <2>1, <2>2 DEF Setters, Others
  <1>8. ASSUME NEW p \in Callers, CommitAddress(p)
        PROVE  LinksExclude'
    <2>1. /\ Busy(p) /\ call[p].at = Place(call[p].kind, "commit") /\ call[p].kind = "email"
          /\ link' = [l \in Links |-> IF Cleared(p, l) THEN Unminted ELSE link[l]]
          /\ Others(p) /\ call'[p] = NoCall
      BY <1>8, AddressCommits
    <2>2. (\A l : ~Owns(call'[p], l)) /\ ~Claimed(call'[p])
      BY <2>1, NothingPending
    <2> QED
      BY <1>6, <2>1, <2>2 DEF Others
  <1>9. ASSUME NEW p \in Callers, NEW k \in {"reset", "invitation"}, NEW n \in Links,
               Mints(p, k, n), Busy(p), call[p].at = Place(call[p].kind, "commit"),
               call[p].kind \in {"ask", "resend"}, call'[p] = NoCall,
               \A q \in Callers \ {p} : call'[q] = NoCall \/ call'[q] = call[q]
        PROVE  LinksExclude'
    <2>1. /\ \A l \in Links \ {n} : link'[l] = IF Cleared(p, l) THEN Unminted ELSE link[l]
          /\ \A q \in Callers \ {p} : n \notin call[q].links /\ n # call[q].link
      BY <1>9, MintsLinks
    <2>2. \A q \in Callers : \A l \in Links : Owns(call'[q], l) => l # n
      BY <1>9, <2>1, NothingPending DEF Owns
    <2> QED
      BY <1>6, <1>9, <2>1, <2>2, NothingPending
  <1>10. ASSUME NEW p \in Callers, CommitLink(p) \/ CommitInvitation(p)
         PROVE  LinksExclude'
    <2>1. CASE UNCHANGED Rows /\ Others(p) /\ call'[p] = NoCall
      <3>1. \A l : Unused(l)' <=> Unused(l)
        BY <2>1 DEF Rows, Unused
      <3> QED
        BY <1>1, <2>1, <3>1, NothingPending DEF Others
    <2>2. CASE ~(UNCHANGED Rows /\ Others(p) /\ call'[p] = NoCall)
      <3>1. /\ Busy(p) /\ call[p].at = Place(call[p].kind, "commit")
            /\ call[p].kind \in {"ask", "resend"} /\ call'[p] = NoCall
            /\ \E n \in Links : Mints(p, "reset", n) \/ Mints(p, "invitation", n)
            /\ \A q \in Callers \ {p} : call'[q] = NoCall \/ call'[q] = call[q]
        BY <1>10, <2>2, LinkCommits, InvitationCommits DEF Others
      <3> QED
        BY <1>9, <3>1
    <2> QED
      BY <2>1, <2>2
  <1>11. ASSUME NEW p \in Callers, Issue(p)
         PROVE  LinksExclude'
    <2>1. link' = link /\ Others(p) /\ call'[p] = NoCall
      BY <1>11, Issues
    <2>2. \A l : Unused(l)' <=> Unused(l)
      BY <2>1 DEF Unused
    <2> QED
      BY <1>1, <2>1, <2>2, NothingPending DEF Others
  <1> QED
    BY <1>2, <1>3, <1>4, <1>5, <1>7, <1>8, <1>10, <1>11, OneStep

\* How the rows that were made alone, and the open invitations, can change.
LEMMA RowsChange ==
  ASSUME CredentialsTypeOK, RoomLeft, ClaimsAreLinks, [CredentialsNext]_credentialVars
  PROVE  \/ /\ AloneLinks' \subseteq AloneLinks
            /\ OpenKeys("invitation")' \subseteq OpenKeys("invitation")
            /\ \A l \in AloneLinks' \cup OpenKeys("invitation")' : link'[l] = link[l]
            /\ AloneSessions' \subseteq AloneSessions
            /\ \A s \in AloneSessions' : session'[s] = session[s]
         \/ \E p \in Callers : CommitLink(p) \/ CommitInvitation(p) \/ Issue(p)
  <1> DEFINE Fewer ==
        /\ AloneLinks' \subseteq AloneLinks
        /\ OpenKeys("invitation")' \subseteq OpenKeys("invitation")
        /\ \A l \in AloneLinks' \cup OpenKeys("invitation")' : link'[l] = link[l]
        /\ AloneSessions' \subseteq AloneSessions
        /\ \A s \in AloneSessions' : session'[s] = session[s]
  <1>1. ASSUME \A l \in Links : link'[l] = link[l] \/ link'[l].state # "open",
               \A s \in Sessions : session'[s] = session[s] \/ session'[s].state # "open"
        PROVE  Fewer
    BY <1>1 DEF AloneLinks, AloneSessions, OpenKeys
  <1> HIDE DEF Fewer
  <1>2. ASSUME UNCHANGED Rows
        PROVE  Fewer
    BY <1>1, <1>2 DEF Rows
  <1>3. ASSUME Single
        PROVE  Fewer
    BY <1>1, <1>3, Singles, Blank
  <1>4. ASSUME NEW p \in Callers, CommitPassword(p)
        PROVE  Fewer
    BY <1>1, <1>4, PasswordCommits, Blank
  <1>5. ASSUME NEW p \in Callers, CommitAddress(p)
        PROVE  Fewer
    BY <1>1, <1>5, AddressCommits, Blank
  <1>6. UNCHANGED credentialVars => UNCHANGED Rows
    BY DEF credentialVars, Rows
  <1>7. \A p \in Callers : Quiet(p) \/ (\E r : Started(p, r)) => UNCHANGED Rows
    BY DEF Quiet, Started
  <1> QED
    BY <1>2, <1>3, <1>4, <1>5, <1>6, <1>7, OneStep DEF Fewer

\* What a commit that sends a link adds to the links that stay.
LEMMA MintsAdd ==
  ASSUME CredentialsTypeOK, AloneIsAlone, SweepsFind, NEW p \in Callers, Busy(p),
         call[p].kind \in {"ask", "resend"}, call[p].at = Place(call[p].kind, "commit"),
         NEW k \in {"reset", "invitation"}, NEW n \in Links, Mints(p, k, n)
  PROVE  /\ \A l \in Links \ {n} : link'[l] = link[l] \/ link'[l].state = "none"
         /\ \A l \in Links \ {n} : l \in call[p].links => link'[l].state = "none"
         /\ AloneLinks' \subseteq (IF call[p].alone THEN {n} ELSE {})
         /\ link'[n] = Minted(p, k)
  <1>1. /\ link'[n] = Minted(p, k)
        /\ \A l \in Links \ {n} : link'[l] = IF Cleared(p, l) THEN Unminted ELSE link[l]
    BY MintsLinks
  <1>2. HasSwept(call[p])
    BY CommitsIs
  <1>3. AloneLinks \subseteq call[p].links
    BY <1>2 DEF SweepsFind
  <1>4. \A l \in Links \ {n} : l \in call[p].links => link'[l].state = "none"
    BY <1>1, Blank DEF Cleared
  <1>5. \A l \in Links \ {n} : link'[l] = link[l] \/ link'[l].state = "none"
    BY <1>1, Blank
  <1>6. AloneLinks' \subseteq {n}
    BY <1>3, <1>4, <1>5 DEF AloneLinks
  <1>7. ~call[p].alone => n \notin AloneLinks'
    BY <1>1, MintedIs DEF AloneLinks
  <1> QED
    BY <1>1, <1>4, <1>5, <1>6, <1>7

LEMMA ReadsStay ==
  ASSUME CredentialsInv, [CredentialsNext]_credentialVars
  PROVE  ReadsStand'
  <1> USE DEF CredentialsInv
  <1> DEFINE Stays(q) ==
        Busy(q)' /\ call'[q].alone =>
          /\ call'[q].kind \in {"login", "ask", "resend"} => call'[q].hash = hash'
          /\ call'[q].kind = "change" /\ ~Pending(call'[q]) => call'[q].hash = hash'
          /\ call'[q].kind \in Minters => call'[q].to = address' \/ corrected'
  <1> SUFFICES ASSUME NEW q \in Callers PROVE Stays(q)
    BY DEF ReadsStand
  <1>1. ASSUME hash' = hash, corrected' \/ UNCHANGED <<address, corrected>>,
               call'[q] = NoCall \/ Kept(call[q], call'[q])
        PROVE  Stays(q)
    BY <1>1, NoCallIsSound, KeptIs DEF ReadsStand, Busy, Kept
  <1>2. call'[q] = call[q] => Kept(call[q], call'[q])
    BY DEF Kept
  <1>3. CASE UNCHANGED credentialVars
    BY <1>1, <1>2, <1>3 DEF credentialVars
  <1>4. CASE Single
    BY <1>1, <1>2, <1>4, Singles
  <1>5. ASSUME NEW p \in Callers, NEW r, Started(p, r)
        PROVE  Stays(q)
    <2>1. /\ \A x \in Callers \ {p} : Kept(call[x], call'[x])
          /\ Begun(r, call'[p]) /\ Sound(call'[p])
          /\ r.kind \in {"login", "ask", "resend"} => r.hash = hash
          /\ r.kind \in Minters => r.to = address
          /\ UNCHANGED Rows
      BY <1>5, Starting DEF Started
    <2>2. CASE q = p
      <3>1. call'[p].kind = "change" => Pending(call'[p])
        BY <2>1, BegunIs DEF Begun
      <3> QED
        BY <2>1, <2>2, <3>1 DEF Rows, Begun
    <2>3. CASE q # p
      BY <1>1, <2>1, <2>3 DEF Rows
    <2> QED
      BY <2>2, <2>3
  <1>6. ASSUME NEW p \in Callers, Quiet(p)
        PROVE  Stays(q)
    <2>1. UNCHANGED Rows /\ Others(p)
      BY <1>6 DEF Quiet
    <2>2. CASE q = p /\ call'[p] # NoCall
      <3>1. Runs(call[p], call'[p]) /\ Pending(call'[p]) /\ Pending(call[p])
        BY <1>6, <2>2, RunsIs DEF Quiet
      <3> QED
        BY <2>1, <2>2, <3>1 DEF ReadsStand, Runs, Rows, Pending, Busy
    <2>3. CASE ~(q = p /\ call'[p] # NoCall)
      BY <1>1, <1>2, <2>1, <2>3 DEF Rows, Others
    <2> QED
      BY <2>2, <2>3
  <1>7. ASSUME NEW p \in Callers, CommitPassword(p) \/ CommitAddress(p)
        PROVE  Stays(q)
    <2>1. /\ Busy(p) /\ call[p].kind # "login" /\ Others(p)
          /\ \/ call'[p] = NoCall
             \/ call'[p].kind = "change" /\ call'[p].hash = hash'
      BY <1>7, PasswordCommits, AddressCommits DEF Setters
    <2>2. CASE q = p
      BY <2>1, <2>2, NoCallIsSound DEF Busy, Minters
    <2>3. CASE q # p
      BY <2>1, <2>3 DEF Others, AloneIsAlone, Busy
    <2> QED
      BY <2>2, <2>3
  <1>8. ASSUME NEW p \in Callers, CommitLink(p) \/ CommitInvitation(p) \/ Issue(p)
        PROVE  Stays(q)
    <2>1. /\ UNCHANGED <<hash, address, corrected>>
          /\ call'[q] = NoCall \/ call'[q] = call[q]
      BY <1>8, LinkCommits, InvitationCommits, Issues DEF Others, Mints, Rows
    <2> QED
      BY <1>1, <1>2, <2>1
  <1> QED
    BY <1>3, <1>4, <1>5, <1>6, <1>7, <1>8, OneStep

LEMMA SweepsStay ==
  ASSUME CredentialsInv, [CredentialsNext]_credentialVars
  PROVE  SweepsFind'
  <1> USE DEF CredentialsInv
  <1> DEFINE Stays(q) ==
        /\ HasSwept(call'[q]) => AloneLinks' \subseteq call'[q].links
        /\ HasEnded(call'[q]) => AloneSessions' \subseteq call'[q].sessions
  <1> SUFFICES ASSUME NEW q \in Callers PROVE Stays(q)
    BY DEF SweepsFind
  <1>1. ASSUME AloneLinks' \subseteq AloneLinks, AloneSessions' \subseteq AloneSessions,
               call'[q] = NoCall \/ Kept(call[q], call'[q])
        PROVE  Stays(q)
    BY <1>1, NothingPending, KeptIs DEF SweepsFind, Kept
  <1>2. call'[q] = call[q] => Kept(call[q], call'[q])
    BY DEF Kept
  <1>3. UNCHANGED Rows => AloneLinks' = AloneLinks /\ AloneSessions' = AloneSessions
    BY DEF Rows, AloneLinks, AloneSessions
  <1>4. AloneLinks \subseteq {l \in Links : Unused(l)} /\ AloneSessions \subseteq OpenSessions
    BY DEF AloneLinks, AloneSessions, Unused, OpenSessions
  <1>5. CASE UNCHANGED credentialVars
    BY <1>1, <1>2, <1>3, <1>5 DEF credentialVars, Rows
  <1>6. CASE Single
    <2>1. AloneLinks' \subseteq AloneLinks /\ AloneSessions' \subseteq AloneSessions /\ call' = call
      BY <1>6, Singles, Blank DEF AloneLinks, AloneSessions
    <2> QED
      BY <1>1, <1>2, <2>1
  <1>7. ASSUME NEW p \in Callers, NEW r, Started(p, r)
        PROVE  Stays(q)
    <2>1. /\ \A x \in Callers \ {p} : Kept(call[x], call'[x])
          /\ Begun(r, call'[p]) /\ Sound(call'[p])
          /\ r.kind = "resend" => r.links = {l \in Links : Unused(l)}
          /\ UNCHANGED Rows
      BY <1>7, Starting DEF Started
    <2>2. CASE q = p
      <3>1. HasSwept(call'[p]) => call'[p].links = {l \in Links : Unused(l)}
        BY <2>1, BegunIs DEF Begun
      <3>2. ~HasEnded(call'[p])
        BY <2>1, BegunIs
      <3> QED
        BY <1>3, <1>4, <2>1, <2>2, <3>1, <3>2
    <2>3. CASE q # p
      BY <1>1, <1>3, <2>1, <2>3
    <2> QED
      BY <2>2, <2>3
  <1>8. ASSUME NEW p \in Callers, Quiet(p)
        PROVE  Stays(q)
    <2>1. UNCHANGED Rows /\ Others(p)
      BY <1>8 DEF Quiet
    <2>2. CASE q = p /\ call'[p] # NoCall
      <3>1. /\ HasSwept(call'[p]) => \/ call'[p].links = {l \in Links : Unused(l)}
                                     \/ HasSwept(call[p]) /\ call'[p].links = call[p].links
            /\ HasEnded(call'[p]) => \/ call'[p].sessions = OpenSessions
                                     \/ HasEnded(call[p]) /\ call'[p].sessions = call[p].sessions
        BY <1>8, <2>2, RunsIs DEF Quiet
      <3> QED
        BY <1>3, <1>4, <2>1, <2>2, <3>1 DEF SweepsFind
    <2>3. CASE ~(q = p /\ call'[p] # NoCall)
      BY <1>1, <1>2, <1>3, <2>1, <2>3 DEF Others
    <2> QED
      BY <2>2, <2>3
  <1>9. ASSUME NEW p \in Callers, CommitPassword(p) \/ CommitAddress(p)
        PROVE  Stays(q)
    <2>1. /\ Others(p)
          /\ \/ call'[p] = NoCall
             \/ call'[p].kind = "change" /\ call'[p].at = 6
          /\ \A l \in Links : link'[l] = link[l] \/ link'[l].state # "open"
          /\ \A s \in Sessions : session'[s] = session[s] \/ session'[s].state # "open"
      BY <1>9, PasswordCommits, AddressCommits, Blank
    <2>2. AloneLinks' \subseteq AloneLinks /\ AloneSessions' \subseteq AloneSessions
      BY <2>1 DEF AloneLinks, AloneSessions
    <2>3. ~HasSwept(call'[p]) /\ ~HasEnded(call'[p])
      BY <2>1, NothingPending DEF HasSwept, HasEnded, Pending, Place
    <2> QED
      BY <1>1, <1>2, <2>1, <2>2, <2>3 DEF Others
  <1>10. ASSUME NEW p \in Callers, CommitLink(p) \/ CommitInvitation(p)
         PROVE  Stays(q)
    <2>1. /\ Busy(p) /\ call[p].at = Place(call[p].kind, "commit")
          /\ call[p].kind \in {"ask", "resend"} /\ call'[p] = NoCall
          /\ call'[q] = NoCall \/ call'[q] = call[q]
          /\ \/ UNCHANGED Rows
             \/ \E n \in Links : Mints(p, "reset", n) \/ Mints(p, "invitation", n)
      BY <1>10, LinkCommits, InvitationCommits DEF Others
    <2>2. CASE UNCHANGED Rows
      BY <1>1, <1>2, <1>3, <2>1, <2>2
    <2>3. ASSUME NEW n \in Links, Mints(p, "reset", n) \/ Mints(p, "invitation", n)
          PROVE  Stays(q)
      <3>1. AloneLinks' \subseteq (IF call[p].alone THEN {n} ELSE {})
        BY <2>1, <2>3, MintsAdd
      <3>2. session' = session
        BY <2>3 DEF Mints
      <3>3. AloneSessions' = AloneSessions
        BY <3>2 DEF AloneSessions
      <3>4. CASE call[p].alone
        BY <2>1, <3>4, CommitsAlone, NothingPending DEF HasSwept, HasEnded
      <3>5. CASE ~call[p].alone
        BY <1>1, <1>2, <2>1, <3>1, <3>3, <3>5
      <3> QED
        BY <3>4, <3>5
    <2> QED
      BY <2>1, <2>2, <2>3
  <1>11. ASSUME NEW p \in Callers, Issue(p)
         PROVE  Stays(q)
    <2>1. /\ Busy(p) /\ Others(p) /\ call'[p] = NoCall /\ link' = link
          /\ \E n \in Sessions :
               session' = [session EXCEPT ![n] = [state |-> "open", hash |-> call[p].hash,
                                                  alone |-> call[p].alone]]
      BY <1>11, Issues
    <2>2. AloneLinks' = AloneLinks
      BY <2>1 DEF AloneLinks
    <2>3. CASE call[p].alone
      BY <2>1, <2>3, CommitsAlone, NothingPending DEF HasSwept, HasEnded, Others
    <2>4. CASE ~call[p].alone
      <3>1. PICK n \in Sessions :
               session' = [session EXCEPT ![n] = [state |-> "open", hash |-> call[p].hash,
                                                  alone |-> call[p].alone]]
        BY <2>1
      <3>2. /\ \A s \in Sessions \ {n} : session'[s] = session[s]
            /\ session'[n].alone = call[p].alone
        BY <3>1 DEF CredentialsTypeOK
      <3>3. AloneSessions' \subseteq AloneSessions
        BY <2>4, <3>2 DEF AloneSessions
      <3> QED
        BY <1>1, <1>2, <2>1, <2>2, <3>3 DEF Others
    <2> QED
      BY <2>3, <2>4
  <1> QED
    BY <1>5, <1>6, <1>7, <1>8, <1>9, <1>10, <1>11, OneStep

LEMMA ResendsStay ==
  ASSUME CredentialsInv, [CredentialsNext]_credentialVars
  PROVE  ResendsKnow'
  <1> USE DEF CredentialsInv
  <1> DEFINE Inv == OpenKeys("invitation")
             Stays(q) == Busy(q)' /\ call'[q].kind = "resend" =>
                           call'[q].hash = 0 /\ OpenKeys("invitation")' \subseteq call'[q].links
  <1> SUFFICES ASSUME NEW q \in Callers PROVE Stays(q)
    BY DEF ResendsKnow
  <1>1. ASSUME Inv' \subseteq Inv, call'[q] = NoCall \/ Kept(call[q], call'[q])
        PROVE  Stays(q)
    BY <1>1, NoCallIsSound DEF ResendsKnow, Busy, Kept
  <1>2. call'[q] = call[q] => Kept(call[q], call'[q])
    BY DEF Kept
  <1>3. UNCHANGED Rows => Inv' = Inv
    BY DEF Rows, OpenKeys
  <1>4. Inv \subseteq {l \in Links : Unused(l)}
    BY DEF OpenKeys, Unused
  <1>5. CASE UNCHANGED credentialVars
    BY <1>1, <1>2, <1>3, <1>5 DEF credentialVars, Rows
  <1>6. CASE Single
    <2>1. Inv' \subseteq Inv /\ call' = call
      BY <1>6, Singles, Blank DEF OpenKeys
    <2> QED
      BY <1>1, <1>2, <2>1
  <1>7. ASSUME NEW p \in Callers, NEW r, Started(p, r)
        PROVE  Stays(q)
    <2>1. /\ \A x \in Callers \ {p} : Kept(call[x], call'[x])
          /\ Begun(r, call'[p])
          /\ r.kind \in {"login", "ask", "resend"} => r.hash = hash
          /\ r.kind = "resend" => hash = 0 /\ r.links = {l \in Links : Unused(l)}
          /\ UNCHANGED Rows
      BY <1>7, Starting DEF Started
    <2>2. CASE q = p
      BY <1>3, <1>4, <2>1, <2>2 DEF Begun
    <2>3. CASE q # p
      BY <1>1, <1>3, <2>1, <2>3
    <2> QED
      BY <2>2, <2>3
  <1>8. ASSUME NEW p \in Callers, Quiet(p)
        PROVE  Stays(q)
    <2>1. UNCHANGED Rows /\ Others(p)
      BY <1>8 DEF Quiet
    <2>2. CASE q = p /\ call'[p] # NoCall
      <3>1. /\ call'[p].kind = "resend" => call'[p].links = call[p].links
            /\ Runs(call[p], call'[p]) /\ Busy(p)
        BY <1>8, <2>2, RunsIs DEF Quiet
      <3> QED
        BY <1>3, <2>1, <2>2, <3>1 DEF ResendsKnow, Runs
    <2>3. CASE ~(q = p /\ call'[p] # NoCall)
      BY <1>1, <1>2, <1>3, <2>1, <2>3 DEF Others
    <2> QED
      BY <2>2, <2>3
  <1>9. ASSUME NEW p \in Callers, CommitPassword(p) \/ CommitAddress(p)
        PROVE  Stays(q)
    <2>1. /\ Others(p)
          /\ call'[p] = NoCall \/ call'[p].kind = "change"
          /\ \A l \in Links : link'[l] = link[l] \/ link'[l].state # "open"
      BY <1>9, PasswordCommits, AddressCommits, Blank
    <2>2. Inv' \subseteq Inv
      BY <2>1 DEF OpenKeys
    <2> QED
      BY <1>1, <1>2, <2>1, <2>2 DEF Others
  <1>10. ASSUME NEW p \in Callers, CommitLink(p)
         PROVE  Stays(q)
    <2>1. /\ Busy(p) /\ call[p].at = Place(call[p].kind, "commit") /\ call[p].kind = "ask"
          /\ Others(p) /\ call'[p] = NoCall
          /\ \E n \in Links : Mints(p, "reset", n)
      BY <1>10, LinkCommits
    <2>2. PICK n \in Links : Mints(p, "reset", n)
      BY <2>1
    <2>3. /\ \A l \in Links \ {n} : link'[l] = link[l] \/ link'[l].state = "none"
          /\ link'[n].kind = "reset"
      BY <2>1, <2>2, MintsAdd, MintedIs
    <2>4. Inv' \subseteq Inv
      BY <2>3 DEF OpenKeys
    <2> QED
      BY <1>1, <1>2, <2>1, <2>4 DEF Others
  <1>11. ASSUME NEW p \in Callers, CommitInvitation(p)
         PROVE  Stays(q)
    <2>1. \/ UNCHANGED Rows /\ Others(p) /\ call'[p] = NoCall
          \/ /\ call[q].kind = "resend" => call'[q] = NoCall
             /\ call'[q] = NoCall \/ call'[q] = call[q]
      BY <1>11, InvitationCommits
    <2>2. CASE UNCHANGED Rows /\ Others(p) /\ call'[p] = NoCall
      BY <1>1, <1>2, <1>3, <2>2 DEF Others
    <2>3. CASE /\ call[q].kind = "resend" => call'[q] = NoCall
               /\ call'[q] = NoCall \/ call'[q] = call[q]
      BY <2>3, NoCallIsSound
    <2> QED
      BY <2>1, <2>2, <2>3
  <1>12. ASSUME NEW p \in Callers, Issue(p)
         PROVE  Stays(q)
    <2>1. link' = link /\ Others(p) /\ call'[p] = NoCall
      BY <1>12, Issues
    <2>2. Inv' = Inv
      BY <2>1 DEF OpenKeys
    <2> QED
      BY <1>1, <1>2, <2>1, <2>2 DEF Others
  <1> QED
    BY <1>5, <1>6, <1>7, <1>8, <1>9, <1>10, <1>11, <1>12, OneStep

\* Only a commit of a password changes whether one was redeemed.
LEMMA RedeemedChange ==
  ASSUME CredentialsInv, [CredentialsNext]_credentialVars
  PROVE  \/ hash' = hash /\ redeemed' = redeemed
         \/ \E p \in Callers : CommitPassword(p)
  BY OneStep, Singles, AddressCommits, LinkCommits, InvitationCommits, Issues
     DEF CredentialsInv, credentialVars, Quiet, Started, Rows, Mints

LEMMA PasswordStays ==
  ASSUME CredentialsInv, [CredentialsNext]_credentialVars
  PROVE  RedeemedHasPassword'
  <1>1. ASSUME NEW p \in Callers, CommitPassword(p)
        PROVE  hash' # 0
    <2>1. hash' = hash + 1 /\ hash \in 0..MaxHash
      BY <1>1, PasswordCommits DEF CredentialsInv, CredentialsTypeOK
    <2> QED
      BY <2>1, HashAssumption
  <1> QED
    BY <1>1, RedeemedChange DEF RedeemedHasPassword, CredentialsInv

\* The two parts of the properties, set by set.
LEMMA PropertiesAre ==
  /\ InvitationsAreSingle <=>
       /\ redeemed => AloneLinks \cap OpenKeys("invitation") = {}
       /\ \A l, m \in OpenKeys("invitation") : l = m
  /\ KeysFollowAccount <=>
       /\ \A s \in AloneSessions : session[s].hash = hash
       /\ \A l \in AloneLinks : link[l].hash = hash /\ (link[l].to = address \/ corrected)
       /\ \A l, m \in AloneLinks : l = m
  <1>1. InvitationsAreSingle <=>
          /\ redeemed => AloneLinks \cap OpenKeys("invitation") = {}
          /\ \A l, m \in OpenKeys("invitation") : l = m
    BY DEF InvitationsAreSingle, AloneLinks, OpenKeys
  <1>2. KeysFollowAccount <=>
          /\ \A s \in AloneSessions : session[s].hash = hash
          /\ \A l \in AloneLinks : link[l].hash = hash /\ (link[l].to = address \/ corrected)
          /\ \A l, m \in AloneLinks : l = m
    BY DEF KeysFollowAccount, AloneLinks, AloneSessions, OpenSessions
  <1> QED
    BY <1>1, <1>2

LEMMA InvitationsStay ==
  ASSUME CredentialsInv, [CredentialsNext]_credentialVars
  PROVE  InvitationsAreSingle'
  <1> USE DEF CredentialsInv
  <1> DEFINE Fine == /\ redeemed' => AloneLinks' \cap OpenKeys("invitation")' = {}
                     /\ \A l, m \in OpenKeys("invitation")' : l = m
  <1>0. /\ redeemed => AloneLinks \cap OpenKeys("invitation") = {}
        /\ \A l, m \in OpenKeys("invitation") : l = m
    BY PropertiesAre
  <1>1. ASSUME NEW p \in Callers, CommitPassword(p)
        PROVE  Fine
    <2>1. AloneLinks \subseteq call[p].links
      BY <1>1, PasswordCommits, CommitsIs DEF SweepsFind, Setters
    <2>2. \A l \in Links : IF Cleared(p, l) THEN link'[l].state = "none" ELSE link'[l] = link[l]
      BY <1>1, PasswordCommits, Blank
    <2>3. AloneLinks' = {}
      BY <2>1, <2>2 DEF AloneLinks, Cleared
    <2>4. OpenKeys("invitation")' \subseteq OpenKeys("invitation")
      BY <2>2 DEF OpenKeys
    <2> QED
      BY <1>0, <2>3, <2>4
  <1>2. ASSUME AloneLinks' \subseteq AloneLinks, redeemed' = redeemed,
               OpenKeys("invitation")' \subseteq OpenKeys("invitation")
        PROVE  Fine
    BY <1>0, <1>2
  <1>3. ASSUME NEW p \in Callers, CommitLink(p)
        PROVE  Fine
    <2>1. /\ Busy(p) /\ call[p].at = Place(call[p].kind, "commit") /\ call[p].kind = "ask"
          /\ \E n \in Links : Mints(p, "reset", n)
      BY <1>3, LinkCommits
    <2>2. PICK n \in Links : Mints(p, "reset", n)
      BY <2>1
    <2>3. /\ \A l \in Links \ {n} : link'[l] = link[l] \/ link'[l].state = "none"
          /\ link'[n].kind = "reset" /\ redeemed' = redeemed
          /\ AloneLinks' \subseteq {n}
      BY <2>1, <2>2, MintsAdd, MintedIs DEF Mints
    <2>4. OpenKeys("invitation")' \subseteq OpenKeys("invitation") \ {n}
      BY <2>3 DEF OpenKeys
    <2> QED
      BY <1>0, <2>3, <2>4
  <1>4. ASSUME NEW p \in Callers, CommitInvitation(p)
        PROVE  Fine
    <2>1. /\ Busy(p) /\ call[p].at = Place(call[p].kind, "commit") /\ call[p].kind = "resend"
          /\ \/ UNCHANGED Rows
             \/ hash = call[p].hash /\ \E n \in Links : Mints(p, "invitation", n)
      BY <1>4, InvitationCommits
    <2>2. CASE UNCHANGED Rows
      BY <1>2, <2>2 DEF Rows, AloneLinks, OpenKeys
    <2>3. ASSUME hash = call[p].hash, NEW n \in Links, Mints(p, "invitation", n)
          PROVE  Fine
      <3>1. call[p].hash = 0 /\ OpenKeys("invitation") \subseteq call[p].links
        BY <2>1 DEF ResendsKnow
      <3>2. ~redeemed'
        BY <2>3, <3>1 DEF RedeemedHasPassword, Mints
      <3>3. /\ \A l \in Links \ {n} : link'[l] = link[l] \/ link'[l].state = "none"
            /\ \A l \in Links \ {n} : l \in call[p].links => link'[l].state = "none"
        BY <2>1, <2>3, MintsAdd
      <3>4. OpenKeys("invitation")' \subseteq {n}
        BY <3>1, <3>3 DEF OpenKeys
      <3> QED
        BY <3>2, <3>4
    <2> QED
      BY <2>1, <2>2, <2>3
  <1>5. ASSUME NEW p \in Callers, Issue(p)
        PROVE  Fine
    BY <1>2, <1>5, Issues DEF AloneLinks, OpenKeys
  <1>6. \/ \E p \in Callers : \/ CommitPassword(p) \/ CommitLink(p) \/ CommitInvitation(p)
                              \/ Issue(p)
        \/ /\ AloneLinks' \subseteq AloneLinks /\ redeemed' = redeemed
           /\ OpenKeys("invitation")' \subseteq OpenKeys("invitation")
    BY RowsChange, RedeemedChange
  <1>7. Fine
    BY <1>1, <1>2, <1>3, <1>4, <1>5, <1>6
  <1>8. InvitationsAreSingle' <=> Fine
    <2>1. (InvitationsAreSingle <=>
             /\ redeemed => AloneLinks \cap OpenKeys("invitation") = {}
             /\ \A l, m \in OpenKeys("invitation") : l = m)'
      BY PropertiesAre, PTL
    <2> QED
      BY <2>1
  <1> QED
    BY <1>7, <1>8

LEMMA KeysStay ==
  ASSUME CredentialsInv, [CredentialsNext]_credentialVars
  PROVE  KeysFollowAccount'
  <1> USE DEF CredentialsInv
  <1> DEFINE SessionsFollow == \A s \in AloneSessions' : session'[s].hash = hash'
             LinksFollow == /\ \A l \in AloneLinks' : /\ link'[l].hash = hash'
                                                      /\ link'[l].to = address' \/ corrected'
                            /\ \A l, m \in AloneLinks' : l = m
  <1>0. /\ \A s \in AloneSessions : session[s].hash = hash
        /\ \A l \in AloneLinks : link[l].hash = hash /\ (link[l].to = address \/ corrected)
        /\ \A l, m \in AloneLinks : l = m
    BY PropertiesAre
  <1>1. ASSUME AloneSessions' \subseteq AloneSessions, hash' = hash,
               \A s \in AloneSessions' : session'[s] = session[s]
        PROVE  SessionsFollow
    BY <1>0, <1>1
  <1>2. ASSUME AloneLinks' \subseteq AloneLinks, \A l \in AloneLinks' : link'[l] = link[l],
               hash' = hash, corrected' \/ UNCHANGED <<address, corrected>>
        PROVE  LinksFollow
    BY <1>0, <1>2
  <1>3. ASSUME NEW p \in Callers, CommitPassword(p)
        PROVE  SessionsFollow /\ LinksFollow
    <2>1. AloneLinks \subseteq call[p].links /\ AloneSessions \subseteq call[p].sessions
      BY <1>3, PasswordCommits, CommitsIs DEF SweepsFind, Setters
    <2>2. /\ \A l \in Links : IF Cleared(p, l) THEN link'[l].state = "none" ELSE link'[l] = link[l]
          /\ \A s \in Sessions : IF s \in call[p].sessions THEN session'[s].state = "none"
                                                           ELSE session'[s] = session[s]
      BY <1>3, PasswordCommits, Blank
    <2>3. AloneLinks' = {} /\ AloneSessions' = {}
      BY <2>1, <2>2 DEF AloneLinks, AloneSessions, Cleared
    <2> QED
      BY <2>3
  <1>4. ASSUME NEW p \in Callers, CommitAddress(p)
        PROVE  SessionsFollow /\ LinksFollow
    <2>1. AloneLinks \subseteq call[p].links
      BY <1>4, AddressCommits, CommitsIs DEF SweepsFind
    <2>2. /\ \A l \in Links : IF Cleared(p, l) THEN link'[l].state = "none" ELSE link'[l] = link[l]
          /\ session' = session /\ hash' = hash
      BY <1>4, AddressCommits, Blank
    <2>3. AloneLinks' = {} /\ AloneSessions' = AloneSessions
      BY <2>1, <2>2 DEF AloneLinks, AloneSessions, Cleared
    <2> QED
      BY <1>1, <2>2, <2>3
  <1>5. ASSUME NEW p \in Callers, CommitLink(p) \/ CommitInvitation(p)
        PROVE  SessionsFollow /\ LinksFollow
    <2>1. /\ Busy(p) /\ call[p].at = Place(call[p].kind, "commit")
          /\ call[p].kind \in {"ask", "resend"}
          /\ \/ UNCHANGED Rows
             \/ \E n \in Links : Mints(p, "reset", n) \/ Mints(p, "invitation", n)
      BY <1>5, LinkCommits, InvitationCommits
    <2>2. CASE UNCHANGED Rows
      BY <1>1, <1>2, <2>2 DEF Rows, AloneLinks, AloneSessions
    <2>3. ASSUME NEW n \in Links, NEW k \in {"reset", "invitation"}, Mints(p, k, n)
          PROVE  SessionsFollow /\ LinksFollow
      <3>1. /\ AloneLinks' \subseteq (IF call[p].alone THEN {n} ELSE {})
            /\ link'[n].hash = call[p].hash /\ link'[n].to = call[p].to
        BY <2>1, <2>3, MintsAdd, MintedIs
      <3>2. UNCHANGED <<hash, address, corrected, session>>
        BY <2>3 DEF Mints
      <3>3. call[p].alone => call[p].hash = hash /\ (call[p].to = address \/ corrected)
        BY <2>1 DEF ReadsStand, Minters
      <3>4. LinksFollow
        BY <3>1, <3>2, <3>3
      <3>5. SessionsFollow
        BY <1>1, <3>2 DEF AloneSessions
      <3> QED
        BY <3>4, <3>5
    <2> QED
      BY <2>1, <2>2, <2>3
  <1>6. ASSUME NEW p \in Callers, Issue(p)
        PROVE  SessionsFollow /\ LinksFollow
    <2>1. /\ Busy(p) /\ ~Pending(call[p]) /\ call[p].kind \in {"login", "change"}
          /\ UNCHANGED <<hash, address, corrected, link>>
      BY <1>6, Issues
    <2>2. PICK n \in Sessions :
            session' = [session EXCEPT ![n] = [state |-> "open", hash |-> call[p].hash,
                                               alone |-> call[p].alone]]
      BY <1>6, Issues
    <2>3. /\ \A s \in Sessions \ {n} : session'[s] = session[s]
          /\ session'[n].alone = call[p].alone /\ session'[n].hash = call[p].hash
      BY <2>2 DEF CredentialsTypeOK
    <2>4. call[p].alone => call[p].hash = hash
      BY <2>1 DEF ReadsStand
    <2>5. SessionsFollow
      BY <1>0, <2>1, <2>3, <2>4 DEF AloneSessions
    <2>6. LinksFollow
      BY <1>2, <2>1 DEF AloneLinks
    <2> QED
      BY <2>5, <2>6
  <1>7. ASSUME \A p \in Callers : ~(\/ CommitPassword(p) \/ CommitAddress(p) \/ CommitLink(p)
                                   \/ CommitInvitation(p) \/ Issue(p))
        PROVE  SessionsFollow /\ LinksFollow
    <2>1. /\ AloneLinks' \subseteq AloneLinks /\ AloneSessions' \subseteq AloneSessions
          /\ \A l \in AloneLinks' : link'[l] = link[l]
          /\ \A s \in AloneSessions' : session'[s] = session[s]
      BY <1>7, RowsChange
    <2>2. hash' = hash /\ (corrected' \/ UNCHANGED <<address, corrected>>)
      BY <1>7, OneStep, Singles DEF credentialVars, Quiet, Started, Rows
    <2> QED
      BY <1>1, <1>2, <2>1, <2>2
  <1>8. SessionsFollow /\ LinksFollow
    BY <1>3, <1>4, <1>5, <1>6, <1>7
  <1>9. KeysFollowAccount' <=> SessionsFollow /\ LinksFollow
    <2>1. (KeysFollowAccount <=>
             /\ \A s \in AloneSessions : session[s].hash = hash
             /\ \A l \in AloneLinks : link[l].hash = hash /\ (link[l].to = address \/ corrected)
             /\ \A l, m \in AloneLinks : l = m)'
      BY PropertiesAre, PTL
    <2> QED
      BY <2>1
  <1> QED
    BY <1>8, <1>9

-----------------------------------------------------------------------------
(* The theorems *)

LEMMA CredentialsStart == CredentialsInit => CredentialsInv
  <1> SUFFICES ASSUME CredentialsInit PROVE CredentialsInv
    OBVIOUS
  <1> DEFINE first == CHOOSE l \in Links : TRUE
             opened == [state |-> "open", kind |-> "invitation", hash |-> 0, to |-> address,
                        alone |-> TRUE]
  <1>1. /\ hash \in {0, 1} /\ redeemed = (hash # 0) /\ address \in Addresses
        /\ corrected = FALSE /\ session = [s \in Sessions |-> NoSession]
        /\ link = [l \in Links |-> IF l # first \/ hash # 0 THEN Unminted ELSE opened]
        /\ call = [p \in Callers |-> NoCall]
    BY DEF CredentialsInit
  <1>2. opened \in Link /\ opened.state = "open" /\ opened.hash = 0 /\ opened.to = address
    BY <1>1, HashAssumption DEF Link
  <1>3. hash \in 0..MaxHash
    BY <1>1, HashAssumption
  <1> HIDE DEF first, opened
  <1>4. CredentialsTypeOK
    BY <1>1, <1>2, <1>3, Blank, NoCallIsSound DEF CredentialsTypeOK, Sound
  <1>5. \A p \in Callers : call[p] = NoCall /\ ~Busy(p)
    BY <1>1, NoCallIsSound DEF Busy
  <1>6. RoomLeft
    <2>1. Unwritten = {}
      BY <1>5, NothingPending DEF Unwritten
    <2> QED
      BY <1>1, <2>1, FS_EmptySet, HashAssumption DEF RoomLeft
  <1>7. /\ AloneSessions = {}
        /\ \A l \in Links : link[l].state = "open" => hash = 0 /\ l = first /\ link[l] = opened
    BY <1>1, Blank DEF AloneSessions
  <1>8. InvitationsAreSingle /\ KeysFollowAccount
    BY <1>1, <1>2, <1>7, PropertiesAre DEF AloneLinks, OpenKeys
  <1>9. /\ ClaimsAreLinks /\ AloneIsAlone /\ ReadsStand /\ ResendsKnow
    BY <1>5, NoCallIsSound DEF ClaimsAreLinks, AloneIsAlone, ReadsStand, ResendsKnow
  <1>10. LinksExclude /\ SweepsFind
    BY <1>5, NothingPending DEF LinksExclude, SweepsFind
  <1>11. RedeemedHasPassword
    BY <1>1 DEF RedeemedHasPassword
  <1> QED
    BY <1>4, <1>6, <1>8, <1>9, <1>10, <1>11 DEF CredentialsInv

LEMMA CredentialsStay == CredentialsInv /\ [CredentialsNext]_credentialVars => CredentialsInv'
  BY CredentialsTypes, RoomStays, ClaimsStay, AloneStays, LinksStay, ReadsStay, SweepsStay,
     ResendsStay, PasswordStays, InvitationsStay, KeysStay DEF CredentialsInv

\* The invariant that carries the four properties below.
THEOREM CredentialsInvariance == CredentialsSpec => []CredentialsInv
  BY CredentialsStart, CredentialsStay, PTL DEF CredentialsSpec

\* Every request stays inside its script, and no password is written beyond the
\* room that was left for it.
THEOREM CredentialsType == CredentialsSpec => []CredentialsTypeOK
  BY CredentialsInvariance, PTL DEF CredentialsInv

\* Whatever is resent, asked for and redeemed at once, no two invitations of an
\* account are open, and none made alone outlives its redemption.
THEOREM InvitationsSingle == CredentialsSpec => []InvitationsAreSingle
  BY CredentialsInvariance, PTL DEF CredentialsInv

\* No session and no link made alone outlives the password or the address it was
\* made for (but an address that an administrator corrected).
THEOREM KeysFollow == CredentialsSpec => []KeysFollowAccount
  BY CredentialsInvariance, PTL DEF CredentialsInv

\* The link that a request redeems is unused until its commit: it sets one password.
THEOREM LinksRedeemedOnce == CredentialsSpec => RedeemedOnce
  <1>1. CredentialsInv /\ [CredentialsNext]_credentialVars =>
          [\A p \in Callers :
             call[p].kind = "confirm" /\ hash' # hash /\ Stands(p, "commit") /\ ~Busy(p)'
               => link[call[p].link].state \in {"open", "expired"}]_credentialVars
    <2> SUFFICES ASSUME CredentialsInv, NEW p \in Callers, call[p].kind = "confirm",
                        Stands(p, "commit")
                 PROVE  link[call[p].link].state \in {"open", "expired"}
      OBVIOUS
    <2>1. Busy(p) /\ call[p].at = Place(call[p].kind, "commit")
      BY Views DEF CredentialsInv, Statements
    <2>2. Claimed(call[p])
      BY <2>1, CommitsIs DEF CredentialsInv
    <2> QED
      BY <2>2 DEF CredentialsInv, LinksExclude, Unused
  <1> QED
    BY <1>1, CredentialsInvariance, PTL DEF CredentialsSpec, RedeemedOnce

-----------------------------------------------------------------------------
(* All of an account.  MCAccounts follows one part at a time; whichever it  *)
(* is, the behaviour is one of each part.                                   *)
LEMMA AccountsAreEach == AccountsSpec => MembersSpec /\ CredentialsSpec /\ QuotasSpec
  <1>1. AccountsInit => MembersInit /\ CredentialsInit /\ QuotasInit
    BY DEF AccountsInit
  <1>2. [AccountsNext]_accountVars => /\ [MembersNext]_membersVars
                                      /\ [CredentialsNext]_credentialVars
                                      /\ [QuotasNext]_quotasVars
    BY DEF AccountsNext, accountVars
  <1> QED
    BY <1>1, <1>2, PTL DEF AccountsSpec, MembersSpec, CredentialsSpec, QuotasSpec

\* The part that moves is one of the three.
LEMMA AccountsPart == AccountsSpec => [](part \in {"members", "credentials", "quotas"})
  <1>1. AccountsInit => part \in {"members", "credentials", "quotas"}
    BY DEF AccountsInit
  <1>2. part \in {"members", "credentials", "quotas"} /\ [AccountsNext]_accountVars
          => (part \in {"members", "credentials", "quotas"})'
    BY DEF AccountsNext, accountVars
  <1> QED
    BY <1>1, <1>2, PTL DEF AccountsSpec

(* Members, keys and budgets keep their types, whichever part moves         *)
(* (tenant-scope.ts, auth.service.ts, users.service.ts).                    *)
THEOREM AccountsTypeCorrect == AccountsSpec => []AccountsTypeOK
  <1>1. part \in {"members", "credentials", "quotas"}
          /\ MembersTypeOK /\ CredentialsTypeOK /\ QuotasTypeOK => AccountsTypeOK
    <2> SUFFICES ASSUME part \in {"members", "credentials", "quotas"},
                        MembersTypeOK, CredentialsTypeOK, QuotasTypeOK
                 PROVE  AccountsTypeOK
      OBVIOUS
    <2>1. CASE part = "members"
      BY <2>1 DEF AccountsTypeOK
    <2>2. CASE part = "credentials"
      BY <2>2 DEF AccountsTypeOK
    <2>3. CASE part = "quotas"
      BY <2>3 DEF AccountsTypeOK
    <2> QED
      BY <2>1, <2>2, <2>3
  <1> QED
    BY <1>1, AccountsAreEach, AccountsPart, MembersTypeCorrect, CredentialsType,
       QuotasTypeCorrect, PTL

(* What the run checks of accounts holds of all three parts together: who   *)
(* remains, whose keys open, what is spent.                                 *)
THEOREM AccountsHold ==
  AccountsSpec =>
    /\ []AdminRemains /\ LastAppointmentStays
    /\ [](InvitationsAreSingle /\ KeysFollowAccount)
    /\ [](MonthWithinLimit /\ OvershootIsBounded)
    /\ OwnedAccountsStay /\ RedeemedOnce
  BY AccountsAreEach, AdminRemainsHolds, LastAppointmentStaysHolds, InvitationsSingle,
     KeysFollow, MonthWithinLimitHolds, OvershootIsBoundedHolds, OwnedAccountsStayHolds,
     LinksRedeemedOnce, PTL
=============================================================================
