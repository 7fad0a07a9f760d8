-------------------------------- MODULE Links --------------------------------
(***************************************************************************)
(* The two addresses a form hands out to participants, of a saved draft    *)
(* and of an answer that may be edited, and the settings they stand        *)
(* behind: public-forms.service.ts, form-settings.service.ts, the settings *)
(* writes of tenant-scope.ts, form-settings.ts and draft-retention.ts.     *)
(*                                                                         *)
(* A form has its own access word or inherits its organisation's.  A       *)
(* settings write reads both documents, then claims the revision of one,   *)
(* and takes back the addresses and pulls the deadline of drafts in the    *)
(* same transaction.  A participant's request reads the settings first and *)
(* inserts later.  Whoever has given the word holds a proof for an hour: it *)
(* says that a gate of this form was passed, not with which word.           *)
(***************************************************************************)
EXTENDS Naturals, FiniteSets

CONSTANTS
  Visitors, Editors,    \* concurrent requests
  Words, Ungated, Inherit, \* access words; none needed; the organisation's
  Addresses,            \* bound: addresses handed out
  Far                   \* bound: deadlines are before Far, which is none

ASSUME LinksAssumption ==
  /\ Ungated \notin Words /\ Inherit \notin Words /\ Ungated # Inherit
  /\ Far \in Nat \ {0}

VARIABLES
  tenantWord,   \* the access word in tenant.form_defaults
  formWord,     \* the access word in form.settings_override
  closes,       \* the deadline in form.settings_override
  links,        \* the addresses that open something
  visit,        \* participants' requests
  edit          \* settings writes

linksVars == <<tenantWord, formWord, closes, links, visit, edit>>

Gates     == Words \cup {Ungated}
Deadlines == 1..Far

\* What a settings write did not take back, and why: the gate was passed with a
\* proof of an older word, the request was under way, another write crossed it.
Excuses == {"none", "proof", "request", "crossed"}

Link  == [kind : {"none", "draft", "answer"}, gate : Gates, exp : Deadlines, excuse : Excuses]
Visit == [pc : {"idle", "inserts", "rewrites"}, link : Addresses \cup {Inherit},
          gate : Gates, exp : Deadlines, excuse : Excuses]
Edit  == [pc : {"idle", "form", "tenant", "claimed"}, word : Gates \cup {Inherit},
          closes : Deadlines, revokes : BOOLEAN, valid : BOOLEAN, stale : BOOLEAN,
          reaches : BOOLEAN]

NoLink  == [kind |-> "none", gate |-> Ungated, exp |-> Far, excuse |-> "none"]

Request(pc, link, gate, exp, excuse) ==
  [pc |-> pc, link |-> link, gate |-> gate, exp |-> exp, excuse |-> excuse]
NoVisit == Request("idle", Inherit, Ungated, Far, "none")

Write(pc, word, deadline, revokes) ==
  [pc |-> pc, word |-> word, closes |-> deadline, revokes |-> revokes,
   valid |-> TRUE, stale |-> FALSE, reaches |-> FALSE]
NoEdit == Write("idle", Inherit, Far, FALSE)

-----------------------------------------------------------------------------
EffectiveOf(word) == IF word = Inherit THEN tenantWord ELSE word
Effective == EffectiveOf(formWord)
Inherits  == formWord = Inherit

\* revokesEditLinks.
RevokesOnSwitch(before, after) == after # Ungated /\ before = Ungated     \* mutant
Revokes(before, after) == after # Ungated /\ before # after

Earlier(a, b) == IF a < b THEN a ELSE b

LinksInit ==
  /\ tenantWord = Ungated /\ formWord = Inherit /\ closes = Far
  /\ links = [l \in Addresses |-> NoLink]
  /\ visit = [v \in Visitors |-> NoVisit]
  /\ edit = [e \in Editors |-> NoEdit]

-----------------------------------------------------------------------------
(* Participants. *)

\* A proof that lives opens a gated form, whatever word it was given for: it
\* binds the form and the hour.  Without one only an open form lets in.
Passes(word) == Effective = Ungated \/ word # Ungated
Passed(word) == IF Effective = Ungated THEN Ungated ELSE word

(* saveDraft and submit read the settings and ask for the proof; the word it*)
(* was exchanged for within the hour may be any ...                         *)
Enter(v, word) ==
  /\ visit[v].pc = "idle"
  /\ Passes(word)
  /\ visit' = [visit EXCEPT ![v] =
                 Request("inserts", Inherit, Passed(word), closes,
                         IF Passed(word) = Effective THEN "none" ELSE "proof")]
  /\ UNCHANGED <<tenantWord, formWord, closes, links, edit>>

(* ... and insert later, without looking again.                             *)
InsertLink(v, l, kind) ==
  /\ visit[v].pc = "inserts"
  /\ links[l] = NoLink
  /\ links' = [links EXCEPT ![l] = [kind |-> kind, gate |-> visit[v].gate,
                                    exp |-> IF kind = "draft" THEN visit[v].exp ELSE Far,
                                    excuse |-> visit[v].excuse]]
  /\ visit' = [visit EXCEPT ![v] = NoVisit]
  /\ UNCHANGED <<tenantWord, formWord, closes, edit>>

(* The address of a draft opens it without the word.                        *)
Reopen(v, l) ==
  /\ visit[v].pc = "idle"
  /\ links[l].kind = "draft"
  /\ visit' = [visit EXCEPT ![v] = Request("rewrites", l, Ungated, closes, "none")]
  /\ UNCHANGED <<tenantWord, formWord, closes, links, edit>>

(* updateDraft computes the deadline again, from what was read.             *)
Rewritten(link, w) ==
  [kind |-> link.kind, gate |-> link.gate, exp |-> w.exp,
   excuse |-> IF w.excuse = "none" THEN link.excuse ELSE w.excuse]

Rewrite(v) ==
  LET l == visit[v].link IN
  /\ visit[v].pc = "rewrites"
  /\ links' = IF links[l].kind = "none" THEN links
                ELSE [links EXCEPT ![l] = Rewritten(@, visit[v])]
  /\ visit' = [visit EXCEPT ![v] = NoVisit]
  /\ UNCHANGED <<tenantWord, formWord, closes, edit>>

(* A draft is deleted or handed in, an answer erased.                       *)
Forget(l) ==
  /\ links[l].kind # "none"
  /\ \A v \in Visitors : visit[v].link # l
  /\ links' = [links EXCEPT ![l] = NoLink]
  /\ UNCHANGED <<tenantWord, formWord, closes, visit, edit>>

GivesUpVisit(v) ==
  /\ visit[v].pc # "idle"
  /\ visit' = [visit EXCEPT ![v] = NoVisit]
  /\ UNCHANGED <<tenantWord, formWord, closes, links, edit>>

-----------------------------------------------------------------------------
(* Settings writes. *)

\* What a committed write leaves of an address, and of all of them.
Kept(link, deadline, crossed) ==
  [kind |-> link.kind, gate |-> link.gate,
   excuse |-> IF crossed THEN "crossed" ELSE link.excuse,
   exp |-> IF link.kind = "draft" THEN Earlier(link.exp, deadline) ELSE link.exp]

TakenBack(revoked, deadline, crossed) ==
  [l \in Addresses |->
     IF links[l].kind = "none" \/ revoked THEN NoLink
                                             ELSE Kept(links[l], deadline, crossed)]

VisitsAreLate == visit' = [v \in Visitors |-> IF visit[v].pc = "idle" THEN visit[v]
                                                ELSE [visit[v] EXCEPT !.excuse = "request"]]

(* replaceOfForm: read both documents, compare the effective words.         *)
ReadForm(e, word, deadline) ==
  /\ edit[e].pc = "idle"
  /\ edit' = [edit EXCEPT ![e] = 
                       Write("form", word, deadline, Revokes(Effective, EffectiveOf(word)))]
  /\ UNCHANGED <<tenantWord, formWord, closes, links, visit>>

\* Whoever read the same row under the same revision will be refused, whatever
\* it was going to write.
Overtaken(d, pc) == IF edit[d].pc = pc THEN [NoEdit EXCEPT !.pc = pc, !.valid = FALSE]
                                      ELSE edit[d]

\* The revision of the form in the where: another form write wins.
WriteForm(e) ==
  /\ edit[e].pc = "form" /\ edit[e].valid
  /\ formWord' = edit[e].word /\ closes' = edit[e].closes
  /\ links' = TakenBack(edit[e].revokes, edit[e].closes, edit[e].stale)
  /\ VisitsAreLate
  /\ edit' = [d \in Editors |-> IF d = e THEN NoEdit
                                 ELSE Overtaken(d, "form")]
  /\ UNCHANGED tenantWord

(* replaceOfTenant: the revision of the organisation is claimed, then the   *)
(* forms that inherit are listed, then their addresses go.                  *)
ReadTenant(e, word) ==
  /\ edit[e].pc = "idle"
  /\ edit' = [edit EXCEPT ![e] = Write("tenant", word, Far, Revokes(tenantWord, word))]
  /\ UNCHANGED <<tenantWord, formWord, closes, links, visit>>

Claimed(d, reaches) == [d EXCEPT !.pc = "claimed", !.reaches = reaches]

ClaimTenant(e) ==
  /\ edit[e].pc = "tenant" /\ edit[e].valid
  /\ \A d \in Editors : edit[d].pc # "claimed"
  /\ edit' = [edit EXCEPT ![e] = Claimed(@, Inherits)]
  /\ UNCHANGED <<tenantWord, formWord, closes, links, visit>>

\* A write of the form compared words that are in force no more.
Crossed(d) == IF edit[d].pc = "form" THEN [edit[d] EXCEPT !.stale = TRUE]
                                     ELSE Overtaken(d, "tenant")

CommitTenant(e) ==
  /\ edit[e].pc = "claimed"
  /\ tenantWord' = edit[e].word
  /\ links' = TakenBack(edit[e].revokes /\ edit[e].reaches, Far, edit[e].reaches # Inherits)
  /\ VisitsAreLate
  /\ edit' = [d \in Editors |-> IF d = e THEN NoEdit
                                 ELSE Crossed(d)]
  /\ UNCHANGED <<formWord, closes>>

(* The revision has moved on, or the request dies.                          *)
EditFails(e) ==
  /\ edit[e].pc # "idle"
  /\ edit' = [edit EXCEPT ![e] = NoEdit]
  /\ UNCHANGED <<tenantWord, formWord, closes, links, visit>>

-----------------------------------------------------------------------------
LinksNext ==
  \/ \E v \in Visitors :
       \/ \E word \in Gates : Enter(v, word)
       \/ Rewrite(v) \/ GivesUpVisit(v)
       \/ \E l \in Addresses : \/ \E kind \in {"draft", "answer"} : InsertLink(v, l, kind)
                               \/ Reopen(v, l)
  \/ \E l \in Addresses : Forget(l)
  \/ \E e \in Editors :
       \/ \E word \in Gates \cup {Inherit}, deadline \in Deadlines : ReadForm(e, word, deadline)
       \/ \E word \in Gates : ReadTenant(e, word)
       \/ WriteForm(e) \/ ClaimTenant(e) \/ CommitTenant(e) \/ EditFails(e)

LinksSpec == LinksInit /\ [][LinksNext]_linksVars

-----------------------------------------------------------------------------
(* Properties *)

LinksTypeOK ==
  /\ tenantWord \in Gates /\ formWord \in Gates \cup {Inherit} /\ closes \in Deadlines
  /\ links \in [Addresses -> Link]
  /\ visit \in [Visitors -> Visit] /\ edit \in [Editors -> Edit]

StandsBehindGate(l) == links[l].kind # "none" => Effective \in {Ungated, links[l].gate}
DiesWithForm(l)     == links[l].kind = "draft" => links[l].exp <= closes

(* However the form's and the organisation's settings take turns, an address*)
(* in circulation was issued behind the gate its form has now, and no draft *)
(* outlives the deadline.  Three kinds of address escape: got with a proof  *)
(* of the word before (for its hour, and its draft still ends in time), by a*)
(* request the write did not see, or left by a write of the organisation    *)
(* that crossed one of the form.                                            *)
LinksAreTakenBack ==
  \A l \in Addresses :
    /\ links[l].excuse = "none" => StandsBehindGate(l)
    /\ links[l].excuse \in {"none", "proof"} => DiesWithForm(l)

=============================================================================
