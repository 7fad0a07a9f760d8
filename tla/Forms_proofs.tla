----------------------------- MODULE Forms_proofs -----------------------------
(***************************************************************************)
(* What holds of the versions of a form, of the addresses it hands out and *)
(* of the answers it keeps, for any number of tabs, editors, participants, *)
(* revisions and questions.                                                *)
(*                                                                         *)
(* Versions: a publication that may still claim its revision read the text *)
(* that is stored under it, and compared it with the version that is still *)
(* the last one.                                                           *)
(*                                                                         *)
(* Addresses: a settings write that may still commit compares the words    *)
(* that are in force, unless the other kind of write came in between,      *)
(* which marks what it leaves behind.                                      *)
(*                                                                         *)
(* Answers: there is one set of questions that a row explains itself by,   *)
(* and it is the one the loop over the document computes.                  *)
(***************************************************************************)
EXTENDS MCForms, WellFoundedInduction, TLAPS

-----------------------------------------------------------------------------
(* Builder *)

\* A publication that has read the draft and may still claim its revision.
MayClaim(t) == pub[t].pc = "read" /\ pub[t].rev = Len(texts)

ReadWasRight ==
  \A t \in Tabs :
    /\ pub[t].pc # "none" => pub[t].rev <= Len(texts)
    /\ MayClaim(t) => /\ pub[t].text = texts[Len(texts)]
                      /\ Unpublished(Len(versions), pub[t].text)

OfThePast == \A n \in DOMAIN versions : versions[n].of <= Len(texts)

BuilderInv == BuilderTypeOK /\ ReadWasRight /\ OfThePast /\ VersionsAreRevisions /\ VersionsDiffer

LEMMA BuilderTypes ==
  ASSUME BuilderTypeOK, [BuilderNext]_builderVars
  PROVE  BuilderTypeOK'
  <1> USE BuilderAssumption DEF BuilderAssumption, BuilderTypeOK, Revisions, Revision
  <1> DEFINE n == Len(texts)
  <1>a. /\ n \in 1..MaxRevision /\ MaxRevision \in Nat
        /\ \A i \in 1..n : texts[i] \in Texts
    OBVIOUS
  <1>b. NoCall \in Call /\ Done \in Call /\ Closed \in Tab
    <2>1. NoCall \in Call /\ Closed \in Tab
      BY DEF NoCall, Call, Closed, Tab
    <2>2. \A c \in Call : [c EXCEPT !.pc = "done"] \in Call
      BY DEF Call
    <2> QED
      BY <2>1, <2>2 DEF Done
  <1>c. \A i \in 1..n : Shows(i) \in Tab /\ Shows(i).rev = i
    BY <1>a DEF Shows, Tab
  <1>0. CASE UNCHANGED builderVars
    BY <1>0 DEF builderVars
  <1>1. ASSUME NEW t \in Tabs, OpenForm(t) \/ Discard(t)
        PROVE  BuilderTypeOK'
    <2>1. /\ tab' = [tab EXCEPT ![t] = Shows(query[t])]
          /\ UNCHANGED <<texts, versions, query, save, pub>>
      BY <1>1 DEF OpenForm, Discard
    <2>2. query[t] \in 1..n
      BY <1>a
    <2> QED
      BY <1>c, <2>1, <2>2
  <1>2. ASSUME NEW t \in Tabs, Refetch(t)
        PROVE  BuilderTypeOK'
    BY <1>2 DEF Refetch
  <1>3. ASSUME NEW t \in Tabs, NEW text \in Texts, Type(t, text)
        PROVE  BuilderTypeOK'
    <2>1. [tab[t] EXCEPT !.text = text, !.dirty = TRUE] \in Tab
      BY DEF Tab
    <2>2. tab' = [tab EXCEPT ![t] = [tab[t] EXCEPT !.text = text, !.dirty = TRUE]]
      BY <1>3 DEF Type
    <2>3. [tab[t] EXCEPT !.text = text, !.dirty = TRUE].rev = tab[t].rev
      BY DEF Tab
    <2> QED
      BY <1>3, <2>1, <2>2, <2>3 DEF Type
  <1>4. ASSUME NEW t \in Tabs, Leave(t)
        PROVE  BuilderTypeOK'
    BY <1>4, <1>b DEF Leave, Closed
  <1>5. ASSUME NEW t \in Tabs, SendSave(t)
        PROVE  BuilderTypeOK'
    <2>1. [pc |-> "sent", rev |-> tab[t].rev, text |-> tab[t].text] \in Call
      BY DEF Tab, Call
    <2> QED
      BY <1>5, <2>1 DEF SendSave
  <1>6. ASSUME NEW t \in Tabs, AskPublish(t)
        PROVE  BuilderTypeOK'
    <2>1. [pc |-> "sent", rev |-> tab[t].rev, text |-> NewText] \in Call
      BY DEF Tab, Call
    <2> QED
      BY <1>6, <2>1 DEF AskPublish
  <1>7. ASSUME NEW t \in Tabs, StoreDraft(t)
        PROVE  BuilderTypeOK'
    <2>1. save[t].text \in Texts
      BY DEF Call
    <2>2. /\ texts' = Append(texts, save[t].text)
          /\ texts' \in Seq(Texts) /\ Len(texts') = n + 1 /\ n < MaxRevision
      BY <1>7, <2>1 DEF StoreDraft
    <2>3. save' \in [Tabs -> Call]
      BY <1>7, <1>b DEF StoreDraft
    <2>4. \A u \in Tabs : tab[u].rev <= n + 1 /\ query[u] <= n + 1
      BY DEF Tab
    <2> QED
      BY <1>7, <1>a, <2>2, <2>3, <2>4 DEF StoreDraft
  <1>8. ASSUME NEW t \in Tabs, ReadForPublish(t)
        PROVE  BuilderTypeOK'
    <2>1. [pub[t] EXCEPT !.pc = "read", !.text = Draft] \in Call
      <3>1. Draft \in Texts
        BY <1>a DEF Draft
      <3>2. \A c \in Call, x \in Texts : [c EXCEPT !.pc = "read", !.text = x] \in Call
        BY DEF Call
      <3> QED
        BY <3>1, <3>2
    <2>2. pub' = [pub EXCEPT ![t] = [pub[t] EXCEPT !.pc = "read", !.text = Draft]]
      BY <1>8 DEF ReadForPublish
    <2> QED
      BY <1>8, <2>1, <2>2 DEF ReadForPublish
  <1>9. ASSUME NEW t \in Tabs, ClaimPublish(t)
        PROVE  BuilderTypeOK'
    <2>1. pub[t].text \in Texts
      BY DEF Call
    <2>2. /\ texts' \in Seq(Texts) /\ Len(texts') = n + 1 /\ n < MaxRevision
      BY <1>9, <1>a DEF ClaimPublish, Draft
    <2>3. [text |-> pub[t].text, of |-> n] \in Version
      BY <1>a, <2>1 DEF Version
    <2>4. versions' \in Seq(Version) /\ Len(versions') = Len(versions) + 1
      BY <1>9, <2>3 DEF ClaimPublish
    <2>5. pub' \in [Tabs -> Call]
      BY <1>9, <1>b DEF ClaimPublish
    <2>6. \A u \in Tabs : tab[u].rev <= n + 1 /\ query[u] <= n + 1
      BY DEF Tab
    <2> QED
      BY <1>9, <1>a, <2>2, <2>4, <2>5, <2>6 DEF ClaimPublish
  <1>10. ASSUME NEW t \in Tabs, SaveAnswered(t) \/ PublishAnswered(t)
        PROVE  BuilderTypeOK'
    <2>1. /\ [tab[t] EXCEPT !.rev = n, !.dirty = FALSE] \in Tab
          /\ [tab[t] EXCEPT !.rev = n, !.dirty = FALSE].rev = n
      BY <1>a DEF Tab
    <2>2. tab' = [tab EXCEPT ![t] = [tab[t] EXCEPT !.rev = n, !.dirty = FALSE]]
      BY <1>10 DEF SaveAnswered, PublishAnswered, MarkSaved
    <2>3. /\ save' \in [Tabs -> Call] /\ pub' \in [Tabs -> Call]
          /\ query' = [query EXCEPT ![t] = n] /\ texts' = texts /\ versions' = versions
      BY <1>10, <1>b DEF SaveAnswered, PublishAnswered
    <2> QED
      BY <1>a, <2>1, <2>2, <2>3
  <1>11. ASSUME NEW t \in Tabs, SaveFails(t) \/ PublishFails(t)
        PROVE  BuilderTypeOK'
    BY <1>11, <1>b DEF SaveFails, PublishFails
  <1> QED
    BY <1>0, <1>1, <1>2, <1>3, <1>4, <1>5, <1>6, <1>7, <1>8, <1>9, <1>10, <1>11 DEF BuilderNext

\* A form's draft moves on: who named an earlier revision names a stored one.
LEMMA AppendKeeps ==
  ASSUME BuilderTypeOK, NEW text \in Texts, texts' = Append(texts, text)
  PROVE  /\ Len(texts') = Len(texts) + 1
         /\ \A i \in 1..Len(texts) : texts'[i] = texts[i]
  BY DEF BuilderTypeOK

(* A publication that can still succeed carries the text of its revision,   *)
(* and no version has been made since it compared: publish claims the       *)
(* revision it read under (tenant-scope.ts, forms.service.ts).              *)
LEMMA VersionStep ==
  ASSUME BuilderInv, [BuilderNext]_builderVars
  PROVE  (ReadWasRight /\ OfThePast /\ VersionsAreRevisions /\ VersionsDiffer)'
  <1> DEFINE Goal == ReadWasRight /\ OfThePast /\ VersionsAreRevisions /\ VersionsDiffer
             n == Len(texts)
  <1> USE DEF BuilderInv
  <1>a. /\ n \in Nat \ {0} /\ texts \in Seq(Texts) /\ versions \in Seq(Version)
        /\ \A k \in DOMAIN versions : versions[k].of \in 1..n
        /\ pub \in [Tabs -> Call] /\ save \in [Tabs -> Call]
    <2>1. /\ n \in Nat \ {0} /\ texts \in Seq(Texts) /\ versions \in Seq(Version)
          /\ pub \in [Tabs -> Call] /\ save \in [Tabs -> Call]
      BY DEF BuilderTypeOK, Revisions
    <2>2. ASSUME NEW k \in DOMAIN versions
          PROVE  versions[k].of \in 1..n
      <3>1. versions[k] \in Version
        BY <2>1
      <3> QED
        BY <2>1, <3>1, BuilderAssumption DEF OfThePast, Version, Revisions, BuilderAssumption
    <2> QED
      BY <2>1, <2>2
  <1>0. ASSUME UNCHANGED <<texts, versions, pub>>
        PROVE  Goal'
    BY <1>0 DEF ReadWasRight, OfThePast, VersionsAreRevisions, VersionsDiffer,
                MayClaim, Unpublished
  <1>1. ASSUME NEW t \in Tabs, UNCHANGED <<texts, versions>>, pub'[t].pc # "read",
               pub'[t].pc # "none" => pub'[t].rev <= n,
               \A u \in Tabs \ {t} : pub'[u] = pub[u]
        PROVE  Goal'
    BY <1>1 DEF ReadWasRight, OfThePast, VersionsAreRevisions, VersionsDiffer,
                MayClaim, Unpublished
  <1>2. ASSUME NEW t \in Tabs, AskPublish(t)
        PROVE  Goal'
    <2>1. tab[t].rev <= n
      BY DEF BuilderTypeOK
    <2>2. pub' = [pub EXCEPT ![t] = [pc |-> "sent", rev |-> tab[t].rev, text |-> NewText]]
      BY <1>2 DEF AskPublish
    <2> QED
      BY <1>a, <1>1, <1>2, <2>1, <2>2 DEF AskPublish
  <1>3. ASSUME NEW t \in Tabs, PublishAnswered(t) \/ PublishFails(t)
        PROVE  Goal'
    <2>1. pub' = [pub EXCEPT ![t] = [pc |-> "none", rev |-> 1, text |-> NewText]]
      BY <1>3 DEF PublishAnswered, PublishFails, NoCall
    <2>2. UNCHANGED <<texts, versions>>
      BY <1>3 DEF PublishAnswered, PublishFails
    <2> QED
      BY <1>a, <1>1, <2>1, <2>2
  <1>4. ASSUME NEW t \in Tabs, StoreDraft(t)
        PROVE  Goal'
    <2>1. save[t].text \in Texts
      BY <1>a DEF Call
    <2>2. /\ Len(texts') = n + 1
          /\ \A i \in 1..n : texts'[i] = texts[i]
      BY <1>4, <2>1, AppendKeeps DEF StoreDraft
    <2>3. versions' = versions /\ pub' = pub
      BY <1>4 DEF StoreDraft
    <2>4. ReadWasRight'
      BY <1>a, <2>2, <2>3 DEF ReadWasRight, MayClaim, Call, Revisions
    <2>5. (OfThePast /\ VersionsAreRevisions /\ VersionsDiffer)'
      BY <1>a, <2>2, <2>3 DEF OfThePast, VersionsAreRevisions, VersionsDiffer
    <2> QED
      BY <2>4, <2>5
  <1>5. ASSUME NEW t \in Tabs, ReadForPublish(t)
        PROVE  Goal'
    <2>1. /\ Unpublished(Len(versions), texts[n])
          /\ pub' = [pub EXCEPT ![t] = [pub[t] EXCEPT !.pc = "read", !.text = texts[n]]]
          /\ UNCHANGED <<texts, versions>> /\ pub[t].pc = "sent"
      BY <1>5 DEF ReadForPublish, Draft
    <2>2. /\ pub'[t].text = texts[n] /\ pub'[t].rev = pub[t].rev
          /\ \A u \in Tabs \ {t} : pub'[u] = pub[u]
      BY <1>a, <2>1 DEF Call
    <2>3. ReadWasRight'
      BY <2>1, <2>2 DEF ReadWasRight, MayClaim, Unpublished
    <2>4. (OfThePast /\ VersionsAreRevisions /\ VersionsDiffer)'
      BY <2>1 DEF OfThePast, VersionsAreRevisions, VersionsDiffer
    <2> QED
      BY <2>3, <2>4
  <1>6. ASSUME NEW t \in Tabs, ClaimPublish(t)
        PROVE  Goal'
    <2> DEFINE v == [text |-> pub[t].text, of |-> n]
               m == Len(versions)
    <2>1. /\ MayClaim(t)
          /\ texts' = Append(texts, texts[n]) /\ versions' = Append(versions, v)
          /\ pub' = [pub EXCEPT ![t] = Done]
      BY <1>6 DEF ClaimPublish, Claims, Revision, Draft, MayClaim
    <2>2. pub[t].text = texts[n] /\ Unpublished(m, pub[t].text)
      BY <2>1 DEF ReadWasRight
    <2>3. texts[n] \in Texts
      BY <1>a
    <2>4. /\ Len(texts') = n + 1
          /\ \A i \in 1..n : texts'[i] = texts[i]
      BY <2>1, <2>3, AppendKeeps
    <2>5. /\ Len(versions') = m + 1 /\ m \in Nat
          /\ versions'[m + 1] = v
          /\ \A k \in 1..m : versions'[k] = versions[k]
          /\ DOMAIN versions' = 1..(m + 1) /\ DOMAIN versions = 1..m
      <3>1. v \in Version
        BY <1>a, <2>2, <2>3 DEF Version, Revisions, BuilderTypeOK
      <3> QED
        BY <1>a, <2>1, <3>1
    <2>6. ReadWasRight'
      <3> SUFFICES ASSUME NEW u \in Tabs
                   PROVE  /\ pub'[u].pc # "none" => pub'[u].rev <= n + 1
                          /\ ~(pub'[u].pc = "read" /\ pub'[u].rev = n + 1)
        BY <2>4 DEF ReadWasRight, MayClaim
      <3>1. CASE u = t
        BY <1>a, <2>1, <3>1 DEF Done, NoCall
      <3>2. CASE u # t
        BY <1>a, <2>1, <3>2 DEF ReadWasRight, Call, Revisions
      <3> QED
        BY <3>1, <3>2
    <2>7. (OfThePast /\ VersionsAreRevisions)'
      <3> SUFFICES ASSUME NEW k \in 1..(m + 1)
                   PROVE  /\ versions'[k].of <= n + 1
                          /\ versions'[k].text = texts'[versions'[k].of]
        BY <2>4, <2>5 DEF OfThePast, VersionsAreRevisions
      <3>1. CASE k = m + 1
        <4>1. versions'[k].of = n /\ versions'[k].text = texts[n] /\ texts'[n] = texts[n]
          BY <1>a, <2>2, <2>4, <2>5, <3>1
        <4> QED
          BY <1>a, <4>1
      <3>2. CASE k # m + 1
        <4>1. k \in 1..m /\ k \in DOMAIN versions
          BY <2>5, <3>2
        <4>2. versions'[k] = versions[k] /\ versions[k].of \in 1..n
          BY <1>a, <2>5, <4>1
        <4>3. texts'[versions[k].of] = texts[versions[k].of]
          BY <2>4, <4>2
        <4> QED
          BY <1>a, <4>1, <4>2, <4>3 DEF VersionsAreRevisions
      <3> QED
        BY <3>1, <3>2
    <2>8. VersionsDiffer'
      <3> SUFFICES ASSUME NEW k \in (1..(m + 1)) \ {1}
                   PROVE  versions'[k].text # versions'[k - 1].text
        BY <2>5 DEF VersionsDiffer
      <3>1. CASE k = m + 1
        <4>1. m \in {m} \ {0} /\ k - 1 = m /\ m \in 1..m
          BY <2>5, <3>1
        <4>2. versions[m].text # pub[t].text
          BY <2>2, <4>1 DEF Unpublished
        <4> QED
          BY <2>5, <3>1, <4>1, <4>2
      <3>2. CASE k # m + 1
        <4>1. k \in DOMAIN versions \ {1} /\ k \in 1..m /\ k - 1 \in 1..m
          BY <2>5, <3>2
        <4>2. versions'[k] = versions[k] /\ versions'[k - 1] = versions[k - 1]
          BY <2>5, <4>1
        <4> QED
          BY <4>1, <4>2 DEF VersionsDiffer
      <3> QED
        BY <3>1, <3>2
    <2> QED
      BY <2>6, <2>7, <2>8
  <1>7. ASSUME NEW t \in Tabs,
               \/ OpenForm(t) \/ Refetch(t) \/ Discard(t) \/ Leave(t)
               \/ \E text \in Texts : Type(t, text)
               \/ SendSave(t) \/ SaveAnswered(t) \/ SaveFails(t)
        PROVE  Goal'
    BY <1>0, <1>7 DEF OpenForm, Refetch, Discard, Leave, Type, SendSave, SaveAnswered, SaveFails
  <1>8. CASE UNCHANGED builderVars
    BY <1>0, <1>8 DEF builderVars
  <1>9. ASSUME BuilderNext
        PROVE  Goal'
    <2> HIDE DEF Goal
    <2> PICK t \in Tabs :
          \/ OpenForm(t) \/ Refetch(t) \/ Discard(t) \/ Leave(t)
          \/ \E text \in Texts : Type(t, text)
          \/ SendSave(t) \/ StoreDraft(t) \/ SaveAnswered(t) \/ SaveFails(t)
          \/ AskPublish(t) \/ ReadForPublish(t) \/ ClaimPublish(t)
          \/ PublishAnswered(t) \/ PublishFails(t)
      BY <1>9 DEF BuilderNext
    <2> QED
      BY <1>2, <1>3, <1>4, <1>5, <1>6, <1>7
  <1> QED
    BY <1>8, <1>9

(* What a publication compared stays true until its claim, since the claim  *)
(* asks for the revision it read (publish).                                 *)
THEOREM BuilderInvariance == BuilderSpec => []BuilderInv
  <1>1. BuilderInit => BuilderInv
    <2> SUFFICES ASSUME BuilderInit PROVE BuilderInv
      OBVIOUS
    <2>1. BuilderTypeOK
      BY BuilderAssumption DEF BuilderAssumption, BuilderInit, BuilderTypeOK, Revisions,
                               Tab, Call, NoCall, Closed, Version
    <2>2. \A t \in Tabs : pub[t].pc = "none"
      BY DEF BuilderInit, NoCall
    <2>3. DOMAIN versions = {}
      BY DEF BuilderInit
    <2> QED
      BY <2>1, <2>2, <2>3
         DEF BuilderInv, ReadWasRight, MayClaim, OfThePast, VersionsAreRevisions, VersionsDiffer
  <1>2. BuilderInv /\ [BuilderNext]_builderVars => BuilderInv'
    BY BuilderTypes, VersionStep DEF BuilderInv
  <1> QED
    BY <1>1, <1>2, PTL DEF BuilderSpec

(* No tab and no cache is ahead of the server, and a form has fewer versions*)
(* than revisions.                                                          *)
THEOREM BuilderTypeCorrect == BuilderSpec => []BuilderTypeOK
  BY BuilderInvariance, PTL DEF BuilderInv

(* Two versions in a row differ, though the comparison is made before the   *)
(* claim, for any number of tabs.                                           *)
THEOREM VersionsDifferHolds == BuilderSpec => []VersionsDiffer
  BY BuilderInvariance, PTL DEF BuilderInv

(* What a version froze is what the draft said at the revision it claimed.  *)
THEOREM VersionsAreRevisionsHolds == BuilderSpec => []VersionsAreRevisions
  BY BuilderInvariance, PTL DEF BuilderInv

(* However tabs save and publish at once, every version is a revision of the*)
(* draft, and differs from the one before.                                  *)
THEOREM VersionsStandHolds == BuilderSpec => []VersionsStand
  BY VersionsDifferHolds, VersionsAreRevisionsHolds, PTL DEF VersionsStand

-----------------------------------------------------------------------------
(* Links *)

\* What a settings write compared, while it may still commit.
FormEditsCompare ==
  \A e \in Editors :
    edit[e].pc = "form" /\ edit[e].valid = TRUE /\ edit[e].stale = FALSE
      => edit[e].revokes = Revokes(Effective, EffectiveOf(edit[e].word))

TenantEditsCompare ==
  \A e \in Editors :
    \/ edit[e].pc = "tenant" /\ edit[e].valid = TRUE
    \/ edit[e].pc = "claimed"
    => edit[e].word \in Gates /\ edit[e].revokes = Revokes(tenantWord, edit[e].word)

OneClaims ==
  \A d, e \in Editors : edit[d].pc = "claimed" /\ edit[e].pc = "claimed" => d = e

\* A request no write came across would issue what stands behind the gate.
VisitsWereAsked ==
  \A v \in Visitors :
    /\ visit[v].pc # "idle" /\ visit[v].excuse \in {"none", "proof"} => visit[v].exp <= closes
    /\ visit[v].pc = "inserts" /\ visit[v].excuse = "none"
         => Effective \in {Ungated, visit[v].gate}

\* What LinksAreTakenBack asks of one address.
Stands(k) ==
  /\ k.excuse = "none" /\ k.kind # "none" => Effective \in {Ungated, k.gate}
  /\ k.excuse \in {"none", "proof"} /\ k.kind = "draft" => k.exp <= closes

LinksInv ==
  LinksTypeOK /\ FormEditsCompare /\ TenantEditsCompare /\ OneClaims /\ VisitsWereAsked /\ LinksAreTakenBack

\* What the records of a step are made of.
LEMMA LinksParts ==
  /\ NoLink \in Link /\ NoVisit \in Visit /\ NoEdit \in Edit
  /\ \A w \in Visit : /\ w.gate \in Gates /\ w.exp \in Deadlines /\ w.excuse \in Excuses
                      /\ w.link \in Addresses \cup {Inherit}
  /\ \A k \in Link : k.gate \in Gates /\ k.exp \in Deadlines /\ k.excuse \in Excuses
  /\ \A d \in Edit : /\ d.word \in Gates \cup {Inherit} /\ d.closes \in Deadlines
                     /\ d.revokes \in BOOLEAN /\ d.valid \in BOOLEAN
                     /\ d.stale \in BOOLEAN /\ d.reaches \in BOOLEAN
  /\ Deadlines \subseteq Nat /\ Far \in Deadlines /\ \A x \in Deadlines : x <= Far
  <1>1. Deadlines \subseteq Nat /\ Far \in Deadlines /\ \A x \in Deadlines : x <= Far
    BY LinksAssumption DEF LinksAssumption, Deadlines
  <1>2. Ungated \in Gates
    BY DEF Gates
  <1>3. NoLink \in Link /\ NoVisit \in Visit
    BY <1>1, <1>2 DEF NoLink, Link, NoVisit, Visit, Request, Excuses
  <1>4. NoEdit \in Edit
    BY <1>1 DEF NoEdit, Edit, Write
  <1>5. /\ \A w \in Visit : /\ w.gate \in Gates /\ w.exp \in Deadlines /\ w.excuse \in Excuses
                            /\ w.link \in Addresses \cup {Inherit}
        /\ \A k \in Link : k.gate \in Gates /\ k.exp \in Deadlines /\ k.excuse \in Excuses
    BY DEF Visit, Link
  <1>6. \A d \in Edit : /\ d.word \in Gates \cup {Inherit} /\ d.closes \in Deadlines
                        /\ d.revokes \in BOOLEAN /\ d.valid \in BOOLEAN
                        /\ d.stale \in BOOLEAN /\ d.reaches \in BOOLEAN
    BY DEF Edit
  <1> QED
    BY <1>1, <1>3, <1>4, <1>5, <1>6

\* What a committed write leaves of one address.
LEMMA TakenBackOf ==
  ASSUME LinksTypeOK, NEW revoked \in BOOLEAN, NEW deadline \in Deadlines, NEW crossed \in BOOLEAN,
         links' = TakenBack(revoked, deadline, crossed)
  PROVE  /\ links' \in [Addresses -> Link]
         /\ \A l \in Addresses :
              \/ links'[l] = NoLink
              \/ /\ ~revoked
                 /\ links'[l].kind = links[l].kind /\ links'[l].gate = links[l].gate
                 /\ links'[l].excuse # "crossed" => ~crossed /\ links'[l].excuse = links[l].excuse
                 /\ links'[l].exp <= links[l].exp
                 /\ links[l].kind = "draft" => links'[l].exp <= deadline
  <1> SUFFICES ASSUME NEW l \in Addresses
               PROVE  /\ links'[l] \in Link
                      /\ \/ links'[l] = NoLink
                         \/ /\ ~revoked
                            /\ links'[l].kind = links[l].kind /\ links'[l].gate = links[l].gate
                            /\ links'[l].excuse # "crossed" => ~crossed /\ links'[l].excuse = links[l].excuse
                            /\ links'[l].exp <= links[l].exp
                            /\ links[l].kind = "draft" => links'[l].exp <= deadline
    BY DEF TakenBack
  <1> DEFINE k == links[l]
             x == IF k.kind = "draft" THEN Earlier(k.exp, deadline) ELSE k.exp
  <1>1. k \in Link /\ k.exp \in Deadlines /\ k.excuse \in Excuses
    BY LinksParts DEF LinksTypeOK
  <1>2. x \in Deadlines /\ x <= k.exp /\ (k.kind = "draft" => x <= deadline)
    <2>1. Deadlines \subseteq Nat
      BY LinksParts
    <2>2. ASSUME NEW y \in Deadlines, NEW z \in Deadlines
          PROVE  /\ Earlier(y, z) \in Deadlines
                 /\ Earlier(y, z) <= y /\ Earlier(y, z) <= z
      <3>1. y \in Nat /\ z \in Nat
        BY <2>1
      <3> QED
        BY <3>1 DEF Earlier
    <2>3. \A y \in Nat : y <= y
      OBVIOUS
    <2> HIDE DEF k
    <2> QED
      BY <1>1, <2>1, <2>2, <2>3
  <1>3. CASE k.kind = "none" \/ revoked
    <2>1. links'[l] = NoLink
      BY <1>3 DEF TakenBack
    <2> QED
      BY <2>1, LinksParts
  <1>4. CASE ~(k.kind = "none" \/ revoked)
    <2>1. links'[l] = Kept(k, deadline, crossed)
      BY <1>4 DEF TakenBack
    <2>2. /\ Kept(k, deadline, crossed).kind = k.kind
          /\ Kept(k, deadline, crossed).gate = k.gate
          /\ Kept(k, deadline, crossed).exp = x
          /\ Kept(k, deadline, crossed).excuse # "crossed"
               => ~crossed /\ Kept(k, deadline, crossed).excuse = k.excuse
      BY <1>1 DEF Kept
    <2>3. Kept(k, deadline, crossed) \in Link
      BY <1>1, <1>2 DEF Kept, Link, Excuses
    <2> HIDE DEF x
    <2> QED
      BY <1>2, <1>4, <2>1, <2>2, <2>3
  <1> QED
    BY <1>3, <1>4

LEMMA LinksTypes ==
  ASSUME LinksTypeOK, TenantEditsCompare, [LinksNext]_linksVars
  PROVE  LinksTypeOK'
  <1> USE DEF LinksTypeOK
  <1>a. /\ Effective \in Gates
        /\ \A w \in Gates \cup {Inherit} : EffectiveOf(w) \in Gates
        /\ \A x, y \in Gates : Revokes(x, y) \in BOOLEAN
    BY LinksAssumption DEF LinksAssumption, Effective, EffectiveOf, Revokes, Gates
  <1>b. /\ \A v \in Visitors : visit[v] \in Visit
        /\ \A l \in Addresses : links[l] \in Link
        /\ \A e \in Editors : edit[e] \in Edit
    OBVIOUS
  <1>c. ASSUME VisitsAreLate PROVE visit' \in [Visitors -> Visit]
    <2>1. \A w \in Visit : [w EXCEPT !.excuse = "request"] \in Visit
      BY DEF Visit, Excuses
    <2> QED
      BY <1>b, <1>c, <2>1 DEF VisitsAreLate
  <1>d. \A d \in Editors : /\ Overtaken(d, "form") \in Edit /\ Overtaken(d, "tenant") \in Edit
                           /\ Crossed(d) \in Edit
    <2>1. \A x \in Edit : [x EXCEPT !.stale = TRUE] \in Edit
      BY DEF Edit
    <2>2. \A pc \in {"form", "tenant"} : [NoEdit EXCEPT !.pc = pc, !.valid = FALSE] \in Edit
      BY LinksParts DEF Edit
    <2> QED
      BY <1>b, <2>1, <2>2 DEF Overtaken, Crossed
  <1>0. CASE UNCHANGED linksVars
    BY <1>0 DEF linksVars
  <1>1. ASSUME NEW v \in Visitors,
               (\E word \in Gates : Enter(v, word)) \/ Rewrite(v) \/ GivesUpVisit(v) \/ \E l \in Addresses : Reopen(v, l)
        PROVE  LinksTypeOK'
    <2>1. ASSUME NEW word \in Gates, Enter(v, word)
          PROVE  LinksTypeOK'
      <3>1. \A x \in {"none", "proof"} :
              Request("inserts", Inherit, Passed(word), closes, x) \in Visit
        BY <1>a DEF Request, Visit, Passed, Gates, Excuses
      <3> QED
        BY <2>1, <3>1 DEF Enter
    <2>2. CASE GivesUpVisit(v)
      BY <2>2, LinksParts DEF GivesUpVisit
    <2>3. ASSUME NEW l \in Addresses, Reopen(v, l)
          PROVE  LinksTypeOK'
      <3>1. Request("rewrites", l, Ungated, closes, "none") \in Visit
        BY DEF Request, Visit, Gates, Excuses
      <3> QED
        BY <2>3, <3>1 DEF Reopen
    <2>4. CASE Rewrite(v)
      <3>1. links' \in [Addresses -> Link]
        <4> DEFINE l == visit[v].link
                   k == Rewritten(links[l], visit[v])
        <4>1. CASE links' = links
          BY <4>1
        <4>2. CASE links' = [links EXCEPT ![l] = k] /\ l \in Addresses
          <5>1. k \in Link
            BY <1>b, <4>2, LinksParts DEF Rewritten, Link
          <5> HIDE DEF k, l
          <5> QED
            BY <4>2, <5>1
        <4>3. CASE links' = [links EXCEPT ![l] = k] /\ l \notin Addresses
          BY <4>3
        <4> QED
          BY <2>4, <4>1, <4>2, <4>3 DEF Rewrite
      <3> QED
        BY <2>4, <3>1, LinksParts DEF Rewrite
    <2> QED
      BY <1>1, <2>1, <2>2, <2>3, <2>4
  <1>2. ASSUME NEW v \in Visitors, NEW l \in Addresses, NEW sort \in {"draft", "answer"},
               InsertLink(v, l, sort)
        PROVE  LinksTypeOK'
    <2> DEFINE k == [kind |-> sort, gate |-> visit[v].gate,
                     exp |-> IF sort = "draft" THEN visit[v].exp ELSE Far, excuse |-> visit[v].excuse]
    <2>1. k \in Link
      BY <1>b, LinksParts DEF Link
    <2> HIDE DEF k
    <2>2. links' = [links EXCEPT ![l] = k]
      BY <1>2 DEF InsertLink, k
    <2> QED
      BY <1>2, <2>1, <2>2, LinksParts DEF InsertLink
  <1>3. ASSUME NEW l \in Addresses, Forget(l)
        PROVE  LinksTypeOK'
    BY <1>3, LinksParts DEF Forget
  <1>4. ASSUME NEW e \in Editors, NEW word \in Gates \cup {Inherit}, NEW deadline \in Deadlines,
               ReadForm(e, word, deadline)
        PROVE  LinksTypeOK'
    <2> DEFINE b == Revokes(Effective, EffectiveOf(word))
    <2>1. b \in BOOLEAN
      BY <1>a
    <2>2. \A x \in BOOLEAN : Write("form", word, deadline, x) \in Edit
      BY DEF Write, Edit
    <2> QED
      BY <1>4, <2>1, <2>2 DEF ReadForm
  <1>5. ASSUME NEW e \in Editors, NEW word \in Gates, ReadTenant(e, word)
        PROVE  LinksTypeOK'
    <2>1. Revokes(tenantWord, word) \in BOOLEAN
      BY <1>a
    <2>2. \A x \in BOOLEAN : Write("tenant", word, Far, x) \in Edit
      BY LinksParts DEF Write, Edit
    <2> QED
      BY <1>5, <2>1, <2>2 DEF ReadTenant
  <1>6. ASSUME NEW e \in Editors, WriteForm(e)
        PROVE  LinksTypeOK'
    <2>1. edit[e].word \in Gates \cup {Inherit} /\ edit[e].closes \in Deadlines
      BY <1>b, LinksParts
    <2>2. links' \in [Addresses -> Link]
      BY <1>6, <1>b, LinksParts, TakenBackOf DEF WriteForm
    <2>3. edit' \in [Editors -> Edit]
      BY <1>6, <1>d, LinksParts DEF WriteForm
    <2> QED
      BY <1>6, <1>c, <2>1, <2>2, <2>3 DEF WriteForm
  <1>7. ASSUME NEW e \in Editors, ClaimTenant(e)
        PROVE  LinksTypeOK'
    <2>1. \A x \in Edit, b \in BOOLEAN : Claimed(x, b) \in Edit
      BY DEF Claimed, Edit
    <2>2. Inherits \in BOOLEAN
      BY DEF Inherits
    <2> QED
      BY <1>7, <1>b, <2>1, <2>2 DEF ClaimTenant
  <1>8. ASSUME NEW e \in Editors, CommitTenant(e)
        PROVE  LinksTypeOK'
    <2>0. edit[e].word \in Gates
      BY <1>8 DEF CommitTenant, TenantEditsCompare
    <2> DEFINE b == edit[e].revokes /\ edit[e].reaches
               c == edit[e].reaches # Inherits
    <2>1. b \in BOOLEAN /\ c \in BOOLEAN /\ links' = TakenBack(b, Far, c)
      BY <1>8 DEF CommitTenant
    <2>2. links' \in [Addresses -> Link]
      <3> HIDE DEF b, c
      <3> QED
        BY <2>1, LinksParts, TakenBackOf
    <2>3. edit' \in [Editors -> Edit]
      BY <1>8, <1>d, LinksParts DEF CommitTenant
    <2> QED
      BY <1>8, <1>c, <2>0, <2>2, <2>3 DEF CommitTenant
  <1>9. ASSUME NEW e \in Editors, EditFails(e)
        PROVE  LinksTypeOK'
    BY <1>9, LinksParts DEF EditFails
  <1> QED
    BY <1>0, <1>1, <1>2, <1>3, <1>4, <1>5, <1>6, <1>7, <1>8, <1>9 DEF LinksNext

(* What a write compared is what is in force when it commits, and it takes  *)
(* back whatever no longer stands behind the gate.                          *)
LEMMA LinksStep ==
  ASSUME LinksInv, LinksTypeOK', [LinksNext]_linksVars
  PROVE  (FormEditsCompare /\ TenantEditsCompare /\ OneClaims /\ VisitsWereAsked /\ LinksAreTakenBack)'
  <1> DEFINE EditsOf == FormEditsCompare /\ TenantEditsCompare /\ OneClaims
             RestOf == VisitsWereAsked /\ LinksAreTakenBack
  <1> USE DEF LinksInv
  <1>a. /\ \A v \in Visitors : visit[v] \in Visit
        /\ \A l \in Addresses : links[l] \in Link
        /\ \A e \in Editors : edit[e] \in Edit
        /\ closes \in Deadlines /\ closes \in Nat /\ tenantWord \in Gates
    BY LinksParts DEF LinksTypeOK
  <1>b. ASSUME UNCHANGED <<tenantWord, formWord, edit>>
        PROVE  EditsOf'
    BY <1>b DEF FormEditsCompare, TenantEditsCompare, OneClaims, Effective, EffectiveOf
  <1>c. ASSUME UNCHANGED <<tenantWord, formWord, closes, links>>
        PROVE  LinksAreTakenBack'
    BY <1>c DEF LinksAreTakenBack, StandsBehindGate, DiesWithForm, Effective, EffectiveOf
  <1>d. ASSUME UNCHANGED <<tenantWord, formWord, closes, visit>>
        PROVE  VisitsWereAsked'
    BY <1>d DEF VisitsWereAsked, Effective, EffectiveOf
  <1>e. ASSUME VisitsAreLate PROVE VisitsWereAsked'
    <2> SUFFICES ASSUME NEW v \in Visitors
                 PROVE  visit'[v].excuse = "request" \/ visit'[v].pc = "idle"
      BY DEF VisitsWereAsked
    <2>1. \A w \in Visit : [w EXCEPT !.excuse = "request"].excuse = "request"
      BY DEF Visit
    <2> QED
      BY <1>a, <1>e, <2>1 DEF VisitsAreLate
  <1>f. ASSUME NEW v \in Visitors, UNCHANGED <<tenantWord, formWord, closes>>,
               visit' = [visit EXCEPT ![v] = NoVisit]
        PROVE  VisitsWereAsked'
    <2>1. NoVisit.pc = "idle"
      BY DEF NoVisit, Request
    <2> QED
      BY <1>f, <2>1 DEF VisitsWereAsked, LinksTypeOK, Effective, EffectiveOf
  <1>g. ASSUME NEW v \in Visitors, NEW l \in Addresses \cup {Inherit}, NEW gate, NEW pc, NEW excuse,
               UNCHANGED <<tenantWord, formWord, closes>>,
               visit' = [visit EXCEPT ![v] = Request(pc, l, gate, closes, excuse)],
               pc = "inserts" /\ excuse = "none" => gate = Effective
        PROVE  VisitsWereAsked'
    <2> DEFINE r == Request(pc, l, gate, closes, excuse)
    <2>1. r.pc = pc /\ r.gate = gate /\ r.exp = closes /\ r.excuse = excuse
      BY DEF Request
    <2> HIDE DEF r
    <2>2. /\ visit'[v] = r
          /\ \A w \in Visitors \ {v} : visit'[w] = visit[w]
      BY <1>g DEF LinksTypeOK, r
    <2> QED
      BY <1>a, <1>g, <2>1, <2>2 DEF VisitsWereAsked, Effective, EffectiveOf
  \* One address changes, and what it says now stands.
  <1>h. ASSUME NEW l \in Addresses, NEW k, UNCHANGED <<tenantWord, formWord, closes>>,
               links' = [links EXCEPT ![l] = k],
               Stands(k)
        PROVE  LinksAreTakenBack'
    <2>1. /\ links'[l] = k
          /\ \A j \in Addresses \ {l} : links'[j] = links[j]
      BY <1>h DEF LinksTypeOK
    <2> QED
      BY <1>h, <2>1
         DEF LinksAreTakenBack, Stands, StandsBehindGate, DiesWithForm, Effective, EffectiveOf
  <1>i. NoLink.kind = "none" /\ NoEdit.pc = "idle"
    BY DEF NoLink, NoEdit, Write
  <1>0. ASSUME UNCHANGED linksVars
        PROVE  EditsOf' /\ RestOf'
    BY <1>0, <1>b, <1>c, <1>d DEF linksVars
  <1>1. ASSUME NEW v \in Visitors, NEW word \in Gates, Enter(v, word)
        PROVE  EditsOf' /\ RestOf'
    <2> DEFINE x == IF Passed(word) = Effective THEN "none" ELSE "proof"
    <2>0. /\ x = "none" => Passed(word) = Effective
          /\ visit' = [visit EXCEPT ![v] = Request("inserts", Inherit, Passed(word), closes, x)]
          /\ UNCHANGED <<tenantWord, formWord, closes>>
      BY <1>1 DEF Enter
    <2> HIDE DEF x
    <2>1. VisitsWereAsked'
      BY <1>g, <2>0
    <2> QED
      BY <1>1, <1>b, <1>c, <2>1 DEF Enter
  <1>2. ASSUME NEW v \in Visitors, NEW l \in Addresses, Reopen(v, l)
        PROVE  EditsOf' /\ RestOf'
    <2>1. /\ visit' = [visit EXCEPT ![v] = Request("rewrites", l, Ungated, closes, "none")]
          /\ UNCHANGED <<tenantWord, formWord, closes>>
      BY <1>2 DEF Reopen
    <2>2. VisitsWereAsked'
      BY <1>g, <2>1
    <2> QED
      BY <1>2, <1>b, <1>c, <2>2 DEF Reopen
  <1>3. ASSUME NEW v \in Visitors, GivesUpVisit(v)
        PROVE  EditsOf' /\ RestOf'
    BY <1>3, <1>b, <1>c, <1>f DEF GivesUpVisit
  <1>4. ASSUME NEW v \in Visitors, NEW l \in Addresses, NEW sort \in {"draft", "answer"},
               InsertLink(v, l, sort)
        PROVE  EditsOf' /\ RestOf'
    <2> DEFINE k == [kind |-> sort, gate |-> visit[v].gate,
                     exp |-> IF sort = "draft" THEN visit[v].exp ELSE Far, excuse |-> visit[v].excuse]
    <2>1. /\ k.kind = sort /\ k.gate = visit[v].gate /\ k.excuse = visit[v].excuse
          /\ sort = "draft" => k.exp = visit[v].exp
      OBVIOUS
    <2> HIDE DEF k
    <2>2. /\ links' = [links EXCEPT ![l] = k] /\ visit[v].pc = "inserts"
          /\ UNCHANGED <<tenantWord, formWord, closes, edit>>
          /\ visit' = [visit EXCEPT ![v] = NoVisit]
      BY <1>4 DEF InsertLink, k
    <2>3. Stands(k)
      BY <2>1, <2>2 DEF VisitsWereAsked, Stands
    <2>4. LinksAreTakenBack'
      BY <1>h, <2>2, <2>3
    <2> QED
      BY <1>b, <1>f, <2>2, <2>4
  <1>5. ASSUME NEW v \in Visitors, Rewrite(v)
        PROVE  EditsOf' /\ RestOf'
    <2> DEFINE l == visit[v].link
               k == Rewritten(links[l], visit[v])
    <2>1. /\ UNCHANGED <<tenantWord, formWord, closes, edit>>
          /\ visit' = [visit EXCEPT ![v] = NoVisit] /\ visit[v].pc = "rewrites"
          /\ links' = links \/ (links' = [links EXCEPT ![l] = k])
      BY <1>5 DEF Rewrite
    <2>2. LinksAreTakenBack'
      <3>1. CASE links' = links
        BY <1>c, <2>1, <3>1
      <3>2. CASE links' = [links EXCEPT ![l] = k] /\ l \in Addresses
        <4>1. /\ k.kind = links[l].kind /\ k.gate = links[l].gate /\ k.exp = visit[v].exp
              /\ k.excuse = IF visit[v].excuse = "none" THEN links[l].excuse ELSE visit[v].excuse
          BY <1>a, <3>2, LinksParts DEF Rewritten
        <4>2. Stands(k)
          <5> HIDE DEF k
          <5> QED
            BY <2>1, <3>2, <4>1 DEF VisitsWereAsked, LinksAreTakenBack, StandsBehindGate, Stands
        <4> HIDE DEF k, l
        <4> QED
          BY <1>h, <2>1, <3>2, <4>2
      <3>3. CASE links' = [links EXCEPT ![l] = k] /\ l \notin Addresses
        <4>1. links' = links
          BY <3>3 DEF LinksTypeOK
        <4> QED
          BY <1>c, <2>1, <4>1
      <3> QED
        BY <2>1, <3>1, <3>2, <3>3
    <2> QED
      BY <1>b, <1>f, <2>1, <2>2
  <1>6. ASSUME NEW l \in Addresses, Forget(l)
        PROVE  EditsOf' /\ RestOf'
    <2>1. LinksAreTakenBack'
      BY <1>6, <1>h, <1>i DEF Forget, Stands
    <2> QED
      BY <1>6, <1>b, <1>d, <2>1 DEF Forget
  \* One write changes alone.
  <1>7. ASSUME NEW e \in Editors, NEW d, UNCHANGED <<tenantWord, formWord, closes, links, visit>>,
               edit' = [edit EXCEPT ![e] = d],
               d.pc = "form" => d.revokes = Revokes(Effective, EffectiveOf(d.word)),
               d.pc \in {"tenant", "claimed"} =>
                 d.word \in Gates /\ d.revokes = Revokes(tenantWord, d.word),
               d.pc = "claimed" => \A c \in Editors : edit[c].pc # "claimed"
        PROVE  EditsOf' /\ RestOf'
    <2>1. /\ edit'[e] = d
          /\ \A c \in Editors \ {e} : edit'[c] = edit[c]
      BY <1>7 DEF LinksTypeOK
    <2>2. FormEditsCompare' /\ TenantEditsCompare'
      BY <1>7, <2>1 DEF FormEditsCompare, TenantEditsCompare, Effective, EffectiveOf
    <2>3. OneClaims'
      BY <1>7, <2>1 DEF OneClaims
    <2> QED
      BY <1>7, <1>c, <1>d, <2>2, <2>3
  <1>8. ASSUME NEW e \in Editors, NEW word \in Gates \cup {Inherit}, NEW deadline \in Deadlines,
               ReadForm(e, word, deadline)
        PROVE  EditsOf' /\ RestOf'
    <2> DEFINE r == Revokes(Effective, EffectiveOf(word))
               d == Write("form", word, deadline, r)
    <2>1. d.pc = "form" /\ d.word = word /\ d.revokes = r
      BY DEF Write
    <2>2. edit' = [edit EXCEPT ![e] = d] /\ UNCHANGED <<tenantWord, formWord, closes, links, visit>>
      BY <1>8 DEF ReadForm
    <2> HIDE DEF d
    <2> QED
      BY <1>7, <2>1, <2>2
  <1>9. ASSUME NEW e \in Editors, NEW word \in Gates, ReadTenant(e, word)
        PROVE  EditsOf' /\ RestOf'
    <2> DEFINE r == Revokes(tenantWord, word)
               d == Write("tenant", word, Far, r)
    <2>1. d.pc = "tenant" /\ d.word = word /\ d.revokes = r
      BY DEF Write
    <2>2. edit' = [edit EXCEPT ![e] = d] /\ UNCHANGED <<tenantWord, formWord, closes, links, visit>>
      BY <1>9 DEF ReadTenant
    <2> HIDE DEF d
    <2> QED
      BY <1>7, <2>1, <2>2
  <1>10. ASSUME NEW e \in Editors, ClaimTenant(e)
         PROVE  EditsOf' /\ RestOf'
    <2> DEFINE d == Claimed(edit[e], Inherits)
    <2>1. d.pc = "claimed" /\ d.word = edit[e].word /\ d.revokes = edit[e].revokes
      BY <1>a DEF Claimed, Edit
    <2>2. /\ edit' = [edit EXCEPT ![e] = d] /\ UNCHANGED <<tenantWord, formWord, closes, links, visit>>
          /\ edit[e].pc = "tenant" /\ edit[e].valid = TRUE
          /\ \A c \in Editors : edit[c].pc # "claimed"
      BY <1>10, <1>a, LinksParts DEF ClaimTenant
    <2> HIDE DEF d
    <2>3. d.word \in Gates /\ d.revokes = Revokes(tenantWord, d.word)
      BY <2>1, <2>2 DEF TenantEditsCompare
    <2> QED
      BY <1>7, <2>1, <2>2, <2>3
  <1>11. ASSUME NEW e \in Editors, EditFails(e)
         PROVE  EditsOf' /\ RestOf'
    <2> DEFINE d == NoEdit
    <2> HIDE DEF d
    <2>1. d.pc = "idle"
      BY <1>i DEF d
    <2>2. edit' = [edit EXCEPT ![e] = d] /\ UNCHANGED <<tenantWord, formWord, closes, links, visit>>
      BY <1>11 DEF EditFails, d
    <2> QED
      BY <1>7, <2>1, <2>2
  \* The others, when a write has committed.
  <1>j. \A d \in Editors, pc \in {"form", "tenant"} :
          /\ Overtaken(d, pc).pc = edit[d].pc
          /\ edit[d].pc = pc => Overtaken(d, pc).valid = FALSE
          /\ edit[d].pc # pc => Overtaken(d, pc) = edit[d]
    <2>1. \A pc \in {"form", "tenant"} :
            /\ [NoEdit EXCEPT !.pc = pc, !.valid = FALSE].pc = pc
            /\ [NoEdit EXCEPT !.pc = pc, !.valid = FALSE].valid = FALSE
      BY DEF NoEdit, Write
    <2> QED
      BY <1>a, <2>1 DEF Overtaken
  <1>12. ASSUME NEW e \in Editors, WriteForm(e)
         PROVE  EditsOf' /\ RestOf'
    <2> DEFINE b == edit[e].revokes
               c == edit[e].stale
               w == edit[e].word
    <2>1. /\ b \in BOOLEAN /\ c \in BOOLEAN /\ w \in Gates \cup {Inherit}
          /\ edit[e].closes \in Deadlines
      BY <1>a, LinksParts
    <2>2. /\ edit[e].pc = "form" /\ edit[e].valid = TRUE
          /\ formWord' = w /\ closes' = edit[e].closes /\ tenantWord' = tenantWord
          /\ links' = TakenBack(b, edit[e].closes, c) /\ VisitsAreLate
          /\ \A d \in Editors : edit'[d] = IF d = e THEN NoEdit ELSE Overtaken(d, "form")
      BY <1>12, <1>a, LinksParts DEF WriteForm
    <2>3. EditsOf'
      <3>1. FormEditsCompare'
        BY <1>i, <1>j, <2>2 DEF FormEditsCompare
      <3>2. TenantEditsCompare'
        BY <1>i, <1>j, <2>2 DEF TenantEditsCompare
      <3>3. OneClaims'
        BY <1>i, <1>j, <2>2 DEF OneClaims
      <3> QED
        BY <3>1, <3>2, <3>3
    <2>4. LinksAreTakenBack'
      <3> SUFFICES ASSUME NEW l \in Addresses, links'[l].kind # "none",
                          links'[l].excuse \in {"none", "proof"}
                   PROVE  /\ links'[l].excuse = "none" => Effective' \in {Ungated, links'[l].gate}
                          /\ links'[l].kind = "draft" => links'[l].exp <= closes'
        BY DEF LinksAreTakenBack, StandsBehindGate, DiesWithForm
      <3>1. /\ ~b /\ links'[l].kind = links[l].kind /\ links'[l].gate = links[l].gate
            /\ ~c /\ links'[l].excuse = links[l].excuse
            /\ links[l].kind = "draft" => links'[l].exp <= edit[e].closes
        <4> HIDE DEF b, c
        <4> QED
          BY <1>i, <2>1, <2>2, TakenBackOf
      <3>2. links[l].excuse = "none" => Effective \in {Ungated, links[l].gate}
        BY <3>1 DEF LinksAreTakenBack, StandsBehindGate
      <3>3. Effective' = EffectiveOf(w)
        BY <2>2 DEF Effective, EffectiveOf
      <3>4. ~Revokes(Effective, EffectiveOf(w))
        BY <2>2, <3>1 DEF FormEditsCompare
      <3> QED
        BY <2>2, <3>1, <3>2, <3>3, <3>4 DEF Revokes
    <2> QED
      BY <1>e, <2>2, <2>3, <2>4
  <1>13. ASSUME NEW e \in Editors, CommitTenant(e)
         PROVE  EditsOf' /\ RestOf'
    <2> DEFINE b == edit[e].revokes /\ edit[e].reaches
               c == edit[e].reaches # Inherits
               w == edit[e].word
    <2>1. /\ b \in BOOLEAN /\ c \in BOOLEAN
          /\ c = FALSE => edit[e].reaches = Inherits
      OBVIOUS
    <2>2. /\ edit[e].pc = "claimed"
          /\ formWord' = formWord /\ closes' = closes /\ tenantWord' = w
          /\ links' = TakenBack(b, Far, c) /\ VisitsAreLate
          /\ \A d \in Editors : edit'[d] = IF d = e THEN NoEdit ELSE Crossed(d)
      BY <1>13 DEF CommitTenant
    <2>3. w \in Gates /\ edit[e].revokes = Revokes(tenantWord, w)
      BY <2>2 DEF TenantEditsCompare
    <2>4. \A d \in Editors : /\ Crossed(d).pc = edit[d].pc
                             /\ edit[d].pc = "form" => Crossed(d).stale = TRUE
                             /\ edit[d].pc = "tenant" => Crossed(d).valid = FALSE
      <3>1. \A x \in Edit : /\ [x EXCEPT !.stale = TRUE].pc = x.pc
                            /\ [x EXCEPT !.stale = TRUE].stale = TRUE
        BY DEF Edit
      <3> QED
        BY <1>a, <1>j, <3>1 DEF Crossed
    <2>5. \A d \in Editors :
            /\ edit'[d].pc \in {edit[d].pc, "idle"}
            /\ edit'[d].pc = "form" => edit'[d].stale = TRUE
            /\ edit'[d].pc = "tenant" => edit'[d].valid = FALSE
            /\ edit'[d].pc = "claimed" => d # e /\ edit[d].pc = "claimed"
      BY <1>i, <2>2, <2>4
    <2>6. \A d \in Editors : edit'[d].pc # "claimed"
      BY <2>2, <2>5 DEF OneClaims
    <2>7. EditsOf'
      BY <2>5, <2>6 DEF FormEditsCompare, TenantEditsCompare, OneClaims
    <2>8. LinksAreTakenBack'
      <3> SUFFICES ASSUME NEW l \in Addresses, links'[l].kind # "none",
                          links'[l].excuse \in {"none", "proof"}
                   PROVE  /\ links'[l].excuse = "none" => Effective' \in {Ungated, links'[l].gate}
                          /\ links'[l].kind = "draft" => links'[l].exp <= closes'
        BY DEF LinksAreTakenBack, StandsBehindGate, DiesWithForm
      <3>1. /\ ~b /\ links'[l].kind = links[l].kind /\ links'[l].gate = links[l].gate
            /\ ~c /\ links'[l].excuse = links[l].excuse /\ links'[l].exp <= links[l].exp
        <4> HIDE DEF b, c
        <4> QED
          BY <1>i, <2>1, <2>2, LinksParts, TakenBackOf
      <3>2. /\ links[l].excuse = "none" => Effective \in {Ungated, links[l].gate}
            /\ links[l].kind = "draft" => links[l].exp <= closes
        BY <3>1 DEF LinksAreTakenBack, StandsBehindGate, DiesWithForm
      <3>4. links'[l].kind = "draft" => links'[l].exp <= closes'
        <4>1. links'[l].exp \in Nat /\ links[l].exp \in Nat
          BY <1>a, LinksParts DEF LinksTypeOK
        <4> QED
          BY <1>a, <2>2, <3>1, <3>2, <4>1
      <3>3. CASE formWord = Inherit
        <4>1. edit[e].reaches = TRUE
          BY <2>1, <3>1, <3>3 DEF Inherits
        <4>2. ~Revokes(tenantWord, w)
          BY <2>3, <3>1, <4>1
        <4>3. Effective = tenantWord /\ Effective' = w
          BY <2>2, <3>3 DEF Effective, EffectiveOf
        <4>4. links'[l].excuse = "none" => Effective' \in {Ungated, links'[l].gate}
          BY <3>1, <3>2, <4>2, <4>3 DEF Revokes
        <4> QED
          BY <4>4, <3>4
      <3>5. CASE formWord # Inherit
        <4>1. Effective' = Effective
          BY <2>2, <3>5 DEF Effective, EffectiveOf
        <4> QED
          BY <3>1, <3>2, <3>4, <4>1
      <3> QED
        BY <3>3, <3>5
    <2> QED
      BY <1>e, <2>2, <2>7, <2>8
  <1> HIDE DEF EditsOf, RestOf
  <1>14. EditsOf' /\ RestOf'
    BY <1>0, <1>1, <1>2, <1>3, <1>4, <1>5, <1>6, <1>8, <1>9, <1>10, <1>11, <1>12, <1>13 DEF LinksNext
  <1> QED
    BY <1>14 DEF EditsOf, RestOf

(* What a settings write has compared still holds when it commits, or it is *)
(* marked as crossed (replaceOfForm, replaceOfTenant).                      *)
THEOREM LinksInvariance == LinksSpec => []LinksInv
  <1>1. LinksInit => LinksInv
    <2> SUFFICES ASSUME LinksInit PROVE LinksInv
      OBVIOUS
    <2>1. LinksTypeOK
      BY LinksParts DEF LinksInit, LinksTypeOK, Gates
    <2>2. /\ \A l \in Addresses : links[l].kind = "none"
          /\ \A v \in Visitors : visit[v].pc = "idle"
          /\ \A e \in Editors : edit[e].pc = "idle"
      BY DEF LinksInit, NoLink, NoVisit, NoEdit, Request, Write
    <2> QED
      BY <2>1, <2>2 DEF LinksInv, FormEditsCompare, TenantEditsCompare, OneClaims,
                        VisitsWereAsked, LinksAreTakenBack, StandsBehindGate, DiesWithForm
  <1>2. LinksInv /\ [LinksNext]_linksVars => LinksInv'
    BY LinksTypes, LinksStep DEF LinksInv
  <1> QED
    BY <1>1, <1>2, PTL DEF LinksSpec

(* Every address, request and settings write keeps its type, for any number *)
(* of words, addresses and writers.                                         *)
THEOREM LinksTypeCorrect == LinksSpec => []LinksTypeOK
  BY LinksInvariance, PTL DEF LinksInv

(* A settings write takes back every address that does not stand behind the *)
(* gate it leaves, but what was got with an older proof, was under way, or  *)
(* was crossed by another write.                                            *)
THEOREM LinksAreTakenBackHolds == LinksSpec => []LinksAreTakenBack
  <1>1. LinksInv => LinksAreTakenBack
    BY DEF LinksInv
  <1> QED
    BY <1>1, LinksInvariance, PTL

-----------------------------------------------------------------------------
(* Answers.  visibleQuestionIds is a loop over the questions, so what is    *)
(* said of it for every form rests on an induction over the document.  The  *)
(* naturals are well founded, so a set of them has a least element; every   *)
(* induction below looks at the first question for which it would fail.     *)
LEMMA FirstOne ==
  ASSUME NEW T \in SUBSET Nat, T # {}
  PROVE  \E n \in T : \A k \in T : n <= k
<1>1. IsWellFoundedOn(OpToRel(<, Nat), Nat)
  BY NatLessThanWellFounded
<1>2. PICK n \in T : \A k \in T : ~(<<k, n>> \in OpToRel(<, Nat))
  BY <1>1, WFMin
<1>3. \A k \in T : ~(k < n)
  BY <1>2 DEF OpToRel
<1> QED BY <1>3

\* One turn of the loop, and the loop as far as question k.
Turn(v, n, answers) ==
  IF n = 0 THEN {} ELSE v[n - 1] \cup {q \in {n} : Shown(q, v[n - 1], answers)}
Loop(v, k, answers) == v = [n \in 0..k |-> Turn(v, n, answers)]

\* The loop can be run to its end.
LEMMA LoopRuns ==
  ASSUME NEW answers
  PROVE  \E v : Loop(v, Questions, answers)
<1> DEFINE T == {k \in 0..Questions : ~ \E v : Loop(v, k, answers)}
<1>1. ASSUME T # {} PROVE FALSE
  <2>1. PICK k \in T : \A j \in T : k <= j
    <3>1. T \in SUBSET Nat
      BY QuestionsAssumption
    <3> HIDE DEF T
    <3> QED BY <1>1, <3>1, FirstOne
  <2>2. k \in 0..Questions /\ ~ \E v : Loop(v, k, answers)
    OBVIOUS
  <2>3. CASE k = 0
    <3> DEFINE v == [n \in 0..0 |-> {}]
    <3>1. v = [n \in 0..0 |-> Turn(v, n, answers)]
      BY DEF Turn
    <3> QED BY <2>2, <2>3, <3>1 DEF Loop
  <2>4. CASE k # 0
    <3>1. k - 1 \in 0..Questions /\ k - 1 \notin T
      BY <2>1, <2>2, <2>4, QuestionsAssumption
    <3>2. PICK u : u = [n \in 0..(k - 1) |-> Turn(u, n, answers)]
      BY <3>1 DEF Loop
    <3> DEFINE v == [n \in 0..k |-> IF n < k THEN u[n] ELSE Turn(u, n, answers)]
    <3>3. \A n \in 0..k : v[n] = Turn(v, n, answers)
      <4> TAKE n \in 0..k
      <4>1. n # 0 => v[n - 1] = u[n - 1]
        BY <2>2
      <4>2. Turn(v, n, answers) = Turn(u, n, answers)
        <5> HIDE DEF v
        <5> QED BY <4>1 DEF Turn
      <4>3. n < k => u[n] = Turn(u, n, answers)
        BY <2>2, <3>2
      <4> QED BY <4>2, <4>3
    <3>4. v = [n \in 0..k |-> v[n]]
      OBVIOUS
    <3>5. v = [n \in 0..k |-> Turn(v, n, answers)]
      <4> HIDE DEF v
      <4> QED BY <3>3, <3>4
    <3> QED BY <2>2, <3>5 DEF Loop
  <2> QED BY <2>3, <2>4
<1>2. Questions \in 0..Questions
  BY QuestionsAssumption
<1> QED BY <1>1, <1>2

\* And what the view and the server compute is where it ends.
LEMMA VisibleIsTheEnd ==
  ASSUME NEW answers
  PROVE  \E v : Loop(v, Questions, answers) /\ VisibleQuestions(answers) = v[Questions]
<1> DEFINE v == CHOOSE v : v = [n \in 0..Questions |->
                                 IF n = 0 THEN {}
                                 ELSE v[n - 1] \cup {q \in {n} : Shown(q, v[n - 1], answers)}]
<1>1. VisibleQuestions(answers) = v[Questions]
  BY DEF VisibleQuestions
<1>2. \E u : u = [n \in 0..Questions |->
                   IF n = 0 THEN {}
                   ELSE u[n - 1] \cup {q \in {n} : Shown(q, u[n - 1], answers)}]
  BY LoopRuns DEF Loop, Turn
<1>3. v = [n \in 0..Questions |->
             IF n = 0 THEN {}
             ELSE v[n - 1] \cup {q \in {n} : Shown(q, v[n - 1], answers)}]
  BY <1>2, Zenon
<1>4. Loop(v, Questions, answers)
  BY <1>3 DEF Loop, Turn
<1> QED BY <1>1, <1>4

\* A set of questions explains itself: each is in it if its condition is met there.
IsPass(S, answers) ==
  /\ S \subseteq Asked
  /\ \A q \in Asked : q \in S <=> Shown(q, S, answers)

\* A condition asks about an earlier question.
LEMMA SourceIsBefore ==
  ASSUME AnswersTypeOK, NEW q \in Asked, Resolvable(q)
  PROVE  form[q].visibleIf.of \in Asked /\ form[q].visibleIf.of < q
<1>1. form[q].visibleIf \in Condition \cup {Always}
  BY DEF AnswersTypeOK, Form
<1>2. form[q].visibleIf \in Condition
  BY <1>1 DEF Resolvable
<1> QED BY <1>2 DEF Condition, Resolvable

\* What is shown depends on the set only where the condition looks.
LEMMA ShownLooksBack ==
  ASSUME AnswersTypeOK, NEW q \in Asked, NEW S, NEW T, NEW answers,
         \A p \in Asked : p < q => (p \in S <=> p \in T)
  PROVE  Shown(q, S, answers) <=> Shown(q, T, answers)
BY SourceIsBefore DEF Shown

\* A turn adds its own question and no other.
LEMMA TurnAddsOne ==
  ASSUME NEW v, NEW answers, Loop(v, Questions, answers), NEW n \in Asked
  PROVE  /\ v[0] = {}
         /\ \A q : q \in v[n] <=> \/ q \in v[n - 1]
                                  \/ q = n /\ Shown(n, v[n - 1], answers)
<1>1. n \in 0..Questions /\ n # 0 /\ 0 \in 0..Questions
  BY QuestionsAssumption DEF Asked
<1>2. v[n] = Turn(v, n, answers) /\ v[0] = Turn(v, 0, answers)
  BY <1>1 DEF Loop
<1> QED BY <1>1, <1>2 DEF Turn

\* The loop decides about a question once, in its own turn.
LEMMA DecidedOnce ==
  ASSUME NEW v, NEW answers, Loop(v, Questions, answers), NEW n \in 0..Questions
  PROVE  \A q : q \in v[n] <=> q \in 1..n /\ q \in v[q]
<1> DEFINE Once(k) == \A q : q \in v[k] <=> q \in 1..k /\ q \in v[q]
           T == {k \in 0..Questions : ~Once(k)}
<1>1. ASSUME T # {} PROVE FALSE
  <2>1. PICK k \in T : \A j \in T : k <= j
    <3>1. T \in SUBSET Nat
      BY QuestionsAssumption
    <3> HIDE DEF T
    <3> QED BY <1>1, <3>1, FirstOne
  <2>2. k \in 0..Questions /\ ~Once(k)
    OBVIOUS
  <2>3. k # 0
    <3>1. 0 \in 0..Questions
      BY QuestionsAssumption
    <3>2. v[0] = {}
      BY <3>1 DEF Loop, Turn
    <3>3. Once(0)
      BY <3>2
    <3> QED BY <2>2, <3>3
  <2>4. k \in Asked /\ k - 1 \in 0..Questions /\ k - 1 \notin T
    BY <2>1, <2>2, <2>3, QuestionsAssumption DEF Asked
  <2>5. Once(k - 1)
    BY <2>4
  <2>6. \A q : q \in v[k] <=> \/ q \in v[k - 1]
                              \/ q = k /\ Shown(k, v[k - 1], answers)
    BY <2>4, TurnAddsOne
  <2>7. ASSUME NEW q PROVE q \in v[k] <=> q \in 1..k /\ q \in v[q]
    <3>1. q \in 1..k <=> q \in 1..(k - 1) \/ q = k
      BY <2>4 DEF Asked
    <3>2. q \in v[k - 1] <=> q \in 1..(k - 1) /\ q \in v[q]
      BY <2>5
    <3>3. k \notin 1..(k - 1)
      BY <2>4 DEF Asked
    <3>4. CASE q = k
      BY <3>1, <3>4
    <3>5. CASE q # k
      BY <2>6, <3>1, <3>2, <3>5
    <3> QED BY <3>4, <3>5
  <2> QED BY <2>2, <2>7
<1> QED BY <1>1

\* So the visible questions explain themselves.
LEMMA VisibleIsPass ==
  ASSUME AnswersTypeOK, NEW answers
  PROVE  IsPass(VisibleQuestions(answers), answers)
<1>1. PICK v : Loop(v, Questions, answers) /\ VisibleQuestions(answers) = v[Questions]
  BY VisibleIsTheEnd
<1> DEFINE S == VisibleQuestions(answers)
<1>2. \A q : q \in S <=> q \in Asked /\ q \in v[q]
  BY <1>1, DecidedOnce, QuestionsAssumption DEF Asked
<1>3. ASSUME NEW q \in Asked PROVE q \in S <=> Shown(q, S, answers)
  <2>1. q - 1 \in 0..Questions /\ q \in Nat
    BY QuestionsAssumption DEF Asked
  <2>2. \A p : p \in v[q - 1] <=> p \in 1..(q - 1) /\ p \in v[p]
    BY <1>1, <2>1, DecidedOnce
  <2>3. q \in v[q] <=> Shown(q, v[q - 1], answers)
    <3>1. q \notin v[q - 1]
      BY <2>1, <2>2
    <3> QED BY <1>1, <3>1, TurnAddsOne
  <2>4. \A p \in Asked : p < q => (p \in v[q - 1] <=> p \in S)
    <3> TAKE p \in Asked
    <3> HAVE p < q
    <3>1. p \in 1..(q - 1)
      BY <2>1 DEF Asked
    <3> HIDE DEF S
    <3> QED BY <1>2, <2>2, <3>1
  <2>5. Shown(q, v[q - 1], answers) <=> Shown(q, S, answers)
    <3> HIDE DEF S
    <3> QED BY <2>4, ShownLooksBack
  <2> HIDE DEF S
  <2> QED BY <1>2, <2>3, <2>5
<1> HIDE DEF S
<1>4. IsPass(S, answers)
  BY <1>2, <1>3 DEF IsPass
<1> QED BY <1>4 DEF S

\* And they are the only set that does: the first question two such sets
\* disagree about would have a condition they agree about.
LEMMA PassIsUnique ==
  ASSUME AnswersTypeOK, NEW S, NEW T, NEW answers, IsPass(S, answers), IsPass(T, answers)
  PROVE  S = T
<1> DEFINE D == {q \in Asked : ~(q \in S <=> q \in T)}
<1>1. ASSUME D # {} PROVE FALSE
  <2>1. PICK q \in D : \A p \in D : q <= p
    <3>1. D \in SUBSET Nat
      BY DEF Asked
    <3> HIDE DEF D
    <3> QED BY <1>1, <3>1, FirstOne
  <2>2. \A p \in Asked : p < q => (p \in S <=> p \in T)
    BY <2>1, QuestionsAssumption DEF Asked
  <2>3. Shown(q, S, answers) <=> Shown(q, T, answers)
    BY <2>2, ShownLooksBack
  <2> QED BY <2>3 DEF IsPass
<1> QED BY <1>1 DEF IsPass

\* Spelling a second time changes nothing.
LEMMA SpelledOnce ==
  ASSUME NEW v \in Values
  PROVE  /\ Normalised(v) \in Values
         /\ Normalised(Normalised(v)) = Normalised(v)
         /\ Lower(v) = Normalised(v)
         /\ Parses(v) => Parses(Normalised(v)) /\ Normalised(v) \in {"a", "A"}
         /\ Blank(v) => Blank(Normalised(v))
         /\ Blank("none") /\ "none" \in Values
BY DEF Values, Normalised, Parses, Lower, Blank

\* What a set of answers is kept as.
LEMMA ParsedIs ==
  ASSUME NEW answers \in [Asked -> Values], NEW e \in BOOLEAN
  PROVE  /\ Parsed(answers, e) \in [Asked -> Values]
         /\ \A q \in Asked :
              /\ q \notin VisibleQuestions(answers) => Parsed(answers, e)[q] = "none"
              /\ q \in VisibleQuestions(answers) =>
                   /\ Demanded(q, e) => Parsed(answers, e)[q] = answers[q]
                   /\ ~Demanded(q, e) => Parsed(answers, e)[q] = Normalised(answers[q])
<1>1. \A q \in Asked : answers[q] \in Values /\ Normalised(answers[q]) \in Values
  BY SpelledOnce
<1>2. "none" \in Values
  BY DEF Values
<1> QED BY <1>1, <1>2 DEF Parsed

\* On the screen, the kept answer judges every condition as the typed one did.
LEMMA KeptJudgesAlike ==
  ASSUME NEW answers \in [Asked -> Values], NEW e \in BOOLEAN,
         NEW q \in Asked, q \in VisibleQuestions(answers)
  PROVE  Normalised(Parsed(answers, e)[q]) = Normalised(answers[q])
<1>1. answers[q] \in Values
  OBVIOUS
<1> QED BY <1>1, SpelledOnce, ParsedIs

\* So the screen of what is kept is the screen it was typed on.
LEMMA SameScreen ==
  ASSUME AnswersTypeOK, NEW answers \in [Asked -> Values], NEW e \in BOOLEAN
  PROVE  VisibleQuestions(Parsed(answers, e)) = VisibleQuestions(answers)
<1> DEFINE S == VisibleQuestions(answers)
           kept == Parsed(answers, e)
<1>1. IsPass(S, answers) /\ IsPass(VisibleQuestions(kept), kept)
  BY VisibleIsPass
<1>2. \A p \in S : Normalised(kept[p]) = Normalised(answers[p])
  BY <1>1, KeptJudgesAlike DEF IsPass
<1> HIDE DEF S, kept
<1>3. \A q \in Asked : Shown(q, S, answers) <=> Shown(q, S, kept)
  BY <1>2 DEF Shown
<1>4. IsPass(S, kept)
  BY <1>1, <1>3 DEF IsPass
<1>5. VisibleQuestions(kept) = S
  BY <1>1, <1>4, PassIsUnique
<1> QED BY <1>5 DEF S, kept

\* A row that a screen explains comes back unchanged.
Explains(S) ==
  /\ IsPass(S, stored)
  /\ \A q \in Asked : q \notin S => stored[q] = "none"
  /\ \A q \in S : \/ Parses(stored[q])
                  \/ ~Demanded(q, kind = "answer") /\ Blank(stored[q])
  /\ \A q \in S : ~Demanded(q, kind = "answer") => Normalised(stored[q]) = stored[q]

LEMMA ExplainedComesBack ==
  AnswersTypeOK /\ (\E S : Explains(S)) => ComesBackUnchanged
<1> SUFFICES ASSUME AnswersTypeOK, NEW S, Explains(S) PROVE ComesBackUnchanged
  OBVIOUS
<1>1. VisibleQuestions(stored) = S /\ S \subseteq Asked
  BY VisibleIsPass, PassIsUnique DEF Explains, IsPass
<1>2. Accepts(stored, kind = "answer")
  BY <1>1 DEF Accepts, Explains
<1>3. stored \in [Asked -> Values] /\ (kind = "answer") \in BOOLEAN
  BY DEF AnswersTypeOK
<1>4. Parsed(stored, kind = "answer") \in [Asked -> Values]
  BY <1>3, ParsedIs
<1>5. \A q \in Asked : Parsed(stored, kind = "answer")[q] = stored[q]
  BY <1>1, <1>3, ParsedIs DEF Explains
<1>6. Parsed(stored, kind = "answer") = stored
  BY <1>3, <1>4, <1>5
<1> QED BY <1>2, <1>6 DEF ComesBackUnchanged

\* And it is the only screen that explains it.
LEMMA ExplainedIsOnScreen ==
  ASSUME AnswersTypeOK, NEW S, Explains(S) PROVE KeptIsOnScreen
<1>1. ASSUME NEW T \in SUBSET Asked PROVE IsScreen(T) <=> IsPass(T, stored)
  <2>1. ASSUME NEW q \in Asked
        PROVE  Shown(q, T, stored) <=>
                 \/ form[q].visibleIf = Always
                 \/ form[q].visibleIf.of >= q
                 \/ /\ form[q].visibleIf.of \in T
                    /\ Holds(form[q].visibleIf, Lower(stored[form[q].visibleIf.of]))
    <3>1. form[q].visibleIf \in Condition \cup {Always}
      BY DEF AnswersTypeOK, Form
    <3>2. form[q].visibleIf # Always =>
            form[q].visibleIf.of \in Asked /\ form[q].visibleIf.of \in Nat /\ q \in Nat
      BY <3>1 DEF Condition, Asked
    <3>3. \A p \in Asked : Lower(stored[p]) = Normalised(stored[p])
      BY SpelledOnce DEF AnswersTypeOK
    <3>4. Resolvable(q) <=> /\ form[q].visibleIf # Always
                            /\ ~(form[q].visibleIf.of >= q)
      BY <3>2 DEF Resolvable
    <3> QED BY <3>2, <3>3, <3>4 DEF Shown
  <2> QED BY <2>1 DEF IsScreen, IsPass
<1>2. S \in SUBSET Asked /\ IsPass(S, stored)
  BY DEF Explains, IsPass
<1>3. \A T \in SUBSET Asked : IsScreen(T) => T = S
  BY <1>1, <1>2, PassIsUnique
<1>4. kind = "answer" => \A q \in S : form[q].required => stored[q] \in {"a", "A"}
  BY DEF Explains, Demanded, Parses
<1> QED BY <1>1, <1>2, <1>3, <1>4 DEF KeptIsOnScreen, Explains

(* The inductive invariant: a row has a screen that explains it.            *)
AnswersInv == AnswersTypeOK /\ (kind # "none" => \E S : Explains(S))

\* What is explained stands.
LEMMA ExplainedStands == AnswersInv => AnswersStand
BY ExplainedComesBack, ExplainedIsOnScreen DEF AnswersInv, AnswersStand

\* Every write leaves a row that its screen explains.
LEMMA KeptStands ==
  ASSUME AnswersTypeOK, NEW answers \in [Asked -> Values], NEW e \in BOOLEAN,
         Accepts(answers, e), stored' = Parsed(answers, e), UNCHANGED form,
         kind' \in {"answer", "draft"}, kind' = "answer" <=> e = TRUE
  PROVE  AnswersInv'
<1>0. PICK S : S = VisibleQuestions(answers)
  OBVIOUS
<1>1. AnswersTypeOK'
  BY ParsedIs DEF AnswersTypeOK
<1>2. Explains(S)'
  <2>1. stored' \in [Asked -> Values] /\ VisibleQuestions(stored') = S
    BY <1>0, ParsedIs, SameScreen
  <2>2. IsPass(S, stored')
    BY <2>1, VisibleIsPass
  <2>3. IsPass(S, stored)'
    BY <2>2 DEF IsPass, Shown, Resolvable
  <2>4. \A q : Demanded(q, kind = "answer")' <=> Demanded(q, e)
    BY DEF Demanded
  <2>5. \A q \in Asked :
          /\ q \notin S => stored'[q] = "none"
          /\ q \in S /\ Demanded(q, e) => stored'[q] = answers[q]
          /\ q \in S /\ ~Demanded(q, e) => stored'[q] = Normalised(answers[q])
    BY <1>0, ParsedIs
  <2>6. \A q \in S : Parses(answers[q]) \/ (~Demanded(q, e) /\ Blank(answers[q]))
    BY <1>0 DEF Accepts
  <2>7. ASSUME NEW q \in S
        PROVE  /\ Parses(stored'[q]) \/ (~Demanded(q, e) /\ Blank(stored'[q]))
               /\ ~Demanded(q, e) => Normalised(stored'[q]) = stored'[q]
    <3>1. q \in Asked /\ answers[q] \in Values
      BY <2>2 DEF IsPass
    <3>2. CASE Demanded(q, e)
      BY <2>5, <2>6, <3>1, <3>2
    <3>3. CASE ~Demanded(q, e)
      BY <2>5, <2>6, <3>1, <3>3, SpelledOnce
    <3> QED BY <3>2, <3>3
  <2> QED BY <2>3, <2>4, <2>5, <2>7 DEF Explains
<1> QED BY <1>1, <1>2 DEF AnswersInv

\* The first row is empty and belongs to a form; every write keeps the rest.
LEMMA AnswersStep == AnswersInv /\ [AnswersNext]_answersVars => AnswersInv'
<1> SUFFICES ASSUME AnswersInv, [AnswersNext]_answersVars PROVE AnswersInv'
  OBVIOUS
<1>0. AnswersTypeOK
  BY DEF AnswersInv
<1>1. ASSUME NEW answers \in Typed, SaveDraft(answers) \/ Submit(answers)
      PROVE  AnswersInv'
  <2>1. answers \in [Asked -> Values]
    <3>1. CASE kind = "none"
      BY <3>1 DEF Typed
    <3>2. CASE kind # "none"
      <4>1. PICK q \in Asked, v \in Values : answers = [stored EXCEPT ![q] = v]
        BY <3>2 DEF Typed
      <4>2. stored \in [Asked -> Values]
        BY <1>0 DEF AnswersTypeOK
      <4> QED BY <4>1, <4>2
    <3> QED BY <3>1, <3>2
  <2>2. CASE SaveDraft(answers)
    <3>1. /\ Accepts(answers, FALSE) /\ stored' = Parsed(answers, FALSE)
          /\ UNCHANGED form /\ kind' = "draft"
      BY <2>2 DEF SaveDraft
    <3>2. FALSE \in BOOLEAN /\ (kind' = "answer" <=> FALSE = TRUE)
      BY <3>1
    <3> QED BY <1>0, <2>1, <3>1, <3>2, KeptStands
  <2>3. CASE Submit(answers)
    <3>1. /\ Accepts(answers, TRUE) /\ stored' = Parsed(answers, TRUE)
          /\ UNCHANGED form /\ kind' = "answer"
      BY <2>3 DEF Submit
    <3>2. TRUE \in BOOLEAN /\ (kind' = "answer" <=> TRUE = TRUE)
      BY <3>1
    <3> QED BY <1>0, <2>1, <3>1, <3>2, KeptStands
  <2> QED BY <1>1, <2>2, <2>3
<1>2. CASE UNCHANGED answersVars
  <2>1. AnswersTypeOK'
    BY <1>0, <1>2 DEF answersVars, AnswersTypeOK
  <2>2. ASSUME NEW S, Explains(S) PROVE Explains(S)'
    BY <1>2, <2>2 DEF answersVars, Explains, IsPass, Shown, Resolvable, Demanded
  <2> QED BY <1>2, <2>1, <2>2 DEF AnswersInv, answersVars
<1> QED BY <1>1, <1>2 DEF AnswersNext

\* No row yet: nothing to explain.
LEMMA AnswersFirst == AnswersInit => AnswersInv
BY DEF AnswersInit, AnswersInv, AnswersTypeOK, Values

(* What a form keeps is explained by a screen, for forms of any length and  *)
(* whatever is typed, saved, corrected and submitted.                       *)
THEOREM AnswersInvariance == AnswersSpec => []AnswersInv
BY AnswersFirst, AnswersStep, PTL DEF AnswersSpec

(* What is stored comes back unchanged in the next draft or correction, and *)
(* belongs to the one screen its conditions allow: toStoredAnswers drops    *)
(* what is hidden and spells the rest so that every condition is judged     *)
(* again as it was.                                                         *)
THEOREM AnswersStandHolds == AnswersSpec => []AnswersStand
BY AnswersInvariance, ExplainedStands, PTL

-----------------------------------------------------------------------------
(* All of a form.  MCForms follows one part at a time; whichever it is, the *)
(* behaviour is one of each part.                                           *)
LEMMA FormsAreEach == FormsSpec => BuilderSpec /\ LinksSpec /\ AnswersSpec
<1>1. FormsInit => BuilderInit /\ LinksInit /\ AnswersInit
  BY DEF FormsInit
<1>2. [FormsNext]_formVars => /\ [BuilderNext]_builderVars
                              /\ [LinksNext]_linksVars
                              /\ [AnswersNext]_answersVars
  BY DEF FormsNext, formVars
<1> QED BY <1>1, <1>2, PTL DEF FormsSpec, BuilderSpec, LinksSpec, AnswersSpec

\* The part that moves is one of the three.
LEMMA FormsPart == FormsSpec => [](part \in {"builder", "links", "answers"})
<1>1. FormsInit => part \in {"builder", "links", "answers"}
  BY DEF FormsInit
<1>2. part \in {"builder", "links", "answers"} /\ [FormsNext]_formVars
        => (part \in {"builder", "links", "answers"})'
  BY DEF FormsNext, formVars
<1> QED BY <1>1, <1>2, PTL DEF FormsSpec

(* Draft, versions, settings, addresses and answers of a form keep their    *)
(* types, whichever part moves (versions.service.ts, settings.service.ts,   *)
(* public-forms.service.ts).                                                *)
THEOREM FormsTypeCorrect == FormsSpec => []FormsTypeOK
<1>1. AnswersInv => AnswersTypeOK
  BY DEF AnswersInv
<1>2. part \in {"builder", "links", "answers"} /\ BuilderTypeOK /\ LinksTypeOK /\ AnswersTypeOK
        => FormsTypeOK
  <2> SUFFICES ASSUME part \in {"builder", "links", "answers"},
                      BuilderTypeOK, LinksTypeOK, AnswersTypeOK
               PROVE  FormsTypeOK
    OBVIOUS
  <2>1. CASE part = "builder"
    BY <2>1 DEF FormsTypeOK
  <2>2. CASE part = "links"
    BY <2>2 DEF FormsTypeOK
  <2>3. CASE part = "answers"
    BY <2>3 DEF FormsTypeOK
  <2> QED BY <2>1, <2>2, <2>3
<1> QED BY <1>1, <1>2, FormsAreEach, FormsPart, BuilderTypeCorrect, LinksTypeCorrect,
           AnswersInvariance, PTL

(* What the run checks of a form holds of all of it: versions stand, words  *)
(* and deadlines are taken back, answers belong to their screen.            *)
THEOREM FormsHold == FormsSpec => [](VersionsStand /\ LinksAreTakenBack /\ AnswersStand)
BY FormsAreEach, VersionsStandHolds, LinksAreTakenBackHolds, AnswersStandHolds, PTL
=============================================================================
