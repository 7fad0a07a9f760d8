------------------------------- MODULE Builder -------------------------------
(***************************************************************************)
(* The form editor: builder-store.ts, BuilderView.tsx, use-draft-guard.ts  *)
(* and api/forms.ts in each tab; forms.service.ts and the form delegate of *)
(* tenant-scope.ts on the server.  One form, several tabs.                 *)
(*                                                                         *)
(* A save and a publication claim a revision.  A publication reads the     *)
(* draft and compares it with the version in force before it claims; the   *)
(* answer to both is read again afterwards.  Other tabs act in between,    *)
(* and the editor of the same tab goes on typing.                          *)
(***************************************************************************)
EXTENDS Integers, Sequences

CONSTANTS
  Tabs,
  Texts,          \* definitions a draft may hold; a title goes with each save
  NewText,        \* the draft of a form just created
  MaxRevision,    \* bound: revisions a form may reach
  TypesInFlight   \* the editor types while a save or a publication is pending

ASSUME BuilderAssumption ==
  /\ NewText \in Texts
  /\ MaxRevision \in Nat \ {0}
  /\ TypesInFlight \in BOOLEAN

VARIABLES
  texts,      \* the draft at each revision; the row holds the last
  versions,   \* form_version rows, in order: the text and the revision claimed
  tab,        \* the store of each tab
  query,      \* the revision each tab's query cache holds
  save,       \* the save each tab waits for
  pub         \* the publication each tab waits for

builderVars == <<texts, versions, tab, query, save, pub>>

Revisions == 1..MaxRevision
Version   == [text : Texts, of : Revisions]
Tab       == [open : BOOLEAN, text : Texts, rev : Revisions, dirty : BOOLEAN]
Call      == [pc : {"none", "sent", "read", "done"}, rev : Revisions, text : Texts]

NoCall    == [pc |-> "none", rev |-> 1, text |-> NewText]
Done      == [NoCall EXCEPT !.pc = "done"]
Closed    == [open |-> FALSE, text |-> NewText, rev |-> 1, dirty |-> FALSE]

-----------------------------------------------------------------------------
Revision == Len(texts)
Draft    == texts[Len(texts)]

Unpublished(n, text) == text \notin {versions[k].text : k \in {n} \ {0}}

Shows(rev)  == [open |-> TRUE, text |-> texts[rev], rev |-> rev, dirty |-> FALSE]
Pending(t)  == save[t].pc # "none" \/ pub[t].pc # "none"

BuilderInit ==
  /\ texts = <<NewText>> /\ versions = <<>>
  /\ tab = [t \in Tabs |-> Closed]
  /\ query = [t \in Tabs |-> 1]
  /\ save = [t \in Tabs |-> NoCall] /\ pub = [t \in Tabs |-> NoCall]

-----------------------------------------------------------------------------
(* In the tab. *)

(* A cached snapshot fills the store at once; the refetch does not reload it.*)
OpenForm(t) ==
  /\ ~tab[t].open
  /\ tab' = [tab EXCEPT ![t] = Shows(query[t])]
  /\ UNCHANGED <<texts, versions, query, save, pub>>

Refetch(t) ==
  /\ query[t] # Revision
  /\ query' = [query EXCEPT ![t] = Revision]
  /\ UNCHANGED <<texts, versions, tab, save, pub>>

Type(t, text) ==
  /\ tab[t].open
  /\ Pending(t) => TypesInFlight
  /\ tab' = [tab EXCEPT ![t].text = text, ![t].dirty = TRUE]
  /\ UNCHANGED <<texts, versions, query, save, pub>>

(* "Discard changes" loads the cached snapshot.                             *)
Discard(t) ==
  /\ tab[t].open /\ tab[t].dirty /\ save[t].pc = "none"
  /\ tab' = [tab EXCEPT ![t] = Shows(query[t])]
  /\ UNCHANGED <<texts, versions, query, save, pub>>

(* Leaving: a clean store is reset, a dirty one after the question.         *)
(* Bound: not while an answer is still to come.                             *)
Leave(t) ==
  /\ tab[t].open /\ ~Pending(t)
  /\ tab' = [tab EXCEPT ![t] = Closed]
  /\ UNCHANGED <<texts, versions, query, save, pub>>

SendSave(t) ==
  /\ tab[t].open /\ tab[t].dirty /\ save[t].pc = "none"
  /\ save' = [save EXCEPT ![t] = [pc |-> "sent", rev |-> tab[t].rev, text |-> tab[t].text]]
  /\ UNCHANGED <<texts, versions, tab, query, pub>>

(* publishIfUnchanged, the only way a publication leaves the tab.  The      *)
(* preview and its notice only put it off; what the notice was about is     *)
(* compared with the document once more when it goes.                       *)
AskPublish(t) ==
  /\ tab[t].open /\ ~tab[t].dirty /\ pub[t].pc = "none"
  /\ pub' = [pub EXCEPT ![t] = [pc |-> "sent", rev |-> tab[t].rev, text |-> NewText]]
  /\ UNCHANGED <<texts, versions, tab, query, save>>

-----------------------------------------------------------------------------
(* On the server. *)

\* The revision in the where of updateDraft and of publish.
ClaimsAnyRevision(rev) == TRUE                             \* mutant
Claims(rev) == rev = Revision

(* updateDraft.                                                             *)
StoreDraft(t) ==
  /\ save[t].pc = "sent"
  /\ Claims(save[t].rev)
  /\ Revision < MaxRevision
  /\ texts' = Append(texts, save[t].text)
  /\ save' = [save EXCEPT ![t] = Done]
  /\ UNCHANGED <<versions, tab, query, pub>>

(* publish reads the form, and refuses what is in force already ...         *)
ReadForPublish(t) ==
  /\ pub[t].pc = "sent"
  /\ Unpublished(Len(versions), Draft)
  /\ pub' = [pub EXCEPT ![t].pc = "read", ![t].text = Draft]
  /\ UNCHANGED <<texts, versions, tab, query, save>>

(* ... and the transaction claims the revision and snapshots what was read. *)
ClaimPublish(t) ==
  /\ pub[t].pc = "read"
  /\ Claims(pub[t].rev)
  /\ Revision < MaxRevision
  /\ texts' = Append(texts, Draft)
  /\ versions' = Append(versions, [text |-> pub[t].text, of |-> Revision])
  /\ pub' = [pub EXCEPT ![t] = Done]
  /\ UNCHANGED <<tab, query, save>>

-----------------------------------------------------------------------------
(* The answer: byId reads the form once more, the cache takes it, and       *)
(* markSaved takes its revision for the document on the screen.             *)

MarkSavedAhead(t) ==                                       \* mutant
  tab' = [tab EXCEPT ![t].rev = Revision + 1, ![t].dirty = FALSE]
MarkSaved(t) == tab' = [tab EXCEPT ![t].rev = Revision, ![t].dirty = FALSE]

SaveAnswered(t) ==
  /\ save[t].pc = "done"
  /\ query' = [query EXCEPT ![t] = Revision]
  /\ MarkSaved(t)
  /\ save' = [save EXCEPT ![t] = NoCall]
  /\ UNCHANGED <<texts, versions, pub>>

PublishAnswered(t) ==
  /\ pub[t].pc = "done"
  /\ query' = [query EXCEPT ![t] = Revision]
  /\ MarkSaved(t)
  /\ pub' = [pub EXCEPT ![t] = NoCall]
  /\ UNCHANGED <<texts, versions, save>>

(* A refusal (409, 422), a request that never arrived or an answer that was *)
(* lost: the document stays as it is.                                       *)
SaveFails(t) ==
  /\ save[t].pc # "none"
  /\ save' = [save EXCEPT ![t] = NoCall]
  /\ UNCHANGED <<texts, versions, tab, query, pub>>

PublishFails(t) ==
  /\ pub[t].pc # "none"
  /\ pub' = [pub EXCEPT ![t] = NoCall]
  /\ UNCHANGED <<texts, versions, tab, query, save>>

-----------------------------------------------------------------------------
BuilderNext ==
  \E t \in Tabs :
    \/ OpenForm(t) \/ Refetch(t) \/ Discard(t) \/ Leave(t)
    \/ \E text \in Texts : Type(t, text)
    \/ SendSave(t) \/ StoreDraft(t) \/ SaveAnswered(t) \/ SaveFails(t)
    \/ AskPublish(t) \/ ReadForPublish(t) \/ ClaimPublish(t)
    \/ PublishAnswered(t) \/ PublishFails(t)

BuilderSpec == BuilderInit /\ [][BuilderNext]_builderVars

-----------------------------------------------------------------------------
(* Properties *)

(* Every variable stays in its type, and no tab is ahead of the server.     *)
BuilderTypeOK ==
  /\ texts \in Seq(Texts) /\ Len(texts) \in Revisions
  /\ versions \in Seq(Version) /\ Len(versions) < Len(texts)
  /\ tab \in [Tabs -> Tab] /\ query \in [Tabs -> Revisions]
  /\ save \in [Tabs -> Call] /\ pub \in [Tabs -> Call]
  /\ \A t \in Tabs : /\ tab[t].rev <= Len(texts)
                     /\ query[t] <= Len(texts)

(* "A draft identical to the version in force is refused": though the check *)
(* is made before the revision is claimed, two publications at once, or a   *)
(* publication beside a save, never mint the same version twice.            *)
VersionsDiffer ==
  \A n \in DOMAIN versions \ {1} : versions[n].text # versions[n - 1].text

(* A version says what the draft said at the revision that was claimed for  *)
(* it, never what was read before somebody else saved.                      *)
VersionsAreRevisions ==
  \A n \in DOMAIN versions : versions[n].text = texts[versions[n].of]

(* What has been published: every version is a revision, and a new one.     *)
VersionsStand == VersionsDiffer /\ VersionsAreRevisions

(* "isDirty is true exactly while this document differs from the revision   *)
(* it was loaded at": a document without the mark is the text of the        *)
(* revision it names.                                                       *)
CleanIsStored ==
  \A t \in Tabs : tab[t].open /\ ~tab[t].dirty => tab[t].text = texts[tab[t].rev]
=============================================================================
