----------------------------- MODULE Attachments -----------------------------
(***************************************************************************)
(* The attachments of one form: rows in the database and bytes on a volume *)
(* no transaction reaches (upload-pipeline.ts, local-file-storage.ts),     *)
(* claimed by answers and drafts (attachment-claim.ts), swept when nobody  *)
(* owns them (file-purge.service.ts), and erased with the answer or the    *)
(* form they belong to (permanent-deletion.service.ts).                    *)
(*                                                                         *)
(* A request reads the form, its clock and so which files are young enough *)
(* when it begins; its transaction is one step, because every row it       *)
(* decides on stays locked until it commits.  A removal is many steps: it  *)
(* holds one file row FOR UPDATE while it removes that file's bytes, and   *)
(* every write to the row waits for it.                                    *)
(***************************************************************************)
EXTENDS Naturals, FiniteSets

CONSTANTS
  Files,       \* bound: the uploads the form may ever see
  Answers,     \* bound: its answers
  Drafts,      \* bound: its drafts
  Requests,    \* concurrent submissions, corrections and drafts
  Sweepers,    \* runs of the file purge, one per API process
  Erasers,     \* permanent deletions: the trash, its emptying, the retention
  Nobody,      \* no owner, no draft, no file
  MaxFaults    \* bound: failures of the volume, timeouts and crashes

Owners == Answers \cup Drafts
Jobs   == Sweepers \cup Erasers

ASSUME DisjointAssumption == /\ Nobody \notin Owners \cup Files
                             /\ Answers \cap Drafts = {}
                             /\ Sweepers \cap Erasers = {}
ASSUME FaultsAssumption == MaxFaults \in Nat

VARIABLES
  form,     \* "live", in the "trash", or "gone"
  answer,   \* the answers and the files each names
  draft,    \* the drafts and the files each names
  file,     \* row, owner, bytes and upload of every file
  req,      \* requests between their reads and their transaction
  job,      \* sweeps and erasures
  torn,     \* history: bytes were removed and the row was not
  spared,   \* history: restored when its erasure had begun
  cut,      \* history: discarded or erased while its upload was running
  faults

vars == <<form, answer, draft, file, req, job, torn, spared, cut, faults>>

\* file_kind_shape: one owner at a time.
File == [row   : {"none", "pending", "stored", "gone"},
         owner : Owners \cup {Nobody},
         old   : BOOLEAN,   \* past UNCLAIMED_FILE_LIFETIME_MS
         bytes : {"none", "partial", "there"},
         up    : {"none", "asked", "row", "writing", "written", "discarding",
                  "answered", "ended"}]

Request == [kind  : {"idle", "submit", "edit", "save", "update"},
            on    : Owners \cup {Nobody},   \* the answer or the draft
            draft : Drafts \cup {Nobody},   \* the draft a submission consumes
            names : SUBSET Files,
            young : SUBSET Files]

Job == [task : {"idle", "sweep", "answer", "form"},
        pc   : {"next", "target", "partial", "row", "lateTarget", "latePartial"},
        on   : Answers \cup {Nobody},
        todo : SUBSET Files,
        file : Files \cup {Nobody}]

NoRequest == [kind |-> "idle", on |-> Nobody, draft |-> Nobody,
              names |-> {}, young |-> {}]
NoJob == [task |-> "idle", pc |-> "next", on |-> Nobody, todo |-> {}, file |-> Nobody]

-----------------------------------------------------------------------------
HasRow(f)  == file[f].row \in {"pending", "stored"}
OwnedBy(x) == {f \in Files : file[f].owner = x}
Young      == {f \in Files : ~file[f].old}

\* Only an answered upload has told anyone its reference.
Known == {f \in Files : file[f].up = "answered"}

Uploading(f) == file[f].up \in {"asked", "row", "writing", "written", "discarding"}

\* The row locks of purgeOne and purgeAttachment.
HoldsRow(j, f) == job[j].pc \in {"target", "partial", "row"} /\ job[j].file = f
Held(f)        == \E j \in Jobs : HoldsRow(j, f)

Init ==
  /\ form = "live"
  /\ answer = [a \in Answers |-> [state |-> "none", names |-> {}]]
  /\ draft = [d \in Drafts |-> [state |-> "none", names |-> {}]]
  /\ file = [f \in Files |-> [row |-> "none", owner |-> Nobody, old |-> FALSE,
                              bytes |-> "none", up |-> "none"]]
  /\ req = [p \in Requests |-> NoRequest]
  /\ job = [j \in Jobs |-> NoJob]
  /\ torn = {} /\ spared = {} /\ cut = {}
  /\ faults = 0

Fault == faults < MaxFaults /\ faults' = faults + 1

-----------------------------------------------------------------------------
(* Uploads: row, bytes, stored. *)

untouched == <<form, answer, draft, req, job, torn, spared>>

Uploaded(f, up)      == file' = [file EXCEPT ![f].up = up]
Wrote(f, bytes, up)  == file' = [file EXCEPT ![f].bytes = bytes, ![f].up = up]

\* openForUpload: only for a live form.
AskUpload(f) ==
  /\ file[f].up = "none" /\ form = "live"
  /\ Uploaded(f, "asked")
  /\ UNCHANGED <<untouched, cut, faults>>

\* The foreign key refuses a row for a form that is gone meanwhile.
CreateRow(f) ==
  /\ file[f].up = "asked"
  /\ file' = IF form = "gone" THEN [file EXCEPT ![f].up = "ended"]
             ELSE [file EXCEPT ![f].row = "pending", ![f].up = "row"]
  /\ UNCHANGED <<untouched, cut, faults>>

OpenPartial(f) ==
  /\ file[f].up = "row"
  /\ Wrote(f, "partial", "writing")
  /\ UNCHANGED <<untouched, cut, faults>>

\* A removal may have taken the .partial away; then the rename finds nothing.
Rename(f) ==
  /\ file[f].up = "writing"
  /\ IF file[f].bytes = "partial" THEN Wrote(f, "there", "written")
                                  ELSE Uploaded(f, "discarding")
  /\ UNCHANGED <<untouched, cut, faults>>

\* Too large, torn down, disk full: putObject removes its .partial.
PutFails(f) ==
  /\ file[f].up \in {"row", "writing"}
  /\ Wrote(f, "none", "discarding")
  /\ Fault
  /\ UNCHANGED <<untouched, cut>>

\* The rename itself fails: it is outside putObject's try, the .partial stays.
RenameFails(f) ==
  /\ file[f].up = "writing" /\ file[f].bytes = "partial"
  /\ Uploaded(f, "discarding")
  /\ Fault
  /\ UNCHANGED <<untouched, cut>>

\* Best effort: the row may be gone already.
Discard(f) ==
  /\ file[f].up = "discarding"
  /\ ~Held(f)
  /\ file' = IF HasRow(f) THEN [file EXCEPT ![f].row = "gone", ![f].up = "ended"]
                          ELSE [file EXCEPT ![f].up = "ended"]
  /\ cut' = IF HasRow(f) THEN cut \cup {f} ELSE cut
  /\ UNCHANGED <<untouched, faults>>

MarkStored(f) ==
  /\ file[f].up = "written"
  /\ ~Held(f)
  /\ file' = IF HasRow(f) THEN [file EXCEPT ![f].row = "stored", ![f].up = "answered"]
                          ELSE [file EXCEPT ![f].up = "ended"]
  /\ UNCHANGED <<untouched, cut, faults>>

\* The process dies, or its connection to the database.
UploadDies(f) ==
  /\ Uploading(f)
  /\ Uploaded(f, "ended")
  /\ Fault
  /\ UNCHANGED <<untouched, cut>>

\* 24 hours pass.  No request lasts that long.
Age(f) ==
  /\ HasRow(f) /\ ~file[f].old /\ ~Uploading(f)
  /\ file' = [file EXCEPT ![f].old = TRUE]
  /\ UNCHANGED <<untouched, cut, faults>>

Upload(f) ==
  \/ AskUpload(f) \/ CreateRow(f) \/ OpenPartial(f) \/ Rename(f) \/ PutFails(f)
  \/ RenameFails(f) \/ Discard(f) \/ MarkStored(f) \/ UploadDies(f) \/ Age(f)

-----------------------------------------------------------------------------
(* Claims: submissions, corrections, drafts. *)

owned == <<form, job, torn, spared, cut, faults>>

\* F goes to x; what else is in R goes to nobody.
Assign(F, x, R) ==
  file' = [f \in Files |-> [file[f] EXCEPT !.owner = IF f \in F THEN x
                                                     ELSE IF f \in R THEN Nobody
                                                     ELSE @]]

Begin(p, kind, x, d, names) ==
  /\ req[p].kind = "idle"
  /\ names \subseteq Known
  /\ req' = [req EXCEPT ![p] = [kind |-> kind, on |-> x, draft |-> d,
                                names |-> names, young |-> Young]]
  /\ UNCHANGED <<owned, answer, draft, file>>

Answered(p) == req' = [req EXCEPT ![p] = NoRequest]

BeginSubmit(p, a, d, names) ==
  /\ form = "live"
  /\ answer[a].state = "none"
  /\ \A q \in Requests : req[q].on # a
  /\ d # Nobody => draft[d].state = "open"
  /\ Begin(p, "submit", a, d, names)

BeginEdit(p, a, names) ==
  /\ form = "live" /\ answer[a].state = "live"
  /\ Begin(p, "edit", a, Nobody, names)

BeginSave(p, d, names) ==
  /\ form = "live" /\ draft[d].state = "none"
  /\ \A q \in Requests : req[q].on # d
  /\ Begin(p, "save", d, Nobody, names)

BeginUpdate(p, d, names) ==
  /\ form = "live" /\ draft[d].state = "open"
  /\ Begin(p, "update", d, Nobody, names)

\* What claimAttachments may take for an answer.
ClaimableUnlessAnswered(p, f) ==                                \* mutant
  /\ file[f].row = "stored"
  /\ \/ file[f].owner \in Drafts \cup {req[p].on}
     \/ file[f].owner = Nobody /\ f \in req[p].young
Claimable(p, f) ==
  /\ file[f].row = "stored"
  /\ \/ file[f].owner = req[p].on
     \/ req[p].draft # Nobody /\ file[f].owner = req[p].draft
     \/ file[f].owner = Nobody /\ f \in req[p].young

Unheld(F) == \A f \in F : ~Held(f)

\* storeWithinLimit: the answer, its files, the end of the draft.
CommitSubmit(p) ==
  LET r == req[p] IN
  /\ r.kind = "submit" /\ form # "gone"
  /\ r.draft # Nobody => draft[r.draft].state = "open"
  /\ \A f \in r.names : Claimable(p, f)
  /\ Unheld(r.names)
  /\ answer' = [answer EXCEPT ![r.on] = [state |-> "live", names |-> r.names]]
  /\ IF r.draft = Nobody
       THEN Assign(r.names, r.on, {}) /\ UNCHANGED draft
       ELSE /\ Unheld(OwnedBy(r.draft))
            /\ Assign(r.names, r.on, OwnedBy(r.draft))
            /\ draft' = [draft EXCEPT ![r.draft] = [state |-> "gone", names |-> {}]]
  /\ Answered(p)
  /\ UNCHANGED owned

\* storeEditWithMails: claimAttachments, then releaseAttachments.
CommitEditKeepingAll(p) ==                                      \* mutant
  LET r == req[p] IN
  /\ r.kind = "edit"
  /\ answer[r.on].state = "live"
  /\ \A f \in r.names : Claimable(p, f)
  /\ Unheld(r.names)
  /\ answer' = [answer EXCEPT ![r.on].names = r.names]
  /\ Assign(r.names, r.on, {})
  /\ Answered(p)
  /\ UNCHANGED <<owned, draft>>
CommitEdit(p) ==
  LET r == req[p] IN
  /\ r.kind = "edit"
  /\ answer[r.on].state = "live"
  /\ \A f \in r.names : Claimable(p, f)
  /\ Unheld(r.names \cup OwnedBy(r.on))
  /\ answer' = [answer EXCEPT ![r.on].names = r.names]
  /\ Assign(r.names, r.on, OwnedBy(r.on))
  /\ Answered(p)
  /\ UNCHANGED <<owned, draft>>

\* claimForDraft takes what it may and leaves the rest.
Takeable(p) == {f \in req[p].names : Claimable(p, f)}

CommitSave(p) ==
  LET r == req[p] IN
  /\ r.kind = "save" /\ form # "gone"
  /\ Unheld(r.names)
  /\ draft' = [draft EXCEPT ![r.on] = [state |-> "open", names |-> r.names]]
  /\ Assign(Takeable(p), r.on, {})
  /\ Answered(p)
  /\ UNCHANGED <<owned, answer>>

\* releaseDraftAttachments keeps what the draft still names.
CommitUpdate(p) ==
  LET r == req[p] IN
  /\ r.kind = "update"
  /\ draft[r.on].state = "open"
  /\ Unheld(r.names \cup OwnedBy(r.on))
  /\ draft' = [draft EXCEPT ![r.on].names = r.names]
  /\ Assign(Takeable(p), r.on, OwnedBy(r.on) \ r.names)
  /\ Answered(p)
  /\ UNCHANGED <<owned, answer>>

\* Any other outcome: a refusal, a rollback, a client that is gone.
Refuse(p) ==
  /\ req[p].kind # "idle"
  /\ Answered(p)
  /\ UNCHANGED <<owned, answer, draft, file>>

Claim(p) ==
  \/ \E names \in SUBSET Files :
       \/ \E a \in Answers : \/ \E d \in Drafts \cup {Nobody} : BeginSubmit(p, a, d, names)
                             \/ BeginEdit(p, a, names)
       \/ \E d \in Drafts : BeginSave(p, d, names) \/ BeginUpdate(p, d, names)
  \/ CommitSubmit(p) \/ CommitEdit(p) \/ CommitSave(p) \/ CommitUpdate(p) \/ Refuse(p)

\* deleteDraft, and the drafts' expiry: ON DELETE SET NULL frees the files.
DropDraft(d) ==
  /\ draft[d].state = "open"
  /\ Unheld(OwnedBy(d))
  /\ draft' = [draft EXCEPT ![d] = [state |-> "gone", names |-> {}]]
  /\ Assign({}, Nobody, OwnedBy(d))
  /\ UNCHANGED <<owned, answer, req>>

-----------------------------------------------------------------------------
(* The trash. *)

rest == <<draft, file, req, job, torn, cut, faults>>

\* Past the second ask of purgeAttachment, or already erased.
Erasing(f) == ~HasRow(f) \/ \E j \in Erasers : HoldsRow(j, f)

TrashAnswer(a) ==
  /\ form = "live" /\ answer[a].state = "live"
  /\ answer' = [answer EXCEPT ![a].state = "trash"]
  /\ UNCHANGED <<rest, form, spared>>

RestoreAnswer(a) ==
  /\ form = "live" /\ answer[a].state = "trash"
  /\ answer' = [answer EXCEPT ![a].state = "live"]
  /\ spared' = spared \cup {f \in answer[a].names : Erasing(f)}
  /\ UNCHANGED <<rest, form>>

TrashForm ==
  /\ form = "live" /\ form' = "trash"
  /\ UNCHANGED <<rest, answer, spared>>

RestoreForm ==
  /\ form = "trash" /\ form' = "live"
  /\ spared' = spared \cup {f \in UNION {answer[a].names : a \in Answers} : Erasing(f)}
  /\ UNCHANGED <<rest, answer>>

Trash == \/ TrashForm \/ RestoreForm
         \/ \E a \in Answers : TrashAnswer(a) \/ RestoreAnswer(a)

-----------------------------------------------------------------------------
(* Removals: the sweep of what nobody owns, and permanent deletion. *)

erased == <<answer, draft, req, spared>>

Starts(j, task, a, todo) ==
  /\ job[j].task = "idle"
  /\ job' = [job EXCEPT ![j] = [NoJob EXCEPT !.task = task, !.on = a, !.todo = todo]]
  /\ UNCHANGED <<erased, form, file, torn, cut, faults>>

StaleAndStored(f) == /\ file[f].row = "stored" /\ file[f].old    \* mutant
                     /\ file[f].owner = Nobody
Stale(f) == HasRow(f) /\ file[f].old /\ file[f].owner = Nobody

\* responseAttachmentWhere, formAttachmentWhere.
OfAnswerAnyState(a, f) == HasRow(f) /\ file[f].owner = a        \* mutant
OfAnswer(a, f) == HasRow(f) /\ file[f].owner = a /\ answer[a].state = "trash"
OfForm(f)      == HasRow(f) /\ form = "trash"

ListStale(j) ==
  LET todo == {f \in Files : Stale(f)} IN
  todo # {} /\ Starts(j, "sweep", Nobody, todo)

ListAnswer(j, a) ==
  /\ answer[a].state = "trash"
  /\ Starts(j, "answer", a, {f \in Files : OfAnswer(a, f)})

ListForm(j) ==
  /\ form = "trash"
  /\ Starts(j, "form", Nobody, {f \in Files : OfForm(f)})

\* The question of the listing, asked again under the row's lock.
StillListed(j, f) == HasRow(f)                                  \* mutant
StillDue(j, f) == \/ job[j].task = "sweep" /\ Stale(f)
                  \/ job[j].task = "answer" /\ OfAnswer(job[j].on, f)
                  \/ job[j].task = "form" /\ OfForm(f)

Goes(j, pc)    == job' = [job EXCEPT ![j].pc = pc]
DoneWith(j, f) == job' = [job EXCEPT ![j].pc = "next", ![j].file = Nobody,
                                     ![j].todo = @ \ {f}]
Stops(j)       == job' = [job EXCEPT ![j] = NoJob]

Lock(j, f) ==
  /\ job[j].pc = "next" /\ f \in job[j].todo
  /\ ~Held(f)
  /\ IF StillDue(j, f)
       THEN job' = [job EXCEPT ![j].pc = "target", ![j].file = f]
       ELSE DoneWith(j, f)
  /\ cut' = IF StillDue(j, f) /\ Uploading(f) THEN cut \cup {f} ELSE cut
  /\ UNCHANGED <<erased, form, file, torn, faults>>

\* removeObject: the object, then its .partial.
Without(f, bytes) == file' = [file EXCEPT ![f].bytes = IF @ = bytes THEN "none" ELSE @]

RemoveTarget(j) ==
  /\ job[j].pc \in {"target", "lateTarget"}
  /\ Without(job[j].file, "there")
  /\ Goes(j, IF job[j].pc = "target" THEN "partial" ELSE "latePartial")
  /\ UNCHANGED <<erased, form, torn, cut, faults>>

RemovePartialNever(j) ==                                        \* mutant
  /\ job[j].pc = "partial"
  /\ Goes(j, "row")
  /\ UNCHANGED <<erased, form, file, torn, cut, faults>>
RemovePartial(j) ==
  /\ job[j].pc = "partial"
  /\ Without(job[j].file, "partial")
  /\ Goes(j, "row")
  /\ UNCHANGED <<erased, form, torn, cut, faults>>

DeleteRow(j) ==
  LET f == job[j].file IN
  /\ job[j].pc = "row"
  /\ file' = [file EXCEPT ![f].row = "gone", ![f].owner = Nobody]
  /\ DoneWith(j, f)
  /\ UNCHANGED <<erased, form, torn, cut, faults>>

\* A failure stops a deletion; a sweep goes on with the next file.
FailsOn(j, f) == IF job[j].task = "sweep" THEN DoneWith(j, f) ELSE Stops(j)

\* The volume refuses, the connection is lost: the transaction rolls back.
RemovalFails(j) ==
  LET f == job[j].file IN
  /\ job[j].pc \in {"target", "partial", "row"}
  /\ torn' = IF job[j].pc = "target" THEN torn ELSE torn \cup {f}
  /\ FailsOn(j, f)
  /\ Fault
  /\ UNCHANGED <<erased, form, file, cut>>

\* 30 s: the lock is gone, the removal under way is not.
TimesOut(j) ==
  /\ job[j].pc \in {"target", "partial"}
  /\ torn' = torn \cup {job[j].file}
  /\ Goes(j, IF job[j].pc = "target" THEN "lateTarget" ELSE "latePartial")
  /\ Fault
  /\ UNCHANGED <<erased, form, file, cut>>

LandsLate(j) ==
  LET f == job[j].file IN
  /\ job[j].pc = "latePartial"
  /\ Without(f, "partial")
  /\ FailsOn(j, f)
  /\ UNCHANGED <<erased, form, torn, cut, faults>>

JobDies(j) ==
  /\ job[j].task # "idle"
  /\ torn' = IF job[j].pc \in {"partial", "row"} THEN torn \cup {job[j].file} ELSE torn
  /\ Stops(j)
  /\ Fault
  /\ UNCHANGED <<erased, form, file, cut>>

Emptied(j, task) == job[j].task = task /\ job[j].pc = "next" /\ job[j].todo = {}

SweepEnds(j) ==
  /\ Emptied(j, "sweep")
  /\ Stops(j)
  /\ UNCHANGED <<erased, form, file, torn, cut, faults>>

\* purgeResponse: unless it was restored meanwhile.
PurgeAnswer(j) ==
  LET a == job[j].on IN
  /\ Emptied(j, "answer")
  /\ IF answer[a].state = "trash"
       THEN /\ Unheld(OwnedBy(a))
            /\ answer' = [answer EXCEPT ![a] = [state |-> "gone", names |-> {}]]
            /\ Assign({}, Nobody, OwnedBy(a))
       ELSE UNCHANGED <<answer, file>>
  /\ Stops(j)
  /\ UNCHANGED <<form, draft, req, torn, spared, cut, faults>>

\* purgeForm: file.form_id is NO ACTION, a row that came meanwhile stops it.
PurgeFormWithRows(j) ==                                         \* mutant
  /\ Emptied(j, "form")
  /\ IF form = "trash"
       THEN /\ form' = "gone"
            /\ answer' = [a \in Answers |-> [state |-> "gone", names |-> {}]]
            /\ draft' = [d \in Drafts |-> [state |-> "gone", names |-> {}]]
       ELSE UNCHANGED <<form, answer, draft>>
  /\ Stops(j)
  /\ UNCHANGED <<file, req, torn, spared, cut, faults>>
PurgeForm(j) ==
  /\ Emptied(j, "form")
  /\ IF form = "trash" /\ \A f \in Files : ~HasRow(f)
       THEN /\ form' = "gone"
            /\ answer' = [a \in Answers |-> [state |-> "gone", names |-> {}]]
            /\ draft' = [d \in Drafts |-> [state |-> "gone", names |-> {}]]
       ELSE UNCHANGED <<form, answer, draft>>
  /\ Stops(j)
  /\ UNCHANGED <<file, req, torn, spared, cut, faults>>

Works(j) ==
  \/ \E f \in Files : Lock(j, f)
  \/ RemoveTarget(j) \/ RemovePartial(j) \/ DeleteRow(j) \/ LandsLate(j)
  \/ SweepEnds(j) \/ PurgeAnswer(j) \/ PurgeForm(j)

Removal(j) == Works(j) \/ RemovalFails(j) \/ TimesOut(j) \/ JobDies(j)

Next == \/ \E f \in Files : Upload(f)
        \/ \E p \in Requests : Claim(p)
        \/ \E d \in Drafts : DropDraft(d)
        \/ Trash
        \/ \E j \in Sweepers : ListStale(j)
        \/ \E j \in Erasers : ListForm(j) \/ \E a \in Answers : ListAnswer(j, a)
        \/ \E j \in Jobs : Removal(j)

Spec == Init /\ [][Next]_vars

\* setInterval brings the next sweep; a removal under way goes on.
FairSpec == /\ Spec
            /\ \A j \in Sweepers : WF_vars(ListStale(j))
            /\ \A j \in Jobs : WF_vars(Works(j))

-----------------------------------------------------------------------------
(* Properties. *)

\* Every variable stays in its range, and the foreign keys hold: a file whose
\* row is gone has no owner, and a form that is gone has no file rows
\* (ON DELETE SET NULL and NO ACTION of the file table).
TypeOK ==
  /\ form \in {"live", "trash", "gone"}
  /\ answer \in [Answers -> [state : {"none", "live", "trash", "gone"}, names : SUBSET Files]]
  /\ draft \in [Drafts -> [state : {"none", "open", "gone"}, names : SUBSET Files]]
  /\ file \in [Files -> File]
  /\ req \in [Requests -> Request]
  /\ job \in [Jobs -> Job]
  /\ torn \subseteq Files /\ spared \subseteq Files /\ cut \subseteq Files
  /\ faults \in 0..MaxFaults
  /\ \A f \in Files : HasRow(f) => form # "gone"
  /\ \A f \in Files : file[f].owner # Nobody => HasRow(f)

\* "An answer naming an attachment with no bytes, with no error at submission
\* time" (file-purge.service.ts): what an answer or a draft owns is stored and
\* its bytes are there.  The exceptions are those the code names: bytes whose
\* removal could not be completed, and the file an erasure has under its lock.
OwnedHaveBytes ==
  \A f \in Files :
    file[f].owner # Nobody =>
      /\ file[f].row = "stored"
      /\ \/ file[f].bytes = "there"
         \/ f \in torn
         \/ \E j \in Erasers : HoldsRow(j, f)

\* A live answer of a live form still has every file it names, whole and its
\* own, whatever sweeps, erasures, restores and other claims did, unless it
\* was restored when its erasure already had that file.
NamesResolve ==
  \A a \in Answers : answer[a].state = "live" /\ form = "live" =>
    \A f \in answer[a].names :
      \/ file[f].owner = a /\ file[f].bytes = "there"
      \/ f \in torn \cup spared

\* Nothing hangs on an owner that no longer names it: such a file would be
\* neither shown nor swept (releaseAttachments, releaseDraftAttachments, the
\* deletion of a submitted draft).
OwnsOnlyNamed ==
  /\ \A a \in Answers : OwnedBy(a) \subseteq answer[a].names
  /\ \A d \in Drafts : OwnedBy(d) \subseteq draft[d].names

\* A row that is removed once its upload is over takes all its bytes with it,
\* the .partial of an upload that died included (removeObject).
NoOrphans ==
  \A f \in Files : /\ file[f].bytes # "none" /\ ~HasRow(f) /\ ~Uploading(f)
                   => f \in cut

\* Two answers or drafts never take a file from each other; the one handover
\* is a draft's to the answer it was submitted as (claimAttachments).
HandedOverOnly ==
  [][\A f \in Files :
       file[f].owner # Nobody /\ file'[f].owner \notin {Nobody, file[f].owner} =>
         /\ file[f].owner \in Drafts /\ draft'[file[f].owner].state = "gone"
         /\ file'[f].owner \in Answers /\ f \in answer'[file'[f].owner].names]_vars

\* The deletion promise: a file nobody claimed within its lifetime is gone, or
\* claimed, in the end, although removals fail, time out and die.
UnclaimedIsDeleted ==
  \A f \in Files : []<>(HasRow(f) /\ file[f].old => file[f].owner # Nobody)

=============================================================================
