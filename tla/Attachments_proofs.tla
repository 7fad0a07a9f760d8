------------------------- MODULE Attachments_proofs -------------------------
(***************************************************************************)
(* What holds of the attachments for every set of uploads, answers,        *)
(* drafts, requests, sweeps and erasures, and any number of failures.      *)
(*                                                                         *)
(* The argument is about the row lock a removal holds.  Nobody claims a    *)
(* held row, so a sweep's file stays without an owner and an erasure's     *)
(* file keeps the one it had; that owner leaves the trash only by a        *)
(* restore, which records the file as spared.  What a removal that broke   *)
(* off leaves behind is recorded as torn, what it took from a running      *)
(* upload as cut, and everything else keeps its bytes.                     *)
(***************************************************************************)
EXTENDS Attachments, TLAPS

\* An upload that had its row.
Begun(f) == file[f].up \in {"row", "writing", "written", "discarding"}

\* The life of one file: row, upload and bytes.
FileShape(f) ==
  /\ file[f].row = "none" => file[f].bytes = "none"
  /\ file[f].up \in {"none", "asked"} => file[f].row = "none"
  /\ Begun(f) \/ file[f].up = "answered" => file[f].row # "none"
  /\ file[f].row = "stored" => file[f].up = "answered"
  /\ file[f].up = "written" \/ file[f].row = "stored" =>
       \/ file[f].bytes = "there"
       \/ ~HasRow(f)
       \/ f \in torn
       \/ \E j \in Jobs : HoldsRow(j, f) /\ job[j].pc # "target"
  /\ file[f].owner # Nobody => file[f].row = "stored"
  /\ ~HasRow(f) /\ (file[f].bytes # "none" \/ Begun(f)) => f \in cut

\* What the lock on a file's row keeps true while its removal goes on.
Holding(j, f) ==
  HoldsRow(j, f) =>
    /\ HasRow(f)
    /\ \A k \in Jobs : HoldsRow(k, f) => k = j
    /\ j \in Sweepers => file[f].owner = Nobody
    /\ file[f].owner \in Answers =>
         \/ f \in spared
         \/ form = "trash"
         \/ answer[file[f].owner].state = "trash"
    /\ f \in cut \/ ~Uploading(f)
    /\ f \in cut \/ (job[j].pc = "partial" => file[f].bytes # "there")
    /\ f \in cut \/ (job[j].pc = "row" => file[f].bytes = "none")

JobShape(j) ==
  /\ j \in Sweepers => job[j].task \in {"idle", "sweep"}
  /\ job[j].pc # "next" => job[j].file \in Files /\ job[j].task # "idle"
  /\ job[j].task = "answer" => job[j].on \in Answers
  /\ job[j].pc \in {"lateTarget", "latePartial"} => job[j].file \in torn

RequestShape(p) ==
  /\ req[p].kind \in {"submit", "edit"} => req[p].on \in Answers
  /\ req[p].kind \in {"save", "update"} => req[p].on \in Drafts
  /\ req[p].kind # "submit" => req[p].draft = Nobody
  /\ \A f \in req[p].names : file[f].up = "answered"
  /\ req[p].kind = "submit" => answer[req[p].on].state \in {"none", "gone"}
  /\ req[p].kind = "save" => draft[req[p].on].state \in {"none", "gone"}
  /\ req[p].kind \in {"submit", "save"} =>
       \A q \in Requests : req[q].on = req[p].on => q = p

\* What an answer names is its own, unless it has been deleted.
AnswerShape(a) ==
  /\ answer[a].state \in {"none", "gone"} => answer[a].names = {}
  /\ OwnedBy(a) \subseteq answer[a].names
  /\ \A f \in answer[a].names :
       /\ file[f].up = "answered"
       /\ file[f].owner = a \/ ~HasRow(f)
       /\ answer[a].state = "live" /\ form = "live" => file[f].owner = a \/ f \in spared

DraftShape(d) ==
  /\ draft[d].state # "open" => draft[d].names = {}
  /\ OwnedBy(d) \subseteq draft[d].names

IInv == /\ TypeOK
        /\ \A f \in Files : FileShape(f)
        /\ \A j \in Jobs, f \in Files : Holding(j, f)
        /\ \A j \in Jobs : JobShape(j)
        /\ \A p \in Requests : RequestShape(p)
        /\ \A a \in Answers : AnswerShape(a)
        /\ \A d \in Drafts : DraftShape(d)

-----------------------------------------------------------------------------
(* The initial state. *)

(* Nothing is uploaded, nothing is named, nothing is held.                  *)
LEMMA InitIInv == Init => IInv
<1> SUFFICES ASSUME Init PROVE IInv
  OBVIOUS
<1>1. TypeOK
  BY FaultsAssumption
  DEF Init, TypeOK, File, Request, NoRequest, Job, NoJob, HasRow
<1>2. \A f \in Files : FileShape(f)
  BY DEF Init, FileShape, HasRow, Begun
<1>3. \A j \in Jobs, f \in Files : Holding(j, f)
  BY DEF Init, Holding, HoldsRow, NoJob
<1>4. \A j \in Jobs : JobShape(j)
  BY DEF Init, JobShape, NoJob
<1>5. \A p \in Requests : RequestShape(p)
  BY DEF Init, RequestShape, NoRequest
<1>6. \A a \in Answers : AnswerShape(a)
  BY DisjointAssumption DEF Init, AnswerShape, OwnedBy, Owners
<1>7. \A d \in Drafts : DraftShape(d)
  BY DisjointAssumption DEF Init, DraftShape, OwnedBy, Owners
<1> QED BY <1>1, <1>2, <1>3, <1>4, <1>5, <1>6, <1>7 DEF IInv

-----------------------------------------------------------------------------
(* Uploads: one file's row, bytes and upload change. *)

(* What an upload does to its own file leaves everything else as it was:    *)
(* the owner stays, an answered upload stays answered, and a held row is    *)
(* there and, unless its upload was cut, nobody else touches its bytes.     *)
LEMMA OneFileChanges ==
  ASSUME IInv, NEW g \in Files,
         UNCHANGED untouched, faults' \in 0..MaxFaults,
         file' \in [Files -> File],
         \A f \in Files \ {g} : file'[f] = file[f],
         file'[g].owner = file[g].owner,
         file[g].up = "answered" =>
           file'[g].up = "answered" /\ file'[g].row = file[g].row,
         cut \subseteq cut', cut' \subseteq cut \cup {g},
         HasRow(g)' => form # "gone",
         FileShape(g)',
         \A j \in Jobs : HoldsRow(j, g) =>
           /\ HasRow(g)'
           /\ (~Uploading(g)' /\ file'[g].bytes = file[g].bytes) \/ g \in cut
  PROVE  IInv'
<1> USE DEF untouched
<1>1. \A f \in Files : f # g => (HasRow(f)' <=> HasRow(f)) /\ (Uploading(f)' <=> Uploading(f))
  BY DEF HasRow, Uploading
<1>2. \A j \in Jobs, f \in Files : HoldsRow(j, f)' <=> HoldsRow(j, f)
  BY DEF HoldsRow
<1>3. \A f \in Files : file'[f].owner = file[f].owner
  OBVIOUS
<1>4. \A x : OwnedBy(x)' = OwnedBy(x)
  BY <1>3 DEF OwnedBy
<1>5. \A f \in Files : FileShape(f)'
  <2>1. ASSUME NEW f \in Files, f # g PROVE FileShape(f)'
    <3>1. FileShape(f)
      BY DEF IInv
    <3>2. file'[f] = file[f]
      BY <2>1
    <3> QED BY <1>1, <1>2, <2>1, <3>1, <3>2 DEF FileShape, Begun
  <2> QED BY <2>1
<1>6. TypeOK'
  <2>1. TypeOK
    BY DEF IInv
  <2>2. \A f \in Files : HasRow(f)' => form' # "gone"
    BY <1>1, <2>1 DEF TypeOK
  <2>3. \A f \in Files : file'[f].owner # Nobody => HasRow(f)'
    BY <1>5 DEF FileShape, HasRow
  <2>4. cut' \subseteq Files
    BY <2>1 DEF TypeOK
  <2> QED BY <2>1, <2>2, <2>3, <2>4 DEF TypeOK
<1>7. \A j \in Jobs, f \in Files : Holding(j, f)'
  <2> SUFFICES ASSUME NEW j \in Jobs, NEW f \in Files PROVE Holding(j, f)'
    OBVIOUS
  <2>1. Holding(j, f)
    BY DEF IInv
  <2>2. CASE f = g
    BY <1>2, <1>3, <2>1, <2>2 DEF Holding
  <2>3. CASE f # g
    BY <1>1, <1>2, <1>3, <2>1, <2>3 DEF Holding
  <2> QED BY <2>2, <2>3
<1>8. \A j \in Jobs : JobShape(j)'
  BY DEF IInv, JobShape
<1>9. \A f \in Files : file[f].up = "answered" => file'[f].up = "answered"
  OBVIOUS
<1>10. \A p \in Requests : RequestShape(p)'
  <2> SUFFICES ASSUME NEW p \in Requests PROVE RequestShape(p)'
    OBVIOUS
  <2>1. RequestShape(p) /\ req[p].names \subseteq Files
    BY DEF IInv, TypeOK, Request
  <2> QED BY <1>9, <2>1 DEF RequestShape
<1>11. \A a \in Answers : AnswerShape(a)'
  <2> SUFFICES ASSUME NEW a \in Answers PROVE AnswerShape(a)'
    OBVIOUS
  <2>1. AnswerShape(a) /\ answer[a].names \subseteq Files
    BY DEF IInv, TypeOK
  <2>2. \A f \in Files : file[f].up = "answered" /\ ~HasRow(f) => ~HasRow(f)'
    BY <1>1 DEF HasRow
  <2> QED BY <1>3, <1>4, <1>9, <2>1, <2>2 DEF AnswerShape
<1>12. \A d \in Drafts : DraftShape(d)'
  BY <1>4 DEF IInv, DraftShape
<1> QED BY <1>5, <1>6, <1>7, <1>8, <1>10, <1>11, <1>12 DEF IInv
\* The file g ends with these fields and its old owner; the others stay.
Becomes(g, row, old, bytes, up) ==
  /\ file' \in [Files -> File]
  /\ \A f \in Files \ {g} : file'[f] = file[f]
  /\ file'[g].owner = file[g].owner
  /\ file'[g].row = row
  /\ file'[g].old = old
  /\ file'[g].bytes = bytes
  /\ file'[g].up = up

(* What the assignments of an upload make of its file.                      *)
LEMMA Assignments ==
  ASSUME file \in [Files -> File], NEW g \in Files
  PROVE  /\ \A up \in {"asked", "row", "writing", "written", "discarding", "answered", "ended"} :
              /\ Uploaded(g, up) =>
                   Becomes(g, file[g].row, file[g].old, file[g].bytes, up)
              /\ \A bytes \in {"none", "partial", "there"} :
                   Wrote(g, bytes, up) => Becomes(g, file[g].row, file[g].old, bytes, up)
              /\ \A row \in {"pending", "stored", "gone"} :
                   file' = [file EXCEPT ![g].row = row, ![g].up = up] =>
                     Becomes(g, row, file[g].old, file[g].bytes, up)
         /\ file' = [file EXCEPT ![g].old = TRUE] =>
              Becomes(g, file[g].row, TRUE, file[g].bytes, file[g].up)
<1>1. file[g] \in File
  OBVIOUS
<1>2. ASSUME NEW up \in {"asked", "row", "writing", "written", "discarding", "answered", "ended"},
             Uploaded(g, up)
      PROVE  Becomes(g, file[g].row, file[g].old, file[g].bytes, up)
  BY <1>1, <1>2 DEF Uploaded, Becomes, File
<1>3. ASSUME NEW up \in {"asked", "row", "writing", "written", "discarding", "answered", "ended"},
             NEW bytes \in {"none", "partial", "there"}, Wrote(g, bytes, up)
      PROVE  Becomes(g, file[g].row, file[g].old, bytes, up)
  BY <1>1, <1>3 DEF Wrote, Becomes, File
<1>4. ASSUME NEW up \in {"asked", "row", "writing", "written", "discarding", "answered", "ended"},
             NEW row \in {"pending", "stored", "gone"},
             file' = [file EXCEPT ![g].row = row, ![g].up = up]
      PROVE  Becomes(g, row, file[g].old, file[g].bytes, up)
  BY <1>1, <1>4 DEF Becomes, File
<1>5. ASSUME file' = [file EXCEPT ![g].old = TRUE]
      PROVE  Becomes(g, file[g].row, TRUE, file[g].bytes, file[g].up)
  BY <1>1, <1>5 DEF Becomes, File
<1> QED BY <1>2, <1>3, <1>4, <1>5

(* Every step of an upload is such a change.                                *)
LEMMA UploadIInv ==
  ASSUME IInv, NEW g \in Files, Upload(g)
  PROVE  IInv'
<1> DEFINE Result(row, old, bytes, up) ==
             /\ Becomes(g, row, old, bytes, up)
             /\ UNCHANGED untouched
             /\ cut \subseteq cut' /\ cut' \subseteq cut \cup {g}
             /\ faults' \in 0..MaxFaults
           There(row) == row \in {"pending", "stored"}
           Going(up)  == up \in {"row", "writing", "written", "discarding"}
           Over(up)   == ~Going(up) /\ up # "asked"
<1>1. /\ file \in [Files -> File] /\ file[g] \in File /\ FileShape(g)
      /\ HasRow(g) => form # "gone"
      /\ faults \in 0..MaxFaults
  BY DEF IInv, TypeOK
<1>2. \A j \in Jobs : HoldsRow(j, g) => HasRow(g) /\ (g \in cut \/ ~Uploading(g))
  BY DEF IInv, Holding
<1>3. Fault => faults' \in 0..MaxFaults
  BY <1>1, FaultsAssumption DEF Fault
<1>4. ASSUME NEW row, NEW old, NEW bytes, NEW up, Result(row, old, bytes, up),
             There(row) => form # "gone",
             file[g].up = "answered" => up = "answered" /\ row = file[g].row,
             \A j \in Jobs : HoldsRow(j, g) =>
               There(row) /\ ((Over(up) /\ bytes = file[g].bytes) \/ g \in cut),
             row = "none" => bytes = "none",
             up \in {"none", "asked"} => row = "none",
             row = "stored" => up = "answered",
             up = "written" \/ row = "stored" =>
               \/ bytes = "there"
               \/ ~There(row)
               \/ g \in torn
               \/ \E j \in Jobs : HoldsRow(j, g) /\ job[j].pc # "target",
             file[g].owner # Nobody => row = "stored",
             Going(up) \/ up = "answered" => row # "none",
             ~There(row) /\ (bytes # "none" \/ Going(up)) => g \in cut'
      PROVE  IInv'
  <2>1. /\ HasRow(g)' <=> There(row)
        /\ Uploading(g)' <=> file'[g].up \in {"asked", "row", "writing", "written", "discarding"}
        /\ file'[g] \in File
    BY <1>4 DEF Becomes, HasRow, Uploading
  <2>2. Uploading(g)' <=> ~Over(up)
    BY <1>4, <2>1 DEF Becomes, File
  <2>3. \A j \in Jobs : (HoldsRow(j, g)' <=> HoldsRow(j, g)) /\ job'[j].pc = job[j].pc
    BY <1>4 DEF HoldsRow, untouched
  <2>4. FileShape(g)'
    BY <1>4, <2>1, <2>2, <2>3 DEF FileShape, Begun, Becomes, untouched
  <2>5. \A j \in Jobs : HoldsRow(j, g) =>
           /\ HasRow(g)'
           /\ (~Uploading(g)' /\ file'[g].bytes = file[g].bytes) \/ g \in cut
    BY <1>4, <2>1, <2>2 DEF Becomes
  <2> QED BY <1>4, <2>1, <2>4, <2>5, OneFileChanges DEF Becomes
<1> HIDE DEF Result
<1> USE DEF untouched
<1>5. CASE CreateRow(g)
  <2>1. CASE form = "gone"
    <3>1. Result(file[g].row, file[g].old, file[g].bytes, "ended")
      BY <1>1, <1>5, <2>1, Assignments DEF CreateRow, Uploaded, Result
    <3> QED BY <1>1, <1>2, <1>4, <1>5, <3>1 DEF CreateRow, FileShape, Begun, HasRow
  <2>2. CASE form # "gone"
    <3>1. Result("pending", file[g].old, file[g].bytes, "row")
      BY <1>1, <1>5, <2>2, Assignments DEF CreateRow, Result
    <3> QED BY <1>1, <1>2, <1>4, <1>5, <2>2, <3>1 DEF CreateRow, FileShape, Begun, HasRow
  <2> QED BY <2>1, <2>2
<1>6. CASE AskUpload(g)
  <2>1. Result(file[g].row, file[g].old, file[g].bytes, "asked")
    BY <1>1, <1>3, <1>6, Assignments DEF AskUpload, Result
  <2> QED BY <1>1, <1>2, <1>4, <1>6, <2>1 DEF AskUpload, FileShape, Begun, HasRow, Uploading
<1>7. CASE OpenPartial(g)
  <2>1. Result(file[g].row, file[g].old, "partial", "writing")
    BY <1>1, <1>3, <1>7, Assignments DEF OpenPartial, Result
  <2> QED BY <1>1, <1>2, <1>4, <1>7, <2>1 DEF OpenPartial, FileShape, Begun, HasRow, Uploading
<1>8. CASE Rename(g)
  <2>1. CASE file[g].bytes = "partial"
    <3>1. Result(file[g].row, file[g].old, "there", "written")
      BY <1>1, <1>8, <2>1, Assignments DEF Rename, Result
    <3> QED BY <1>1, <1>2, <1>4, <1>8, <2>1, <3>1 DEF Rename, FileShape, Begun, HasRow, Uploading
  <2>2. CASE ~(file[g].bytes = "partial")
    <3>1. Result(file[g].row, file[g].old, file[g].bytes, "discarding")
      BY <1>1, <1>8, <2>2, Assignments DEF Rename, Result
    <3> QED BY <1>1, <1>2, <1>4, <1>8, <2>2, <3>1 DEF Rename, FileShape, Begun, HasRow, Uploading
  <2> QED BY <2>1, <2>2
<1>9. CASE PutFails(g)
  <2>1. Result(file[g].row, file[g].old, "none", "discarding")
    BY <1>1, <1>3, <1>9, Assignments DEF PutFails, Result
  <2> QED BY <1>1, <1>2, <1>4, <1>9, <2>1 DEF PutFails, FileShape, Begun, HasRow, Uploading
<1>10. CASE RenameFails(g)
  <2>1. Result(file[g].row, file[g].old, file[g].bytes, "discarding")
    BY <1>1, <1>3, <1>10, Assignments DEF RenameFails, Result
  <2> QED BY <1>1, <1>2, <1>4, <1>10, <2>1 DEF RenameFails, FileShape, Begun, HasRow, Uploading
<1>11. CASE Discard(g)
  <2>1. CASE HasRow(g)
    <3>1. Result("gone", file[g].old, file[g].bytes, "ended")
      BY <1>1, <1>11, <2>1, Assignments DEF Discard, Result, Uploaded
    <3> QED BY <1>1, <1>2, <1>4, <1>11, <2>1, <3>1 DEF Discard, Held, FileShape, Begun, HasRow, Uploading
  <2>2. CASE ~(HasRow(g))
    <3>1. Result(file[g].row, file[g].old, file[g].bytes, "ended")
      BY <1>1, <1>11, <2>2, Assignments DEF Discard, Result, Uploaded
    <3> QED BY <1>1, <1>2, <1>4, <1>11, <2>2, <3>1 DEF Discard, Held, FileShape, Begun, HasRow, Uploading
  <2> QED BY <2>1, <2>2
<1>12. CASE MarkStored(g)
  <2>1. CASE HasRow(g)
    <3>1. Result("stored", file[g].old, file[g].bytes, "answered")
      BY <1>1, <1>12, <2>1, Assignments DEF MarkStored, Result, Uploaded
    <3> QED BY <1>1, <1>2, <1>4, <1>12, <2>1, <3>1 DEF MarkStored, Held, FileShape, Begun, HasRow, Uploading
  <2>2. CASE ~(HasRow(g))
    <3>1. Result(file[g].row, file[g].old, file[g].bytes, "ended")
      BY <1>1, <1>12, <2>2, Assignments DEF MarkStored, Result, Uploaded
    <3> QED BY <1>1, <1>2, <1>4, <1>12, <2>2, <3>1 DEF MarkStored, Held, FileShape, Begun, HasRow, Uploading
  <2> QED BY <2>1, <2>2
<1>13. CASE UploadDies(g)
  <2>1. Result(file[g].row, file[g].old, file[g].bytes, "ended")
    BY <1>1, <1>3, <1>13, Assignments DEF UploadDies, Result
  <2> QED BY <1>1, <1>2, <1>4, <1>13, <2>1 DEF UploadDies, FileShape, Begun, HasRow, Uploading
<1>14. CASE Age(g)
  <2>1. Result(file[g].row, TRUE, file[g].bytes, file[g].up)
    BY <1>1, <1>3, <1>14, Assignments DEF Age, Result
  <2> QED BY <1>1, <1>2, <1>4, <1>14, <2>1 DEF Age, FileShape, Begun, HasRow, Uploading
<1> QED
  BY <1>5, <1>6, <1>7, <1>8, <1>9, <1>10, <1>11, <1>12, <1>13, <1>14 DEF Upload
-----------------------------------------------------------------------------
(* Claims: what a request reads, and whose the files are when it commits. *)

(* A request that begins asks for uploads it was told of, and nobody else   *)
(* stores the answer or the draft it creates.                               *)
LEMMA BeginIInv ==
  ASSUME IInv, NEW p \in Requests, NEW names \in SUBSET Files,
         \/ \E a \in Answers : \/ \E d \in Drafts \cup {Nobody} : BeginSubmit(p, a, d, names)
                               \/ BeginEdit(p, a, names)
         \/ \E d \in Drafts : BeginSave(p, d, names) \/ BeginUpdate(p, d, names)
  PROVE  IInv'
<1> PICK kind \in {"submit", "edit", "save", "update"}, x \in Owners,
         d \in Drafts \cup {Nobody} :
       /\ Begin(p, kind, x, d, names)
       /\ kind \in {"submit", "edit"} => x \in Answers
       /\ kind \in {"save", "update"} => x \in Drafts
       /\ kind # "submit" => d = Nobody
       /\ kind = "submit" => answer[x].state = "none"
       /\ kind = "edit" => answer[x].state = "live"
       /\ kind = "save" => draft[x].state = "none"
       /\ kind = "update" => draft[x].state = "open"
       /\ kind \in {"submit", "save"} => \A q \in Requests : req[q].on # x
  BY DEF BeginSubmit, BeginEdit, BeginSave, BeginUpdate, Owners
<1>1. /\ TypeOK
      /\ \A q \in Requests : RequestShape(q)
  BY DEF IInv
<1>2. /\ req' \in [Requests -> Request]
      /\ req'[p] = [kind |-> kind, on |-> x, draft |-> d, names |-> names, young |-> Young]
      /\ \A q \in Requests \ {p} : req'[q] = req[q]
  BY <1>1 DEF Begin, TypeOK, Request, Young
<1>3. UNCHANGED <<form, answer, draft, file, job, torn, spared, cut, faults>>
  BY DEF Begin, owned
<1>4. \A f \in names : file[f].up = "answered"
  BY DEF Begin, Known
<1>5. \A q \in Requests : RequestShape(q)'
  <2>1. RequestShape(p)'
    BY <1>2, <1>3, <1>4 DEF RequestShape
  <2>2. ASSUME NEW q \in Requests \ {p} PROVE RequestShape(q)'
    <3>1. RequestShape(q)
      BY <1>1
    <3>2. req[q].kind \in {"submit", "save"} => req[q].on # x
      BY <3>1, DisjointAssumption DEF RequestShape, Owners
    <3> QED BY <1>2, <1>3, <3>1, <3>2 DEF RequestShape
  <2> QED BY <2>1, <2>2
<1> QED BY <1>1, <1>2, <1>3, <1>5
  DEF IInv, TypeOK, HasRow, FileShape, Begun, Holding, HoldsRow, JobShape, Uploading,
      AnswerShape, DraftShape, OwnedBy

(* A request that has its answer disturbs no other one.                     *)
LEMMA AnsweredShape ==
  ASSUME IInv, NEW p \in Requests, Answered(p),
         \A f \in Files : file'[f].up = file[f].up,
         \A q \in Requests \ {p} :
           /\ req[q].kind = "submit" => answer'[req[q].on].state \in {"none", "gone"}
           /\ req[q].kind = "save" => draft'[req[q].on].state \in {"none", "gone"}
  PROVE  req' \in [Requests -> Request] /\ \A q \in Requests : RequestShape(q)'
<1>1. req \in [Requests -> Request] /\ \A q \in Requests : RequestShape(q)
  BY DEF IInv, TypeOK
<1>2. /\ req'[p] = NoRequest
      /\ \A q \in Requests \ {p} : req'[q] = req[q]
      /\ req' \in [Requests -> Request]
  BY <1>1 DEF Answered, NoRequest, Request
<1>3. RequestShape(p)'
  BY <1>2 DEF RequestShape, NoRequest
<1>4. ASSUME NEW q \in Requests \ {p} PROVE RequestShape(q)'
  <2>1. RequestShape(q) /\ req'[q] = req[q] /\ req[q].names \subseteq Files
    BY <1>1, <1>2 DEF Request
  <2>2. req'[p].on = Nobody
    BY <1>2 DEF NoRequest
  <2>3. req[q].kind \in {"submit", "save"} => req[q].on # Nobody
    BY <2>1, DisjointAssumption DEF RequestShape, Owners
  <2>4. req[q].kind \in {"submit", "save"} =>
           \A r \in Requests : req'[r].on = req'[q].on => r = q
    BY <1>2, <2>1, <2>2, <2>3 DEF RequestShape
  <2> QED BY <2>1, <2>4 DEF RequestShape
<1> QED BY <1>2, <1>3, <1>4

\* Only owners differ: F is x's now, what else was in R is nobody's.
Reassigned(F, x, R) ==
  /\ file' \in [Files -> File]
  /\ \A f \in Files :
       /\ file'[f].row = file[f].row /\ file'[f].bytes = file[f].bytes
       /\ file'[f].up = file[f].up
       /\ file'[f].owner = IF f \in F THEN x
                           ELSE IF f \in R THEN Nobody ELSE file[f].owner

(* An assignment of owners changes owners.                                  *)
LEMMA Assigned ==
  ASSUME file \in [Files -> File], NEW F \in SUBSET Files, NEW R \in SUBSET Files,
         NEW x \in Owners \cup {Nobody}, Assign(F, x, R)
  PROVE  Reassigned(F, x, R)
<1>1. ASSUME NEW f \in Files
      PROVE  /\ file'[f] \in File
             /\ file'[f].row = file[f].row /\ file'[f].bytes = file[f].bytes
             /\ file'[f].up = file[f].up
             /\ file'[f].owner = IF f \in F THEN x
                                 ELSE IF f \in R THEN Nobody ELSE file[f].owner
  <2>1. file[f] \in File
    OBVIOUS
  <2>2. file'[f] = [file[f] EXCEPT !.owner = IF f \in F THEN x
                                             ELSE IF f \in R THEN Nobody ELSE @]
    BY DEF Assign
  <2> QED BY <2>1, <2>2 DEF File
<1>2. file' \in [Files -> File]
  <2>1. file' = [f \in Files |-> file'[f]]
    BY DEF Assign
  <2> QED BY <1>1, <2>1
<1> QED BY <1>1, <1>2 DEF Reassigned

(* What a change of owners leaves true: only files nobody holds change      *)
(* hands, only stored ones get an owner, and a held file's owner stays in   *)
(* the trash.                                                               *)
LEMMA OwnersChange ==
  ASSUME IInv, NEW F \in SUBSET Files, NEW R \in SUBSET Files,
         NEW x \in Owners \cup {Nobody}, Assign(F, x, R),
         Unheld(F), Unheld(R),
         \A f \in F : file[f].row = "stored",
         UNCHANGED <<form, torn, spared, cut, faults>>,
         job' \in [Jobs -> Job], \A j \in Jobs : JobShape(j)',
         \A j \in Jobs, f \in Files : HoldsRow(j, f)' <=> HoldsRow(j, f),
         \A j \in Jobs, f \in Files : HoldsRow(j, f) => job'[j].pc = job[j].pc,
         answer' \in [Answers -> [state : {"none", "live", "trash", "gone"},
                                  names : SUBSET Files]],
         draft' \in [Drafts -> [state : {"none", "open", "gone"}, names : SUBSET Files]],
         req' \in [Requests -> Request], \A p \in Requests : RequestShape(p)',
         \A a \in Answers : \/ AnswerShape(a)'
                            \/ /\ answer'[a] = answer[a] /\ x # a
                               /\ \A f \in F \cup R : file[f].owner # a,
         \A d \in Drafts : \/ DraftShape(d)'
                           \/ draft'[d] = draft[d] /\ x # d,
         \A a \in Answers : answer[a].state = "trash" =>
           answer'[a].state = "trash" \/ Unheld(OwnedBy(a))
  PROVE  IInv'
<1>1. /\ file \in [Files -> File]
      /\ TypeOK
      /\ \A f \in Files : FileShape(f)
      /\ \A j \in Jobs, f \in Files : Holding(j, f)
      /\ \A a \in Answers : AnswerShape(a)
      /\ \A d \in Drafts : DraftShape(d)
  BY DEF IInv, TypeOK
<1>2. ASSUME NEW f \in Files
      PROVE  /\ file'[f].row = file[f].row
             /\ file'[f].bytes = file[f].bytes
             /\ file'[f].up = file[f].up
             /\ file'[f].owner = IF f \in F THEN x
                                 ELSE IF f \in R THEN Nobody ELSE file[f].owner
  <2>1. Reassigned(F, x, R)
    BY <1>1, Assigned
  <2> QED BY <2>1 DEF Reassigned
<1>3. file' \in [Files -> File]
  <2>1. Reassigned(F, x, R)
    BY <1>1, Assigned
  <2> QED BY <2>1 DEF Reassigned
<1>4. \A f \in Files : /\ HasRow(f)' <=> HasRow(f)
                       /\ Uploading(f)' <=> Uploading(f)
                       /\ Begun(f)' <=> Begun(f)
  BY <1>2 DEF HasRow, Uploading, Begun
<1>5. \A f \in Files : FileShape(f)'
  <2> SUFFICES ASSUME NEW f \in Files PROVE FileShape(f)'
    OBVIOUS
  <2>1. FileShape(f)
    BY <1>1
  <2>2. file'[f].owner # Nobody => file'[f].row = "stored"
    BY <1>2, <2>1 DEF FileShape
  <2>3. (\E j \in Jobs : HoldsRow(j, f) /\ job[j].pc # "target")
        => \E j \in Jobs : HoldsRow(j, f)' /\ job'[j].pc # "target"
    OBVIOUS
  <2> QED BY <1>2, <1>4, <2>1, <2>2, <2>3 DEF FileShape
<1>6. TypeOK'
  <2>1. \A f \in Files : HasRow(f)' => form' # "gone"
    BY <1>1, <1>4 DEF TypeOK
  <2>2. \A f \in Files : file'[f].owner # Nobody => HasRow(f)'
    BY <1>5 DEF FileShape, HasRow
  <2> QED BY <1>1, <1>3, <2>1, <2>2 DEF TypeOK
<1>7. \A j \in Jobs, f \in Files : Holding(j, f)'
  <2> SUFFICES ASSUME NEW j \in Jobs, NEW f \in Files, HoldsRow(j, f)
               PROVE  Holding(j, f)'
    BY DEF Holding
  <2>1. file'[f].owner = file[f].owner
    BY <1>2 DEF Unheld, Held
  <2>2. Holding(j, f)
    BY <1>1
  <2>3. ASSUME file[f].owner \in Answers, answer[file[f].owner].state = "trash"
        PROVE  answer'[file[f].owner].state = "trash"
    BY <2>3 DEF Unheld, Held, OwnedBy
  <2> QED BY <1>2, <1>4, <2>1, <2>2, <2>3 DEF Holding
<1>8. \A a \in Answers : AnswerShape(a)'
  <2> SUFFICES ASSUME NEW a \in Answers, answer'[a] = answer[a], x # a,
                      \A f \in F \cup R : file[f].owner # a
               PROVE  AnswerShape(a)'
    OBVIOUS
  <2>1. AnswerShape(a) /\ answer[a].names \subseteq Files /\ a # Nobody
    BY <1>1, DisjointAssumption DEF TypeOK, Owners
  <2>2. \A f \in Files : file'[f].owner = a <=> file[f].owner = a
    BY <1>2, <2>1
  <2>3. OwnedBy(a)' = OwnedBy(a)
    BY <2>2 DEF OwnedBy
  <2>4. \A f \in answer[a].names : /\ file'[f].up = file[f].up
                                   /\ HasRow(f)' <=> HasRow(f)
                                   /\ file'[f].owner = a <=> file[f].owner = a
    BY <1>2, <1>4, <2>1, <2>2
  <2> QED BY <2>1, <2>3, <2>4 DEF AnswerShape
<1>9. \A d \in Drafts : DraftShape(d)'
  <2> SUFFICES ASSUME NEW d \in Drafts, draft'[d] = draft[d], x # d
               PROVE  DraftShape(d)'
    OBVIOUS
  <2>1. DraftShape(d) /\ d # Nobody
    BY <1>1, DisjointAssumption DEF Owners
  <2>2. OwnedBy(d)' \subseteq OwnedBy(d)
    BY <1>2, <2>1 DEF OwnedBy
  <2> QED BY <2>1, <2>2 DEF DraftShape
<1> QED BY <1>5, <1>6, <1>7, <1>8, <1>9 DEF IInv
(* An answer stored takes the files it names, and its draft's others go.    *)
LEMMA CommitSubmitIInv ==
  ASSUME IInv, NEW p \in Requests, CommitSubmit(p)
  PROVE  IInv'
<1> DEFINE r == req[p]
           R == IF r.draft = Nobody THEN {} ELSE OwnedBy(r.draft)
<1>1. /\ TypeOK /\ file \in [Files -> File]
      /\ \A a \in Answers : AnswerShape(a)
      /\ \A j \in Jobs : JobShape(j)
      /\ \A q \in Requests : RequestShape(q)
  BY DEF IInv, TypeOK
<1>2. /\ r.kind = "submit" /\ r.on \in Answers /\ r.names \in SUBSET Files
      /\ r.draft \in Drafts \cup {Nobody}
      /\ answer[r.on].state \in {"none", "gone"}
      /\ answer[r.on].names = {}
  BY <1>1 DEF CommitSubmit, RequestShape, AnswerShape, TypeOK, Request
<1>3. R \in SUBSET Files /\ Unheld(r.names) /\ Unheld(R) /\ Assign(r.names, r.on, R)
  BY DEF CommitSubmit, OwnedBy, Unheld
<1>4. \A f \in r.names : /\ file[f].row = "stored" /\ file[f].up = "answered"
                         /\ file[f].owner \in Drafts \cup {r.on, Nobody}
  BY <1>1, <1>2 DEF CommitSubmit, Claimable, RequestShape
<1>5. UNCHANGED <<form, job, torn, spared, cut, faults>>
  BY DEF CommitSubmit, owned
<1>6. /\ answer' \in [Answers -> [state : {"none", "live", "trash", "gone"},
                                  names : SUBSET Files]]
      /\ answer'[r.on] = [state |-> "live", names |-> r.names]
      /\ \A a \in Answers \ {r.on} : answer'[a] = answer[a]
  BY <1>1, <1>2 DEF CommitSubmit, TypeOK
<1>7. /\ draft' \in [Drafts -> [state : {"none", "open", "gone"}, names : SUBSET Files]]
      /\ \A d \in Drafts : \/ draft'[d] = draft[d]
                           \/ /\ d = r.draft
                              /\ draft'[d] = [state |-> "gone", names |-> {}]
  BY <1>1, <1>2 DEF CommitSubmit, TypeOK
<1>8. ASSUME NEW f \in Files
      PROVE  /\ file'[f].up = file[f].up
             /\ file'[f].owner = IF f \in r.names THEN r.on
                                 ELSE IF f \in R THEN Nobody ELSE file[f].owner
  <2> HIDE DEF r, R
  <2>1. Reassigned(r.names, r.on, R)
    BY <1>1, <1>2, <1>3, Assigned DEF Owners
  <2> QED BY <2>1 DEF Reassigned
<1>9. req' \in [Requests -> Request] /\ \A q \in Requests : RequestShape(q)'
  <2>1. ASSUME NEW q \in Requests \ {p}
        PROVE  /\ req[q].kind = "submit" => answer'[req[q].on].state \in {"none", "gone"}
               /\ req[q].kind = "save" => draft'[req[q].on].state \in {"none", "gone"}
    <3>1. RequestShape(q) /\ RequestShape(p)
      BY <1>1
    <3>2. req[q].on # r.on
      BY <1>2, <3>1 DEF RequestShape
    <3> QED BY <1>2, <1>6, <1>7, <3>1, <3>2 DEF RequestShape
  <2>2. Answered(p)
    BY DEF CommitSubmit
  <2> QED BY <1>8, <2>1, <2>2, AnsweredShape
<1>10. ASSUME NEW a \in Answers
       PROVE  \/ AnswerShape(a)'
              \/ /\ answer'[a] = answer[a] /\ r.on # a
                 /\ \A f \in r.names \cup R : file[f].owner # a
  <2>1. CASE a = r.on
    <3>1. \A f \in Files : file'[f].owner = a => f \in r.names
      BY <1>1, <1>2, <1>8, <2>1, DisjointAssumption DEF AnswerShape, OwnedBy, Owners
    <3> QED BY <1>2, <1>4, <1>6, <1>8, <2>1, <3>1 DEF AnswerShape, OwnedBy
  <2>2. CASE a # r.on
    BY <1>2, <1>4, <1>6, <2>2, DisjointAssumption DEF OwnedBy, Owners
  <2> QED BY <2>1, <2>2
<1>11. ASSUME NEW d \in Drafts
       PROVE  DraftShape(d)' \/ (draft'[d] = draft[d] /\ r.on # d)
  <2>1. d # r.on /\ d # Nobody
    BY <1>2, DisjointAssumption DEF Owners
  <2>2. CASE r.draft = d /\ draft'[d] = [state |-> "gone", names |-> {}]
    <3>1. \A f \in Files : file'[f].owner # d
      BY <1>8, <2>1, <2>2 DEF OwnedBy
    <3> QED BY <2>2, <3>1 DEF DraftShape, OwnedBy
  <2> QED BY <1>7, <2>1, <2>2
<1>12. \A j \in Jobs : JobShape(j)'
  BY <1>1, <1>5 DEF JobShape
<1>13. \A a \in Answers : answer[a].state = "trash" => answer'[a].state = "trash"
  BY <1>2, <1>6
<1>14. \A j \in Jobs, f \in Files : HoldsRow(j, f)' <=> HoldsRow(j, f)
  BY <1>5 DEF HoldsRow
<1>15. job' \in [Jobs -> Job] /\ r.on \in Owners
  BY <1>1, <1>2, <1>5 DEF TypeOK, Owners
<1> HIDE DEF r, R
<1> QED BY <1>2, <1>3, <1>4, <1>5, <1>6, <1>7, <1>9, <1>10, <1>11, <1>12, <1>13,
           <1>14, <1>15, OwnersChange
(* A correction takes what it names and lets go of the rest.                *)
LEMMA CommitEditIInv ==
  ASSUME IInv, NEW p \in Requests, CommitEdit(p)
  PROVE  IInv'
<1> DEFINE r == req[p]
           R == OwnedBy(r.on)
<1>1. /\ TypeOK /\ file \in [Files -> File]
      /\ \A a \in Answers : AnswerShape(a)
      /\ \A d \in Drafts : DraftShape(d)
      /\ \A j \in Jobs : JobShape(j)
      /\ \A q \in Requests : RequestShape(q)
  BY DEF IInv, TypeOK
<1>2. /\ r.kind = "edit" /\ r.on \in Answers /\ r.names \in SUBSET Files
      /\ r.draft = Nobody
      /\ answer[r.on].state = "live"
  BY <1>1 DEF CommitEdit, RequestShape, TypeOK, Request
<1>3. R \in SUBSET Files /\ Unheld(r.names) /\ Unheld(R) /\ Assign(r.names, r.on, R)
  BY DEF CommitEdit, OwnedBy, Unheld
<1>4. \A f \in r.names : /\ file[f].row = "stored" /\ file[f].up = "answered"
                         /\ file[f].owner \in {r.on, Nobody}
  BY <1>1, <1>2 DEF CommitEdit, Claimable, RequestShape
<1>5. UNCHANGED <<form, draft, job, torn, spared, cut, faults>>
  BY DEF CommitEdit, owned
<1>6. /\ answer' \in [Answers -> [state : {"none", "live", "trash", "gone"},
                                  names : SUBSET Files]]
      /\ answer'[r.on].names = r.names
      /\ \A a \in Answers \ {r.on} : answer'[a] = answer[a]
      /\ \A a \in Answers : answer'[a].state = answer[a].state
  BY <1>1, <1>2 DEF CommitEdit, TypeOK
<1>7. ASSUME NEW f \in Files
      PROVE  /\ file'[f].up = file[f].up
             /\ file'[f].owner = IF f \in r.names THEN r.on
                                 ELSE IF f \in R THEN Nobody ELSE file[f].owner
  <2> HIDE DEF r, R
  <2>1. Reassigned(r.names, r.on, R)
    BY <1>1, <1>2, <1>3, Assigned DEF Owners
  <2> QED BY <2>1 DEF Reassigned
<1>8. req' \in [Requests -> Request] /\ \A q \in Requests : RequestShape(q)'
  <2>1. ASSUME NEW q \in Requests \ {p}
        PROVE  /\ req[q].kind = "submit" => answer'[req[q].on].state \in {"none", "gone"}
               /\ req[q].kind = "save" => draft'[req[q].on].state \in {"none", "gone"}
    <3>1. RequestShape(q)
      BY <1>1
    <3> QED BY <1>5, <1>6, <3>1 DEF RequestShape
  <2>2. Answered(p)
    BY DEF CommitEdit
  <2> QED BY <1>7, <2>1, <2>2, AnsweredShape
<1>9. ASSUME NEW a \in Answers
      PROVE  \/ AnswerShape(a)'
             \/ /\ answer'[a] = answer[a] /\ r.on # a
                /\ \A f \in r.names \cup R : file[f].owner # a
  <2>1. CASE a = r.on
    <3>1. \A f \in Files : file'[f].owner = a => f \in r.names
      BY <1>2, <1>7, <2>1, DisjointAssumption DEF OwnedBy, Owners
    <3> QED BY <1>2, <1>4, <1>6, <1>7, <2>1, <3>1 DEF AnswerShape, OwnedBy
  <2>2. CASE a # r.on
    BY <1>4, <1>6, <2>2, DisjointAssumption DEF OwnedBy, Owners
  <2> QED BY <2>1, <2>2
<1>10. \A d \in Drafts : DraftShape(d)' \/ (draft'[d] = draft[d] /\ r.on # d)
  BY <1>2, <1>5, DisjointAssumption
<1>11. \A j \in Jobs : JobShape(j)'
  BY <1>1, <1>5 DEF JobShape
<1>12. \A a \in Answers : answer[a].state = "trash" => answer'[a].state = "trash"
  BY <1>6
<1>13. \A f \in r.names : file[f].row = "stored"
  BY <1>4
<1>14. \A j \in Jobs, f \in Files : HoldsRow(j, f)' <=> HoldsRow(j, f)
  BY <1>5 DEF HoldsRow
<1>15. /\ job' \in [Jobs -> Job] /\ r.on \in Owners
       /\ draft' \in [Drafts -> [state : {"none", "open", "gone"}, names : SUBSET Files]]
  BY <1>1, <1>2, <1>5 DEF TypeOK, Owners
<1> HIDE DEF r, R
<1> QED BY <1>2, <1>3, <1>5, <1>6, <1>8, <1>9, <1>10, <1>11, <1>12, <1>13, <1>14,
           <1>15, OwnersChange

(* A draft takes what it may; nothing but drafts and their files change.    *)
LEMMA DraftChange ==
  ASSUME IInv, NEW x \in Drafts, NEW F \in SUBSET Files, NEW R \in SUBSET Files,
         NEW y \in {x, Nobody},
         Assign(F, y, R), Unheld(F), Unheld(R),
         UNCHANGED <<owned, answer>>,
         \A f \in F : file[f].row = "stored",
         \A f \in F \cup R : file[f].owner \in {x, Nobody},
         draft' \in [Drafts -> [state : {"none", "open", "gone"}, names : SUBSET Files]],
         \A d \in Drafts \ {x} : draft'[d] = draft[d],
         draft'[x].state # "open" => draft'[x].names = {},
         \A f \in Files : file'[f].owner = x => f \in draft'[x].names,
         req' \in [Requests -> Request], \A q \in Requests : RequestShape(q)'
  PROVE  IInv'
<1> USE DEF owned
<1>1. TypeOK /\ \A j \in Jobs : JobShape(j)
  BY DEF IInv
<1>2. DraftShape(x)'
  BY DEF DraftShape, OwnedBy
<1>3. \A d \in Drafts : DraftShape(d)' \/ (draft'[d] = draft[d] /\ y # d)
  BY <1>2, DisjointAssumption DEF Owners
<1>4. \A a \in Answers : /\ answer'[a] = answer[a] /\ y # a
                         /\ \A f \in F \cup R : file[f].owner # a
  BY DisjointAssumption DEF Owners
<1>5. \A j \in Jobs, f \in Files : HoldsRow(j, f)' <=> HoldsRow(j, f)
  BY DEF HoldsRow
<1>6. job' \in [Jobs -> Job] /\ \A j \in Jobs : JobShape(j)'
  BY <1>1 DEF TypeOK, JobShape
<1>7. answer' \in [Answers -> [state : {"none", "live", "trash", "gone"}, names : SUBSET Files]]
  BY <1>1 DEF TypeOK
<1>8. y \in Owners \cup {Nobody}
  BY DEF Owners
<1> QED BY <1>3, <1>4, <1>5, <1>6, <1>7, <1>8, OwnersChange
(* A draft that is saved takes of its files what it may.                    *)
LEMMA CommitSaveIInv ==
  ASSUME IInv, NEW p \in Requests, CommitSave(p)
  PROVE  IInv'
<1> DEFINE r == req[p]
           F == Takeable(p)
<1>1. /\ TypeOK /\ file \in [Files -> File]
      /\ \A d \in Drafts : DraftShape(d)
      /\ \A q \in Requests : RequestShape(q)
  BY DEF IInv, TypeOK
<1>2. /\ r.kind = "save" /\ r.on \in Drafts /\ r.names \in SUBSET Files
      /\ r.draft = Nobody
      /\ draft[r.on].state # "open"
  BY <1>1 DEF CommitSave, RequestShape, TypeOK, Request
<1>3. F \in SUBSET r.names /\ Assign(F, r.on, {}) /\ Unheld(F)
  BY DEF CommitSave, Takeable, Unheld
<1>4. \A f \in F : file[f].row = "stored" /\ file[f].owner \in {r.on, Nobody}
  BY <1>2 DEF Takeable, Claimable
<1>5. UNCHANGED <<owned, answer>>
  BY DEF CommitSave
<1>6. /\ draft' \in [Drafts -> [state : {"none", "open", "gone"}, names : SUBSET Files]]
      /\ draft'[r.on] = [state |-> "open", names |-> r.names]
      /\ \A d \in Drafts \ {r.on} : draft'[d] = draft[d]
  BY <1>1, <1>2 DEF CommitSave, TypeOK
<1> HIDE DEF r, F
<1>7. Reassigned(F, r.on, {})
  BY <1>1, <1>2, <1>3, Assigned DEF Owners
<1>8. req' \in [Requests -> Request] /\ \A q \in Requests : RequestShape(q)'
  <2>1. ASSUME NEW q \in Requests \ {p}
        PROVE  /\ req[q].kind = "submit" => answer'[req[q].on].state \in {"none", "gone"}
               /\ req[q].kind = "save" => draft'[req[q].on].state \in {"none", "gone"}
    <3>1. RequestShape(q) /\ RequestShape(p)
      BY <1>1
    <3>2. req[q].on # r.on
      BY <1>2, <3>1 DEF RequestShape, r
    <3> QED BY <1>5, <1>6, <3>1, <3>2 DEF RequestShape
  <2>2. Answered(p)
    BY DEF CommitSave
  <2>3. \A f \in Files : file'[f].up = file[f].up
    BY <1>7 DEF Reassigned
  <2> QED BY <2>1, <2>2, <2>3, AnsweredShape
<1>9. ASSUME NEW f \in Files, file'[f].owner = r.on
      PROVE  f \in draft'[r.on].names
  <2>1. DraftShape(r.on)
    BY <1>1, <1>2
  <2>2. file[f].owner # r.on
    BY <1>2, <2>1 DEF DraftShape, OwnedBy
  <2> QED BY <1>3, <1>6, <1>7, <1>9, <2>2 DEF Reassigned
<1>10. F \in SUBSET Files /\ \A f \in F : file[f].row = "stored"
  BY <1>2, <1>3, <1>4
<1>11. \A f \in F \cup {} : file[f].owner \in {r.on, Nobody}
  BY <1>4
<1>12. Unheld({})
  BY DEF Unheld
<1> QED BY <1>2, <1>3, <1>5, <1>6, <1>8, <1>9, <1>10, <1>11, <1>12, DraftChange

(* An update takes what it may and lets go of what it no longer names.      *)
LEMMA CommitUpdateIInv ==
  ASSUME IInv, NEW p \in Requests, CommitUpdate(p)
  PROVE  IInv'
<1> DEFINE r == req[p]
           F == Takeable(p)
           R == OwnedBy(r.on) \ r.names
<1>1. /\ TypeOK /\ file \in [Files -> File]
      /\ \A d \in Drafts : DraftShape(d)
      /\ \A q \in Requests : RequestShape(q)
  BY DEF IInv, TypeOK
<1>2. /\ r.kind = "update" /\ r.on \in Drafts /\ r.names \in SUBSET Files
      /\ r.draft = Nobody
      /\ draft[r.on].state = "open"
  BY <1>1 DEF CommitUpdate, RequestShape, TypeOK, Request
<1>3. F \in SUBSET r.names /\ Assign(F, r.on, R) /\ Unheld(F) /\ Unheld(R)
  BY DEF CommitUpdate, Takeable, Unheld
<1>4. /\ \A f \in F : file[f].row = "stored" /\ file[f].owner \in {r.on, Nobody}
      /\ \A f \in R : file[f].owner = r.on
      /\ R \in SUBSET Files
  BY <1>2 DEF Takeable, Claimable, OwnedBy
<1>5. UNCHANGED <<owned, answer>>
  BY DEF CommitUpdate
<1>6. /\ draft' \in [Drafts -> [state : {"none", "open", "gone"}, names : SUBSET Files]]
      /\ draft'[r.on].names = r.names /\ draft'[r.on].state = "open"
      /\ \A d \in Drafts \ {r.on} : draft'[d] = draft[d]
  BY <1>1, <1>2 DEF CommitUpdate, TypeOK
<1>7. R = OwnedBy(r.on) \ r.names
  OBVIOUS
<1> HIDE DEF r, F, R
<1>8. Reassigned(F, r.on, R)
  BY <1>1, <1>2, <1>3, <1>4, Assigned DEF Owners
<1>9. req' \in [Requests -> Request] /\ \A q \in Requests : RequestShape(q)'
  <2>1. ASSUME NEW q \in Requests \ {p}
        PROVE  /\ req[q].kind = "submit" => answer'[req[q].on].state \in {"none", "gone"}
               /\ req[q].kind = "save" => draft'[req[q].on].state \in {"none", "gone"}
    <3>1. RequestShape(q)
      BY <1>1
    <3> QED BY <1>2, <1>5, <1>6, <3>1 DEF RequestShape
  <2>2. Answered(p)
    BY DEF CommitUpdate
  <2>3. \A f \in Files : file'[f].up = file[f].up
    BY <1>8 DEF Reassigned
  <2> QED BY <2>1, <2>2, <2>3, AnsweredShape
<1>10. ASSUME NEW f \in Files, file'[f].owner = r.on
       PROVE  f \in draft'[r.on].names
  <2>1. r.on # Nobody
    BY <1>2, DisjointAssumption DEF Owners
  <2> QED BY <1>3, <1>6, <1>7, <1>8, <1>10, <2>1 DEF Reassigned, OwnedBy
<1>11. F \in SUBSET Files /\ \A f \in F : file[f].row = "stored"
  BY <1>2, <1>3, <1>4
<1>12. \A f \in F \cup R : file[f].owner \in {r.on, Nobody}
  BY <1>4
<1> QED BY <1>2, <1>3, <1>4, <1>5, <1>6, <1>9, <1>10, <1>11, <1>12, DraftChange

(* A draft that is dropped frees its files.                                 *)
LEMMA DropDraftIInv ==
  ASSUME IInv, NEW d \in Drafts, DropDraft(d)
  PROVE  IInv'
<1> DEFINE R == OwnedBy(d)
<1>1. /\ TypeOK /\ file \in [Files -> File]
      /\ \A q \in Requests : RequestShape(q)
  BY DEF IInv, TypeOK
<1>2. R \in SUBSET Files /\ \A f \in R : file[f].owner = d
  BY DEF OwnedBy
<1>3. Assign({}, Nobody, R) /\ Unheld(R) /\ Unheld({})
  BY DEF DropDraft, Unheld
<1>4. UNCHANGED <<owned, answer>> /\ UNCHANGED req
  BY DEF DropDraft
<1>5. /\ draft' \in [Drafts -> [state : {"none", "open", "gone"}, names : SUBSET Files]]
      /\ draft'[d] = [state |-> "gone", names |-> {}]
      /\ \A e \in Drafts \ {d} : draft'[e] = draft[e]
  BY <1>1 DEF DropDraft, TypeOK
<1>6. R = OwnedBy(d)
  OBVIOUS
<1> HIDE DEF R
<1>7. Reassigned({}, Nobody, R)
  BY <1>1, <1>2, <1>3, Assigned
<1>8. req' \in [Requests -> Request] /\ \A q \in Requests : RequestShape(q)'
  <2>1. \A f \in Files : file'[f].up = file[f].up
    BY <1>7 DEF Reassigned
  <2>2. ASSUME NEW q \in Requests PROVE RequestShape(q)'
    <3>1. RequestShape(q) /\ req[q].names \subseteq Files /\ answer' = answer
      BY <1>1, <1>4 DEF TypeOK, Request
    <3> QED BY <1>4, <1>5, <2>1, <3>1 DEF RequestShape
  <2> QED BY <1>1, <1>4, <2>2 DEF TypeOK
<1>9. \A f \in Files : file'[f].owner # d
  BY <1>6, <1>7, DisjointAssumption DEF Reassigned, OwnedBy, Owners
<1>10. \A f \in {} \cup R : file[f].owner \in {d, Nobody}
  BY <1>2
<1> QED BY <1>2, <1>3, <1>4, <1>5, <1>8, <1>9, <1>10, DraftChange

(* Every step of a request.                                                 *)
LEMMA ClaimIInv ==
  ASSUME IInv, NEW p \in Requests, Claim(p)
  PROVE  IInv'
<1>1. CASE Refuse(p)
  <2>1. TypeOK /\ \A q \in Requests : RequestShape(q)
    BY DEF IInv
  <2>2. UNCHANGED <<form, answer, draft, file, job, torn, spared, cut, faults>>
    BY <1>1 DEF Refuse, owned
  <2>3. req' \in [Requests -> Request] /\ \A q \in Requests : RequestShape(q)'
    BY <1>1, <2>1, <2>2, AnsweredShape DEF Refuse, RequestShape
  <2> QED BY <2>1, <2>2, <2>3
    DEF IInv, TypeOK, HasRow, FileShape, Begun, Holding, HoldsRow, JobShape, Uploading,
        AnswerShape, DraftShape, OwnedBy
<1>2. CASE \E names \in SUBSET Files :
             \/ \E a \in Answers : \/ \E d \in Drafts \cup {Nobody} : BeginSubmit(p, a, d, names)
                                   \/ BeginEdit(p, a, names)
             \/ \E d \in Drafts : BeginSave(p, d, names) \/ BeginUpdate(p, d, names)
  BY <1>2, BeginIInv
<1> QED BY <1>1, <1>2, CommitSubmitIInv, CommitEditIInv, CommitSaveIInv, CommitUpdateIInv
        DEF Claim
-----------------------------------------------------------------------------
(* The trash: what comes back is whole, or recorded as spared. *)

(* A file an answer owns is one it names.                                   *)
LEMMA OwnedIsNamed ==
  ASSUME IInv, NEW a \in Answers, NEW f \in Files, file[f].owner = a
  PROVE  f \in answer[a].names
BY DEF IInv, AnswerShape, OwnedBy

(* What an erasure holds or took away is recorded as spared when it comes   *)
(* back; nothing else of a file changes.                                    *)
LEMMA TrashIInv == IInv /\ Trash => IInv'
<1> SUFFICES ASSUME IInv, Trash PROVE IInv'
  OBVIOUS
<1>1. /\ TypeOK
      /\ \A f \in Files : FileShape(f)
      /\ \A j \in Jobs, f \in Files : Holding(j, f)
      /\ \A j \in Jobs : JobShape(j)
      /\ \A p \in Requests : RequestShape(p)
      /\ \A a \in Answers : AnswerShape(a)
      /\ \A d \in Drafts : DraftShape(d)
  BY DEF IInv
<1> DEFINE Frame == /\ UNCHANGED rest
                    /\ spared \subseteq spared' /\ spared' \subseteq Files
                    /\ form' = form \/ form' \in {"live", "trash"}
                    /\ form' = "gone" => form = "gone"
                    /\ answer' \in [Answers -> [state : {"none", "live", "trash", "gone"},
                                                names : SUBSET Files]]
           Same(a) == /\ answer'[a].names = answer[a].names
                      /\ \/ answer'[a].state = answer[a].state
                         \/ answer[a].state = "live" /\ answer'[a].state = "trash"
                         \/ answer[a].state = "trash" /\ answer'[a].state = "live"
           \* Who comes back is named in spared, if an erasure has begun with it.
           Spared(a, f) == \/ f \in spared'
                           \/ form' = "trash" \/ answer'[a].state = "trash"
                           \/ form' = form /\ answer'[a].state = answer[a].state
<1>2. ASSUME NEW b \in Answers, TrashAnswer(b)
      PROVE  /\ Frame
             /\ \A a \in Answers : Same(a)
             /\ \A a \in Answers : \A f \in answer[a].names : Spared(a, f)
  <2>1. answer' = [answer EXCEPT ![b].state = "trash"] /\ answer[b].state = "live"
    BY <1>2 DEF TrashAnswer
  <2>2. UNCHANGED <<rest, form, spared>>
    BY <1>2 DEF TrashAnswer
  <2>3. /\ answer' \in [Answers -> [state : {"none", "live", "trash", "gone"},
                                   names : SUBSET Files]]
        /\ \A a \in Answers \ {b} : answer'[a] = answer[a]
        /\ answer'[b].names = answer[b].names /\ answer'[b].state = "trash"
    BY <1>1, <2>1 DEF TypeOK
  <2>4. spared \subseteq Files
    BY <1>1 DEF TypeOK
  <2>5. Frame
    BY <2>2, <2>3, <2>4
  <2>6. \A a \in Answers : Same(a)
    BY <2>1, <2>3
  <2>7. \A a \in Answers : \A f \in answer[a].names : Spared(a, f)
    BY <2>2, <2>3
  <2> QED BY <2>5, <2>6, <2>7
<1>3. ASSUME NEW b \in Answers, RestoreAnswer(b)
      PROVE  /\ Frame
             /\ \A a \in Answers : Same(a)
             /\ \A a \in Answers : \A f \in answer[a].names : Erasing(f) => Spared(a, f)
  <2>1. answer' = [answer EXCEPT ![b].state = "live"] /\ answer[b].state = "trash"
    BY <1>3 DEF RestoreAnswer
  <2>2. UNCHANGED <<rest, form>>
    BY <1>3 DEF RestoreAnswer
  <2>3. spared' = spared \cup {f \in answer[b].names : Erasing(f)}
    BY <1>3 DEF RestoreAnswer
  <2>4. answer[b].names \subseteq Files /\ spared \subseteq Files
    BY <1>1 DEF TypeOK
  <2>5. /\ answer' \in [Answers -> [state : {"none", "live", "trash", "gone"},
                                   names : SUBSET Files]]
        /\ \A a \in Answers \ {b} : answer'[a] = answer[a]
        /\ answer'[b].names = answer[b].names /\ answer'[b].state = "live"
    BY <1>1, <2>1 DEF TypeOK
  <2>6. Frame
    BY <2>2, <2>3, <2>4, <2>5
  <2>7. \A a \in Answers : Same(a)
    BY <2>1, <2>5
  <2>8. \A a \in Answers : \A f \in answer[a].names : Erasing(f) => Spared(a, f)
    BY <2>2, <2>3, <2>5
  <2> QED BY <2>6, <2>7, <2>8
<1>4. ASSUME TrashForm
      PROVE  /\ Frame
             /\ \A a \in Answers : Same(a)
             /\ \A a \in Answers : \A f \in answer[a].names : Erasing(f) => Spared(a, f)
  BY <1>1, <1>4 DEF TypeOK, TrashForm
<1>5. ASSUME RestoreForm
      PROVE  /\ Frame
             /\ \A a \in Answers : Same(a)
             /\ \A a \in Answers : \A f \in answer[a].names : Erasing(f) => Spared(a, f)
  <2>1. UNCHANGED <<rest, answer>> /\ form = "trash" /\ form' = "live"
    BY <1>5 DEF RestoreForm
  <2>2. spared' = spared \cup {f \in UNION {answer[a].names : a \in Answers} : Erasing(f)}
    BY <1>5 DEF RestoreForm
  <2>3. UNION {answer[a].names : a \in Answers} \subseteq Files /\ spared \subseteq Files
    BY <1>1 DEF TypeOK
  <2>4. spared \subseteq spared' /\ spared' \subseteq Files
    BY <2>2, <2>3
  <2> QED BY <1>1, <2>1, <2>2, <2>4 DEF TypeOK
<1>6. /\ Frame
      /\ \A a \in Answers : Same(a)
      /\ \A a \in Answers : \A f \in answer[a].names : Erasing(f) => Spared(a, f)
  <2> HIDE DEF Frame, Same, Spared
  <2> QED BY <1>2, <1>3, <1>4, <1>5 DEF Trash
<1>7. TypeOK'
  BY <1>1, <1>6 DEF TypeOK, rest, HasRow
<1>8. \A f \in Files : FileShape(f)'
  BY <1>1, <1>6 DEF FileShape, Begun, HasRow, HoldsRow, rest
<1>9. \A j \in Jobs, f \in Files : Holding(j, f)'
  <2> SUFFICES ASSUME NEW j \in Jobs, NEW f \in Files, HoldsRow(j, f) PROVE Holding(j, f)'
    BY <1>6 DEF Holding, HoldsRow, rest
  <2>1. Holding(j, f)
    BY <1>1
  <2>2. ASSUME file[f].owner \in Answers
        PROVE  \/ f \in spared'
               \/ form' = "trash"
               \/ answer'[file[f].owner].state = "trash"
    <3>1. j \in Erasers
      BY <2>1, <2>2, DisjointAssumption DEF Holding, Jobs, Owners
    <3>2. Erasing(f) /\ f \in answer[file[f].owner].names
      BY <2>2, <3>1, OwnedIsNamed DEF Erasing
    <3> QED BY <1>6, <2>1, <2>2, <3>2 DEF Holding
  <2> QED BY <1>6, <2>1, <2>2 DEF Holding, HoldsRow, HasRow, Uploading, rest
<1>10. \A j \in Jobs : JobShape(j)'
  BY <1>1, <1>6 DEF JobShape, rest
<1>11. \A p \in Requests : RequestShape(p)'
  <2> SUFFICES ASSUME NEW p \in Requests PROVE RequestShape(p)'
    OBVIOUS
  <2>1. RequestShape(p)
    BY <1>1
  <2>2. req[p].kind = "submit" => answer'[req[p].on].state \in {"none", "gone"}
    BY <1>6, <2>1 DEF RequestShape
  <2> QED BY <1>6, <2>1, <2>2 DEF RequestShape, rest
<1>12. \A a \in Answers : AnswerShape(a)'
  <2> SUFFICES ASSUME NEW a \in Answers PROVE AnswerShape(a)'
    OBVIOUS
  <2>1. AnswerShape(a)
    BY <1>1
  <2>2. answer'[a].state \in {"none", "gone"} => answer'[a].names = {}
    BY <1>6, <2>1 DEF AnswerShape
  <2>3. OwnedBy(a)' \subseteq answer'[a].names
    BY <1>6, <2>1 DEF AnswerShape, OwnedBy, rest
  <2>4. ASSUME NEW f \in answer[a].names, answer'[a].state = "live", form' = "live"
        PROVE  file[f].owner = a \/ f \in spared'
    BY <1>6, <2>1, <2>4 DEF AnswerShape, Erasing
  <2> QED BY <1>6, <2>1, <2>2, <2>3, <2>4 DEF AnswerShape, HasRow, rest
<1>13. \A d \in Drafts : DraftShape(d)'
  BY <1>1, <1>6 DEF DraftShape, OwnedBy, rest
<1> QED BY <1>7, <1>8, <1>9, <1>10, <1>11, <1>12, <1>13 DEF IInv
-----------------------------------------------------------------------------
(* Removals: one job and, at most, the bytes of files change. *)

(* A job leaves everything true that it does not hold, if it takes a row    *)
(* that was free, records what it broke off as torn, and removes the bytes  *)
(* of such files only, of the row it holds, or a .partial.                  *)
LEMMA OneJobActs ==
  ASSUME IInv, NEW j \in Jobs,
         UNCHANGED <<form, answer, draft, req, spared>>, faults' \in 0..MaxFaults,
         torn \subseteq torn', torn' \subseteq Files,
         cut \subseteq cut', cut' \subseteq Files,
         job' \in [Jobs -> Job], \A k \in Jobs \ {j} : job'[k] = job[k],
         file' \in [Files -> File],
         \A f \in Files :
           /\ file'[f].row = file[f].row /\ file'[f].owner = file[f].owner
           /\ file'[f].up = file[f].up
           /\ file'[f].bytes \in {file[f].bytes, "none"}
           /\ file'[f].bytes # file[f].bytes =>
                \/ file[f].bytes = "partial"
                \/ f \in torn'
                \/ HoldsRow(j, f)' /\ job'[j].pc # "target",
         JobShape(j)',
         \A f \in Files : Holding(j, f)',
         \A f \in Files, k \in Jobs \ {j} : HoldsRow(k, f) => ~HoldsRow(j, f)',
         \A f \in Files : HoldsRow(j, f) /\ job[j].pc # "target" =>
           f \in torn' \/ (HoldsRow(j, f)' /\ job'[j].pc # "target")
  PROVE  IInv'
<1>1. /\ TypeOK
      /\ \A f \in Files : FileShape(f)
      /\ \A k \in Jobs, f \in Files : Holding(k, f)
      /\ \A k \in Jobs : JobShape(k)
      /\ \A p \in Requests : RequestShape(p)
      /\ \A a \in Answers : AnswerShape(a)
      /\ \A d \in Drafts : DraftShape(d)
  BY DEF IInv
<1>2. \A f \in Files : /\ HasRow(f)' <=> HasRow(f)
                       /\ Uploading(f)' <=> Uploading(f)
                       /\ Begun(f)' <=> Begun(f)
  BY DEF HasRow, Uploading, Begun
<1>3. \A f \in Files, k \in Jobs \ {j} : HoldsRow(k, f)' <=> HoldsRow(k, f)
  BY DEF HoldsRow
<1>4. TypeOK'
  BY <1>1, <1>2 DEF TypeOK
<1>5. \A f \in Files : FileShape(f)'
  <2> SUFFICES ASSUME NEW f \in Files PROVE FileShape(f)'
    OBVIOUS
  <2>1. FileShape(f)
    BY <1>1
  <2>2. ASSUME file[f].up = "written" \/ file[f].row = "stored"
        PROVE  \/ file'[f].bytes = "there"
               \/ ~HasRow(f)
               \/ f \in torn'
               \/ \E k \in Jobs : HoldsRow(k, f)' /\ job'[k].pc # "target"
    <3>1. ASSUME NEW k \in Jobs, HoldsRow(k, f), job[k].pc # "target"
          PROVE  f \in torn' \/ \E i \in Jobs : HoldsRow(i, f)' /\ job'[i].pc # "target"
      BY <1>3, <3>1
    <3>2. CASE file[f].bytes = "there" /\ file'[f].bytes # "there"
      BY <3>2
    <3> QED BY <2>1, <2>2, <3>1, <3>2 DEF FileShape
  <2> QED BY <1>2, <2>1, <2>2 DEF FileShape
<1>6. \A k \in Jobs, f \in Files : Holding(k, f)'
  <2> SUFFICES ASSUME NEW k \in Jobs \ {j}, NEW f \in Files, HoldsRow(k, f)
               PROVE  Holding(k, f)'
    BY <1>3 DEF Holding
  <2>1. Holding(k, f)
    BY <1>1
  <2>2. \A i \in Jobs : HoldsRow(i, f)' => i = k
    BY <1>3, <2>1 DEF Holding
  <2> QED BY <1>2, <2>1, <2>2 DEF Holding
<1>7. \A k \in Jobs : JobShape(k)'
  BY <1>1 DEF JobShape
<1>8. \A p \in Requests : RequestShape(p)'
  <2> SUFFICES ASSUME NEW p \in Requests PROVE RequestShape(p)'
    OBVIOUS
  <2>1. RequestShape(p) /\ req[p].names \subseteq Files
    BY <1>1 DEF TypeOK, Request
  <2> QED BY <2>1 DEF RequestShape
<1>9. \A x : OwnedBy(x)' = OwnedBy(x)
  BY DEF OwnedBy
<1>10. \A a \in Answers : AnswerShape(a)'
  <2> SUFFICES ASSUME NEW a \in Answers PROVE AnswerShape(a)'
    OBVIOUS
  <2>1. AnswerShape(a) /\ answer[a].names \subseteq Files
    BY <1>1 DEF TypeOK
  <2> QED BY <1>2, <1>9, <2>1 DEF AnswerShape
<1>11. \A d \in Drafts : DraftShape(d)'
  BY <1>1, <1>9 DEF DraftShape
<1> QED BY <1>4, <1>5, <1>6, <1>7, <1>8, <1>10, <1>11 DEF IInv

(* What a job's own assignments make of it.                                 *)
LEMMA JobStops ==
  ASSUME job \in [Jobs -> Job], NEW j \in Jobs, Stops(j)
  PROVE  /\ job' \in [Jobs -> Job] /\ \A k \in Jobs \ {j} : job'[k] = job[k]
         /\ job'[j].pc = "next" /\ job'[j].task = "idle"
BY DEF Stops, NoJob, Job

(* The same, of a job that goes on.                                         *)
LEMMA JobAssignments ==
  ASSUME job \in [Jobs -> Job], NEW j \in Jobs, NEW f \in Files
  PROVE  /\ \A pc \in {"next", "target", "partial", "row", "lateTarget", "latePartial"} :
              Goes(j, pc) =>
                /\ job' \in [Jobs -> Job] /\ \A k \in Jobs \ {j} : job'[k] = job[k]
                /\ job'[j].pc = pc /\ job'[j].file = job[j].file
                /\ job'[j].task = job[j].task /\ job'[j].on = job[j].on
         /\ DoneWith(j, f) =>
              /\ job' \in [Jobs -> Job] /\ \A k \in Jobs \ {j} : job'[k] = job[k]
              /\ job'[j].pc = "next"
              /\ job'[j].task = job[j].task /\ job'[j].on = job[j].on
         /\ job' = [job EXCEPT ![j].pc = "target", ![j].file = f] =>
              /\ job' \in [Jobs -> Job] /\ \A k \in Jobs \ {j} : job'[k] = job[k]
              /\ job'[j].pc = "target" /\ job'[j].file = f
              /\ job'[j].task = job[j].task /\ job'[j].on = job[j].on
<1>1. job[j] \in Job
  OBVIOUS
<1>2. ASSUME NEW pc \in {"next", "target", "partial", "row", "lateTarget", "latePartial"},
             Goes(j, pc)
      PROVE  /\ job' \in [Jobs -> Job] /\ \A k \in Jobs \ {j} : job'[k] = job[k]
             /\ job'[j].pc = pc /\ job'[j].file = job[j].file
             /\ job'[j].task = job[j].task /\ job'[j].on = job[j].on
  BY <1>1, <1>2 DEF Goes, Job
<1>3. ASSUME DoneWith(j, f)
      PROVE  /\ job' \in [Jobs -> Job] /\ \A k \in Jobs \ {j} : job'[k] = job[k]
             /\ job'[j].pc = "next"
             /\ job'[j].task = job[j].task /\ job'[j].on = job[j].on
  BY <1>1, <1>3 DEF DoneWith, Job
<1>4. ASSUME job' = [job EXCEPT ![j].pc = "target", ![j].file = f]
      PROVE  /\ job' \in [Jobs -> Job] /\ \A k \in Jobs \ {j} : job'[k] = job[k]
             /\ job'[j].pc = "target" /\ job'[j].file = f
             /\ job'[j].task = job[j].task /\ job'[j].on = job[j].on
  BY <1>1, <1>4 DEF Job
<1> QED BY <1>2, <1>3, <1>4
(* A job that ends its transaction lets go of the row; what it leaves half  *)
(* done is recorded as torn.                                                *)
LEMMA JobLetsGo ==
  ASSUME IInv, NEW j \in Jobs,
         UNCHANGED <<form, answer, draft, req, spared, file, cut>>,
         faults' \in 0..MaxFaults,
         torn \subseteq torn', torn' \subseteq Files,
         job' \in [Jobs -> Job], \A k \in Jobs \ {j} : job'[k] = job[k],
         job'[j].pc \in {"next", "lateTarget", "latePartial"},
         JobShape(j)',
         job[j].pc \in {"partial", "row"} => job[j].file \in torn'
  PROVE  IInv'
<1>1. \A f \in Files : ~HoldsRow(j, f)'
  BY DEF HoldsRow
<1>2. \A f \in Files : Holding(j, f)'
  BY <1>1 DEF Holding
<1>3. \A f \in Files : HoldsRow(j, f) /\ job[j].pc # "target" => f \in torn'
  BY DEF HoldsRow
<1>4. file' \in [Files -> File] /\ cut' \subseteq Files
  BY DEF IInv, TypeOK
<1> QED BY <1>1, <1>2, <1>3, <1>4, OneJobActs

(* A job begins, ends, breaks off, times out or dies.                       *)
LEMMA JobEndsIInv ==
  ASSUME IInv, NEW j \in Jobs,
         \/ j \in Sweepers /\ ListStale(j)
         \/ j \in Erasers /\ (ListForm(j) \/ \E a \in Answers : ListAnswer(j, a))
         \/ RemovalFails(j) \/ TimesOut(j) \/ JobDies(j) \/ SweepEnds(j)
  PROVE  IInv'
<1>1. /\ TypeOK /\ JobShape(j) /\ job \in [Jobs -> Job] /\ job[j] \in Job
      /\ torn \subseteq Files /\ faults \in 0..MaxFaults
  BY DEF IInv, TypeOK
<1>2. Fault => faults' \in 0..MaxFaults
  BY <1>1, FaultsAssumption DEF Fault
<1>3. CASE \/ j \in Sweepers /\ ListStale(j)
           \/ j \in Erasers /\ (ListForm(j) \/ \E a \in Answers : ListAnswer(j, a))
  <2>1. PICK task \in {"sweep", "answer", "form"}, a \in Answers \cup {Nobody},
             todo \in SUBSET Files :
          /\ Starts(j, task, a, todo)
          /\ task = "answer" => a \in Answers
          /\ j \in Sweepers => task = "sweep"
    BY <1>3, DisjointAssumption DEF ListStale, ListForm, ListAnswer
  <2>2. job'[j] = [NoJob EXCEPT !.task = task, !.on = a, !.todo = todo] /\ job[j].task = "idle"
    BY <1>1, <2>1 DEF Starts
  <2>3. /\ job'[j] \in Job
        /\ job'[j].pc = "next" /\ job'[j].task = task /\ job'[j].on = a
    BY <2>2 DEF NoJob, Job
  <2>4. job' \in [Jobs -> Job] /\ \A k \in Jobs \ {j} : job'[k] = job[k]
    BY <1>1, <2>1, <2>3 DEF Starts
  <2>5. JobShape(j)'
    BY <2>1, <2>3 DEF JobShape
  <2>6. job[j].pc = "next"
    BY <1>1, <2>2 DEF JobShape
  <2> QED BY <1>1, <2>1, <2>3, <2>4, <2>5, <2>6, JobLetsGo DEF Starts, erased
<1>4. ASSUME NEW pc \in {"next", "lateTarget", "latePartial"},
             job' \in [Jobs -> Job], \A k \in Jobs \ {j} : job'[k] = job[k],
             job'[j].pc = pc,
             \/ job'[j].task = job[j].task /\ job'[j].on = job[j].on
             \/ job'[j].task = "idle",
             pc # "next" =>
               /\ job'[j].file = job[j].file /\ job[j].pc # "next"
               /\ job'[j].task = job[j].task
               /\ job[j].file \in torn',
             torn' \in {torn, torn \cup {job[j].file}},
             job[j].pc # "next" \/ torn' = torn,
             job[j].pc \in {"partial", "row"} => job[j].file \in torn',
             UNCHANGED <<erased, form, file, cut>>, faults' \in 0..MaxFaults
      PROVE  IInv'
  <2>1. JobShape(j)'
    BY <1>1, <1>4 DEF JobShape
  <2>2. torn \subseteq torn' /\ torn' \subseteq Files
    BY <1>1, <1>4 DEF JobShape
  <2> QED BY <1>4, <2>1, <2>2, JobLetsGo DEF erased
<1>5. CASE RemovalFails(j)
  <2>1. job[j].file \in Files
    BY <1>1, <1>5 DEF RemovalFails, JobShape
  <2> QED BY <1>1, <1>2, <1>4, <1>5, <2>1, JobAssignments, JobStops DEF RemovalFails, FailsOn, erased
<1>6. CASE TimesOut(j)
  <2>1. job[j].file \in Files
    BY <1>1, <1>6 DEF TimesOut, JobShape
  <2> QED BY <1>1, <1>2, <1>4, <1>6, <2>1, JobAssignments DEF TimesOut, erased
<1>7. CASE JobDies(j)
  <2> QED BY <1>1, <1>2, <1>4, <1>7, JobStops DEF JobDies, erased
<1>8. CASE SweepEnds(j)
  <2> QED BY <1>1, <1>4, <1>8, JobStops DEF SweepEnds, Emptied, erased
<1> QED BY <1>3, <1>5, <1>6, <1>7, <1>8
(* The row that is locked is free, still due, and its owner in the trash.   *)
LEMMA LockIInv ==
  ASSUME IInv, NEW j \in Jobs, NEW f \in Files, Lock(j, f)
  PROVE  IInv'
<1>1. /\ TypeOK /\ JobShape(j) /\ job \in [Jobs -> Job]
      /\ torn \subseteq Files /\ cut \subseteq Files /\ file \in [Files -> File]
      /\ faults \in 0..MaxFaults
  BY DEF IInv, TypeOK
<1>2. /\ job[j].pc = "next" /\ ~Held(f)
      /\ UNCHANGED <<form, answer, draft, req, spared, file, torn, faults>>
  BY DEF Lock, erased
<1>3. \A g \in Files : ~HoldsRow(j, g)
  BY <1>2 DEF HoldsRow
<1>4. CASE ~StillDue(j, f)
  <2>1. DoneWith(j, f) /\ UNCHANGED cut
    BY <1>4 DEF Lock
  <2>2. /\ job' \in [Jobs -> Job] /\ \A k \in Jobs \ {j} : job'[k] = job[k]
        /\ job'[j].pc = "next"
        /\ job'[j].task = job[j].task /\ job'[j].on = job[j].on
    BY <1>1, <2>1, JobAssignments
  <2>3. JobShape(j)'
    BY <1>1, <2>2 DEF JobShape
  <2> QED BY <1>1, <1>2, <2>1, <2>2, <2>3, JobLetsGo
<1>5. CASE StillDue(j, f)
  <2>1. /\ job' \in [Jobs -> Job] /\ \A k \in Jobs \ {j} : job'[k] = job[k]
        /\ job'[j].pc = "target" /\ job'[j].file = f
        /\ job'[j].task = job[j].task /\ job'[j].on = job[j].on
    BY <1>1, <1>5, JobAssignments DEF Lock
  <2>2. /\ cut' = IF Uploading(f) THEN cut \cup {f} ELSE cut
        /\ cut \subseteq cut' /\ cut' \subseteq Files
    BY <1>1, <1>5 DEF Lock
  <2>3. /\ HasRow(f) /\ job[j].task \in {"sweep", "answer", "form"}
        /\ job[j].task = "sweep" => file[f].owner = Nobody
        /\ job[j].task = "answer" =>
             file[f].owner = job[j].on /\ answer[job[j].on].state = "trash"
        /\ job[j].task = "form" => form = "trash"
    BY <1>5 DEF StillDue, Stale, OfAnswer, OfForm
  <2>4. JobShape(j)'
    BY <1>1, <2>1, <2>3 DEF JobShape
  <2>5. \A g \in Files : HoldsRow(j, g)' <=> g = f
    BY <2>1 DEF HoldsRow
  <2>6. \A g \in Files, k \in Jobs \ {j} : HoldsRow(k, g)' <=> HoldsRow(k, g)
    BY <2>1 DEF HoldsRow
  <2>7. \A k \in Jobs : ~HoldsRow(k, f)
    BY <1>2 DEF Held
  <2>8. (HasRow(f)' <=> HasRow(f)) /\ (Uploading(f)' <=> Uploading(f))
    BY <1>2 DEF HasRow, Uploading
  <2>9. \A g \in Files : Holding(j, g)'
    <3> SUFFICES Holding(j, f)'
      BY <2>5 DEF Holding
    <3>1. \A k \in Jobs : HoldsRow(k, f)' => k = j
      BY <2>6, <2>7
    <3>2. file'[f].owner = file[f].owner /\ job'[j].pc = "target"
      BY <1>2, <2>1
    <3>3. j \in Sweepers => file[f].owner = Nobody
      BY <1>1, <2>3 DEF JobShape
    <3>4. file[f].owner \in Answers => form = "trash" \/ answer[file[f].owner].state = "trash"
      BY <2>3, DisjointAssumption DEF Owners
    <3> QED BY <1>2, <2>2, <2>3, <2>8, <3>1, <3>2, <3>3, <3>4 DEF Holding
  <2> QED BY <1>1, <1>2, <1>3, <2>1, <2>2, <2>4, <2>5, <2>7, <2>9, OneJobActs
<1> QED BY <1>4, <1>5

(* What a removal makes of the bytes.                                       *)
LEMMA BytesRemoved ==
  ASSUME file \in [Files -> File], NEW f \in Files,
         NEW bytes \in {"partial", "there"}, Without(f, bytes)
  PROVE  /\ file' \in [Files -> File]
         /\ \A g \in Files \ {f} : file'[g] = file[g]
         /\ file'[f].row = file[f].row /\ file'[f].owner = file[f].owner
         /\ file'[f].up = file[f].up
         /\ file'[f].bytes = IF file[f].bytes = bytes THEN "none" ELSE file[f].bytes
<1>1. file[f] \in File
  OBVIOUS
<1>2. CASE file[f].bytes = bytes
  <2>1. file' = [file EXCEPT ![f].bytes = "none"]
    BY <1>2 DEF Without
  <2> QED BY <1>1, <1>2, <2>1 DEF File
<1>3. CASE file[f].bytes # bytes
  <2>1. file' = [file EXCEPT ![f].bytes = file[f].bytes]
    BY <1>3 DEF Without
  <2> QED BY <1>1, <1>3, <2>1 DEF File
<1> QED BY <1>2, <1>3

(* The object and then its .partial, under the lock or after it was lost.   *)
LEMMA BytesIInv ==
  ASSUME IInv, NEW j \in Jobs, RemoveTarget(j) \/ RemovePartial(j) \/ LandsLate(j)
  PROVE  IInv'
<1>1. /\ TypeOK /\ JobShape(j) /\ job \in [Jobs -> Job] /\ file \in [Files -> File]
      /\ torn \subseteq Files /\ cut \subseteq Files /\ faults \in 0..MaxFaults
  BY DEF IInv, TypeOK
<1> PICK f \in Files : f = job[j].file
  BY <1>1 DEF JobShape, RemoveTarget, RemovePartial, LandsLate
<1>2. /\ job[j].task # "idle" /\ file[f] \in File
      /\ job[j].pc \in {"lateTarget", "latePartial"} => f \in torn
      /\ Holding(j, f) /\ FileShape(f)
  BY <1>1 DEF JobShape, RemoveTarget, RemovePartial, LandsLate, IInv
<1>3. UNCHANGED <<form, answer, draft, req, spared, torn, cut, faults>>
  BY DEF RemoveTarget, RemovePartial, LandsLate, erased
<1>4. \A g \in Files : HoldsRow(j, g) => g = f
  BY DEF HoldsRow
<1>5. ASSUME NEW bytes \in {"partial", "there"}, NEW pc \in {"row", "partial", "latePartial", "next"},
             Without(f, bytes),
             job' \in [Jobs -> Job], \A k \in Jobs \ {j} : job'[k] = job[k],
             job'[j].pc = pc,
             \/ job'[j].task = job[j].task /\ job'[j].on = job[j].on
             \/ job'[j].task = "idle" /\ pc = "next",
             pc # "next" => job'[j].file = f,
             \/ job[j].pc = "target" /\ pc = "partial" /\ bytes = "there"
             \/ job[j].pc = "partial" /\ pc = "row" /\ bytes = "partial"
             \/ job[j].pc = "lateTarget" /\ pc = "latePartial" /\ bytes = "there"
             \/ job[j].pc = "latePartial" /\ pc = "next"
      PROVE  IInv'
  <2>1. /\ file' \in [Files -> File]
        /\ \A g \in Files \ {f} : file'[g] = file[g]
        /\ file'[f].row = file[f].row /\ file'[f].owner = file[f].owner
        /\ file'[f].up = file[f].up
        /\ file'[f].bytes = IF file[f].bytes = bytes THEN "none" ELSE file[f].bytes
    BY <1>1, <1>2, <1>5, BytesRemoved
  <2>2. JobShape(j)'
    BY <1>1, <1>2, <1>3, <1>5 DEF JobShape
  <2>3. \A g \in Files : HoldsRow(j, g)' <=> g = f /\ pc \in {"row", "partial"}
    BY <1>5 DEF HoldsRow
  <2>4. HoldsRow(j, f) <=> pc \in {"row", "partial"}
    BY <1>5 DEF HoldsRow
  <2>5. \A g \in Files, k \in Jobs \ {j} : HoldsRow(k, g)' <=> HoldsRow(k, g)
    BY <1>5 DEF HoldsRow
  <2>6. (HasRow(f)' <=> HasRow(f)) /\ (Uploading(f)' <=> Uploading(f))
    BY <2>1 DEF HasRow, Uploading
  <2>7. \A g \in Files : Holding(j, g)'
    <3> SUFFICES ASSUME pc \in {"row", "partial"} PROVE Holding(j, f)'
      BY <2>3 DEF Holding
    <3>1. \A k \in Jobs : HoldsRow(k, f)' => k = j
      BY <1>2, <2>4, <2>5 DEF Holding
    <3>2. /\ f \in cut \/ (pc = "partial" => file'[f].bytes # "there")
          /\ f \in cut \/ (pc = "row" => file'[f].bytes = "none")
      BY <1>2, <1>5, <2>1, <2>4 DEF Holding, File
    <3> QED BY <1>2, <1>3, <1>5, <2>1, <2>4, <2>6, <3>1, <3>2 DEF Holding
  <2>8. ASSUME NEW g \in Files
        PROVE  /\ file'[g].row = file[g].row /\ file'[g].owner = file[g].owner
               /\ file'[g].up = file[g].up
               /\ file'[g].bytes \in {file[g].bytes, "none"}
               /\ file'[g].bytes # file[g].bytes =>
                    \/ file[g].bytes = "partial"
                    \/ g \in torn'
                    \/ HoldsRow(j, g)' /\ job'[j].pc # "target"
    BY <1>2, <1>3, <1>5, <2>1, <2>3
  <2>9. ASSUME NEW g \in Files, HoldsRow(j, g)
        PROVE  HoldsRow(j, g)' /\ job'[j].pc # "target"
    BY <1>4, <1>5, <2>3, <2>4, <2>9
  <2>10. \A g \in Files, k \in Jobs \ {j} : HoldsRow(k, g) => ~HoldsRow(j, g)'
    BY <1>2, <2>3, <2>4 DEF Holding
  <2> QED BY <1>1, <1>3, <1>5, <2>1, <2>2, <2>7, <2>8, <2>9, <2>10, OneJobActs
<1>6. CASE RemoveTarget(j)
  BY <1>1, <1>2, <1>5, <1>6, JobAssignments DEF RemoveTarget
<1>7. CASE RemovePartial(j)
  BY <1>1, <1>2, <1>5, <1>7, JobAssignments DEF RemovePartial
<1>8. CASE LandsLate(j)
  BY <1>1, <1>2, <1>5, <1>8, JobAssignments, JobStops DEF LandsLate, FailsOn
<1> QED BY <1>6, <1>7, <1>8
(* A row that is deleted had lost its bytes, or its upload was cut; an      *)
(* answer that still names it is in the trash, or was spared.               *)
LEMMA DeleteRowIInv ==
  ASSUME IInv, NEW j \in Jobs, DeleteRow(j)
  PROVE  IInv'
<1>1. /\ TypeOK /\ JobShape(j) /\ job \in [Jobs -> Job] /\ file \in [Files -> File]
      /\ \A g \in Files : FileShape(g)
      /\ \A k \in Jobs, g \in Files : Holding(k, g)
      /\ \A k \in Jobs : JobShape(k)
      /\ \A p \in Requests : RequestShape(p)
      /\ \A a \in Answers : AnswerShape(a)
      /\ \A d \in Drafts : DraftShape(d)
  BY DEF IInv, TypeOK
<1> PICK f \in Files : f = job[j].file
  BY <1>1 DEF JobShape, DeleteRow
<1>2. /\ UNCHANGED <<form, answer, draft, req, spared, torn, cut, faults>>
      /\ job[j].pc = "row" /\ HoldsRow(j, f)
      /\ file[f] \in File
  BY <1>1 DEF DeleteRow, erased, HoldsRow
<1>3. /\ job' \in [Jobs -> Job] /\ \A k \in Jobs \ {j} : job'[k] = job[k]
      /\ job'[j].pc = "next"
      /\ job'[j].task = job[j].task /\ job'[j].on = job[j].on
  BY <1>1, JobAssignments DEF DeleteRow
<1>4. /\ file' \in [Files -> File]
      /\ \A g \in Files \ {f} : file'[g] = file[g]
      /\ file'[f].row = "gone" /\ file'[f].owner = Nobody
      /\ file'[f].bytes = file[f].bytes /\ file'[f].up = file[f].up
  <2>1. file' = [file EXCEPT ![f].row = "gone", ![f].owner = Nobody]
    BY DEF DeleteRow
  <2> QED BY <1>1, <1>2, <2>1 DEF File
<1>5. /\ HasRow(f) /\ \A k \in Jobs : HoldsRow(k, f) => k = j
      /\ file[f].owner \in Answers =>
           \/ f \in spared
           \/ form = "trash"
           \/ answer[file[f].owner].state = "trash"
      /\ f \in cut \/ ~Uploading(f)
      /\ f \in cut \/ file[f].bytes = "none"
  BY <1>1, <1>2 DEF Holding
<1>6. /\ ~HasRow(f)'
      /\ \A g \in Files \ {f} : /\ HasRow(g)' <=> HasRow(g)
                                /\ Uploading(g)' <=> Uploading(g)
                                /\ Begun(g)' <=> Begun(g)
  BY <1>4 DEF HasRow, Uploading, Begun
<1>7. \A k \in Jobs, g \in Files : HoldsRow(k, g)' <=> HoldsRow(k, g) /\ k # j
  BY <1>3 DEF HoldsRow
<1>8. \A g \in Files : HoldsRow(j, g) => g = f
  BY DEF HoldsRow
<1>9. \A g \in Files : FileShape(g)'
  <2>1. FileShape(f)'
    <3>1. FileShape(f)
      BY <1>1
    <3>2. Begun(f)' <=> Begun(f)
      BY <1>4 DEF Begun
    <3>3. Begun(f) => f \in cut
      BY <1>5 DEF Begun, Uploading
    <3>4. file[f].up \notin {"none", "asked"}
      BY <1>5, <3>1 DEF FileShape, HasRow
    <3> QED BY <1>2, <1>4, <1>5, <1>6, <3>1, <3>2, <3>3, <3>4 DEF FileShape
  <2>2. ASSUME NEW g \in Files \ {f} PROVE FileShape(g)'
    <3>1. FileShape(g) /\ file'[g] = file[g]
      BY <1>1, <1>4
    <3>2. \A k \in Jobs : HoldsRow(k, g) => HoldsRow(k, g)' /\ job'[k].pc = job[k].pc
      BY <1>3, <1>7, <1>8
    <3> QED BY <1>2, <1>6, <3>1, <3>2 DEF FileShape
  <2> QED BY <2>1, <2>2
<1>10. \A k \in Jobs, g \in Files : Holding(k, g)'
  <2> SUFFICES ASSUME NEW k \in Jobs, NEW g \in Files, HoldsRow(k, g), k # j
               PROVE  Holding(k, g)'
    BY <1>7 DEF Holding
  <2>1. Holding(k, g) /\ g # f
    BY <1>1, <1>5
  <2>2. file'[g] = file[g] /\ job'[k] = job[k]
    BY <1>3, <1>4, <2>1
  <2> QED BY <1>2, <1>6, <1>7, <2>1, <2>2 DEF Holding
<1>11. \A k \in Jobs : JobShape(k)'
  BY <1>1, <1>2, <1>3 DEF JobShape
<1>12. \A g \in Files : /\ file'[g].up = file[g].up
                        /\ file'[g].owner = file[g].owner \/ g = f
  BY <1>4
<1>13. \A p \in Requests : RequestShape(p)'
  <2> SUFFICES ASSUME NEW p \in Requests PROVE RequestShape(p)'
    OBVIOUS
  <2>1. RequestShape(p) /\ req[p].names \subseteq Files
    BY <1>1 DEF TypeOK, Request
  <2> QED BY <1>2, <1>12, <2>1 DEF RequestShape
<1>14. \A x \in Owners : OwnedBy(x)' \subseteq OwnedBy(x)
  BY <1>4, DisjointAssumption DEF OwnedBy
<1>15. \A a \in Answers : AnswerShape(a)'
  <2> SUFFICES ASSUME NEW a \in Answers PROVE AnswerShape(a)'
    OBVIOUS
  <2>1. AnswerShape(a) /\ answer[a].names \subseteq Files
    BY <1>1 DEF TypeOK
  <2>2. OwnedBy(a)' \subseteq answer'[a].names
    BY <1>2, <1>14, <2>1 DEF AnswerShape, Owners
  <2>3. ASSUME NEW g \in answer[a].names
        PROVE  /\ file'[g].up = "answered"
               /\ file'[g].owner = a \/ ~HasRow(g)'
               /\ answer[a].state = "live" /\ form = "live" =>
                    file'[g].owner = a \/ g \in spared
    <3>1. CASE g = f
      <4>1. ASSUME file[f].owner = a, answer[a].state = "live", form = "live"
            PROVE  f \in spared
        BY <1>5, <4>1
      <4> QED BY <1>4, <1>6, <2>1, <3>1, <4>1 DEF AnswerShape
    <3>2. CASE g # f
      BY <1>6, <1>12, <2>1, <3>2 DEF AnswerShape
    <3> QED BY <3>1, <3>2
  <2> QED BY <1>2, <2>1, <2>2, <2>3 DEF AnswerShape
<1>16. \A d \in Drafts : DraftShape(d)'
  BY <1>1, <1>2, <1>14 DEF DraftShape, Owners
<1>17. TypeOK'
  <2>1. \A g \in Files : HasRow(g)' => form' # "gone"
    BY <1>1, <1>2, <1>6 DEF TypeOK
  <2>2. \A g \in Files : file'[g].owner # Nobody => HasRow(g)'
    BY <1>9 DEF FileShape, HasRow
  <2> QED BY <1>1, <1>2, <1>3, <1>4, <2>1, <2>2 DEF TypeOK
<1> QED BY <1>9, <1>10, <1>11, <1>13, <1>15, <1>16, <1>17 DEF IInv

(* An answer that is deleted frees what came to it after its files were     *)
(* listed.                                                                  *)
LEMMA PurgeAnswerIInv ==
  ASSUME IInv, NEW j \in Jobs, PurgeAnswer(j)
  PROVE  IInv'
<1>1. /\ TypeOK /\ JobShape(j) /\ job \in [Jobs -> Job] /\ file \in [Files -> File]
      /\ \A k \in Jobs : JobShape(k)
      /\ \A q \in Requests : RequestShape(q)
      /\ torn \subseteq Files /\ faults \in 0..MaxFaults
  BY DEF IInv, TypeOK
<1> PICK a \in Answers : a = job[j].on
  BY <1>1 DEF JobShape, PurgeAnswer, Emptied
<1>2. /\ UNCHANGED <<form, draft, req, torn, spared, cut, faults>>
      /\ job[j].pc = "next" /\ Stops(j)
  BY DEF PurgeAnswer, Emptied
<1>3. /\ job' \in [Jobs -> Job] /\ \A k \in Jobs \ {j} : job'[k] = job[k]
      /\ job'[j].pc = "next" /\ job'[j].task = "idle"
  BY <1>1, <1>2, JobStops
<1>4. JobShape(j)'
  BY <1>3 DEF JobShape
<1>5. CASE answer[a].state # "trash"
  <2>1. UNCHANGED <<answer, file>>
    BY <1>5 DEF PurgeAnswer
  <2> QED BY <1>1, <1>2, <1>3, <1>4, <2>1, JobLetsGo
<1>6. CASE answer[a].state = "trash"
  <2> DEFINE R == OwnedBy(a)
  <2>1. /\ Unheld(R) /\ Assign({}, Nobody, R) /\ Unheld({})
        /\ answer' = [answer EXCEPT ![a] = [state |-> "gone", names |-> {}]]
    BY <1>6 DEF PurgeAnswer, Unheld
  <2>2. /\ answer' \in [Answers -> [state : {"none", "live", "trash", "gone"},
                                    names : SUBSET Files]]
        /\ answer'[a] = [state |-> "gone", names |-> {}]
        /\ \A b \in Answers \ {a} : answer'[b] = answer[b]
        /\ draft' \in [Drafts -> [state : {"none", "open", "gone"}, names : SUBSET Files]]
    BY <1>1, <1>2, <2>1 DEF TypeOK
  <2>3. R \in SUBSET Files /\ \A f \in R : file[f].owner = a
    BY DEF OwnedBy
  <2>4. Reassigned({}, Nobody, R)
    BY <1>1, <2>1, <2>3, Assigned
  <2>5. \A k \in Jobs, f \in Files : /\ HoldsRow(k, f)' <=> HoldsRow(k, f)
                                     /\ HoldsRow(k, f) => job'[k].pc = job[k].pc
    BY <1>2, <1>3 DEF HoldsRow
  <2>6. \A k \in Jobs : JobShape(k)'
    BY <1>1, <1>2, <1>3, <1>4 DEF JobShape
  <2>7. req' \in [Requests -> Request] /\ \A q \in Requests : RequestShape(q)'
    <3>1. \A f \in Files : file'[f].up = file[f].up
      BY <2>4 DEF Reassigned
    <3>2. ASSUME NEW q \in Requests PROVE RequestShape(q)'
      <4>1. RequestShape(q) /\ req[q].names \subseteq Files
        BY <1>1 DEF TypeOK, Request
      <4> QED BY <1>2, <2>2, <3>1, <4>1 DEF RequestShape
    <3> QED BY <1>1, <1>2, <3>2 DEF TypeOK
  <2>8. AnswerShape(a)'
    <3>1. \A f \in Files : file'[f].owner # a
      BY <2>4, DisjointAssumption DEF Reassigned, OwnedBy, Owners
    <3> QED BY <2>2, <3>1 DEF AnswerShape, OwnedBy
  <2>9. ASSUME NEW b \in Answers
        PROVE  \/ AnswerShape(b)'
               \/ /\ answer'[b] = answer[b] /\ Nobody # b
                  /\ \A f \in {} \cup R : file[f].owner # b
    BY <2>2, <2>3, <2>8, DisjointAssumption DEF Owners
  <2>10. \A d \in Drafts : DraftShape(d)' \/ (draft'[d] = draft[d] /\ Nobody # d)
    BY <1>2, DisjointAssumption DEF Owners
  <2>11. \A b \in Answers : answer[b].state = "trash" =>
           answer'[b].state = "trash" \/ Unheld(OwnedBy(b))
    BY <2>1, <2>2
  <2> HIDE DEF R
  <2> QED BY <1>2, <1>3, <2>1, <2>2, <2>3, <2>5, <2>6, <2>7, <2>9, <2>10, <2>11,
             OwnersChange
<1> QED BY <1>5, <1>6

(* A form that is gone had no rows left, so nobody holds one.               *)
LEMMA PurgeFormIInv ==
  ASSUME IInv, NEW j \in Jobs, PurgeForm(j)
  PROVE  IInv'
<1>1. /\ TypeOK /\ JobShape(j) /\ job \in [Jobs -> Job]
      /\ \A f \in Files : FileShape(f)
      /\ \A k \in Jobs, f \in Files : Holding(k, f)
      /\ \A k \in Jobs : JobShape(k)
      /\ \A q \in Requests : RequestShape(q)
      /\ torn \subseteq Files /\ faults \in 0..MaxFaults
  BY DEF IInv, TypeOK
<1>2. /\ UNCHANGED <<file, req, torn, spared, cut, faults>>
      /\ job[j].pc = "next" /\ Stops(j)
  BY DEF PurgeForm, Emptied
<1>3. /\ job' \in [Jobs -> Job] /\ \A k \in Jobs \ {j} : job'[k] = job[k]
      /\ job'[j].pc = "next" /\ job'[j].task = "idle"
  BY <1>1, <1>2, JobStops
<1>4. JobShape(j)'
  BY <1>3 DEF JobShape
<1>5. CASE ~(form = "trash" /\ \A f \in Files : ~HasRow(f))
  <2>1. UNCHANGED <<form, answer, draft>>
    BY <1>5 DEF PurgeForm
  <2> QED BY <1>1, <1>2, <1>3, <1>4, <2>1, JobLetsGo
<1>6. CASE form = "trash" /\ \A f \in Files : ~HasRow(f)
  <2>1. /\ form' = "gone"
        /\ answer' = [a \in Answers |-> [state |-> "gone", names |-> {}]]
        /\ draft' = [d \in Drafts |-> [state |-> "gone", names |-> {}]]
    BY <1>6 DEF PurgeForm
  <2>2. \A f \in Files : /\ ~HasRow(f) /\ ~HasRow(f)'
                         /\ file[f].owner = Nobody
                         /\ Begun(f)' <=> Begun(f)
    BY <1>1, <1>2, <1>6 DEF TypeOK, HasRow, Begun
  <2>3. \A k \in Jobs, f \in Files : ~HoldsRow(k, f) /\ ~HoldsRow(k, f)'
    <3>1. \A k \in Jobs, f \in Files : ~HoldsRow(k, f)
      BY <1>1, <2>2 DEF Holding
    <3> QED BY <1>3, <3>1 DEF HoldsRow
  <2>4. \A f \in Files : FileShape(f)'
    BY <1>1, <1>2, <2>2 DEF FileShape
  <2>5. \A k \in Jobs, f \in Files : Holding(k, f)'
    BY <2>3 DEF Holding
  <2>6. \A k \in Jobs : JobShape(k)'
    BY <1>1, <1>2, <1>3, <1>4 DEF JobShape
  <2>7. \A q \in Requests : RequestShape(q)'
    <3> SUFFICES ASSUME NEW q \in Requests PROVE RequestShape(q)'
      OBVIOUS
    <3>1. RequestShape(q)
      BY <1>1
    <3> QED BY <1>2, <2>1, <3>1 DEF RequestShape
  <2>8. \A a \in Answers : AnswerShape(a)'
    BY <1>2, <2>1, <2>2, DisjointAssumption DEF AnswerShape, OwnedBy, Owners
  <2>9. \A d \in Drafts : DraftShape(d)'
    BY <1>2, <2>1, <2>2, DisjointAssumption DEF DraftShape, OwnedBy, Owners
  <2>10. TypeOK'
    BY <1>1, <1>2, <1>3, <2>1, <2>2 DEF TypeOK
  <2> QED BY <2>4, <2>5, <2>6, <2>7, <2>8, <2>9, <2>10 DEF IInv
<1> QED BY <1>5, <1>6
(* Every step of a job.                                                     *)
LEMMA RemovalIInv ==
  ASSUME IInv, NEW j \in Jobs, Removal(j)
  PROVE  IInv'
BY LockIInv, BytesIInv, DeleteRowIInv, PurgeAnswerIInv, PurgeFormIInv, JobEndsIInv
   DEF Removal, Works

-----------------------------------------------------------------------------
(* The invariant, and what it is for. *)

(* No step breaks it.                                                       *)
LEMMA StepIInv == IInv /\ [Next]_vars => IInv'
<1> SUFFICES ASSUME IInv, [Next]_vars PROVE IInv'
  OBVIOUS
<1>1. CASE \E j \in Sweepers : ListStale(j)
  BY <1>1, JobEndsIInv DEF Jobs
<1>2. CASE \E j \in Erasers : ListForm(j) \/ \E a \in Answers : ListAnswer(j, a)
  BY <1>2, JobEndsIInv DEF Jobs
<1>3. CASE UNCHANGED vars
  BY <1>3 DEF vars, IInv, TypeOK, HasRow, FileShape, Begun, Holding, HoldsRow, JobShape,
              Uploading, RequestShape, AnswerShape, DraftShape, OwnedBy
<1> QED BY <1>1, <1>2, <1>3, UploadIInv, ClaimIInv, DropDraftIInv, TrashIInv, RemovalIInv
        DEF Next

(* The invariant holds of every behaviour.                                  *)
THEOREM Invariance == Spec => []IInv
BY InitIInv, StepIInv, PTL DEF Spec

(* The ranges and the foreign keys of the file table.                       *)
THEOREM Types == Spec => []TypeOK
<1>1. IInv => TypeOK
  BY DEF IInv
<1> QED BY <1>1, Invariance, PTL

(* What an answer or a draft owns is stored, and its bytes are there: who   *)
(* holds an owned row is an erasure.                                        *)
THEOREM OwnedFilesHaveBytes == Spec => []OwnedHaveBytes
<1>1. IInv => OwnedHaveBytes
  <2> SUFFICES ASSUME IInv, NEW f \in Files, file[f].owner # Nobody
               PROVE  /\ file[f].row = "stored"
                      /\ \/ file[f].bytes = "there"
                         \/ f \in torn
                         \/ \E j \in Erasers : HoldsRow(j, f)
    BY DEF OwnedHaveBytes
  <2>1. FileShape(f) /\ \A j \in Jobs : Holding(j, f)
    BY DEF IInv
  <2>2. file[f].row = "stored" /\ HasRow(f)
    BY <2>1 DEF FileShape, HasRow
  <2>3. ASSUME NEW j \in Jobs, HoldsRow(j, f) PROVE j \in Erasers
    BY <2>1, <2>3 DEF Holding, Jobs
  <2> QED BY <2>1, <2>2, <2>3 DEF FileShape
<1> QED BY <1>1, Invariance, PTL

(* A live answer of a live form has what it names, or an erasure had begun. *)
THEOREM LiveAnswersResolve == Spec => []NamesResolve
<1>1. IInv => NamesResolve
  <2> SUFFICES ASSUME IInv, NEW a \in Answers, answer[a].state = "live", form = "live",
                      NEW f \in answer[a].names
               PROVE  \/ file[f].owner = a /\ file[f].bytes = "there"
                      \/ f \in torn \cup spared
    BY DEF NamesResolve
  <2>1. f \in Files /\ AnswerShape(a)
    BY DEF IInv, TypeOK
  <2>2. FileShape(f) /\ \A j \in Jobs : Holding(j, f)
    BY <2>1 DEF IInv
  <2>3. CASE f \notin spared
    <3>1. file[f].owner = a
      BY <2>1, <2>3 DEF AnswerShape
    <3>2. file[f].owner # Nobody /\ file[f].row = "stored" /\ HasRow(f)
      BY <2>2, <3>1, DisjointAssumption DEF FileShape, HasRow, Owners
    <3>3. \A j \in Jobs : ~HoldsRow(j, f)
      BY <2>2, <2>3, <3>1, <3>2 DEF Holding
    <3> QED BY <2>2, <3>1, <3>2, <3>3 DEF FileShape
  <2> QED BY <2>3
<1> QED BY <1>1, Invariance, PTL

(* Nothing hangs on an owner that no longer names it.                       *)
THEOREM OwnersNameTheirFiles == Spec => []OwnsOnlyNamed
<1>1. IInv => OwnsOnlyNamed
  BY DEF IInv, AnswerShape, DraftShape, OwnsOnlyNamed
<1> QED BY <1>1, Invariance, PTL

(* What a deletion leaves on the volume was taken from a running upload.    *)
THEOREM OrphansAreCutUploads == Spec => []NoOrphans
<1>1. IInv => NoOrphans
  BY DEF IInv, FileShape, NoOrphans
<1> QED BY <1>1, Invariance, PTL

(* Uploads, the trash and removals give no file an owner.                   *)
LEMMA OthersKeepOwners ==
  ASSUME IInv,
         \/ \E g \in Files : Upload(g)
         \/ Trash
         \/ \E j \in Sweepers : ListStale(j)
         \/ \E j \in Erasers : ListForm(j) \/ \E a \in Answers : ListAnswer(j, a)
         \/ \E j \in Jobs : Removal(j)
         \/ \E d \in Drafts : DropDraft(d)
         \/ UNCHANGED vars,
         NEW f \in Files
  PROVE  file'[f].owner \in {file[f].owner, Nobody}
<1>1. file \in [Files -> File] /\ file[f] \in File
  BY DEF IInv, TypeOK
<1>2. ASSUME NEW g \in Files, Upload(g) PROVE file'[f].owner = file[f].owner
  BY <1>1, <1>2 DEF Upload, AskUpload, CreateRow, OpenPartial, Rename, PutFails, RenameFails,
     Discard, MarkStored, UploadDies, Age, Uploaded, Wrote, File
<1>3. ASSUME NEW R, Assign({}, Nobody, R)
      PROVE  file'[f].owner \in {file[f].owner, Nobody}
  BY <1>1, <1>3 DEF Assign, File
<1>4. CASE Trash
  BY <1>4 DEF Trash, TrashForm, RestoreForm, TrashAnswer, RestoreAnswer, rest
<1>5. CASE \/ \E j \in Sweepers : ListStale(j)
           \/ \E j \in Erasers : ListForm(j) \/ \E a \in Answers : ListAnswer(j, a)
  BY <1>5 DEF ListStale, ListForm, ListAnswer, Starts
<1>6. ASSUME NEW j \in Jobs, NEW bytes \in {"partial", "there"}, NEW g, Without(g, bytes)
      PROVE  file'[f].owner = file[f].owner
  BY <1>1, <1>6 DEF Without, File
<1>7. ASSUME NEW j \in Jobs, Removal(j)
      PROVE  file'[f].owner \in {file[f].owner, Nobody}
  <2>1. CASE RemoveTarget(j) \/ RemovePartial(j) \/ LandsLate(j)
    BY <1>6, <2>1 DEF RemoveTarget, RemovePartial, LandsLate
  <2>2. CASE DeleteRow(j)
    BY <1>1, <2>2 DEF DeleteRow, File
  <2>3. CASE PurgeAnswer(j)
    BY <1>3, <2>3 DEF PurgeAnswer
  <2>4. CASE \/ \E g \in Files : Lock(j, g)
             \/ SweepEnds(j) \/ PurgeForm(j)
             \/ RemovalFails(j) \/ TimesOut(j) \/ JobDies(j)
    BY <2>4 DEF Lock, SweepEnds, PurgeForm, RemovalFails, TimesOut, JobDies
  <2> QED BY <1>7, <2>1, <2>2, <2>3, <2>4 DEF Removal, Works
<1>8. CASE \E d \in Drafts : DropDraft(d)
  BY <1>3, <1>8 DEF DropDraft
<1>9. CASE UNCHANGED vars
  BY <1>9 DEF vars
<1> QED BY <1>2, <1>4, <1>5, <1>7, <1>8, <1>9

(* No claim takes a file from another answer or draft; a submission takes   *)
(* its own draft's, which ends with it.                                     *)
THEOREM OneHandover == Spec => HandedOverOnly
<1> DEFINE Handover(f) ==
      file[f].owner # Nobody /\ file'[f].owner \notin {Nobody, file[f].owner} =>
         /\ file[f].owner \in Drafts /\ draft'[file[f].owner].state = "gone"
         /\ file'[f].owner \in Answers /\ f \in answer'[file'[f].owner].names
<1>1. ASSUME IInv, [Next]_vars, NEW f \in Files PROVE Handover(f)
  <2>1. /\ TypeOK /\ file \in [Files -> File]
        /\ \A p \in Requests : RequestShape(p)
    BY <1>1 DEF IInv, TypeOK
  <2>2. ASSUME NEW p \in Requests, CommitSubmit(p) PROVE Handover(f)
    <3> PICK a \in Answers, d \in Drafts \cup {Nobody}, N \in SUBSET Files :
          a = req[p].on /\ d = req[p].draft /\ N = req[p].names
      BY <2>1, <2>2 DEF CommitSubmit, RequestShape, TypeOK, Request
    <3> DEFINE R == IF d = Nobody THEN {} ELSE OwnedBy(d)
    <3>1. R \in SUBSET Files /\ Assign(N, a, R)
      BY <2>2 DEF CommitSubmit, OwnedBy
    <3>2. Reassigned(N, a, R)
      BY <2>1, <3>1, Assigned DEF Owners
    <3>3. f \in N => \/ file[f].owner \in {a, Nobody}
                     \/ d # Nobody /\ file[f].owner = d
      BY <2>2 DEF CommitSubmit, Claimable
    <3>4. answer'[a].names = N
      BY <2>1, <2>2 DEF CommitSubmit, TypeOK
    <3>5. d # Nobody => draft'[d].state = "gone"
      BY <2>1, <2>2 DEF CommitSubmit, TypeOK
    <3> QED BY <3>2, <3>3, <3>4, <3>5 DEF Reassigned
  <2>3. ASSUME NEW p \in Requests, CommitEdit(p) \/ CommitSave(p) \/ CommitUpdate(p)
        PROVE  file'[f].owner \in {Nobody, file[f].owner} \/ file[f].owner = Nobody
    <3>1. req[p].draft = Nobody /\ req[p].on \in Owners /\ req[p].names \in SUBSET Files
      BY <2>1, <2>3 DEF CommitEdit, CommitSave, CommitUpdate, RequestShape, TypeOK, Request, Owners
    <3>2. PICK F \in SUBSET Files, R \in SUBSET Files :
            Assign(F, req[p].on, R) /\ \A g \in F : Claimable(p, g)
      <4>1. CASE CommitEdit(p)
        BY <3>1, <4>1 DEF CommitEdit, OwnedBy
      <4>2. CASE CommitSave(p)
        BY <3>1, <4>2 DEF CommitSave, Takeable
      <4>3. CASE CommitUpdate(p)
        BY <3>1, <4>3 DEF CommitUpdate, Takeable, OwnedBy
      <4> QED BY <2>3, <4>1, <4>2, <4>3
    <3>3. Reassigned(F, req[p].on, R)
      BY <2>1, <3>1, <3>2, Assigned
    <3>4. f \in F => file[f].owner \in {req[p].on, Nobody}
      BY <3>1, <3>2 DEF Claimable
    <3> QED BY <3>3, <3>4 DEF Reassigned
  <2>4. ASSUME NEW p \in Requests, Claim(p) PROVE Handover(f)
    <3>1. CASE \/ Refuse(p)
               \/ \E names \in SUBSET Files :
                    \/ \E a \in Answers : \/ \E d \in Drafts \cup {Nobody} : BeginSubmit(p, a, d, names)
                                          \/ BeginEdit(p, a, names)
                    \/ \E d \in Drafts : BeginSave(p, d, names) \/ BeginUpdate(p, d, names)
      BY <3>1 DEF Refuse, BeginSubmit, BeginEdit, BeginSave, BeginUpdate, Begin
    <3> QED BY <2>2, <2>3, <2>4, <3>1 DEF Claim
  <2> QED BY <1>1, <2>4, OthersKeepOwners DEF Next
<1>2. IInv /\ [Next]_vars => [\A f \in Files : Handover(f)]_vars
  BY <1>1
<1> QED BY <1>2, Invariance, PTL DEF Spec, HandedOverOnly
=============================================================================
