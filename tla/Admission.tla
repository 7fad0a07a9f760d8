------------------------------ MODULE Admission ------------------------------
(***************************************************************************)
(* Who gets into a form: submissions, corrections and restores against the *)
(* response limit and the seat capacities of one form (public-forms.       *)
(* service.ts, event-seats.ts, restoreResponse of tenant-scope.ts), while  *)
(* editors publish, change the settings and use the trash.                 *)
(*                                                                         *)
(* A request reads the settings and the live definition, then runs one     *)
(* READ COMMITTED transaction.  Its statements are steps of their own; what*)
(* it writes becomes visible with its commit.  The locks are PostgreSQL's: *)
(* FOR UPDATE on the form row, on the draft row, and on the answer row by  *)
(* its UPDATE.  An INSERT that names the form takes FOR KEY SHARE on its   *)
(* row and so waits for whoever holds FOR UPDATE.                          *)
(*                                                                         *)
(* The attachments and mails of the same transactions are the business of  *)
(* other modules; here they can make it roll back (Fail).                  *)
(***************************************************************************)
EXTENDS Naturals, FiniteSets

CONSTANTS
  Responses,   \* bound: the answers the form may ever receive
  Requests,    \* concurrent requests to the API
  Positions,   \* the seats' positions: question and event
  Drafts,      \* saved drafts, by their token
  Nobody,      \* no answer, no draft
  Free,        \* no bound: maxResponses disabled, capacity null or absent
  MaxSeats,    \* seats one answer may ask for at one position
  Limits,      \* response limits the settings may hold
  Capacities,  \* capacities a published version may give a position
  FirstCap,
  Notifies,    \* whether a correction queues mails
  MaxChanges   \* bound: changes of settings and published versions

Bounds == Nat \cup {Free}
Asks   == [Positions -> 0..MaxSeats]
NoAsk  == [s \in Positions |-> 0]

ASSUME NobodyAssumption == Nobody \notin Responses /\ Nobody \notin Drafts
ASSUME FiniteAssumption == IsFiniteSet(Responses)
ASSUME NumbersAssumption == MaxSeats \in Nat /\ MaxChanges \in Nat
ASSUME FreeAssumption == Free \notin Nat
ASSUME BoundsAssumption ==
  /\ Limits \subseteq Bounds
  /\ Capacities \subseteq Bounds /\ FirstCap \in [Positions -> Capacities]
ASSUME NotifiesAssumption == Notifies \in BOOLEAN

VARIABLES
  form,     \* "live", in the "trash", or "gone"
  limit,    \* effective maxResponses
  cap,      \* capacities of the live definition
  resp,     \* the committed answers and their event_registration rows
  draft,    \* response_draft rows
  req,      \* the requests in flight
  changes

vars == <<form, limit, cap, resp, draft, req, changes>>

Response == [state : {"none", "live", "trash", "gone"},
             seats : Asks,
             from  : Drafts \cup {Nobody}]

Request == [kind  : {"submit", "edit", "restore"},
            pc    : {"idle", "begun", "counting", "summing", "deciding",
                     "drafting", "filing", "updating", "writing", "returning"},
            resp  : Responses \cup {Nobody},
            ask   : Asks,
            draft : Drafts \cup {Nobody},
            limit : Bounds,
            cap   : [Positions -> Bounds],
            taken : [Positions -> Nat]]

Idle == [kind |-> "submit", pc |-> "idle", resp |-> Nobody, ask |-> NoAsk,
         draft |-> Nobody, limit |-> Free, cap |-> [s \in Positions |-> Free],
         taken |-> NoAsk]

-----------------------------------------------------------------------------
(* What the statements count. *)

Live == {r \in Responses : resp[r].state = "live"}

\* takenSeats: the trash holds no seats.
Places(s) == UNION {{r} \X (1..resp[r].seats[s]) : r \in Live}
Taken(s) == Cardinality(Places(s))

Within(n, bound) == bound = Free \/ n <= bound

(* The locks a transaction holds, and whom it waits for. *)

Bounded(p) == {s \in Positions : req[p].ask[s] > 0 /\ req[p].cap[s] # Free}

NeedsLockOnlyForSeats(p) == \/ req[p].kind = "restore"     \* mutant
                            \/ Bounded(p) # {}
NeedsLockUnlessCorrecting(p) == \/ req[p].kind = "restore" \* mutant
                                \/ req[p].kind = "submit"
                                     /\ (req[p].limit # Free \/ Bounded(p) # {})
NeedsLock(p) == \/ req[p].kind = "restore"
                \/ req[p].limit # Free
                \/ Bounded(p) # {}

HoldsForm(p)  == req[p].pc \notin {"idle", "begun"} /\ NeedsLock(p)
HoldsDraft(p, d) == req[p].pc = "filing" /\ req[p].draft = d
HoldsRow(p, r)   == req[p].pc = "writing" /\ req[p].resp = r

FormFree(p)      == \A q \in Requests \ {p} : ~HoldsForm(q)
DraftUnguarded(p, d) == TRUE                               \* mutant
DraftUnsubmitted(p, d) == draft[d] = "open"                \* mutant
DraftFree(p, d)  == \A q \in Requests \ {p} : ~HoldsDraft(q, d)
RowFree(p, r)    == \A q \in Requests \ {p} : ~HoldsRow(q, r)

\* event_registration and mail_log rows carry the form's id.
Inserts(p) == Notifies \/ \E s \in Positions : req[p].ask[s] > 0

-----------------------------------------------------------------------------
Init ==
  /\ form = "live"
  /\ limit \in Limits
  /\ cap = FirstCap
  /\ resp = [r \in Responses |-> [state |-> "none", seats |-> NoAsk, from |-> Nobody]]
  /\ draft = [d \in Drafts |-> "none"]
  /\ req = [p \in Requests |-> Idle]
  /\ changes = 0

\* Bound: a submission starts only while an answer is left for it.
Unused  == {r \in Responses : resp[r].state = "none"}
Roomy   == Cardinality({p \in Requests : req[p].pc # "idle" /\ req[p].kind = "submit"})
             < Cardinality(Unused)

Goes(p, pc) == req' = [req EXCEPT ![p].pc = pc]
Ends(p)     == req' = [req EXCEPT ![p] = Idle]

(* submit: the form behind the slug, its settings and its published version *)
(* are read before the transaction.                                         *)
BeginSubmit(p, ask, d) ==
  /\ req[p].pc = "idle"
  /\ form = "live"
  /\ Roomy
  /\ d # Nobody => draft[d] # "none"
  /\ req' = [req EXCEPT ![p] = [Idle EXCEPT !.pc = "begun", !.ask = ask, !.draft = d,
                                            !.limit = limit, !.cap = cap]]
  /\ UNCHANGED <<form, limit, cap, resp, draft, changes>>

(* updateByEditToken: bounds come from the live definition, and only those  *)
(* of seats; the response limit does not apply to a correction.             *)
BeginEdit(p, r, ask) ==
  /\ req[p].pc = "idle"
  /\ form = "live"
  /\ r \in Live
  /\ req' = [req EXCEPT ![p] = [Idle EXCEPT !.kind = "edit", !.pc = "begun",
                                            !.resp = r, !.ask = ask, !.cap = cap]]
  /\ UNCHANGED <<form, limit, cap, resp, draft, changes>>

(* restoreResponse: the caller has read the answer, the settings and the    *)
(* live definition.                                                         *)
BeginRestore(p, r) ==
  /\ req[p].pc = "idle"
  /\ form = "live"
  /\ resp[r].state = "trash"
  /\ req' = [req EXCEPT ![p] = [Idle EXCEPT !.kind = "restore", !.pc = "begun",
                                            !.resp = r, !.limit = limit, !.cap = cap]]
  /\ UNCHANGED <<form, limit, cap, resp, draft, changes>>

-----------------------------------------------------------------------------
(* lockForm, only where the request stands under a bound.  A restore looks  *)
(* again, under the lock, whether its form is still there.                  *)
FormStillThere(p) == req[p].kind = "restore" => form = "live"

LockForm(p) ==
  /\ req[p].pc = "begun"
  /\ NeedsLock(p)
  /\ FormFree(p)
  /\ IF FormStillThere(p)
       THEN Goes(p, IF req[p].kind = "edit" THEN "summing" ELSE "counting")
       ELSE Ends(p)
  /\ UNCHANGED <<form, limit, cap, resp, draft, changes>>

DecidedAsSubmission(p) == "drafting"                       \* mutant
Decided(p) == CASE req[p].kind = "submit"  -> "drafting"
                [] req[p].kind = "edit"    -> "updating"
                [] req[p].kind = "restore" -> "returning"

SkipLock(p) ==
  /\ req[p].pc = "begun"
  /\ ~NeedsLock(p)
  /\ Goes(p, Decided(p))
  /\ UNCHANGED <<form, limit, cap, resp, draft, changes>>

FormFull(p) == ~Within(Cardinality(Live) + 1, req[p].limit)

CountResponses(p) ==
  /\ req[p].pc = "counting"
  /\ IF FormFull(p) THEN Ends(p) ELSE Goes(p, "summing")
  /\ UNCHANGED <<form, limit, cap, resp, draft, changes>>

SumSeats(p) ==
  /\ req[p].pc = "summing"
  /\ req' = [req EXCEPT ![p].pc = "deciding",
                        ![p].taken = [s \in Positions |-> Taken(s)]]
  /\ UNCHANGED <<form, limit, cap, resp, draft, changes>>

\* What a request wants beyond the sum: a correction, beyond what it holds
\* (heldSeats, read after the sum); a restore, what its rows say.
OwnSeats(p, s) == IF req[p].kind = "edit" THEN resp[req[p].resp].seats[s] ELSE 0
Asked(p, s) == IF req[p].kind = "restore" THEN resp[req[p].resp].seats[s]
                                          ELSE req[p].ask[s]

Exhausted(p) ==
  \E s \in Positions : /\ Asked(p, s) > OwnSeats(p, s)
                       /\ ~Within(req[p].taken[s] + Asked(p, s) - OwnSeats(p, s),
                                  req[p].cap[s])

DecideSeats(p) ==
  /\ req[p].pc = "deciding"
  /\ IF Exhausted(p) THEN Ends(p) ELSE Goes(p, Decided(p))
  /\ UNCHANGED <<form, limit, cap, resp, draft, changes>>

(* The draft row is locked; gone means it has been submitted already.       *)
LockDraft(p) ==
  LET d == req[p].draft IN
  /\ req[p].pc = "drafting"
  /\ \/ d = Nobody /\ Goes(p, "filing")
     \/ /\ d # Nobody
        /\ DraftFree(p, d)
        /\ IF draft[d] = "open" THEN Goes(p, "filing") ELSE Ends(p)
  /\ UNCHANGED <<form, limit, cap, resp, draft, changes>>

(* The answer, its seats, and the end of its draft, in one commit.          *)
FileAnswer(p, r) ==
  /\ req[p].pc = "filing"
  /\ FormFree(p)
  /\ r \in Unused
  /\ IF form = "gone"    \* the foreign key
       THEN UNCHANGED <<resp, draft>>
       ELSE /\ resp' = [resp EXCEPT ![r] = [state |-> "live", seats |-> req[p].ask,
                                            from |-> req[p].draft]]
            /\ draft' = [d \in Drafts |-> IF d = req[p].draft THEN "gone" ELSE draft[d]]
  /\ Ends(p)
  /\ UNCHANGED <<form, limit, cap, changes>>

(* The UPDATE of a correction locks its row and finds only a live answer.   *)
AnswerWhateverItsState(p) == TRUE                          \* mutant
AnswerStillLive(p) == req[p].resp \in Live

UpdateAnswer(p) ==
  /\ req[p].pc = "updating"
  /\ RowFree(p, req[p].resp)
  /\ IF AnswerStillLive(p) THEN Goes(p, "writing") ELSE Ends(p)
  /\ UNCHANGED <<form, limit, cap, resp, draft, changes>>

RewriteSeats(p) ==
  /\ req[p].pc = "writing"
  /\ Inserts(p) => FormFree(p)
  /\ resp' = [resp EXCEPT ![req[p].resp].seats = req[p].ask]
  /\ Ends(p)
  /\ UNCHANGED <<form, limit, cap, draft, changes>>

ReturnAnswer(p) ==
  /\ req[p].pc = "returning"
  /\ resp' = IF resp[req[p].resp].state = "trash"
               THEN [resp EXCEPT ![req[p].resp].state = "live"] ELSE resp
  /\ Ends(p)
  /\ UNCHANGED <<form, limit, cap, draft, changes>>

(* A refused claim, a lost connection, a crash, the transaction's 20 s.     *)
Fail(p) ==
  /\ req[p].pc # "idle"
  /\ Ends(p)
  /\ UNCHANGED <<form, limit, cap, resp, draft, changes>>

-----------------------------------------------------------------------------
(* Waiting in a circle, and PostgreSQL's way out of it. *)

WaitsFor(p, q) ==
  /\ p # q
  /\ \/ req[p].pc = "begun" /\ NeedsLock(p) /\ HoldsForm(q)
     \/ req[p].pc = "drafting" /\ req[p].draft # Nobody /\ HoldsDraft(q, req[p].draft)
     \/ req[p].pc = "filing" /\ HoldsForm(q)
     \/ req[p].pc = "updating" /\ HoldsRow(q, req[p].resp)
     \/ req[p].pc = "writing" /\ Inserts(p) /\ HoldsForm(q)

\* Only the form's holder can be waited for by a holder of anything else, so
\* a circle is two requests long.
Deadlocked(p) == \E q \in Requests : WaitsFor(p, q) /\ WaitsFor(q, p)

AbortVictim(p) ==
  /\ Deadlocked(p)
  /\ Ends(p)
  /\ UNCHANGED <<form, limit, cap, resp, draft, changes>>

-----------------------------------------------------------------------------
(* Editors and the trash. *)

NobodyServed == \A p \in Requests : ~HoldsForm(p)

\* Organisation-wide settings are saved without touching the form's row.
SaveLimit(n) ==
  /\ changes < MaxChanges
  /\ n # limit
  /\ limit' = n
  /\ changes' = changes + 1
  /\ UNCHANGED <<form, cap, resp, draft, req>>

Publish(c) ==
  /\ changes < MaxChanges
  /\ form = "live"
  /\ NobodyServed
  /\ c # cap
  /\ cap' = c
  /\ changes' = changes + 1
  /\ UNCHANGED <<form, limit, resp, draft, req>>

TrashForm ==
  /\ form = "live"
  /\ NobodyServed
  /\ form' = "trash"
  /\ UNCHANGED <<limit, cap, resp, draft, req, changes>>

RestoreForm ==
  /\ form = "trash"
  /\ NobodyServed
  /\ form' = "live"
  /\ UNCHANGED <<limit, cap, resp, draft, req, changes>>

(* purgeForm deletes the answers and drafts with their form.                *)
PurgeForm ==
  /\ form = "trash"
  /\ NobodyServed
  /\ \A p \in Requests, r \in Responses : ~HoldsRow(p, r)
  /\ \A p \in Requests, d \in Drafts : ~HoldsDraft(p, d)
  /\ form' = "gone"
  /\ resp' = [r \in Responses |-> IF resp[r].state \in {"live", "trash"}
                                    THEN [resp[r] EXCEPT !.state = "gone"]
                                    ELSE resp[r]]
  /\ draft' = [d \in Drafts |-> IF draft[d] = "open" THEN "gone" ELSE draft[d]]
  /\ UNCHANGED <<limit, cap, req, changes>>

(* softDeleteResponses: all of them or none.                                *)
TrashAnswers(S) ==
  /\ S # {} /\ S \subseteq Live
  /\ \A r \in S, p \in Requests : ~HoldsRow(p, r)
  /\ resp' = [r \in Responses |-> IF r \in S THEN [resp[r] EXCEPT !.state = "trash"]
                                             ELSE resp[r]]
  /\ UNCHANGED <<form, limit, cap, draft, req, changes>>

(* purgeResponse, under the form's lock.                                    *)
PurgeAnswer(r) ==
  /\ resp[r].state = "trash"
  /\ NobodyServed
  /\ resp' = [resp EXCEPT ![r].state = "gone"]
  /\ UNCHANGED <<form, limit, cap, draft, req, changes>>

SaveDraft(d) ==
  /\ form = "live"
  /\ NobodyServed
  /\ draft[d] = "none"
  /\ draft' = [draft EXCEPT ![d] = "open"]
  /\ UNCHANGED <<form, limit, cap, resp, req, changes>>

(* Deleted by its owner, revoked by the settings, or expired.               *)
DropDraft(d) ==
  /\ draft[d] = "open"
  /\ \A p \in Requests : ~HoldsDraft(p, d)
  /\ draft' = [draft EXCEPT ![d] = "gone"]
  /\ UNCHANGED <<form, limit, cap, resp, req, changes>>

-----------------------------------------------------------------------------
Begin(p) ==
  \/ \E ask \in Asks, d \in Drafts \cup {Nobody} : BeginSubmit(p, ask, d)
  \/ \E r \in Responses : BeginRestore(p, r) \/ \E ask \in Asks : BeginEdit(p, r, ask)

Step(p) ==
  \/ SkipLock(p)
  \/ CountResponses(p)
  \/ SumSeats(p)
  \/ DecideSeats(p)
  \/ ReturnAnswer(p)

\* The statements that may have to queue for a lock.
Queued(p) ==
  \/ LockForm(p)
  \/ LockDraft(p)
  \/ \E r \in Responses : FileAnswer(p, r)
  \/ UpdateAnswer(p)
  \/ RewriteSeats(p)

EditorsAct ==
  \/ \E n \in Limits : SaveLimit(n)
  \/ \E c \in [Positions -> Capacities] : Publish(c)
  \/ TrashForm \/ RestoreForm \/ PurgeForm
  \/ \E S \in SUBSET Responses : TrashAnswers(S)
  \/ \E r \in Responses : PurgeAnswer(r)
  \/ \E d \in Drafts : SaveDraft(d) \/ DropDraft(d)

Next ==
  \/ \E p \in Requests : Begin(p) \/ Step(p) \/ Queued(p) \/ Fail(p) \/ AbortVictim(p)
  \/ EditorsAct

Spec == Init /\ [][Next]_vars

(* A transaction's statements run, PostgreSQL grants locks in the order in  *)
(* which they were asked for, and breaks a circle.                          *)
FairSpec ==
  /\ Spec
  /\ \A p \in Requests : WF_vars(Step(p)) /\ SF_vars(Queued(p)) /\ WF_vars(AbortVictim(p))

-----------------------------------------------------------------------------
(* Properties *)

\* Each kind of request takes its own path, and names its own answer.
WellFormed(p) ==
  /\ req[p].pc \in {"counting"} => req[p].kind # "edit"
  /\ req[p].pc \in {"drafting", "filing"} => req[p].kind = "submit"
  /\ req[p].pc \in {"updating", "writing"} => req[p].kind = "edit"
  /\ req[p].pc = "returning" => req[p].kind = "restore"
  /\ req[p].kind # "submit" => req[p].resp \in Responses

(* Every variable stays in its type, every request on the path of its kind. *)
TypeOK ==
  /\ form \in {"live", "trash", "gone"}
  /\ limit \in Limits
  /\ cap \in [Positions -> Capacities]
  /\ resp \in [Responses -> Response]
  /\ draft \in [Drafts -> {"none", "open", "gone"}]
  /\ req \in [Requests -> Request]
  /\ \A p \in Requests : WellFormed(p)
  /\ changes \in 0..MaxChanges

(* However many submissions, corrections and restores run at once, a bound  *)
(* nobody has changed is never passed: no answer beyond maxResponses, no    *)
(* seat beyond a capacity.                                                  *)
WithinBounds ==
  changes = 0 => /\ Within(Cardinality(Live), limit)
                 /\ \A s \in Positions : Within(Taken(s), cap[s])

(* Whatever is saved or published meanwhile, a request that adds an answer  *)
(* or seats ends within the bounds it was judged by.  A correction that does*)
(* not ask for more may at most give back what an overtaking correction of  *)
(* the same answer took: the sum it saw.                                    *)
AdmitsWithinBounds ==
  [][\A p \in Requests :
       req[p].pc # "idle" /\ req'[p].pc = "idle" =>
         /\ Cardinality(Live') > Cardinality(Live) =>
              Within(Cardinality(Live'), req[p].limit)
         /\ \A s \in Positions :
              Taken(s)' > Taken(s) => \/ Within(Taken(s)', req[p].cap[s])
                                     \/ Taken(s)' <= req[p].taken[s]]_vars

(* A draft's address gives one answer, however often it is submitted: two   *)
(* tabs, a double click, a retry after a lost connection.                   *)
OneAnswerPerDraft ==
  \A r, s \in Responses :
    resp[r].from # Nobody /\ resp[r].from = resp[s].from => r = s

(* An answer comes back from the trash only into a form that is not in the  *)
(* trash itself, where nobody could see it or free its seats.               *)
ReturnsToLiveForm ==
  [][\A r \in Responses :
       resp[r].state = "trash" /\ resp'[r].state = "live" => form = "live"]_vars

(* A correction that was read before its answer went to the trash does not  *)
(* change what lies there.                                                  *)
TrashIsNotEdited ==
  [][\A r \in Responses :
       resp[r].state = "trash" => resp'[r].seats = resp[r].seats]_vars

(* Every request is answered, without its timeout having to end it.         *)
EveryRequestEnds == \A p \in Requests : []<>(req[p].pc = "idle")
=============================================================================
