----------------------------- MODULE MailQueue -----------------------------
(***************************************************************************)
(* The mail queue of apps/api/src/mail: rows of mail_log, the worker       *)
(* instances that deliver them lane by lane, the editors who press         *)
(* "Erneut", and the trash, erasure and log purge that act on the same     *)
(* rows.  One lane per organisation plus the system lane; a lane holds the *)
(* lock on its claimed row for the whole SMTP conversation.                *)
(*                                                                         *)
(* A mail is named by its position in created_at order, so the queue's     *)
(* ORDER BY is the order of the naturals.  Time is abstracted to "due":    *)
(* next_attempt_at is null or has passed.  A claim's transaction is one    *)
(* lock from Claim to Record; every other writer waits for it.             *)
(***************************************************************************)
EXTENDS Naturals, FiniteSets

CONSTANTS
  Mails,            \* rows of mail_log, numbered in created_at order
  Tenants,          \* organisations
  System,           \* the key of the system lane (ADR-0020)
  Subjects,         \* the answers and forms a row may be about
  Workers,          \* API instances, each with one worker
  Editors,          \* people looking at the mail log
  Blocks,           \* readable stored SMTP blocks
  TenantOf,         \* mail_log.tenant_id
  LaneOf,           \* the row's tenant, or System for trigger = 'system'
  AboutOf,          \* response_id and form_id of the row
  FirstSmtp,        \* the blocks stored when the behaviour begins
  MaxAttempts,      \* MAIL_MAX_ATTEMPTS
  RunLanes,         \* MAIL_WORKER_TENANT_LANES
  LaneBatch,        \* MAIL_WORKER_LANE_BATCH_MAX
  MaxDisturbances   \* bound: environment and fault steps in one behaviour

Lanes  == Tenants \cup {System}
Things == Subjects \cup Tenants

NoBlock == "no block"       \* smtp is NULL
Broken  == "broken block"   \* the stored block does not open
Stored  == Blocks \cup {NoBlock, Broken}

NoMail == 0
NoLast == "none"

ASSUME MailsAssumption   == Mails \subseteq Nat \ {0} /\ IsFiniteSet(Mails)
ASSUME LanesAssumption   == System \notin Tenants
ASSUME ThingsAssumption  == Subjects \cap Tenants = {}
ASSUME BlocksAssumption  == NoBlock \notin Blocks /\ Broken \notin Blocks
ASSUME FirstSmtpAssumption == FirstSmtp \in [Lanes -> Stored]
ASSUME TenantOfAssumption == TenantOf \in [Mails -> Tenants]
ASSUME LaneOfAssumption  ==
  /\ LaneOf \in [Mails -> Lanes]
  /\ \A m \in Mails : LaneOf[m] \in {TenantOf[m], System}
ASSUME AboutOfAssumption == AboutOf \in [Mails -> SUBSET Subjects]
ASSUME LimitsAssumption  ==
  /\ MaxAttempts \in Nat \ {0}
  /\ RunLanes \in Nat \ {0}
  /\ LaneBatch \in Nat \ {0}
  /\ MaxDisturbances \in Nat

VARIABLES
  row,      \* the queue columns of each mail_log row
  thing,    \* deleted_at of answers, forms and organisations
  smtp,     \* the stored SMTP block of each lane's owner
  lane,     \* per worker and lane: where its run stands
  editor,   \* the row an editor's retry has read and approved, not yet written
  accepted, \* how often a mail server has taken the mail over
  stray,    \* how many of those the row never recorded as sent
  late,     \* conversations still open whose row nobody holds any more
  suspect,  \* rows written with the honeypot's refusal
  disturbances

mailVars == <<row, thing, smtp, lane, editor, accepted, stray, late, suspect,
              disturbances>>

Statuses == {"none", "queued", "sent", "failed", "gone"}
Reasons  == {"clear", "spam", "no server", "refused", "erased"}

Row == [status : Statuses, attempts : 0..MaxAttempts, due : BOOLEAN,
        erased : BOOLEAN, why : Reasons]

InFlight == {"sending", "accepted", "refused", "silent"}
Run == [pc : {"off", "ready", "stamping"} \cup InFlight,
        snap : Stored, mail : Mails \cup {NoMail}, left : 0..LaneBatch]

Off == [pc |-> "off", snap |-> NoBlock, mail |-> NoMail, left |-> 0]

-----------------------------------------------------------------------------
(* What the queue's SQL conditions say of a row. *)

Exists(m)  == row[m].status \in {"queued", "sent", "failed"}
InTrash(m) == \E x \in AboutOf[m] \cup {TenantOf[m]} : thing[x] = "trash"

\* status, next_attempt_at, NOT_IN_TRASH and NOT_ERASED
Due(m) == /\ row[m].status = "queued"
          /\ row[m].due
          /\ ~InTrash(m)
          /\ ~row[m].erased

\* A row whose claim transaction is open (FOR UPDATE OF m).
Held(w, l, m) == lane[w][l].pc \in InFlight /\ lane[w][l].mail = m
Locked(m)     == \E w \in Workers, l \in Lanes : Held(w, l, m)

DueIn(l)     == {m \in Mails : LaneOf[m] = l /\ Due(m)}

ClaimableIgnoringLocks(l) == DueIn(l)             \* mutant: no FOR UPDATE
Claimable(l) == {m \in DueIn(l) : ~Locked(m)}
Oldest(l, m) == m \in Claimable(l) /\ \A n \in Claimable(l) : m <= n

\* dueTenants: the organisations by their oldest due row, at most `slots'.
Older(t, u)  == \E m \in DueIn(t) : \A n \in DueIn(u) : m < n
DueTenants(slots) ==
  {t \in Tenants : /\ DueIn(t) # {}
                   /\ Cardinality({u \in Tenants : DueIn(u) # {} /\ Older(u, t)})
                        < slots}

OpenedLanesWithoutSystem == DueTenants(RunLanes)   \* mutant
OpenedLanes ==
  IF DueIn(System) # {} THEN DueTenants(RunLanes - 1) \cup {System}
                        ELSE DueTenants(RunLanes)

\* A write outside the worker waits for the open claims of its rows.
UnlockedAtOnce(rows) == TRUE                       \* mutant
Unlocked(rows) == \A m \in rows : ~Locked(m)

BetweenRuns(w) == \A l \in Lanes : lane[w][l].pc = "off"

Disturb == /\ disturbances < MaxDisturbances
           /\ disturbances' = disturbances + 1

-----------------------------------------------------------------------------
MailInit ==
  /\ row = [m \in Mails |-> [status |-> "none", attempts |-> 0, due |-> FALSE,
                             erased |-> FALSE, why |-> "clear"]]
  /\ thing = [x \in Things |-> "live"]
  /\ smtp = FirstSmtp
  /\ lane = [w \in Workers |-> [l \in Lanes |-> Off]]
  /\ editor = [e \in Editors |-> NoMail]
  /\ accepted = [m \in Mails |-> 0]
  /\ stray = [m \in Mails |-> 0]
  /\ late = [m \in Mails |-> 0]
  /\ suspect = {}
  /\ disturbances = 0

(* A submission (or the system) writes a row: queued, or already failed     *)
(* because it has no usable recipient or budget, or on the honeypot.        *)
Enqueue(m) ==
  /\ row[m].status = "none"
  /\ \A n \in Mails : n < m => row[n].status # "none"
  /\ \A x \in AboutOf[m] \cup {TenantOf[m]} : thing[x] = "live"
  /\ \/ /\ row' = [row EXCEPT ![m].status = "queued", ![m].due = TRUE]
        /\ UNCHANGED suspect
     \/ /\ row' = [row EXCEPT ![m].status = "failed", ![m].why = "refused"]
        /\ UNCHANGED suspect
     \/ /\ LaneOf[m] # System
        /\ row' = [row EXCEPT ![m].status = "failed", ![m].why = "spam"]
        /\ suspect' = suspect \cup {m}
  /\ UNCHANGED <<thing, smtp, lane, editor, accepted, stray, late, disturbances>>

(* runOnce: reads which lanes have due mail and resolves each lane's        *)
(* identity once, before any claim.  tick() coalesces: one run at a time.   *)
Tick(w) ==
  /\ BetweenRuns(w)
  /\ OpenedLanes # {}
  /\ lane' = [lane EXCEPT ![w] = [l \in Lanes |->
                IF l \in OpenedLanes
                  THEN [pc |-> "ready", snap |-> smtp[l], mail |-> NoMail,
                        left |-> LaneBatch]
                  ELSE Off]]
  /\ UNCHANGED <<row, thing, smtp, editor, accepted, stray, late, suspect,
                 disturbances>>

-----------------------------------------------------------------------------
(* deliverOne, one claimed row at a time. *)

\* sameStoredSmtp: only an organisation's lane compares.
Changed(w, l) == l # System /\ smtp[l] # lane[w][l].snap

MayClaim(w, l, m) ==
  /\ lane[w][l].pc = "ready"
  /\ lane[w][l].left > 0
  /\ Oldest(l, m)

(* Nothing due, the share is spent, or the identity changed under the run.  *)
LaneEnds(w, l) ==
  /\ lane[w][l].pc = "ready"
  /\ \/ lane[w][l].left = 0
     \/ Claimable(l) = {}
     \/ Changed(w, l)
  /\ lane' = [lane EXCEPT ![w][l] = Off]
  /\ UNCHANGED <<row, thing, smtp, editor, accepted, stray, late, suspect,
                 disturbances>>

(* No mail server: the claimed row gets the reason, nothing else, and the   *)
(* transaction commits.                                                     *)
Withhold(w, l, m) ==
  /\ MayClaim(w, l, m)
  /\ ~Changed(w, l)
  /\ lane[w][l].snap = NoBlock
  /\ row' = [row EXCEPT ![m].why = "no server"]
  /\ lane' = [lane EXCEPT ![w][l].pc = "stamping", ![w][l].mail = m]
  /\ UNCHANGED <<thing, smtp, editor, accepted, stray, late, suspect,
                 disturbances>>

(* withholdOthers, after the commit: the lane's other waiting rows that     *)
(* nobody is delivering; then the lane ends.                                *)
WithholdOthers(w, l) ==
  /\ lane[w][l].pc = "stamping"
  /\ row' = [m \in Mails |->
       IF /\ m # lane[w][l].mail
          /\ LaneOf[m] = l
          /\ row[m].status = "queued"
          /\ ~InTrash(m) /\ ~row[m].erased /\ ~Locked(m)
         THEN [row[m] EXCEPT !.why = "no server"]
         ELSE row[m]]
  /\ lane' = [lane EXCEPT ![w][l] = Off]
  /\ UNCHANGED <<thing, smtp, editor, accepted, stray, late, suspect,
                 disturbances>>

(* An unreadable block: straight to failed, no attempt counted.             *)
FailUnreadable(w, l, m) ==
  /\ MayClaim(w, l, m)
  /\ ~Changed(w, l)
  /\ lane[w][l].snap = Broken
  /\ row' = [row EXCEPT ![m].status = "failed", ![m].due = FALSE,
                        ![m].why = "refused"]
  /\ lane' = [lane EXCEPT ![w][l].left = @ - 1]
  /\ UNCHANGED <<thing, smtp, editor, accepted, stray, late, suspect,
                 disturbances>>

(* The row is claimed and locked, and the conversation opens.               *)
StartSend(w, l, m) ==
  /\ MayClaim(w, l, m)
  /\ ~Changed(w, l)
  /\ lane[w][l].snap \in Blocks
  /\ lane' = [lane EXCEPT ![w][l].pc = "sending", ![w][l].mail = m]
  /\ UNCHANGED <<row, thing, smtp, editor, accepted, stray, late, suspect,
                 disturbances>>

(* What becomes of it: taken, refused (or not renderable), or still silent  *)
(* when sendMs is over; nothing cancels the socket then.                    *)
Transmit(w, l) ==
  LET m == lane[w][l].mail IN
  /\ lane[w][l].pc = "sending"
  /\ \/ /\ lane' = [lane EXCEPT ![w][l].pc = "accepted"]
        /\ accepted' = [accepted EXCEPT ![m] = @ + 1]
        /\ UNCHANGED late
     \/ /\ lane' = [lane EXCEPT ![w][l].pc = "refused"]
        /\ UNCHANGED <<accepted, late>>
     \/ /\ lane' = [lane EXCEPT ![w][l].pc = "silent"]
        /\ late' = [late EXCEPT ![m] = @ + 1]
        /\ UNCHANGED accepted
  /\ UNCHANGED <<row, thing, smtp, editor, stray, suspect, disturbances>>

DeliveredUnlessRefused(outcome) == outcome # "refused"   \* mutant
Delivered(outcome) == outcome = "accepted"
GivesUpLate(tried) == tried > MaxAttempts          \* mutant
GivesUp(tried) == tried >= MaxAttempts

(* The outcome is written in the transaction that owns the row; a stalled   *)
(* lane ends, any other goes on.                                            *)
Record(w, l) ==
  LET m == lane[w][l].mail
      tried == row[m].attempts + 1 IN
  /\ lane[w][l].pc \in {"accepted", "refused", "silent"}
  /\ row' = [row EXCEPT ![m] =
       IF Delivered(lane[w][l].pc)
         THEN [@ EXCEPT !.status = "sent", !.attempts = tried, !.due = FALSE,
                        !.why = "clear"]
       ELSE IF GivesUp(tried)
         THEN [@ EXCEPT !.status = "failed", !.attempts = tried, !.due = FALSE,
                        !.why = "refused"]
         ELSE [@ EXCEPT !.attempts = tried, !.due = FALSE, !.why = "refused"]]
  /\ lane' = [lane EXCEPT ![w][l] =
       IF lane[w][l].pc = "silent" THEN Off
       ELSE [lane[w][l] EXCEPT !.pc = "ready", !.mail = NoMail, !.left = @ - 1]]
  /\ UNCHANGED <<thing, smtp, editor, accepted, stray, late, suspect,
                 disturbances>>

(* The process dies or the transaction is lost: the lock and the write are  *)
(* gone, a mail already taken by the server is not.  A transaction that is  *)
(* lost under a running send does not end the conversation: the worker      *)
(* learns of it at markSent.                                                *)
LaneLost(w, l) ==
  LET m == lane[w][l].mail IN
  /\ lane[w][l].pc # "off"
  /\ Disturb
  /\ lane' = [lane EXCEPT ![w][l] = Off]
  /\ stray' = IF lane[w][l].pc = "accepted" THEN [stray EXCEPT ![m] = @ + 1] ELSE stray
  /\ \/ UNCHANGED late
     \/ /\ lane[w][l].pc = "sending"
        /\ late' = [late EXCEPT ![m] = @ + 1]
  /\ UNCHANGED <<row, thing, smtp, editor, accepted, suspect>>

(* A conversation that goes on without its row is answered after all, or    *)
(* dies.                                                                    *)
LateAnswer(m) ==
  /\ late[m] > 0
  /\ late' = [late EXCEPT ![m] = @ - 1]
  /\ \/ /\ accepted' = [accepted EXCEPT ![m] = @ + 1]
        /\ stray' = [stray EXCEPT ![m] = @ + 1]
     \/ UNCHANGED <<accepted, stray>>
  /\ UNCHANGED <<row, thing, smtp, lane, editor, suspect, disturbances>>

BackoffElapses(m) ==
  /\ row[m].status = "queued"
  /\ ~row[m].due
  /\ ~Locked(m)
  /\ row' = [row EXCEPT ![m].due = TRUE]
  /\ UNCHANGED <<thing, smtp, lane, editor, accepted, stray, late, suspect,
                 disturbances>>

-----------------------------------------------------------------------------
RetryableWhateverItsReason(m) ==                   \* mutant
  row[m].status = "failed" /\ ~row[m].erased /\ LaneOf[m] # System
Retryable(m) ==
  /\ row[m].status = "failed"
  /\ row[m].why # "spam"
  /\ ~row[m].erased
  /\ LaneOf[m] # System

(* "Erneut": the refusals are decided on a read, the write has none of them *)
(* in its WHERE.                                                            *)
RetryRead(e, m) ==
  /\ editor[e] = NoMail
  /\ Retryable(m)
  /\ editor' = [editor EXCEPT ![e] = m]
  /\ UNCHANGED <<row, thing, smtp, lane, accepted, stray, late, suspect,
                 disturbances>>

RetryWrite(e) ==
  LET m == editor[e] IN
  /\ m # NoMail
  /\ Unlocked({m})
  /\ Disturb
  /\ row' = IF Exists(m)
              THEN [row EXCEPT ![m].status = "queued", ![m].attempts = 0,
                               ![m].due = TRUE]
              ELSE row
  /\ editor' = [editor EXCEPT ![e] = NoMail]
  /\ UNCHANGED <<thing, smtp, lane, accepted, stray, late, suspect>>

-----------------------------------------------------------------------------
(* The rest of the application acting on the same rows. *)

SaveSmtp(l, c) ==
  /\ smtp[l] # c
  /\ Disturb
  /\ smtp' = [smtp EXCEPT ![l] = c]
  /\ UNCHANGED <<row, thing, lane, editor, accepted, stray, late, suspect>>

MoveToTrash(x) ==
  /\ thing[x] = "live"
  /\ Disturb
  /\ thing' = [thing EXCEPT ![x] = "trash"]
  /\ UNCHANGED <<row, smtp, lane, editor, accepted, stray, late, suspect>>

Restore(x) ==
  /\ thing[x] = "trash"
  /\ Disturb
  /\ thing' = [thing EXCEPT ![x] = "live"]
  /\ UNCHANGED <<row, smtp, lane, editor, accepted, stray, late, suspect>>

(* purgeResponse / purgeForm: eraseMailLogLines blanks every line about the *)
(* subject and ends those still waiting, in the deletion's transaction; its *)
(* updates wait for the locks of the lines being delivered.                 *)
EraseSubject(s) ==
  /\ thing[s] = "trash"
  /\ Unlocked({m \in Mails : s \in AboutOf[m]})
  /\ Disturb
  /\ thing' = [thing EXCEPT ![s] = "gone"]
  /\ row' = [m \in Mails |->
       IF s \in AboutOf[m] /\ Exists(m)
         THEN IF row[m].status = "queued"
                THEN [row[m] EXCEPT !.erased = TRUE, !.status = "failed",
                                    !.due = FALSE, !.why = "erased"]
                ELSE [row[m] EXCEPT !.erased = TRUE, !.why = "clear"]
         ELSE row[m]]
  /\ UNCHANGED <<smtp, lane, editor, accepted, stray, late, suspect>>

(* purgeIfDeletedBefore: the organisation goes and its log lines with it.   *)
PurgeTenant(t) ==
  /\ thing[t] = "trash"
  /\ Unlocked({m \in Mails : TenantOf[m] = t})
  /\ Disturb
  /\ thing' = [thing EXCEPT ![t] = "gone"]
  /\ row' = [m \in Mails |->
       IF TenantOf[m] = t /\ Exists(m) THEN [row[m] EXCEPT !.status = "gone"]
                                       ELSE row[m]]
  /\ UNCHANGED <<smtp, lane, editor, accepted, stray, late, suspect>>

(* MailLogPurgeService.runOnce: every line older than the retention,        *)
(* whatever its status.                                                     *)
PurgeLog(k) ==
  /\ row[k].status # "none"
  /\ Unlocked({m \in Mails : m <= k})
  /\ Disturb
  /\ row' = [m \in Mails |->
       IF m <= k /\ Exists(m) THEN [row[m] EXCEPT !.status = "gone"] ELSE row[m]]
  /\ UNCHANGED <<thing, smtp, lane, editor, accepted, stray, late, suspect>>

-----------------------------------------------------------------------------
LaneStep(w, l) ==
  \/ LaneEnds(w, l)
  \/ \E m \in Mails : \/ Withhold(w, l, m)
                      \/ FailUnreadable(w, l, m)
                      \/ StartSend(w, l, m)
  \/ WithholdOthers(w, l)
  \/ Transmit(w, l)
  \/ Record(w, l)

Environment ==
  \/ \E e \in Editors : RetryWrite(e) \/ \E m \in Mails : RetryRead(e, m)
  \/ \E l \in Lanes, c \in Stored : SaveSmtp(l, c)
  \/ \E x \in Things : MoveToTrash(x) \/ Restore(x)
  \/ \E s \in Subjects : EraseSubject(s)
  \/ \E t \in Tenants : PurgeTenant(t)
  \/ \E k \in Mails : PurgeLog(k)

MailNext ==
  \/ \E m \in Mails : Enqueue(m) \/ BackoffElapses(m) \/ LateAnswer(m)
  \/ \E w \in Workers : Tick(w)
  \/ \E w \in Workers, l \in Lanes : LaneStep(w, l) \/ LaneLost(w, l)
  \/ Environment

MailSpec == MailInit /\ [][MailNext]_mailVars

(* The interval timer ticks, a run proceeds, time passes.  Nobody is obliged *)
(* to save a block, restore a form or press a button.                        *)
MailFairSpec ==
  /\ MailSpec
  /\ \A w \in Workers : WF_mailVars(Tick(w))
  /\ \A w \in Workers, l \in Lanes : WF_mailVars(LaneStep(w, l))
  /\ \A m \in Mails : WF_mailVars(BackoffElapses(m))

-----------------------------------------------------------------------------
(* Properties *)

(* Every variable stays in its type; attempts never pass MAIL_MAX_ATTEMPTS, *)
(* a lane never spends more than its share.                                 *)
MailTypeOK ==
  /\ row \in [Mails -> Row]
  /\ thing \in [Things -> {"live", "trash", "gone"}]
  /\ smtp \in [Lanes -> Stored]
  /\ lane \in [Workers -> [Lanes -> Run]]
  /\ editor \in [Editors -> Mails \cup {NoMail}]
  /\ accepted \in [Mails -> Nat]
  /\ stray \in [Mails -> Nat]
  /\ late \in [Mails -> Nat]
  /\ suspect \subseteq Mails
  /\ disturbances \in 0..MaxDisturbances

(* FOR UPDATE OF m SKIP LOCKED: however many instances and lanes run, one   *)
(* row is never in two conversations at once.                               *)
OneConversationPerRow ==
  \A v, w \in Workers, k, l \in Lanes, m \in Mails :
    Held(v, k, m) /\ Held(w, l, m) => v = w /\ k = l

(* A row in a conversation is still waiting, still has attempts left, still *)
(* has its recipient, and belongs to the lane under whose identity it goes  *)
(* out, whatever retries, erasures and purges ran since it was claimed.     *)
ConversationIsWorkable ==
  \A w \in Workers, l \in Lanes, m \in Mails :
    Held(w, l, m) =>
      /\ row[m].status = "queued"
      /\ ~row[m].erased
      /\ row[m].attempts < MaxAttempts
      /\ LaneOf[m] = l
      /\ lane[w][l].snap \in Blocks

(* A waiting row can always still be tried: none waits with its attempts    *)
(* used up.                                                                 *)
WaitingHasAttemptsLeft ==
  \A m \in Mails : row[m].status = "queued" => row[m].attempts < MaxAttempts

(* "failed" is the only state an editor can move, and a blanked line cannot *)
(* be moved at all: whatever is queued again could be retried at that       *)
(* moment, not only when the editor looked.                                 *)
RequeuedIsRetryable ==
  [][\A m \in Mails :
       row[m].status # "queued" /\ row[m].status # "none" /\ row'[m].status = "queued" =>
         Retryable(m)]_mailVars

(* At-least-once, and no more than that (ADR-0004): a recipient gets a mail *)
(* a second time only if a loss or a missed deadline hid an earlier         *)
(* acceptance from the row.                                                 *)
NoUnexplainedDuplicate ==
  \A m \in Mails : accepted[m] <= 1 + stray[m]

(* Content typed into the honeypot never leaves the house, whatever editors *)
(* retry and whatever happens to the row's reason meanwhile.                *)
SuspectNeverSent == \A m \in suspect : accepted[m] = 0

(* A conversation is opened only under the block its owner has stored at    *)
(* that moment, never under the one the run resolved before it was changed. *)
OpensUnderStoredIdentity ==
  [][\A w \in Workers, l \in Tenants :
       lane[w][l].pc # "sending" /\ lane'[w][l].pc = "sending" =>
         lane'[w][l].snap = smtp[l] /\ smtp[l] \in Blocks]_mailVars

(* Nothing is handed to a mail server about what is deleted for good, save  *)
(* by the conversations that had lost their row before the deletion: to the *)
(* deadline, or with their transaction.  None is opened or cut off          *)
(* afterwards, and each of them is answered at most once.                   *)
NothingLeavesAfterErasure ==
  [][\A m \in Mails, s \in Subjects :
       s \in AboutOf[m] /\ thing[s] = "gone" =>
         accepted'[m] + late'[m] <= accepted[m] + late[m]]_mailVars

(* A row's lane is unable to deliver it for a reason the queue waits for.   *)
Blocked(m) == InTrash(m) \/ smtp[LaneOf[m]] = NoBlock

(* What the log shows of a line: its status, or "void" once it is blanked.  *)
LineOf(m) == IF row[m].erased /\ row[m].status # "gone" THEN "void"
             ELSE IF row[m].status = "queued" THEN "waiting"
             ELSE row[m].status

Promise == INSTANCE MailPromise
             WITH line  <- [m \in Mails |-> LineOf(m)],
                  taken <- {m \in Mails : accepted[m] > 0}

(* The queue keeps what the mail log promises of every line.                *)
KeepsPromise == Promise!Spec

(* No mail is forgotten: a waiting row ends as sent or failed, unless it is *)
(* withheld, in the trash, erased or purged.                                *)
EveryMailSettles ==
  \A m \in Mails : []<>(row[m].status # "queued" \/ row[m].erased \/ Blocked(m))
=============================================================================
