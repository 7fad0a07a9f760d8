------------------------------- MODULE Alerts --------------------------------
(***************************************************************************)
(* The watchman of the installation: ops-alert.service.ts,                 *)
(* ops-acknowledgement.service.ts, ops-breaches.ts and job-run.service.ts. *)
(*                                                                         *)
(* A run reads the status once, then mails what is exceeded, metric by     *)
(* metric and in a fixed order, past the queue.  A mail that fails ends the*)
(* run, though the server may have taken it.  What silences a metric is its*)
(* row: mailed a while ago, or acknowledged.  An address to write to is    *)
(* configured: without one a run ends once it has released acknowledgements.*)
(*                                                                         *)
(* There is one watchman.  That is an assumption of the code too: nothing  *)
(* is locked between due, send and remember, and two replicas would both   *)
(* mail (ops-alert.service.ts, "Assumption: one instance").                *)
(***************************************************************************)
EXTENDS Naturals, FiniteSets

CONSTANTS
  Metrics,      \* in the order in which findBreaches lists them
  MaxFaults     \* bound: times a note is lost or a run is cut short

ASSUME AlertsAssumption == Metrics \subseteq Nat /\ IsFiniteSet(Metrics) /\ MaxFaults \in Nat

VARIABLES
  over,       \* the metrics that exceed their threshold
  row,        \* ops_alert: when a metric was reported, and its acknowledgement
  watch,      \* the run in progress
  mails,      \* mails about each metric while one of them suppresses it
  unnoted,    \* mails that went out and were never noted
  cuts        \* runs cut short with no mail on the way

alertsVars == <<over, row, watch, mails, unnoted, cuts>>

\* "recent" suppresses, "old" did; "timed" and "open" hold, "lapsed" did.
Row     == [sent : {"never", "recent", "old"}, ack : {"none", "timed", "open", "lapsed"}]
Asleep  == [pc |-> "asleep", found |-> {}, todo |-> {}]

AlertsInit ==
  /\ over = {}
  /\ row = [x \in Metrics |-> [sent |-> "never", ack |-> "none"]]
  /\ watch = Asleep
  /\ mails = [x \in Metrics |-> 0]
  /\ unnoted = 0 /\ cuts = 0

Holds(x)    == row[x].ack \in {"timed", "open"}
DueForever(x) == ~Holds(x)                                 \* mutant
DueOnlyAgain(x) == ~Holds(x) /\ row[x].sent = "old"        \* mutant
DueAlert(x) == ~Holds(x) /\ row[x].sent # "recent"
Next1(S)    == CHOOSE x \in S : \A y \in S : x <= y

-----------------------------------------------------------------------------
(* Around it. *)

Exceed(x) ==
  /\ over' = IF x \in over THEN over \ {x} ELSE over \cup {x}
  /\ UNCHANGED <<row, watch, mails, unnoted, cuts>>

(* acknowledge, for a time or until further notice, and release.            *)
Acknowledge(x, ack) ==
  /\ row[x].ack # ack
  /\ row' = [row EXCEPT ![x].ack = ack]
  /\ UNCHANGED <<over, watch, mails, unnoted, cuts>>

AckLapses(x) ==
  /\ row[x].ack = "timed"
  /\ row' = [row EXCEPT ![x].ack = "lapsed"]
  /\ UNCHANGED <<over, watch, mails, unnoted, cuts>>

(* ALERT_REPEAT_SUPPRESSION_MS have passed since the last mail.             *)
SuppressionEnds(x) ==
  /\ mails[x] # 0
  /\ ~(watch.pc = "sent" /\ Next1(watch.todo) = x)
  /\ row' = [row EXCEPT ![x].sent = IF @ = "recent" THEN "old" ELSE @]
  /\ mails' = [mails EXCEPT ![x] = 0]
  /\ UNCHANGED <<over, watch, unnoted, cuts>>

-----------------------------------------------------------------------------
(* runOnce. *)

ReadStatus ==
  /\ watch.pc = "asleep"
  /\ watch' = [pc |-> "read", found |-> over, todo |-> over]
  /\ UNCHANGED <<over, row, mails, unnoted, cuts>>

(* releaseAcknowledgements: what is not exceeded, and what has lapsed.      *)
ReleaseAcks ==
  /\ watch.pc = "read"
  /\ row' = [x \in Metrics |->
               IF x \notin watch.found \/ row[x].ack = "lapsed"
                 THEN [row[x] EXCEPT !.ack = "none"] ELSE row[x]]
  /\ watch' = [watch EXCEPT !.pc = "reporting"]
  /\ UNCHANGED <<over, mails, unnoted, cuts>>

Turn(x) == watch.pc = "reporting" /\ watch.todo # {} /\ Next1(watch.todo) = x

PassOver(x) ==
  /\ Turn(x) /\ ~DueAlert(x)
  /\ watch' = [watch EXCEPT !.todo = @ \ {x}]
  /\ UNCHANGED <<over, row, mails, unnoted, cuts>>

Send(x) ==
  /\ Turn(x) /\ DueAlert(x)
  /\ mails' = [mails EXCEPT ![x] = @ + 1]
  /\ watch' = [watch EXCEPT !.pc = "sent"]
  /\ UNCHANGED <<over, row, unnoted, cuts>>

\* The whole run ends, and is recorded as failed.
SendFails(x) ==
  /\ Turn(x) /\ DueAlert(x)
  /\ watch' = Asleep
  /\ UNCHANGED <<over, row, mails, unnoted, cuts>>

MayFail == unnoted + cuts < MaxFaults

\* The server has taken the mail, and its answer did not arrive in time.
SendsSilently(x) ==
  /\ Turn(x) /\ DueAlert(x) /\ MayFail
  /\ mails' = [mails EXCEPT ![x] = @ + 1]
  /\ unnoted' = unnoted + 1
  /\ watch' = Asleep
  /\ UNCHANGED <<over, row, cuts>>

Remember(x) ==
  /\ watch.pc = "sent" /\ Next1(watch.todo) = x
  /\ row' = [row EXCEPT ![x].sent = "recent"]
  /\ watch' = [watch EXCEPT !.pc = "reporting", !.todo = @ \ {x}]
  /\ UNCHANGED <<over, mails, unnoted, cuts>>

RunOver ==
  /\ watch.pc = "reporting" /\ watch.todo = {}
  /\ watch' = Asleep
  /\ UNCHANGED <<over, row, mails, unnoted, cuts>>

\* The upsert of remember throws, or the process dies before it.
NoteIsLost ==
  /\ watch.pc = "sent" /\ MayFail
  /\ watch' = Asleep
  /\ unnoted' = unnoted + 1
  /\ UNCHANGED <<over, row, mails, cuts>>

\* The process dies elsewhere, or a statement throws.
RunIsCut ==
  /\ watch.pc \in {"read", "reporting"} /\ MayFail
  /\ watch' = Asleep
  /\ cuts' = cuts + 1
  /\ UNCHANGED <<over, row, mails, unnoted>>

-----------------------------------------------------------------------------
Step(x) == PassOver(x) \/ Send(x) \/ SendFails(x) \/ Remember(x)
Watch   == ReadStatus \/ ReleaseAcks \/ RunOver \/ \E x \in Metrics : Step(x)

AlertsNext ==
  \/ \E x \in Metrics : \/ Exceed(x) \/ AckLapses(x) \/ SuppressionEnds(x)
                        \/ \E ack \in {"none", "timed", "open"} : Acknowledge(x, ack)
  \/ Watch
  \/ NoteIsLost \/ RunIsCut \/ \E x \in Metrics : SendsSilently(x)

AlertsSpec == AlertsInit /\ [][AlertsNext]_alertsVars

(* The timer goes on, and the mail server takes a mail now and then.        *)
AlertsFairness ==
  /\ WF_alertsVars(Watch)
  /\ \A x \in Metrics : SF_alertsVars(Send(x))

-----------------------------------------------------------------------------
(* Properties *)

AlertsTypeOK ==
  /\ over \subseteq Metrics /\ row \in [Metrics -> Row]
  /\ watch \in [pc : {"asleep", "read", "reporting", "sent"}, found : SUBSET Metrics,
                todo : SUBSET Metrics]
  /\ mails \in [Metrics -> Nat] /\ unnoted \in Nat /\ cuts \in Nat
  /\ unnoted + cuts <= MaxFaults

(* "It does not repeat endlessly": while a mail suppresses its metric there *)
(* is no other, whatever is acknowledged or released meanwhile, but for one *)
(* each time a mail went out and its note was lost: to a late answer of the *)
(* server, a failing upsert or the death of the process.                    *)
OneMailPerSuppression == \A x \in Metrics : mails[x] <= 1 + unnoted

(* What stays exceeded and is not acknowledged is mailed, though mails fail *)
(* and a failed mail ends the run for the metrics behind it.                *)
BreachIsReported ==
  \A x \in Metrics : []<>(x \in over /\ ~Holds(x) => mails[x] # 0)
=============================================================================
