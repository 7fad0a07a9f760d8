-------------------------------- MODULE MCJobs --------------------------------
(***************************************************************************)
(* What timers do: the daily erasure and the watchman, Retention and       *)
(* Alerts.  They share no variable, so every behaviour of both is one of   *)
(* each; TLC follows one part at a time, and asks fairness of that part.   *)
(***************************************************************************)
EXTENDS Retention, Alerts

VARIABLE part

jobVars == <<part, retentionVars, alertsVars>>

JobsInit ==
  /\ part \in {"retention", "alerts"}
  /\ RetentionInit /\ AlertsInit

Retains == part = "retention" /\ UNCHANGED <<part, alertsVars>>
Watches == part = "alerts" /\ UNCHANGED <<part, retentionVars>>

JobsNext == \/ Retains /\ RetentionNext
            \/ Watches /\ AlertsNext

JobsSpec == JobsInit /\ [][JobsNext]_jobVars

JobsFairSpec ==
  /\ JobsSpec
  /\ WF_jobVars(Retains /\ Run)
  /\ WF_jobVars(Watches /\ Watch)
  /\ \A x \in Metrics : SF_jobVars(Watches /\ Send(x))

(* Every part stays in its types.                                           *)
JobsTypeOK == RetentionTypeOK /\ AlertsTypeOK

\* An organisation, two forms, an answer and a draft of the first form.
Rows == [x \in 1..5 |-> CASE x = 1 -> {} [] x \in {2, 3} -> {1} [] OTHER -> {1, 2}]
=============================================================================
