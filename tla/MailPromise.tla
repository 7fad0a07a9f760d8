---------------------------- MODULE MailPromise ----------------------------
(***************************************************************************)
(* What the mail log promises of its lines, whoever delivers, retries or   *)
(* deletes them: a line that reads "sent" was taken over by a mail server, *)
(* "sent" is final, "failed" is left only by a retry, and a line blanked   *)
(* by a permanent deletion stays blank until retention removes it.         *)
(***************************************************************************)
CONSTANT Mails

VARIABLES
  line,   \* what the log shows of each line
  taken   \* the mails a mail server has taken over at least once

Shown == {"none", "waiting", "sent", "failed", "void", "gone"}

Init ==
  /\ line = [m \in Mails |-> "none"]
  /\ taken = {}

Write(m) ==
  /\ line[m] = "none"
  /\ \E s \in {"waiting", "failed"} : line' = [line EXCEPT ![m] = s]
  /\ UNCHANGED taken

\* A mail server takes the mail over, perhaps after the queue gave up on it.
Take(m) ==
  /\ line[m] # "none"
  /\ taken' = taken \cup {m}
  /\ UNCHANGED line

Confirm(m) ==
  /\ line[m] = "waiting"
  /\ m \in taken
  /\ line' = [line EXCEPT ![m] = "sent"]
  /\ UNCHANGED taken

GiveUp(m) ==
  /\ line[m] = "waiting"
  /\ line' = [line EXCEPT ![m] = "failed"]
  /\ UNCHANGED taken

Retry(m) ==
  /\ line[m] = "failed"
  /\ line' = [line EXCEPT ![m] = "waiting"]
  /\ UNCHANGED taken

\* Permanent deletion blanks the lines about what was deleted.
Void(S) ==
  /\ line' = [m \in Mails |->
       IF m \in S /\ line[m] \notin {"none", "gone"} THEN "void" ELSE line[m]]
  /\ UNCHANGED taken

\* Retention removes lines altogether.
Drop(S) ==
  /\ line' = [m \in Mails |->
       IF m \in S /\ line[m] # "none" THEN "gone" ELSE line[m]]
  /\ UNCHANGED taken

Next ==
  \/ \E m \in Mails : Write(m) \/ Take(m) \/ Confirm(m) \/ GiveUp(m) \/ Retry(m)
  \/ \E S \in SUBSET Mails : Void(S) \/ Drop(S)

Spec == Init /\ [][Next]_<<line, taken>>
=============================================================================
