---------------------------- MODULE MCMailQueue ----------------------------
(* Small instances of MailQueue for TLC.                                   *)
EXTENDS MailQueue, TLC

CONSTANTS t1, t2, s1, s2, sys, b1

\* One mail about an answer.
OneTenant  == [m \in {1} |-> t1]
OneAbout   == [m \in {1} |-> {s1}]

\* Two mails of one organisation.
TwoOfOneTenant == [m \in 1..2 |-> t1]

\* A mail of the organisation and a system mail booked on the same one.
TenantAndSystem      == [m \in 1..2 |-> IF m = 1 THEN t1 ELSE sys]
TenantAndSystemAbout == [m \in 1..2 |-> IF m = 1 THEN {s1} ELSE {}]

\* One mail of each of two organisations.
OneOfEachTenant == [m \in 1..2 |-> IF m = 1 THEN t1 ELSE t2]
Unrelated       == [m \in 1..2 |-> {}]

\* Who has stored a mail server when the behaviour begins.
TenantReady  == [l \in Lanes |-> IF l = t1 THEN b1 ELSE NoBlock]
AllReady     == [l \in Lanes |-> b1]
OnlySecond   == [l \in Lanes |-> IF l = t2 THEN b1 ELSE NoBlock]

\* Instances of the API are interchangeable.
WorkerSymmetry == Permutations(Workers)
=============================================================================
