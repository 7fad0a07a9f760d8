------------------------------ MODULE MCAccounts ------------------------------
(***************************************************************************)
(* What requests do to accounts and to budgets: Members for who exists and *)
(* administers what, Credentials for the keys of one account, Quotas for   *)
(* what may be spent.  They share no variable, so a step of one neither    *)
(* enables nor changes a step of another, and every behaviour of the whole *)
(* is one of each; TLC follows one part at a time.                         *)
(***************************************************************************)
EXTENDS Members, Credentials, Quotas, TLC

VARIABLE part

accountVars == <<part, membersVars, credentialVars, quotasVars>>

\* The parts that rest stay at one initial state; no address is special.
AccountsInit ==
  /\ part \in {"members", "credentials", "quotas"}
  /\ MembersInit /\ CredentialsInit /\ QuotasInit
  /\ part = "quotas" \/ aiLimit = 1
  /\ part = "credentials" \/ hash = 0
  /\ address = CHOOSE a \in Addresses : TRUE

\* Bound: the retention run meets one request at a time, and a request another.
TwoAtWork == purge = NoPurge \/ \E p \in Requests : req[p] = Idle

AccountsNext ==
  \/ /\ part = "members" /\ MembersNext /\ TwoAtWork'
     /\ UNCHANGED <<part, credentialVars, quotasVars>>
  \/ /\ part = "credentials" /\ CredentialsNext
     /\ UNCHANGED <<part, membersVars, quotasVars>>
  \/ /\ part = "quotas" /\ QuotasNext
     /\ UNCHANGED <<part, membersVars, credentialVars>>

AccountsSpec == AccountsInit /\ [][AccountsNext]_accountVars

(* The part that moves stays in its types.                                  *)
AccountsTypeOK ==
  CASE part = "members"     -> MembersTypeOK
    [] part = "credentials" -> CredentialsTypeOK
    [] part = "quotas"      -> QuotasTypeOK

\* Requests, callers and spenders are one set of model values: a small group.
Symmetry == Permutations(Accounts) \cup Permutations(Orgs) \cup Permutations(Requests)

LimitOf == [b \in Budgets |-> IF b = "mails" THEN 2 ELSE 1]
=============================================================================
