------------------------------- MODULE Quotas --------------------------------
(***************************************************************************)
(* What may be spent, and how it is counted: calls of the AI in a month    *)
(* (ai-usage.service.ts and its delegate in tenant-scope.ts), drafts of a  *)
(* form (draft-quota.ts), mails of a form (public-forms.service.ts,        *)
(* mail-suppression.ts), files of an address (upload-quota.ts,             *)
(* public-uploads.service.ts).                                             *)
(*                                                                         *)
(* The AI counts and spends under a row lock.  All others count first and  *)
(* spend later: requests at once count the same, and go over by what they  *)
(* hold in hand.                                                           *)
(***************************************************************************)
EXTENDS Integers, FiniteSets

CONSTANTS
  Spenders,     \* concurrent requests
  Limits,       \* of each open budget
  Most,         \* what one request spends of each at most
  AiLimits,     \* the monthly limits a superadmin may set
  LastMonth     \* bound: months

Budgets == {"drafts", "mails", "hour", "waiting"}

ASSUME QuotasAssumption ==
  /\ IsFiniteSet(Spenders) /\ Spenders # {}
  /\ Limits \in [Budgets -> Nat] /\ Most \in [Budgets -> Nat]
  /\ AiLimits \subseteq Nat /\ LastMonth \in Nat \ {0}

VARIABLES
  calls,      \* ai_usage rows: the month and a number
  aiLimit,    \* tenant.ai_monthly_call_limit
  month,      \* by the clock, in Berlin
  spent,      \* what counts against each open budget
  spender     \* requests in flight

quotasVars == <<calls, aiLimit, month, spent, spender>>

Months  == 1..LastMonth
Takes   == {{"drafts"}, {"mails"}, {"hour", "waiting"}}   \* a draft, a submission, a file
Spender == [pc : {"idle", "asking", "counted", "calling", "spending"}, month : Months,
            takes : SUBSET Budgets, allowance : Nat]
Holding(pc, m, B, n) == [pc |-> pc, month |-> m, takes |-> B, allowance |-> n]
Resting == Holding("idle", 1, {}, 0)

CallsSince(m) == Cardinality({c \in calls : c[1] >= m})
CallsIn(m)    == Cardinality({c \in calls : c[1] = m})

Rests(p)     == spender' = [spender EXCEPT ![p] = Resting]
Goes(p, pc)  == spender' = [spender EXCEPT ![p].pc = pc]

QuotasInit ==
  /\ calls = {} /\ aiLimit \in AiLimits /\ month = 1
  /\ spent = [b \in Budgets |-> 0]
  /\ spender = [p \in Spenders |-> Resting]

-----------------------------------------------------------------------------
(* The AI: AiUsageService.spend. *)

(* The month is read from the clock before the lock is waited for.          *)
BeginCall(p) ==
  /\ spender[p].pc = "idle"
  /\ spender' = [spender EXCEPT ![p] = Holding("asking", month, {}, 0)]
  /\ UNCHANGED <<calls, aiLimit, month, spent>>

\* SELECT ... FOR UPDATE of the organisation, held until the commit.
TenantAlwaysFree == TRUE                                   \* mutant
TenantFree == \A q \in Spenders : spender[q].pc # "counted"

CountCalls(p) ==
  /\ spender[p].pc = "asking"
  /\ TenantFree
  /\ IF CallsSince(spender[p].month) < aiLimit THEN Goes(p, "counted") ELSE Rests(p)
  /\ UNCHANGED <<calls, aiLimit, month, spent>>

ReserveCall(p) ==
  /\ spender[p].pc = "counted"
  /\ calls' = calls \cup {<<spender[p].month, Cardinality(calls) + 1>>}
  /\ Goes(p, "calling")
  /\ UNCHANGED <<aiLimit, month, spent>>

\* Whatever the verdict, and though it cannot be written: the call counts.
Verdict(p) ==
  /\ spender[p].pc = "calling"
  /\ Rests(p)
  /\ UNCHANGED <<calls, aiLimit, month, spent>>

SetAiLimit(n) ==
  /\ TenantFree
  /\ aiLimit' = n
  /\ UNCHANGED <<calls, month, spent, spender>>

MonthTurns ==
  /\ month < LastMonth
  /\ month' = month + 1
  /\ UNCHANGED <<calls, aiLimit, spent, spender>>

-----------------------------------------------------------------------------
(* The open budgets. *)

Least(S) == CHOOSE n \in S : \A k \in S : n <= k

\* One request is let through whole, once anything is left.
WholeRequest(B) == IF \A b \in B : spent[b] < Limits[b]    \* mutant
                     THEN Least({Most[b] : b \in B}) ELSE 0
Left(B) == Least({Most[b] : b \in B} \cup {Limits[b] - spent[b] : b \in B})

CountSpent(p, B) ==
  /\ spender[p].pc = "idle"
  /\ Left(B) > 0
  /\ spender' = [spender EXCEPT ![p] = Holding("spending", 1, B, Left(B))]
  /\ UNCHANGED <<calls, aiLimit, month, spent>>

(* The insert, the submission or the upload is through.                     *)
SpendCounted(p, n) ==
  /\ spender[p].pc = "spending"
  /\ n \in 1..spender[p].allowance
  /\ spent' = [b \in Budgets |-> IF b \in spender[p].takes THEN spent[b] + n ELSE spent[b]]
  /\ Rests(p)
  /\ UNCHANGED <<calls, aiLimit, month>>

GivesUp(p) ==
  /\ spender[p].pc \in {"asking", "counted", "spending"}
  /\ Rests(p)
  /\ UNCHANGED <<calls, aiLimit, month, spent>>

(* A window slides, a draft goes, a claimed file leaves the waiting room.   *)
GiveBack(b) ==
  /\ spent[b] > 0
  /\ spent' = [spent EXCEPT ![b] = @ - 1]
  /\ UNCHANGED <<calls, aiLimit, month, spender>>

(* The allowances of an address are in memory, a reserved call is not.      *)
Restart ==
  /\ spender # [p \in Spenders |-> Resting]
  /\ spender' = [p \in Spenders |-> Resting]
  /\ spent' = [b \in Budgets |-> IF b \in {"hour", "waiting"} THEN 0 ELSE spent[b]]
  /\ UNCHANGED <<calls, aiLimit, month>>

-----------------------------------------------------------------------------
QuotasNext ==
  \/ \E p \in Spenders :
       \/ BeginCall(p) \/ CountCalls(p) \/ ReserveCall(p) \/ Verdict(p) \/ GivesUp(p)
       \/ \E B \in Takes : CountSpent(p, B)
       \/ \E n \in 1..spender[p].allowance : SpendCounted(p, n)
  \/ \E n \in AiLimits : SetAiLimit(n)
  \/ MonthTurns
  \/ \E b \in Budgets : GiveBack(b)
  \/ Restart

QuotasSpec == QuotasInit /\ [][QuotasNext]_quotasVars

-----------------------------------------------------------------------------
(* Properties *)

QuotasTypeOK ==
  /\ calls \subseteq Months \X Nat /\ IsFiniteSet(calls)
  /\ aiLimit \in AiLimits /\ month \in Months
  /\ spent \in [Budgets -> Nat] /\ spender \in [Spenders -> Spender]

(* However many ask at once, and though one that waited for the lock began  *)
(* in the month before, no month holds more calls than the highest limit    *)
(* that a superadmin may set.                                               *)
MonthWithinLimit == \A m \in Months : CallsIn(m) # 0 => \E n \in AiLimits : CallsIn(m) <= n

(* What counts before it spends goes over by what the other requests had in *)
(* hand, and never further.                                                 *)
OvershootIsBounded ==
  \A b \in Budgets : spent[b] <= Limits[b] + (Cardinality(Spenders) - 1) * Most[b]
=============================================================================
