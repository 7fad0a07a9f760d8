---------------------------- MODULE Quotas_proofs ----------------------------
(***************************************************************************)
(* What may be spent at most, for any number of requests at once.          *)
(*                                                                         *)
(* A month: whoever has counted holds the lock, the limit does not change  *)
(* and no call is reserved meanwhile.                                      *)
(*                                                                         *)
(* An open budget: every request in flight may take Most.  The one that    *)
(* counted last left room for itself, and all others went before it.       *)
(***************************************************************************)
EXTENDS Quotas, FiniteSetTheorems, TLAPS

Allowed == \A p \in Spenders : spender[p].pc = "spending" =>
             \A b \in spender[p].takes : spender[p].allowance <= Most[b]

CountedKnows ==
  /\ \A p, q \in Spenders : spender[p].pc = "counted" /\ spender[q].pc = "counted" => p = q
  /\ \A p \in Spenders : spender[p].pc = "counted" => CallsSince(spender[p].month) < aiLimit

\* Requests that may still spend of b, and how far all requests may go.
InHand(b) == {p \in Spenders : spender[p].pc = "spending" /\ b \in spender[p].takes}
Furthest(b) == Limits[b] + (Cardinality(Spenders) - 1) * Most[b]

RoomFor(b) ==
  \/ spent[b] + Cardinality(InHand(b)) * Most[b] <= Furthest(b)
  \/ \E p \in InHand(b) :
       spent[b] + spender[p].allowance + (Cardinality(InHand(b)) - 1) * Most[b] <= Furthest(b)

QuotasInv ==
  /\ QuotasTypeOK /\ Allowed
  /\ CountedKnows /\ MonthWithinLimit
  /\ \A b \in Budgets : RoomFor(b)

-----------------------------------------------------------------------------
(* Data *)

LEMMA SpenderParts ==
  /\ Resting \in Spender /\ Resting.pc = "idle"
  /\ \A pc \in {"asking", "spending"}, m \in Months, B \in SUBSET Budgets, n \in Nat :
       /\ Holding(pc, m, B, n) \in Spender
       /\ Holding(pc, m, B, n).pc = pc /\ Holding(pc, m, B, n).takes = B
       /\ Holding(pc, m, B, n).allowance = n
  /\ \A r \in Spender : r.month \in Months /\ r.takes \in SUBSET Budgets /\ r.allowance \in Nat
  /\ \A r \in Spender, pc \in {"counted", "calling"} :
       /\ [r EXCEPT !.pc = pc] \in Spender
       /\ [r EXCEPT !.pc = pc].pc = pc /\ [r EXCEPT !.pc = pc].month = r.month
  <1>1. 1 \in Months
    BY QuotasAssumption DEF QuotasAssumption, Months
  <1>2. Resting \in Spender /\ Resting.pc = "idle"
    BY <1>1 DEF Resting, Holding, Spender
  <1>3. \A pc \in {"asking", "spending"}, m \in Months, B \in SUBSET Budgets, n \in Nat :
          /\ Holding(pc, m, B, n) \in Spender
          /\ Holding(pc, m, B, n).pc = pc /\ Holding(pc, m, B, n).takes = B
          /\ Holding(pc, m, B, n).allowance = n
    BY DEF Holding, Spender
  <1>4. \A r \in Spender : r.month \in Months /\ r.takes \in SUBSET Budgets /\ r.allowance \in Nat
    BY DEF Spender
  <1>5. \A r \in Spender, pc \in {"counted", "calling"} :
          /\ [r EXCEPT !.pc = pc] \in Spender
          /\ [r EXCEPT !.pc = pc].pc = pc /\ [r EXCEPT !.pc = pc].month = r.month
    BY DEF Spender
  <1> QED
    BY <1>2, <1>3, <1>4, <1>5

\* What is left for a request is no more than it may take, nor than is free.
LEMMA LeftFits ==
  ASSUME QuotasTypeOK, NEW B \in Takes
  PROVE  /\ Left(B) \in Int
         /\ \A b \in B : Left(B) <= Most[b] /\ Left(B) <= Limits[b] - spent[b]
  <1>1. /\ B \in SUBSET Budgets
        /\ \A b \in Budgets : Most[b] \in Nat /\ Limits[b] - spent[b] \in Int
    BY QuotasAssumption DEF QuotasAssumption, QuotasTypeOK, Takes, Budgets
  <1> DEFINE S == {Most[b] : b \in B} \cup {Limits[b] - spent[b] : b \in B}
  <1>2. \E n \in S : \A k \in S : n <= k
    <2>1. ASSUME NEW b \in Budgets, B = {b}
          PROVE  \E n \in S : \A k \in S : n <= k
      <3>1. S = {Most[b], Limits[b] - spent[b]}
        BY <2>1
      <3>2. Most[b] \in Int /\ Limits[b] - spent[b] \in Int
        BY <1>1
      <3> HIDE DEF S
      <3> QED
        BY <3>1, <3>2
    <2>2. ASSUME B = {"hour", "waiting"}
          PROVE  \E n \in S : \A k \in S : n <= k
      <3> DEFINE w == Most["hour"]
                 x == Most["waiting"]
                 y == Limits["hour"] - spent["hour"]
                 z == Limits["waiting"] - spent["waiting"]
      <3>1. S = {w, x, y, z}
        BY <2>2
      <3>2. w \in Int /\ x \in Int /\ y \in Int /\ z \in Int
        BY <1>1 DEF Budgets
      <3> HIDE DEF S, w, x, y, z
      <3>3. PICK u \in {w, x} : u <= w /\ u <= x
        BY <3>2
      <3>4. PICK v \in {y, z} : v <= y /\ v <= z
        BY <3>2
      <3> QED
        BY <3>1, <3>2, <3>3, <3>4
    <2> QED
      BY <2>1, <2>2 DEF Takes, Budgets
  <1>3. Left(B) \in S /\ \A k \in S : Left(B) <= k
    <2>1. Left(B) = CHOOSE n \in S : \A k \in S : n <= k
      BY DEF Left, Least
    <2> HIDE DEF S
    <2> QED
      BY <1>2, <2>1
  <1>4. S \subseteq Int
    BY <1>1
  <1>5. \A b \in B : Most[b] \in S /\ Limits[b] - spent[b] \in S
    OBVIOUS
  <1> HIDE DEF S
  <1> QED
    BY <1>3, <1>4, <1>5

LEMMA Product ==
  ASSUME NEW k \in Int, NEW m \in Nat
  PROVE  /\ (k + 1) * m = k * m + m
         /\ (k - 1) * m = k * m - m
         /\ k * m \in Int
         /\ k >= 0 => k * m >= 0
         /\ \A s \in Int : k <= s => k * m <= s * m
  <1>1. /\ (k + 1) * m = k * m + m
        /\ (k - 1) * m = k * m - m
        /\ k * m \in Int
        /\ k >= 0 => k * m >= 0
    OBVIOUS
  <1>2. ASSUME NEW s \in Int, k <= s
        PROVE  k * m <= s * m
    <2>1. s - k >= 0 /\ s - k \in Int
      BY <1>2
    <2>2. (s - k) * m >= 0
      BY <2>1
    <2>3. (s - k) * m = s * m - k * m
      OBVIOUS
    <2> QED
      BY <2>2, <2>3
  <1> QED
    BY <1>1, <1>2

\* One request changes.
LEMMA SpenderChanges ==
  ASSUME QuotasTypeOK, NEW p \in Spenders, NEW d \in Spender, spender' = [spender EXCEPT ![p] = d]
  PROVE  /\ spender' \in [Spenders -> Spender]
         /\ spender'[p] = d
         /\ \A q \in Spenders \ {p} : spender'[q] = spender[q]
  BY DEF QuotasTypeOK

-----------------------------------------------------------------------------
(* Types *)

LEMMA QuotasTypes ==
  ASSUME QuotasTypeOK, Allowed, [QuotasNext]_quotasVars
  PROVE  (QuotasTypeOK /\ Allowed)'
  <1>a. /\ calls \subseteq Months \X Nat /\ IsFiniteSet(calls)
        /\ aiLimit \in AiLimits /\ month \in Months
        /\ spent \in [Budgets -> Nat] /\ spender \in [Spenders -> Spender]
    BY DEF QuotasTypeOK
  <1>0. CASE UNCHANGED quotasVars
    BY <1>0 DEF quotasVars, QuotasTypeOK, Allowed
  \* One request goes where it spends nothing.
  <1>1. ASSUME NEW p \in Spenders, NEW d \in Spender, spender' = [spender EXCEPT ![p] = d],
               d.pc # "spending",
               calls' \subseteq Months \X Nat, IsFiniteSet(calls'),
               UNCHANGED <<aiLimit, month>>, spent' \in [Budgets -> Nat]
        PROVE  (QuotasTypeOK /\ Allowed)'
    <2>1. Allowed'
      BY <1>1, SpenderChanges DEF Allowed
    <2> QED
      BY <1>a, <1>1, <2>1, SpenderChanges DEF QuotasTypeOK
  <1>2. ASSUME NEW p \in Spenders, BeginCall(p)
        PROVE  (QuotasTypeOK /\ Allowed)'
    <2> DEFINE d == Holding("asking", month, {}, 0)
    <2>1. d \in Spender /\ d.pc = "asking"
      BY <1>a, SpenderParts
    <2>2. spender' = [spender EXCEPT ![p] = d] /\ UNCHANGED <<calls, aiLimit, month, spent>>
      BY <1>2 DEF BeginCall
    <2> HIDE DEF d
    <2> QED
      BY <1>a, <1>1, <2>1, <2>2
  <1>3. ASSUME NEW p \in Spenders, CountCalls(p) \/ Verdict(p) \/ GivesUp(p)
        PROVE  (QuotasTypeOK /\ Allowed)'
    <2>1. /\ UNCHANGED <<calls, aiLimit, month, spent>>
          /\ Goes(p, "counted") \/ Rests(p)
      BY <1>3 DEF CountCalls, Verdict, GivesUp
    <2>2. PICK d \in Spender : d.pc # "spending" /\ spender' = [spender EXCEPT ![p] = d]
      BY <1>a, <2>1, SpenderParts DEF Goes, Rests
    <2> QED
      BY <1>a, <1>1, <2>1, <2>2
  <1>4. ASSUME NEW p \in Spenders, ReserveCall(p)
        PROVE  (QuotasTypeOK /\ Allowed)'
    <2> DEFINE c == <<spender[p].month, Cardinality(calls) + 1>>
               d == [spender[p] EXCEPT !.pc = "calling"]
    <2>1. c \in Months \X Nat
      BY <1>a, SpenderParts, FS_CardinalityType
    <2>2. d \in Spender /\ d.pc # "spending"
      BY <1>a, SpenderParts
    <2>3. /\ calls' = calls \cup {c} /\ spender' = [spender EXCEPT ![p] = d]
          /\ UNCHANGED <<aiLimit, month, spent>>
      BY <1>4 DEF ReserveCall, Goes
    <2> HIDE DEF c, d
    <2>4. calls' \subseteq Months \X Nat /\ IsFiniteSet(calls')
      BY <1>a, <2>1, <2>3, FS_AddElement
    <2> QED
      BY <1>a, <1>1, <2>2, <2>3, <2>4
  <1>5. ASSUME NEW p \in Spenders, NEW B \in Takes, CountSpent(p, B)
        PROVE  (QuotasTypeOK /\ Allowed)'
    <2> DEFINE n == Left(B)
               d == Holding("spending", 1, B, n)
    <2>1. n \in Nat /\ \A b \in B : n <= Most[b]
      BY <1>5, LeftFits DEF CountSpent
    <2>2. 1 \in Months /\ B \in SUBSET Budgets
      BY QuotasAssumption DEF QuotasAssumption, Months, Takes, Budgets
    <2>3. spender' = [spender EXCEPT ![p] = d] /\ UNCHANGED <<calls, aiLimit, month, spent>>
      BY <1>5 DEF CountSpent
    <2> HIDE DEF n
    <2>4. d \in Spender /\ d.takes = B /\ d.allowance = n
      BY <2>1, <2>2, SpenderParts
    <2> HIDE DEF d
    <2>5. Allowed'
      BY <2>1, <2>3, <2>4, SpenderChanges DEF Allowed
    <2> QED
      BY <1>a, <2>3, <2>4, <2>5, SpenderChanges DEF QuotasTypeOK
  <1>6. ASSUME NEW p \in Spenders, NEW n \in 1..spender[p].allowance, SpendCounted(p, n)
        PROVE  (QuotasTypeOK /\ Allowed)'
    <2>1. /\ spender' = [spender EXCEPT ![p] = Resting]
          /\ spent' = [b \in Budgets |-> IF b \in spender[p].takes THEN spent[b] + n ELSE spent[b]]
          /\ UNCHANGED <<calls, aiLimit, month>>
      BY <1>6 DEF SpendCounted, Rests
    <2>2. n \in Nat
      BY <1>a, SpenderParts
    <2>3. spent' \in [Budgets -> Nat]
      BY <1>a, <2>1, <2>2
    <2> QED
      BY <1>a, <1>1, <2>1, <2>3, SpenderParts
  <1>7. ASSUME NEW n \in AiLimits, SetAiLimit(n)
        PROVE  (QuotasTypeOK /\ Allowed)'
    BY <1>7 DEF SetAiLimit, QuotasTypeOK, Allowed
  <1>8. ASSUME MonthTurns
        PROVE  (QuotasTypeOK /\ Allowed)'
    <2>1. month' \in Months
      BY <1>a, <1>8, QuotasAssumption DEF MonthTurns, Months, QuotasAssumption
    <2> QED
      BY <1>8, <2>1 DEF MonthTurns, QuotasTypeOK, Allowed
  <1>9. ASSUME NEW b \in Budgets, GiveBack(b)
        PROVE  (QuotasTypeOK /\ Allowed)'
    <2>1. spent' \in [Budgets -> Nat]
      BY <1>a, <1>9 DEF GiveBack
    <2> QED
      BY <1>9, <2>1 DEF GiveBack, QuotasTypeOK, Allowed
  <1>10. ASSUME Restart
         PROVE  (QuotasTypeOK /\ Allowed)'
    <2>1. /\ spender' = [p \in Spenders |-> Resting]
          /\ spent' = [b \in Budgets |-> IF b \in {"hour", "waiting"} THEN 0 ELSE spent[b]]
          /\ UNCHANGED <<calls, aiLimit, month>>
      BY <1>10 DEF Restart
    <2> QED
      BY <1>a, <2>1, SpenderParts DEF QuotasTypeOK, Allowed
  <1> QED
    BY <1>0, <1>2, <1>3, <1>4, <1>5, <1>6, <1>7, <1>8, <1>9, <1>10 DEF QuotasNext

-----------------------------------------------------------------------------
(* The month *)

LEMMA MonthStep ==
  ASSUME QuotasTypeOK, CountedKnows, MonthWithinLimit, [QuotasNext]_quotasVars
  PROVE  (CountedKnows /\ MonthWithinLimit)'
  <1>a. /\ calls \subseteq Months \X Nat /\ IsFiniteSet(calls)
        /\ aiLimit \in AiLimits /\ AiLimits \subseteq Nat
        /\ spender \in [Spenders -> Spender]
    BY QuotasAssumption DEF QuotasTypeOK, QuotasAssumption
  \* Nobody counts, and the calls stay.
  <1>1. ASSUME calls' = calls, aiLimit' = aiLimit,
               \A q \in Spenders : spender'[q].pc = "counted" => spender'[q] = spender[q]
        PROVE  (CountedKnows /\ MonthWithinLimit)'
    BY <1>1 DEF CountedKnows, MonthWithinLimit, CallsSince, CallsIn
  <1>2. ASSUME NEW p \in Spenders, NEW d \in Spender, spender' = [spender EXCEPT ![p] = d],
               d.pc # "counted", calls' = calls, aiLimit' = aiLimit
        PROVE  (CountedKnows /\ MonthWithinLimit)'
    BY <1>1, <1>2, SpenderChanges
  <1>3. ASSUME NEW p \in Spenders, CountCalls(p)
        PROVE  (CountedKnows /\ MonthWithinLimit)'
    <2>1. CASE CallsSince(spender[p].month) < aiLimit
      <3> DEFINE d == [spender[p] EXCEPT !.pc = "counted"]
      <3>1. d \in Spender /\ d.pc = "counted" /\ d.month = spender[p].month
        BY <1>a, SpenderParts
      <3>2. /\ spender' = [spender EXCEPT ![p] = d] /\ UNCHANGED <<calls, aiLimit>>
            /\ \A q \in Spenders : spender[q].pc # "counted"
        BY <1>3, <2>1 DEF CountCalls, Goes, TenantFree
      <3> HIDE DEF d
      <3> QED
        BY <2>1, <3>1, <3>2, SpenderChanges DEF CountedKnows, MonthWithinLimit, CallsSince, CallsIn
    <2>2. CASE ~(CallsSince(spender[p].month) < aiLimit)
      BY <1>2, <1>3, <2>2, SpenderParts DEF CountCalls, Rests
    <2> QED
      BY <2>1, <2>2
  <1>4. ASSUME NEW p \in Spenders, ReserveCall(p)
        PROVE  (CountedKnows /\ MonthWithinLimit)'
    <2> DEFINE m == spender[p].month
               c == <<m, Cardinality(calls) + 1>>
               d == [spender[p] EXCEPT !.pc = "calling"]
    <2>1. /\ calls' = calls \cup {c} /\ spender' = [spender EXCEPT ![p] = d]
          /\ aiLimit' = aiLimit /\ spender[p].pc = "counted"
      BY <1>4 DEF ReserveCall, Goes
    <2>2. d \in Spender /\ d.pc = "calling" /\ m \in Months
      BY <1>a, SpenderParts
    <2>3. c[1] = m
      OBVIOUS
    <2> HIDE DEF c, d, m
    <2>4. \A q \in Spenders : spender'[q].pc # "counted"
      BY <2>1, <2>2, SpenderChanges DEF CountedKnows
    <2>5. ASSUME NEW k \in Months, CallsIn(k)' # 0
          PROVE  \E n \in AiLimits : CallsIn(k)' <= n
      <3> DEFINE In == {x \in calls : x[1] = k}
                 Since == {x \in calls : x[1] >= k}
      <3>1. CASE k # m
        <4>1. {x \in calls' : x[1] = k} = In
          BY <2>1, <2>3, <3>1
        <4> QED
          BY <2>5, <4>1 DEF CallsIn, MonthWithinLimit
      <3>2. CASE k = m
        <4>1. {x \in calls' : x[1] = k} = In \cup {c}
          BY <2>1, <2>3, <3>2
        <4>2. In \subseteq Since /\ Since \subseteq calls
          BY QuotasAssumption DEF Months, QuotasAssumption
        <4>3. IsFiniteSet(Since) /\ IsFiniteSet(In)
          BY <1>a, <4>2, FS_Subset
        <4>4. Cardinality(In) <= Cardinality(Since)
          BY <4>2, <4>3, FS_Subset
        <4>5. Cardinality(In \cup {c}) <= Cardinality(In) + 1
          <5>1. Cardinality(In) \in Nat
            BY <4>3, FS_CardinalityType
          <5>2. Cardinality(In \cup {c}) \in {Cardinality(In), Cardinality(In) + 1}
            BY <4>3, FS_AddElement
          <5> QED
            BY <5>1, <5>2
        <4>6. Cardinality(Since) < aiLimit
          BY <2>1, <3>2 DEF CountedKnows, CallsSince, m
        <4>7. /\ Cardinality(In) \in Nat /\ Cardinality(Since) \in Nat
              /\ Cardinality(In \cup {c}) \in Nat
          BY <4>3, FS_AddElement, FS_CardinalityType
        <4>8. Cardinality(In \cup {c}) <= aiLimit
          BY <1>a, <4>4, <4>5, <4>6, <4>7
        <4> QED
          BY <1>a, <4>1, <4>8 DEF CallsIn
      <3> QED
        BY <3>1, <3>2
    <2> QED
      BY <2>4, <2>5 DEF CountedKnows, MonthWithinLimit
  <1>5. ASSUME NEW p \in Spenders,
               Verdict(p) \/ GivesUp(p) \/ \E n \in 1..spender[p].allowance : SpendCounted(p, n)
        PROVE  (CountedKnows /\ MonthWithinLimit)'
    BY <1>2, <1>5, SpenderParts DEF Verdict, GivesUp, SpendCounted, Rests
  <1>6. ASSUME NEW p \in Spenders, BeginCall(p)
        PROVE  (CountedKnows /\ MonthWithinLimit)'
    <2> DEFINE d == Holding("asking", month, {}, 0)
    <2>1. d \in Spender /\ d.pc = "asking"
      BY SpenderParts DEF QuotasTypeOK
    <2>2. spender' = [spender EXCEPT ![p] = d] /\ UNCHANGED <<calls, aiLimit>>
      BY <1>6 DEF BeginCall
    <2> HIDE DEF d
    <2> QED
      BY <1>2, <2>1, <2>2
  <1>7. ASSUME NEW p \in Spenders, NEW B \in Takes, CountSpent(p, B)
        PROVE  (CountedKnows /\ MonthWithinLimit)'
    <2> DEFINE n == Left(B)
               d == Holding("spending", 1, B, n)
    <2>1. n \in Nat
      BY <1>7, LeftFits DEF CountSpent
    <2>2. 1 \in Months /\ B \in SUBSET Budgets
      BY QuotasAssumption DEF QuotasAssumption, Months, Takes, Budgets
    <2>3. spender' = [spender EXCEPT ![p] = d] /\ UNCHANGED <<calls, aiLimit>>
      BY <1>7 DEF CountSpent
    <2> HIDE DEF n
    <2>4. d \in Spender /\ d.pc = "spending"
      BY <2>1, <2>2, SpenderParts
    <2> HIDE DEF d
    <2> QED
      BY <1>2, <2>3, <2>4
  <1>8. ASSUME NEW n \in AiLimits, SetAiLimit(n)
        PROVE  (CountedKnows /\ MonthWithinLimit)'
    BY <1>8 DEF SetAiLimit, TenantFree, CountedKnows, MonthWithinLimit, CallsIn
  <1>9. ASSUME \/ UNCHANGED quotasVars \/ MonthTurns
               \/ \E b \in Budgets : GiveBack(b)
        PROVE  (CountedKnows /\ MonthWithinLimit)'
    BY <1>1, <1>9 DEF quotasVars, MonthTurns, GiveBack
  <1>10. ASSUME Restart
         PROVE  (CountedKnows /\ MonthWithinLimit)'
    BY <1>1, <1>10, SpenderParts DEF Restart
  <1> QED
    BY <1>3, <1>4, <1>5, <1>6, <1>7, <1>8, <1>9, <1>10 DEF QuotasNext

-----------------------------------------------------------------------------
(* The open budgets *)

LEMMA InHandFinite ==
  ASSUME NEW b
  PROVE  /\ IsFiniteSet(InHand(b)) /\ Cardinality(InHand(b)) \in Nat
         /\ InHand(b) \subseteq Spenders
         /\ IsFiniteSet(InHand(b)') /\ Cardinality(InHand(b)') \in Nat
         /\ InHand(b)' \subseteq Spenders
  <1>1. IsFiniteSet(Spenders)
    BY QuotasAssumption DEF QuotasAssumption
  <1>2. InHand(b) \subseteq Spenders /\ InHand(b)' \subseteq Spenders
    BY DEF InHand
  <1> QED
    BY <1>1, <1>2, FS_Subset, FS_CardinalityType

LEMMA BudgetNumbers ==
  ASSUME QuotasTypeOK, NEW b \in Budgets
  PROVE  /\ Most[b] \in Nat /\ Limits[b] \in Nat /\ spent[b] \in Nat
         /\ Furthest(b) \in Int /\ Cardinality(Spenders) \in Nat /\ Cardinality(Spenders) >= 1
         /\ \A p \in Spenders : spender[p].allowance \in Nat
  <1>1. Most[b] \in Nat /\ Limits[b] \in Nat /\ spent[b] \in Nat
    BY QuotasAssumption DEF QuotasAssumption, QuotasTypeOK
  <1>2. Cardinality(Spenders) \in Nat /\ Cardinality(Spenders) >= 1
    <2>1. IsFiniteSet(Spenders) /\ Spenders # {}
      BY QuotasAssumption DEF QuotasAssumption
    <2>2. Cardinality(Spenders) \in Nat /\ Cardinality(Spenders) # 0
      BY <2>1, FS_CardinalityType, FS_EmptySet
    <2> QED
      BY <2>2
  <1>3. Furthest(b) \in Int
    <2> DEFINE k == Cardinality(Spenders) - 1
    <2>1. k \in Int
      BY <1>2
    <2> HIDE DEF k
    <2>2. k * Most[b] \in Int
      BY <1>1, <2>1, Product
    <2> QED
      BY <1>1, <2>2 DEF Furthest, k
  <1>4. \A p \in Spenders : spender[p].allowance \in Nat
    BY SpenderParts DEF QuotasTypeOK
  <1> QED
    BY <1>1, <1>2, <1>3, <1>4

\* Nobody new has counted, nobody changed who still may spend, and what is
\* spent more, somebody who has spent had in hand.
LEMMA RoomKept ==
  ASSUME QuotasTypeOK, NEW b \in Budgets, RoomFor(b), spent'[b] \in Nat,
         InHand(b)' \subseteq InHand(b),
         \A q \in InHand(b)' : spender'[q] = spender[q],
         \/ spent'[b] <= spent[b]
         \/ \E p \in InHand(b) \ InHand(b)' :
              spent'[b] <= spent[b] + spender[p].allowance /\ spender[p].allowance <= Most[b]
  PROVE  RoomFor(b)'
  <1> DEFINE k == Cardinality(InHand(b))
             j == Cardinality(InHand(b)')
             m == Most[b]
             f == Furthest(b)
  <1>a. k \in Nat /\ j \in Nat /\ m \in Nat /\ spent[b] \in Nat /\ f \in Int /\ spent'[b] \in Nat
    BY InHandFinite, BudgetNumbers
  <1>b. j <= k
    BY InHandFinite, FS_Subset
  <1>c. ASSUME NEW p \in InHand(b) \ InHand(b)'
        PROVE  j + 1 <= k
    <2>1. InHand(b)' \subseteq InHand(b) \ {p}
      OBVIOUS
    <2>2. Cardinality(InHand(b) \ {p}) = k - 1 /\ IsFiniteSet(InHand(b) \ {p})
      BY <1>c, InHandFinite, FS_RemoveElement
    <2>3. j <= k - 1
      BY <2>1, <2>2, FS_Subset
    <2> QED
      BY <1>a, <2>3
  <1>d. f' = f
    BY DEF Furthest
  <1>e. /\ j * m \in Int /\ k * m \in Int /\ (j - 1) * m = j * m - m /\ (k - 1) * m = k * m - m
        /\ j * m <= k * m
        /\ j + 1 <= k => j * m + m <= k * m
    <2>1. j + 1 \in Int /\ j \in Int /\ k \in Int
      BY <1>a
    <2> HIDE DEF j, k, m
    <2>2. (j + 1) * m = j * m + m
      BY <1>a, <2>1, Product
    <2> QED
      BY <1>a, <1>b, <2>1, <2>2, Product
  <1>f. \A p \in InHand(b) : spender[p].allowance \in Nat
    BY InHandFinite, BudgetNumbers
  <1>g. RoomFor(b)' <=> \/ spent'[b] + j * m <= f
                        \/ \E p \in InHand(b)' :
                             spent'[b] + spender'[p].allowance + (j - 1) * m <= f
    BY <1>d DEF RoomFor
  <1>h. \/ spent[b] + k * m <= f
        \/ \E p \in InHand(b) : spent[b] + spender[p].allowance + (k - 1) * m <= f
    BY DEF RoomFor
  <1> HIDE DEF k, j, m, f
  <1>1. CASE spent[b] + k * m <= f
    <2>1. CASE spent'[b] <= spent[b]
      BY <1>1, <1>a, <1>e, <1>g, <2>1
    <2>2. CASE \E p \in InHand(b) \ InHand(b)' :
                 spent'[b] <= spent[b] + spender[p].allowance /\ spender[p].allowance <= m
      <3>1. PICK p \in InHand(b) \ InHand(b)' :
              spent'[b] <= spent[b] + spender[p].allowance /\ spender[p].allowance <= m
        BY <2>2
      <3>2. j * m + m <= k * m
        BY <1>c, <1>e
      <3> QED
        BY <1>1, <1>a, <1>e, <1>f, <1>g, <3>1, <3>2
    <2> QED
      BY <2>1, <2>2 DEF m
  <1>2. ASSUME NEW p \in InHand(b), spent[b] + spender[p].allowance + (k - 1) * m <= f
        PROVE  RoomFor(b)'
    <2>1. CASE p \in InHand(b)'
      <3>1. spender'[p].allowance = spender[p].allowance
        BY <2>1
      <3>2. CASE spent'[b] <= spent[b]
        <4>1. spent'[b] + spender'[p].allowance + (j - 1) * m <= f
          BY <1>2, <1>a, <1>e, <1>f, <3>1, <3>2
        <4> QED
          BY <1>g, <2>1, <4>1
      <3>3. CASE \E q \in InHand(b) \ InHand(b)' :
                   spent'[b] <= spent[b] + spender[q].allowance /\ spender[q].allowance <= m
        <4>1. PICK q \in InHand(b) \ InHand(b)' :
                spent'[b] <= spent[b] + spender[q].allowance /\ spender[q].allowance <= m
          BY <3>3
        <4>2. j * m + m <= k * m
          BY <1>c, <1>e
        <4>3. spent'[b] + spender'[p].allowance + (j - 1) * m <= f
          BY <1>2, <1>a, <1>e, <1>f, <3>1, <4>1, <4>2
        <4> QED
          BY <1>g, <2>1, <4>3
      <3> QED
        BY <3>2, <3>3 DEF m
    <2>2. CASE p \notin InHand(b)'
      <3>1. j * m + m <= k * m
        BY <1>c, <1>e, <2>2
      <3>2. CASE spent'[b] <= spent[b] + spender[p].allowance
        BY <1>2, <1>a, <1>e, <1>f, <1>g, <3>1, <3>2
      <3>3. CASE \E q \in InHand(b) \ InHand(b)' :
                   spent'[b] <= spent[b] + spender[q].allowance /\ spender[q].allowance <= m
        <4>1. PICK q \in InHand(b) \ InHand(b)' :
                spent'[b] <= spent[b] + spender[q].allowance /\ spender[q].allowance <= m
          BY <3>3
        <4>2. CASE q = p
          BY <3>2, <4>1, <4>2
        <4>3. CASE q # p
          <5>1. j + 2 <= k
            <6>1. InHand(b)' \subseteq (InHand(b) \ {p}) \ {q}
              BY <2>2
            <6>2. Cardinality(InHand(b) \ {p}) = k - 1 /\ IsFiniteSet(InHand(b) \ {p})
              BY <1>2, InHandFinite, FS_RemoveElement DEF k
            <6>3. /\ Cardinality((InHand(b) \ {p}) \ {q}) = k - 1 - 1
                  /\ IsFiniteSet((InHand(b) \ {p}) \ {q})
              BY <4>3, <6>2, FS_RemoveElement
            <6>4. j <= k - 1 - 1
              BY <6>1, <6>3, FS_Subset DEF j
            <6> QED
              BY <1>a, <6>4
          <5>2. j * m + m + m <= k * m
            <6>1. (j + 1) * m = j * m + m /\ ((j + 1) + 1) * m = (j + 1) * m + m
              BY <1>a, Product
            <6>2. (j + 1) + 1 \in Int /\ (j + 1) + 1 <= k /\ k \in Int
              BY <1>a, <5>1
            <6>3. ((j + 1) + 1) * m <= k * m
              BY <1>a, <6>2, Product
            <6> QED
              BY <6>1, <6>3
          <5> QED
            BY <1>2, <1>a, <1>e, <1>f, <1>g, <4>1, <5>2
        <4> QED
          BY <4>2, <4>3
      <3>4. CASE spent'[b] <= spent[b]
        BY <1>a, <1>f, <3>2, <3>4
      <3> QED
        BY <3>3, <3>4 DEF m
    <2> QED
      BY <2>1, <2>2
  <1> QED
    BY <1>h, <1>1, <1>2

LEMMA RoomStep ==
  ASSUME QuotasTypeOK, QuotasTypeOK', Allowed, [QuotasNext]_quotasVars,
         NEW b \in Budgets, RoomFor(b)
  PROVE  RoomFor(b)'
  <1>a. /\ spender \in [Spenders -> Spender] /\ spent' \in [Budgets -> Nat] /\ spent \in [Budgets -> Nat]
        /\ spent'[b] \in Nat /\ spent[b] \in Nat
    BY DEF QuotasTypeOK
  <1>b. \A n \in Nat : n <= n
    OBVIOUS
  \* Nothing is spent, and nobody new is about to spend.
  <1>1. ASSUME spent'[b] <= spent[b],
               \A q \in Spenders : spender'[q].pc = "spending" => spender'[q] = spender[q]
        PROVE  RoomFor(b)'
    <2>1. InHand(b)' \subseteq InHand(b) /\ \A q \in InHand(b)' : spender'[q] = spender[q]
      BY <1>1 DEF InHand
    <2> QED
      BY <1>1, <1>a, <2>1, RoomKept
  <1>2. ASSUME NEW p \in Spenders, NEW d \in Spender, spender' = [spender EXCEPT ![p] = d],
               d.pc # "spending", spent' = spent
        PROVE  RoomFor(b)'
    BY <1>1, <1>2, <1>a, <1>b, SpenderChanges
  <1>3. ASSUME NEW p \in Spenders, BeginCall(p)
        PROVE  RoomFor(b)'
    <2> DEFINE d == Holding("asking", month, {}, 0)
    <2>1. d \in Spender /\ d.pc = "asking"
      BY SpenderParts DEF QuotasTypeOK
    <2>2. spender' = [spender EXCEPT ![p] = d] /\ spent' = spent
      BY <1>3 DEF BeginCall
    <2> HIDE DEF d
    <2> QED
      BY <1>2, <2>1, <2>2
  <1>4. ASSUME NEW p \in Spenders, CountCalls(p) \/ ReserveCall(p) \/ Verdict(p) \/ GivesUp(p)
        PROVE  RoomFor(b)'
    <2>1. /\ spent' = spent
          /\ Goes(p, "counted") \/ Goes(p, "calling") \/ Rests(p)
      BY <1>4 DEF CountCalls, ReserveCall, Verdict, GivesUp
    <2>2. PICK d \in Spender : d.pc # "spending" /\ spender' = [spender EXCEPT ![p] = d]
      BY <1>a, <2>1, SpenderParts DEF Goes, Rests
    <2> QED
      BY <1>2, <2>1, <2>2
  <1>5. ASSUME NEW p \in Spenders, NEW B \in Takes, CountSpent(p, B)
        PROVE  RoomFor(b)'
    <2> DEFINE n == Left(B)
               d == Holding("spending", 1, B, n)
    <2>1. n \in Nat /\ \A x \in B : n <= Limits[x] - spent[x]
      BY <1>5, LeftFits DEF CountSpent
    <2>2. 1 \in Months /\ B \in SUBSET Budgets
      BY QuotasAssumption DEF QuotasAssumption, Months, Takes, Budgets
    <2>3. /\ spender' = [spender EXCEPT ![p] = d] /\ spent' = spent
          /\ spender[p].pc = "idle"
      BY <1>5 DEF CountSpent
    <2> HIDE DEF n
    <2>4. d \in Spender /\ d.pc = "spending" /\ d.takes = B /\ d.allowance = n
      BY <2>1, <2>2, SpenderParts
    <2> HIDE DEF d
    <2>5. /\ spender'[p] = d /\ p \notin InHand(b)
          /\ \A q \in Spenders \ {p} : spender'[q] = spender[q]
      BY <2>3, <2>4, SpenderChanges DEF InHand
    <2>6. CASE b \notin B
      <3>1. InHand(b)' \subseteq InHand(b) /\ \A q \in InHand(b)' : spender'[q] = spender[q]
        BY <2>4, <2>5, <2>6 DEF InHand
      <3>2. spent'[b] <= spent[b]
        BY <1>a, <1>b, <2>3
      <3> QED
        BY <1>a, <3>1, <3>2, RoomKept
    <2>7. CASE b \in B
      <3> DEFINE k == Cardinality(InHand(b))
                 s == Cardinality(Spenders)
                 m == Most[b]
      <3>1. InHand(b)' = InHand(b) \cup {p}
        BY <2>4, <2>5, <2>7 DEF InHand
      <3>2. Cardinality(InHand(b)') = k + 1
        BY <2>5, <3>1, InHandFinite, FS_AddElement
      <3>3. k <= s - 1
        <4>1. IsFiniteSet(Spenders) /\ InHand(b)' \subseteq Spenders
          BY InHandFinite, QuotasAssumption DEF QuotasAssumption
        <4>2. k + 1 <= s
          BY <3>2, <4>1, FS_Subset
        <4>3. k \in Nat /\ s \in Nat
          BY InHandFinite, BudgetNumbers
        <4> HIDE DEF k, s
        <4> QED
          BY <4>2, <4>3
      <3>4. /\ k \in Nat /\ s \in Nat /\ m \in Nat /\ spent[b] \in Nat /\ Limits[b] \in Nat
            /\ Furthest(b) = Limits[b] + (s - 1) * m
        BY InHandFinite, BudgetNumbers DEF Furthest
      <3>5. Furthest(b)' = Furthest(b)
        BY DEF Furthest
      <3> HIDE DEF k, s, m
      <3>6. k * m <= (s - 1) * m /\ k * m \in Int /\ (s - 1) * m \in Int
        <4>1. s - 1 \in Int /\ k \in Int
          BY <3>4
        <4> QED
          BY <3>3, <3>4, <4>1, Product
      <3>7. (k + 1) - 1 = k
        BY <3>4
      <3>8. spent'[b] + n + k * m <= Furthest(b)
        BY <2>1, <2>3, <2>7, <3>4, <3>6
      <3>9. p \in InHand(b)' /\ spender'[p].allowance = n
        BY <2>4, <2>5, <3>1
      <3> QED
        BY <3>2, <3>5, <3>7, <3>8, <3>9 DEF RoomFor, m
    <2> QED
      BY <2>6, <2>7
  <1>6. ASSUME NEW p \in Spenders, NEW n \in 1..spender[p].allowance, SpendCounted(p, n)
        PROVE  RoomFor(b)'
    <2>1. /\ spender' = [spender EXCEPT ![p] = Resting] /\ spender[p].pc = "spending"
          /\ spent'[b] = IF b \in spender[p].takes THEN spent[b] + n ELSE spent[b]
      BY <1>6 DEF SpendCounted, Rests
    <2>2. /\ spender'[p] = Resting /\ Resting.pc = "idle"
          /\ \A q \in Spenders \ {p} : spender'[q] = spender[q]
      BY <2>1, SpenderChanges, SpenderParts
    <2>3. /\ InHand(b)' \subseteq InHand(b) /\ p \notin InHand(b)'
          /\ \A q \in InHand(b)' : spender'[q] = spender[q]
      BY <2>2 DEF InHand
    <2>4. CASE b \in spender[p].takes
      <3>1. p \in InHand(b) /\ spender[p].allowance <= Most[b]
        BY <2>1, <2>4 DEF InHand, Allowed
      <3>2. spent'[b] <= spent[b] + spender[p].allowance
        <4>1. spender[p].allowance \in Nat
          BY <1>a, SpenderParts
        <4> QED
          BY <1>a, <2>1, <2>4, <4>1
      <3> QED
        BY <1>a, <2>3, <3>1, <3>2, RoomKept
    <2>5. CASE b \notin spender[p].takes
      <3>1. spent'[b] <= spent[b]
        BY <1>a, <1>b, <2>1, <2>5
      <3> QED
        BY <1>a, <2>3, <3>1, RoomKept
    <2> QED
      BY <2>4, <2>5
  <1>7. ASSUME \/ UNCHANGED quotasVars \/ MonthTurns
               \/ \E n \in AiLimits : SetAiLimit(n)
        PROVE  RoomFor(b)'
    <2>1. spent' = spent /\ spender' = spender
      BY <1>7 DEF quotasVars, MonthTurns, SetAiLimit
    <2> QED
      BY <1>1, <1>a, <1>b, <2>1
  <1>8. ASSUME NEW c \in Budgets, GiveBack(c)
        PROVE  RoomFor(b)'
    <2>1. spent'[b] <= spent[b] /\ spender' = spender
      BY <1>8, <1>a DEF GiveBack
    <2> QED
      BY <1>1, <2>1
  <1>9. ASSUME Restart
        PROVE  RoomFor(b)'
    <2>1. spent'[b] \in {0, spent[b]} /\ \A q \in Spenders : spender'[q] = Resting
      BY <1>9 DEF Restart
    <2>2. spent'[b] <= spent[b]
      BY <1>a, <2>1
    <2> QED
      BY <1>1, <2>1, <2>2, SpenderParts
  <1> QED
    BY <1>3, <1>4, <1>5, <1>6, <1>7, <1>8, <1>9 DEF QuotasNext

-----------------------------------------------------------------------------
(* Who has counted under the row lock of an organisation has counted every  *)
(* call; a budget is over its limit by less than its spenders may take.     *)
THEOREM QuotasInvariance == QuotasSpec => []QuotasInv
  <1>1. QuotasInit => QuotasInv
    <2> SUFFICES ASSUME QuotasInit PROVE QuotasInv
      OBVIOUS
    <2>1. QuotasTypeOK
      BY SpenderParts, FS_EmptySet, QuotasAssumption
         DEF QuotasInit, QuotasTypeOK, Months, QuotasAssumption
    <2>2. \A p \in Spenders : spender[p].pc = "idle"
      BY SpenderParts DEF QuotasInit
    <2>3. MonthWithinLimit
      <3>1. \A m \in Months : {c \in calls : c[1] = m} = {}
        BY DEF QuotasInit
      <3> QED
        BY <3>1, FS_EmptySet DEF MonthWithinLimit, CallsIn
    <2>4. ASSUME NEW b \in Budgets
          PROVE  RoomFor(b)
      <3> DEFINE k == Cardinality(Spenders) - 1
      <3>1. InHand(b) = {} /\ spent[b] = 0
        BY <2>2 DEF InHand, QuotasInit
      <3>2. Cardinality(InHand(b)) = 0
        BY <3>1, FS_EmptySet
      <3>3. /\ Most[b] \in Nat /\ Limits[b] \in Nat /\ k \in Int /\ k >= 0
            /\ Furthest(b) = Limits[b] + k * Most[b]
        BY <2>1, BudgetNumbers DEF Furthest
      <3> HIDE DEF k
      <3>4. k * Most[b] >= 0 /\ k * Most[b] \in Int
        BY <3>3, Product
      <3> QED
        BY <3>1, <3>2, <3>3, <3>4 DEF RoomFor
    <2> QED
      BY <2>1, <2>2, <2>3, <2>4 DEF QuotasInv, Allowed, CountedKnows
  <1>2. QuotasInv /\ [QuotasNext]_quotasVars => QuotasInv'
    BY QuotasTypes, MonthStep, RoomStep DEF QuotasInv
  <1> QED
    BY <1>1, <1>2, PTL DEF QuotasSpec

(* Every count, call and request keeps its type.                            *)
THEOREM QuotasTypeCorrect == QuotasSpec => []QuotasTypeOK
  BY QuotasInvariance, PTL DEF QuotasInv

(* Counting and reserving under one lock: no month goes over a limit, for   *)
(* any number of requests at once, though the month turns while one waits.  *)
THEOREM MonthWithinLimitHolds == QuotasSpec => []MonthWithinLimit
  BY QuotasInvariance, PTL DEF QuotasInv

(* Counting first and spending later goes over by what the other requests   *)
(* may take, and never further.                                             *)
THEOREM OvershootIsBoundedHolds == QuotasSpec => []OvershootIsBounded
  <1>1. QuotasInv => OvershootIsBounded
    <2> SUFFICES ASSUME QuotasInv, NEW b \in Budgets
                 PROVE  spent[b] <= Furthest(b)
      BY DEF OvershootIsBounded, Furthest
    <2> DEFINE k == Cardinality(InHand(b))
               m == Most[b]
    <2>1. k \in Nat /\ m \in Nat /\ spent[b] \in Nat /\ Furthest(b) \in Int
      BY InHandFinite, BudgetNumbers DEF QuotasInv
    <2>2. \A p \in InHand(b) : spender[p].allowance \in Nat /\ k >= 1
      <3>1. InHand(b) # {} => k # 0
        BY InHandFinite, FS_EmptySet
      <3>2. \A p \in InHand(b) : spender[p].allowance \in Nat
        BY InHandFinite, BudgetNumbers DEF QuotasInv
      <3> HIDE DEF k
      <3> QED
        BY <2>1, <3>1, <3>2
    <2>3. \/ spent[b] + k * m <= Furthest(b)
          \/ \E p \in InHand(b) : spent[b] + spender[p].allowance + (k - 1) * m <= Furthest(b)
      BY DEF QuotasInv, RoomFor
    <2> HIDE DEF k, m
    <2>4. /\ k * m >= 0 /\ k * m \in Int
          /\ k >= 1 => (k - 1) * m >= 0 /\ (k - 1) * m \in Int
      <3>1. k - 1 \in Int /\ (k >= 1 => k - 1 >= 0) /\ k \in Int
        BY <2>1
      <3> QED
        BY <2>1, <3>1, Product
    <2> QED
      BY <2>1, <2>2, <2>3, <2>4
  <1> QED
    BY <1>1, QuotasInvariance, PTL

=============================================================================
