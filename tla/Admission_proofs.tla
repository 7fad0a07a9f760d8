--------------------------- MODULE Admission_proofs ---------------------------
(***************************************************************************)
(* The safety of Admission for every number of answers, requests, seats,   *)
(* drafts and changes, checked by TLAPS.                                   *)
(*                                                                         *)
(* Two invariants.  Locking says what the row locks guard: one holder of   *)
(* the form's row, one submission per draft row, no trashed answer under a *)
(* correction.  Counting says that what a request has summed stays an upper*)
(* bound of what is taken until it commits: whoever could raise the sum    *)
(* needs the form's row, by its own lock or through a foreign key.         *)
(***************************************************************************)
EXTENDS Admission, FiniteSetTheorems, TLAPS

(* Counting: what Live and Taken become when answers change *)

LiveIn(R)   == {r \in Responses : R[r].state = "live"}
Occ(R, s)   == UNION {{r} \X (1..R[r].seats[s]) : r \in LiveIn(R)}
Sum(R, s)   == Cardinality(Occ(R, s))
Sat(R, r, s) == IF R[r].state = "live" THEN R[r].seats[s] ELSE 0

(* Both names of what counts: of the state now and after a step.           *)
LEMMA Present ==
  /\ Live = LiveIn(resp) /\ Live' = LiveIn(resp')
  /\ \A s : Taken(s) = Sum(resp, s) /\ Taken(s)' = Sum(resp', s)
BY DEF Live, LiveIn, Taken, Places, Sum, Occ

(* The live answers are finitely many.                                     *)
LEMMA LiveFinite ==
  ASSUME NEW R
  PROVE  IsFiniteSet(LiveIn(R)) /\ Cardinality(LiveIn(R)) \in Nat
BY FiniteAssumption, FS_Subset, FS_CardinalityType DEF LiveIn

(* Fewer answers are not more; one answer more is one more.                 *)
LEMMA LiveShrinks ==
  ASSUME NEW R, NEW Q, LiveIn(Q) \subseteq LiveIn(R)
  PROVE  Cardinality(LiveIn(Q)) <= Cardinality(LiveIn(R))
BY LiveFinite, FS_Subset

(* One answer more is at most one more.                                    *)
LEMMA LiveGrowsByOne ==
  ASSUME NEW R, NEW Q, NEW r, LiveIn(Q) \subseteq LiveIn(R) \cup {r}
  PROVE  Cardinality(LiveIn(Q)) <= Cardinality(LiveIn(R)) + 1
<1>1. IsFiniteSet(LiveIn(R) \cup {r})
  BY LiveFinite, FS_AddElement
<1>2. Cardinality(LiveIn(R) \cup {r}) <= Cardinality(LiveIn(R)) + 1
  <2> DEFINE S == LiveIn(R)
  <2>1. IsFiniteSet(S) /\ Cardinality(S) \in Nat
    BY LiveFinite
  <2> HIDE DEF S
  <2>2. Cardinality(S \cup {r}) = IF r \in S THEN Cardinality(S) ELSE Cardinality(S) + 1
    BY <2>1, FS_AddElement
  <2>3. Cardinality(S \cup {r}) <= Cardinality(S) + 1
    BY <2>1, <2>2
  <2> QED BY <2>3 DEF S
<1>3. Cardinality(LiveIn(Q)) <= Cardinality(LiveIn(R) \cup {r})
  BY <1>1, FS_Subset
<1>4. Cardinality(LiveIn(R) \cup {r}) \in Nat
  BY <1>1, FS_CardinalityType
<1> QED BY <1>2, <1>3, <1>4, LiveFinite

(* An answer takes as many places as its seats say.                        *)
LEMMA OneAnswersSeats ==
  ASSUME NEW r, NEW n \in Nat
  PROVE  IsFiniteSet({r} \X (1..n)) /\ Cardinality({r} \X (1..n)) = n
<1>1. IsFiniteSet({r}) /\ Cardinality({r}) = 1
  BY FS_Singleton
<1>2. IsFiniteSet(1..n) /\ Cardinality(1..n) = n
  BY FS_Interval
<1>3. /\ IsFiniteSet({r} \X (1..n))
      /\ Cardinality({r} \X (1..n)) = Cardinality({r}) * Cardinality(1..n)
  BY <1>1, <1>2, FS_Product
<1> QED BY <1>1, <1>2, <1>3

(* The places taken at a position are finitely many.                       *)
LEMMA OccFinite ==
  ASSUME NEW R \in [Responses -> Response], NEW s \in Positions
  PROVE  IsFiniteSet(Occ(R, s)) /\ Sum(R, s) \in Nat
<1>1. ASSUME NEW r \in LiveIn(R)
      PROVE  {r} \X (1..R[r].seats[s]) \subseteq Responses \X (1..MaxSeats)
  <2>1. r \in Responses /\ R[r].seats[s] \in 0..MaxSeats
    BY DEF LiveIn, Response, Asks
  <2>2. 1..R[r].seats[s] \subseteq 1..MaxSeats
    BY <2>1, NumbersAssumption
  <2> QED BY <2>1, <2>2
<1>2. Occ(R, s) \subseteq Responses \X (1..MaxSeats)
  BY <1>1 DEF Occ
<1>3. IsFiniteSet(Responses \X (1..MaxSeats))
  <2>1. IsFiniteSet(1..MaxSeats)
    BY FS_Interval, NumbersAssumption
  <2> QED BY <2>1, FS_Product, FiniteAssumption
<1>4. IsFiniteSet(Occ(R, s))
  BY <1>2, <1>3, FS_Subset
<1> QED BY <1>4, FS_CardinalityType DEF Sum

(* The sum without one answer's part is what the others hold.               *)
LEMMA SumSplits ==
  ASSUME NEW R \in [Responses -> Response], NEW s \in Positions, NEW r \in Responses
  PROVE  LET Others == UNION {{x} \X (1..R[x].seats[s]) : x \in LiveIn(R) \ {r}}
         IN  /\ Cardinality(Others) \in Nat
             /\ Sum(R, s) = Cardinality(Others) + Sat(R, r, s)
<1> DEFINE Others == UNION {{x} \X (1..R[x].seats[s]) : x \in LiveIn(R) \ {r}}
           Own == {r} \X (1..Sat(R, r, s))
<1>1. Sat(R, r, s) \in Nat
  BY NumbersAssumption DEF Sat, Response, Asks
<1>2. IsFiniteSet(Own) /\ Cardinality(Own) = Sat(R, r, s)
  BY <1>1, OneAnswersSeats
<1>3. Occ(R, s) = Others \cup Own
  <2>1. CASE R[r].state = "live"
    BY <2>1 DEF Occ, LiveIn, Sat
  <2>2. CASE R[r].state # "live"
    <3>1. Own = {}
      BY <2>2 DEF Sat
    <3>2. LiveIn(R) \ {r} = LiveIn(R)
      BY <2>2 DEF LiveIn
    <3> QED BY <3>1, <3>2 DEF Occ
  <2> QED BY <2>1, <2>2
<1>4. Others \cap Own = {}
  <2> SUFFICES ASSUME NEW x \in LiveIn(R) \ {r}, NEW e \in {x} \X (1..R[x].seats[s]),
                      e \in Own
               PROVE  FALSE
    OBVIOUS
  <2>1. e[1] = x /\ e[1] = r
    OBVIOUS
  <2> QED BY <2>1
<1>5. IsFiniteSet(Others)
  BY <1>3, OccFinite, FS_Subset
<1>6. Cardinality(Others) \in Nat
  BY <1>5, FS_CardinalityType
<1>7. Sum(R, s) = Cardinality(Others) + Cardinality(Own) - Cardinality({})
  BY <1>2, <1>3, <1>4, <1>5, FS_Union DEF Sum
<1>8. Cardinality({}) = 0
  BY FS_EmptySet
<1> QED BY <1>1, <1>2, <1>6, <1>7, <1>8

(* When one answer changes, the sum changes by its part.                    *)
LEMMA OneChanges ==
  ASSUME NEW R \in [Responses -> Response], NEW Q \in [Responses -> Response],
         NEW s \in Positions, NEW r \in Responses,
         \A x \in Responses \ {r} : Q[x] = R[x]
  PROVE  Sum(Q, s) + Sat(R, r, s) = Sum(R, s) + Sat(Q, r, s)
<1> DEFINE OthersOfR == UNION {{x} \X (1..R[x].seats[s]) : x \in LiveIn(R) \ {r}}
           OthersOfQ == UNION {{x} \X (1..Q[x].seats[s]) : x \in LiveIn(Q) \ {r}}
<1>1. OthersOfQ = OthersOfR
  BY DEF LiveIn
<1>2. Sat(R, r, s) \in Nat /\ Sat(Q, r, s) \in Nat
  BY NumbersAssumption DEF Sat, Response, Asks
<1>3. /\ Cardinality(OthersOfR) \in Nat
      /\ Sum(R, s) = Cardinality(OthersOfR) + Sat(R, r, s)
  BY SumSplits
<1>4. Sum(Q, s) = Cardinality(OthersOfQ) + Sat(Q, r, s)
  BY SumSplits
<1> HIDE DEF OthersOfR, OthersOfQ
<1> QED BY <1>1, <1>2, <1>3, <1>4

(* When live answers only lose seats, the sum does not grow.                *)
LEMMA SumShrinks ==
  ASSUME NEW R \in [Responses -> Response], NEW Q \in [Responses -> Response],
         NEW s \in Positions,
         \A r \in LiveIn(Q) : r \in LiveIn(R) /\ Q[r].seats[s] <= R[r].seats[s]
  PROVE  Sum(Q, s) <= Sum(R, s)
<1>1. ASSUME NEW r \in LiveIn(Q) PROVE 1..Q[r].seats[s] \subseteq 1..R[r].seats[s]
  BY NumbersAssumption DEF LiveIn, Response, Asks
<1>2. Occ(Q, s) \subseteq Occ(R, s)
  <2> SUFFICES ASSUME NEW r \in LiveIn(Q), NEW e \in {r} \X (1..Q[r].seats[s])
               PROVE  e \in Occ(R, s)
    BY DEF Occ
  <2>1. r \in LiveIn(R) /\ e \in {r} \X (1..R[r].seats[s])
    BY <1>1
  <2> QED BY <2>1 DEF Occ
<1> QED BY <1>2, OccFinite, FS_Subset DEF Sum

-----------------------------------------------------------------------------
(* Types *)

(* An answer's record with another state keeps its type.                   *)
LEMMA RestateType ==
  ASSUME NEW r \in Responses, resp \in [Responses -> Response],
         NEW st \in {"live", "trash", "gone"}
  PROVE  [resp[r] EXCEPT !.state = st] \in Response
BY DEF Response

(* A request at rest is a request.                                         *)
LEMMA IdleType == Idle \in Request
BY FreeAssumption, NumbersAssumption DEF Idle, Request, NoAsk, Asks, Bounds

(* The variables' types hold at the start.                                  *)
LEMMA InitTypeOK == Init => TypeOK
<1> SUFFICES ASSUME Init PROVE TypeOK
  OBVIOUS
<1>1. \A p \in Requests : WellFormed(p)
  BY DEF Init, WellFormed, Idle
<1>2. resp \in [Responses -> Response]
  BY NumbersAssumption DEF Init, Response, NoAsk, Asks
<1> QED
  BY <1>1, <1>2, IdleType, BoundsAssumption, NumbersAssumption DEF Init, TypeOK

(* A request that ends, or goes on to a step of its kind, keeps the types.  *)
LEMMA EndsTypeOK ==
  ASSUME TypeOK, NEW p \in Requests, Ends(p)
  PROVE  req' \in [Requests -> Request] /\ \A q \in Requests : WellFormed(q)'
<1>1. req' \in [Requests -> Request]
  BY IdleType DEF TypeOK, Ends
<1>2. ASSUME NEW q \in Requests PROVE WellFormed(q)'
  <2>1. CASE q = p
    BY <2>1 DEF Ends, WellFormed, Idle, TypeOK
  <2>2. CASE q # p
    BY <2>2 DEF Ends, WellFormed, TypeOK
  <2> QED BY <2>1, <2>2
<1> QED BY <1>1, <1>2

(* A request that goes on to a step of its kind keeps the types.           *)
LEMMA GoesTypeOK ==
  ASSUME TypeOK, NEW p \in Requests, NEW pc, Goes(p, pc),
         \/ pc \in {"summing", "deciding"}
         \/ pc = "counting" /\ req[p].kind # "edit"
         \/ pc \in {"drafting", "filing"} /\ req[p].kind = "submit"
         \/ pc \in {"updating", "writing"} /\ req[p].kind = "edit"
         \/ pc = "returning" /\ req[p].kind = "restore"
  PROVE  req' \in [Requests -> Request] /\ \A q \in Requests : WellFormed(q)'
<1>1. req' \in [Requests -> Request]
  <2>1. req[p] \in Request
    BY DEF TypeOK
  <2>2. [req[p] EXCEPT !.pc = pc] \in Request
    BY <2>1 DEF Request
  <2> QED BY <2>2 DEF TypeOK, Goes
<1>2. ASSUME NEW q \in Requests PROVE WellFormed(q)'
  <2>1. CASE q = p
    BY <2>1 DEF Goes, WellFormed, TypeOK, Request
  <2>2. CASE q # p
    BY <2>2 DEF Goes, WellFormed, TypeOK
  <2> QED BY <2>1, <2>2
<1> QED BY <1>1, <1>2

(* So does one that begins.                                                *)
LEMMA BeginsTypeOK ==
  ASSUME TypeOK, NEW p \in Requests, NEW start \in Request,
         req' = [req EXCEPT ![p] = start], start.pc = "begun",
         start.kind = "submit" \/ start.resp \in Responses
  PROVE  req' \in [Requests -> Request] /\ \A q \in Requests : WellFormed(q)'
<1>1. req' \in [Requests -> Request]
  BY DEF TypeOK
<1>2. ASSUME NEW q \in Requests PROVE WellFormed(q)'
  <2>1. CASE q = p
    BY <2>1 DEF WellFormed, TypeOK
  <2>2. CASE q # p
    BY <2>2 DEF WellFormed, TypeOK
  <2> QED BY <2>1, <2>2
<1> QED BY <1>1, <1>2

(* What a request may find when it begins.                                  *)
LEMMA StartTypes ==
  ASSUME TypeOK
  PROVE  /\ \A ask \in Asks, d \in Drafts \cup {Nobody} :
              [Idle EXCEPT !.pc = "begun", !.ask = ask, !.draft = d,
                           !.limit = limit, !.cap = cap] \in Request
         /\ \A ask \in Asks, r \in Responses :
              [Idle EXCEPT !.kind = "edit", !.pc = "begun", !.resp = r, !.ask = ask,
                           !.cap = cap] \in Request
         /\ \A r \in Responses :
              [Idle EXCEPT !.kind = "restore", !.pc = "begun", !.resp = r,
                           !.limit = limit, !.cap = cap] \in Request
<1>1. limit \in Bounds /\ cap \in [Positions -> Bounds]
  BY BoundsAssumption DEF TypeOK
<1>2. NoAsk \in Asks /\ NoAsk \in [Positions -> Nat] /\ Free \in Bounds
  BY NumbersAssumption DEF NoAsk, Asks, Bounds
<1> QED BY <1>1, <1>2 DEF Idle, Request

(* A sum of seats is a number.                                             *)
LEMMA TakenIsNumber ==
  ASSUME TypeOK, NEW s \in Positions PROVE Taken(s) \in Nat
BY Present, OccFinite DEF TypeOK

(* Every step keeps the types.                                              *)
LEMMA NextTypeOK == TypeOK /\ [Next]_vars => TypeOK'
<1> SUFFICES ASSUME TypeOK, [Next]_vars PROVE TypeOK'
  OBVIOUS
<1> DEFINE ReqOK == req \in [Requests -> Request] /\ \A q \in Requests : WellFormed(q)
<1> DEFINE RestOK == /\ form \in {"live", "trash", "gone"} /\ limit \in Limits
                     /\ cap \in [Positions -> Capacities]
                     /\ resp \in [Responses -> Response]
                     /\ draft \in [Drafts -> {"none", "open", "gone"}]
                     /\ changes \in 0..MaxChanges
<1>0. ReqOK /\ RestOK
  BY DEF TypeOK
<1>1. ASSUME UNCHANGED req PROVE ReqOK'
  BY <1>0, <1>1 DEF WellFormed
<1>2. SUFFICES ReqOK' /\ RestOK'
  BY DEF TypeOK
<1>3. CASE UNCHANGED vars
  BY <1>0, <1>1, <1>3 DEF vars
<1>4. ASSUME NEW p \in Requests, Begin(p) PROVE ReqOK' /\ RestOK'
  <2>1. ASSUME NEW ask \in Asks, NEW d \in Drafts \cup {Nobody}, BeginSubmit(p, ask, d)
        PROVE  ReqOK' /\ RestOK'
    <3> DEFINE start == [Idle EXCEPT !.pc = "begun", !.ask = ask, !.draft = d,
                                     !.limit = limit, !.cap = cap]
    <3>1. start \in Request /\ start.pc = "begun" /\ start.kind = "submit"
      BY StartTypes DEF Idle
    <3>2. req' = [req EXCEPT ![p] = start]
      BY <2>1 DEF BeginSubmit
    <3> HIDE DEF start
    <3> QED BY <3>1, <3>2, <2>1, <1>0, BeginsTypeOK DEF BeginSubmit
  <2>2. ASSUME NEW ask \in Asks, NEW r \in Responses, BeginEdit(p, r, ask)
        PROVE  ReqOK' /\ RestOK'
    <3> DEFINE start == [Idle EXCEPT !.kind = "edit", !.pc = "begun", !.resp = r,
                                     !.ask = ask, !.cap = cap]
    <3>1. start \in Request /\ start.pc = "begun" /\ start.resp \in Responses
      BY StartTypes DEF Idle
    <3>2. req' = [req EXCEPT ![p] = start]
      BY <2>2 DEF BeginEdit
    <3> HIDE DEF start
    <3> QED BY <3>1, <3>2, <2>2, <1>0, BeginsTypeOK DEF BeginEdit
  <2>3. ASSUME NEW r \in Responses, BeginRestore(p, r) PROVE ReqOK' /\ RestOK'
    <3> DEFINE start == [Idle EXCEPT !.kind = "restore", !.pc = "begun", !.resp = r,
                                     !.limit = limit, !.cap = cap]
    <3>1. start \in Request /\ start.pc = "begun" /\ start.resp \in Responses
      BY StartTypes DEF Idle
    <3>2. req' = [req EXCEPT ![p] = start]
      BY <2>3 DEF BeginRestore
    <3> HIDE DEF start
    <3> QED BY <3>1, <3>2, <2>3, <1>0, BeginsTypeOK DEF BeginRestore
  <2> QED BY <1>4, <2>1, <2>2, <2>3 DEF Begin
<1>5. ASSUME NEW p \in Requests, Step(p) PROVE ReqOK' /\ RestOK'
  <2> req[p] \in Request /\ WellFormed(p)
    BY <1>0
  <2>1. CASE SkipLock(p)
    BY <2>1, <1>0, GoesTypeOK DEF SkipLock, Decided, Request
  <2>2. CASE CountResponses(p)
    BY <2>2, <1>0, GoesTypeOK, EndsTypeOK DEF CountResponses
  <2>3. CASE SumSeats(p)
    <3> DEFINE start == [req[p] EXCEPT !.pc = "deciding",
                                       !.taken = [s \in Positions |-> Taken(s)]]
    <3>1. start \in Request /\ start.pc = "deciding" /\ start.kind = req[p].kind
             /\ start.resp = req[p].resp
      BY TakenIsNumber DEF Request
    <3>2. req' = [req EXCEPT ![p] = start]
      BY <2>3 DEF SumSeats
    <3> HIDE DEF start
    <3>3. \A q \in Requests : WellFormed(q)'
      BY <3>1, <3>2, <1>0 DEF WellFormed
    <3> QED BY <3>1, <3>2, <3>3, <2>3, <1>0 DEF SumSeats
  <2>4. CASE DecideSeats(p)
    BY <2>4, <1>0, GoesTypeOK, EndsTypeOK DEF DecideSeats, Decided, Request
  <2>5. CASE ReturnAnswer(p)
    <3>1. ReqOK'
      BY <2>5, EndsTypeOK DEF ReturnAnswer
    <3>2. resp' \in [Responses -> Response]
      BY <2>5, <1>0, RestateType DEF ReturnAnswer, WellFormed
    <3> QED BY <3>1, <3>2, <2>5, <1>0 DEF ReturnAnswer
  <2> QED BY <1>5, <2>1, <2>2, <2>3, <2>4, <2>5 DEF Step
<1>6. ASSUME NEW p \in Requests, Queued(p) PROVE ReqOK' /\ RestOK'
  <2> req[p] \in Request /\ WellFormed(p)
    BY <1>0
  <2>1. CASE LockForm(p)
    BY <2>1, <1>0, GoesTypeOK, EndsTypeOK DEF LockForm
  <2>2. CASE LockDraft(p)
    BY <2>2, <1>0, GoesTypeOK, EndsTypeOK DEF LockDraft, WellFormed
  <2>3. ASSUME NEW r \in Responses, FileAnswer(p, r) PROVE ReqOK' /\ RestOK'
    <3>1. ReqOK'
      BY <2>3, EndsTypeOK DEF FileAnswer
    <3>2. [state |-> "live", seats |-> req[p].ask, from |-> req[p].draft] \in Response
      BY DEF Request, Response
    <3>3. resp' \in [Responses -> Response]
      BY <2>3, <1>0, <3>2 DEF FileAnswer
    <3>4. draft' \in [Drafts -> {"none", "open", "gone"}]
      BY <2>3, <1>0 DEF FileAnswer
    <3> QED BY <3>1, <3>3, <3>4, <2>3, <1>0 DEF FileAnswer
  <2>4. CASE UpdateAnswer(p)
    BY <2>4, <1>0, GoesTypeOK, EndsTypeOK DEF UpdateAnswer, WellFormed
  <2>5. CASE RewriteSeats(p)
    <3>1. ReqOK'
      BY <2>5, EndsTypeOK DEF RewriteSeats
    <3>2. req[p].resp \in Responses
      BY <2>5 DEF RewriteSeats, WellFormed
    <3>3. [resp[req[p].resp] EXCEPT !.seats = req[p].ask] \in Response
      BY <3>2, <1>0 DEF Request, Response
    <3>4. resp' \in [Responses -> Response]
      BY <2>5, <1>0, <3>2, <3>3 DEF RewriteSeats
    <3> QED BY <3>1, <3>4, <2>5, <1>0 DEF RewriteSeats
  <2> QED BY <1>6, <2>1, <2>2, <2>3, <2>4, <2>5 DEF Queued
<1>7. ASSUME NEW p \in Requests, Fail(p) \/ AbortVictim(p) PROVE ReqOK' /\ RestOK'
  BY <1>7, <1>0, EndsTypeOK DEF Fail, AbortVictim
<1>8. CASE EditorsAct
  <2>1. CASE \E n \in Limits : SaveLimit(n)
    BY <2>1, <1>0, <1>1, NumbersAssumption DEF SaveLimit
  <2>2. CASE \E c \in [Positions -> Capacities] : Publish(c)
    BY <2>2, <1>0, <1>1, NumbersAssumption DEF Publish
  <2>3. CASE TrashForm \/ RestoreForm
    BY <2>3, <1>0, <1>1 DEF TrashForm, RestoreForm
  <2>4. CASE PurgeForm
    <3>1. resp' \in [Responses -> Response]
      BY <2>4, <1>0, RestateType DEF PurgeForm
    <3>2. draft' \in [Drafts -> {"none", "open", "gone"}]
      BY <2>4, <1>0 DEF PurgeForm
    <3> QED BY <2>4, <3>1, <3>2, <1>0, <1>1 DEF PurgeForm
  <2>5. CASE \E S \in SUBSET Responses : TrashAnswers(S)
    <3>1. resp' \in [Responses -> Response]
      BY <2>5, <1>0, RestateType DEF TrashAnswers
    <3> QED BY <2>5, <3>1, <1>0, <1>1 DEF TrashAnswers
  <2>6. CASE \E r \in Responses : PurgeAnswer(r)
    <3>1. resp' \in [Responses -> Response]
      BY <2>6, <1>0, RestateType DEF PurgeAnswer
    <3> QED BY <2>6, <3>1, <1>0, <1>1 DEF PurgeAnswer
  <2>7. CASE \E d \in Drafts : SaveDraft(d) \/ DropDraft(d)
    BY <2>7, <1>0, <1>1 DEF SaveDraft, DropDraft
  <2> QED BY <1>8, <2>1, <2>2, <2>3, <2>4, <2>5, <2>6, <2>7 DEF EditorsAct
<1> QED BY <1>3, <1>4, <1>5, <1>6, <1>7, <1>8 DEF Next

(* The variables never leave their types, whatever interleaves.             *)
THEOREM TypeCorrect == Spec => []TypeOK
BY InitTypeOK, NextTypeOK, PTL DEF Spec

-----------------------------------------------------------------------------
(* Locking *)

\* FOR UPDATE on the form's row has one holder.
OneHolder == \A p, q \in Requests : HoldsForm(p) /\ HoldsForm(q) => p = q

\* Whoever counts holds it.
CountsLocked ==
  \A p \in Requests : req[p].pc \in {"counting", "summing", "deciding"} => NeedsLock(p)

\* A restore past its lock has its form before it.
FormHeld ==
  \A p \in Requests :
    req[p].kind = "restore" /\ req[p].pc \notin {"idle", "begun"} => form = "live"

\* A draft being filed is open, and its row has one holder.
DraftHeld ==
  \A p \in Requests, d \in Drafts :
    HoldsDraft(p, d) => /\ draft[d] = "open"
                        /\ \A q \in Requests : HoldsDraft(q, d) => p = q

\* An answer's draft is gone.
DraftSpent ==
  \A r \in Responses : resp[r].from # Nobody => draft[resp[r].from] = "gone"

\* An answer being rewritten is live.
RowHeld ==
  \A p \in Requests, r \in Responses : HoldsRow(p, r) => r \in Live

Locking == /\ TypeOK /\ OneHolder /\ CountsLocked /\ FormHeld
           /\ DraftHeld /\ DraftSpent /\ RowHeld /\ OneAnswerPerDraft

(* Nobody holds anything at the start.                                     *)
LEMMA InitLocking == Init => Locking
BY InitTypeOK, NobodyAssumption DEF Init, Idle, Locking, TypeOK, WellFormed,
         OneHolder, CountsLocked, FormHeld, DraftHeld, DraftSpent, RowHeld,
         OneAnswerPerDraft, HoldsForm, HoldsDraft, HoldsRow, NeedsLock, Bounded, Live

(* Ending a request that changed no draft and trashed nothing.              *)
LEMMA EndsLocking ==
  ASSUME Locking, NEW p \in Requests, Ends(p), UNCHANGED <<form, draft>>, TypeOK',
         \A r \in Responses : /\ resp'[r].from = resp[r].from
                              /\ resp[r].state = "live" => resp'[r].state = "live"
  PROVE  Locking'
BY NobodyAssumption
   DEF Ends, Idle, Locking, TypeOK, WellFormed, OneHolder, CountsLocked, FormHeld,
       DraftHeld, DraftSpent, RowHeld, OneAnswerPerDraft, HoldsForm, HoldsDraft,
       HoldsRow, NeedsLock, Bounded, Live

(* A request moves on, taking the form's lock or not; it takes no other.    *)
LEMMA MovesLocking ==
  ASSUME Locking, NEW p \in Requests, NEW pc,
         req[p].pc # "idle", pc \notin {"filing", "writing"},
         \A q \in Requests :
           /\ req'[q].pc = IF q = p THEN pc ELSE req[q].pc
           /\ req'[q].kind = req[q].kind /\ req'[q].resp = req[q].resp
           /\ req'[q].draft = req[q].draft /\ req'[q].ask = req[q].ask
           /\ req'[q].limit = req[q].limit /\ req'[q].cap = req[q].cap,
         UNCHANGED <<form, resp, draft>>, TypeOK',
         pc \in {"counting", "summing", "deciding"} => NeedsLock(p),
         req[p].pc = "begun" /\ NeedsLock(p) => FormFree(p) /\ FormStillThere(p)
  PROVE  Locking'
<1>1. ASSUME NEW q \in Requests PROVE NeedsLock(q)' <=> NeedsLock(q)
  BY DEF NeedsLock, Bounded
<1>2. ASSUME NEW q \in Requests, HoldsForm(q)'
      PROVE  \/ HoldsForm(q)
             \/ q = p /\ FormFree(p) /\ FormStillThere(p)
  <2>1. NeedsLock(q) /\ req'[q].pc \notin {"idle", "begun"}
    BY <1>1, <1>2 DEF HoldsForm
  <2>2. CASE q = p
    <3>1. CASE req[p].pc = "begun"
      BY <2>1, <2>2, <3>1
    <3>2. CASE req[p].pc # "begun"
      BY <2>1, <2>2, <3>2 DEF HoldsForm
    <3> QED BY <3>1, <3>2
  <2>3. CASE q # p
    BY <2>1, <2>3, <1>2 DEF HoldsForm
  <2> QED BY <2>2, <2>3
<1>3. OneHolder'
  BY <1>2 DEF Locking, OneHolder, FormFree
<1>4. CountsLocked'
  BY <1>1 DEF Locking, CountsLocked
<1>5. FormHeld'
  BY <1>2 DEF Locking, FormHeld, HoldsForm, FormStillThere, NeedsLock
<1>6. DraftHeld' /\ DraftSpent' /\ RowHeld' /\ OneAnswerPerDraft'
  BY DEF Locking, DraftHeld, DraftSpent, RowHeld, OneAnswerPerDraft, HoldsDraft,
         HoldsRow, Live
<1> QED BY <1>3, <1>4, <1>5, <1>6 DEF Locking

(* The same, for a step that changes nothing but where the request is.     *)
LEMMA GoesLocking ==
  ASSUME Locking, NEW p \in Requests, NEW pc, Goes(p, pc),
         req[p].pc # "idle", pc \notin {"filing", "writing"},
         UNCHANGED <<form, resp, draft>>, TypeOK',
         pc \in {"counting", "summing", "deciding"} => NeedsLock(p),
         req[p].pc = "begun" /\ NeedsLock(p) => FormFree(p) /\ FormStillThere(p)
  PROVE  Locking'
<1>1. \A q \in Requests :
        /\ req'[q].pc = IF q = p THEN pc ELSE req[q].pc
        /\ req'[q].kind = req[q].kind /\ req'[q].resp = req[q].resp
        /\ req'[q].draft = req[q].draft /\ req'[q].ask = req[q].ask
        /\ req'[q].limit = req[q].limit /\ req'[q].cap = req[q].cap
  BY DEF Locking, TypeOK, Request, Goes
<1> QED BY <1>1, MovesLocking

(* A request that begins holds nothing.                                    *)
LEMMA BeginsLocking ==
  ASSUME Locking, NEW p \in Requests, NEW start, start.pc = "begun",
         req' = [req EXCEPT ![p] = start], UNCHANGED <<form, resp, draft>>, TypeOK'
  PROVE  Locking'
BY NobodyAssumption DEF Locking, TypeOK, WellFormed, OneHolder, CountsLocked,
         FormHeld, DraftHeld, DraftSpent, RowHeld, OneAnswerPerDraft, HoldsForm,
         HoldsDraft, HoldsRow, NeedsLock, Bounded, Live

(* What nobody's request and no change of the form can disturb.             *)
LEMMA RequestsMayStay ==
  ASSUME Locking, UNCHANGED <<form, req>>
  PROVE  OneHolder' /\ CountsLocked' /\ FormHeld'
BY DEF Locking, OneHolder, CountsLocked, FormHeld, HoldsForm, NeedsLock, Bounded

(* The same where drafts stay too.                                         *)
LEMMA RequestsStay ==
  ASSUME Locking, UNCHANGED <<form, req, draft>>
  PROVE  OneHolder' /\ CountsLocked' /\ FormHeld' /\ DraftHeld'
BY RequestsMayStay DEF Locking, DraftHeld, HoldsDraft

(* Every step keeps the locks' invariant.                                   *)
LEMMA NextLocking == Locking /\ [Next]_vars => Locking'
<1> SUFFICES ASSUME Locking, [Next]_vars PROVE Locking'
  OBVIOUS
<1>0. TypeOK /\ TypeOK'
  BY NextTypeOK DEF Locking
<1>1. ASSUME UNCHANGED <<form, resp, draft, req>> PROVE Locking'
  BY <1>0, <1>1 DEF Locking, TypeOK, WellFormed, OneHolder, CountsLocked, FormHeld,
           DraftHeld, DraftSpent, RowHeld, OneAnswerPerDraft, HoldsForm, HoldsDraft,
           HoldsRow, NeedsLock, Bounded, Live
<1>2. CASE UNCHANGED vars
  BY <1>1, <1>2 DEF vars
<1>3. ASSUME NEW p \in Requests, Begin(p) PROVE Locking'
  BY <1>0, <1>3, BeginsLocking DEF Begin, BeginSubmit, BeginEdit, BeginRestore, Idle
<1>4. ASSUME NEW p \in Requests, SkipLock(p) PROVE Locking'
  BY <1>0, <1>4, GoesLocking DEF SkipLock, Decided, TypeOK, Request
<1>5. ASSUME NEW p \in Requests, CountResponses(p) PROVE Locking'
  BY <1>0, <1>5, GoesLocking, EndsLocking DEF CountResponses, Locking, CountsLocked
<1>6. ASSUME NEW p \in Requests, SumSeats(p) PROVE Locking'
  <2>1. \A q \in Requests :
          /\ req'[q].pc = IF q = p THEN "deciding" ELSE req[q].pc
          /\ req'[q].kind = req[q].kind /\ req'[q].resp = req[q].resp
          /\ req'[q].draft = req[q].draft /\ req'[q].ask = req[q].ask
          /\ req'[q].limit = req[q].limit /\ req'[q].cap = req[q].cap
    BY <1>0, <1>6 DEF TypeOK, Request, SumSeats
  <2>2. UNCHANGED <<form, resp, draft>> /\ req[p].pc = "summing" /\ NeedsLock(p)
    BY <1>6 DEF SumSeats, Locking, CountsLocked
  <2> QED BY <2>1, <2>2, <1>0, MovesLocking
<1>7. ASSUME NEW p \in Requests, DecideSeats(p) PROVE Locking'
  BY <1>0, <1>7, GoesLocking, EndsLocking DEF DecideSeats, Decided, TypeOK, Request
<1>8. ASSUME NEW p \in Requests, ReturnAnswer(p) PROVE Locking'
  <2>1. \A r \in Responses : /\ resp'[r].from = resp[r].from
                             /\ resp[r].state = "live" => resp'[r].state = "live"
    BY <1>0, <1>8 DEF ReturnAnswer, TypeOK, Response
  <2> QED BY <2>1, <1>0, <1>8, EndsLocking DEF ReturnAnswer
<1>9. ASSUME NEW p \in Requests, LockForm(p) PROVE Locking'
  BY <1>0, <1>9, GoesLocking, EndsLocking DEF LockForm
<1>10. ASSUME NEW p \in Requests, LockDraft(p) PROVE Locking'
  <2>1. CASE Ends(p)
    BY <2>1, <1>0, <1>10, EndsLocking DEF LockDraft
  <2>2. CASE Goes(p, "filing")
    <3>0. req'[p].pc = "filing" /\ req'[p] # Idle
      BY <2>2, <1>0 DEF Goes, Idle, TypeOK, Request
    <3>1. \A d \in Drafts : d = req[p].draft => draft[d] = "open" /\ DraftFree(p, d)
      BY <3>0, <1>0, <1>10, NobodyAssumption DEF LockDraft, Ends, TypeOK
    <3>2. req[p].pc = "drafting" /\ UNCHANGED <<form, resp, draft>>
      BY <1>10 DEF LockDraft
    <3> QED BY <2>2, <3>1, <3>2, <1>0 DEF Goes, DraftFree, Locking, TypeOK,
             WellFormed, OneHolder, CountsLocked, FormHeld, DraftHeld, DraftSpent,
             RowHeld, OneAnswerPerDraft, HoldsForm, HoldsDraft, HoldsRow, NeedsLock,
             Bounded, Live
  <2> QED BY <2>1, <2>2, <1>10 DEF LockDraft
<1>11. ASSUME NEW p \in Requests, NEW r \in Responses, FileAnswer(p, r) PROVE Locking'
  <2>1. CASE form = "gone"
    BY <2>1, <1>0, <1>11, EndsLocking DEF FileAnswer
  <2>2. CASE form # "gone"
    <3> DEFINE d == req[p].draft
    <3>1. /\ req[p].pc = "filing" /\ resp[r].state = "none" /\ d \in Drafts \cup {Nobody}
          /\ resp'[r].state = "live" /\ resp'[r].from = d
          /\ \A x \in Responses \ {r} : resp'[x] = resp[x]
          /\ \A e \in Drafts : draft'[e] = IF e = d THEN "gone" ELSE draft[e]
          /\ UNCHANGED form
      BY <2>2, <1>0, <1>11 DEF FileAnswer, Unused, TypeOK, Request, Response
    <3>2. \A q \in Requests : IF q = p THEN req'[q].pc = "idle"
                                       ELSE req'[q] = req[q]
      BY <1>0, <1>11 DEF FileAnswer, Ends, Idle, TypeOK
    <3>3. \A x \in Responses : resp[x].from = Nobody \/ resp[x].from \in Drafts
      BY <1>0 DEF TypeOK, Response
    <3>4. d \in Drafts => draft[d] = "open" /\ \A q \in Requests : HoldsDraft(q, d) => p = q
      BY <3>1 DEF Locking, DraftHeld, HoldsDraft
    <3> HIDE DEF d
    <3>5. DraftHeld'
      BY <3>1, <3>2, <3>4 DEF Locking, DraftHeld, HoldsDraft
    <3>6. DraftSpent'
      BY <3>1, <3>3, <3>4, NobodyAssumption DEF Locking, DraftSpent
    <3>7. OneAnswerPerDraft'
      BY <3>1, <3>3, <3>4, NobodyAssumption DEF Locking, DraftSpent, OneAnswerPerDraft
    <3>8. RowHeld'
      BY <3>1, <3>2 DEF Locking, RowHeld, HoldsRow, Live
    <3>9. OneHolder' /\ CountsLocked' /\ FormHeld'
      BY <3>1, <3>2 DEF Locking, OneHolder, CountsLocked, FormHeld, HoldsForm, NeedsLock,
                        Bounded
    <3> QED BY <3>5, <3>6, <3>7, <3>8, <3>9, <1>0 DEF Locking
  <2> QED BY <2>1, <2>2
<1>12. ASSUME NEW p \in Requests, UpdateAnswer(p) PROVE Locking'
  <2>1. CASE Ends(p)
    BY <2>1, <1>0, <1>12, EndsLocking DEF UpdateAnswer
  <2>2. CASE Goes(p, "writing") /\ AnswerStillLive(p)
    BY <2>2, <1>0, <1>12
       DEF UpdateAnswer, AnswerStillLive, Goes, Locking, TypeOK, WellFormed,
           OneHolder, CountsLocked, FormHeld, DraftHeld, DraftSpent, RowHeld,
           OneAnswerPerDraft, HoldsForm, HoldsDraft, HoldsRow, NeedsLock, Bounded,
           Live
  <2> QED BY <2>1, <2>2, <1>12 DEF UpdateAnswer
<1>13. ASSUME NEW p \in Requests, RewriteSeats(p) PROVE Locking'
  <2>1. \A r \in Responses : /\ resp'[r].from = resp[r].from
                             /\ resp[r].state = "live" => resp'[r].state = "live"
    BY <1>0, <1>13 DEF RewriteSeats, TypeOK, Response, WellFormed
  <2> QED BY <2>1, <1>0, <1>13, EndsLocking DEF RewriteSeats
<1>14. ASSUME NEW p \in Requests, Fail(p) \/ AbortVictim(p) PROVE Locking'
  BY <1>0, <1>14, EndsLocking DEF Fail, AbortVictim
<1>15. CASE EditorsAct
  <2>1. CASE (\E n \in Limits : SaveLimit(n)) \/ (\E c \in [Positions -> Capacities] : Publish(c))
    BY <2>1, <1>1 DEF SaveLimit, Publish
  <2>2. CASE TrashForm \/ RestoreForm
    BY <2>2, <1>0 DEF TrashForm, RestoreForm, NobodyServed, Locking, TypeOK, WellFormed,
             OneHolder, CountsLocked, FormHeld, DraftHeld, DraftSpent, RowHeld,
             OneAnswerPerDraft, HoldsForm, HoldsDraft, HoldsRow, NeedsLock, Bounded,
             Live
  <2>3. CASE PurgeForm
    BY <2>3, <1>0, NobodyAssumption DEF PurgeForm, NobodyServed, Response, Locking,
             TypeOK, WellFormed, OneHolder, CountsLocked, FormHeld, DraftHeld,
             DraftSpent, RowHeld, OneAnswerPerDraft, HoldsForm, HoldsDraft, HoldsRow,
             NeedsLock, Bounded, Live
  <2>4. ASSUME NEW S \in SUBSET Responses, TrashAnswers(S) PROVE Locking'
    <3>1. \A r \in Responses : /\ resp'[r].from = resp[r].from
                               /\ r \in Live' <=> r \in Live \ S
      BY <2>4, <1>0 DEF TrashAnswers, TypeOK, Response, Live
    <3>2. RowHeld'
      BY <3>1, <2>4 DEF TrashAnswers, Locking, RowHeld, HoldsRow
    <3>3. DraftSpent' /\ OneAnswerPerDraft'
      BY <3>1, <2>4 DEF TrashAnswers, Locking, DraftSpent, OneAnswerPerDraft
    <3> QED BY <3>2, <3>3, <2>4, <1>0, RequestsStay DEF TrashAnswers, Locking
  <2>5. ASSUME NEW r \in Responses, PurgeAnswer(r) PROVE Locking'
    <3>1. \A x \in Responses : /\ resp'[x].from = resp[x].from
                               /\ x \in Live => x \in Live'
      BY <2>5, <1>0 DEF PurgeAnswer, TypeOK, Response, Live
    <3>2. RowHeld' /\ DraftSpent' /\ OneAnswerPerDraft'
      BY <3>1, <2>5 DEF PurgeAnswer, Locking, RowHeld, HoldsRow, DraftSpent,
                        OneAnswerPerDraft
    <3> QED BY <3>2, <2>5, <1>0, RequestsStay DEF PurgeAnswer, Locking
  <2>6. ASSUME NEW d \in Drafts, SaveDraft(d) \/ DropDraft(d) PROVE Locking'
    <3>1. UNCHANGED <<form, resp, req>>
      BY <2>6 DEF SaveDraft, DropDraft
    <3>2. \A e \in Drafts : draft[e] = "gone" => draft'[e] = "gone"
      BY <2>6, <1>0 DEF SaveDraft, DropDraft, TypeOK
    <3>3. \A q \in Requests, e \in Drafts :
            HoldsDraft(q, e) /\ draft[e] = "open" => draft'[e] = "open"
      BY <2>6, <1>0 DEF SaveDraft, DropDraft, TypeOK
    <3>4. DraftHeld'
      BY <3>1, <3>3 DEF Locking, DraftHeld, HoldsDraft
    <3>5. DraftSpent' /\ OneAnswerPerDraft' /\ RowHeld'
      BY <3>1, <3>2, <1>0 DEF Locking, DraftSpent, OneAnswerPerDraft, RowHeld, HoldsRow,
                              Live, TypeOK, Response
    <3> QED BY <3>1, <3>4, <3>5, <1>0, RequestsMayStay DEF Locking
  <2> QED BY <1>15, <2>1, <2>2, <2>3, <2>4, <2>5, <2>6 DEF EditorsAct
<1> QED BY <1>2, <1>3, <1>4, <1>5, <1>6, <1>7, <1>8, <1>9, <1>10, <1>11, <1>12, <1>13,
           <1>14, <1>15 DEF Next, Step, Queued

(* The locks guard what they are taken for, in every interleaving.         *)
THEOREM LockingHolds == Spec => []Locking
BY InitLocking, NextLocking, PTL DEF Spec

(* However many requests submit it, a draft becomes one answer.             *)
THEOREM DraftFiledOnce == Spec => []OneAnswerPerDraft
<1>1. Locking => OneAnswerPerDraft
  BY DEF Locking
<1> QED BY <1>1, LockingHolds, PTL

(* Only a restore, which holds its form, brings an answer back.             *)
LEMMA StepReturns ==
  ASSUME Locking, [Next]_vars, NEW r \in Responses,
         resp[r].state = "trash", resp'[r].state = "live"
  PROVE  form = "live"
<1>0. resp \in [Responses -> Response] /\ \A p \in Requests : WellFormed(p)
  BY DEF Locking, TypeOK
<1>1. CASE \E p \in Requests : ReturnAnswer(p)
  BY <1>0, <1>1 DEF ReturnAnswer, Locking, FormHeld, WellFormed
<1>2. ASSUME NEW p \in Requests, NEW x \in Responses, FileAnswer(p, x) PROVE FALSE
  BY <1>0, <1>2 DEF FileAnswer, Unused
<1>3. ASSUME NEW p \in Requests, RewriteSeats(p) PROVE FALSE
  BY <1>0, <1>3 DEF RewriteSeats, WellFormed, Response
<1>4. CASE PurgeForm \/ (\E S \in SUBSET Responses : TrashAnswers(S))
           \/ (\E x \in Responses : PurgeAnswer(x))
  BY <1>0, <1>4 DEF PurgeForm, TrashAnswers, PurgeAnswer, Response
<1>5. CASE UNCHANGED resp
  BY <1>5
<1> QED BY <1>1, <1>2, <1>3, <1>4, <1>5
  DEF Next, Begin, Step, Queued, EditorsAct, vars, BeginSubmit, BeginEdit, BeginRestore,
      SkipLock, CountResponses, SumSeats, DecideSeats, LockForm, LockDraft,
      UpdateAnswer, Fail, AbortVictim, SaveLimit, Publish, TrashForm, RestoreForm,
      SaveDraft, DropDraft

(* An answer comes back from the trash only into a live form.               *)
THEOREM ReturnsToLiveFormHolds == Spec => ReturnsToLiveForm
<1>1. Locking /\ [Next]_vars
      => [\A r \in Responses :
            resp[r].state = "trash" /\ resp'[r].state = "live" => form = "live"]_vars
  BY StepReturns
<1> QED BY <1>1, LockingHolds, PTL DEF Spec, ReturnsToLiveForm

(* A correction that comes too late leaves the trash alone.                 *)
LEMMA StepLeavesTrash ==
  ASSUME Locking, [Next]_vars, NEW r \in Responses, resp[r].state = "trash"
  PROVE  resp'[r].seats = resp[r].seats
<1>0. resp \in [Responses -> Response] /\ \A p \in Requests : WellFormed(p)
  BY DEF Locking, TypeOK
<1>1. CASE \E p \in Requests : ReturnAnswer(p)
  BY <1>0, <1>1 DEF ReturnAnswer, WellFormed, Response
<1>2. CASE \E p \in Requests, x \in Responses : FileAnswer(p, x)
  BY <1>0, <1>2 DEF FileAnswer, Unused
<1>3. CASE \E p \in Requests : RewriteSeats(p)
  BY <1>0, <1>3 DEF RewriteSeats, WellFormed, Locking, RowHeld, HoldsRow, Live
<1>4. CASE PurgeForm \/ (\E S \in SUBSET Responses : TrashAnswers(S))
           \/ (\E x \in Responses : PurgeAnswer(x))
  BY <1>0, <1>4 DEF PurgeForm, TrashAnswers, PurgeAnswer, Response
<1>5. CASE UNCHANGED resp
  BY <1>5
<1> QED BY <1>1, <1>2, <1>3, <1>4, <1>5
  DEF Next, Begin, Step, Queued, EditorsAct, vars, BeginSubmit, BeginEdit, BeginRestore,
      SkipLock, CountResponses, SumSeats, DecideSeats, LockForm, LockDraft,
      UpdateAnswer, Fail, AbortVictim, SaveLimit, Publish, TrashForm, RestoreForm,
      SaveDraft, DropDraft

(* What lies in the trash keeps the seats it went there with.               *)
THEOREM TrashIsNotEditedHolds == Spec => TrashIsNotEdited
<1>1. Locking /\ [Next]_vars
      => [\A r \in Responses :
            resp[r].state = "trash" => resp'[r].seats = resp[r].seats]_vars
  BY StepLeavesTrash
<1> QED BY <1>1, LockingHolds, PTL DEF Spec, TrashIsNotEdited

-----------------------------------------------------------------------------
(* Counting: what a request has found stays true until it commits *)

RoomForAnswer(p) ==
  req[p].kind # "edit" /\ req[p].pc \notin {"idle", "begun", "counting"} =>
    Within(Cardinality(Live) + 1, req[p].limit)

Summed(p) ==
  req[p].pc = "deciding" => \A s \in Positions : Taken(s) <= req[p].taken[s]

RoomToFile(p) ==
  req[p].pc \in {"drafting", "filing"} =>
    \A s \in Positions :
      req[p].ask[s] > 0 => Within(Taken(s) + req[p].ask[s], req[p].cap[s])

RoomToReturn(p) ==
  req[p].pc = "returning" =>
    \A s \in Positions :
      resp[req[p].resp].seats[s] > 0 =>
        Within(Taken(s) + resp[req[p].resp].seats[s], req[p].cap[s])

RoomToRewrite(p) ==
  req[p].pc \in {"updating", "writing"} /\ req[p].resp \in Live =>
    \A s \in Positions :
      req[p].ask[s] > 0 =>
        \/ req[p].cap[s] = Free
        \/ /\ req[p].cap[s] \in Nat
           /\ Taken(s) + req[p].ask[s] <= req[p].cap[s] + resp[req[p].resp].seats[s]
        \/ Taken(s) + req[p].ask[s] <= req[p].taken[s] + resp[req[p].resp].seats[s]

Room(p) == /\ RoomForAnswer(p) /\ Summed(p)
           /\ RoomToFile(p) /\ RoomToReturn(p) /\ RoomToRewrite(p)

(* A request that needs no lock stands under no bound.                      *)
LEMMA Unbounded ==
  ASSUME TypeOK', CountsLocked', NEW p \in Requests, ~NeedsLock(p)'
  PROVE  Room(p)'
<1>1. req'[p] \in Request /\ WellFormed(p)'
  BY DEF TypeOK
<1>2. /\ req'[p].kind # "restore" /\ req'[p].limit = Free
      /\ \A s \in Positions : req'[p].ask[s] > 0 => req'[p].cap[s] = Free
  BY DEF NeedsLock, Bounded
<1> QED BY <1>1, <1>2 DEF Room, RoomForAnswer, Summed, RoomToFile, RoomToReturn,
                          RoomToRewrite, Within, CountsLocked, WellFormed

(* A step that adds no answer and gives none a seat.                        *)
NoGrowth ==
  /\ LiveIn(resp') \subseteq LiveIn(resp)
  /\ \A s \in Positions : Sum(resp', s) <= Sum(resp, s)
  /\ \A r \in Responses, s \in Positions : resp'[r].seats[s] <= resp[r].seats[s]
  /\ \A r \in LiveIn(resp'), s \in Positions :
       Sum(resp', s) + resp[r].seats[s] <= Sum(resp, s) + resp'[r].seats[s]

(* Sums, seats and counts are numbers.                                     *)
LEMMA Numbers ==
  ASSUME NEW R \in [Responses -> Response]
  PROVE  /\ \A s \in Positions : Sum(R, s) \in Nat
         /\ \A r \in Responses, s \in Positions : R[r].seats[s] \in Nat
         /\ Cardinality(LiveIn(R)) \in Nat
BY OccFinite, LiveFinite, NumbersAssumption DEF Response, Asks

(* Where no answer appears and no seats change, nothing grows.             *)
LEMMA SeatsStay ==
  ASSUME TypeOK, TypeOK', LiveIn(resp') \subseteq LiveIn(resp),
         \A r \in Responses : resp'[r].seats = resp[r].seats
  PROVE  NoGrowth
<1>1. resp \in [Responses -> Response] /\ resp' \in [Responses -> Response]
  BY DEF TypeOK
<1>2. \A r \in Responses, s \in Positions : resp'[r].seats[s] <= resp[r].seats[s]
  BY <1>1, Numbers
<1>3. \A s \in Positions : Sum(resp', s) <= Sum(resp, s)
  BY <1>1, <1>2, SumShrinks DEF LiveIn
<1>4. \A r \in Responses, s \in Positions :
        /\ Sum(resp, s) \in Nat /\ Sum(resp', s) \in Nat
        /\ resp[r].seats[s] \in Nat /\ resp'[r].seats[s] = resp[r].seats[s]
  BY <1>1, Numbers
<1>5. ASSUME NEW r \in LiveIn(resp'), NEW s \in Positions
      PROVE  Sum(resp', s) + resp[r].seats[s] <= Sum(resp, s) + resp'[r].seats[s]
  <2>1. r \in Responses
    BY DEF LiveIn
  <2> QED BY <2>1, <1>3, <1>4
<1> QED BY <1>2, <1>3, <1>5 DEF NoGrowth

(* A correction that asks for nothing only gives seats back.                *)
LEMMA GivesBack ==
  ASSUME Locking, TypeOK', NEW q \in Requests, RewriteSeats(q), ~Inserts(q)
  PROVE  NoGrowth
<1> DEFINE x == req[q].resp
<1>1. /\ resp \in [Responses -> Response] /\ resp' \in [Responses -> Response]
      /\ x \in Responses /\ x \in LiveIn(resp) /\ req[q].ask \in Asks
  BY DEF Locking, TypeOK, RewriteSeats, WellFormed, RowHeld, HoldsRow, Live, LiveIn, Request
<1>2. \A s \in Positions : req[q].ask[s] = 0
  BY <1>1, NumbersAssumption DEF Inserts, Asks
<1>3. /\ \A r \in Responses \ {x} : resp'[r] = resp[r]
      /\ resp'[x].seats = req[q].ask /\ resp'[x].state = resp[x].state
  BY <1>1 DEF RewriteSeats, Response
<1> HIDE DEF x
<1>4. LiveIn(resp') = LiveIn(resp)
  BY <1>1, <1>3 DEF LiveIn
<1>5. \A r \in Responses, s \in Positions : resp'[r].seats[s] <= resp[r].seats[s]
  BY <1>1, <1>2, <1>3, Numbers
<1>6. \A s \in Positions : Sum(resp', s) <= Sum(resp, s)
  BY <1>1, <1>4, <1>5, SumShrinks DEF LiveIn
<1>7. \A s \in Positions :
        Sum(resp', s) + Sat(resp, x, s) = Sum(resp, s) + Sat(resp', x, s)
  BY <1>1, <1>3, OneChanges
<1>8. ASSUME NEW r \in LiveIn(resp'), NEW s \in Positions
      PROVE  Sum(resp', s) + resp[r].seats[s] <= Sum(resp, s) + resp'[r].seats[s]
  <2>0. /\ r \in Responses /\ Sum(resp, s) \in Nat /\ Sum(resp', s) \in Nat
        /\ resp[r].seats[s] \in Nat /\ resp'[r].seats[s] \in Nat
    BY <1>1, Numbers DEF LiveIn
  <2>1. CASE r = x
    <3>1. Sat(resp, x, s) = resp[x].seats[s] /\ Sat(resp', x, s) = resp'[x].seats[s]
      BY <1>1, <1>3 DEF Sat, LiveIn
    <3> QED BY <2>0, <2>1, <3>1, <1>7
  <2>2. CASE r # x
    BY <2>0, <2>2, <1>3, <1>6
  <2> QED BY <2>1, <2>2
<1> QED BY <1>4, <1>5, <1>6, <1>8 DEF NoGrowth

(* While a request holds the form's row, nobody else adds an answer or seats*)
(* to one: an INSERT would wait for it, a correction without the lock only  *)
(* gives seats back.                                                        *)
LEMMA Quiet ==
  ASSUME Locking, TypeOK', [Next]_vars, NEW p \in Requests, HoldsForm(p), req'[p] = req[p]
  PROVE  NoGrowth
<1>0. /\ resp \in [Responses -> Response] /\ TypeOK
      /\ req \in [Requests -> Request] /\ req[p].pc # "idle"
      /\ \A q \in Requests : WellFormed(q)
  BY DEF Locking, TypeOK, HoldsForm
<1>1. ASSUME NEW q \in Requests, Ends(q) PROVE q # p
  BY <1>0, <1>1 DEF Ends, Idle
<1>2. ASSUME NEW q \in Requests, FormFree(q), Ends(q) PROVE FALSE
  BY <1>1, <1>2 DEF FormFree
<1>3. ASSUME NEW q \in Requests, NEW r \in Responses, FileAnswer(q, r) PROVE NoGrowth
  BY <1>2, <1>3 DEF FileAnswer
<1>4. ASSUME NEW q \in Requests, ReturnAnswer(q) PROVE NoGrowth
  <2>1. HoldsForm(q) /\ Ends(q)
    BY <1>0, <1>4 DEF ReturnAnswer, HoldsForm, NeedsLock, WellFormed
  <2> QED BY <2>1, <1>1 DEF Locking, OneHolder
<1>5. ASSUME NEW q \in Requests, RewriteSeats(q) PROVE NoGrowth
  BY <1>2, <1>5, GivesBack DEF RewriteSeats
<1>6. CASE PurgeForm \/ (\E S \in SUBSET Responses : TrashAnswers(S))
           \/ (\E x \in Responses : PurgeAnswer(x))
  <2>1. /\ LiveIn(resp') \subseteq LiveIn(resp)
        /\ \A r \in Responses : resp'[r].seats = resp[r].seats
    BY <1>0, <1>6 DEF PurgeForm, TrashAnswers, PurgeAnswer, Response, LiveIn
  <2> QED BY <2>1, <1>0, SeatsStay
<1>7. CASE UNCHANGED resp
  BY <1>0, <1>7, SeatsStay DEF LiveIn
<1> QED BY <1>3, <1>4, <1>5, <1>6, <1>7
  DEF Next, Begin, Step, Queued, EditorsAct, vars, BeginSubmit, BeginEdit, BeginRestore,
      SkipLock, CountResponses, SumSeats, DecideSeats, LockForm, LockDraft, UpdateAnswer,
      Fail, AbortVictim, SaveLimit, Publish, TrashForm, RestoreForm, SaveDraft, DropDraft

(* What is less is within the same bound.                                  *)
LEMMA WithinShrinks ==
  ASSUME NEW m \in Nat, NEW n \in Nat, m <= n, NEW bound \in Bounds, Within(n, bound)
  PROVE  Within(m, bound)
BY DEF Within, Bounds

(* No growth, no more answers.                                             *)
LEMMA CountShrinks ==
  ASSUME NoGrowth
  PROVE  Cardinality(LiveIn(resp')) <= Cardinality(LiveIn(resp))
BY LiveShrinks DEF NoGrowth

(* What a waiting request has found stays true.                             *)
LEMMA RoomStays ==
  ASSUME Locking, TypeOK', CountsLocked', [Next]_vars, NEW p \in Requests,
         req'[p] = req[p], Room(p)
  PROVE  Room(p)'
<1>0. /\ resp \in [Responses -> Response] /\ resp' \in [Responses -> Response]
      /\ req[p] \in Request /\ WellFormed(p)
  BY DEF Locking, TypeOK
<1>1. CASE req[p].pc \in {"idle", "begun"}
  BY <1>1 DEF Room, RoomForAnswer, Summed, RoomToFile, RoomToReturn, RoomToRewrite
<1>2. CASE ~NeedsLock(p)
  <2>1. ~NeedsLock(p)'
    BY <1>2 DEF NeedsLock, Bounded
  <2> QED BY <2>1, Unbounded
<1>3. CASE HoldsForm(p)
  <2>1. NoGrowth
    BY <1>3, Quiet
  <2>2. /\ Cardinality(LiveIn(resp')) <= Cardinality(LiveIn(resp))
        /\ Cardinality(LiveIn(resp')) \in Nat /\ Cardinality(LiveIn(resp)) \in Nat
    BY <2>1, CountShrinks, LiveFinite
  <2>3. /\ \A s \in Positions : /\ Sum(resp, s) \in Nat /\ Sum(resp', s) \in Nat
                                /\ Sum(resp', s) <= Sum(resp, s)
        /\ \A r \in Responses, s \in Positions :
             /\ resp[r].seats[s] \in Nat /\ resp'[r].seats[s] \in Nat
             /\ resp'[r].seats[s] <= resp[r].seats[s]
    BY <1>0, <2>1, Numbers DEF NoGrowth
  <2>4. /\ req[p].limit \in Bounds
        /\ \A s \in Positions : /\ req[p].cap[s] \in Bounds /\ req[p].ask[s] \in Nat
                                /\ req[p].taken[s] \in Nat
    BY <1>0, NumbersAssumption DEF Request, Asks
  <2>5. RoomForAnswer(p)'
    BY <2>2, <2>4, Present, WithinShrinks DEF Room, RoomForAnswer
  <2>6. Summed(p)'
    BY <2>3, <2>4, Present DEF Room, Summed
  <2>7. RoomToFile(p)'
    <3> SUFFICES ASSUME req[p].pc \in {"drafting", "filing"}, NEW s \in Positions,
                        req[p].ask[s] > 0
                 PROVE  Within(Sum(resp', s) + req[p].ask[s], req[p].cap[s])
      BY Present DEF RoomToFile
    <3>1. Within(Sum(resp, s) + req[p].ask[s], req[p].cap[s])
      BY Present DEF Room, RoomToFile
    <3>2. Sum(resp', s) + req[p].ask[s] <= Sum(resp, s) + req[p].ask[s]
      BY <2>3, <2>4
    <3> QED BY <2>3, <2>4, <3>1, <3>2, WithinShrinks
  <2>8. RoomToReturn(p)'
    <3> DEFINE r == req[p].resp
    <3> SUFFICES ASSUME req[p].pc = "returning", NEW s \in Positions,
                        resp'[r].seats[s] > 0
                 PROVE  Within(Sum(resp', s) + resp'[r].seats[s], req[p].cap[s])
      BY Present DEF RoomToReturn
    <3>1. r \in Responses
      BY <1>0 DEF WellFormed
    <3>2. resp[r].seats[s] > 0
      BY <2>3, <3>1
    <3>3. Within(Sum(resp, s) + resp[r].seats[s], req[p].cap[s])
      BY <3>2, Present DEF Room, RoomToReturn
    <3> HIDE DEF r
    <3>4. Sum(resp', s) + resp'[r].seats[s] <= Sum(resp, s) + resp[r].seats[s]
      BY <2>3, <3>1
    <3> QED BY <2>3, <2>4, <3>1, <3>3, <3>4, WithinShrinks
  <2>9. RoomToRewrite(p)'
    <3> DEFINE r == req[p].resp
    <3> SUFFICES ASSUME req[p].pc \in {"updating", "writing"}, r \in LiveIn(resp'),
                        NEW s \in Positions, req[p].ask[s] > 0, req[p].cap[s] # Free
                 PROVE  \/ /\ req[p].cap[s] \in Nat
                           /\ Sum(resp', s) + req[p].ask[s]
                                <= req[p].cap[s] + resp'[r].seats[s]
                        \/ Sum(resp', s) + req[p].ask[s]
                             <= req[p].taken[s] + resp'[r].seats[s]
      BY Present DEF RoomToRewrite
    <3>1. r \in LiveIn(resp) /\ r \in Responses
      BY <2>1 DEF NoGrowth, LiveIn
    <3>2. \/ /\ req[p].cap[s] \in Nat
             /\ Sum(resp, s) + req[p].ask[s] <= req[p].cap[s] + resp[r].seats[s]
          \/ Sum(resp, s) + req[p].ask[s] <= req[p].taken[s] + resp[r].seats[s]
      BY <3>1, Present DEF Room, RoomToRewrite
    <3>3. Sum(resp', s) + resp[r].seats[s] <= Sum(resp, s) + resp'[r].seats[s]
      BY <2>1 DEF NoGrowth
    <3> HIDE DEF r
    <3> QED BY <2>3, <2>4, <3>1, <3>2, <3>3
  <2> QED BY <2>5, <2>6, <2>7, <2>8, <2>9 DEF Room
<1> QED BY <1>1, <1>2, <1>3 DEF HoldsForm

(* A request that looks for room finds it, or ends.                         *)
LEMMA RoomFound ==
  ASSUME Locking, TypeOK', CountsLocked', NEW p \in Requests, Room(p),
         UNCHANGED resp,
         \/ SkipLock(p) \/ LockForm(p) \/ CountResponses(p) \/ SumSeats(p)
         \/ DecideSeats(p) \/ LockDraft(p) \/ UpdateAnswer(p)
  PROVE  Room(p)'
<1>0. /\ resp \in [Responses -> Response] /\ req \in [Requests -> Request]
      /\ req[p] \in Request /\ WellFormed(p)
  BY DEF Locking, TypeOK
<1>1. CASE Ends(p)
  BY <1>0, <1>1 DEF Ends, Idle, Room, RoomForAnswer, Summed, RoomToFile, RoomToReturn,
                    RoomToRewrite
<1>2. CASE SkipLock(p)
  <2>1. ~NeedsLock(p)'
    BY <1>0, <1>2 DEF SkipLock, Goes, NeedsLock, Bounded, Request
  <2> QED BY <2>1, Unbounded
<1>3. CASE LockForm(p) /\ ~Ends(p)
  BY <1>0, <1>3 DEF LockForm, Goes, Request, Room, RoomForAnswer, Summed, RoomToFile,
                    RoomToReturn, RoomToRewrite
<1>4. CASE CountResponses(p) /\ ~Ends(p)
  BY <1>0, <1>4 DEF CountResponses, Goes, Request, Room, RoomForAnswer, Summed, RoomToFile,
                    RoomToReturn, RoomToRewrite, FormFull, Live
<1>5. CASE SumSeats(p)
  <2>1. /\ req'[p].pc = "deciding" /\ req'[p].kind = req[p].kind
        /\ req'[p].limit = req[p].limit
        /\ \A s \in Positions : req'[p].taken[s] = Taken(s)
    BY <1>0, <1>5 DEF SumSeats, Request
  <2>2. req[p].pc = "summing"
    BY <1>5 DEF SumSeats
  <2>3. RoomForAnswer(p)'
    BY <2>1, <2>2, Present DEF Room, RoomForAnswer
  <2>4. Summed(p)'
    BY <1>0, <2>1, Present, Numbers DEF Summed
  <2> QED BY <2>1, <2>3, <2>4 DEF Room, RoomToFile, RoomToReturn, RoomToRewrite
<1>6. CASE DecideSeats(p) /\ ~Ends(p)
  <2>1. /\ req[p].pc = "deciding" /\ ~Exhausted(p)
        /\ req'[p] = [req[p] EXCEPT !.pc = Decided(p)]
    BY <1>0, <1>6 DEF DecideSeats, Goes
  <2>2. /\ req'[p].kind = req[p].kind /\ req'[p].pc = Decided(p)
        /\ req'[p].resp = req[p].resp /\ req'[p].ask = req[p].ask
        /\ req'[p].limit = req[p].limit /\ req'[p].cap = req[p].cap
        /\ req'[p].taken = req[p].taken
    BY <1>0, <2>1 DEF Request
  <2>3. req[p].kind \in {"submit", "edit", "restore"}
    BY <1>0 DEF Request
  <2>4. RoomForAnswer(p)' /\ Summed(p)'
    BY <2>1, <2>2, <2>3, Present DEF Room, RoomForAnswer, Summed, Decided
  <2>5. ASSUME NEW s \in Positions
        PROVE  /\ Sum(resp, s) \in Nat /\ req[p].ask[s] \in Nat
               /\ req[p].taken[s] \in Nat /\ req[p].cap[s] \in Bounds
               /\ Sum(resp, s) <= req[p].taken[s]
    BY <1>0, <2>1, Numbers, Present, NumbersAssumption DEF Request, Asks, Room, Summed
  <2>6. ASSUME NEW s \in Positions
        PROVE  \/ Asked(p, s) <= OwnSeats(p, s)
               \/ Within(req[p].taken[s] + Asked(p, s) - OwnSeats(p, s), req[p].cap[s])
    <3>1. Asked(p, s) \in Nat /\ OwnSeats(p, s) \in Nat
      BY <1>0, <2>3, <2>5, Numbers DEF Asked, OwnSeats, WellFormed
    <3> QED BY <2>1, <3>1 DEF Exhausted
  <2>7. RoomToFile(p)'
    <3> SUFFICES ASSUME req[p].kind = "submit", NEW s \in Positions, req[p].ask[s] > 0
                 PROVE  Within(Sum(resp, s) + req[p].ask[s], req[p].cap[s])
      BY <2>2, <2>3, Present DEF RoomToFile, Decided
    <3>1. Asked(p, s) = req[p].ask[s] /\ OwnSeats(p, s) = 0
      BY DEF Asked, OwnSeats
    <3>2. Within(req[p].taken[s] + req[p].ask[s], req[p].cap[s])
      BY <2>5, <2>6, <3>1
    <3>3. Sum(resp, s) + req[p].ask[s] <= req[p].taken[s] + req[p].ask[s]
      BY <2>5
    <3> QED BY <2>5, <3>2, <3>3, WithinShrinks
  <2>8. RoomToReturn(p)'
    <3> DEFINE r == req[p].resp
    <3> SUFFICES ASSUME req[p].kind = "restore", NEW s \in Positions,
                        resp[r].seats[s] > 0
                 PROVE  Within(Sum(resp, s) + resp[r].seats[s], req[p].cap[s])
      BY <2>2, <2>3, Present DEF RoomToReturn, Decided
    <3>1. Asked(p, s) = resp[r].seats[s] /\ OwnSeats(p, s) = 0
      BY DEF Asked, OwnSeats
    <3>2. resp[r].seats[s] \in Nat
      BY <1>0, Numbers DEF WellFormed
    <3> HIDE DEF r
    <3>3. Within(req[p].taken[s] + resp[r].seats[s], req[p].cap[s])
      BY <2>5, <2>6, <3>1, <3>2
    <3>4. Sum(resp, s) + resp[r].seats[s] <= req[p].taken[s] + resp[r].seats[s]
      BY <2>5, <3>2
    <3> QED BY <2>5, <3>2, <3>3, <3>4, WithinShrinks
  <2>9. RoomToRewrite(p)'
    <3> DEFINE r == req[p].resp
    <3> SUFFICES ASSUME req[p].kind = "edit", NEW s \in Positions,
                        req[p].cap[s] # Free
                 PROVE  \/ /\ req[p].cap[s] \in Nat
                           /\ Sum(resp, s) + req[p].ask[s]
                                <= req[p].cap[s] + resp[r].seats[s]
                        \/ Sum(resp, s) + req[p].ask[s]
                             <= req[p].taken[s] + resp[r].seats[s]
      BY <2>2, <2>3, Present DEF RoomToRewrite, Decided
    <3>1. Asked(p, s) = req[p].ask[s] /\ OwnSeats(p, s) = resp[r].seats[s]
      BY DEF Asked, OwnSeats
    <3>2. resp[r].seats[s] \in Nat
      BY <1>0, Numbers DEF WellFormed
    <3> HIDE DEF r
    <3>3. CASE req[p].ask[s] <= resp[r].seats[s]
      BY <2>5, <3>2, <3>3
    <3>4. CASE Within(req[p].taken[s] + req[p].ask[s] - resp[r].seats[s], req[p].cap[s])
      BY <2>5, <3>2, <3>4 DEF Within, Bounds
    <3> QED BY <2>6, <3>1, <3>3, <3>4
  <2> QED BY <2>4, <2>7, <2>8, <2>9 DEF Room
<1>7. CASE (LockDraft(p) \/ UpdateAnswer(p)) /\ ~Ends(p)
  <2>1. /\ \/ req[p].pc = "drafting" /\ req'[p].pc = "filing"
           \/ req[p].pc = "updating" /\ req'[p].pc = "writing"
        /\ req'[p].kind = req[p].kind
        /\ req'[p].resp = req[p].resp /\ req'[p].ask = req[p].ask
        /\ req'[p].limit = req[p].limit /\ req'[p].cap = req[p].cap
        /\ req'[p].taken = req[p].taken
    BY <1>0, <1>7 DEF LockDraft, UpdateAnswer, Goes, Request
  <2> QED BY <2>1, Present DEF Room, RoomForAnswer, Summed, RoomToFile, RoomToReturn,
                               RoomToRewrite
<1> QED BY <1>1, <1>2, <1>3, <1>4, <1>5, <1>6, <1>7

Acts(p) == Begin(p) \/ Step(p) \/ Queued(p) \/ Fail(p) \/ AbortVictim(p)

(* Only a request's own step changes it.                                   *)
LEMMA OnlyActsChange ==
  ASSUME TypeOK, [Next]_vars, NEW p \in Requests, req'[p] # req[p]
  PROVE  Acts(p)
<1>0. req \in [Requests -> Request]
  BY DEF TypeOK
<1>1. ASSUME NEW q \in Requests, q # p, Acts(q) PROVE FALSE
  <2>1. ASSUME NEW x, req' = [req EXCEPT ![q] = x] PROVE FALSE
    BY <1>0, <1>1, <2>1
  <2>2. ~Begin(q)
    BY <2>1 DEF Begin, BeginSubmit, BeginEdit, BeginRestore
  <2>3. ~Step(q)
    BY <1>0, <1>1, <2>1 DEF Step, SkipLock, CountResponses, SumSeats, DecideSeats,
                            ReturnAnswer, Goes, Ends
  <2>4. ~Queued(q)
    BY <1>0, <1>1, <2>1 DEF Queued, LockForm, LockDraft, FileAnswer, UpdateAnswer,
                            RewriteSeats, Goes, Ends
  <2> QED BY <1>1, <2>1, <2>2, <2>3, <2>4 DEF Acts, Fail, AbortVictim, Ends
<1>2. CASE EditorsAct \/ UNCHANGED vars
  BY <1>2 DEF EditorsAct, vars, SaveLimit, Publish, TrashForm, RestoreForm, PurgeForm,
              TrashAnswers, PurgeAnswer, SaveDraft, DropDraft
<1> QED BY <1>1, <1>2 DEF Next, Acts

(* What a request's own step may add, by what it has found.                 *)
Admitted(p) ==
  /\ \/ Cardinality(LiveIn(resp')) <= Cardinality(LiveIn(resp))
     \/ req[p].kind # "edit" /\ Within(Cardinality(LiveIn(resp')), req[p].limit)
  /\ \A s \in Positions : \/ Sum(resp', s) <= Sum(resp, s)
                          \/ Within(Sum(resp', s), req[p].cap[s])
                          \/ Sum(resp', s) <= req[p].taken[s]

(* The three commits: a new answer, a restored one, a rewritten one.        *)
LEMMA FilingAdmits ==
  ASSUME Locking, TypeOK', NEW p \in Requests, Room(p),
         NEW r \in Responses, FileAnswer(p, r)
  PROVE  Admitted(p)
<1>0. /\ resp \in [Responses -> Response] /\ resp' \in [Responses -> Response]
      /\ req[p] \in Request /\ WellFormed(p)
  BY DEF Locking, TypeOK
<1>1. CASE resp' = resp
  BY <1>0, <1>1, Numbers DEF Admitted
<1>2. CASE resp' # resp
  <2>1. /\ req[p].pc = "filing" /\ req[p].kind = "submit"
        /\ resp[r].state = "none" /\ resp'[r].state = "live"
        /\ resp'[r].seats = req[p].ask
        /\ \A x \in Responses \ {r} : resp'[x] = resp[x]
    BY <1>0, <1>2 DEF FileAnswer, Unused, WellFormed
  <2>2. Within(Cardinality(LiveIn(resp')), req[p].limit)
    <3>1. Cardinality(LiveIn(resp')) <= Cardinality(LiveIn(resp)) + 1
      <4>1. LiveIn(resp') \subseteq LiveIn(resp) \cup {r}
        BY <2>1 DEF LiveIn
      <4> QED BY <4>1, LiveGrowsByOne
    <3>2. Within(Cardinality(LiveIn(resp)) + 1, req[p].limit)
      BY <2>1, Present DEF Room, RoomForAnswer
    <3> QED BY <1>0, <3>1, <3>2, LiveFinite, WithinShrinks DEF Request
  <2>3. ASSUME NEW s \in Positions
        PROVE  Sum(resp', s) <= Sum(resp, s) \/ Within(Sum(resp', s), req[p].cap[s])
    <3>1. Sum(resp', s) + Sat(resp, r, s) = Sum(resp, s) + Sat(resp', r, s)
      BY <1>0, <2>1, OneChanges
    <3>2. Sat(resp, r, s) = 0 /\ Sat(resp', r, s) = req[p].ask[s]
      BY <2>1 DEF Sat
    <3>3. /\ req[p].ask[s] \in Nat /\ Sum(resp, s) \in Nat /\ Sum(resp', s) \in Nat
      BY <1>0, Numbers, NumbersAssumption DEF Request, Asks
    <3>4. Sum(resp', s) = Sum(resp, s) + req[p].ask[s]
      BY <3>1, <3>2, <3>3
    <3>5. req[p].ask[s] > 0 => Within(Sum(resp, s) + req[p].ask[s], req[p].cap[s])
      BY <2>1, Present DEF Room, RoomToFile
    <3> QED BY <3>3, <3>4, <3>5
  <2> QED BY <2>1, <2>2, <2>3 DEF Admitted
<1> QED BY <1>1, <1>2

(* A restored answer fits where its request found room.                    *)
LEMMA ReturnAdmits ==
  ASSUME Locking, TypeOK', NEW p \in Requests, Room(p), ReturnAnswer(p)
  PROVE  Admitted(p)
<1> DEFINE r == req[p].resp
<1>0. /\ resp \in [Responses -> Response] /\ resp' \in [Responses -> Response]
      /\ req[p] \in Request /\ req[p].pc = "returning" /\ req[p].kind = "restore"
      /\ r \in Responses
  BY DEF Locking, TypeOK, ReturnAnswer, WellFormed
<1>1. CASE resp[r].state # "trash"
  <2>1. resp' = resp
    BY <1>1 DEF ReturnAnswer
  <2> QED BY <1>0, <2>1, Numbers DEF Admitted
<1>2. CASE resp[r].state = "trash"
  <2>1. /\ resp'[r].state = "live" /\ resp'[r].seats = resp[r].seats
        /\ \A x \in Responses \ {r} : resp'[x] = resp[x]
    BY <1>0, <1>2 DEF ReturnAnswer, Response
  <2>2. Within(Cardinality(LiveIn(resp')), req[p].limit)
    <3>1. Cardinality(LiveIn(resp')) <= Cardinality(LiveIn(resp)) + 1
      <4>1. LiveIn(resp') \subseteq LiveIn(resp) \cup {r}
        BY <2>1 DEF LiveIn
      <4> QED BY <4>1, LiveGrowsByOne
    <3>2. Within(Cardinality(LiveIn(resp)) + 1, req[p].limit)
      BY <1>0, Present DEF Room, RoomForAnswer
    <3> QED BY <1>0, <3>1, <3>2, LiveFinite, WithinShrinks DEF Request
  <2>3. ASSUME NEW s \in Positions
        PROVE  Sum(resp', s) <= Sum(resp, s) \/ Within(Sum(resp', s), req[p].cap[s])
    <3> DEFINE n == resp[r].seats[s]
    <3>1. Sum(resp', s) + Sat(resp, r, s) = Sum(resp, s) + Sat(resp', r, s)
      BY <1>0, <2>1, OneChanges
    <3>2. Sat(resp, r, s) = 0 /\ Sat(resp', r, s) = n
      BY <1>2, <2>1 DEF Sat
    <3>3. n \in Nat /\ Sum(resp, s) \in Nat /\ Sum(resp', s) \in Nat
      BY <1>0, Numbers
    <3>4. n > 0 => Within(Sum(resp, s) + n, req[p].cap[s])
      BY <1>0, Present DEF Room, RoomToReturn
    <3> HIDE DEF n
    <3>5. Sum(resp', s) = Sum(resp, s) + n
      BY <3>1, <3>2, <3>3
    <3> QED BY <3>3, <3>4, <3>5
  <2> QED BY <1>0, <2>2, <2>3 DEF Admitted
<1> QED BY <1>1, <1>2

(* A rewritten answer fits, or asks for no more than it had.               *)
LEMMA RewriteAdmits ==
  ASSUME Locking, TypeOK', NEW p \in Requests, Room(p), RewriteSeats(p)
  PROVE  Admitted(p)
<1> DEFINE r == req[p].resp
<1>0. /\ resp \in [Responses -> Response] /\ resp' \in [Responses -> Response]
      /\ req[p] \in Request /\ req[p].pc = "writing"
      /\ r \in Responses /\ r \in LiveIn(resp)
  BY DEF Locking, TypeOK, RewriteSeats, WellFormed, RowHeld, HoldsRow, Live, LiveIn
<1>1. /\ resp'[r].seats = req[p].ask /\ resp'[r].state = resp[r].state
      /\ \A x \in Responses \ {r} : resp'[x] = resp[x]
  BY <1>0 DEF RewriteSeats, Response
<1>2. Cardinality(LiveIn(resp')) <= Cardinality(LiveIn(resp))
  BY <1>0, <1>1, LiveShrinks DEF LiveIn
<1>3. ASSUME NEW s \in Positions
      PROVE  \/ Sum(resp', s) <= Sum(resp, s) \/ Within(Sum(resp', s), req[p].cap[s])
             \/ Sum(resp', s) <= req[p].taken[s]
  <2> DEFINE n == resp[r].seats[s]
  <2>1. Sum(resp', s) + Sat(resp, r, s) = Sum(resp, s) + Sat(resp', r, s)
    BY <1>0, <1>1, OneChanges
  <2>2. Sat(resp, r, s) = n /\ Sat(resp', r, s) = req[p].ask[s]
    BY <1>0, <1>1 DEF Sat, LiveIn
  <2>3. /\ n \in Nat /\ Sum(resp, s) \in Nat /\ Sum(resp', s) \in Nat
        /\ req[p].ask[s] \in Nat /\ req[p].taken[s] \in Nat
        /\ req[p].cap[s] \in Nat \cup {Free}
    BY <1>0, Numbers, NumbersAssumption DEF Request, Asks, Bounds
  <2>4. req[p].ask[s] > 0 =>
          \/ req[p].cap[s] = Free
          \/ /\ req[p].cap[s] \in Nat
             /\ Sum(resp, s) + req[p].ask[s] <= req[p].cap[s] + n
          \/ Sum(resp, s) + req[p].ask[s] <= req[p].taken[s] + n
    BY <1>0, Present DEF Room, RoomToRewrite
  <2> HIDE DEF n
  <2> QED BY <2>1, <2>2, <2>3, <2>4 DEF Within
<1> QED BY <1>2, <1>3 DEF Admitted

(* Whatever a request does, it adds only what it found room for.           *)
LEMMA ActsAdmit ==
  ASSUME Locking, TypeOK', NEW p \in Requests, Room(p), Acts(p)
  PROVE  /\ Admitted(p)
         /\ req[p].pc = "idle" => UNCHANGED resp
         /\ UNCHANGED <<limit, cap, changes>>
<1>0. resp \in [Responses -> Response]
  BY DEF Locking, TypeOK
<1>1. CASE UNCHANGED <<resp, limit, cap, changes>>
  BY <1>0, <1>1, Numbers DEF Admitted
<1>2. CASE \E r \in Responses : FileAnswer(p, r)
  BY <1>2, FilingAdmits DEF FileAnswer
<1>3. CASE ReturnAnswer(p)
  BY <1>3, ReturnAdmits DEF ReturnAnswer
<1>4. CASE RewriteSeats(p)
  BY <1>4, RewriteAdmits DEF RewriteSeats
<1> QED BY <1>1, <1>2, <1>3, <1>4
  DEF Acts, Begin, Step, Queued, BeginSubmit, BeginEdit, BeginRestore, SkipLock,
      CountResponses, SumSeats, DecideSeats, LockForm, LockDraft, UpdateAnswer, Fail,
      AbortVictim

(* A request's own step leaves it the room it still needs.                  *)
LEMMA ActsKeepRoom ==
  ASSUME Locking, TypeOK', CountsLocked', NEW p \in Requests, Room(p), Acts(p)
  PROVE  Room(p)'
<1>0. req \in [Requests -> Request]
  BY DEF Locking, TypeOK
<1>1. CASE req'[p].pc \in {"idle", "begun"}
  BY <1>1 DEF Room, RoomForAnswer, Summed, RoomToFile, RoomToReturn, RoomToRewrite
<1>2. CASE Begin(p)
  <2>1. req'[p].pc = "begun"
    BY <1>0, <1>2 DEF Begin, BeginSubmit, BeginEdit, BeginRestore, Idle
  <2> QED BY <1>1, <2>1
<1>3. CASE Ends(p)
  <2>1. req'[p].pc = "idle"
    BY <1>0, <1>3 DEF Ends, Idle
  <2> QED BY <1>1, <2>1
<1> QED BY <1>2, <1>3, RoomFound
  DEF Acts, Step, Queued, SkipLock, LockForm, CountResponses, SumSeats, DecideSeats,
      LockDraft, UpdateAnswer, FileAnswer, ReturnAnswer, RewriteSeats, Fail, AbortVictim

\* Until a bound is changed, every request was judged by those in force.
JudgedByBounds(p) ==
  changes = 0 =>
    /\ req[p].pc # "idle" =>
         req[p].cap = cap /\ (req[p].kind # "edit" => req[p].limit = limit)
    /\ \A s \in Positions : Within(req[p].taken[s], cap[s])

Counting == /\ Locking
            /\ \A p \in Requests : Room(p) /\ JudgedByBounds(p)
            /\ WithinBounds

(* Nothing is taken at the start.                                          *)
LEMMA InitCounting == Init => Counting
<1> SUFFICES ASSUME Init PROVE Counting
  OBVIOUS
<1>1. Locking
  BY InitLocking
<1>2. /\ limit \in Bounds /\ cap \in [Positions -> Bounds]
      /\ resp \in [Responses -> Response]
  BY <1>1, BoundsAssumption DEF Locking, TypeOK
<1>3. ASSUME NEW p \in Requests PROVE Room(p) /\ JudgedByBounds(p)
  <2>1. req[p] = Idle
    BY DEF Init
  <2>2. \A s \in Positions : Within(0, cap[s])
    BY <1>2 DEF Within, Bounds
  <2> QED BY <2>1, <2>2 DEF Idle, NoAsk, JudgedByBounds, Room, RoomForAnswer, Summed,
                            RoomToFile, RoomToReturn, RoomToRewrite
<1>4. LiveIn(resp) = {}
  BY DEF Init, LiveIn
<1>5. Cardinality(LiveIn(resp)) = 0 /\ \A s \in Positions : Sum(resp, s) = 0
  BY <1>4, FS_EmptySet DEF Sum, Occ
<1>6. WithinBounds
  BY <1>2, <1>5, Present DEF WithinBounds, Within, Bounds
<1> QED BY <1>1, <1>3, <1>6 DEF Counting

(* No step takes away the room a request has found.                        *)
LEMMA NextRoom ==
  ASSUME Counting, Locking', [Next]_vars, NEW p \in Requests PROVE Room(p)'
<1>1. CASE req'[p] = req[p]
  BY <1>1, RoomStays DEF Counting, Locking
<1>2. CASE req'[p] # req[p]
  BY <1>2, OnlyActsChange, ActsKeepRoom DEF Counting, Locking
<1> QED BY <1>1, <1>2

(* Bounds change in steps of their own, and are counted.                    *)
LEMMA BoundsChange ==
  ASSUME TypeOK, [Next]_vars, changes' = 0
  PROVE  changes = 0 /\ UNCHANGED <<limit, cap>>
<1>0. changes \in Nat
  BY NumbersAssumption DEF TypeOK
<1>1. CASE \E n \in Limits : SaveLimit(n)
  BY <1>0, <1>1 DEF SaveLimit
<1>2. CASE \E c \in [Positions -> Capacities] : Publish(c)
  BY <1>0, <1>2 DEF Publish
<1>3. CASE UNCHANGED <<limit, cap, changes>>
  BY <1>3
<1> QED BY <1>1, <1>2, <1>3
  DEF Next, Begin, Step, Queued, EditorsAct, vars, BeginSubmit, BeginEdit, BeginRestore,
      SkipLock, CountResponses, SumSeats, DecideSeats, LockForm, LockDraft, UpdateAnswer,
      Fail, AbortVictim, TrashForm, RestoreForm, SaveDraft, DropDraft, FileAnswer,
      ReturnAnswer, RewriteSeats, PurgeForm, TrashAnswers, PurgeAnswer

(* Requests in flight keep the bounds they read, and those are in force.   *)
LEMMA NextJudged ==
  ASSUME Counting, Locking', [Next]_vars, NEW p \in Requests PROVE JudgedByBounds(p)'
<1> SUFFICES ASSUME changes' = 0
             PROVE  /\ req'[p].pc # "idle" =>
                         /\ req'[p].cap = cap'
                         /\ req'[p].kind # "edit" => req'[p].limit = limit'
                    /\ \A s \in Positions : Within(req'[p].taken[s], cap'[s])
  BY DEF JudgedByBounds
<1>01. TypeOK /\ TypeOK' /\ JudgedByBounds(p)
  BY DEF Counting, Locking
<1>02. changes = 0 /\ limit' = limit /\ cap' = cap
  BY <1>01, BoundsChange
<1>03. \A s \in Positions : Within(0, cap[s]) /\ Within(Taken(s), cap[s])
  <2>1. \A s \in Positions : Within(Taken(s), cap[s])
    BY <1>02 DEF Counting, WithinBounds
  <2>2. \A s \in Positions : cap[s] \in Nat \cup {Free}
    BY <1>01, BoundsAssumption DEF TypeOK, Bounds
  <2> QED BY <2>1, <2>2 DEF Within
<1>0. /\ TypeOK /\ TypeOK' /\ changes = 0 /\ limit' = limit /\ cap' = cap
      /\ req \in [Requests -> Request] /\ JudgedByBounds(p)
      /\ \A s \in Positions : Within(0, cap[s]) /\ Within(Taken(s), cap[s])
  BY <1>01, <1>02, <1>03 DEF TypeOK
<1>1. CASE req'[p] = req[p]
  BY <1>0, <1>1 DEF JudgedByBounds
<1>2. CASE Begin(p)
  <2>1. /\ req'[p].taken = NoAsk /\ req'[p].cap = cap
        /\ req'[p].kind # "edit" => req'[p].limit = limit
    <3>1. ASSUME NEW ask \in Asks, NEW d \in Drafts \cup {Nobody}, BeginSubmit(p, ask, d)
          PROVE  req'[p] = [Idle EXCEPT !.pc = "begun", !.ask = ask, !.draft = d,
                                        !.limit = limit, !.cap = cap]
      BY <1>0, <3>1 DEF BeginSubmit
    <3>2. ASSUME NEW r \in Responses, NEW ask \in Asks, BeginEdit(p, r, ask)
          PROVE  req'[p] = [Idle EXCEPT !.kind = "edit", !.pc = "begun", !.resp = r,
                                        !.ask = ask, !.cap = cap]
      BY <1>0, <3>2 DEF BeginEdit
    <3>3. ASSUME NEW r \in Responses, BeginRestore(p, r)
          PROVE  req'[p] = [Idle EXCEPT !.kind = "restore", !.pc = "begun", !.resp = r,
                                        !.limit = limit, !.cap = cap]
      BY <1>0, <3>3 DEF BeginRestore
    <3> QED BY <1>2, <3>1, <3>2, <3>3 DEF Begin, Idle
  <2> QED BY <1>0, <2>1 DEF NoAsk
<1>3. CASE Ends(p)
  BY <1>0, <1>3 DEF Ends, Idle, NoAsk
<1>4. CASE req[p].pc # "idle" /\ \E pc : Goes(p, pc)
  BY <1>0, <1>4 DEF Goes, JudgedByBounds, Request
<1>5. CASE SumSeats(p)
  BY <1>0, <1>5 DEF SumSeats, JudgedByBounds, Request
<1>6. CASE Acts(p)
  BY <1>2, <1>3, <1>4, <1>5, <1>6
     DEF Acts, Step, Queued, SkipLock, LockForm, CountResponses, DecideSeats, LockDraft,
         UpdateAnswer, FileAnswer, ReturnAnswer, RewriteSeats, Fail, AbortVictim
<1> QED BY <1>0, <1>1, <1>6, OnlyActsChange

(* EditorsAct add no answer and no seat.                                       *)
LEMMA EditorsAddNothing ==
  ASSUME Locking, TypeOK', [Next]_vars, \A p \in Requests : req'[p] = req[p]
  PROVE  NoGrowth
<1>0. /\ TypeOK /\ resp \in [Responses -> Response] /\ req \in [Requests -> Request]
  BY DEF Locking, TypeOK
<1>1. ASSUME NEW q \in Requests, Ends(q), req[q].pc # "idle" PROVE FALSE
  BY <1>0, <1>1 DEF Ends, Idle
<1>2. CASE PurgeForm \/ (\E S \in SUBSET Responses : TrashAnswers(S))
           \/ (\E x \in Responses : PurgeAnswer(x))
  <2>1. /\ LiveIn(resp') \subseteq LiveIn(resp)
        /\ \A r \in Responses : resp'[r].seats = resp[r].seats
    BY <1>0, <1>2 DEF PurgeForm, TrashAnswers, PurgeAnswer, Response, LiveIn
  <2> QED BY <2>1, <1>0, SeatsStay
<1>3. CASE UNCHANGED resp
  BY <1>0, <1>3, SeatsStay DEF LiveIn
<1>4. ASSUME NEW q \in Requests
      PROVE  ~ReturnAnswer(q) /\ ~RewriteSeats(q) /\ \A r \in Responses : ~FileAnswer(q, r)
  BY <1>1 DEF ReturnAnswer, RewriteSeats, FileAnswer
<1> QED BY <1>2, <1>3, <1>4
  DEF Next, Begin, Step, Queued, EditorsAct, vars, BeginSubmit, BeginEdit, BeginRestore,
      SkipLock, CountResponses, SumSeats, DecideSeats, LockForm, LockDraft, UpdateAnswer,
      Fail, AbortVictim, SaveLimit, Publish, TrashForm, RestoreForm, SaveDraft, DropDraft

(* No step passes an unchanged bound.                                      *)
LEMMA NextWithinBounds ==
  ASSUME Counting, Locking', [Next]_vars PROVE WithinBounds'
<1> SUFFICES ASSUME changes' = 0
             PROVE  /\ Within(Cardinality(LiveIn(resp')), limit')
                    /\ \A s \in Positions : Within(Sum(resp', s), cap'[s])
  BY Present DEF WithinBounds
<1>0. /\ Locking /\ TypeOK /\ TypeOK' /\ changes = 0 /\ limit' = limit /\ cap' = cap
      /\ limit \in Bounds /\ \A s \in Positions : cap[s] \in Bounds
      /\ resp \in [Responses -> Response] /\ resp' \in [Responses -> Response]
      /\ req \in [Requests -> Request]
  BY BoundsChange, BoundsAssumption DEF Counting, Locking, TypeOK
<1>1. /\ Within(Cardinality(LiveIn(resp)), limit)
      /\ \A s \in Positions : Within(Sum(resp, s), cap[s])
  BY <1>0, Present DEF Counting, WithinBounds
<1>2. /\ Cardinality(LiveIn(resp)) \in Nat /\ Cardinality(LiveIn(resp')) \in Nat
      /\ \A s \in Positions : Sum(resp, s) \in Nat /\ Sum(resp', s) \in Nat
  BY <1>0, Numbers
<1>3. ASSUME NEW n \in Nat, NEW m \in Nat, NEW b \in Bounds, Within(n, b), m <= n
      PROVE  Within(m, b)
  BY <1>3, WithinShrinks
<1>4. CASE \A p \in Requests : req'[p] = req[p]
  <2>1. NoGrowth
    BY <1>0, <1>4, EditorsAddNothing
  <2> QED BY <1>0, <1>1, <1>2, <1>3, <2>1, CountShrinks DEF NoGrowth
<1>5. ASSUME NEW p \in Requests, req'[p] # req[p]
      PROVE  /\ Within(Cardinality(LiveIn(resp')), limit')
             /\ \A s \in Positions : Within(Sum(resp', s), cap'[s])
  <2>1. Acts(p)
    BY <1>0, <1>5, OnlyActsChange
  <2>2. Room(p) /\ JudgedByBounds(p)
    BY DEF Counting
  <2>3. Admitted(p) /\ (req[p].pc = "idle" => UNCHANGED resp)
    BY <1>0, <2>1, <2>2, ActsAdmit
  <2>4. CASE req[p].pc = "idle"
    BY <1>0, <1>1, <2>3, <2>4
  <2>5. CASE req[p].pc # "idle"
    <3>1. /\ req[p].cap = cap /\ (req[p].kind # "edit" => req[p].limit = limit)
          /\ \A s \in Positions : Within(req[p].taken[s], cap[s])
      BY <1>0, <2>2, <2>5 DEF JudgedByBounds
    <3>2. \A s \in Positions : req[p].taken[s] \in Nat
      BY <1>0 DEF Request
    <3>3. Within(Cardinality(LiveIn(resp')), limit)
      BY <1>0, <1>1, <1>2, <1>3, <2>3, <3>1 DEF Admitted
    <3>4. ASSUME NEW s \in Positions PROVE Within(Sum(resp', s), cap[s])
      BY <1>0, <1>1, <1>2, <1>3, <2>3, <3>1, <3>2 DEF Admitted
    <3> QED BY <1>0, <3>3, <3>4
  <2> QED BY <2>4, <2>5
<1> QED BY <1>4, <1>5

(* Every step keeps the counting invariant.                                *)
LEMMA NextCounting == Counting /\ [Next]_vars => Counting'
<1> SUFFICES ASSUME Counting, [Next]_vars PROVE Counting'
  OBVIOUS
<1>1. Locking'
  BY NextLocking DEF Counting
<1> QED BY <1>1, NextRoom, NextJudged, NextWithinBounds DEF Counting

(* What is counted under the lock stays true until the commit.             *)
THEOREM CountingHolds == Spec => []Counting
BY InitCounting, NextCounting, PTL DEF Spec

(* No number of concurrent requests passes a bound nobody has changed.      *)
THEOREM BoundsHold == Spec => []WithinBounds
<1>1. Counting => WithinBounds
  BY DEF Counting
<1> QED BY <1>1, CountingHolds, PTL

(* A request that ends added no more than the bounds it read allow.         *)
LEMMA StepAdmits ==
  ASSUME Counting, [Next]_vars, NEW p \in Requests,
         req[p].pc # "idle", req'[p].pc = "idle"
  PROVE  /\ Cardinality(Live') > Cardinality(Live) =>
              Within(Cardinality(Live'), req[p].limit)
         /\ \A s \in Positions :
              Taken(s)' > Taken(s) => \/ Within(Taken(s)', req[p].cap[s])
                                     \/ Taken(s)' <= req[p].taken[s]
<1>0. TypeOK /\ TypeOK' /\ Locking /\ Room(p)
  BY NextLocking DEF Counting, Locking
<1>1. Admitted(p)
  BY <1>0, OnlyActsChange, ActsAdmit
<1>2. resp \in [Responses -> Response] /\ resp' \in [Responses -> Response]
  BY <1>0 DEF TypeOK
<1>3. /\ Cardinality(LiveIn(resp)) \in Nat /\ Cardinality(LiveIn(resp')) \in Nat
      /\ \A s \in Positions : Sum(resp, s) \in Nat /\ Sum(resp', s) \in Nat
  BY <1>2, Numbers
<1>4. Cardinality(LiveIn(resp')) > Cardinality(LiveIn(resp)) =>
        Within(Cardinality(LiveIn(resp')), req[p].limit)
  BY <1>1, <1>3 DEF Admitted
<1>5. ASSUME NEW s \in Positions, Sum(resp', s) > Sum(resp, s)
      PROVE  Within(Sum(resp', s), req[p].cap[s]) \/ Sum(resp', s) <= req[p].taken[s]
  BY <1>1, <1>3, <1>5 DEF Admitted
<1> QED BY <1>4, <1>5, Present

(* Whatever changes meanwhile, nobody is admitted past what judged him.     *)
THEOREM AdmitsWithinBoundsHolds == Spec => AdmitsWithinBounds
<1>1. Counting /\ [Next]_vars
      => [\A p \in Requests :
            req[p].pc # "idle" /\ req'[p].pc = "idle" =>
              /\ Cardinality(Live') > Cardinality(Live) =>
                   Within(Cardinality(Live'), req[p].limit)
              /\ \A s \in Positions :
                   Taken(s)' > Taken(s) => \/ Within(Taken(s)', req[p].cap[s])
                                          \/ Taken(s)' <= req[p].taken[s]]_vars
  BY StepAdmits
<1> QED BY <1>1, CountingHolds, PTL DEF Spec, AdmitsWithinBounds
===============================================================================
