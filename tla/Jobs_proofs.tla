----------------------------- MODULE Jobs_proofs -----------------------------
(***************************************************************************)
(* What holds of the daily erasure and of the watchman for any number of   *)
(* rows, batches, metrics and faults.                                      *)
(*                                                                         *)
(* The erasure: the moment of a run lies behind the clock, so what was due *)
(* at that moment is due when it is removed; and what is still owed is in  *)
(* a later phase, in the batch, or behind the cursor and due.              *)
(*                                                                         *)
(* The watchman: a metric has more mails than notes were lost only while   *)
(* its row or the run that has just mailed it knows of the last one.       *)
(***************************************************************************)
EXTENDS MCJobs, FiniteSetTheorems, TLAPS

-----------------------------------------------------------------------------
(* Retention *)

RunStarted == run.now <= now

\* The phase of an owed row is still to come, or it is listed or to be listed.
ToCome(x) ==
  \/ \E k \in (run.phase + 1)..4 : x \in Kinds[k]
  \/ x \in Kinds[run.phase] /\ (x \in run.batch \/ (run.more /\ Later(x, run.after)))

OwedIsDue ==
  \A x \in owed : /\ run.phase # 0
                  /\ Due(x, run.now) /\ ~Waits(x)
                  /\ ToCome(x)

RetentionInv == RetentionTypeOK /\ RunStarted /\ OwedIsDue

\* What the assumption says in the form the steps need it.
LEMMA RowsAreNumbers ==
  /\ \A x \in Items : x \in Nat /\ x # 0
  /\ Items \cap {0} = {}
  /\ \A x \in Items : Above[x] \subseteq Items /\ Above[x] \cap Drafts = {}
  /\ Term \in Nat /\ DraftTerm \in Nat /\ MaxTime \in Nat /\ MaxTime # 0
  BY RetentionAssumption DEF RetentionAssumption, Items

\* Removing a row with all below it leaves no row without what it belongs to.
LEMMA CascadeIsClosed ==
  ASSUME RetentionTypeOK, NEW x \in Items
  PROVE  \A y \in rows \ ({x} \cup Below(x)) : Above[y] \subseteq rows \ ({x} \cup Below(x))
  BY RetentionAssumption, RowsAreNumbers DEF RetentionTypeOK, Below, RetentionAssumption

(* Type correctness of retention-purge.service.ts and the trash: no row     *)
(* stays behind without the form and the organisation it belongs to.        *)
LEMMA RetentionTypes ==
  ASSUME RetentionTypeOK, [RetentionNext]_retentionVars
  PROVE  RetentionTypeOK'
  <1> USE RowsAreNumbers DEF RetentionTypeOK
  <1>0. CASE UNCHANGED retentionVars
    BY <1>0 DEF retentionVars
  <1>1. CASE Tick
    BY <1>1 DEF Tick
  <1>2. ASSUME NEW x \in Items, Trash(x) \/ Restore(x)
        PROVE  RetentionTypeOK'
    BY <1>2 DEF Trash, Restore, Touched
  <1>3. ASSUME NEW x \in Items, EraseNow(x)
        PROVE  RetentionTypeOK'
    BY <1>3, CascadeIsClosed DEF EraseNow, Touched
  <1>4. ASSUME NEW x \in Items, Renew(x)
        PROVE  RetentionTypeOK'
    BY <1>4 DEF Renew, Touched
  <1>5. CASE StartRun
    BY <1>5 DEF StartRun, Phase, Cursor, Start
  <1>6. CASE List
    <2>1. PICK B \in SUBSET Listing(run.phase, run.after) :
            \E last \in IF B = {} THEN {Start} ELSE {[at |-> at[x], id |-> x] : x \in B} :
              run' = [run EXCEPT !.batch = B, !.more = Cardinality(B) = BatchSize,
                                 !.after = last]
      BY <1>6 DEF List
    <2>2. PICK last \in IF B = {} THEN {Start} ELSE {[at |-> at[x], id |-> x] : x \in B} :
              run' = [run EXCEPT !.batch = B, !.more = Cardinality(B) = BatchSize,
                                 !.after = last]
      BY <2>1
    <2>3. B \subseteq Items
      BY DEF Listing, Due
    <2>4. last \in Cursor
      BY <2>2, <2>3 DEF Cursor, Start
    <2> QED
      BY <1>6, <2>2, <2>3, <2>4 DEF List
  <1>7. ASSUME NEW x \in Items, Remove(x)
        PROVE  RetentionTypeOK'
    BY <1>7, CascadeIsClosed DEF Remove
  <1>8. ASSUME NEW x \in Items, Stuck(x)
        PROVE  RetentionTypeOK'
    BY <1>8 DEF Stuck
  <1>9. CASE NextPhase
    BY <1>9 DEF NextPhase, Phase, NoRun, Cursor, Start
  <1>10. CASE Abort
    BY <1>10 DEF Abort, NoRun, Phase, Cursor, Start
  <1> QED
    BY <1>0, <1>1, <1>2, <1>3, <1>4, <1>5, <1>6, <1>7, <1>8, <1>9, <1>10
       DEF RetentionNext, People, Run

(* The clock never runs back behind the moment of a run.                    *)
LEMMA RunStaysStarted ==
  ASSUME RetentionTypeOK, RunStarted, [RetentionNext]_retentionVars
  PROVE  RunStarted'
  <1> USE RowsAreNumbers DEF RetentionTypeOK, RunStarted
  <1>0. CASE UNCHANGED retentionVars
    BY <1>0 DEF retentionVars
  <1>1. CASE Tick
    BY <1>1 DEF Tick
  <1>2. ASSUME NEW x \in Items, Trash(x) \/ Restore(x) \/ EraseNow(x) \/ Renew(x)
        PROVE  RunStarted'
    BY <1>2 DEF Trash, Restore, EraseNow, Renew
  <1>3. CASE StartRun
    BY <1>3 DEF StartRun, Phase
  <1>4. CASE List
    BY <1>4 DEF List
  <1>5. ASSUME NEW x \in Items, Remove(x) \/ Stuck(x)
        PROVE  RunStarted'
    BY <1>5 DEF Remove, Stuck
  <1>6. CASE NextPhase
    BY <1>6 DEF NextPhase, Phase, NoRun
  <1>7. CASE Abort
    BY <1>7 DEF Abort, NoRun, Phase
  <1> QED
    BY <1>0, <1>1, <1>2, <1>3, <1>4, <1>5, <1>6, <1>7 DEF RetentionNext, People, Run

(* What was due at the moment of the run is due now.                        *)
LEMMA DueStaysDue ==
  ASSUME RetentionTypeOK, RunStarted, NEW x \in Items, Due(x, run.now)
  PROVE  Due(x, now)
  BY RowsAreNumbers DEF RetentionTypeOK, RunStarted, Due

\* Whether a row is due, and whether it waits, depends on its moment and on
\* what is above it.
LEMMA DueUnlessTouched ==
  ASSUME RetentionTypeOK, NEW x \in Items, Due(x, run.now), ~Waits(x),
         x \in rows', at'[x] = at[x], run'.now = run.now,
         \A y \in Above[x] : y \in rows' /\ at'[y] = at[y]
  PROVE  (Due(x, run.now) /\ ~Waits(x))'
  BY DEF Due, Waits, Alive

\* What is owed after a step that touched x, of which x is not part.
LEMMA OwedApart ==
  ASSUME RetentionTypeOK, OwedIsDue, NEW x \in Items, NEW y \in owed \ ({x} \cup Below(x))
  PROVE  /\ y \in Items /\ y # x /\ x \notin Above[y]
         /\ y \in rows /\ Above[y] \subseteq rows
  BY DEF Below, RetentionTypeOK, OwedIsDue, Due

(* What is owed stays due, and stays to come, until it has been tried or    *)
(* somebody touched it.                                                     *)
LEMMA OwedStaysDue ==
  ASSUME RetentionInv, [RetentionNext]_retentionVars
  PROVE  OwedIsDue'
  <1> USE RowsAreNumbers DEF RetentionInv
  <1>0. CASE UNCHANGED retentionVars
    BY <1>0 DEF retentionVars, OwedIsDue, Due, Waits, Alive, ToCome, Later
  <1>1. CASE Tick
    BY <1>1 DEF Tick, OwedIsDue, Due, Waits, Alive, ToCome, Later
  <1>2. ASSUME NEW x \in Items, Trash(x) \/ Restore(x) \/ Renew(x)
        PROVE  OwedIsDue'
    <2> SUFFICES ASSUME NEW y \in owed'
                 PROVE  (run.phase # 0 /\ Due(y, run.now) /\ ~Waits(y) /\ ToCome(y))'
      BY DEF OwedIsDue
    <2>1. y \in owed \ ({x} \cup Below(x))
      BY <1>2 DEF Trash, Restore, Renew, Touched
    <2>2. /\ run' = run /\ rows' = rows
          /\ \A z \in Items \ {x} : at'[z] = at[z]
      BY <1>2 DEF Trash, Restore, Renew, RetentionTypeOK
    <2>3. /\ y \in Items /\ y # x /\ x \notin Above[y]
          /\ y \in rows /\ Above[y] \subseteq rows
      BY <2>1, OwedApart
    <2>4. run.phase # 0 /\ Due(y, run.now) /\ ~Waits(y) /\ ToCome(y)
      BY <2>1 DEF OwedIsDue
    <2>5. (Due(y, run.now) /\ ~Waits(y))'
      BY <2>2, <2>3, <2>4, DueUnlessTouched
    <2>6. ToCome(y)'
      BY <2>2, <2>3, <2>4 DEF ToCome, Later
    <2> QED
      BY <2>2, <2>4, <2>5, <2>6
  <1>3. ASSUME NEW x \in Items, EraseNow(x)
        PROVE  OwedIsDue'
    <2> SUFFICES ASSUME NEW y \in owed'
                 PROVE  (run.phase # 0 /\ Due(y, run.now) /\ ~Waits(y) /\ ToCome(y))'
      BY DEF OwedIsDue
    <2>1. y \in owed \ ({x} \cup Below(x))
      BY <1>3 DEF EraseNow, Touched
    <2>2. run' = run /\ at' = at /\ rows' = rows \ ({x} \cup Below(x))
      BY <1>3 DEF EraseNow
    <2>3. /\ y \in Items /\ y # x /\ x \notin Above[y]
          /\ y \in rows /\ Above[y] \subseteq rows
      BY <2>1, OwedApart
    <2>4. run.phase # 0 /\ Due(y, run.now) /\ ~Waits(y) /\ ToCome(y)
      BY <2>1 DEF OwedIsDue
    <2>5. y \in rows' /\ Above[y] \subseteq rows'
      BY <2>1, <2>2, <2>3, CascadeIsClosed
    <2>6. (Due(y, run.now) /\ ~Waits(y))'
      BY <2>2, <2>3, <2>4, <2>5, DueUnlessTouched
    <2>7. ToCome(y)'
      BY <2>2, <2>4 DEF ToCome, Later
    <2> QED
      BY <2>2, <2>4, <2>6, <2>7
  <1>4. CASE StartRun
    <2> SUFFICES ASSUME NEW y \in owed'
                 PROVE  (run.phase # 0 /\ Due(y, run.now) /\ ~Waits(y) /\ ToCome(y))'
      BY DEF OwedIsDue
    <2>1. /\ y \in Items /\ Due(y, now) /\ ~Waits(y)
          /\ run' = Phase(1, now) /\ rows' = rows /\ at' = at
      BY <1>4 DEF StartRun
    <2>2. (Due(y, run.now) /\ ~Waits(y))'
      BY <2>1 DEF Due, Waits, Alive, Phase
    <2>3. Later(y, Start)'
      BY <2>1 DEF Later, Start, Due, RetentionTypeOK
    <2>4. run'.phase = 1 /\ run'.more /\ run'.after = Start
      BY <2>1 DEF Phase
    <2>5. \E k \in 1..4 : y \in Kinds[k]
      <3>1. Kinds[1] = Orgs /\ Kinds[2] = Forms /\ Kinds[3] = Answers /\ Kinds[4] = Drafts
        BY DEF Kinds
      <3> QED
        BY <2>1, <3>1 DEF Items
    <2>6. Later(y, run.after)'
      BY <2>3, <2>4 DEF Later
    <2>8. ToCome(y)'
      <3>1. PICK k \in 1..4 : y \in Kinds[k]
        BY <2>5
      <3>2. CASE k = run'.phase
        BY <2>4, <2>6, <3>1, <3>2 DEF ToCome
      <3>3. CASE k \in (run'.phase + 1)..4
        BY <3>1, <3>3 DEF ToCome
      <3> QED
        BY <2>4, <3>2, <3>3
    <2> QED
      BY <2>2, <2>4, <2>8
  <1>5. CASE List
    <2> SUFFICES ASSUME NEW y \in owed'
                 PROVE  (run.phase # 0 /\ Due(y, run.now) /\ ~Waits(y) /\ ToCome(y))'
      BY DEF OwedIsDue
    <2> DEFINE L == Listing(run.phase, run.after)
    <2>1. PICK B \in SUBSET L :
            \E last \in IF B = {} THEN {Start} ELSE {[at |-> at[x], id |-> x] : x \in B} :
              /\ IsHead(B, L)
              /\ run' = [run EXCEPT !.batch = B, !.more = Cardinality(B) = BatchSize,
                                    !.after = last]
      BY <1>5 DEF List
    <2>2. PICK last \in IF B = {} THEN {Start} ELSE {[at |-> at[x], id |-> x] : x \in B} :
            run' = [run EXCEPT !.batch = B, !.more = Cardinality(B) = BatchSize,
                               !.after = last]
      BY <2>1
    <2>3. /\ y \in owed /\ y \in Items /\ rows' = rows /\ at' = at
          /\ run.phase # 0 /\ run.batch = {}
      BY <1>5 DEF List, RetentionTypeOK
    <2>4. Due(y, run.now) /\ ~Waits(y) /\ ToCome(y)
      BY <2>3 DEF OwedIsDue
    <2>5. /\ run'.phase = run.phase /\ run'.now = run.now
          /\ run'.batch = B /\ run'.more = (Cardinality(B) = BatchSize) /\ run'.after = last
      BY <2>2 DEF RetentionTypeOK
    <2>6. (Due(y, run.now) /\ ~Waits(y))'
      BY <2>3, <2>4, <2>5 DEF Due, Waits, Alive
    <2>7. ASSUME y \in Kinds[run.phase], run.more, Later(y, run.after), y \notin B
          PROVE  Cardinality(B) = BatchSize /\ Later(y, last)
      <3>1. y \in L
        BY <2>4, <2>7 DEF Listing
      <3>2. IsFiniteSet(L)
        <4>1. L \subseteq Items
          BY DEF Listing, Due, RetentionTypeOK
        <4> QED
          BY <4>1, FS_Subset, RetentionAssumption DEF RetentionAssumption
      <3>3. Cardinality(B) # Cardinality(L)
        <4>1. B # L
          BY <2>7, <3>1
        <4> HIDE DEF L
        <4> QED
          BY <4>1, <3>2, FS_Subset
      <3>4. Cardinality(B) = BatchSize
        BY <2>1, <3>3 DEF IsHead
      <3>5. B # {}
        <4>1. BatchSize # 0
          BY RetentionAssumption DEF RetentionAssumption
        <4> QED
          BY <3>4, <4>1, FS_EmptySet
      <3>6. PICK x \in B : last = [at |-> at[x], id |-> x]
        BY <2>2, <3>5
      <3>7. Later(y, [at |-> at[x], id |-> x])
        BY <2>1, <2>7, <3>1 DEF IsHead
      <3> QED
        BY <3>4, <3>6, <3>7
    <2>8. ToCome(y)'
      <3>1. CASE \E k \in (run.phase + 1)..4 : y \in Kinds[k]
        BY <2>5, <3>1 DEF ToCome
      <3>2. CASE y \in B /\ y \in Kinds[run.phase]
        BY <2>5, <3>2 DEF ToCome, Later
      <3>3. CASE y \notin B /\ y \in Kinds[run.phase] /\ run.more /\ Later(y, run.after)
        <4>1. Cardinality(B) = BatchSize /\ Later(y, last)
          BY <2>7, <3>3
        <4>2. Later(y, run.after)'
          BY <2>3, <2>5, <4>1 DEF Later
        <4> QED
          BY <2>5, <3>3, <4>1, <4>2 DEF ToCome
      <3> HIDE DEF L
      <3> QED
        BY <2>3, <2>4, <3>1, <3>2, <3>3 DEF ToCome
    <2> QED
      BY <2>3, <2>5, <2>6, <2>8
  <1>6. ASSUME NEW x \in Items, Remove(x)
        PROVE  OwedIsDue'
    <2> SUFFICES ASSUME NEW y \in owed'
                 PROVE  (run.phase # 0 /\ Due(y, run.now) /\ ~Waits(y) /\ ToCome(y))'
      BY DEF OwedIsDue
    <2>1. /\ y \in owed /\ y # x /\ at' = at
          /\ run' = [run EXCEPT !.batch = @ \ {x}]
          /\ y \notin rows \ rows'
          /\ rows' = rows \/ rows' = rows \ ({x} \cup Below(x))
      BY <1>6 DEF Remove
    <2>2. run.phase # 0 /\ Due(y, run.now) /\ ~Waits(y) /\ ToCome(y)
      BY <2>1 DEF OwedIsDue
    <2>3. /\ y \in Items /\ y \in rows
          /\ y \in rows'
      BY <2>1, <2>2 DEF Due, RetentionTypeOK
    <2>4. Above[y] \subseteq rows'
      BY <2>1, <2>3, CascadeIsClosed DEF RetentionTypeOK
    <2>5. (Due(y, run.now) /\ ~Waits(y))'
      BY <2>1, <2>2, <2>3, <2>4, DueUnlessTouched DEF RetentionTypeOK
    <2>6. ToCome(y)'
      BY <2>1, <2>2 DEF ToCome, Later, RetentionTypeOK
    <2> QED
      BY <2>1, <2>2, <2>5, <2>6 DEF RetentionTypeOK
  <1>7. ASSUME NEW x \in Items, Stuck(x)
        PROVE  OwedIsDue'
    BY <1>7 DEF Stuck, OwedIsDue, Due, Waits, Alive, ToCome, Later, RetentionTypeOK
  <1>8. CASE NextPhase
    <2> SUFFICES ASSUME NEW y \in owed'
                 PROVE  (run.phase # 0 /\ Due(y, run.now) /\ ~Waits(y) /\ ToCome(y))'
      BY DEF OwedIsDue
    <2>1. /\ y \in owed /\ rows' = rows /\ at' = at
          /\ run.phase # 0 /\ run.batch = {} /\ ~run.more
          /\ run' = IF run.phase = 4 THEN NoRun ELSE Phase(run.phase + 1, run.now)
      BY <1>8 DEF NextPhase
    <2>2. Due(y, run.now) /\ ~Waits(y) /\ ToCome(y) /\ y \in Items
      BY <2>1 DEF OwedIsDue, RetentionTypeOK
    <2>3. PICK k \in (run.phase + 1)..4 : y \in Kinds[k]
      BY <2>1, <2>2 DEF ToCome
    <2>4. run' = Phase(run.phase + 1, run.now) /\ run.phase \in 0..4
      BY <2>1, <2>3 DEF RetentionTypeOK
    <2>5. (Due(y, run.now) /\ ~Waits(y))'
      BY <2>1, <2>2, <2>4 DEF Due, Waits, Alive, Phase
    <2>6. Later(y, Start)
      BY <2>2 DEF Later, Start, Due, RetentionTypeOK
    <2>7. /\ run'.phase = run.phase + 1
          /\ run'.more /\ run'.after = Start
      BY <2>4 DEF Phase
    <2>8. Later(y, Start)'
      BY <2>1, <2>6 DEF Later
    <2>9. k = run'.phase \/ k \in (run'.phase + 1)..4
      BY <2>3, <2>4, <2>7
    <2>10. Later(y, run.after)'
      BY <2>7, <2>8 DEF Later
    <2>11. run'.phase # 0 /\ run'.more
      BY <2>4, <2>7
    <2>12. ToCome(y)'
      BY <2>3, <2>9, <2>10, <2>11 DEF ToCome
    <2> QED
      BY <2>5, <2>11, <2>12
  <1>9. CASE Abort
    BY <1>9 DEF Abort, OwedIsDue
  <1> QED
    BY <1>0, <1>1, <1>2, <1>3, <1>4, <1>5, <1>6, <1>7, <1>8, <1>9
       DEF RetentionNext, People, Run

LEMMA RetentionInitially == ASSUME RetentionInit PROVE RetentionInv
  <1>1. RetentionTypeOK
    BY RowsAreNumbers DEF RetentionInit, RetentionTypeOK, NoRun, Cursor, Start
  <1> QED
    BY <1>1 DEF RetentionInit, RetentionInv, RunStarted, OwedIsDue, NoRun

(* What runOnce still owes is due, not held up by its organisation or form, *)
(* and of a later phase, in the batch, or behind the cursor of its listing. *)
THEOREM RetentionInvariance == RetentionSpec => []RetentionInv
  <1>1. RetentionInv /\ [RetentionNext]_retentionVars => RetentionInv'
    BY RetentionTypes, RunStaysStarted, OwedStaysDue DEF RetentionInv
  <1> QED
    BY <1>1, RetentionInitially, PTL DEF RetentionSpec

(* Every row of the trash keeps its type and belongs to rows that exist.    *)
THEOREM RetentionTypeCorrect == RetentionSpec => []RetentionTypeOK
  BY RetentionInvariance, PTL DEF RetentionInv

(* A run that is over has tried whatever was due when it began, in as many  *)
(* batches as it takes and past every row that is stuck (drain).            *)
THEOREM NothingIsSkipped == RetentionSpec => []NothingSkipped
  <1>1. RetentionInv => NothingSkipped
    BY DEF RetentionInv, OwedIsDue, NothingSkipped
  <1> QED
    BY <1>1, RetentionInvariance, PTL

(* The statement that removes an organisation or a draft asks again         *)
(* (purgeIfDeletedBefore, purgeDrafts): no term is cut short.               *)
THEOREM TermsHold == RetentionSpec => TermsAreKept
  <1> DEFINE Kept == \A x \in rows \ rows' : x \in Orgs \cup Drafts =>
                        Due(x, now) \/ ~(Above[x] \subseteq rows')
  <1>1. ASSUME RetentionInv, [RetentionNext]_retentionVars
        PROVE  [Kept]_retentionVars
    <2> USE <1>1, RowsAreNumbers DEF RetentionInv, RetentionTypeOK
    <2>1. ASSUME rows' = rows
          PROVE  Kept
      BY <2>1
    <2>2. ASSUME NEW x \in Items, EraseNow(x)
          PROVE  Kept
      BY <2>2, RetentionAssumption DEF RetentionAssumption, EraseNow, Below, Items
    <2>3. ASSUME NEW x \in Items, Remove(x)
          PROVE  Kept
      <3> SUFFICES ASSUME NEW y \in rows \ rows', y \in Orgs \cup Drafts,
                          Above[y] \subseteq rows'
                   PROVE  Due(y, now)
        OBVIOUS
      <3>1. Removable(x) /\ rows' = rows \ ({x} \cup Below(x))
        BY <2>3 DEF Remove
      <3>2. y = x
        BY <3>1 DEF Below
      <3>3. Due(x, run.now)
        BY <3>1, <3>2 DEF Removable
      <3> QED
        BY <3>2, <3>3, DueStaysDue
    <2>4. ASSUME NEW x \in Items, Trash(x) \/ Restore(x) \/ Renew(x) \/ Stuck(x)
          PROVE  rows' = rows
      BY <2>4 DEF Trash, Restore, Renew, Stuck
    <2>5. CASE Tick \/ StartRun \/ List \/ NextPhase \/ Abort
      BY <2>1, <2>5 DEF Tick, StartRun, List, NextPhase, Abort
    <2> QED
      BY <2>1, <2>2, <2>3, <2>4, <2>5 DEF RetentionNext, People, Run
  <1>2. RetentionSpec => [][Kept]_retentionVars
    BY <1>1, RetentionInvariance, PTL DEF RetentionSpec
  <1> QED
    BY <1>2 DEF TermsAreKept

-----------------------------------------------------------------------------
(* Alerts *)

\* The metric the run has mailed and not yet noted.
Unmarked(x) == watch.pc = "sent" /\ Next1(watch.todo) = x

AlertsInv ==
  /\ AlertsTypeOK
  /\ \A x \in Metrics :
       /\ mails[x] <= 1 + unnoted
       /\ \/ row[x].sent = "recent"
          \/ Unmarked(x)
          \/ mails[x] <= unnoted

LEMMA AlertsInvStep ==
  ASSUME AlertsInv, [AlertsNext]_alertsVars
  PROVE  AlertsInv'
  <1> USE AlertsAssumption DEF AlertsAssumption, AlertsInv, AlertsTypeOK, Row, Unmarked
  <1>0. CASE UNCHANGED alertsVars
    BY <1>0 DEF alertsVars
  <1>1. ASSUME NEW x \in Metrics, Exceed(x)
        PROVE  AlertsInv'
    BY <1>1 DEF Exceed
  <1>2. ASSUME NEW x \in Metrics, NEW ack \in {"none", "timed", "open"}, Acknowledge(x, ack)
        PROVE  AlertsInv'
    BY <1>2 DEF Acknowledge
  <1>3. ASSUME NEW x \in Metrics, AckLapses(x)
        PROVE  AlertsInv'
    BY <1>3 DEF AckLapses
  <1>4. ASSUME NEW x \in Metrics, SuppressionEnds(x)
        PROVE  AlertsInv'
    BY <1>4 DEF SuppressionEnds
  <1>5. CASE ReadStatus
    BY <1>5 DEF ReadStatus
  <1>6. CASE ReleaseAcks
    <2>1. /\ row' \in [Metrics -> Row]
          /\ \A x \in Metrics : row'[x].sent = row[x].sent
      BY <1>6 DEF ReleaseAcks
    <2> QED
      BY <1>6, <2>1 DEF ReleaseAcks
  <1>7. ASSUME NEW x \in Metrics, PassOver(x)
        PROVE  AlertsInv'
    BY <1>7 DEF PassOver, Turn
  <1>8. ASSUME NEW x \in Metrics, Send(x)
        PROVE  AlertsInv'
    BY <1>8 DEF Send, Turn, DueAlert
  <1>9. ASSUME NEW x \in Metrics, Remember(x)
        PROVE  AlertsInv'
    BY <1>9 DEF Remember
  <1>10. CASE RunOver \/ \E x \in Metrics : SendFails(x)
    <2>1. /\ watch.pc = "reporting" /\ watch' = Asleep
          /\ over' = over /\ row' = row /\ mails' = mails
          /\ unnoted' = unnoted /\ cuts' = cuts
      BY <1>10 DEF RunOver, SendFails, Turn
    <2>2. AlertsTypeOK'
      BY <2>1 DEF Asleep
    <2> QED
      BY <2>1, <2>2
  <1>a. \A x \in Metrics : mails[x] <= unnoted + 1 /\ mails[x] \in Nat
    OBVIOUS
  <1>11. CASE NoteIsLost
    <2>1. /\ unnoted' = unnoted + 1 /\ unnoted + cuts < MaxFaults
          /\ mails' = mails /\ row' = row /\ over' = over /\ watch' = Asleep /\ cuts' = cuts
      BY <1>11 DEF NoteIsLost, MayFail
    <2>2. AlertsTypeOK'
      BY <2>1 DEF Asleep
    <2> QED
      BY <1>a, <2>1, <2>2
  <1>12. CASE RunIsCut
    <2>1. /\ cuts' = cuts + 1 /\ unnoted + cuts < MaxFaults /\ watch.pc # "sent"
          /\ mails' = mails /\ row' = row /\ over' = over /\ watch' = Asleep
          /\ unnoted' = unnoted
      BY <1>12 DEF RunIsCut, MayFail
    <2>2. AlertsTypeOK'
      BY <2>1 DEF Asleep
    <2> QED
      BY <2>1, <2>2
  \* The mail is one more, and so is the count of what was not noted.
  <1>13. ASSUME NEW x \in Metrics, SendsSilently(x)
         PROVE  AlertsInv'
    <2>1. /\ watch.pc = "reporting" /\ row[x].sent # "recent" /\ unnoted + cuts < MaxFaults
          /\ mails' = [mails EXCEPT ![x] = @ + 1] /\ unnoted' = unnoted + 1
          /\ watch' = Asleep /\ over' = over /\ row' = row /\ cuts' = cuts
      BY <1>13 DEF SendsSilently, Turn, DueAlert, MayFail
    <2>2. AlertsTypeOK'
      BY <2>1 DEF Asleep
    <2>3. mails[x] <= unnoted
      BY <2>1
    <2>4. \A y \in Metrics : mails'[y] = IF y = x THEN mails[x] + 1 ELSE mails[y]
      BY <2>1
    <2>5. \A y \in Metrics : mails'[y] <= unnoted'
      BY <1>a, <2>1, <2>3, <2>4
    <2> QED
      BY <2>1, <2>2, <2>5
  <1> QED
    BY <1>0, <1>1, <1>2, <1>3, <1>4, <1>5, <1>6, <1>7, <1>8, <1>9, <1>10, <1>11, <1>12, <1>13
       DEF AlertsNext, Watch, Step

(* What the watchman has mailed he has noted, or is about to note, or it is *)
(* counted as unnoted: a late answer of the server, a failed upsert, a death*)
(* of the process (send, remember).                                         *)
THEOREM AlertsInvariance == AlertsSpec => []AlertsInv
  <1>1. AlertsInit => AlertsInv
    BY AlertsAssumption DEF AlertsAssumption, AlertsInit, AlertsInv, AlertsTypeOK, Row, Asleep
  <1> QED
    BY <1>1, AlertsInvStep, PTL DEF AlertsSpec

(* An alert does not repeat while it is suppressed (due and remember of     *)
(* ops-alert.service.ts), for any number of metrics and of faults, except   *)
(* once for each mail whose note was lost.                                  *)
THEOREM OneMailHolds == AlertsSpec => []OneMailPerSuppression
  <1>1. AlertsInv => OneMailPerSuppression
    BY DEF AlertsInv, OneMailPerSuppression
  <1> QED
    BY <1>1, AlertsInvariance, PTL

-----------------------------------------------------------------------------
(* Both timers.  MCJobs follows one at a time; whichever it is, the         *)
(* behaviour is one of each.                                                *)
LEMMA JobsAreEach == JobsSpec => RetentionSpec /\ AlertsSpec
  <1>1. JobsInit => RetentionInit /\ AlertsInit
    BY DEF JobsInit
  <1>2. [JobsNext]_jobVars => [RetentionNext]_retentionVars /\ [AlertsNext]_alertsVars
    BY DEF JobsNext, jobVars, Retains, Watches
  <1> QED
    BY <1>1, <1>2, PTL DEF JobsSpec, RetentionSpec, AlertsSpec

(* Rows, runs, metrics and mails keep their types, whichever timer fires    *)
(* (retention.service.ts, ops-alert.service.ts).                            *)
THEOREM JobsTypeCorrect == JobsSpec => []JobsTypeOK
  <1>1. RetentionInv /\ AlertsInv => JobsTypeOK
    BY DEF RetentionInv, AlertsInv, JobsTypeOK
  <1> QED
    BY <1>1, JobsAreEach, RetentionInvariance, AlertsInvariance, PTL

(* What the run checks of the two timers holds of both together.            *)
THEOREM JobsHold ==
  JobsSpec => [](NothingSkipped /\ OneMailPerSuppression) /\ TermsAreKept
  BY JobsAreEach, NothingIsSkipped, OneMailHolds, TermsHold, PTL
=============================================================================
