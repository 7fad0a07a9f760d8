-------------------------- MODULE MailQueue_proofs --------------------------
(***************************************************************************)
(* What holds of the mail queue for every set of mails, organisations,     *)
(* workers and editors.                                                    *)
(***************************************************************************)
EXTENDS MailQueue, TLAPS

\* A lane in a conversation has a row and a share left to spend it from.
LaneShape ==
  \A w \in Workers, l \in Lanes :
    lane[w][l].pc \in InFlight => lane[w][l].mail \in Mails /\ lane[w][l].left > 0

\* What is deleted for good has no readable line left.
GoneIsErased ==
  \A m \in Mails : \A s \in AboutOf[m] :
    thing[s] = "gone" /\ Exists(m) => row[m].erased

\* A row that is not written yet has not been tried.
UnwrittenIsFresh == \A m \in Mails : row[m].status = "none" => row[m].attempts = 0

IInv == /\ MailTypeOK
        /\ LaneShape
        /\ ConversationIsWorkable
        /\ OneConversationPerRow
        /\ WaitingHasAttemptsLeft
        /\ GoneIsErased
        /\ UnwrittenIsFresh

\* The first state has no mail and no lane at work.
LEMMA InitIInv == MailInit => IInv
<1> SUFFICES ASSUME MailInit PROVE IInv
  OBVIOUS
<1> USE LimitsAssumption, FirstSmtpAssumption, MailsAssumption
<1>1. \A w \in Workers, l \in Lanes : lane[w][l] = Off
  BY DEF MailInit
<1>2. Off \in Run
  BY DEF Off, Run, Stored, InFlight
<1>3. MailTypeOK
  BY <1>2 DEF MailInit, MailTypeOK, Row, Statuses, Reasons, NoMail
<1>4. LaneShape /\ ConversationIsWorkable /\ OneConversationPerRow
  BY <1>1 DEF LaneShape, ConversationIsWorkable, OneConversationPerRow, Held,
              InFlight, Off
<1>5. WaitingHasAttemptsLeft /\ GoneIsErased /\ UnwrittenIsFresh
  BY DEF MailInit, WaitingHasAttemptsLeft, GoneIsErased, UnwrittenIsFresh, Exists
<1> QED BY <1>3, <1>4, <1>5 DEF IInv

-----------------------------------------------------------------------------
(* What every step owes to the rows: they stay rows, the waiting ones keep   *)
(* an attempt, the erased ones stay erased, the unwritten ones unwritten.   *)
RowsKept ==
  /\ row' \in [Mails -> Row]
  /\ \A m \in Mails :
       /\ row'[m].status = "queued" => row'[m].attempts < MaxAttempts
       /\ row'[m].status = "none" => row'[m] = row[m]
       /\ \A s \in AboutOf[m] :
            thing'[s] = "gone" /\ row'[m].status \in {"queued", "sent", "failed"}
              => row'[m].erased

(* And to everything the queue does not decide on. *)
RestTyped ==
  /\ thing' \in [Things -> {"live", "trash", "gone"}]
  /\ smtp' \in [Lanes -> Stored]
  /\ editor' \in [Editors -> Mails \cup {NoMail}]
  /\ accepted' \in [Mails -> Nat]
  /\ stray' \in [Mails -> Nat]
  /\ late' \in [Mails -> Nat]
  /\ suspect' \subseteq Mails
  /\ disturbances' \in 0..MaxDisturbances

\* A row that is not written keeps what is said of it.
LEMMA RowsUntouched ==
  ASSUME IInv, UNCHANGED <<row, thing>> PROVE RowsKept
BY DEF IInv, MailTypeOK, RowsKept, WaitingHasAttemptsLeft, GoneIsErased,
       UnwrittenIsFresh, Exists

\* What must be shown of the rows a step writes.
LEMMA Disturbed ==
  ASSUME IInv, Disturb PROVE disturbances' \in 0..MaxDisturbances
BY LimitsAssumption DEF IInv, MailTypeOK, Disturb

(* Steps that leave every lane alone and write only rows nobody holds. *)
LEMMA RowWrite ==
  ASSUME IInv, RowsKept, RestTyped, UNCHANGED lane,
         \A m \in Mails : Locked(m) => row'[m] = row[m]
  PROVE  IInv'
<1>1. MailTypeOK'
  BY DEF IInv, MailTypeOK, RowsKept, RestTyped
<1>2. LaneShape' /\ OneConversationPerRow'
  BY DEF IInv, LaneShape, OneConversationPerRow, Held
<1>3. ConversationIsWorkable'
  BY DEF IInv, ConversationIsWorkable, Held, Locked
<1>4. WaitingHasAttemptsLeft' /\ GoneIsErased' /\ UnwrittenIsFresh'
  BY DEF IInv, RowsKept, WaitingHasAttemptsLeft, GoneIsErased, Exists,
         UnwrittenIsFresh
<1> QED BY <1>1, <1>2, <1>3, <1>4 DEF IInv

(* What a lane may hold: a waiting row of its own that nobody else holds. *)
Holdable(w, l, m) ==
  /\ m \in Mails
  /\ row[m].status = "queued"
  /\ ~row[m].erased
  /\ LaneOf[m] = l
  /\ \A v \in Workers, k \in Lanes : Held(v, k, m) => v = w /\ k = l

(* Steps that move one lane and write no row another lane holds. *)
LEMMA LaneWrite ==
  ASSUME IInv, RowsKept, RestTyped,
         NEW w \in Workers, NEW l \in Lanes, NEW r \in Run,
         lane' = [lane EXCEPT ![w][l] = r],
         r.pc \in InFlight => /\ Holdable(w, l, r.mail)
                              /\ r.left > 0
                              /\ r.snap \in Blocks
                              /\ UNCHANGED row,
         \A v \in Workers, k \in Lanes, m \in Mails :
           Held(v, k, m) /\ (v # w \/ k # l) => row'[m] = row[m]
  PROVE  IInv'
<1>1. lane' \in [Workers -> [Lanes -> Run]] /\ lane'[w][l] = r
  BY DEF IInv, MailTypeOK
<1>2. \A v \in Workers, k \in Lanes : (v # w \/ k # l) => lane'[v][k] = lane[v][k]
  BY DEF IInv, MailTypeOK
<1>3. MailTypeOK'
  BY <1>1 DEF IInv, MailTypeOK, RowsKept, RestTyped
<1>4. LaneShape'
  BY <1>1, <1>2 DEF IInv, LaneShape, Holdable
<1>5. ConversationIsWorkable'
  <2> SUFFICES ASSUME NEW v \in Workers, NEW k \in Lanes, NEW m \in Mails,
                      Held(v, k, m)'
               PROVE  (/\ row[m].status = "queued"
                       /\ ~row[m].erased
                       /\ row[m].attempts < MaxAttempts
                       /\ LaneOf[m] = k
                       /\ lane[v][k].snap \in Blocks)'
    BY DEF ConversationIsWorkable
  <2>1. CASE v = w /\ k = l
    BY <1>1, <2>1 DEF Held, Holdable, IInv, WaitingHasAttemptsLeft
  <2>2. CASE v # w \/ k # l
    BY <1>2, <2>2 DEF Held, IInv, ConversationIsWorkable
  <2> QED BY <2>1, <2>2
<1>6. OneConversationPerRow'
  <2> SUFFICES ASSUME NEW v \in Workers, NEW u \in Workers,
                      NEW k \in Lanes, NEW j \in Lanes, NEW m \in Mails,
                      Held(v, k, m)', Held(u, j, m)'
               PROVE  v = u /\ k = j
    BY DEF OneConversationPerRow
  <2>1. CASE (v # w \/ k # l) /\ (u # w \/ j # l)
    BY <1>2, <2>1 DEF IInv, OneConversationPerRow, Held
  <2>2. CASE v = w /\ k = l
    BY <1>1, <1>2, <2>2 DEF Held, Holdable
  <2>3. CASE u = w /\ j = l
    BY <1>1, <1>2, <2>3 DEF Held, Holdable
  <2> QED BY <2>1, <2>2, <2>3
<1>7. WaitingHasAttemptsLeft' /\ GoneIsErased' /\ UnwrittenIsFresh'
  BY DEF IInv, RowsKept, WaitingHasAttemptsLeft, GoneIsErased,
         UnwrittenIsFresh, Exists
<1> QED BY <1>3, <1>4, <1>5, <1>6, <1>7 DEF IInv

-----------------------------------------------------------------------------
(* The actions that write rows. *)

\* A new mail is written to a row that was free (enqueueMail).
LEMMA EnqueueKeeps ==
  ASSUME IInv, NEW m \in Mails, Enqueue(m) PROVE IInv'
<1> USE LimitsAssumption
<1>1. row \in [Mails -> Row] /\ row[m] \in Row
  BY DEF IInv, MailTypeOK
<1>2. ~Locked(m) /\ row[m].attempts = 0 /\ \A s \in AboutOf[m] : thing[s] = "live"
  BY DEF IInv, ConversationIsWorkable, UnwrittenIsFresh, Locked, Enqueue
<1>3. PICK r \in Row : /\ row' = [row EXCEPT ![m] = r]
                       /\ r.status \in {"queued", "failed"}
                       /\ r.attempts = 0
  <2>1. CASE row' = [row EXCEPT ![m].status = "queued", ![m].due = TRUE]
    <3> DEFINE r == [row[m] EXCEPT !.status = "queued", !.due = TRUE]
    <3>1. r \in Row /\ r.status = "queued" /\ r.attempts = 0
      BY <1>1, <1>2 DEF Row, Statuses
    <3>2. row' = [row EXCEPT ![m] = r]
      BY <2>1, <1>1
    <3> QED BY <3>1, <3>2
  <2>2. ASSUME NEW y \in Reasons,
               row' = [row EXCEPT ![m].status = "failed", ![m].why = y]
        PROVE  \E r \in Row : /\ row' = [row EXCEPT ![m] = r]
                              /\ r.status \in {"queued", "failed"}
                              /\ r.attempts = 0
    <3> DEFINE r == [row[m] EXCEPT !.status = "failed", !.why = y]
    <3>1. r \in Row /\ r.status = "failed" /\ r.attempts = 0
      BY <1>1, <1>2 DEF Row, Statuses
    <3>2. row' = [row EXCEPT ![m] = r]
      BY <2>2, <1>1
    <3> QED BY <3>1, <3>2
  <2> QED BY <2>1, <2>2 DEF Enqueue, Reasons
<1>4. row' \in [Mails -> Row] /\ row'[m] = r
  BY <1>1, <1>3
<1>5. \A n \in Mails : n # m => row'[n] = row[n]
  BY <1>1, <1>3
<1>6. RowsKept
  BY <1>2, <1>3, <1>4, <1>5
     DEF Enqueue, IInv, RowsKept, WaitingHasAttemptsLeft, GoneIsErased,
         UnwrittenIsFresh, Exists
<1>7. RestTyped /\ UNCHANGED lane
  BY DEF Enqueue, IInv, MailTypeOK, RestTyped
<1> QED BY <1>2, <1>5, <1>6, <1>7, RowWrite

\* A postponed mail falls due; nothing else changes.
LEMMA BackoffElapsesKeeps ==
  ASSUME IInv, NEW m \in Mails, BackoffElapses(m) PROVE IInv'
<1>1. row \in [Mails -> Row]
  BY DEF IInv, MailTypeOK
<1>2. row' \in [Mails -> Row]
  BY <1>1 DEF BackoffElapses, Row
<1>3. \A n \in Mails : /\ row'[n].status = row[n].status
                       /\ row'[n].attempts = row[n].attempts
                       /\ row'[n].erased = row[n].erased
                       /\ Locked(n) \/ row[n].status = "none" => row'[n] = row[n]
  BY <1>1 DEF BackoffElapses, Row
<1>4. RowsKept
  BY <1>2, <1>3
     DEF BackoffElapses, IInv, RowsKept, WaitingHasAttemptsLeft, GoneIsErased, Exists
<1>5. RestTyped /\ UNCHANGED lane
  BY DEF BackoffElapses, IInv, MailTypeOK, RestTyped
<1> QED BY <1>3, <1>4, <1>5, RowWrite

\* A retry writes only a row that no conversation holds.
LEMMA RetryWriteKeeps ==
  ASSUME IInv, NEW e \in Editors, RetryWrite(e) PROVE IInv'
<1> DEFINE m == editor[e]
<1>0. 0 \in 0..MaxAttempts /\ 0 < MaxAttempts
  BY LimitsAssumption
<1>1. m \in Mails /\ row \in [Mails -> Row] /\ row[m] \in Row /\ ~Locked(m)
  BY DEF RetryWrite, IInv, MailTypeOK, Unlocked
<1>2. RestTyped /\ UNCHANGED <<lane, thing>>
  BY Disturbed, <1>1 DEF RetryWrite, IInv, MailTypeOK, RestTyped, NoMail
<1>3. CASE ~Exists(m)
  <2>1. UNCHANGED row
    BY <1>3 DEF RetryWrite
  <2> QED BY <2>1, <1>2, RowWrite, RowsUntouched
<1>4. CASE Exists(m)
  <2> DEFINE r == [row[m] EXCEPT !.status = "queued", !.attempts = 0, !.due = TRUE]
  <2>1. r \in Row /\ r.status = "queued" /\ r.attempts = 0 /\ r.erased = row[m].erased
    <3> HIDE DEF m
    <3> QED BY <1>0, <1>1 DEF Row, Statuses
  <2>2. row' = [row EXCEPT ![m] = r]
    BY <1>1, <1>4 DEF RetryWrite
  <2>3. row' \in [Mails -> Row] /\ row'[m] = r /\ \A n \in Mails \ {m} : row'[n] = row[n]
    BY <2>1, <2>2, <1>1
  <2>4. RowsKept
    <3> HIDE DEF r, m
    <3>1. ASSUME NEW n \in Mails, n # m
          PROVE  /\ row'[n].status = "queued" => row'[n].attempts < MaxAttempts
                 /\ \A s \in AboutOf[n] :
                      thing'[s] = "gone" /\ row'[n].status \in {"queued", "sent", "failed"}
                        => row'[n].erased
      BY <2>3, <3>1, <1>2 DEF IInv, WaitingHasAttemptsLeft, GoneIsErased, Exists
    <3>2. /\ row'[m].attempts < MaxAttempts /\ row'[m].status # "none"
          /\ \A s \in AboutOf[m] : thing'[s] = "gone" => row'[m].erased
      BY <1>0, <2>1, <2>3, <1>1, <1>2, <1>4 DEF IInv, GoneIsErased
    <3> QED BY <2>3, <3>1, <3>2 DEF RowsKept
  <2> QED BY <1>1, <1>2, <2>3, <2>4, RowWrite
<1> QED BY <1>3, <1>4

\* An erasure waits for the rows it deletes to be free.
LEMMA EraseSubjectKeeps ==
  ASSUME IInv, NEW s \in Subjects, EraseSubject(s) PROVE IInv'
<1>1. row \in [Mails -> Row] /\ \A m \in Mails : row[m] \in Row
  BY DEF IInv, MailTypeOK
<1>2. \A m \in Mails : row'[m] \in Row
  BY <1>1 DEF EraseSubject, Row, Statuses, Reasons
<1>3. row' \in [Mails -> Row]
  BY <1>2 DEF EraseSubject
<1>4. \A m \in Mails :
        /\ Locked(m) => row'[m] = row[m]
        /\ ~Exists(m) => row'[m] = row[m]
        /\ row'[m].status \in {row[m].status, "failed"}
        /\ row'[m].attempts = row[m].attempts
        /\ row[m].erased => row'[m].erased
        /\ Exists(m) /\ s \in AboutOf[m] => row'[m].erased
        /\ row'[m].status = "none" => row'[m] = row[m]
        /\ row'[m].status = "failed" => Exists(m)
  <2> TAKE m \in Mails
  <2>1. row[m] \in Row
    BY <1>1
  <2>2. CASE ~(s \in AboutOf[m] /\ Exists(m))
    BY <2>2, <1>1 DEF EraseSubject, Exists
  <2>3. CASE s \in AboutOf[m] /\ Exists(m) /\ row[m].status = "queued"
    BY <2>1, <2>3 DEF EraseSubject, Row, Unlocked, Exists
  <2>4. CASE s \in AboutOf[m] /\ Exists(m) /\ row[m].status # "queued"
    BY <2>1, <2>4 DEF EraseSubject, Row, Unlocked, Exists
  <2> QED BY <2>2, <2>3, <2>4
<1>5. \A x \in Things : thing'[x] = "gone" => thing[x] = "gone" \/ x = s
  BY DEF EraseSubject, IInv, MailTypeOK, Things
<1>6. RowsKept
  <2>1. \A m \in Mails : row'[m].status = "queued" => row'[m].attempts < MaxAttempts
    BY <1>4 DEF IInv, WaitingHasAttemptsLeft
  <2>2. ASSUME NEW m \in Mails, NEW x \in AboutOf[m], thing'[x] = "gone",
               row'[m].status \in {"queued", "sent", "failed"}
        PROVE  row'[m].erased
    <3>1. x \in Things /\ Exists(m)
      BY <1>4, <2>2, AboutOfAssumption DEF Things, Exists
    <3> QED BY <3>1, <1>4, <1>5, <2>2 DEF IInv, GoneIsErased
  <2> QED BY <2>1, <2>2, <1>3, <1>4 DEF RowsKept
<1>7. RestTyped /\ UNCHANGED lane
  BY Disturbed DEF EraseSubject, IInv, MailTypeOK, RestTyped, Things
<1> QED BY <1>4, <1>6, <1>7, RowWrite

(* Rows that leave altogether: an organisation's with it, the old ones with *)
(* the log purge.                                                           *)
LEMMA RowsRemoved ==
  ASSUME IInv, NEW S \in SUBSET Mails, \A m \in S : ~Locked(m),
         row' = [m \in Mails |-> IF m \in S /\ Exists(m)
                                   THEN [row[m] EXCEPT !.status = "gone"]
                                   ELSE row[m]],
         \A x \in Subjects : thing'[x] = "gone" => thing[x] = "gone",
         RestTyped, UNCHANGED lane
  PROVE  IInv'
<1>1. row \in [Mails -> Row] /\ \A m \in Mails : row[m] \in Row
  BY DEF IInv, MailTypeOK
<1>2. row' \in [Mails -> Row]
  BY <1>1 DEF Row, Statuses
<1>3. \A m \in Mails : /\ Locked(m) => row'[m] = row[m]
                       /\ row'[m].status = "gone" \/ row'[m] = row[m]
  BY <1>1 DEF Row
<1>4. RowsKept
  BY <1>2, <1>3, AboutOfAssumption
     DEF RowsKept, IInv, WaitingHasAttemptsLeft, GoneIsErased, Exists
<1> QED BY <1>3, <1>4, RowWrite

\* The deletion of an organisation takes free rows only.
LEMMA PurgeTenantKeeps ==
  ASSUME IInv, NEW t \in Tenants, PurgeTenant(t) PROVE IInv'
<1> DEFINE S == {m \in Mails : TenantOf[m] = t}
<1>1. row' = [m \in Mails |-> IF m \in S /\ Exists(m)
                                THEN [row[m] EXCEPT !.status = "gone"] ELSE row[m]]
  BY DEF PurgeTenant
<1>2. \A m \in S : ~Locked(m)
  BY DEF PurgeTenant, Unlocked
<1>3. \A x \in Subjects : thing'[x] = "gone" => thing[x] = "gone"
  BY ThingsAssumption DEF PurgeTenant, IInv, MailTypeOK, Things
<1>4. RestTyped /\ UNCHANGED lane
  BY Disturbed DEF PurgeTenant, IInv, MailTypeOK, RestTyped, Things
<1> HIDE DEF S
<1> QED BY <1>1, <1>2, <1>3, <1>4, RowsRemoved DEF S

\* The log purge takes settled rows, which no lane holds.
LEMMA PurgeLogKeeps ==
  ASSUME IInv, NEW k \in Mails, PurgeLog(k) PROVE IInv'
<1> DEFINE S == {m \in Mails : m <= k}
<1>1. row' = [m \in Mails |-> IF m \in S /\ Exists(m)
                                THEN [row[m] EXCEPT !.status = "gone"] ELSE row[m]]
  BY DEF PurgeLog
<1>2. \A m \in S : ~Locked(m)
  BY DEF PurgeLog, Unlocked
<1>3. RestTyped /\ UNCHANGED <<lane, thing>>
  BY Disturbed DEF PurgeLog, IInv, MailTypeOK, RestTyped
<1> HIDE DEF S
<1> QED BY <1>1, <1>2, <1>3, RowsRemoved DEF S

-----------------------------------------------------------------------------
(* The actions of a lane. *)

\* A lane that lets go writes nothing any other lane could hold.
LEMMA LaneLetsGo ==
  ASSUME IInv, NEW w \in Workers, NEW l \in Lanes, NEW r \in Run,
         r.pc \notin InFlight,
         lane' = [lane EXCEPT ![w][l] = r],
         UNCHANGED <<row, thing>>, RestTyped
  PROVE  IInv'
BY RowsUntouched, LaneWrite DEF IInv, MailTypeOK

\* An idle lane holds nothing.
LEMMA OffIsRun == Off \in Run /\ Off.pc \notin InFlight
BY LimitsAssumption DEF Off, Run, Stored, InFlight

\* A lane at the end of its share has let go of its row.
LEMMA LaneEndsKeeps ==
  ASSUME IInv, NEW w \in Workers, NEW l \in Lanes, LaneEnds(w, l) PROVE IInv'
BY OffIsRun, LaneLetsGo DEF LaneEnds, RestTyped, IInv, MailTypeOK

\* A lost lane gives its row back as it was committed.
LEMMA LaneLostKeeps ==
  ASSUME IInv, NEW w \in Workers, NEW l \in Lanes, LaneLost(w, l) PROVE IInv'
<1> DEFINE m == lane[w][l].mail
<1>0. stray \in [Mails -> Nat] /\ late \in [Mails -> Nat]
  BY DEF IInv, MailTypeOK
<1>1. stray' \in [Mails -> Nat] /\ late' \in [Mails -> Nat]
  <2>1. CASE lane[w][l].pc \in {"sending", "accepted"}
    <3>1. m \in Mails
      BY <2>1 DEF IInv, LaneShape, InFlight
    <3>2. /\ stray' \in {stray, [stray EXCEPT ![m] = stray[m] + 1]}
          /\ late' \in {late, [late EXCEPT ![m] = late[m] + 1]}
      BY DEF LaneLost
    <3> HIDE DEF m
    <3> QED BY <1>0, <3>1, <3>2
  <2>2. CASE lane[w][l].pc \notin {"sending", "accepted"}
    BY <1>0, <2>2 DEF LaneLost
  <2> QED BY <2>1, <2>2
<1> QED
  BY <1>1, OffIsRun, LaneLetsGo, Disturbed DEF LaneLost, RestTyped, IInv, MailTypeOK

\* A claim finds a waiting row of its lane that no transaction holds.
LEMMA ClaimedIsHoldable ==
  ASSUME IInv, NEW w \in Workers, NEW l \in Lanes, NEW m \in Mails,
         MayClaim(w, l, m)
  PROVE  /\ Holdable(w, l, m) /\ ~Locked(m) /\ row[m] \in Row
         /\ lane[w][l] \in Run /\ lane[w][l].left > 0 /\ lane[w][l].pc = "ready"
<1>1. Due(m) /\ LaneOf[m] = l /\ ~Locked(m)
  BY DEF MayClaim, Oldest, Claimable, DueIn
<1> QED BY <1>1 DEF Holdable, Locked, Due, MayClaim, IInv, MailTypeOK

\* A mail that has a reader and an account is taken into a conversation.
LEMMA StartSendKeeps ==
  ASSUME IInv, NEW w \in Workers, NEW l \in Lanes, NEW m \in Mails,
         StartSend(w, l, m)
  PROVE  IInv'
<1> DEFINE r == [lane[w][l] EXCEPT !.pc = "sending", !.mail = m]
<1>1. Holdable(w, l, m) /\ lane[w][l] \in Run /\ lane[w][l].left > 0
  BY ClaimedIsHoldable DEF StartSend
<1>2. r \in Run /\ r.mail = m /\ r.left > 0 /\ r.snap \in Blocks
  BY <1>1 DEF Run, InFlight, StartSend
<1>3. lane' = [lane EXCEPT ![w][l] = r]
  BY DEF StartSend, IInv, MailTypeOK
<1>4. RowsKept /\ RestTyped
  BY RowsUntouched DEF StartSend, RestTyped, IInv, MailTypeOK
<1> HIDE DEF r
<1> QED BY <1>1, <1>2, <1>3, <1>4, LaneWrite DEF StartSend

\* A claimed row whose sending is withheld is settled at once.
LEMMA WithholdKeeps ==
  ASSUME IInv, NEW w \in Workers, NEW l \in Lanes, NEW m \in Mails,
         Withhold(w, l, m)
  PROVE  IInv'
<1> DEFINE r == [lane[w][l] EXCEPT !.pc = "stamping", !.mail = m]
<1>1. ~Locked(m) /\ row[m] \in Row /\ lane[w][l] \in Run /\ row[m].status = "queued"
  <2>1. MayClaim(w, l, m)
    BY DEF Withhold
  <2> QED BY <2>1, ClaimedIsHoldable DEF Holdable
<1>2. r \in Run /\ r.pc \notin InFlight
  BY <1>1 DEF Run, InFlight
<1>3. lane' = [lane EXCEPT ![w][l] = r]
  BY DEF Withhold, IInv, MailTypeOK
<1>4. /\ row' \in [Mails -> Row]
      /\ \A n \in Mails : /\ n # m => row'[n] = row[n]
                          /\ row'[n].status = row[n].status
                          /\ row'[n].attempts = row[n].attempts
                          /\ row'[n].erased = row[n].erased
  BY DEF Withhold, IInv, MailTypeOK, Row, Reasons
<1>5. RowsKept
  BY <1>1, <1>4 DEF Withhold, RowsKept, IInv, WaitingHasAttemptsLeft,
                    GoneIsErased, UnwrittenIsFresh, Exists
<1>6. RestTyped
  BY DEF Withhold, RestTyped, IInv, MailTypeOK
<1>7. \A v \in Workers, k \in Lanes, n \in Mails :
        Held(v, k, n) /\ (v # w \/ k # l) => row'[n] = row[n]
  BY <1>1, <1>4 DEF Locked
<1> HIDE DEF r
<1> QED BY <1>2, <1>3, <1>5, <1>6, <1>7, LaneWrite

\* A claimed row nobody can read fails for good.
LEMMA FailUnreadableKeeps ==
  ASSUME IInv, NEW w \in Workers, NEW l \in Lanes, NEW m \in Mails,
         FailUnreadable(w, l, m)
  PROVE  IInv'
<1> DEFINE r == [lane[w][l] EXCEPT !.left = @ - 1]
<1>1. /\ ~Locked(m) /\ row[m] \in Row /\ row[m].status = "queued"
      /\ lane[w][l] \in Run /\ lane[w][l].left > 0 /\ lane[w][l].pc = "ready"
  <2>1. MayClaim(w, l, m)
    BY DEF FailUnreadable
  <2> QED BY <2>1, ClaimedIsHoldable DEF Holdable
<1>2. r \in Run /\ r.pc \notin InFlight
  BY <1>1, LimitsAssumption DEF Run, InFlight
<1>3. lane' = [lane EXCEPT ![w][l] = r]
  BY DEF FailUnreadable, IInv, MailTypeOK
<1>4. /\ row' \in [Mails -> Row]
      /\ \A n \in Mails : n # m => row'[n] = row[n]
      /\ row'[m].status = "failed"
      /\ row'[m].erased = row[m].erased
  <2> DEFINE q == [row[m] EXCEPT !.status = "failed", !.due = FALSE, !.why = "refused"]
  <2>1. q \in Row /\ q.status = "failed" /\ q.erased = row[m].erased
    BY <1>1 DEF Row, Reasons, Statuses
  <2>2. row' = [row EXCEPT ![m] = q] /\ row \in [Mails -> Row]
    BY DEF FailUnreadable, IInv, MailTypeOK
  <2> HIDE DEF q
  <2> QED BY <2>1, <2>2
<1>5. RowsKept
  BY <1>1, <1>4 DEF FailUnreadable, RowsKept, IInv, WaitingHasAttemptsLeft,
                    GoneIsErased, UnwrittenIsFresh, Exists
<1>6. RestTyped
  BY DEF FailUnreadable, RestTyped, IInv, MailTypeOK
<1>7. \A v \in Workers, k \in Lanes, n \in Mails :
        Held(v, k, n) /\ (v # w \/ k # l) => row'[n] = row[n]
  BY <1>1, <1>4 DEF Locked
<1> HIDE DEF r
<1> QED BY <1>2, <1>3, <1>5, <1>6, <1>7, LaneWrite

\* The other waiting rows of a lane are withheld with the first.
LEMMA WithholdOthersKeeps ==
  ASSUME IInv, NEW w \in Workers, NEW l \in Lanes, WithholdOthers(w, l)
  PROVE  IInv'
<1>1. row \in [Mails -> Row] /\ \A n \in Mails : row[n] \in Row
  BY DEF IInv, MailTypeOK
<1>2. \A n \in Mails : /\ row'[n] \in Row
                       /\ row'[n].status = row[n].status
                       /\ row'[n].attempts = row[n].attempts
                       /\ row'[n].erased = row[n].erased
                       /\ Locked(n) \/ row[n].status = "none" => row'[n] = row[n]
  BY <1>1 DEF WithholdOthers, Row, Reasons
<1>3. row' \in [Mails -> Row]
  BY <1>2 DEF WithholdOthers
<1>4. RowsKept
  BY <1>2, <1>3 DEF WithholdOthers, RowsKept, IInv, WaitingHasAttemptsLeft,
                    GoneIsErased, Exists
<1>5. RestTyped
  BY DEF WithholdOthers, RestTyped, IInv, MailTypeOK
<1>6. \A v \in Workers, k \in Lanes, n \in Mails : Held(v, k, n) => row'[n] = row[n]
  BY <1>2 DEF Locked
<1> QED BY <1>4, <1>5, <1>6, OffIsRun, LaneWrite DEF WithholdOthers

\* The mail server is asked; the row is still held and unwritten.
LEMMA TransmitKeeps ==
  ASSUME IInv, NEW w \in Workers, NEW l \in Lanes, Transmit(w, l) PROVE IInv'
<1> DEFINE m == lane[w][l].mail
<1>1. /\ lane[w][l] \in Run /\ lane[w][l].pc = "sending"
      /\ m \in Mails /\ lane[w][l].left > 0 /\ Held(w, l, m)
  BY DEF Transmit, IInv, MailTypeOK, LaneShape, InFlight, Held
<1>2. Holdable(w, l, m) /\ lane[w][l].snap \in Blocks
  BY <1>1 DEF Holdable, IInv, ConversationIsWorkable, OneConversationPerRow
<1>3. accepted' \in [Mails -> Nat] /\ late' \in [Mails -> Nat]
  <2>1. accepted \in [Mails -> Nat] /\ late \in [Mails -> Nat]
    BY DEF IInv, MailTypeOK
  <2>2. \A f \in [Mails -> Nat] : [f EXCEPT ![m] = @ + 1] \in [Mails -> Nat]
    BY <1>1
  <2> QED BY <2>1, <2>2 DEF Transmit
<1>4. PICK o \in {"accepted", "refused", "silent"} :
        lane' = [lane EXCEPT ![w][l].pc = o]
  BY DEF Transmit
<1> DEFINE r == [lane[w][l] EXCEPT !.pc = o]
<1>5. r \in Run /\ r.mail = m /\ r.left > 0 /\ r.snap \in Blocks
  BY <1>1, <1>2 DEF Run, InFlight
<1>6. lane' = [lane EXCEPT ![w][l] = r]
  BY <1>4 DEF IInv, MailTypeOK
<1>7. RowsKept /\ RestTyped /\ UNCHANGED row
  BY <1>3, RowsUntouched DEF Transmit, RestTyped, IInv, MailTypeOK
<1>8. \A v \in Workers, k \in Lanes, n \in Mails :
        Held(v, k, n) /\ (v # w \/ k # l) => row'[n] = row[n]
  BY <1>7
<1> HIDE DEF r, m
<1> QED BY <1>2, <1>5, <1>6, <1>7, <1>8, LaneWrite

\* What Record leaves of the row it writes.
LEMMA Recorded ==
  ASSUME IInv, NEW w \in Workers, NEW l \in Lanes, Record(w, l),
         NEW m, m = lane[w][l].mail
  PROVE  /\ lane[w][l] \in Run /\ lane[w][l].left > 0 /\ lane[w][l].pc \in InFlight
         /\ m \in Mails /\ Held(w, l, m)
         /\ row[m].status = "queued" /\ ~row[m].erased
         /\ row' \in [Mails -> Row]
         /\ \A n \in Mails : n # m => row'[n] = row[n]
         /\ row'[m].status \in {"queued", "sent", "failed"}
         /\ row'[m].status = "queued" => row'[m].attempts < MaxAttempts
         /\ ~row'[m].erased
<1>1. /\ lane[w][l] \in Run /\ lane[w][l].left > 0 /\ lane[w][l].pc \in InFlight
      /\ m \in Mails /\ Held(w, l, m)
  BY DEF Record, IInv, MailTypeOK, LaneShape, InFlight, Held
<1>2. /\ row[m] \in Row /\ row[m].status = "queued" /\ ~row[m].erased
      /\ row[m].attempts < MaxAttempts
  BY <1>1 DEF IInv, MailTypeOK, ConversationIsWorkable
<1>3. row[m].attempts + 1 \in 0..MaxAttempts
  BY <1>2, LimitsAssumption DEF Row
<1>4. /\ row' \in [Mails -> Row]
      /\ \A n \in Mails : n # m => row'[n] = row[n]
      /\ row'[m].status \in {"queued", "sent", "failed"}
      /\ row'[m].status = "queued" => row'[m].attempts < MaxAttempts
      /\ ~row'[m].erased
  <2> DEFINE tried == row[m].attempts + 1
  <2>1. PICK d \in Row : /\ row' = [row EXCEPT ![m] = d]
                         /\ d.status \in {"queued", "sent", "failed"}
                         /\ d.status = "queued" => d.attempts < MaxAttempts
                         /\ ~d.erased
    <3>1. CASE Delivered(lane[w][l].pc)
      <4> DEFINE d == [row[m] EXCEPT !.status = "sent", !.attempts = tried,
                                     !.due = FALSE, !.why = "clear"]
      <4>1. row' = [row EXCEPT ![m] = d]
        BY <3>1 DEF Record
      <4>2. d \in Row /\ d.status = "sent" /\ ~d.erased
        BY <1>2, <1>3 DEF Row, Statuses, Reasons
      <4> QED BY <4>1, <4>2
    <3>2. CASE ~Delivered(lane[w][l].pc) /\ GivesUp(tried)
      <4> DEFINE d == [row[m] EXCEPT !.status = "failed", !.attempts = tried,
                                     !.due = FALSE, !.why = "refused"]
      <4>1. row' = [row EXCEPT ![m] = d]
        BY <3>2 DEF Record
      <4>2. d \in Row /\ d.status = "failed" /\ ~d.erased
        BY <1>2, <1>3 DEF Row, Statuses, Reasons
      <4> QED BY <4>1, <4>2
    <3>3. CASE ~Delivered(lane[w][l].pc) /\ ~GivesUp(tried)
      <4> DEFINE d == [row[m] EXCEPT !.attempts = tried, !.due = FALSE,
                                     !.why = "refused"]
      <4>1. row' = [row EXCEPT ![m] = d]
        BY <3>3 DEF Record
      <4>2. d \in Row /\ d.status = "queued" /\ ~d.erased /\ d.attempts = tried
        BY <1>2, <1>3 DEF Row, Statuses, Reasons
      <4>3. tried < MaxAttempts
        BY <3>3, <1>3, LimitsAssumption DEF GivesUp
      <4> QED BY <4>1, <4>2, <4>3
    <3> QED BY <3>1, <3>2, <3>3
  <2>2. row \in [Mails -> Row]
    BY DEF IInv, MailTypeOK
  <2> QED BY <1>1, <2>1, <2>2
<1> QED BY <1>1, <1>2, <1>4

\* The outcome is written to the held row, which is let go.
LEMMA RecordKeeps ==
  ASSUME IInv, NEW w \in Workers, NEW l \in Lanes, Record(w, l) PROVE IInv'
<1> DEFINE m == lane[w][l].mail
           q == row'[m]
<1>1. /\ lane[w][l] \in Run /\ lane[w][l].left > 0 /\ lane[w][l].pc \in InFlight
      /\ m \in Mails /\ Held(w, l, m)
      /\ row[m].status = "queued" /\ ~row[m].erased
  BY Recorded
<1>4. /\ row' \in [Mails -> Row]
      /\ \A n \in Mails : n # m => row'[n] = row[n]
      /\ q.status \in {"queued", "sent", "failed"}
      /\ q.status = "queued" => q.attempts < MaxAttempts
      /\ ~q.erased
  BY Recorded
<1>5. PICK r \in Run : r.pc \notin InFlight /\ lane' = [lane EXCEPT ![w][l] = r]
  <2>0. lane \in [Workers -> [Lanes -> Run]] /\ 0 \in 0..LaneBatch
    BY LimitsAssumption DEF IInv, MailTypeOK
  <2>1. CASE lane[w][l].pc = "silent"
    BY <2>1, OffIsRun DEF Record
  <2>2. CASE lane[w][l].pc # "silent"
    <3> DEFINE r == [lane[w][l] EXCEPT !.pc = "ready", !.mail = NoMail, !.left = @ - 1]
    <3>1. r \in Run /\ r.pc \notin InFlight
      <4>1. lane[w][l].left - 1 \in 0..LaneBatch
        BY <1>1, LimitsAssumption DEF Run
      <4> QED BY <1>1, <4>1 DEF Run, InFlight
    <3>2. lane' = [lane EXCEPT ![w][l] = r]
      BY <2>0, <2>2 DEF Record
    <3> QED BY <3>1, <3>2
  <2> QED BY <2>1, <2>2
<1>7. \A s \in AboutOf[m] : thing[s] # "gone"
  BY <1>1 DEF IInv, GoneIsErased, Exists
<1>8. RestTyped /\ UNCHANGED thing
  BY DEF Record, RestTyped, IInv, MailTypeOK
<1>9. RowsKept
  <2> HIDE DEF m, q
  <2>1. ASSUME NEW n \in Mails, n # m
        PROVE  /\ row'[n].status = "queued" => row'[n].attempts < MaxAttempts
               /\ \A s \in AboutOf[n] :
                    thing'[s] = "gone" /\ row'[n].status \in {"queued", "sent", "failed"}
                      => row'[n].erased
    BY <2>1, <1>4, <1>8 DEF IInv, WaitingHasAttemptsLeft, GoneIsErased, Exists
  <2>2. row'[m] = q
    BY DEF q
  <2> QED BY <2>1, <2>2, <1>4, <1>7, <1>8 DEF RowsKept
<1>10. \A v \in Workers, k \in Lanes, n \in Mails :
         Held(v, k, n) /\ (v # w \/ k # l) => row'[n] = row[n]
  BY <1>1, <1>4 DEF IInv, OneConversationPerRow
<1> QED BY <1>5, <1>8, <1>9, <1>10, LaneWrite

\* A round opens lanes; a new lane holds no row.
LEMMA TickKeeps ==
  ASSUME IInv, NEW w \in Workers, Tick(w) PROVE IInv'
<1> DEFINE f == [l \in Lanes |->
                  IF l \in OpenedLanes
                    THEN [pc |-> "ready", snap |-> smtp[l], mail |-> NoMail,
                          left |-> LaneBatch]
                    ELSE Off]
<1>1. \A l \in Lanes : f[l] \in Run /\ f[l].pc \notin InFlight
  BY OffIsRun, LimitsAssumption DEF Run, InFlight, IInv, MailTypeOK
<1>2. lane' = [lane EXCEPT ![w] = f]
  BY DEF Tick
<1> HIDE DEF f
<1>3. lane' \in [Workers -> [Lanes -> Run]]
  <2>1. f \in [Lanes -> Run]
    BY <1>1 DEF f
  <2> QED BY <1>2, <2>1 DEF IInv, MailTypeOK
<1>4. \A v \in Workers, l \in Lanes : lane'[v][l] = lane[v][l] \/ lane'[v][l].pc \notin InFlight
  BY <1>1, <1>2 DEF IInv, MailTypeOK
<1>5. \A v \in Workers, l \in Lanes, m \in Mails :
        Held(v, l, m)' => Held(v, l, m) /\ lane'[v][l] = lane[v][l]
  BY <1>4 DEF Held
<1>6. RowsKept /\ UNCHANGED row
  BY RowsUntouched DEF Tick
<1>7. MailTypeOK'
  BY <1>3 DEF Tick, IInv, MailTypeOK
<1>8. LaneShape'
  BY <1>4 DEF LaneShape, IInv
<1>9. ConversationIsWorkable'
  BY <1>5, <1>6 DEF ConversationIsWorkable, IInv
<1>10. OneConversationPerRow'
  BY <1>5 DEF OneConversationPerRow, IInv
<1>11. WaitingHasAttemptsLeft' /\ GoneIsErased' /\ UnwrittenIsFresh'
  BY DEF Tick, IInv, WaitingHasAttemptsLeft, GoneIsErased, UnwrittenIsFresh, Exists
<1> QED BY <1>7, <1>8, <1>9, <1>10, <1>11 DEF IInv

-----------------------------------------------------------------------------
(* The actions that write neither a row nor a lane. *)

\* The other process opens and closes its own lanes.
LEMMA ElsewhereKeeps ==
  ASSUME IInv, RestTyped, UNCHANGED <<row, lane>>,
         \A x \in Subjects : thing'[x] = "gone" => thing[x] = "gone"
  PROVE  IInv'
<1>1. RowsKept
  BY AboutOfAssumption
     DEF IInv, MailTypeOK, RowsKept, WaitingHasAttemptsLeft, GoneIsErased,
         UnwrittenIsFresh, Exists
<1> QED BY <1>1, RowWrite

\* An answer after the timeout reaches no row.
LEMMA LateAnswerKeeps ==
  ASSUME IInv, NEW m \in Mails, LateAnswer(m) PROVE IInv'
<1>1. late' \in [Mails -> Nat] /\ accepted' \in [Mails -> Nat] /\ stray' \in [Mails -> Nat]
  <2>1. late[m] - 1 \in Nat
    BY DEF LateAnswer, IInv, MailTypeOK
  <2>2. accepted[m] + 1 \in Nat /\ stray[m] + 1 \in Nat
    BY DEF IInv, MailTypeOK
  <2> QED BY <2>1, <2>2 DEF LateAnswer, IInv, MailTypeOK
<1>2. RestTyped /\ UNCHANGED <<row, lane, thing>>
  BY <1>1 DEF LateAnswer, RestTyped, IInv, MailTypeOK
<1> QED BY <1>2, ElsewhereKeeps

\* Reading a failed row for a retry writes nothing.
LEMMA RetryReadKeeps ==
  ASSUME IInv, NEW e \in Editors, NEW m \in Mails, RetryRead(e, m) PROVE IInv'
<1>1. RestTyped /\ UNCHANGED <<row, lane, thing>>
  BY DEF RetryRead, RestTyped, IInv, MailTypeOK
<1> QED BY <1>1, ElsewhereKeeps

\* Saving the account writes no row.
LEMMA SaveSmtpKeeps ==
  ASSUME IInv, NEW l \in Lanes, NEW c \in Stored, SaveSmtp(l, c) PROVE IInv'
<1>1. RestTyped /\ UNCHANGED <<row, lane, thing>>
  BY Disturbed DEF SaveSmtp, RestTyped, IInv, MailTypeOK
<1> QED BY <1>1, ElsewhereKeeps

\* Moving an answer to the trash writes no row.
LEMMA TrashKeeps ==
  ASSUME IInv, NEW x \in Things, MoveToTrash(x) \/ Restore(x) PROVE IInv'
<1>1. RestTyped /\ UNCHANGED <<row, lane>>
  BY Disturbed DEF MoveToTrash, Restore, RestTyped, IInv, MailTypeOK
<1>2. \A y \in Subjects : thing'[y] = "gone" => thing[y] = "gone"
  BY DEF MoveToTrash, Restore, IInv, MailTypeOK, Things
<1> QED BY <1>1, <1>2, ElsewhereKeeps

-----------------------------------------------------------------------------
(* The inductive step: one case per action. *)
LEMMA NextIInv == IInv /\ [MailNext]_mailVars => IInv'
<1> SUFFICES ASSUME IInv, [MailNext]_mailVars PROVE IInv'
  OBVIOUS
<1>1. ASSUME NEW m \in Mails, Enqueue(m) \/ BackoffElapses(m) \/ LateAnswer(m)
      PROVE  IInv'
  BY <1>1, EnqueueKeeps, BackoffElapsesKeeps, LateAnswerKeeps
<1>2. ASSUME NEW w \in Workers, Tick(w) PROVE IInv'
  BY <1>2, TickKeeps
<1>3. ASSUME NEW w \in Workers, NEW l \in Lanes, LaneStep(w, l) PROVE IInv'
  <2>1. CASE LaneEnds(w, l)
    BY <2>1, LaneEndsKeeps
  <2>2. ASSUME NEW m \in Mails,
               Withhold(w, l, m) \/ FailUnreadable(w, l, m) \/ StartSend(w, l, m)
        PROVE  IInv'
    BY <2>2, WithholdKeeps, FailUnreadableKeeps, StartSendKeeps
  <2>3. CASE WithholdOthers(w, l)
    BY <2>3, WithholdOthersKeeps
  <2>4. CASE Transmit(w, l)
    BY <2>4, TransmitKeeps
  <2>5. CASE Record(w, l)
    BY <2>5, RecordKeeps
  <2> QED BY <1>3, <2>1, <2>2, <2>3, <2>4, <2>5 DEF LaneStep
<1>4. ASSUME NEW w \in Workers, NEW l \in Lanes, LaneLost(w, l) PROVE IInv'
  BY <1>4, LaneLostKeeps
<1>5. CASE Environment
  <2>1. ASSUME NEW e \in Editors, RetryWrite(e) PROVE IInv'
    BY <2>1, RetryWriteKeeps
  <2>2. ASSUME NEW e \in Editors, NEW m \in Mails, RetryRead(e, m) PROVE IInv'
    BY <2>2, RetryReadKeeps
  <2>3. ASSUME NEW l \in Lanes, NEW c \in Stored, SaveSmtp(l, c) PROVE IInv'
    BY <2>3, SaveSmtpKeeps
  <2>4. ASSUME NEW x \in Things, MoveToTrash(x) \/ Restore(x) PROVE IInv'
    BY <2>4, TrashKeeps
  <2>5. ASSUME NEW s \in Subjects, EraseSubject(s) PROVE IInv'
    BY <2>5, EraseSubjectKeeps
  <2>6. ASSUME NEW t \in Tenants, PurgeTenant(t) PROVE IInv'
    BY <2>6, PurgeTenantKeeps
  <2>7. ASSUME NEW k \in Mails, PurgeLog(k) PROVE IInv'
    BY <2>7, PurgeLogKeeps
  <2> QED BY <1>5, <2>1, <2>2, <2>3, <2>4, <2>5, <2>6, <2>7 DEF Environment
<1>6. CASE UNCHANGED mailVars
  <2>1. RestTyped /\ UNCHANGED <<row, lane, thing>>
    BY <1>6 DEF mailVars, RestTyped, IInv, MailTypeOK
  <2> QED BY <2>1, ElsewhereKeeps
<1> QED BY <1>1, <1>2, <1>3, <1>4, <1>5, <1>6 DEF MailNext

\* The inductive invariant holds in every reachable state.
LEMMA Invariance == MailSpec => []IInv
BY InitIInv, NextIInv, PTL DEF MailSpec

-----------------------------------------------------------------------------
(* Every variable stays in its type: attempts never pass MAIL_MAX_ATTEMPTS  *)
(* and no lane spends more than its share (claimAndDeliver, runLane).       *)
THEOREM TypeCorrect == MailSpec => []MailTypeOK
BY Invariance, PTL DEF IInv

(* However many instances and lanes run, FOR UPDATE SKIP LOCKED never lets  *)
(* one row be in two conversations.                                         *)
THEOREM OneConversation == MailSpec => []OneConversationPerRow
BY Invariance, PTL DEF IInv

(* No retry, erasure or purge pulls a row from under the conversation that  *)
(* was opened for it.                                                       *)
THEOREM Workable == MailSpec => []ConversationIsWorkable
BY Invariance, PTL DEF IInv

(* A waiting row can still be tried: markFailed, requeue and the erasure    *)
(* never leave a queued row with its attempts used up.                      *)
THEOREM AttemptsLeft == MailSpec => []WaitingHasAttemptsLeft
BY Invariance, PTL DEF IInv

-----------------------------------------------------------------------------
\* An open conversation that nobody holds the row for is not a new one.
LEMMA LateAnswerSpends ==
  ASSUME IInv, NEW n \in Mails, LateAnswer(n), NEW m \in Mails
  PROVE  accepted'[m] + late'[m] <= accepted[m] + late[m]
<1>1. accepted \in [Mails -> Nat] /\ late \in [Mails -> Nat] /\ late[n] > 0
  BY DEF IInv, MailTypeOK, LateAnswer
<1>2. late'[m] = IF m = n THEN late[m] - 1 ELSE late[m]
  BY <1>1 DEF LateAnswer
<1>3. \/ accepted'[m] = accepted[m]
      \/ m = n /\ accepted'[m] = accepted[m] + 1
  BY <1>1 DEF LateAnswer
<1> QED BY <1>1, <1>2, <1>3

(* Only a conversation in progress hands a mail over or lets go of its row  *)
(* while it goes on: transmit is the one call that reaches the mail server. *)
LEMMA OnlyHeldRowsLeave ==
  ASSUME IInv, [MailNext]_mailVars, NEW m \in Mails,
         \A w \in Workers, l \in Lanes : ~Held(w, l, m)
  PROVE  accepted'[m] + late'[m] <= accepted[m] + late[m]
<1>1. accepted \in [Mails -> Nat] /\ late \in [Mails -> Nat]
  BY DEF IInv, MailTypeOK
<1>2. CASE UNCHANGED <<accepted, late>>
  BY <1>1, <1>2
<1>3. ASSUME NEW w \in Workers, NEW l \in Lanes, Transmit(w, l) \/ LaneLost(w, l)
      PROVE  accepted'[m] = accepted[m] /\ late'[m] = late[m]
  <2>1. CASE lane[w][l].pc = "sending"
    <3>1. lane[w][l].mail # m
      BY <2>1 DEF Held, InFlight
    <3> QED BY <1>1, <1>3, <3>1 DEF Transmit, LaneLost
  <2>2. CASE lane[w][l].pc # "sending"
    BY <1>3, <2>2 DEF Transmit, LaneLost
  <2> QED BY <2>1, <2>2
<1>4. \/ UNCHANGED <<accepted, late>>
      \/ \E n \in Mails : LateAnswer(n)
      \/ \E w \in Workers, l \in Lanes : Transmit(w, l) \/ LaneLost(w, l)
  <2>1. ASSUME NEW w \in Workers, NEW l \in Lanes, LaneStep(w, l)
        PROVE  UNCHANGED <<accepted, late>> \/ Transmit(w, l)
    BY <2>1 DEF LaneStep, LaneEnds, Withhold, FailUnreadable, StartSend,
                WithholdOthers, Record
  <2>2. CASE Environment
    BY <2>2 DEF Environment, RetryWrite, RetryRead, SaveSmtp, MoveToTrash, Restore,
                EraseSubject, PurgeTenant, PurgeLog
  <2> QED BY <2>1, <2>2 DEF MailNext, mailVars, Enqueue, BackoffElapses, Tick
<1> QED BY <1>1, <1>2, <1>3, <1>4, LateAnswerSpends

(* Nothing about an answer or form that is deleted for good is handed to a  *)
(* mail server, save by the conversations that had lost their row before:   *)
(* eraseMailLogLines waits for the open claims and ends what still waits, in*)
(* the deletion's own transaction.                                          *)
THEOREM ErasureIsFinal == MailSpec => NothingLeavesAfterErasure
<1> DEFINE Step == \A m \in Mails, s \in Subjects :
             s \in AboutOf[m] /\ thing[s] = "gone" =>
               accepted'[m] + late'[m] <= accepted[m] + late[m]
<1>1. IInv /\ [MailNext]_mailVars => Step
  <2> SUFFICES ASSUME IInv, [MailNext]_mailVars, NEW m \in Mails, NEW s \in Subjects,
                      s \in AboutOf[m], thing[s] = "gone"
               PROVE  accepted'[m] + late'[m] <= accepted[m] + late[m]
    OBVIOUS
  <2>1. \A w \in Workers, l \in Lanes : ~Held(w, l, m)
    BY DEF IInv, ConversationIsWorkable, GoneIsErased, Exists
  <2> QED BY <2>1, OnlyHeldRowsLeave
<1> QED BY <1>1, Invariance, PTL DEF MailSpec, NothingLeavesAfterErasure

(* A conversation opens only under the block its organisation has stored at *)
(* that moment: deliverOne compares it again after the claim.               *)
THEOREM StoredIdentity == MailSpec => OpensUnderStoredIdentity
<1> DEFINE Step == \A w \in Workers, l \in Tenants :
             lane[w][l].pc # "sending" /\ lane'[w][l].pc = "sending" =>
               lane'[w][l].snap = smtp[l] /\ smtp[l] \in Blocks
<1>1. IInv /\ [MailNext]_mailVars => Step
  <2> SUFFICES ASSUME IInv, [MailNext]_mailVars, NEW w \in Workers, NEW l \in Tenants,
                      lane[w][l].pc # "sending", lane'[w][l].pc = "sending"
               PROVE  lane'[w][l].snap = smtp[l] /\ smtp[l] \in Blocks
    OBVIOUS
  <2>0. lane \in [Workers -> [Lanes -> Run]] /\ l \in Lanes /\ l # System
    BY LanesAssumption DEF IInv, MailTypeOK, Lanes
  <2>1. ASSUME NEW v \in Workers, NEW k \in Lanes, NEW m \in Mails, StartSend(v, k, m)
        PROVE  lane'[w][l].snap = smtp[l] /\ smtp[l] \in Blocks
    <3>1. v = w /\ k = l /\ lane'[w][l].snap = lane[w][l].snap
      BY <2>0, <2>1 DEF StartSend, Run
    <3> QED BY <2>0, <2>1, <3>1 DEF StartSend, Changed
  <2>2. ASSUME NEW v \in Workers, NEW k \in Lanes, NEW r \in Run,
               lane' = [lane EXCEPT ![v][k] = r], r.pc # "sending"
        PROVE  FALSE
    BY <2>0, <2>2
  <2>3. ASSUME NEW v \in Workers, Tick(v) PROVE FALSE
    BY <2>0, <2>3 DEF Tick, Off
  <2>4. ASSUME NEW v \in Workers, NEW k \in Lanes,
               LaneEnds(v, k) \/ WithholdOthers(v, k) \/ LaneLost(v, k)
        PROVE  FALSE
    BY <2>4, <2>2, OffIsRun DEF LaneEnds, WithholdOthers, LaneLost, InFlight
  <2>5. ASSUME NEW v \in Workers, NEW k \in Lanes, NEW m \in Mails,
               Withhold(v, k, m) \/ FailUnreadable(v, k, m)
        PROVE  FALSE
    <3>1. CASE Withhold(v, k, m)
      <4>1. lane' = [lane EXCEPT ![v][k].pc = "stamping", ![v][k].mail = m]
        BY <3>1 DEF Withhold
      <4>2. lane'[w][l].pc \in {lane[w][l].pc, "stamping"}
        BY <2>0, <4>1 DEF Run
      <4> QED BY <4>2
    <3>2. CASE FailUnreadable(v, k, m)
      <4>1. lane' = [lane EXCEPT ![v][k].left = @ - 1]
        BY <3>2 DEF FailUnreadable
      <4>2. lane'[w][l].pc = lane[w][l].pc
        BY <2>0, <4>1 DEF Run
      <4> QED BY <4>2
    <3> QED BY <2>5, <3>1, <3>2
  <2>6. ASSUME NEW v \in Workers, NEW k \in Lanes, Transmit(v, k) PROVE FALSE
    <3>1. PICK o \in {"accepted", "refused", "silent"} : lane' = [lane EXCEPT ![v][k].pc = o]
      BY <2>6 DEF Transmit
    <3>2. lane'[w][l].pc \in {lane[w][l].pc, o}
      BY <2>0, <3>1 DEF Run
    <3> QED BY <3>2
  <2>7. ASSUME NEW v \in Workers, NEW k \in Lanes, Record(v, k) PROVE FALSE
    <3>1. CASE lane[v][k].pc = "silent"
      BY <3>1, <2>2, <2>7, OffIsRun DEF Record, InFlight
    <3>2. CASE lane[v][k].pc # "silent"
      <4>1. lane' = [lane EXCEPT ![v][k] = [lane[v][k] EXCEPT !.pc = "ready", !.mail = NoMail,
                                                    !.left = lane[v][k].left - 1]]
        BY <2>7, <3>2 DEF Record
      <4>2. lane'[w][l].pc \in {lane[w][l].pc, "ready"}
        BY <2>0, <4>1 DEF Run
      <4> QED BY <4>2
    <3> QED BY <3>1, <3>2
  <2>8. CASE UNCHANGED lane
    BY <2>8
  <2> QED
    BY <2>1, <2>3, <2>4, <2>5, <2>6, <2>7, <2>8
       DEF MailNext, mailVars, Enqueue, BackoffElapses, LateAnswer, LaneStep, Environment,
           RetryWrite, RetryRead, SaveSmtp, MoveToTrash, Restore, EraseSubject,
           PurgeTenant, PurgeLog
<1> QED BY <1>1, Invariance, PTL DEF MailSpec, OpensUnderStoredIdentity

-----------------------------------------------------------------------------
(* The honeypot: a suspect row is failed for good, because its reason or    *)
(* its erasure refuses every retry, and no editor has one in hand.          *)
Untouched(m) == /\ accepted[m] = 0
                /\ late[m] = 0
                /\ \A e \in Editors : editor[e] # m

SInv == /\ \A m \in Mails :
             /\ row[m].status = "none" => Untouched(m)
             /\ m \in suspect => Untouched(m)
             /\ m \in suspect => /\ row[m].status \in {"failed", "gone"}
                                 /\ row[m].why = "spam" \/ row[m].erased

\* What a step must leave alone for a row it did not itself make suspect.
LeavesAlone(m) == /\ accepted'[m] = accepted[m]
                  /\ late'[m] = late[m]
                  /\ \A e \in Editors : editor'[e] = m => editor[e] = m

\* A row that is kept keeps whether its answer is suspect.
LEMMA SuspectKept ==
  ASSUME SInv,
         \A m \in Mails : /\ row'[m].status = "none" => row[m].status = "none"
                          /\ m \in suspect' => m \in suspect \/ row[m].status = "none"
                          /\ m \in suspect \/ row[m].status = "none" => LeavesAlone(m)
                          /\ m \in suspect' => /\ row'[m].status \in {"failed", "gone"}
                                               /\ row'[m].why = "spam" \/ row'[m].erased
  PROVE  SInv'
BY DEF SInv, Untouched, LeavesAlone

\* The inductive step for the honeypot.
LEMMA NextSInv == IInv /\ SInv /\ [MailNext]_mailVars => SInv'
<1> SUFFICES ASSUME IInv, SInv, [MailNext]_mailVars PROVE SInv'
  OBVIOUS
<1>0. /\ row \in [Mails -> Row] /\ \A m \in Mails : row[m] \in Row
      /\ accepted \in [Mails -> Nat] /\ late \in [Mails -> Nat]
      /\ editor \in [Editors -> Mails \cup {NoMail}]
  BY DEF IInv, MailTypeOK
<1>1. ASSUME NEW m \in Mails, Enqueue(m) PROVE SInv'
  <2>1. \A n \in Mails : /\ n # m => row'[n] = row[n]
                         /\ row'[n].status = "none" => row[n].status = "none"
                         /\ n \in suspect' /\ n \notin suspect =>
                              n = m /\ row'[n].status = "failed" /\ row'[n].why = "spam"
    BY <1>0, <1>1 DEF Enqueue, Row
  <2>2. row[m].status = "none" /\ m \notin suspect
    BY <1>1 DEF Enqueue, SInv
  <2> QED BY <1>1, <2>1, <2>2, SuspectKept DEF Enqueue, LeavesAlone, SInv
<1>2. ASSUME NEW m \in Mails, BackoffElapses(m) PROVE SInv'
  <2>1. \A n \in Mails : row'[n].status = row[n].status /\ row'[n].why = row[n].why
                           /\ row'[n].erased = row[n].erased
    BY <1>0, <1>2 DEF BackoffElapses, Row
  <2> QED BY <1>2, <2>1, SuspectKept DEF BackoffElapses, LeavesAlone, SInv
<1>3. ASSUME NEW m \in Mails, LateAnswer(m) PROVE SInv'
  <2>1. m \notin suspect /\ row[m].status # "none"
    BY <1>0, <1>3 DEF LateAnswer, SInv, Untouched
  <2>2. \A n \in Mails : n # m => accepted'[n] = accepted[n] /\ late'[n] = late[n]
    BY <1>0, <1>3 DEF LateAnswer
  <2> QED BY <1>3, <2>1, <2>2, SuspectKept DEF LateAnswer, LeavesAlone, SInv
<1>4. ASSUME NEW w \in Workers, NEW l \in Lanes, Transmit(w, l) PROVE SInv'
  <2> DEFINE m == lane[w][l].mail
  <2>1. m \in Mails /\ row[m].status = "queued"
    BY <1>4 DEF Transmit, IInv, LaneShape, ConversationIsWorkable, Held, InFlight
  <2>2. \A n \in Mails : n # m => accepted'[n] = accepted[n] /\ late'[n] = late[n]
    BY <1>0, <1>4, <2>1 DEF Transmit
  <2> HIDE DEF m
  <2> QED BY <1>4, <2>1, <2>2, SuspectKept DEF Transmit, LeavesAlone, SInv
<1>5. ASSUME \A m \in Mails : /\ row[m].status = "queued" \/ row'[m] = row[m]
                              /\ row'[m].status = "none" => row[m].status = "none",
             UNCHANGED <<accepted, late, editor, suspect>>
      PROVE  SInv'
  BY <1>5, SuspectKept DEF LeavesAlone, SInv
<1>6. ASSUME NEW w \in Workers, NEW l \in Lanes, Record(w, l) PROVE SInv'
  <2> DEFINE m == lane[w][l].mail
  <2>1. m \in Mails /\ row[m].status = "queued" /\ row'[m].status # "none"
    BY <1>6, Recorded
  <2>2. \A n \in Mails : n # m => row'[n] = row[n]
    BY <1>6, Recorded
  <2>4. UNCHANGED <<accepted, late, editor, suspect>>
    BY <1>6 DEF Record
  <2> HIDE DEF m
  <2> QED BY <1>5, <2>1, <2>2, <2>4
<1>7. ASSUME NEW w \in Workers, NEW l \in Lanes, NEW m \in Mails,
             Withhold(w, l, m) \/ FailUnreadable(w, l, m)
      PROVE  SInv'
  <2>0. MayClaim(w, l, m)
    BY <1>7 DEF Withhold, FailUnreadable
  <2>1. row[m].status = "queued"
    BY <2>0, ClaimedIsHoldable DEF Holdable
  <2>2. \A n \in Mails : /\ row[n].status = "queued" \/ row'[n] = row[n]
                         /\ row'[n].status = "none" => row[n].status = "none"
    <3>1. CASE Withhold(w, l, m)
      BY <1>0, <2>1, <3>1 DEF Withhold, Row
    <3>2. CASE FailUnreadable(w, l, m)
      BY <1>0, <2>1, <3>2 DEF FailUnreadable, Row
    <3> QED BY <1>7, <3>1, <3>2
  <2>3. UNCHANGED <<accepted, late, editor, suspect>>
    BY <1>7 DEF Withhold, FailUnreadable
  <2> QED BY <1>5, <2>2, <2>3
<1>8. ASSUME NEW w \in Workers, NEW l \in Lanes, WithholdOthers(w, l) PROVE SInv'
  <2>1. \A n \in Mails : /\ row[n].status = "queued" \/ row'[n] = row[n]
                         /\ row'[n].status = "none" => row[n].status = "none"
    BY <1>0, <1>8 DEF WithholdOthers, Row
  <2> QED BY <1>5, <1>8, <2>1 DEF WithholdOthers
<1>9. ASSUME NEW e \in Editors, NEW m \in Mails, RetryRead(e, m) PROVE SInv'
  <2>1. m \notin suspect /\ row[m].status # "none"
    BY <1>9 DEF RetryRead, Retryable, SInv
  <2>2. \A d \in Editors : editor'[d] \in {editor[d], m}
    BY <1>0, <1>9 DEF RetryRead
  <2> QED BY <1>9, <2>1, <2>2, SuspectKept DEF RetryRead, LeavesAlone, SInv
<1>10. ASSUME NEW e \in Editors, RetryWrite(e) PROVE SInv'
  <2> DEFINE m == editor[e]
  <2>1. m \in Mails /\ m \notin suspect
    BY <1>0, <1>10 DEF RetryWrite, SInv, Untouched
  <2>2. \A n \in Mails : /\ n # m => row'[n] = row[n]
                         /\ row'[n].status = "none" => row[n].status = "none"
    BY <1>0, <1>10, <2>1 DEF RetryWrite, Row
  <2>3. \A n \in Mails, d \in Editors : editor'[d] = n => editor[d] = n
    <3>1. NoMail \notin Mails
      BY MailsAssumption DEF NoMail
    <3> QED BY <1>0, <1>10, <3>1 DEF RetryWrite
  <2> HIDE DEF m
  <2> QED BY <1>10, <2>1, <2>2, <2>3, SuspectKept DEF RetryWrite, LeavesAlone, SInv
<1>11. ASSUME \A m \in Mails : /\ row'[m].status \in {row[m].status, "failed", "gone"}
                               /\ row'[m].status \in {"failed", "gone"} =>
                                    row'[m].why = row[m].why \/ row'[m].erased
                               /\ row[m].erased => row'[m].erased,
              UNCHANGED <<accepted, late, editor, suspect>>
       PROVE  SInv'
  BY <1>11, SuspectKept DEF LeavesAlone, SInv
<1>12. ASSUME NEW s \in Subjects, EraseSubject(s) PROVE SInv'
  <2>1. \A m \in Mails : /\ row'[m].status \in {row[m].status, "failed"}
                         /\ row'[m] = row[m] \/ row'[m].erased
    BY <1>0, <1>12 DEF EraseSubject, Row
  <2> QED BY <1>11, <1>12, <2>1 DEF EraseSubject
<1>13. ASSUME NEW t \in Mails \cup Tenants, PurgeTenant(t) \/ PurgeLog(t)
       PROVE  SInv'
  <2>1. \A m \in Mails : /\ row'[m].status \in {row[m].status, "gone"}
                         /\ row'[m].why = row[m].why
                         /\ row'[m].erased = row[m].erased
    BY <1>0, <1>13 DEF PurgeTenant, PurgeLog, Row
  <2> QED BY <1>11, <1>13, <2>1 DEF PurgeTenant, PurgeLog
<1>14. CASE UNCHANGED <<row, accepted, late, editor, suspect>>
  BY <1>11, <1>14
<1>15. ASSUME NEW w \in Workers, NEW l \in Lanes, LaneStep(w, l) PROVE SInv'
  BY <1>4, <1>6, <1>7, <1>8, <1>14, <1>15 DEF LaneStep, LaneEnds, StartSend
<1>17. ASSUME NEW w \in Workers, NEW l \in Lanes, LaneLost(w, l) PROVE SInv'
  <2>1. \A n \in Mails : row[n].status # "queued" => late'[n] = late[n]
    <3> SUFFICES ASSUME NEW n \in Mails, row[n].status # "queued" PROVE late'[n] = late[n]
      OBVIOUS
    <3>1. lane[w][l].pc = "sending" => n # lane[w][l].mail
      BY DEF IInv, ConversationIsWorkable, Held, InFlight
    <3> QED BY <1>0, <1>17, <3>1 DEF LaneLost
  <2>2. UNCHANGED <<row, accepted, editor, suspect>>
    BY <1>17 DEF LaneLost
  <2> QED BY <2>1, <2>2, SuspectKept DEF LeavesAlone, SInv
<1>16. CASE Environment
  BY <1>9, <1>10, <1>12, <1>13, <1>14, <1>16
     DEF Environment, SaveSmtp, MoveToTrash, Restore
<1> QED BY <1>1, <1>2, <1>3, <1>14, <1>15, <1>16, <1>17 DEF MailNext, Tick, mailVars

(* What was typed into the honeypot is never handed to a mail server, for   *)
(* any number of editors retrying at once: MailLogService.retry refuses the *)
(* spam reason and the blanked line, and nothing else clears the one        *)
(* without setting the other.                                               *)
THEOREM HoneypotHolds == MailSpec => []SuspectNeverSent
<1>1. MailInit => SInv
  BY MailsAssumption DEF MailInit, SInv, Untouched, NoMail
<1>2. IInv /\ SInv => SuspectNeverSent
  BY DEF IInv, MailTypeOK, SInv, Untouched, SuspectNeverSent
<1> QED BY <1>1, <1>2, NextSInv, Invariance, PTL DEF MailSpec

-----------------------------------------------------------------------------
(* Duplicates and the log's promise.  MailLogService.retry decides on a     *)
(* read and writes without its refusals, so two people who have read the    *)
(* same failed line can queue it again after it was delivered; everything   *)
(* below is therefore said of the behaviours in which no two people have    *)
(* the same line in hand.                                                   *)
OneRetryEach ==
  \A e, f \in Editors : editor[e] = editor[f] /\ editor[e] # NoMail => e = f

\* A line somebody is about to retry has not been picked up again.
EditorsKnow ==
  \A e \in Editors : editor[e] # NoMail => row[editor[e]].status \in {"failed", "gone"}

\* A lane has the mail server's word for the row and has not written it yet.
Accepting(m) ==
  \E w \in Workers, l \in Lanes : lane[w][l].pc = "accepted" /\ lane[w][l].mail = m

\* One acceptance is, or is about to be, in the row.
Counted(m) == row[m].status \in {"sent", "gone"} \/ Accepting(m)

Settled ==
  \A m \in Mails :
    /\ accepted[m] <= stray[m] + 1
    /\ ~Counted(m) => accepted[m] <= stray[m]
    /\ Accepting(m) => accepted[m] > 0
    /\ row[m].status = "none" => ~row[m].erased /\ late[m] = 0

DInv == EditorsKnow /\ Settled

\* What a step owes to a row whose acceptances it does not count.
RowsMove ==
  \A m \in Mails :
    /\ row[m].status \in {"sent", "gone"} => row'[m].status \in {"sent", "gone"}
    /\ row[m].status \in {"failed", "gone"} => row'[m].status \in {"failed", "gone"}
    /\ row'[m].status = "none" => row'[m] = row[m]

\* A step that counts nothing and turns no settled row back.
LEMMA DInvKept ==
  ASSUME IInv, DInv, RowsMove, UNCHANGED <<accepted, stray, late, editor>>,
         \A m \in Mails : Accepting(m)' <=> Accepting(m)
  PROVE  DInv'
<1>1. EditorsKnow'
  <2> SUFFICES ASSUME NEW e \in Editors, editor[e] # NoMail
               PROVE  row'[editor[e]].status \in {"failed", "gone"}
    BY DEF EditorsKnow
  <2>1. editor[e] \in Mails
    BY DEF IInv, MailTypeOK
  <2> QED BY <2>1 DEF DInv, EditorsKnow, RowsMove
<1>2. Settled'
  BY DEF DInv, Settled, RowsMove, Counted
<1> QED BY <1>1, <1>2 DEF DInv

\* A lane that neither had nor gets the server's word moves no acceptance.
LEMMA LaneMoves ==
  ASSUME IInv, NEW w \in Workers, NEW l \in Lanes, NEW r,
         lane' = [lane EXCEPT ![w][l] = r],
         lane[w][l].pc # "accepted", r.pc # "accepted"
  PROVE  \A m \in Mails : Accepting(m)' <=> Accepting(m)
<1>1. lane'[w][l] = r
  BY DEF IInv, MailTypeOK
<1>2. \A v \in Workers, k \in Lanes : (v # w \/ k # l) => lane'[v][k] = lane[v][k]
  BY DEF IInv, MailTypeOK
<1> QED BY <1>1, <1>2 DEF Accepting

\* A row in a conversation that is not answered yet has no acceptance waiting.
LEMMA HeldIsNotAccepting ==
  ASSUME IInv, NEW w \in Workers, NEW l \in Lanes, NEW m \in Mails, Held(w, l, m)
  PROVE  Accepting(m) <=> lane[w][l].pc = "accepted"
BY DEF IInv, OneConversationPerRow, Accepting, Held, InFlight

-----------------------------------------------------------------------------
(* Which Promise step a change of the rows is. *)
Lines == [m \in Mails |-> LineOf(m)]
Taken == {m \in Mails : accepted[m] > 0}

\* Lines that read the same promise the same.
LEMMA LinesStand ==
  ASSUME UNCHANGED accepted,
         \A m \in Mails : /\ row'[m].status = row[m].status
                          /\ row'[m].erased = row[m].erased
  PROVE  UNCHANGED <<Lines, Taken>>
BY DEF Lines, Taken, LineOf

\* One line is written, confirmed, given up or retried.
LEMMA LineMoves ==
  ASSUME NEW m \in Mails, UNCHANGED accepted,
         \A n \in Mails : n # m => row'[n] = row[n],
         \/ LineOf(m) = "none" /\ LineOf(m)' \in {"waiting", "failed"}
         \/ LineOf(m) = "waiting" /\ LineOf(m)' = "sent" /\ accepted[m] > 0
         \/ LineOf(m) = "waiting" /\ LineOf(m)' = "failed"
         \/ LineOf(m) = "failed" /\ LineOf(m)' = "waiting"
  PROVE  Promise!Next
<1>1. /\ Lines' = [Lines EXCEPT ![m] = LineOf(m)']
      /\ Lines[m] = LineOf(m)
      /\ Taken' = Taken
  <2>1. \A n \in Mails : n # m => LineOf(n)' = LineOf(n)
    BY DEF LineOf
  <2> QED BY <2>1 DEF Lines, Taken
<1>2. Promise!Write(m) \/ Promise!Confirm(m) \/ Promise!GiveUp(m) \/ Promise!Retry(m)
  <2>1. CASE LineOf(m) = "none" /\ LineOf(m)' \in {"waiting", "failed"}
    BY <1>1, <2>1 DEF Promise!Write, Lines, Taken
  <2>2. CASE LineOf(m) = "waiting" /\ LineOf(m)' = "sent" /\ accepted[m] > 0
    BY <1>1, <2>2 DEF Promise!Confirm, Lines, Taken
  <2>3. CASE LineOf(m) = "waiting" /\ LineOf(m)' = "failed"
    BY <1>1, <2>3 DEF Promise!GiveUp, Lines, Taken
  <2>4. CASE LineOf(m) = "failed" /\ LineOf(m)' = "waiting"
    BY <1>1, <2>4 DEF Promise!Retry, Lines, Taken
  <2> QED BY <2>1, <2>2, <2>3, <2>4
<1> QED BY <1>2 DEF Promise!Next

\* A mail server takes a written mail over.
LEMMA LineTaken ==
  ASSUME IInv, NEW m \in Mails, UNCHANGED row, LineOf(m) # "none",
         accepted' = [accepted EXCEPT ![m] = @ + 1]
  PROVE  Promise!Next
<1>1. accepted \in [Mails -> Nat]
  BY DEF IInv, MailTypeOK
<1>2. Taken' = Taken \cup {m}
  BY <1>1 DEF Taken
<1>3. Lines' = Lines /\ Lines[m] # "none"
  BY DEF Lines, LineOf
<1>4. Promise!Take(m)
  BY <1>2, <1>3 DEF Promise!Take, Lines, Taken
<1> QED BY <1>4 DEF Promise!Next

-----------------------------------------------------------------------------
(* What every step owes: the account of acceptances and a Promise step. *)
Owed == DInv' /\ (Promise!Next \/ UNCHANGED <<Lines, Taken>>)

\* Steps that show nothing new: no line reads differently, nothing is taken.
LEMMA ShowsNothing ==
  ASSUME IInv, DInv, UNCHANGED <<accepted, stray, late, editor>>,
         \A m \in Mails : /\ row'[m].status = row[m].status
                          /\ row'[m].erased = row[m].erased
                          /\ row[m].status = "none" => row'[m] = row[m]
                          /\ Accepting(m)' <=> Accepting(m)
  PROVE  Owed
<1>1. RowsMove
  BY DEF RowsMove
<1> QED BY <1>1, DInvKept, LinesStand DEF Owed

\* A new mail is written waiting or failed (enqueueMail).
LEMMA EnqueueOwes ==
  ASSUME IInv, DInv, NEW m \in Mails, Enqueue(m) PROVE Owed
<1>1. /\ row \in [Mails -> Row] /\ row[m] \in Row
      /\ row[m].status = "none" /\ ~row[m].erased
  BY DEF IInv, MailTypeOK, DInv, Settled, Enqueue
<1>2. /\ \A n \in Mails : n # m => row'[n] = row[n]
      /\ row'[m].status \in {"queued", "failed"}
      /\ ~row'[m].erased
  BY <1>1 DEF Enqueue, Row
<1>3. UNCHANGED <<accepted, stray, late, editor, lane>>
  BY DEF Enqueue
<1>4. EditorsKnow' /\ Settled'
  <2>1. \A n \in Mails : Accepting(n)' <=> Accepting(n)
    BY <1>3 DEF Accepting
  <2>2. Settled'
    BY <1>1, <1>2, <1>3, <2>1 DEF DInv, Settled, Counted
  <2>3. \A e \in Editors : editor[e] # NoMail => editor[e] \in Mails /\ editor[e] # m
    BY <1>1 DEF DInv, EditorsKnow, IInv, MailTypeOK
  <2> QED BY <1>2, <1>3, <2>2, <2>3 DEF DInv, EditorsKnow
<1>5. LineOf(m) = "none" /\ LineOf(m)' \in {"waiting", "failed"}
  BY <1>1, <1>2 DEF LineOf
<1> QED BY <1>2, <1>3, <1>4, <1>5, LineMoves DEF Owed, DInv

\* A postponed mail falls due: the log shows it waiting as before.
LEMMA BackoffOwes ==
  ASSUME IInv, DInv, NEW m \in Mails, BackoffElapses(m) PROVE Owed
<1>1. \A n \in Mails : /\ row'[n].status = row[n].status
                       /\ row'[n].erased = row[n].erased
                       /\ row[n].status = "none" => row'[n] = row[n]
  BY DEF BackoffElapses, IInv, MailTypeOK, Row
<1> QED BY <1>1, ShowsNothing DEF BackoffElapses, Accepting

\* A conversation given up long ago is answered: the mail is taken, unseen.
LEMMA LateAnswerOwes ==
  ASSUME IInv, DInv, NEW m \in Mails, LateAnswer(m) PROVE Owed
<1>1. /\ accepted \in [Mails -> Nat] /\ stray \in [Mails -> Nat]
      /\ late \in [Mails -> Nat] /\ late[m] > 0
      /\ UNCHANGED <<row, lane, editor>>
  BY DEF IInv, MailTypeOK, LateAnswer
<1>2. \A n \in Mails : /\ late[n] = 0 => late'[n] = 0
                       /\ Accepting(n)' <=> Accepting(n)
                       /\ Counted(n)' <=> Counted(n)
  BY <1>1 DEF LateAnswer, Accepting, Counted
<1>3. row[m].status # "none"
  BY <1>1 DEF DInv, Settled
<1>4. EditorsKnow'
  BY <1>1 DEF DInv, EditorsKnow
<1>5. CASE UNCHANGED <<accepted, stray>>
  BY <1>1, <1>2, <1>4, <1>5, LinesStand DEF Owed, DInv, Settled
<1>6. CASE /\ accepted' = [accepted EXCEPT ![m] = @ + 1]
           /\ stray' = [stray EXCEPT ![m] = @ + 1]
  <2>1. \A n \in Mails : \/ accepted'[n] = accepted[n] /\ stray'[n] = stray[n]
                         \/ accepted'[n] = accepted[n] + 1 /\ stray'[n] = stray[n] + 1
    BY <1>1, <1>6
  <2>2. \A n \in Mails : /\ accepted'[n] <= stray'[n] + 1 <=> accepted[n] <= stray[n] + 1
                         /\ accepted'[n] <= stray'[n] <=> accepted[n] <= stray[n]
                         /\ accepted[n] > 0 => accepted'[n] > 0
    <3> TAKE n \in Mails
    <3>1. accepted[n] \in Nat /\ stray[n] \in Nat
      BY <1>1
    <3> QED BY <2>1, <3>1
  <2>3. Settled'
    BY <1>1, <1>2, <2>2 DEF DInv, Settled
  <2>4. LineOf(m) # "none"
    BY <1>3 DEF LineOf
  <2> QED BY <1>1, <1>4, <1>6, <2>3, <2>4, LineTaken DEF Owed, DInv
<1> QED BY <1>5, <1>6 DEF LateAnswer

\* A round opens lanes: nobody has a server's word before or after.
LEMMA TickOwes ==
  ASSUME IInv, DInv, NEW w \in Workers, Tick(w) PROVE Owed
<1> DEFINE f == [l \in Lanes |->
                  IF l \in OpenedLanes
                    THEN [pc |-> "ready", snap |-> smtp[l], mail |-> NoMail,
                          left |-> LaneBatch]
                    ELSE Off]
<1>1. \A l \in Lanes : f[l].pc # "accepted" /\ lane[w][l].pc # "accepted"
  BY DEF Off, Tick, BetweenRuns
<1>2. lane' = [lane EXCEPT ![w] = f] /\ lane \in [Workers -> [Lanes -> Run]]
  BY DEF Tick, IInv, MailTypeOK
<1> HIDE DEF f
<1>3. \A v \in Workers, l \in Lanes :
        \/ lane'[v][l] = lane[v][l]
        \/ lane'[v][l].pc # "accepted" /\ lane[v][l].pc # "accepted"
  BY <1>1, <1>2
<1>4. \A m \in Mails : Accepting(m)' <=> Accepting(m)
  BY <1>3 DEF Accepting
<1> QED BY <1>4, ShowsNothing DEF Tick

\* Steps of a lane that leave the log and the acceptances alone.
LEMMA LaneOwes ==
  ASSUME IInv, DInv, NEW w \in Workers, NEW l \in Lanes, NEW r,
         lane' = [lane EXCEPT ![w][l] = r],
         lane[w][l].pc # "accepted", r.pc # "accepted",
         UNCHANGED <<accepted, stray, late, editor>>,
         \A m \in Mails : /\ row'[m].status = row[m].status
                          /\ row'[m].erased = row[m].erased
                          /\ row[m].status = "none" => row'[m] = row[m]
  PROVE  Owed
BY LaneMoves, ShowsNothing

\* A lane ends, or opens the conversation for its claimed row.
LEMMA ClaimOwes ==
  ASSUME IInv, DInv, NEW w \in Workers, NEW l \in Lanes,
         LaneEnds(w, l) \/ \E m \in Mails : StartSend(w, l, m)
  PROVE  Owed
<1>1. CASE LaneEnds(w, l)
  <2>1. Off.pc = "off"
    BY DEF Off
  <2> QED BY <1>1, <2>1, LaneOwes DEF LaneEnds
<1>2. ASSUME NEW m \in Mails, StartSend(w, l, m) PROVE Owed
  <2> DEFINE r == [lane[w][l] EXCEPT !.pc = "sending", !.mail = m]
  <2>1. lane[w][l] \in Run /\ lane[w][l].pc # "accepted"
    BY <1>2 DEF StartSend, MayClaim, IInv, MailTypeOK
  <2>2. r.pc = "sending"
    BY <2>1 DEF Run
  <2>3. lane' = [lane EXCEPT ![w][l] = r]
    <3>1. lane \in [Workers -> [Lanes -> Run]]
      BY DEF IInv, MailTypeOK
    <3>2. lane' = [lane EXCEPT ![w][l].pc = "sending", ![w][l].mail = m]
      BY <1>2 DEF StartSend
    <3> QED BY <3>1, <3>2
  <2> HIDE DEF r
  <2> QED BY <1>2, <2>1, <2>2, <2>3, LaneOwes DEF StartSend
<1> QED BY <1>1, <1>2

\* Without a mail server the claimed line gets a reason and keeps waiting.
LEMMA WithholdOwes ==
  ASSUME IInv, DInv, NEW w \in Workers, NEW l \in Lanes, NEW m \in Mails,
         Withhold(w, l, m)
  PROVE  Owed
<1> DEFINE r == [lane[w][l] EXCEPT !.pc = "stamping", !.mail = m]
<1>1. lane[w][l] \in Run /\ lane[w][l].pc # "accepted" /\ row[m].status = "queued"
  <2>1. MayClaim(w, l, m)
    BY DEF Withhold
  <2> QED BY <2>1, ClaimedIsHoldable DEF Holdable
<1>2. r.pc = "stamping"
  BY <1>1 DEF Run
<1>3. lane' = [lane EXCEPT ![w][l] = r]
  BY DEF Withhold, IInv, MailTypeOK
<1>4. \A n \in Mails : /\ row'[n].status = row[n].status
                       /\ row'[n].erased = row[n].erased
                       /\ row[n].status = "none" => row'[n] = row[n]
  <2>1. row \in [Mails -> Row] /\ row' = [row EXCEPT ![m].why = "no server"]
    BY DEF Withhold, IInv, MailTypeOK
  <2> QED BY <1>1, <2>1 DEF Row
<1>5. UNCHANGED <<accepted, stray, late, editor>>
  BY DEF Withhold
<1> HIDE DEF r
<1> QED BY <1>1, <1>2, <1>3, <1>4, <1>5, LaneOwes

\* And so do the other waiting lines of its lane.
LEMMA WithholdOthersOwes ==
  ASSUME IInv, DInv, NEW w \in Workers, NEW l \in Lanes, WithholdOthers(w, l)
  PROVE  Owed
<1>1. \A n \in Mails : row[n] \in Row
  BY DEF IInv, MailTypeOK
<1>2. \A n \in Mails : /\ row'[n].status = row[n].status
                       /\ row'[n].erased = row[n].erased
                       /\ row[n].status = "none" => row'[n] = row[n]
  BY <1>1 DEF WithholdOthers, Row
<1>3. Off.pc = "off"
  BY DEF Off
<1> QED BY <1>2, <1>3, LaneOwes DEF WithholdOthers

\* An unreadable account: the waiting line is given up.
LEMMA FailUnreadableOwes ==
  ASSUME IInv, DInv, NEW w \in Workers, NEW l \in Lanes, NEW m \in Mails,
         FailUnreadable(w, l, m)
  PROVE  Owed
<1> DEFINE r == [lane[w][l] EXCEPT !.left = @ - 1]
<1>1. /\ lane[w][l] \in Run /\ lane[w][l].pc = "ready"
      /\ row[m] \in Row /\ row[m].status = "queued" /\ ~row[m].erased
  BY ClaimedIsHoldable DEF FailUnreadable, Holdable
<1>2. r.pc = "ready" /\ lane' = [lane EXCEPT ![w][l] = r]
  BY <1>1 DEF FailUnreadable, IInv, MailTypeOK, Run
<1> HIDE DEF r
<1>3. /\ \A n \in Mails : n # m => row'[n] = row[n]
      /\ row'[m].status = "failed" /\ ~row'[m].erased
  BY <1>1 DEF FailUnreadable, IInv, MailTypeOK, Row
<1>4. RowsMove
  BY <1>1, <1>3 DEF RowsMove
<1>5. \A n \in Mails : Accepting(n)' <=> Accepting(n)
  BY <1>1, <1>2, LaneMoves
<1>6. LineOf(m) = "waiting" /\ LineOf(m)' = "failed"
  BY <1>1, <1>3 DEF LineOf
<1>7. UNCHANGED <<accepted, stray, late, editor>>
  BY DEF FailUnreadable
<1>8. DInv'
  BY <1>4, <1>5, <1>7, DInvKept
<1>9. Promise!Next
  BY <1>3, <1>6, <1>7, LineMoves
<1> QED BY <1>8, <1>9 DEF Owed

\* The mail server answers, refuses or stays silent.
LEMMA TransmitOwes ==
  ASSUME IInv, DInv, NEW w \in Workers, NEW l \in Lanes, Transmit(w, l) PROVE Owed
<1>0. PICK m \in Mails : m = lane[w][l].mail
  BY DEF Transmit, IInv, LaneShape, InFlight
<1>1. /\ lane[w][l] \in Run /\ lane[w][l].pc = "sending"
      /\ Held(w, l, m)
      /\ row[m].status = "queued" /\ ~row[m].erased
  BY <1>0 DEF Transmit, IInv, MailTypeOK, LaneShape, ConversationIsWorkable, InFlight, Held
<1>2. UNCHANGED <<row, stray, editor>> /\ LineOf(m) # "none"
  BY <1>1 DEF Transmit, LineOf
<1>3. EditorsKnow'
  BY <1>2 DEF DInv, EditorsKnow
<1>4. PICK o \in {"accepted", "refused", "silent"} :
        /\ lane' = [lane EXCEPT ![w][l].pc = o]
        /\ o = "accepted" => /\ accepted' = [accepted EXCEPT ![m] = @ + 1]
                             /\ UNCHANGED late
        /\ o = "refused" => UNCHANGED <<accepted, late>>
        /\ o = "silent" => /\ UNCHANGED accepted
                           /\ late' = [late EXCEPT ![m] = @ + 1]
  BY <1>0 DEF Transmit
<1> DEFINE r == [lane[w][l] EXCEPT !.pc = o]
<1>5. r.pc = o /\ r.mail = m /\ lane' = [lane EXCEPT ![w][l] = r]
  BY <1>0, <1>1, <1>4 DEF Run, IInv, MailTypeOK
<1>6. accepted \in [Mails -> Nat] /\ stray \in [Mails -> Nat] /\ late \in [Mails -> Nat]
  BY DEF IInv, MailTypeOK
<1>7. ~Accepting(m)
  BY <1>1, HeldIsNotAccepting
<1> HIDE DEF r
<1>8. CASE o # "accepted"
  <2>1. \A n \in Mails : Accepting(n)' <=> Accepting(n)
    BY <1>1, <1>5, <1>8, LaneMoves
  <2>2. UNCHANGED accepted /\ \A n \in Mails : n # m => late'[n] = late[n]
    BY <1>4, <1>6, <1>8
  <2>3. Settled'
    BY <1>1, <1>2, <2>1, <2>2 DEF DInv, Settled, Counted
  <2> QED BY <1>2, <1>3, <2>2, <2>3, LinesStand DEF Owed, DInv
<1>9. CASE o = "accepted"
  <2>1. lane'[w][l] = r
    BY <1>5 DEF IInv, MailTypeOK
  <2>2. \A v \in Workers, k \in Lanes : (v # w \/ k # l) => lane'[v][k] = lane[v][k]
    BY <1>5 DEF IInv, MailTypeOK
  <2>3. \A n \in Mails : Accepting(n)' <=> Accepting(n) \/ n = m
    BY <1>1, <1>5, <1>9, <2>1, <2>2 DEF Accepting
  <2>4. /\ accepted'[m] = accepted[m] + 1 /\ accepted[m] <= stray[m]
        /\ \A n \in Mails : n # m => accepted'[n] = accepted[n]
    BY <1>1, <1>4, <1>6, <1>7, <1>9 DEF DInv, Settled, Counted
  <2>5. accepted'[m] <= stray[m] + 1 /\ accepted'[m] > 0
    BY <1>1, <1>6, <2>4
  <2>6. Settled'
    <3>1. ASSUME NEW n \in Mails, n # m
          PROVE  /\ accepted[n] <= stray[n] + 1
                 /\ ~Counted(n)' => accepted[n] <= stray[n]
                 /\ Accepting(n)' => accepted[n] > 0
                 /\ row[n].status = "none" => ~row[n].erased /\ late[n] = 0
      BY <1>2, <2>3, <3>1 DEF DInv, Settled, Counted
    <3>2. Counted(m)'
      BY <1>1, <2>3 DEF Counted
    <3> QED BY <1>1, <1>2, <1>4, <1>9, <2>4, <2>5, <3>1, <3>2 DEF Settled
  <2> QED BY <1>1, <1>2, <1>3, <1>4, <1>9, <2>6, LineTaken DEF Owed, DInv
<1> QED BY <1>8, <1>9

\* The outcome reaches the row: sent only on the server's word.
LEMMA RecordOwes ==
  ASSUME IInv, DInv, NEW w \in Workers, NEW l \in Lanes, Record(w, l) PROVE Owed
<1>0. PICK m \in Mails : m = lane[w][l].mail
  BY DEF Record, IInv, LaneShape, InFlight
<1>1. /\ lane[w][l] \in Run /\ lane[w][l].pc \in {"accepted", "refused", "silent"}
      /\ Held(w, l, m)
      /\ row[m].status = "queued" /\ ~row[m].erased
      /\ \A n \in Mails : n # m => row'[n] = row[n]
      /\ row'[m].status \in {"queued", "sent", "failed"} /\ ~row'[m].erased
  <2>1. lane[w][l].pc \in {"accepted", "refused", "silent"}
    BY DEF Record
  <2> QED BY <1>0, <2>1, Recorded
<1>2. row'[m].status = "sent" <=> lane[w][l].pc = "accepted"
  <2>1. row \in [Mails -> Row] /\ row[m] \in Row
    BY DEF IInv, MailTypeOK
  <2>2. CASE lane[w][l].pc = "accepted"
    BY <1>0, <2>1, <2>2 DEF Record, Delivered, Row
  <2>3. CASE lane[w][l].pc # "accepted"
    <3>1. row'[m].status \in {"failed", row[m].status}
      BY <1>0, <2>1, <2>3 DEF Record, Delivered, Row
    <3> QED BY <1>1, <2>3, <3>1
  <2> QED BY <2>2, <2>3
<1>3. Accepting(m) <=> lane[w][l].pc = "accepted"
  BY <1>1, HeldIsNotAccepting
<1>4. UNCHANGED <<accepted, stray, late, editor>>
  BY DEF Record
<1>5. lane'[w][l].pc # "accepted"
  <2>1. lane' \in [Workers -> [Lanes -> Run]] /\ lane \in [Workers -> [Lanes -> Run]]
    BY RecordKeeps DEF IInv, MailTypeOK
  <2>2. CASE lane[w][l].pc = "silent"
    <3>1. lane' = [lane EXCEPT ![w][l] = Off] /\ Off.pc = "off"
      BY <2>2 DEF Record, Off
    <3> QED BY <2>1, <3>1
  <2>3. CASE lane[w][l].pc # "silent"
    <3> DEFINE r == [lane[w][l] EXCEPT !.pc = "ready", !.mail = NoMail,
                                       !.left = lane[w][l].left - 1]
    <3>1. lane' = [lane EXCEPT ![w][l] = r] /\ r.pc = "ready"
      BY <1>1, <2>3 DEF Record, Run
    <3> HIDE DEF r
    <3> QED BY <2>1, <3>1
  <2> QED BY <2>2, <2>3
<1>6. \A v \in Workers, k \in Lanes : (v # w \/ k # l) => lane'[v][k] = lane[v][k]
  BY DEF Record, IInv, MailTypeOK
<1>7. /\ \A n \in Mails : n # m => (Accepting(n)' <=> Accepting(n))
      /\ ~Accepting(m)'
  <2>1. \A v \in Workers, k \in Lanes :
          lane[v][k].pc = "accepted" /\ lane[v][k].mail = m => v = w /\ k = l
    BY <1>1 DEF IInv, OneConversationPerRow, Held, InFlight
  <2> QED BY <1>0, <1>5, <1>6, <2>1 DEF Accepting
<1>8. EditorsKnow'
  BY <1>1, <1>4 DEF DInv, EditorsKnow, IInv, MailTypeOK
<1>9. Settled'
  <2>1. ASSUME NEW n \in Mails, n # m
        PROVE  /\ accepted[n] <= stray[n] + 1
               /\ ~Counted(n)' => accepted[n] <= stray[n]
               /\ Accepting(n)' => accepted[n] > 0
               /\ row'[n].status = "none" => ~row'[n].erased /\ late[n] = 0
    BY <1>1, <1>7, <2>1 DEF DInv, Settled, Counted
  <2>2. /\ accepted[m] <= stray[m] + 1
        /\ ~Counted(m)' => accepted[m] <= stray[m]
    BY <1>1, <1>2, <1>3 DEF DInv, Settled, Counted
  <2> QED BY <1>1, <1>4, <1>7, <2>1, <2>2 DEF Settled
<1>10. Promise!Next \/ UNCHANGED <<Lines, Taken>>
  <2>1. LineOf(m) = "waiting" /\ LineOf(m)' \in {"waiting", "sent", "failed"}
    BY <1>1 DEF LineOf
  <2>2. CASE LineOf(m)' = "waiting"
    <3>1. row'[m].status = "queued"
      BY <1>1, <2>2 DEF LineOf
    <3>2. row'[m].erased = row[m].erased
      <4>1. row' \in [Mails -> Row] /\ row \in [Mails -> Row]
        BY RecordKeeps DEF IInv, MailTypeOK
      <4>2. row'[m].erased \in BOOLEAN /\ row[m].erased \in BOOLEAN
        BY <4>1 DEF Row
      <4> QED BY <1>1, <4>2
    <3> QED BY <1>1, <1>4, <3>1, <3>2, LinesStand
  <2>3. CASE LineOf(m)' = "sent"
    <3>1. accepted[m] > 0
      BY <1>1, <1>2, <1>3, <2>3 DEF LineOf, DInv, Settled
    <3> QED BY <1>1, <1>4, <2>1, <2>3, <3>1, LineMoves
  <2>4. CASE LineOf(m)' = "failed"
    BY <1>1, <1>4, <2>1, <2>4, LineMoves
  <2> QED BY <2>1, <2>2, <2>3, <2>4
<1> QED BY <1>8, <1>9, <1>10 DEF Owed, DInv

\* A lost lane leaves behind at most one acceptance its row never saw.
LEMMA LaneLostOwes ==
  ASSUME IInv, DInv, NEW w \in Workers, NEW l \in Lanes, LaneLost(w, l) PROVE Owed
<1>1. /\ lane' = [lane EXCEPT ![w][l] = Off] /\ Off.pc = "off"
      /\ UNCHANGED <<row, accepted, editor>>
  BY DEF LaneLost, Off
<1>2. CASE lane[w][l].pc # "accepted"
  <2>1. UNCHANGED stray
    BY <1>2 DEF LaneLost
  <2>2. \A n \in Mails : Accepting(n)' <=> Accepting(n)
    BY <1>1, <1>2, LaneMoves
  <2>3. \A n \in Mails : row[n].status = "none" => late'[n] = late[n]
    <3> SUFFICES ASSUME NEW n \in Mails, row[n].status = "none" PROVE late'[n] = late[n]
      OBVIOUS
    <3>1. lane[w][l].pc = "sending" => n # lane[w][l].mail
      BY DEF IInv, ConversationIsWorkable, Held, InFlight
    <3> QED BY <3>1 DEF LaneLost, IInv, MailTypeOK
  <2>4. Settled'
    BY <1>1, <2>1, <2>2, <2>3 DEF DInv, Settled, Counted
  <2>5. EditorsKnow'
    BY <1>1 DEF DInv, EditorsKnow
  <2> QED BY <1>1, <2>4, <2>5, LinesStand DEF Owed, DInv
<1>3. CASE lane[w][l].pc = "accepted"
  <2>0. PICK m \in Mails : m = lane[w][l].mail
    BY <1>3 DEF IInv, LaneShape, InFlight
  <2>1. /\ stray' = [stray EXCEPT ![m] = @ + 1] /\ stray \in [Mails -> Nat]
        /\ UNCHANGED late
    BY <1>3, <2>0 DEF LaneLost, IInv, MailTypeOK
  <2>2. /\ lane'[w][l].pc # "accepted"
        /\ \A v \in Workers, k \in Lanes : (v # w \/ k # l) => lane'[v][k] = lane[v][k]
    BY <1>1 DEF IInv, MailTypeOK
  <2>3. \A n \in Mails : /\ n # m => (Accepting(n)' <=> Accepting(n))
                         /\ Accepting(n)' => Accepting(n)
    BY <2>0, <2>2 DEF Accepting
  <2>4. Settled'
    <3>1. ASSUME NEW n \in Mails, n # m
          PROVE  /\ accepted[n] <= stray'[n] + 1
                 /\ ~Counted(n)' => accepted[n] <= stray'[n]
                 /\ Accepting(n)' => accepted[n] > 0
      BY <1>1, <2>1, <2>3, <3>1 DEF DInv, Settled, Counted
    <3>2. accepted[m] <= stray[m] + 1 /\ accepted[m] \in Nat /\ stray[m] \in Nat
      BY DEF DInv, Settled, IInv, MailTypeOK
    <3>3. accepted[m] <= stray'[m]
      BY <2>1, <3>2
    <3>4. accepted[m] <= stray'[m] + 1
      BY <2>1, <3>2
    <3>5. Accepting(m)' => accepted[m] > 0
      BY <2>3 DEF DInv, Settled
    <3>6. \A n \in Mails : row[n].status = "none" => ~row[n].erased /\ late[n] = 0
      BY DEF DInv, Settled
    <3> QED BY <1>1, <2>1, <3>1, <3>3, <3>4, <3>5, <3>6 DEF Settled
  <2>5. EditorsKnow'
    BY <1>1 DEF DInv, EditorsKnow
  <2> QED BY <1>1, <2>4, <2>5, LinesStand DEF Owed, DInv
<1> QED BY <1>2, <1>3

\* Taking a failed line in hand changes nothing the log shows.
LEMMA RetryReadOwes ==
  ASSUME IInv, DInv, NEW e \in Editors, NEW m \in Mails, RetryRead(e, m)
  PROVE  Owed
<1>1. UNCHANGED <<row, lane, accepted, stray, late>> /\ row[m].status = "failed"
  BY DEF RetryRead, Retryable
<1>2. \A d \in Editors : editor'[d] \in {editor[d], m}
  BY DEF RetryRead, IInv, MailTypeOK
<1>3. EditorsKnow'
  BY <1>1, <1>2 DEF DInv, EditorsKnow
<1>4. \A n \in Mails : Accepting(n)' <=> Accepting(n)
  BY <1>1 DEF Accepting
<1>5. Settled'
  BY <1>1, <1>4 DEF DInv, Settled, Counted
<1> QED BY <1>1, <1>3, <1>5, LinesStand DEF Owed, DInv

\* Only a failed line waits again, and nobody else has it in hand.
LEMMA RetryWriteOwes ==
  ASSUME IInv, DInv, OneRetryEach, NEW e \in Editors, RetryWrite(e) PROVE Owed
<1>0. PICK m \in Mails : m = editor[e]
  BY DEF RetryWrite, IInv, MailTypeOK
<1>1. row \in [Mails -> Row] /\ row[m] \in Row /\ row[m].status \in {"failed", "gone"}
  BY <1>0 DEF IInv, MailTypeOK, DInv, EditorsKnow, RetryWrite
<1>2. UNCHANGED <<lane, accepted, stray, late>> /\ editor' = [editor EXCEPT ![e] = NoMail]
  BY DEF RetryWrite
<1>3. /\ \A n \in Mails : n # m => row'[n] = row[n]
      /\ row'[m].erased = row[m].erased
      /\ row[m].status = "gone" => row'[m] = row[m]
      /\ row[m].status = "failed" => row'[m].status = "queued"
  <2>1. CASE Exists(m)
    <3>1. row' = [row EXCEPT ![m].status = "queued", ![m].attempts = 0, ![m].due = TRUE]
      BY <1>0, <2>1 DEF RetryWrite
    <3> QED BY <1>1, <2>1, <3>1 DEF Row, Exists
  <2>2. CASE ~Exists(m)
    <3>1. UNCHANGED row
      BY <1>0, <2>2 DEF RetryWrite
    <3> QED BY <2>2, <3>1 DEF Exists
  <2> QED BY <2>1, <2>2
<1>4. EditorsKnow'
  <2> SUFFICES ASSUME NEW d \in Editors, editor'[d] # NoMail
               PROVE  row'[editor'[d]].status \in {"failed", "gone"}
    BY DEF EditorsKnow
  <2>1. d # e /\ editor'[d] = editor[d] /\ editor[d] \in Mails
    BY <1>2 DEF IInv, MailTypeOK
  <2>2. editor[d] # m
    BY <1>0, <2>1, MailsAssumption DEF OneRetryEach, NoMail
  <2> QED BY <1>3, <2>1, <2>2 DEF DInv, EditorsKnow
<1>5. \A n \in Mails : Accepting(n)' <=> Accepting(n)
  BY <1>2 DEF Accepting
<1>6. Settled'
  <2>1. \A n \in Mails : Counted(n) => Counted(n)'
    BY <1>1, <1>3, <1>5 DEF Counted
  <2>2. \A n \in Mails : row'[n].status = "none" => row'[n] = row[n]
    BY <1>1, <1>3
  <2> QED BY <1>2, <1>5, <2>1, <2>2 DEF DInv, Settled
<1>7. Promise!Next \/ UNCHANGED <<Lines, Taken>>
  <2>1. CASE row[m].status = "gone"
    BY <1>2, <1>3, <2>1, LinesStand
  <2>2. CASE row[m].status = "failed" /\ row[m].erased
    <3>1. \A n \in Mails : LineOf(n)' = LineOf(n)
      BY <1>3, <2>2 DEF LineOf
    <3> QED BY <1>2, <3>1 DEF Lines, Taken
  <2>3. CASE row[m].status = "failed" /\ ~row[m].erased
    <3>1. LineOf(m) = "failed" /\ LineOf(m)' = "waiting"
      BY <1>3, <2>3 DEF LineOf
    <3> QED BY <1>2, <1>3, <3>1, LineMoves
  <2> QED BY <1>1, <2>1, <2>2, <2>3
<1> QED BY <1>4, <1>6, <1>7 DEF Owed, DInv

\* A permanent deletion blanks every line about what it deletes.
LEMMA EraseOwes ==
  ASSUME IInv, DInv, NEW s \in Subjects, EraseSubject(s) PROVE Owed
<1> DEFINE S == {m \in Mails : s \in AboutOf[m]}
<1>1. \A m \in Mails : row[m] \in Row
  BY DEF IInv, MailTypeOK
<1>2. UNCHANGED <<lane, accepted, stray, late, editor>>
  BY DEF EraseSubject
<1>3. \A m \in Mails :
        /\ ~(m \in S /\ Exists(m)) => row'[m] = row[m]
        /\ m \in S /\ Exists(m) => /\ row'[m].erased
                                   /\ row[m].status = "queued" => row'[m].status = "failed"
                                   /\ row[m].status # "queued" => row'[m].status = row[m].status
  BY <1>1 DEF EraseSubject, Row
<1> HIDE DEF S
<1>4. RowsMove
  BY <1>3 DEF RowsMove, Exists
<1>5. DInv'
  BY <1>2, <1>4, DInvKept DEF Accepting
<1>6. \A m \in Mails :
        LineOf(m)' = IF m \in S /\ LineOf(m) \notin {"none", "gone"} THEN "void" ELSE LineOf(m)
  <2> TAKE m \in Mails
  <2>1. row[m].status \in Statuses
    BY <1>1 DEF Row
  <2>2. row[m].status = "none" => ~row[m].erased
    BY DEF DInv, Settled
  <2>3. CASE m \in S /\ Exists(m)
    <3>1. LineOf(m)' = "void" /\ LineOf(m) \notin {"none", "gone"}
      BY <1>3, <2>3 DEF LineOf, Exists
    <3> QED BY <2>3, <3>1
  <2>4. CASE ~(m \in S /\ Exists(m))
    <3>1. LineOf(m)' = LineOf(m)
      BY <1>3, <2>4 DEF LineOf
    <3>2. ~Exists(m) => LineOf(m) \in {"none", "gone"}
      BY <2>1, <2>2 DEF LineOf, Exists, Statuses
    <3> QED BY <2>4, <3>1, <3>2
  <2> QED BY <2>3, <2>4
<1>7. Promise!Void(S)
  BY <1>2, <1>6 DEF Promise!Void
<1>8. S \in SUBSET Mails
  BY DEF S
<1> QED BY <1>5, <1>7, <1>8 DEF Owed, Promise!Next

\* Retention and an organisation's end remove lines altogether.
LEMMA RemovalOwes ==
  ASSUME IInv, DInv, NEW S \in SUBSET Mails,
         UNCHANGED <<lane, accepted, stray, late, editor>>,
         row' = [m \in Mails |-> IF m \in S /\ Exists(m)
                                   THEN [row[m] EXCEPT !.status = "gone"]
                                   ELSE row[m]]
  PROVE  Owed
<1>1. \A m \in Mails : row[m] \in Row
  BY DEF IInv, MailTypeOK
<1>2. \A m \in Mails : /\ ~(m \in S /\ Exists(m)) => row'[m] = row[m]
                       /\ m \in S /\ Exists(m) => row'[m].status = "gone"
  BY <1>1 DEF Row
<1>3. RowsMove
  BY <1>2 DEF RowsMove, Exists
<1>4. DInv'
  BY <1>2, <1>3, DInvKept DEF Accepting
<1>5. \A m \in Mails :
        LineOf(m)' = IF m \in S /\ LineOf(m) # "none" THEN "gone" ELSE LineOf(m)
  <2> TAKE m \in Mails
  <2>1. row[m].status \in Statuses
    BY <1>1 DEF Row
  <2>2. row[m].status = "none" => ~row[m].erased
    BY DEF DInv, Settled
  <2>3. CASE m \in S /\ Exists(m)
    <3>1. LineOf(m)' = "gone" /\ LineOf(m) # "none"
      BY <1>2, <2>3 DEF LineOf, Exists
    <3> QED BY <2>3, <3>1
  <2>4. CASE ~(m \in S /\ Exists(m))
    <3>1. LineOf(m)' = LineOf(m)
      BY <1>2, <2>4 DEF LineOf
    <3>2. ~Exists(m) => LineOf(m) \in {"none", "gone"}
      BY <2>1, <2>2 DEF LineOf, Exists, Statuses
    <3> QED BY <2>4, <3>1, <3>2
  <2> QED BY <2>3, <2>4
<1>6. Promise!Drop(S)
  BY <1>5 DEF Promise!Drop
<1> QED BY <1>4, <1>6 DEF Owed, Promise!Next

\* The step: one case per action.
LEMMA NextOwes == IInv /\ DInv /\ OneRetryEach /\ [MailNext]_mailVars => Owed
<1> SUFFICES ASSUME IInv, DInv, OneRetryEach, [MailNext]_mailVars PROVE Owed
  OBVIOUS
<1>1. ASSUME NEW m \in Mails, Enqueue(m) \/ BackoffElapses(m) \/ LateAnswer(m)
      PROVE  Owed
  BY <1>1, EnqueueOwes, BackoffOwes, LateAnswerOwes
<1>2. ASSUME NEW w \in Workers, Tick(w) PROVE Owed
  BY <1>2, TickOwes
<1>3. ASSUME NEW w \in Workers, NEW l \in Lanes, LaneStep(w, l) PROVE Owed
  <2>1. CASE LaneEnds(w, l) \/ \E m \in Mails : StartSend(w, l, m)
    BY <2>1, ClaimOwes
  <2>2. ASSUME NEW m \in Mails, Withhold(w, l, m) \/ FailUnreadable(w, l, m)
        PROVE  Owed
    BY <2>2, WithholdOwes, FailUnreadableOwes
  <2>3. CASE WithholdOthers(w, l) \/ Transmit(w, l) \/ Record(w, l)
    BY <2>3, WithholdOthersOwes, TransmitOwes, RecordOwes
  <2> QED BY <1>3, <2>1, <2>2, <2>3 DEF LaneStep
<1>4. ASSUME NEW w \in Workers, NEW l \in Lanes, LaneLost(w, l) PROVE Owed
  BY <1>4, LaneLostOwes
<1>5. CASE UNCHANGED <<row, lane, accepted, stray, late, editor>>
  BY <1>5, ShowsNothing DEF Accepting
<1>6. CASE Environment
  <2>1. ASSUME NEW e \in Editors, RetryWrite(e) PROVE Owed
    BY <2>1, RetryWriteOwes
  <2>2. ASSUME NEW e \in Editors, NEW m \in Mails, RetryRead(e, m) PROVE Owed
    BY <2>2, RetryReadOwes
  <2>3. ASSUME NEW s \in Subjects, EraseSubject(s) PROVE Owed
    BY <2>3, EraseOwes
  <2>4. ASSUME NEW t \in Tenants, PurgeTenant(t) PROVE Owed
    <3> DEFINE S == {m \in Mails : TenantOf[m] = t}
    <3>1. row' = [m \in Mails |-> IF m \in S /\ Exists(m)
                                    THEN [row[m] EXCEPT !.status = "gone"] ELSE row[m]]
      BY <2>4 DEF PurgeTenant
    <3>2. UNCHANGED <<lane, accepted, stray, late, editor>>
      BY <2>4 DEF PurgeTenant
    <3> HIDE DEF S
    <3> QED BY <3>1, <3>2, RemovalOwes DEF S
  <2>5. ASSUME NEW k \in Mails, PurgeLog(k) PROVE Owed
    <3> DEFINE S == {m \in Mails : m <= k}
    <3>1. row' = [m \in Mails |-> IF m \in S /\ Exists(m)
                                    THEN [row[m] EXCEPT !.status = "gone"] ELSE row[m]]
      BY <2>5 DEF PurgeLog
    <3>2. UNCHANGED <<lane, accepted, stray, late, editor>>
      BY <2>5 DEF PurgeLog
    <3> HIDE DEF S
    <3> QED BY <3>1, <3>2, RemovalOwes DEF S
  <2>6. ASSUME NEW l \in Lanes, NEW c \in Stored, SaveSmtp(l, c) PROVE Owed
    BY <1>5, <2>6 DEF SaveSmtp
  <2>7. ASSUME NEW x \in Things, MoveToTrash(x) \/ Restore(x) PROVE Owed
    BY <1>5, <2>7 DEF MoveToTrash, Restore
  <2> QED BY <1>6, <2>1, <2>2, <2>3, <2>4, <2>5, <2>6, <2>7 DEF Environment
<1> QED BY <1>1, <1>2, <1>3, <1>4, <1>5, <1>6 DEF MailNext, mailVars

\* In the first state nothing is written, held or taken.
LEMMA InitOwes == MailInit => DInv /\ Promise!Init
<1> SUFFICES ASSUME MailInit PROVE DInv /\ Promise!Init
  OBVIOUS
<1>1. \A m \in Mails : ~Accepting(m)
  BY DEF MailInit, Accepting, Off
<1>2. DInv
  BY <1>1 DEF MailInit, DInv, EditorsKnow, Settled, Counted
<1>3. Promise!Init
  BY DEF MailInit, Promise!Init, LineOf
<1> QED BY <1>2, <1>3

(* ADR-0004 for every number of workers, lanes and mails: as long as no two *)
(* people retry the same line at once, a recipient gets a mail again only   *)
(* for every acceptance a crash or a missed deadline hid from the row.      *)
THEOREM NoDuplicate == MailSpec /\ []OneRetryEach => []NoUnexplainedDuplicate
<1>1. IInv /\ DInv /\ OneRetryEach /\ [MailNext]_mailVars => DInv'
  BY NextOwes DEF Owed
<1>2. IInv /\ DInv => NoUnexplainedDuplicate
  <2> SUFFICES ASSUME IInv, DInv, NEW m \in Mails PROVE accepted[m] <= 1 + stray[m]
    BY DEF NoUnexplainedDuplicate
  <2>1. stray[m] \in Nat /\ accepted[m] <= stray[m] + 1
    BY DEF IInv, MailTypeOK, DInv, Settled
  <2> QED BY <2>1
<1> QED BY <1>1, <1>2, InitOwes, Invariance, PTL DEF MailSpec

(* The queue implements the promise of its log: every step of workers,      *)
(* editors, erasures and purges is a step MailPromise allows or shows       *)
(* nothing, as long as no two people retry the same line at once.           *)
THEOREM PromiseKept == MailSpec /\ []OneRetryEach => KeepsPromise
<1>1. IInv /\ DInv /\ OneRetryEach /\ [MailNext]_mailVars
        => DInv' /\ (Promise!Next \/ UNCHANGED <<Lines, Taken>>)
  BY NextOwes DEF Owed
<1>2. UNCHANGED <<Lines, Taken>> =>
        UNCHANGED <<[m \in Mails |-> LineOf(m)], {m \in Mails : accepted[m] > 0}>>
  BY DEF Lines, Taken
<1> QED BY <1>1, <1>2, InitOwes, Invariance, PTL DEF MailSpec, KeepsPromise, Promise!Spec
=============================================================================
