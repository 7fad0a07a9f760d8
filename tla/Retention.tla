------------------------------ MODULE Retention ------------------------------
(***************************************************************************)
(* The daily erasure of what the trash promises to keep for thirty days:   *)
(* retention-purge.service.ts, permanent-deletion.service.ts, and the trash*)
(* of organisations (admin.repository.ts), forms and answers               *)
(* (trash.service.ts).  Drafts have no trash, they expire.                 *)
(*                                                                         *)
(* A run lists what is due in batches, and removes one row after the other.*)
(* A row whose file the storage refuses stays, and the cursor passes it.   *)
(* Between a listing and a removal people restore, trash and erase.        *)
(***************************************************************************)
EXTENDS Naturals, FiniteSets

CONSTANTS
  Orgs, Forms, Answers, Drafts,   \* the rows; their ids are numbers
  Above,                          \* the rows each row belongs to
  Term,                           \* how long the trash keeps
  DraftTerm,                      \* how long a draft lives
  BatchSize,
  MaxTime                         \* bound: the clock

Items == Orgs \cup Forms \cup Answers \cup Drafts

ASSUME RetentionAssumption ==
  /\ Items \subseteq Nat \ {0} /\ IsFiniteSet(Items)
  /\ Above \in [Items -> SUBSET (Orgs \cup Forms)]
  /\ \A x \in Items : \A y \in Above[x] : Above[y] \subseteq Above[x]
  /\ {Term, DraftTerm, BatchSize, MaxTime} \subseteq Nat /\ BatchSize # 0 /\ MaxTime # 0
  /\ (Forms \cup Answers \cup Drafts) \cap Orgs = {} /\ Drafts \cap (Forms \cup Answers) = {}
  /\ \A o \in Orgs : Above[o] = {}

VARIABLES
  now,        \* the clock, in days
  rows,       \* the rows that exist
  at,         \* deleted_at, 0 for NULL; of a draft, expires_at
  run,        \* the run in progress
  owed        \* what the run found due when it began and nobody touched

retentionVars == <<now, rows, at, run, owed>>

Kinds  == <<Orgs, Forms, Answers, Drafts>>
Cursor == [at : 0..(MaxTime + DraftTerm), id : Items \cup {0}]
Start  == [at |-> 0, id |-> 0]
Phase(n, t) == [phase |-> n, now |-> t, batch |-> {}, after |-> Start, more |-> TRUE]
NoRun       == [phase |-> 0, now |-> 0, batch |-> {}, after |-> Start, more |-> FALSE]

Trashable == Items \ Drafts
BelowButDrafts(x) == {y \in Items \ Drafts : x \in Above[y]}   \* mutant
Below(x)  == {y \in Items : x \in Above[y]}
Alive(X)  == X \subseteq {y \in rows : at[y] = 0}

\* Past the cutoff at time t.
Due(x, t) == /\ x \in rows /\ at[x] # 0
             /\ at[x] + (IF x \in Drafts THEN 0 ELSE Term) <= t

\* As long as an organisation is in the trash, what it holds waits for it;
\* an expired draft of a trashed form does not.
Waits(x)  == ~Alive(IF x \in Drafts THEN Above[x] \cap Orgs ELSE Above[x])

Later(x, after) == at[x] > after.at \/ (at[x] = after.at /\ x > after.id)

Touched(x) == owed' = owed \ ({x} \cup Below(x))

RetentionInit ==
  /\ now = 1
  /\ rows = Items
  /\ at = [x \in Items |-> IF x \in Drafts THEN now + DraftTerm ELSE 0]
  /\ run = NoRun
  /\ owed = {}

-----------------------------------------------------------------------------
(* People, and the clock. *)

Tick ==
  /\ now < MaxTime
  /\ now' = now + 1
  /\ UNCHANGED <<rows, at, run, owed>>

Trash(x) ==
  /\ x \in rows \cap Trashable /\ at[x] = 0 /\ Alive(Above[x])
  /\ at' = [at EXCEPT ![x] = now]
  /\ Touched(x)
  /\ UNCHANGED <<now, rows, run>>

Restore(x) ==
  /\ x \in rows \cap Trashable /\ at[x] # 0 /\ Alive(Above[x])
  /\ at' = [at EXCEPT ![x] = 0]
  /\ Touched(x)
  /\ UNCHANGED <<now, rows, run>>

(* "Delete for good" and "empty the trash", in a living organisation.       *)
EraseNow(x) ==
  /\ x \in rows \cap (Forms \cup Answers) /\ at[x] # 0 /\ Alive(Above[x])
  /\ rows' = rows \ ({x} \cup Below(x))
  /\ Touched(x)
  /\ UNCHANGED <<now, at, run>>

(* Saving a draft again renews it, while it has not expired.                *)
Renew(d) ==
  /\ d \in rows \cap Drafts /\ at[d] > now /\ Alive(Above[d])
  /\ at' = [at EXCEPT ![d] = now + DraftTerm]
  /\ Touched(d)
  /\ UNCHANGED <<now, rows, run>>

-----------------------------------------------------------------------------
(* The run. *)

StartRun ==
  /\ run.phase = 0
  /\ run' = Phase(1, now)
  /\ owed' = {x \in Items : Due(x, now) /\ ~Waits(x)}
  /\ UNCHANGED <<now, rows, at>>

ListingFromTheStart(phase, after) ==                       \* mutant
  {x \in Kinds[phase] : Due(x, run.now) /\ ~Waits(x)}
ListingByTime(phase, after) ==                             \* mutant
  {x \in Kinds[phase] : Due(x, run.now) /\ ~Waits(x) /\ at[x] > after.at}
Listing(phase, after) ==
  {x \in Kinds[phase] : Due(x, run.now) /\ ~Waits(x) /\ Later(x, after)}

\* The first rows of L by time and id.
IsHead(B, L) ==
  /\ B \subseteq L
  /\ Cardinality(B) = IF Cardinality(L) < BatchSize THEN Cardinality(L) ELSE BatchSize
  /\ \A x \in B, y \in L \ B : Later(y, [at |-> at[x], id |-> x])

List ==
  /\ run.phase # 0 /\ run.batch = {} /\ run.more
  /\ \E B \in SUBSET Listing(run.phase, run.after) :
     \E last \in IF B = {} THEN {Start} ELSE {[at |-> at[x], id |-> x] : x \in B} :
       /\ IsHead(B, Listing(run.phase, run.after))
       /\ \A x \in B : ~Later(x, last)
       /\ run' = [run EXCEPT !.batch = B, !.more = Cardinality(B) = BatchSize, !.after = last]
  /\ UNCHANGED <<now, rows, at, owed>>

\* The where of the statement that removes the row.
NoLongerRemovable(x) == x \in rows /\ at[x] # 0            \* mutant
Removable(x) ==
  /\ x \in rows /\ at[x] # 0
  /\ x \in Orgs \cup Drafts => Due(x, run.now)

(* The row goes with all below it, or is no longer what was listed.  Any of *)
(* the batch may be next: what is removed, not in which order, is modelled. *)
Remove(x) ==
  /\ x \in run.batch
  /\ rows' = IF Removable(x) THEN rows \ ({x} \cup Below(x)) ELSE rows
  /\ run' = [run EXCEPT !.batch = @ \ {x}]
  /\ owed' = owed \ ({x} \cup (rows \ rows'))
  /\ UNCHANGED <<now, at>>

(* The storage refuses a file, or the statement fails.                      *)
Stuck(x) ==
  /\ x \in run.batch
  /\ run' = [run EXCEPT !.batch = @ \ {x}]
  /\ owed' = owed \ {x}
  /\ UNCHANGED <<now, rows, at>>

NextPhase ==
  /\ run.phase # 0 /\ run.batch = {} /\ ~run.more
  /\ run' = IF run.phase = 4 THEN NoRun ELSE Phase(run.phase + 1, run.now)
  /\ UNCHANGED <<now, rows, at, owed>>

(* The process ends in the middle; the next run starts over.                *)
Abort ==
  /\ run.phase # 0
  /\ run' = NoRun /\ owed' = {}
  /\ UNCHANGED <<now, rows, at>>

-----------------------------------------------------------------------------
People ==
  \/ Tick
  \/ \E x \in Items : Trash(x) \/ Restore(x) \/ EraseNow(x) \/ Renew(x)

Run == \/ List \/ NextPhase
       \/ \E x \in Items : Remove(x) \/ Stuck(x)

RetentionNext == People \/ StartRun \/ Run \/ Abort

RetentionSpec     == RetentionInit /\ [][RetentionNext]_retentionVars
RetentionFairSpec == RetentionSpec /\ WF_retentionVars(Run)

-----------------------------------------------------------------------------
(* Properties *)

RetentionTypeOK ==
  /\ now \in 1..MaxTime
  /\ rows \subseteq Items
  /\ at \in [Items -> 0..(MaxTime + DraftTerm)]
  /\ run \in [phase : 0..4, now : 0..MaxTime, batch : SUBSET Items, after : Cursor,
              more : BOOLEAN]
  /\ owed \subseteq Items
  /\ \A x \in rows : Above[x] \subseteq rows

(* An organisation, with all it holds, goes only when its thirty days are   *)
(* over, and a draft only when it has expired or with its form or           *)
(* organisation, whatever happens between the listing and the removal.      *)
TermsAreKept ==
  [][\A x \in rows \ rows' :
       x \in Orgs \cup Drafts => Due(x, now) \/ ~(Above[x] \subseteq rows')]_retentionVars

(* What was due when a run began, and what nobody touched since, has been   *)
(* tried when the run is over, however many rows before it are stuck.       *)
NothingSkipped == run.phase = 0 => owed = {}

(* A run ends, though what is stuck stays due and the clock goes on.        *)
RunEnds == []<>(run.phase = 0)

(* "As long as an Organisation lies in the trash, its forms and answers are *)
(* no longer due items of their own": a run removes a form or an answer     *)
(* only when it is due itself and nothing above it is in the trash, or with *)
(* what it belongs to.                                                      *)
NestedTermsAreKept ==
  [][\A x \in (rows \ rows') \cap (Forms \cup Answers) :
       run' # run /\ Above[x] \subseteq rows' => Due(x, now) /\ ~Waits(x)]_retentionVars
=============================================================================
