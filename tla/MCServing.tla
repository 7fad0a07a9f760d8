------------------------------ MODULE MCServing ------------------------------
(***************************************************************************)
(* What an installation does at once while it serves one form: requests    *)
(* that fill, correct and restore its answers, Admission, and workers that *)
(* deliver the mails about them, MailQueue.  They share no variable, so    *)
(* every behaviour of both is one of each; TLC follows one part at a time, *)
(* and asks fairness of that part.                                         *)
(***************************************************************************)
EXTENDS Admission, MCMailQueue

VARIABLE part

servingVars == <<part, vars, mailVars>>

\* The part that rests stays at one initial state.
ServingInit == /\ part \in {"form", "mail"}
               /\ Init /\ MailInit
               /\ part = "form" \/ limit = Free

\* The form is followed with a draft while its bounds stand, and without one
\* when they change.
DraftOrChange == changes = 0 \/ \A d \in Drafts : draft[d] = "none"

Admits   == part = "form" /\ UNCHANGED <<part, mailVars>>
Delivers == part = "mail" /\ UNCHANGED <<part, vars>>

ServingNext == \/ Admits /\ Next /\ DraftOrChange'
               \/ Delivers /\ MailNext

ServingSpec == ServingInit /\ [][ServingNext]_servingVars

\* FairSpec of Admission and MailFairSpec, each of the part that moves.
ServingFairSpec ==
  /\ ServingSpec
  /\ \A p \in Requests : /\ WF_servingVars(Admits /\ Step(p))
                         /\ SF_servingVars(Admits /\ Queued(p))
                         /\ WF_servingVars(Admits /\ AbortVictim(p))
  /\ \A w \in Workers : WF_servingVars(Delivers /\ Tick(w))
  /\ \A w \in Workers, l \in Lanes : WF_servingVars(Delivers /\ LaneStep(w, l))
  /\ \A m \in Mails : WF_servingVars(Delivers /\ BackoffElapses(m))

\* Positions of two seats, of one.
TwoSeats == [s \in Positions |-> 2]
OneSeat  == [s \in Positions |-> 1]

\* Answers are interchangeable, and so are requests and instances of the API.
Symmetry == Permutations(Responses) \cup Permutations(Requests) \cup WorkerSymmetry
=============================================================================
