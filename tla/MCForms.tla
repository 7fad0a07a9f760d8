-------------------------------- MODULE MCForms -------------------------------
(***************************************************************************)
(* What requests do to one form: Builder for its draft and its versions,   *)
(* Links for its settings and the addresses that stand behind them,        *)
(* Answers for what a version of it shows and keeps.  They share no        *)
(* variable - a settings write leaves the revision of the draft alone and  *)
(* has its own, and an answer is judged by the version it was given to,    *)
(* which never changes - so every behaviour of all is one of each; TLC     *)
(* follows one part at a time.                                             *)
(***************************************************************************)
EXTENDS Builder, Links, Answers, TLC

VARIABLE part

formVars == <<part, builderVars, linksVars, answersVars>>

\* While another part moves, the form is one whose questions are always shown.
FormsInit ==
  /\ part \in {"builder", "links", "answers"}
  /\ BuilderInit /\ LinksInit /\ AnswersInit
  /\ part = "answers" \/ \A q \in Asked : form[q] = [required |-> FALSE, visibleIf |-> Always]

FormsNext ==
  \/ part = "builder" /\ BuilderNext /\ UNCHANGED <<part, linksVars, answersVars>>
  \/ part = "links" /\ LinksNext /\ UNCHANGED <<part, builderVars, answersVars>>
  \/ part = "answers" /\ AnswersNext /\ UNCHANGED <<part, builderVars, linksVars>>

FormsSpec == FormsInit /\ [][FormsNext]_formVars

(* The part that moves stays in its types.                                  *)
FormsTypeOK ==
  CASE part = "builder" -> BuilderTypeOK
    [] part = "links"   -> LinksTypeOK
    [] part = "answers" -> AnswersTypeOK

\* Tabs and editors are one set of model values, and no word is special.
Symmetry == Permutations(Tabs) \cup Permutations(Words)
=============================================================================
