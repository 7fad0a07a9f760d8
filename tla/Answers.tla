------------------------------- MODULE Answers -------------------------------
(***************************************************************************)
(* What a form shows, demands and keeps (visibleQuestionIds of             *)
(* condition.ts, buildAnswersSchema of response-validation.ts,             *)
(* toStoredAnswers of public-forms.service.ts).  A question may be shown   *)
(* only if the answer to an earlier one meets a condition.  The fill-in    *)
(* view and the server compute what is shown from the answers as they      *)
(* arrive; what is stored comes back in the next draft or correction.      *)
(*                                                                         *)
(* Questions are numbers in document order and take an e-mail address, the *)
(* type whose answers are spelled anew: "A" is stored as "a", unless the   *)
(* question is required, whose schema hands its input back.                *)
(***************************************************************************)
EXTENDS Naturals

CONSTANTS
  Questions,   \* how many a form has
  Operators    \* of its conditions

ASSUME QuestionsAssumption == Questions \in Nat
ASSUME OperatorsAssumption == Operators \subseteq {"filled", "empty", "equals", "notEquals"}

VARIABLES
  form,        \* its version: for each question, whether required, and its condition
  stored,      \* the answers of the row
  kind         \* "none", "draft" or "answer"

answersVars == <<form, stored, kind>>

Asked  == 1..Questions
Values == {"none", "", "a", "A", "bad"}      \* "none": no key; "bad": half an address

\* A source at or behind its question stands for every one that is not resolvable.
Condition == [of : Asked, operator : Operators, value : {"A"}]
Always    == [of |-> 0, operator |-> "none", value |-> "none"]
Form      == [Asked -> [required : BOOLEAN, visibleIf : Condition \cup {Always}]]

\* The schema of the question, and answers of nothing.
Parses(v) == v \in {"a", "A"}
Lower(v)  == IF v = "A" THEN "a" ELSE v
Blank(v)  == v \in {"none", ""}

Normalised(v) == IF Parses(v) THEN Lower(v) ELSE v

Holds(c, v) ==
  CASE c.operator = "filled"    -> ~Blank(v)
    [] c.operator = "empty"     -> Blank(v)
    [] c.operator = "equals"    -> v = Normalised(c.value)
    [] c.operator = "notEquals" -> v # Normalised(c.value)

Resolvable(q) == form[q].visibleIf # Always /\ form[q].visibleIf.of < q

ShownAsTyped(q, before, answers) ==                        \* mutant
  LET c == form[q].visibleIf IN Resolvable(q) => c.of \in before /\ Holds(c, answers[c.of])
Shown(q, before, answers) ==
  LET c == form[q].visibleIf IN
  Resolvable(q) => c.of \in before /\ Holds(c, Normalised(answers[c.of]))

(* One pass, top to bottom.                                                 *)
VisibleQuestions(answers) ==
  LET visible[n \in 0..Questions] ==
        IF n = 0 THEN {}
        ELSE visible[n - 1] \cup {q \in {n} : Shown(q, visible[n - 1], answers)}
  IN visible[Questions]

Demanded(q, enforce) == form[q].required /\ enforce

Accepts(answers, enforce) ==
  \A q \in VisibleQuestions(answers) :
    Parses(answers[q]) \/ (~Demanded(q, enforce) /\ Blank(answers[q]))

(* What is hidden is dropped, what is demanded is handed back as it came.   *)
Parsed(answers, enforce) ==
  [q \in Asked |-> IF q \notin VisibleQuestions(answers) THEN "none"
                   ELSE IF Demanded(q, enforce) THEN answers[q]
                   ELSE Normalised(answers[q])]

AnswersInit == form \in Form /\ stored = [q \in Asked |-> "none"] /\ kind = "none"

-----------------------------------------------------------------------------
SaveDraft(answers) ==
  /\ kind # "answer"
  /\ Accepts(answers, FALSE)
  /\ kind' = "draft" /\ stored' = Parsed(answers, FALSE)
  /\ UNCHANGED form

\* A submission, or a correction of it.
Submit(answers) ==
  /\ Accepts(answers, TRUE)
  /\ kind' = "answer" /\ stored' = Parsed(answers, TRUE)
  /\ UNCHANGED form

(* A page begins with what is stored; a first one is filled in anyhow, one  *)
(* that came back is changed a field at a time.                             *)
Typed == IF kind = "none" THEN [Asked -> Values]
         ELSE {[stored EXCEPT ![q] = v] : q \in Asked, v \in Values}

AnswersNext == \E answers \in Typed : SaveDraft(answers) \/ Submit(answers)

AnswersSpec == AnswersInit /\ [][AnswersNext]_answersVars

-----------------------------------------------------------------------------
(* Properties *)

(* A row belongs to a form.                                                 *)
AnswersTypeOK ==
  /\ form \in Form
  /\ stored \in [Asked -> Values]
  /\ kind \in {"none", "draft", "answer"}

(* What is stored is handed in again without a change: no field that was on *)
(* the screen goes, none comes, and nobody is asked for more.               *)
ComesBackUnchanged ==
  /\ Accepts(stored, kind = "answer")
  /\ Parsed(stored, kind = "answer") = stored

(* What a screen is, whatever the order it is computed in: a question is on *)
(* it if it has no condition that can be judged, or if the source is on it  *)
(* and the answer that was stored meets the condition.                      *)
IsScreen(S) ==
  \A q \in Asked :
    q \in S <=> \/ form[q].visibleIf = Always
                \/ form[q].visibleIf.of >= q
                \/ /\ form[q].visibleIf.of \in S
                   /\ Holds(form[q].visibleIf, Lower(stored[form[q].visibleIf.of]))

(* There is one screen that explains a stored row; nothing beside it was    *)
(* kept, and an answer has all it demands.                                  *)
KeptIsOnScreen ==
  \E S \in SUBSET Asked :
    /\ IsScreen(S)
    /\ \A T \in SUBSET Asked : IsScreen(T) => T = S
    /\ \A q \in Asked \ S : stored[q] = "none"
    /\ kind = "answer" => \A q \in S : form[q].required => stored[q] \in {"a", "A"}

(* What the row says is an answer to the form it was shown.                 *)
AnswersStand == kind # "none" => ComesBackUnchanged /\ KeptIsOnScreen
=============================================================================
