------------------------------ MODULE Assessment ------------------------------
(***************************************************************************)
(* From the answers to a questionnaire to a remediation plan: Parikshan    *)
(* scores each control of the library (agents/parikshan.py), Sudhaar makes *)
(* a plan of the findings and says if it is to be escalated                *)
(* (agents/sudhaar.py).  Answers are recorded, changed and withdrawn       *)
(* between runs.                                                           *)
(*                                                                         *)
(* Scores and risk points have two decimals: both are in hundredths here.  *)
(***************************************************************************)
EXTENDS Naturals, FiniteSets, Sequences, SequencesExt, Functions

CONSTANTS
  Library,      \* the controls, in order: [penalty, questions, severity]
  RecordsCap    \* the tenant's cap of records affected by a plan

\* The penalty points the 46 controls of the library have (data/controls.json);
\* none has more than three boolean questions.  For these the floating-point
\* arithmetic of the code is exact to the hundredth.
Penalties == {5, 8, 10, 12, 15, 18, 20, 22, 25, 30, 35, 40, 50}

ASSUME LibraryAssumption ==
  /\ Library \in Seq([ penalty : Penalties, questions : 0..3,
                       severity : {"low", "medium", "high", "critical"} ])
  /\ RecordsCap \in Nat

VARIABLES
  answers,   \* how many of the questions of each control are answered yes, and no
  plan       \* the last plan Sudhaar proposed

assessmentVars == <<answers, plan>>

Controls == DOMAIN Library
NoPlan == [sequence |-> <<>>, scores |-> <<>>, records |-> 0,
           escalate |-> FALSE, reason |-> "none"]

AssessmentInit ==
  /\ answers = [c \in Controls |-> [yes |-> 0, no |-> 0]]
  /\ plan = NoPlan

\* An answer is given, withdrawn or changed.
AnswerQuestion(c) ==
  /\ \E y, n \in 0..Library[c].questions :
       /\ y + n <= Library[c].questions
       /\ answers' = [answers EXCEPT ![c] = [yes |-> y, no |-> n]]
  /\ UNCHANGED plan

-----------------------------------------------------------------------------
(* Parikshan *)

\* round(x, 2) of x = a / b hundredths; ties go to the even one.
Rounded(a, b) ==
  LET tie == 2 * (a % b) = b
  IN (a \div b) + (IF 2 * (a % b) > b \/ (tie /\ (a \div b) % 2 = 1) THEN 1 ELSE 0)

NeutralIfUnknown(q, yes, no) ==                        \* mutant: unknown as untestable
  CASE q > 0 /\ yes > 0 -> Rounded(10000 * yes, q)
    [] q > 0 /\ yes = 0 /\ no = q -> 0
    [] OTHER -> 5000
\* Untestable; some yes; all no; unknown.
ScoreOf(q, yes, no) ==
  CASE q = 0 -> 5000
    [] q > 0 /\ yes > 0 -> Rounded(10000 * yes, q)
    [] q > 0 /\ yes = 0 /\ no = q -> 0
    [] q > 0 /\ yes = 0 /\ no # q -> 3000
Score(c) == ScoreOf(Library[c].questions, answers[c].yes, answers[c].no)

RiskPoints(c) == Rounded((10000 - Score(c)) * Library[c].penalty, 100)

\* estimated_exposure_inr: a million for each point.
Exposure == SumFunction([c \in Controls |-> RiskPoints(c) * 10000])

-----------------------------------------------------------------------------
(* Sudhaar, on the findings of Parikshan.  It would take any caller's; these *)
(* have no id, so that an action's closes_finding_id is empty and what the   *)
(* model names in a sequence is the finding's control.                       *)

\* int(risk_score * 100)
RecordsAffected(c) == RiskPoints(c)

\* The score an action carries: min(100.0, risk_score).  The cap binds for no
\* control of the library.
ActionScore(c) == IF RiskPoints(c) > 10000 THEN 10000 ELSE RiskPoints(c)

\* The findings by falling risk; those of one risk stay in the library's order.
BeforeRising(c, d) ==                                  \* mutant: no reverse=True
  RiskPoints(c) < RiskPoints(d) \/ (RiskPoints(c) = RiskPoints(d) /\ c < d)
Before(c, d) == RiskPoints(c) > RiskPoints(d) \/ (RiskPoints(c) = RiskPoints(d) /\ c < d)
Rank(c) == 1 + Cardinality({d \in Controls : Before(d, c)})
ByRisk == [i \in Controls |-> CHOOSE c \in Controls : Rank(c) = i]

HighSeverity(c) == Library[c].severity \in {"high", "critical"}  \* mutant
HighImpact(c) == Library[c].severity \in {"high", "critical"} /\ RecordsAffected(c) > 10000

OverCap(total) == total > RecordsCap

Plan ==
  LET total == SumFunction([c \in Controls |-> RecordsAffected(c)])
      high == \E c \in Controls : HighImpact(c)
  IN [ sequence |-> ByRisk,
       scores |-> [i \in Controls |-> ActionScore(ByRisk[i])],
       records |-> total, escalate |-> high \/ OverCap(total),
       reason |-> CASE high -> "high_blast_radius"
                    [] ~ high /\ OverCap(total) -> "blast_radius_exceeded"
                    [] OTHER -> "none" ]

ProposePlan ==
  /\ plan' = Plan
  /\ UNCHANGED answers

AssessmentNext == ProposePlan \/ \E c \in Controls : AnswerQuestion(c)

AssessmentSpec == AssessmentInit /\ [][AssessmentNext]_assessmentVars

-----------------------------------------------------------------------------
(* Properties *)

\* The answers given to a control are to questions it has.
AnswersGood ==
  /\ answers \in [Controls -> [yes : 0..3, no : 0..3]]
  /\ \A c \in Controls : answers[c].yes + answers[c].no <= Library[c].questions

Better(c) == answers'[c].yes >= answers[c].yes /\ answers'[c].no <= answers[c].no

\* More yes and fewer no never hurt: when a no becomes a yes or none, or a yes
\* is added, no control's score falls and the exposure does not rise
\* (parikshan.py:97-132).  An unknown control scores 30, so a library with four
\* questions would break it; and where a question is put negatively a yes is not
\* the better answer, which the code does not look at.
BetterAnswersNeverHurt ==
  [][(\A c \in Controls : Better(c)) =>
       /\ \A c \in Controls : Score(c)' >= Score(c)
       /\ Exposure' <= Exposure]_answers

\* A plan of Parikshan's findings is escalated exactly when it affects more
\* records than the cap, and says so: no single control of the library affects
\* more than 10,000 (sudhaar.py:202-218).
EscalatesByTotal ==
  plan # NoPlan =>
    /\ plan.escalate <=> plan.records > RecordsCap
    /\ plan.reason = IF plan.escalate THEN "blast_radius_exceeded" ELSE "none"

\* A plan has an action for each of Parikshan's findings, once, the worst first
\* by the scores the actions carry, in the library's order where they are equal
\* (sudhaar.py:142-187).
WorstFirst ==
  plan # NoPlan =>
    /\ Len(plan.sequence) = Len(Library) /\ ToSet(plan.sequence) = Controls
    /\ \A i, j \in Controls : i < j =>
         \/ plan.scores[i] > plan.scores[j]
         \/ plan.scores[i] = plan.scores[j] /\ plan.sequence[i] < plan.sequence[j]

\* The invariant that the proofs use.
AssessmentInv == AnswersGood /\ EscalatesByTotal /\ WorstFirst
=============================================================================
