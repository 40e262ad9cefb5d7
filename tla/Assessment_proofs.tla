--------------------------- MODULE Assessment_proofs ---------------------------
(* Proofs about the way from answers to a remediation plan. *)
EXTENDS Assessment, FiniteFacts

-----------------------------------------------------------------------------
(* Scores and risk points *)

LEMMA LibraryFacts ==
  /\ Controls = 1..Len(Library) /\ Len(Library) \in Nat
  /\ IsFiniteSet(Controls) /\ Cardinality(Controls) = Len(Library)
  /\ \A c \in Controls : /\ Library[c].penalty \in Penalties
                         /\ Library[c].questions \in 0..3
  <1>1. Controls = 1..Len(Library) /\ Len(Library) \in Nat
    BY LibraryAssumption DEF Controls
  <1>2. IsFiniteSet(Controls) /\ Cardinality(Controls) = Len(Library)
    <2>1. IsFiniteSet(1..Len(Library)) /\
          Cardinality(1..Len(Library)) = IF 1 > Len(Library) THEN 0 ELSE Len(Library) - 1 + 1
      BY <1>1, FS_Interval
    <2> QED BY <1>1, <2>1
  <1> DEFINE Entry == [ penalty : Penalties, questions : 0..3,
                        severity : {"low", "medium", "high", "critical"} ]
  <1>3. \A c \in Controls : Library[c] \in Entry
    <2>1. Library \in Seq(Entry)
      BY LibraryAssumption
    <2> HIDE DEF Entry
    <2> QED BY <1>1, <2>1
  <1> QED BY <1>1, <1>2, <1>3

\* y questions of q answered yes, n answered no.
Answered(q, y, n) == q \in 0..3 /\ y \in 0..3 /\ n \in 0..3 /\ y + n <= q

\* The scores there are.
LEMMA ScoreTable ==
  ASSUME NEW q, NEW y, NEW n, Answered(q, y, n)
  PROVE  /\ q = 0 => ScoreOf(q, y, n) = 5000
         /\ q = 1 => ScoreOf(q, y, n) = IF y = 1 THEN 10000 ELSE IF n = 1 THEN 0 ELSE 3000
         /\ q = 2 => ScoreOf(q, y, n) = IF y = 2 THEN 10000 ELSE IF y = 1 THEN 5000
                                        ELSE IF n = 2 THEN 0 ELSE 3000
         /\ q = 3 => ScoreOf(q, y, n) = IF y = 3 THEN 10000 ELSE IF y = 2 THEN 6667
                                        ELSE IF y = 1 THEN 3333
                                        ELSE IF n = 3 THEN 0 ELSE 3000
  <1>1. /\ Rounded(10000, 1) = 10000 /\ Rounded(10000, 2) = 5000 /\ Rounded(20000, 2) = 10000
        /\ Rounded(10000, 3) = 3333 /\ Rounded(20000, 3) = 6667 /\ Rounded(30000, 3) = 10000
    BY DEF Rounded
  <1>2. 10000 * 1 = 10000 /\ 10000 * 2 = 20000 /\ 10000 * 3 = 30000
    OBVIOUS
  <1>3. ScoreOf(q, y, n) = IF q = 0 THEN 5000
                           ELSE IF y > 0 THEN Rounded(10000 * y, q)
                           ELSE IF n = q THEN 0 ELSE 3000
    <2>1. CASE q = 0
      BY <2>1 DEF ScoreOf
    <2>2. CASE q > 0 /\ y > 0
      BY <2>2 DEF ScoreOf
    <2>3. CASE q > 0 /\ y = 0 /\ n = q
      BY <2>3 DEF ScoreOf
    <2>4. CASE q > 0 /\ y = 0 /\ n # q
      BY <2>4 DEF ScoreOf
    <2> QED BY <2>1, <2>2, <2>3, <2>4 DEF Answered
  <1>4. y = 0 \/ y = 1 \/ y = 2 \/ y = 3
    BY DEF Answered
  <1> QED BY <1>1, <1>2, <1>3, <1>4 DEF Answered

\* A score is between 0 and 100.
LEMMA ScoreRange ==
  ASSUME NEW q, NEW y, NEW n, Answered(q, y, n)
  PROVE  ScoreOf(q, y, n) \in 0..10000
  BY ScoreTable DEF Answered

\* It grows with the answers.
LEMMA ScoreGrows ==
  ASSUME NEW q, NEW y, NEW n, Answered(q, y, n),
         NEW z, NEW k, Answered(q, z, k), z >= y, k <= n
  PROVE  ScoreOf(q, z, k) >= ScoreOf(q, y, n)
  <1>1. CASE q = 0 \/ q = 1
    BY <1>1, ScoreTable DEF Answered
  <1>2. CASE q = 2
    BY <1>2, ScoreTable DEF Answered
  <1>3. CASE q = 3
    BY <1>3, ScoreTable DEF Answered
  <1> QED BY <1>1, <1>2, <1>3 DEF Answered

LEMMA Product ==
  ASSUME NEW p \in Nat, NEW m \in Nat, NEW n \in Nat, m <= n
  PROVE  m * p \in Nat /\ m * p <= n * p
  OBVIOUS

\* Rounding keeps the order.
LEMMA RoundedMonotone ==
  ASSUME NEW m \in Nat, NEW n \in Nat, m <= n
  PROVE  Rounded(m, 100) \in Nat /\ Rounded(m, 100) <= Rounded(n, 100)
  BY DEF Rounded

LEMMA FiftyPoints == Rounded(500000, 100) = 5000
  BY DEF Rounded

Centi == 0..10000
PointsOf(m, p) == Rounded(m * p, 100)

\* A control has the fewer points the higher its score, and never more than 50.
LEMMA Points ==
  ASSUME NEW p \in Penalties, NEW m \in Centi, NEW n \in Centi, m <= n
  PROVE  PointsOf(m, p) \in Nat /\ PointsOf(m, p) <= 5000 /\ PointsOf(m, p) <= PointsOf(n, p)
  <1>1. p \in Nat /\ p <= 50
    BY DEF Penalties
  <1>2. m \in Nat /\ n \in Nat /\ m <= 10000
    BY DEF Centi
  <1>3. m * p \in Nat /\ n * p \in Nat /\ m * p <= n * p /\ m * p <= 10000 * p
    BY <1>1, <1>2, Product
  <1>4. 10000 * p <= 500000 /\ 10000 * p \in Nat
    BY <1>1
  <1> DEFINE a == m * p
             b == n * p
             c == 10000 * p
  <1>5. a \in Nat /\ b \in Nat /\ a <= b /\ a <= 500000
    <2>1. a \in Nat /\ b \in Nat /\ c \in Nat /\ a <= b /\ a <= c /\ c <= 500000
      BY <1>3, <1>4
    <2> HIDE DEF a, b, c
    <2> QED BY <2>1
  <1> HIDE DEF a, b
  <1>6. Rounded(a, 100) \in Nat /\ Rounded(a, 100) <= Rounded(b, 100) /\ Rounded(a, 100) <= 5000
    <2>1. Rounded(a, 100) \in Nat /\ Rounded(a, 100) <= Rounded(b, 100)
      BY <1>5, RoundedMonotone
    <2>2. 500000 \in Nat /\ a <= 500000
      BY <1>5
    <2>3. Rounded(a, 100) <= Rounded(500000, 100)
      BY <1>5, <2>2, RoundedMonotone
    <2> QED BY <2>1, <2>3, FiftyPoints
  <1>7. PointsOf(m, p) = Rounded(a, 100) /\ PointsOf(n, p) = Rounded(b, 100)
    BY DEF PointsOf, a, b
  <1> QED BY <1>6, <1>7

\* What the properties need of the scores and points of a control.
LEMMA RiskIsBounded ==
  ASSUME AnswersGood, NEW c \in Controls
  PROVE  /\ Score(c) \in 0..10000
         /\ RiskPoints(c) \in Nat /\ RiskPoints(c) <= 5000
  <1>1. /\ Library[c].questions \in 0..3 /\ Library[c].penalty \in Penalties
        /\ answers[c].yes \in 0..3 /\ answers[c].no \in 0..3
        /\ answers[c].yes + answers[c].no <= Library[c].questions
    BY LibraryFacts DEF AnswersGood
  <1> DEFINE q == Library[c].questions
             p == Library[c].penalty
             y == answers[c].yes
             n == answers[c].no
             s == Score(c)
  <1>2. s \in 0..10000
    <2>1. s = ScoreOf(q, y, n)
      BY DEF Score
    <2>2. Answered(q, y, n)
      BY <1>1 DEF Answered
    <2> HIDE DEF q, y, n, s
    <2> QED BY <2>1, <2>2, ScoreRange
  <1>3. RiskPoints(c) = PointsOf(10000 - s, p) /\ p \in Penalties
    BY <1>1 DEF RiskPoints, PointsOf
  <1> HIDE DEF s, p
  <1> DEFINE m == 10000 - s
  <1>4. m \in Centi /\ m <= m
    BY <1>2 DEF Centi
  <1>5. RiskPoints(c) = PointsOf(m, p)
    BY <1>3
  <1> HIDE DEF m
  <1>6. RiskPoints(c) \in Nat /\ RiskPoints(c) <= 5000
    BY <1>3, <1>4, <1>5, Points
  <1> QED BY <1>2, <1>6 DEF s

-----------------------------------------------------------------------------
(* The order of a plan *)

LEMMA RanksOrdered ==
  ASSUME AnswersGood
  PROVE  /\ \A c \in Controls : Rank(c) \in Controls
         /\ \A c, d \in Controls : Before(c, d) => Rank(c) < Rank(d)
         /\ \A c, d \in Controls : c # d => Before(c, d) \/ Before(d, c)
         /\ \A c, d \in Controls : ~ (Before(c, d) /\ Before(d, c))
  <1> DEFINE Ahead(c) == { d \in Controls : Before(d, c) }
  <1>1. ASSUME NEW c \in Controls PROVE RiskPoints(c) \in Nat /\ c \in Nat
    <2>1. RiskPoints(c) \in Nat
      BY RiskIsBounded
    <2>2. Controls = 1..Len(Library) /\ Len(Library) \in Nat
      BY LibraryFacts
    <2> QED BY <2>1, <2>2
  <1>2. \A c \in Controls : ~ Before(c, c)
    BY <1>1 DEF Before
  <1>3. \A c, d, e \in Controls : Before(c, d) /\ Before(d, e) => Before(c, e)
    BY <1>1 DEF Before
  <1>4. \A c, d \in Controls : c # d => Before(c, d) \/ Before(d, c)
    BY <1>1 DEF Before
  <1>5. \A c \in Controls : IsFiniteSet(Ahead(c)) /\ Cardinality(Ahead(c)) \in Nat
    BY LibraryFacts, FS_Subset, FS_CardinalityType
  <1>6. ASSUME NEW c \in Controls PROVE Rank(c) \in Controls
    <2>1. Ahead(c) \in SUBSET Controls /\ Ahead(c) # Controls
      BY <1>2
    <2>2. Cardinality(Ahead(c)) <= Len(Library) /\ Cardinality(Ahead(c)) # Len(Library)
      <3> HIDE DEF Ahead
      <3> QED BY <2>1, LibraryFacts, FS_Subset
    <2>3. Rank(c) = 1 + Cardinality(Ahead(c))
      BY DEF Rank
    <2> HIDE DEF Ahead
    <2> QED BY <1>5, <2>2, <2>3, LibraryFacts
  <1>7. ASSUME NEW c \in Controls, NEW d \in Controls, Before(c, d)
        PROVE  Rank(c) < Rank(d)
    <2>1. Ahead(c) \in SUBSET Ahead(d) /\ c \in Ahead(d) /\ c \notin Ahead(c)
      BY <1>2, <1>3, <1>7
    <2>2. Rank(c) = 1 + Cardinality(Ahead(c)) /\ Rank(d) = 1 + Cardinality(Ahead(d))
      BY DEF Rank
    <2>3. IsFiniteSet(Ahead(d)) /\ Cardinality(Ahead(c)) \in Nat /\ Cardinality(Ahead(d)) \in Nat
      BY <1>5
    <2> HIDE DEF Ahead
    <2>4. /\ Cardinality(Ahead(c)) <= Cardinality(Ahead(d))
          /\ Cardinality(Ahead(c)) # Cardinality(Ahead(d))
      BY <2>1, <2>3, FS_Subset
    <2> QED BY <2>2, <2>3, <2>4
  <1>8. \A c, d \in Controls : ~ (Before(c, d) /\ Before(d, c))
    BY <1>2, <1>3
  <1> HIDE DEF Ahead
  <1> QED BY <1>4, <1>6, <1>7, <1>8

\* Each rank has a control, as there are as many: the order is of all of them.
LEMMA EachRankIsTaken ==
  ASSUME AnswersGood, NEW i \in Controls
  PROVE  \E c \in Controls : Rank(c) = i
  <1> DEFINE f == [c \in Controls |-> Rank(c)]
  <1>1. \A c \in Controls : Rank(c) \in Controls
    BY RanksOrdered
  <1>2. ASSUME NEW c \in Controls, NEW d \in Controls, c # d PROVE Rank(c) # Rank(d)
    <2>1. Rank(c) < Rank(d) \/ Rank(d) < Rank(c)
      BY <1>2, RanksOrdered
    <2>2. Rank(c) \in Nat /\ Rank(d) \in Nat
      BY <1>1, LibraryFacts
    <2> QED BY <2>1, <2>2
  <1>3. f \in Injection(Controls, Controls)
    BY <1>1, <1>2 DEF Injection, IsInjective
  <1>4. f \in Surjection(Controls, Controls)
    <2> HIDE DEF f
    <2> QED BY <1>3, LibraryFacts, FS_Injection
  <1> QED BY <1>4 DEF Surjection

LEMMA ByRiskOrdered ==
  ASSUME AnswersGood
  PROVE  /\ ByRisk \in [Controls -> Controls]
         /\ \A c \in Controls : \E i \in Controls : ByRisk[i] = c
         /\ \A i, j \in Controls : i < j => Before(ByRisk[i], ByRisk[j])
  <1>1. ASSUME NEW i \in Controls PROVE ByRisk[i] \in Controls /\ Rank(ByRisk[i]) = i
    BY EachRankIsTaken DEF ByRisk
  <1>2. ByRisk \in [Controls -> Controls]
    BY <1>1 DEF ByRisk
  <1>3. \A i \in Controls : i \in Nat
    BY LibraryFacts
  <1>4. ASSUME NEW i \in Controls, NEW j \in Controls, i < j
        PROVE  Before(ByRisk[i], ByRisk[j])
    <2>1. ByRisk[i] # ByRisk[j]
      BY <1>1, <1>3, <1>4
    <2>2. ~ Before(ByRisk[j], ByRisk[i])
      <3>1. Before(ByRisk[j], ByRisk[i]) => Rank(ByRisk[j]) < Rank(ByRisk[i])
        BY <1>1, RanksOrdered
      <3> QED BY <1>1, <1>3, <1>4, <3>1
    <2> QED BY <1>1, <2>1, <2>2, RanksOrdered
  <1>5. ASSUME NEW c \in Controls PROVE \E i \in Controls : ByRisk[i] = c
    <2>1. Rank(c) \in Controls /\ ByRisk[Rank(c)] \in Controls /\ Rank(ByRisk[Rank(c)]) = Rank(c)
      BY <1>1, RanksOrdered
    <2>2. ASSUME ByRisk[Rank(c)] # c PROVE FALSE
      <3>1. Rank(c) < Rank(ByRisk[Rank(c)]) \/ Rank(ByRisk[Rank(c)]) < Rank(c)
        BY <2>1, <2>2, RanksOrdered
      <3> QED BY <1>3, <2>1, <3>1
    <2> QED BY <2>1, <2>2
  <1> QED BY <1>2, <1>4, <1>5

-----------------------------------------------------------------------------
(* The invariant *)

LEMMA AssessmentInitial == AssessmentInit => AssessmentInv
  <1> SUFFICES ASSUME AssessmentInit PROVE AssessmentInv
    OBVIOUS
  <1>1. AnswersGood
    BY LibraryFacts DEF AssessmentInit, AnswersGood
  <1>2. EscalatesByTotal /\ WorstFirst
    BY DEF AssessmentInit, EscalatesByTotal, WorstFirst
  <1> QED BY <1>1, <1>2 DEF AssessmentInv

LEMMA AnswerQuestionKept ==
  ASSUME AssessmentInv, NEW c \in Controls, AnswerQuestion(c)
  PROVE  AssessmentInv'
  <1>1. PICK y \in 0..Library[c].questions, n \in 0..Library[c].questions :
          /\ y + n <= Library[c].questions
          /\ answers' = [answers EXCEPT ![c] = [yes |-> y, no |-> n]]
    BY DEF AnswerQuestion
  <1>2. y \in 0..3 /\ n \in 0..3
    BY LibraryFacts
  <1>3. AnswersGood'
    BY <1>1, <1>2 DEF AssessmentInv, AnswersGood, Controls
  <1>4. (EscalatesByTotal /\ WorstFirst)'
    BY DEF AnswerQuestion, AssessmentInv, EscalatesByTotal, WorstFirst, Controls
  <1> QED BY <1>3, <1>4 DEF AssessmentInv

\* A plan escalates by its total: no control's impact is high.
LEMMA PlanEscalates ==
  ASSUME AnswersGood
  PROVE  /\ Plan.escalate <=> Plan.records > RecordsCap
         /\ Plan.reason = IF Plan.escalate THEN "blast_radius_exceeded" ELSE "none"
  <1>1. ASSUME NEW c \in Controls PROVE ~ HighImpact(c)
    <2>1. RiskPoints(c) \in Nat /\ RiskPoints(c) <= 5000
      BY RiskIsBounded
    <2> QED BY <2>1 DEF HighImpact, RecordsAffected
  <1> DEFINE total == SumFunction([c \in Controls |-> RecordsAffected(c)])
             high == \E c \in Controls : HighImpact(c)
  <1>2. ~ high
    BY <1>1
  <1>3. /\ Plan.records = total
        /\ Plan.escalate = (high \/ OverCap(total))
        /\ Plan.reason = CASE high -> "high_blast_radius"
                           [] ~ high /\ OverCap(total) -> "blast_radius_exceeded"
                           [] OTHER -> "none"
    BY DEF Plan
  <1> HIDE DEF total, high
  <1>4. Plan.reason = IF OverCap(total) THEN "blast_radius_exceeded" ELSE "none"
    BY <1>2, <1>3
  <1> QED BY <1>2, <1>3, <1>4 DEF OverCap

LEMMA PlanIsOrdered ==
  ASSUME AnswersGood
  PROVE  /\ Len(Plan.sequence) = Len(Library) /\ ToSet(Plan.sequence) = Controls
         /\ \A i, j \in Controls : i < j =>
              \/ Plan.scores[i] > Plan.scores[j]
              \/ Plan.scores[i] = Plan.scores[j] /\ Plan.sequence[i] < Plan.sequence[j]
  <1>1. Plan.sequence = ByRisk /\ Plan.scores = [i \in Controls |-> ActionScore(ByRisk[i])]
    BY DEF Plan
  <1>2. Controls = 1..Len(Library) /\ Len(Library) \in Nat
    BY LibraryFacts
  <1>3. ByRisk \in [Controls -> Controls]
    BY ByRiskOrdered
  <1>4. Len(Plan.sequence) = Len(Library)
    BY <1>1, <1>2, <1>3
  <1>5. ToSet(Plan.sequence) = Controls
    <2>1. ToSet(ByRisk) = { ByRisk[i] : i \in Controls }
      BY <1>3 DEF ToSet
    <2> QED BY <1>1, <1>3, <2>1, ByRiskOrdered
  <1>6. ASSUME NEW i \in Controls, NEW j \in Controls, i < j
        PROVE  \/ Plan.scores[i] > Plan.scores[j]
               \/ Plan.scores[i] = Plan.scores[j] /\ Plan.sequence[i] < Plan.sequence[j]
    <2>1. Before(ByRisk[i], ByRisk[j])
      BY <1>6, ByRiskOrdered
    <2>2. /\ RiskPoints(ByRisk[i]) \in Nat /\ RiskPoints(ByRisk[i]) <= 5000
          /\ RiskPoints(ByRisk[j]) \in Nat /\ RiskPoints(ByRisk[j]) <= 5000
      BY <1>3, RiskIsBounded
    <2>3. /\ ActionScore(ByRisk[i]) = RiskPoints(ByRisk[i])
          /\ ActionScore(ByRisk[j]) = RiskPoints(ByRisk[j])
      BY <2>2 DEF ActionScore
    <2> QED BY <1>1, <2>1, <2>3 DEF Before
  <1> QED BY <1>4, <1>5, <1>6

LEMMA ProposePlanKept ==
  ASSUME AssessmentInv, ProposePlan
  PROVE  AssessmentInv'
  <1>1. AnswersGood /\ AnswersGood'
    BY DEF AssessmentInv, ProposePlan, AnswersGood, Controls
  <1>2. EscalatesByTotal'
    BY <1>1, PlanEscalates DEF ProposePlan, EscalatesByTotal
  <1>3. WorstFirst'
    BY <1>1, PlanIsOrdered DEF ProposePlan, WorstFirst, Controls
  <1> QED BY <1>1, <1>2, <1>3 DEF AssessmentInv

LEMMA AssessmentStep == AssessmentInv /\ [AssessmentNext]_assessmentVars => AssessmentInv'
  <1> SUFFICES ASSUME AssessmentInv, [AssessmentNext]_assessmentVars PROVE AssessmentInv'
    OBVIOUS
  <1>1. CASE ProposePlan
    BY <1>1, ProposePlanKept
  <1>2. ASSUME NEW c \in Controls, AnswerQuestion(c) PROVE AssessmentInv'
    BY <1>2, AnswerQuestionKept
  <1>3. CASE UNCHANGED assessmentVars
    BY <1>3 DEF assessmentVars, AssessmentInv, AnswersGood, EscalatesByTotal, WorstFirst, Controls
  <1> QED BY <1>1, <1>2, <1>3 DEF AssessmentNext

\* In every state of every library: the answers fit their questions, and the
\* plan is escalated by its total and ordered.
THEOREM AssessmentInvariant == AssessmentSpec => []AssessmentInv
  BY AssessmentInitial, AssessmentStep, PTL DEF AssessmentSpec

LEMMA InvMeansProperties == AssessmentInv => EscalatesByTotal /\ WorstFirst
  BY DEF AssessmentInv

\* A plan is escalated exactly when it affects more records than the cap, for
\* any library of such controls and any cap: sudhaar.py's escalation of a single
\* action never happens.
THEOREM PlansEscalateByTotal == AssessmentSpec => []EscalatesByTotal
  BY AssessmentInvariant, InvMeansProperties, PTL

\* A plan closes each finding once, the worst first, for a library of any size.
THEOREM PlansAreOrdered == AssessmentSpec => []WorstFirst
  BY AssessmentInvariant, InvMeansProperties, PTL

-----------------------------------------------------------------------------
(* Better answers *)

LEMMA BetterScores ==
  ASSUME AnswersGood, AnswersGood', NEW c \in Controls, Better(c)
  PROVE  Score(c)' >= Score(c) /\ RiskPoints(c)' <= RiskPoints(c)
  <1> DEFINE q == Library[c].questions
             p == Library[c].penalty
             y == answers[c].yes
             n == answers[c].no
             z == answers'[c].yes
             k == answers'[c].no
             s == Score(c)
             t == Score(c)'
  <1>1. Answered(q, y, n) /\ Answered(q, z, k) /\ z >= y /\ k <= n /\ p \in Penalties
    BY LibraryFacts DEF Answered, AnswersGood, Better
  <1>2. s = ScoreOf(q, y, n) /\ t = ScoreOf(q, z, k)
    BY DEF Score
  <1>3. RiskPoints(c) = PointsOf(10000 - s, p) /\ RiskPoints(c)' = PointsOf(10000 - t, p)
    BY DEF RiskPoints, PointsOf
  <1> HIDE DEF q, p, y, n, z, k
  <1>4. t >= s /\ s \in Centi /\ t \in Centi
    <2> HIDE DEF s, t
    <2> QED BY <1>1, <1>2, ScoreRange, ScoreGrows DEF Centi
  <1> DEFINE m == 10000 - s
             l == 10000 - t
  <1>5. RiskPoints(c) = PointsOf(m, p) /\ RiskPoints(c)' = PointsOf(l, p)
    BY <1>3
  <1>6. m \in Centi /\ l \in Centi /\ l <= m
    <2> HIDE DEF s, t
    <2> QED BY <1>4 DEF Centi
  <1> HIDE DEF m, l
  <1>7. PointsOf(l, p) <= PointsOf(m, p)
    BY <1>1, <1>6, Points
  <1> QED BY <1>4, <1>5, <1>7

\* Over any library, better answers lower no score and raise no exposure: the
\* exposure is a sum over the whole library, compared term by term.
THEOREM BetterAnswersHelp == AssessmentSpec => BetterAnswersNeverHurt
  <1>1. ASSUME AnswersGood, AnswersGood', \A c \in Controls : Better(c)
        PROVE  /\ \A c \in Controls : Score(c)' >= Score(c)
               /\ Exposure' <= Exposure
    <2> DEFINE f == [c \in Controls |-> RiskPoints(c) * 10000]
               h == [c \in Controls |-> RiskPoints(c)' * 10000]
    <2>1. ASSUME NEW c \in Controls
          PROVE  /\ f[c] \in Nat /\ h[c] \in Nat /\ h[c] <= f[c]
                 /\ Score(c)' >= Score(c)
      <3>1. RiskPoints(c)' <= RiskPoints(c) /\ Score(c)' >= Score(c)
        BY <1>1, BetterScores
      <3>2. RiskPoints(c) \in Nat
        BY <1>1, RiskIsBounded
      <3>3. (AnswersGood => RiskPoints(c) \in Nat)'
        BY RiskIsBounded, PTL
      <3> QED BY <1>1, <3>1, <3>2, <3>3
    <2>2. f \in [Controls -> Nat] /\ h \in [Controls -> Nat] /\ DOMAIN f = Controls /\ DOMAIN h = Controls
      BY <2>1
    <2>3. Exposure = SumFunctionOnSet(f, Controls) /\ Exposure' = SumFunctionOnSet(h, Controls)
      BY <2>2 DEF Exposure, SumFunction, Controls
    <2> HIDE DEF f, h
    <2>4. SumFunctionOnSet(h, Controls) <= SumFunctionOnSet(f, Controls)
      BY <2>1, <2>2, LibraryFacts, SumMonotone
    <2> QED BY <2>1, <2>3, <2>4
  <1>2. AnswersGood /\ AnswersGood' =>
          [(\A c \in Controls : Better(c)) =>
             /\ \A c \in Controls : Score(c)' >= Score(c)
             /\ Exposure' <= Exposure]_answers
    BY <1>1
  <1>3. AssessmentInv => AnswersGood
    BY DEF AssessmentInv
  <1> QED BY <1>2, <1>3, AssessmentInvariant, PTL DEF BetterAnswersNeverHurt
=============================================================================
