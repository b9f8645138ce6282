---------------------------- MODULE RoutingProofs ----------------------------
(***************************************************************************)
(* The verdict over every score vector, proved for every threshold, retry  *)
(* budget, critical policy and model policy: that doubt reaches the        *)
(* stronger judge, that a spent budget stops the retries, and that a       *)
(* better artifact is never judged worse.                                  *)
(***************************************************************************)
EXTENDS RoutingProperties, TLAPS

ScoresOK ==
  /\ scores \in ScoreVector
  /\ retries \in Nat
  /\ criticalUsed \in BOOLEAN

\* The rule asks for a retry only while the budget lasts and no critical flag
\* has used it up; it escalates only what it does not pass (decide_verdict).
LEMMA VerdictFacts ==
  ASSUME NEW v, NEW r \in Nat, NEW used
  PROVE  /\ DecideVerdict(v, r, used) \in Verdicts
         /\ DecideVerdict(v, r, used) = "pass" <=> Passes(v)
         /\ DecideVerdict(v, r, used) = "retry" =>
              r < MaxRetries /\ ~CriticalStops(v, used)
<1>1. (r >= MaxRetries) = ~(r < MaxRetries)
  BY PolicyAssumption
<1> QED
  BY <1>1 DEF DecideVerdict, Exhausted, Verdicts

\* The sum of five scores is a number.
LEMMA MeanInt ==
  ASSUME NEW v \in ScoreVector
  PROVE  Mean(v) \in Int
BY DEF ScoreVector, Dimensions, Mean

\* What the layers of an evaluation can return: a rejection, the record of a
\* failed judge, or the verdict on one of the two judges' scores.
LEMMA LayerFacts ==
  ASSUME NEW blocked, NEW first \in ScoreVector, NEW second, NEW r, NEW used
  PROVE  LET outcome == Evaluate(blocked, first, second, r, used)
         IN  \/ outcome = Rejection(r)
             \/ /\ Confirms(first, r, used) /\ second # NoOutput
                /\ outcome = Scored(second, 2, r, used)
             \/ /\ ~(Confirms(first, r, used) /\ second # NoOutput)
                /\ outcome = Scored(first, FirstTier, r, used)
<1>1. first # NoOutput
  BY PolicyAssumption
<1>2. JudgeTier(TRUE) = 2
  BY DEF JudgeTier
<1> QED
  BY <1>1, <1>2 DEF Evaluate

\* The scores stay in their range while the exploration raises them.
LEMMA ScoresInv == Spec => []ScoresOK
<1>1. Init => ScoresOK
  BY PolicyAssumption DEF Init, ScoresOK, ScoreVector, Dimensions
<1>2. ScoresOK /\ [Next]_vars => ScoresOK'
  <2> SUFFICES ASSUME ScoresOK, [Next]_vars PROVE ScoresOK'
    OBVIOUS
  <2>1. ASSUME NEW d \in Dimensions, Raise(d) PROVE ScoresOK'
    BY <2>1 DEF Raise, ScoresOK, ScoreVector, Dimensions
  <2>2. CASE UNCHANGED vars
    BY <2>2 DEF vars, ScoresOK
  <2> QED
    BY <2>1, <2>2 DEF Next
<1> QED
  BY <1>1, <1>2, PTL DEF Spec

------------------------------------------------------------------------------
\* With the budget spent no layer asks for another attempt, and a critical flag
\* is retried only on an unused fast track, for every budget and policy.
THEOREM BudgetSafety == Spec => []SpentBudgetStopsRetries
<1>1. ScoresOK => SpentBudgetStopsRetries
  <2> SUFFICES ASSUME ScoresOK,
                      NEW blocked \in BOOLEAN, NEW second \in SecondOpinions,
                      Outcome(blocked, second).verdict = "retry"
               PROVE  /\ retries < MaxRetries
                      /\ Outcome(blocked, second).critical =>
                           FastTrack /\ ~criticalUsed
    BY DEF SpentBudgetStopsRetries
  <2> DEFINE outcome == Outcome(blocked, second)
  <2>1. ASSUME NEW v, NEW tier, outcome = Scored(v, tier, retries, criticalUsed)
        PROVE  /\ retries < MaxRetries
               /\ outcome.critical => FastTrack /\ ~criticalUsed
    <3>1. DecideVerdict(v, retries, criticalUsed) = "retry"
      BY <2>1 DEF Scored
    <3>2. outcome.critical = IsCritical(v)
      BY <2>1 DEF Scored
    <3> QED
      BY <3>1, <3>2, VerdictFacts DEF ScoresOK, CriticalStops
  <2>2. CASE outcome = Rejection(retries)
    BY <2>2, PolicyAssumption
    DEF Rejection, DecideWithoutScores, Exhausted, ScoresOK
  <2> QED
    BY <2>1, <2>2, LayerFacts DEF Outcome, ScoresOK
<1> QED
  BY <1>1, ScoresInv, PTL

\* The cheap judge alone settles only clear cases while Tier 2 answers, and
\* passes only a mean of the threshold when it does not.
THEOREM DoubtSafety == Spec => []CheapJudgeNeverSettlesDoubt
<1>1. ScoresOK => CheapJudgeNeverSettlesDoubt
  <2> SUFFICES ASSUME ScoresOK, NEW second \in SecondOpinions, NEW STATE outcome,
                      outcome = Outcome(FALSE, second), outcome.judge = "tier1"
               PROVE  /\ second # NoOutput =>
                           /\ outcome.verdict # "escalate"
                           /\ \/ Mean(scores) >= PassThreshold
                              \/ Mean(scores) < BorderlineLow
                      /\ outcome.verdict = "pass" => Mean(scores) >= PassThreshold
    BY DEF CheapJudgeNeverSettlesDoubt
  <2> DEFINE verdict == DecideVerdict(scores, retries, criticalUsed)
  <2>1. /\ outcome = Scored(scores, FirstTier, retries, criticalUsed)
        /\ ~(Confirms(scores, retries, criticalUsed) /\ second # NoOutput)
    <3>1. outcome = IF Confirms(scores, retries, criticalUsed) /\ second # NoOutput
                    THEN Scored(second, 2, retries, criticalUsed)
                    ELSE Scored(scores, FirstTier, retries, criticalUsed)
      BY PolicyAssumption DEF Outcome, Evaluate, JudgeTier, ScoresOK
    <3>2. Scored(second, 2, retries, criticalUsed).judge # "tier1"
      BY DEF Scored, JudgeSource
    <3> QED
      BY <3>1, <3>2
  <2>2. outcome.verdict = verdict /\ outcome.judge = JudgeSource(FirstTier)
    <3> DEFINE record == Scored(scores, FirstTier, retries, criticalUsed)
    <3>1. record.verdict = verdict /\ record.judge = JudgeSource(FirstTier)
      BY DEF Scored
    <3> QED
      BY <2>1, <3>1
  <2>3. FirstTier = 1 /\ TieredEvaluator
    BY <2>2, PolicyAssumption DEF JudgeSource, FirstTier, JudgeTier
  <2>4. second # NoOutput => ~NeedsTier2Confirmation(scores, verdict)
    BY <2>1, <2>3 DEF Confirms
  <2>5. ASSUME second # NoOutput
        PROVE  /\ verdict # "escalate"
               /\ Mean(scores) >= PassThreshold \/ Mean(scores) < BorderlineLow
    BY <2>4, <2>5, MeanInt, PolicyAssumption DEF NeedsTier2Confirmation, ScoresOK
  <2>6. verdict = "pass" => Mean(scores) >= PassThreshold
    BY VerdictFacts DEF ScoresOK, Passes
  <2> QED
    BY <2>2, <2>5, <2>6
<1> QED
  BY <1>1, ScoresInv, PTL

------------------------------------------------------------------------------
\* The minimum of a vector is its least entry.
LEMMA MinimumFacts ==
  ASSUME NEW v \in ScoreVector
  PROVE  /\ Minimum(v) \in 1..5
         /\ \E d \in Dimensions : v[d] = Minimum(v)
         /\ \A d \in Dimensions : Minimum(v) <= v[d]
<1> DEFINE Least(m) == /\ \E d \in Dimensions : v[d] = m
                       /\ \A d \in Dimensions : m <= v[d]
<1>1. \E m \in 1..5 : Least(m)
  <2> DEFINE Below(k) == \E d \in Dimensions : v[d] <= k
  <2>1. \A d \in Dimensions : v[d] \in 1..5
    BY DEF ScoreVector
  <2>2. Below(5)
    BY <2>1 DEF Dimensions
  <2>3. ~Below(0)
    BY <2>1
  <2>4. PICK k \in 1..5 : Below(k) /\ ~Below(k - 1)
    <3>1. CASE Below(1)
      BY <3>1, <2>3
    <3>2. CASE ~Below(1) /\ Below(2)
      BY <3>2
    <3>3. CASE ~Below(2) /\ Below(3)
      BY <3>3
    <3>4. CASE ~Below(3) /\ Below(4)
      BY <3>4
    <3>5. CASE ~Below(4)
      BY <3>5, <2>2
    <3> QED
      BY <3>1, <3>2, <3>3, <3>4, <3>5
  <2>5. Least(k)
    BY <2>4, <2>1
  <2> QED
    BY <2>5
<1>2. Minimum(v) = CHOOSE m \in 1..5 : Least(m)
  BY DEF Minimum
<1> HIDE DEF Least
<1>3. Minimum(v) \in 1..5 /\ Least(Minimum(v))
  BY <1>1, <1>2
<1> QED
  BY <1>3 DEF Least

\* Raising one dimension lowers neither the mean nor the minimum.
LEMMA RaiseFacts ==
  ASSUME ScoresOK, NEW d \in Dimensions, Raise(d)
  PROVE  /\ scores' \in ScoreVector
         /\ \A e \in Dimensions : scores[e] <= scores'[e]
         /\ Mean(scores) <= Mean(scores')
         /\ Minimum(scores) <= Minimum(scores')
<1>1. scores' \in ScoreVector
  BY DEF ScoresOK, ScoreVector, Dimensions, Raise
<1>2. \A e \in Dimensions : scores[e] \in Int /\ scores'[e] \in Int
  BY <1>1 DEF ScoresOK, ScoreVector
<1>3. \A e \in Dimensions : scores[e] <= scores'[e]
  BY <1>2 DEF ScoresOK, ScoreVector, Raise
<1>4. Mean(scores) <= Mean(scores')
  BY <1>2, <1>3 DEF Mean, Dimensions
<1>5. Minimum(scores) <= Minimum(scores')
  <2>1. PICK e \in Dimensions : scores'[e] = Minimum(scores')
    BY <1>1, MinimumFacts
  <2>2. Minimum(scores) <= scores[e] /\ Minimum(scores) \in Int
    BY MinimumFacts DEF ScoresOK
  <2> QED
    BY <1>2, <1>3, <2>1, <2>2
<1> QED
  BY <1>1, <1>3, <1>4, <1>5

\* Raising a dimension never turns the verdict against the artifact, for every
\* threshold, minimum, budget and critical policy.
THEOREM MonotoneVerdicts == Spec => VerdictMonotone
<1> DEFINE Before == DecideVerdict(scores, retries, criticalUsed)
           After  == DecideVerdict(scores', retries, criticalUsed)
<1>1. ScoresOK /\ [Next]_vars => [Severity(After) <= Severity(Before)]_vars
  <2> SUFFICES ASSUME ScoresOK, NEW d \in Dimensions, Raise(d)
               PROVE  Severity(After) <= Severity(Before)
    BY DEF Next
  <2>1. /\ Mean(scores) \in Int /\ Mean(scores') \in Int
        /\ Minimum(scores) \in 1..5 /\ Minimum(scores') \in 1..5
    BY RaiseFacts, MeanInt, MinimumFacts DEF ScoresOK
  <2>2. IsCritical(scores') => IsCritical(scores)
    BY <2>1, RaiseFacts DEF IsCritical
  <2>3. Passes(scores) => Passes(scores')
    BY <2>1, <2>2, RaiseFacts, PolicyAssumption DEF Passes
  <2>4. CriticalStops(scores', criticalUsed) => CriticalStops(scores, criticalUsed)
    BY <2>2 DEF CriticalStops
  <2>5. \/ After = "pass" /\ Before \in Verdicts
        \/ After = Before /\ Before \in Verdicts
        \/ After = "retry" /\ Before = "escalate"
    BY <2>3, <2>4 DEF DecideVerdict, Verdicts
  <2> QED
    BY <2>5 DEF Severity, Verdicts
<1> QED
  BY <1>1, ScoresInv, PTL DEF Spec, VerdictMonotone
=============================================================================
