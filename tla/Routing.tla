------------------------------- MODULE Routing -------------------------------
(***************************************************************************)
(* The reliability engine as pure operators: the verdict of a gate, the    *)
(* layered evaluation it comes from, and the model tier every call runs    *)
(* on (graph/routing.py, agents/evaluator.py, llm/model_router.py).        *)
(***************************************************************************)
EXTENDS Integers

CONSTANTS
  PassThreshold,     \* GatePolicy.pass_threshold, in hundredths of a point
  BorderlineLow,     \* GatePolicy.borderline_low, in hundredths of a point
  MinDimension,      \* GatePolicy.min_dimension_score
  MaxRetries,        \* Settings.max_retries_per_handoff
  FastTrack,         \* critical_policy is FAST_TRACK (STRICT when FALSE)
  AllTier2,          \* routing_policy is ALL_TIER2 (ROUTED when FALSE)
  TieredEvaluator,   \* Settings.tiered_evaluator
  Pregate,           \* Settings.deterministic_pregate
  NoOutput           \* a judge call whose output never validated

Dimensions  == 1..5
ScoreVector == [Dimensions -> 1..5]

ASSUME PolicyAssumption ==
  /\ PassThreshold \in Int /\ BorderlineLow \in Int /\ MinDimension \in Int
  /\ MaxRetries \in Nat
  /\ FastTrack \in BOOLEAN /\ AllTier2 \in BOOLEAN
  /\ TieredEvaluator \in BOOLEAN /\ Pregate \in BOOLEAN
  /\ NoOutput \notin ScoreVector

Tiers    == 1..2
Verdicts == {"pass", "retry", "escalate"}
Judges   == {"deterministic", "tier1", "tier2"}

\* What a gate concludes; the pipeline adds the handoff and the attempt.
GateOutcome ==
  [verdict : Verdicts, scored : BOOLEAN, critical : BOOLEAN, judge : Judges]

------------------------------------------------------------------------------
(* Scores. The mean is rounded to hundredths by the code; a fifth of an    *)
(* integer needs one decimal, so the rounding is exact.                    *)

Mean(scores) ==
  20 * (scores[1] + scores[2] + scores[3] + scores[4] + scores[5])

Minimum(scores) ==
  CHOOSE m \in 1..5 :
    /\ \E d \in Dimensions : scores[d] = m
    /\ \A d \in Dimensions : m <= scores[d]

IsCritical(scores) == Minimum(scores) = 1

Passes(scores) ==
  /\ Mean(scores) >= PassThreshold
  /\ Minimum(scores) >= MinDimension
  /\ ~IsCritical(scores)

------------------------------------------------------------------------------
(* Verdicts.                                                               *)

ExhaustedOffByOne(retries) == retries > MaxRetries

Exhausted(retries) == retries >= MaxRetries

\* A critical flag that no fast-track retry can answer any more.
CriticalStops(scores, criticalUsed) ==
  IsCritical(scores) /\ (~FastTrack \/ criticalUsed)

CriticalForgetsBudget(scores, retries, criticalUsed) ==
  IF Passes(scores) THEN "pass"
  ELSE IF \/ CriticalStops(scores, criticalUsed)
          \/ ~IsCritical(scores) /\ Exhausted(retries)
       THEN "escalate" ELSE "retry"

DecideVerdict(scores, retries, criticalUsed) ==
  IF Passes(scores) THEN "pass"
  ELSE IF Exhausted(retries) \/ CriticalStops(scores, criticalUsed)
       THEN "escalate" ELSE "retry"

DecideWithoutScores(retries) == IF Exhausted(retries) THEN "escalate" ELSE "retry"

BorderlineOnly(scores, verdict) ==
  BorderlineLow <= Mean(scores) /\ Mean(scores) < PassThreshold

NeedsTier2Confirmation(scores, verdict) ==
  \/ BorderlineLow <= Mean(scores) /\ Mean(scores) < PassThreshold
  \/ verdict = "escalate"

------------------------------------------------------------------------------
(* Model tiers.                                                            *)

LastAttemptStaysCheap(highRisk, attempt, forced) ==
  IF AllTier2 \/ highRisk \/ forced \/ attempt > MaxRetries + 1 THEN 2 ELSE 1

\* The tier of a persona's call: `highRisk` personas always run on Tier 2.
PersonaTier(highRisk, attempt, forced) ==
  IF AllTier2 \/ highRisk \/ forced \/ attempt >= MaxRetries + 1 THEN 2 ELSE 1

JudgeTier(confirm) == IF AllTier2 \/ confirm THEN 2 ELSE 1

JudgeSource(tier) == IF tier = 2 THEN "tier2" ELSE "tier1"

------------------------------------------------------------------------------
(* The layered evaluation of one artifact: pre-gate, first judge, Tier 2   *)
(* confirmation. `first` and `second` are what the judges return.          *)

Rejection(retries) ==
  [verdict |-> DecideWithoutScores(retries), scored |-> FALSE,
   critical |-> FALSE, judge |-> "deterministic"]

FirstTier == JudgeTier(~TieredEvaluator)

FailOpen ==
  [verdict |-> "retry", scored |-> FALSE, critical |-> FALSE,
   judge |-> JudgeSource(FirstTier)]

JudgeFailure ==
  [verdict |-> "escalate", scored |-> FALSE, critical |-> FALSE,
   judge |-> JudgeSource(FirstTier)]

Scored(scores, tier, retries, criticalUsed) ==
  [verdict  |-> DecideVerdict(scores, retries, criticalUsed),
   scored   |-> TRUE,
   critical |-> IsCritical(scores),
   judge    |-> JudgeSource(tier)]

Confirms(first, retries, criticalUsed) ==
  /\ TieredEvaluator
  /\ FirstTier = 1
  /\ NeedsTier2Confirmation(first, DecideVerdict(first, retries, criticalUsed))

Evaluate(blocked, first, second, retries, criticalUsed) ==
  IF Pregate /\ blocked THEN Rejection(retries)
  ELSE IF first = NoOutput THEN JudgeFailure
  ELSE IF Confirms(first, retries, criticalUsed) /\ second # NoOutput
       THEN Scored(second, JudgeTier(TRUE), retries, criticalUsed)
       ELSE Scored(first, FirstTier, retries, criticalUsed)
=============================================================================
