------------------------- MODULE RoutingProperties ---------------------------
(***************************************************************************)
(* An exploration of the verdict over every score vector: a rubric whose   *)
(* dimensions are raised one point at a time, at every position of the     *)
(* retry ladder. The properties relate the verdicts of different vectors   *)
(* and of the two judges, which the operators of Routing do not say.       *)
(***************************************************************************)
EXTENDS Routing

VARIABLES scores, retries, criticalUsed

vars == <<scores, retries, criticalUsed>>

Init ==
  /\ scores = [d \in Dimensions |-> 1]
  /\ retries \in 0..MaxRetries + 1
  /\ criticalUsed \in BOOLEAN

Raise(d) ==
  /\ scores[d] < 5
  /\ scores' = [scores EXCEPT ![d] = @ + 1]
  /\ UNCHANGED <<retries, criticalUsed>>

Next == \E d \in Dimensions : Raise(d)

Spec == Init /\ [][Next]_vars

\* What the confirming judge may answer: nothing, or a uniform rubric.
SecondOpinions == {NoOutput} \union {[d \in Dimensions |-> k] : k \in 1..5}

Outcome(blocked, second) ==
  Evaluate(blocked, scores, second, retries, criticalUsed)

Severity(verdict) ==
  CASE verdict = "pass" -> 0 [] verdict = "retry" -> 1 [] verdict = "escalate" -> 2

------------------------------------------------------------------------------
\* Raising a dimension never turns the verdict against the artifact, although
\* the rule mixes a mean, a minimum, a critical flag and the retry budget
\* (decide_verdict).
VerdictMonotone ==
  [][Severity(DecideVerdict(scores', retries, criticalUsed))
       <= Severity(DecideVerdict(scores, retries, criticalUsed))]_vars

\* While the Tier 2 judge answers, the cheap judge alone settles only a mean
\* of at least the threshold or one below the borderline band, and never pages
\* a human; when Tier 2 does not answer, what needed it is never passed
\* (the layering of evaluate and needs_tier2_confirmation).
CheapJudgeNeverSettlesDoubt ==
  \A second \in SecondOpinions :
    LET outcome == Outcome(FALSE, second)
    IN  outcome.judge = "tier1" =>
          /\ second # NoOutput =>
               /\ outcome.verdict # "escalate"
               /\ Mean(scores) >= PassThreshold \/ Mean(scores) < BorderlineLow
          /\ outcome.verdict = "pass" => Mean(scores) >= PassThreshold

\* With the retry budget spent no layer of the evaluation asks for another
\* attempt, and a critical flag is retried at most while its fast track is
\* unused: what keeps the gate's loop finite.
SpentBudgetStopsRetries ==
  \A blocked \in BOOLEAN, second \in SecondOpinions :
    LET outcome == Outcome(blocked, second)
    IN  outcome.verdict = "retry" =>
          /\ retries < MaxRetries
          /\ outcome.critical => FastTrack /\ ~criticalUsed
=============================================================================
