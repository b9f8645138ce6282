---------------------------- MODULE PipelineProofs ----------------------------
(***************************************************************************)
(* Proofs about Pipeline, for every number of stages, retry budget, policy *)
(* and set of score vectors.                                               *)
(***************************************************************************)
EXTENDS Pipeline, TLAPS

------------------------------------------------------------------------------
(* Lemmas about the operators.                                             *)

\* Whatever the artifact's findings and the judges' answers, an evaluation is
\* well formed, asks for a retry only inside the budget, and passes only on
\* scores without a critical dimension (agents/evaluator.py evaluate).
LEMMA OutcomeFacts ==
  ASSUME NEW retries \in 0..RetryCap, NEW used \in BOOLEAN,
         NEW outcome \in JudgedOutcomes[retries][used] \union {Rejection(retries)}
  PROVE  /\ outcome \in GateOutcome
         /\ outcome.verdict = "retry" => retries < MaxRetries
         /\ outcome.verdict = "pass" => outcome.scored /\ ~outcome.critical
<1>1. ASSUME NEW scores, NEW t \in Tiers
      PROVE  LET o == Scored(scores, t, retries, used)
             IN  /\ o \in GateOutcome
                 /\ o.verdict = "retry" => retries < MaxRetries
                 /\ o.verdict = "pass" => o.scored /\ ~o.critical
  <2>1. DecideVerdict(scores, retries, used) \in Verdicts
    BY DEF DecideVerdict, Verdicts
  <2>2. JudgeSource(t) \in Judges
    BY DEF JudgeSource, Judges, Tiers
  <2>3. IsCritical(scores) \in BOOLEAN
    BY DEF IsCritical
  <2>4. DecideVerdict(scores, retries, used) = "retry" => retries < MaxRetries
    BY PolicyAssumption, PipelineAssumption DEF DecideVerdict, Exhausted, RetryCap
  <2>5. DecideVerdict(scores, retries, used) = "pass" => ~IsCritical(scores)
    BY DEF DecideVerdict, Passes
  <2>6. QED
    BY <2>1, <2>2, <2>3, <2>4, <2>5 DEF Scored, GateOutcome
<1>2. LET o == Rejection(retries)
      IN  /\ o \in GateOutcome
          /\ o.verdict = "retry" => retries < MaxRetries
          /\ o.verdict = "pass" => o.scored /\ ~o.critical
  BY PolicyAssumption, PipelineAssumption
  DEF Rejection, GateOutcome, DecideWithoutScores, Exhausted, Verdicts, Judges, RetryCap
<1>3. LET o == JudgeFailure
      IN  /\ o \in GateOutcome
          /\ o.verdict = "retry" => retries < MaxRetries
          /\ o.verdict = "pass" => o.scored /\ ~o.critical
  BY DEF JudgeFailure, GateOutcome, Verdicts, Judges, JudgeSource
<1>4. FirstTier \in Tiers /\ JudgeTier(TRUE) \in Tiers
  BY DEF FirstTier, JudgeTier, Tiers
<1>5. CASE outcome \in JudgedOutcomes[retries][used]
  <2>1. PICK blocked \in BOOLEAN, first \in Judgements, second \in Judgements :
          outcome = Evaluate(blocked, first, second, retries, used)
    BY <1>5 DEF JudgedOutcomes
  <2>2. \/ outcome = Rejection(retries)
        \/ outcome = JudgeFailure
        \/ outcome = Scored(second, JudgeTier(TRUE), retries, used)
        \/ outcome = Scored(first, FirstTier, retries, used)
    BY <2>1 DEF Evaluate
  <2>3. QED
    BY <2>2, <1>1, <1>2, <1>3, <1>4
<1>6. QED
  BY <1>2, <1>5

\* The gate's outcomes on a typed state.
LEMMA GateOutcomeFacts ==
  ASSUME TypeOK, NEW s \in Gated, NEW outcome \in GateOutcomes(s)
  PROVE  /\ outcome \in GateOutcome
         /\ outcome.verdict = "retry" => retry_counts[s] < MaxRetries
         /\ outcome.verdict = "pass" =>
              /\ outcome.scored /\ ~outcome.critical
              /\ ~invalid_output[s] /\ artifact[s] # 0
<1>1. retry_counts[s] \in 0..RetryCap /\ critical_retry_used[s] \in BOOLEAN
  BY DEF TypeOK
<1>2. outcome \in JudgedOutcomes[retry_counts[s]][critical_retry_used[s]]
                    \union {Rejection(retry_counts[s])}
  BY DEF GateOutcomes
<1>3. invalid_output[s] \/ artifact[s] = 0 => outcome.verdict # "pass"
  BY DEF GateOutcomes, Rejection, DecideWithoutScores
<1>4. QED
  BY <1>1, <1>2, <1>3, OutcomeFacts

------------------------------------------------------------------------------
(* The inductive invariant.                                                *)

\* A decision on a pending review, or one whose review was another.
Resumption == \E action \in Actions : Resume(action) \/ ResumeLate(action)

\* Every action of the pipeline that runs a node at a stage, as one list.
LEMMA NextCases ==
  ASSUME Next
  PROVE  \/ \E s \in Stages : PersonaProduces(s)
         \/ \E s \in Gated : PersonaFailsSchema(s)
         \/ \E s \in Gated : GatePasses(s) \/ GateRetries(s) \/ GateEscalates(s)
         \/ \E s \in Gated : ReviewAccepts(s) \/ ReviewRetries(s) \/ ReviewAborts(s)
         \/ Interrupt \/ FinalizeNode \/ NodeRaises
         \/ Resumption
BY DEF Next, RunNode, PersonaFailsSchema, Resumption

\* What resuming a paused review relies on.
ReviewInv ==
  /\ next = HumanReview => pending_handoff \in Gated /\ last_evaluated = pending_handoff
  /\ invoke = "interrupted" \/ decision # "none" => next = HumanReview
  /\ decision = "retry" => retry_counts[pending_handoff] < RetryCap

LEMMA NodeFacts ==
  /\ \A s \in Stages : Node("persona", s) \in Nodes /\ Node("gate", s) \in Nodes
  /\ {HumanReview, Finalize, END} \subseteq Nodes
  /\ \A s \in Stages : NextNode(s) \in Nodes
  /\ \A s, g : Node("persona", s) # Node("gate", g)
  /\ \A s : HumanReview # Node("persona", s) /\ HumanReview # Node("gate", s)
  /\ HumanReview # Finalize /\ HumanReview # END
  /\ \A s \in Stages : NextNode(s) # HumanReview
<1>1. \A s \in Stages : Node("persona", s) \in Nodes /\ Node("gate", s) \in Nodes
  BY DEF Nodes
<1>2. \A s \in Stages : s < N => s + 1 \in Stages
  BY PipelineAssumption DEF Stages
<1>3. {HumanReview, Finalize, END} \subseteq Nodes
  BY DEF Nodes
<1>4. \A s \in Stages : NextNode(s) \in Nodes
  BY <1>1, <1>2, <1>3 DEF NextNode
<1>5. QED
  BY <1>1, <1>3, <1>4 DEF NextNode, Node, HumanReview, Finalize, END

LEMMA Bounds ==
  /\ RetryCap \in Nat /\ MaxRetries <= RetryCap /\ MaxRetries \in Nat
  /\ Gated \subseteq Stages /\ Gated \subseteq 0..N - 1 /\ Stages \subseteq Nat
  /\ 0 \notin Stages
BY PolicyAssumption, PipelineAssumption DEF RetryCap, Gated, Stages

LEMMA TypeInit == Init => TypeOK /\ ReviewInv
<1>1. NoEvaluation \in EvaluationRecord
  BY Bounds DEF NoEvaluation, EvaluationRecord, Judges
<1>2. Node("persona", 1) \in Nodes /\ Node("persona", 1) # HumanReview
  BY NodeFacts, PipelineAssumption DEF Stages
<1>3. QED
  BY <1>1, <1>2, Bounds, PipelineAssumption DEF Init, TypeOK, ReviewInv, NoHandoff

\* The parts of the type invariant and of ReviewInv that a persona disturbs.
LEMMA PersonaTyped ==
  ASSUME TypeOK, ReviewInv, NEW s \in Stages,
         PersonaProduces(s) \/ PersonaFailsSchema(s)
  PROVE  TypeOK' /\ ReviewInv'
<1> USE DEF TypeOK
<1>1. RunPersona(s)
  BY DEF PersonaProduces, PersonaFailsSchema
<1>2. next' \in Nodes /\ next' # HumanReview /\ next = Node("persona", s)
  BY <1>1, NodeFacts DEF PersonaProduces, PersonaFailsSchema, RunPersona, Superstep
<1>3. Attempt(s) \in 1..RetryCap + 1
  BY Bounds DEF Attempt
<1>4. PersonaTier(s \in HighRisk, Attempt(s), s \in Gated /\ tier2_forced[s]) \in 0..2
  BY DEF PersonaTier
<1>5. tier' \in [Stages -> 0..2] /\ steps' \in 0..RecursionLimit
  BY <1>1, <1>4, PipelineAssumption DEF RunPersona, Superstep
<1>6. artifact' \in [Stages -> 0..RetryCap + 1]
  BY <1>3, Bounds DEF PersonaProduces, PersonaFailsSchema
<1>7. invalid_output' \in [Gated -> BOOLEAN]
  BY DEF PersonaProduces, PersonaFailsSchema
<1>8. TypeOK'
  BY <1>1, <1>2, <1>5, <1>6, <1>7 DEF RunPersona, record, PersonaProduces, PersonaFailsSchema
<1>9. invoke = "executing" /\ decision = "none"
  BY <1>1, <1>2, NodeFacts DEF RunPersona, Superstep, ReviewInv
<1>10. QED
  BY <1>1, <1>2, <1>8, <1>9 DEF ReviewInv, RunPersona, PersonaProduces, PersonaFailsSchema

\* One more feedback entry or retry keeps the bookkeeping typed.
LEMMA BookkeepingTyped ==
  ASSUME TypeOK, NEW s \in Gated
  PROVE  /\ retry_counts[s] < RetryCap => SpendRetry(s) \in [Gated -> 0..RetryCap]
         /\ \A entry \in FeedbackEntry :
              AddFeedback(s, entry)
                \in [Gated -> Seq(FeedbackEntry)]
<1>1. retry_counts[s] < RetryCap => SpendRetry(s) \in [Gated -> 0..RetryCap]
  BY Bounds DEF TypeOK, SpendRetry
<1>2. ASSUME NEW entry \in FeedbackEntry
      PROVE  AddFeedback(s, entry) \in [Gated -> Seq(FeedbackEntry)]
  <2>1. feedback_history \in [Gated -> Seq(FeedbackEntry)]
    BY DEF TypeOK
  <2>2. Append(feedback_history[s], entry) \in Seq(FeedbackEntry)
    BY <2>1
  <2>3. QED
    BY <2>1, <2>2 DEF AddFeedback
<1>3. QED
  BY <1>1, <1>2

LEMMA GateTyped ==
  ASSUME TypeOK, ReviewInv, NEW s \in Gated,
         GatePasses(s) \/ GateRetries(s) \/ GateEscalates(s)
  PROVE  TypeOK' /\ ReviewInv'
<1>1. PICK outcome \in GateOutcomes(s) :
        /\ Conclude(s, outcome)
        /\ GatePasses(s) => outcome.verdict = "pass"
        /\ GateEscalates(s) => outcome.verdict = "escalate"
        /\ GateRetries(s) =>
             /\ outcome.verdict = "retry"
             /\ critical_retry_used' =
                  [critical_retry_used EXCEPT ![s] = @ \/ FastTracks(outcome)]
             /\ tier2_forced' = [tier2_forced EXCEPT ![s] = @ \/ FastTracks(outcome)]
             /\ feedback_history' = AddFeedback(s, FeedbackOf(s, RecordOf(s, outcome)))
  <2>1. CASE GatePasses(s)
    BY <2>1 DEF GatePasses, GateRetries, GateEscalates, Conclude
  <2>2. CASE GateEscalates(s)
    BY <2>2 DEF GatePasses, GateRetries, GateEscalates, Conclude
  <2>3. CASE GateRetries(s)
    BY <2>3 DEF GatePasses, GateRetries, GateEscalates, Conclude
  <2>4. QED
    BY <2>1, <2>2, <2>3
<1>2. /\ outcome \in GateOutcome
      /\ outcome.verdict = "retry" => retry_counts[s] < MaxRetries
  BY GateOutcomeFacts
<1>3. RecordOf(s, outcome) \in EvaluationRecord
  BY <1>2, Bounds DEF RecordOf, EvaluationRecord, GateOutcome, TypeOK
<1>4. FeedbackOf(s, RecordOf(s, outcome)) \in FeedbackEntry
  BY <1>3, Bounds DEF FeedbackOf, EvaluationRecord, FeedbackEntry
<1>5. /\ evaluations' \in [Gated -> EvaluationRecord] /\ last_evaluated' = s
      /\ last_verdict' \in Verdicts
      /\ pending_handoff' = IF outcome.verdict = "escalate" THEN s ELSE 0
      /\ steps' \in 0..RecursionLimit
  BY <1>1, <1>2, <1>3, PipelineAssumption
  DEF Conclude, Superstep, TypeOK, PendingAfter, NoHandoff, GateOutcome
<1>6. next' \in Nodes /\ (next' = HumanReview <=> outcome.verdict = "escalate")
  BY <1>1, <1>2, NodeFacts, Bounds DEF Conclude, RouteAfterGate, GateOutcome, Verdicts
<1>7. /\ UNCHANGED <<artifact, invalid_output, human_guidance, human_decisions, tier,
                     invoke, decision>>
      /\ next = Node("gate", s) /\ invoke = "executing"
  BY <1>1 DEF Conclude, Superstep
<1>8. decision = "none"
  BY <1>7, NodeFacts DEF ReviewInv
<1>9. /\ retry_counts' \in [Gated -> 0..RetryCap]
      /\ critical_retry_used' \in [Gated -> BOOLEAN]
      /\ tier2_forced' \in [Gated -> BOOLEAN]
      /\ feedback_history' \in [Gated -> Seq(FeedbackEntry)]
      /\ status' \in {"running", "blocked_for_human"}
  <2>1. CASE GatePasses(s)
    BY <2>1 DEF GatePasses, TypeOK
  <2>2. CASE GateEscalates(s)
    BY <2>2 DEF GateEscalates, TypeOK
  <2>3. CASE GateRetries(s)
    <3>1. retry_counts[s] < RetryCap
      BY <1>1, <1>2, <2>3, Bounds DEF TypeOK
    <3>2. FastTracks(outcome) \in BOOLEAN
      BY <1>2, PolicyAssumption DEF FastTracks, GateOutcome
    <3>3. retry_counts' \in [Gated -> 0..RetryCap] /\ status' = "running"
      BY <2>3, <3>1, BookkeepingTyped DEF GateRetries
    <3>4. feedback_history' \in [Gated -> Seq(FeedbackEntry)]
      BY <1>1, <1>4, <2>3, BookkeepingTyped
    <3>5. /\ critical_retry_used' \in [Gated -> BOOLEAN]
          /\ tier2_forced' \in [Gated -> BOOLEAN]
      BY <1>1, <2>3, <3>2 DEF TypeOK
    <3>6. QED
      BY <3>3, <3>4, <3>5
  <2>4. QED
    BY <2>1, <2>2, <2>3
<1>10. TypeOK'
  <2>1. /\ pending_handoff' \in 0..N - 1 /\ last_evaluated' \in 0..N - 1
        /\ last_verdict' \in Verdicts
               \union {"none", "human_accept", "human_retry", "human_abort"}
    BY <1>5, Bounds, PipelineAssumption
  <2>2. /\ artifact' \in [Stages -> 0..RetryCap + 1]
        /\ invalid_output' \in [Gated -> BOOLEAN]
        /\ human_guidance' \in [Gated -> BOOLEAN]
        /\ human_decisions' \in [Gated -> Actions \union {"none"}]
        /\ tier' \in [Stages -> 0..2]
        /\ invoke' \in {"executing", "interrupted", "raised", "returned"}
        /\ decision' \in Actions \union {"none"}
    BY <1>7 DEF TypeOK
  <2>3. QED
    BY <1>5, <1>6, <1>9, <2>1, <2>2 DEF TypeOK
<1>11. QED
  BY <1>5, <1>6, <1>7, <1>8, <1>10, Bounds DEF ReviewInv

LEMMA ReviewTyped ==
  ASSUME TypeOK, ReviewInv, NEW s \in Gated,
         ReviewAccepts(s) \/ ReviewRetries(s) \/ ReviewAborts(s)
  PROVE  TypeOK' /\ ReviewInv'
<1>1. PICK action \in Actions :
        /\ Review(s, action)
        /\ ReviewRetries(s) => action = "retry"
  BY DEF ReviewAccepts, ReviewRetries, ReviewAborts, Actions
<1>2. /\ decision' = "none" /\ pending_handoff = s /\ last_evaluated = s
      /\ human_decisions' \in [Gated -> Actions \union {"none"}]
      /\ steps' \in 0..RecursionLimit
      /\ invoke = "executing"
      /\ UNCHANGED <<artifact, invalid_output, critical_retry_used, record,
                     pending_handoff, tier>>
  BY <1>1, PipelineAssumption DEF Review, Superstep, TypeOK, ReviewInv
<1>3. next' \in Nodes /\ next' # HumanReview
  BY <1>1, NodeFacts, Bounds DEF Review, RouteAfterReview
<1>4. /\ retry_counts' \in [Gated -> 0..RetryCap]
      /\ tier2_forced' \in [Gated -> BOOLEAN]
      /\ human_guidance' \in [Gated -> BOOLEAN]
      /\ feedback_history' \in [Gated -> Seq(FeedbackEntry)]
      /\ status' \in {"running", "aborted"}
      /\ invoke' \in {"executing", "returned"}
      /\ last_verdict' \in {"human_accept", "human_retry", "human_abort"}
  <2>1. CASE ReviewAccepts(s)
    BY <2>1, <1>2 DEF ReviewAccepts, TypeOK
  <2>2. CASE ReviewAborts(s)
    BY <2>2 DEF ReviewAborts, TypeOK
  <2>3. CASE ReviewRetries(s)
    <3>1. retry_counts[s] < RetryCap
      BY <1>1, <1>2, <2>3 DEF Review, Taken, ReviewInv
    <3>2. FeedbackOf(last_evaluated, evaluations[last_evaluated])
            \in FeedbackEntry
      BY <1>2, Bounds DEF FeedbackOf, EvaluationRecord, FeedbackEntry, TypeOK
    <3>3. QED
      BY <1>2, <2>3, <3>1, <3>2, BookkeepingTyped DEF ReviewRetries, TypeOK
  <2>4. QED
    BY <2>1, <2>2, <2>3
<1>5. QED
  BY <1>2, <1>3, <1>4 DEF TypeOK, ReviewInv, record

\* A resumed invocation goes on from the stored state, wherever that is; only a
\* review that is next takes the decision.
LEMMA ResumptionContinues ==
  ASSUME Resumption
  PROVE  Continue /\ invoke \in {"interrupted", "raised"}
BY DEF Resumption, Resume, ResumeLate, AwaitsReview

LEMMA ResumptionFacts ==
  ASSUME ReviewInv, Resumption
  PROVE  /\ Continue /\ invoke \in {"interrupted", "raised"}
         /\ decision' \in Actions \union {"none"}
         /\ decision' # "none" => next = HumanReview
         /\ decision' = "retry" => retry_counts[pending_handoff] < RetryCap
<1>1. PICK action \in Actions : Resume(action) \/ ResumeLate(action)
  BY DEF Resumption
<1>2. CASE Resume(action)
  BY <1>2 DEF Resume, AwaitsReview, ReviewInv
<1>3. CASE ResumeLate(action)
  BY <1>3 DEF ResumeLate, Actions
<1>4. QED
  BY <1>1, <1>2, <1>3, ResumptionContinues DEF Resumption

LEMMA OtherTyped ==
  ASSUME TypeOK, ReviewInv,
         Interrupt \/ FinalizeNode \/ NodeRaises \/ Resumption
  PROVE  TypeOK' /\ ReviewInv'
<1>1. CASE Interrupt
  BY <1>1, PipelineAssumption
  DEF Interrupt, Superstep, TypeOK, ReviewInv, bookkeeping, record
<1>2. CASE FinalizeNode
  BY <1>2, PipelineAssumption, NodeFacts, Bounds
  DEF FinalizeNode, Superstep, TypeOK, ReviewInv, bookkeeping, record, NoHandoff
<1>3. CASE NodeRaises
  BY <1>3 DEF NodeRaises, TypeOK, ReviewInv, bookkeeping, record
<1>4. CASE Resumption
  <2>1. /\ Continue /\ decision' \in Actions \union {"none"}
        /\ decision' # "none" => next = HumanReview
        /\ decision' = "retry" => retry_counts[pending_handoff] < RetryCap
    BY <1>4, ResumptionFacts
  <2>2. 0 \in 0..RecursionLimit
    BY PipelineAssumption
  <2>3. QED
    BY <2>1, <2>2 DEF Continue, TypeOK, ReviewInv, bookkeeping, record
<1>5. QED
  BY <1>1, <1>2, <1>3, <1>4

\* Type correctness holds of every run, for every constant.
THEOREM TypeCorrect == Spec => [](TypeOK /\ ReviewInv)
<1>1. TypeOK /\ ReviewInv /\ [Next]_vars => TypeOK' /\ ReviewInv'
  <2>1. ASSUME TypeOK, ReviewInv, Next
        PROVE  TypeOK' /\ ReviewInv'
    BY <2>1, NextCases, PersonaTyped, GateTyped, ReviewTyped, OtherTyped, Bounds
  <2>2. ASSUME TypeOK, ReviewInv, UNCHANGED vars
        PROVE  TypeOK' /\ ReviewInv'
    BY <2>2 DEF vars, TypeOK, ReviewInv, bookkeeping, record
  <2>3. QED
    BY <2>1, <2>2
<1>2. QED
  BY <1>1, TypeInit, PTL DEF Spec

\* Every reachable state of a run has the state's declared types.
THEOREM TypeSafety == Spec => []TypeOK
BY TypeCorrect, PTL

------------------------------------------------------------------------------
(* Approval, escalation and feedback.                                      *)

\* What a gate knows of the attempt it evaluates.
GateInv ==
  /\ \A s \in Gated : next = Node("gate", s) =>
       /\ tier[s] = PersonaTier(s \in HighRisk, retry_counts[s] + 1, tier2_forced[s])
       /\ ~invalid_output[s] => artifact[s] = retry_counts[s] + 1
  /\ \A s \in Gated : critical_retry_used[s] => tier2_forced[s]

\* An escalation is due: the budget is spent, the judge failed, or a critical
\* flag cannot be retried any more.
LEMMA EscalationDue ==
  ASSUME TypeOK, NEW s \in Gated, NEW outcome \in GateOutcomes(s),
         outcome.verdict = "escalate"
  PROVE  \/ retry_counts[s] >= MaxRetries
         \/ ~outcome.scored /\ outcome.judge # "deterministic"
         \/ outcome.critical /\ (~FastTrack \/ critical_retry_used[s])
<1> DEFINE r == retry_counts[s]  used == critical_retry_used[s]
<1>1. r \in 0..RetryCap /\ used \in BOOLEAN
  BY DEF TypeOK
<1>2. ASSUME outcome = Rejection(r)
      PROVE  r >= MaxRetries
  BY <1>2 DEF Rejection, DecideWithoutScores, Exhausted
<1>3. ASSUME outcome = JudgeFailure
      PROVE  ~outcome.scored /\ outcome.judge # "deterministic"
  BY <1>3 DEF JudgeFailure, JudgeSource
<1>4. ASSUME NEW scores, NEW t, outcome = Scored(scores, t, r, used)
      PROVE  r >= MaxRetries \/ (outcome.critical /\ (~FastTrack \/ used))
  BY <1>4 DEF Scored, DecideVerdict, Exhausted, CriticalStops
<1>5. CASE outcome \in JudgedOutcomes[r][used]
  <2>1. PICK blocked \in BOOLEAN, first \in Judgements, second \in Judgements :
          outcome = Evaluate(blocked, first, second, r, used)
    BY <1>1, <1>5 DEF JudgedOutcomes
  <2>2. \/ outcome = Rejection(r)
        \/ outcome = JudgeFailure
        \/ outcome = Scored(second, JudgeTier(TRUE), r, used)
        \/ outcome = Scored(first, FirstTier, r, used)
    BY <2>1 DEF Evaluate
  <2>3. QED
    BY <2>2, <1>2, <1>3, <1>4
<1>6. CASE outcome = Rejection(r)
  BY <1>2, <1>6
<1>7. QED
  BY <1>5, <1>6 DEF GateOutcomes

LEMMA GateInvStep ==
  ASSUME TypeOK, ReviewInv, GateInv, Next
  PROVE  GateInv'
<1>1. ASSUME NEW s \in Stages, PersonaProduces(s) \/ (s \in Gated /\ PersonaFailsSchema(s))
      PROVE  GateInv'
  <2>1. /\ tier' = [tier EXCEPT ![s] = PersonaTier(s \in HighRisk, Attempt(s),
                                                  s \in Gated /\ tier2_forced[s])]
        /\ UNCHANGED <<retry_counts, critical_retry_used, tier2_forced>>
    BY <1>1 DEF PersonaProduces, PersonaFailsSchema, RunPersona
  <2>2. ASSUME NEW g \in Gated, next' = Node("gate", g)
        PROVE  /\ g = s
               /\ tier'[g] = PersonaTier(g \in HighRisk, retry_counts'[g] + 1, tier2_forced'[g])
               /\ ~invalid_output'[g] => artifact'[g] = retry_counts'[g] + 1
    <3>1. g = s
      BY <1>1, <2>2 DEF PersonaProduces, PersonaFailsSchema, Node, Finalize
    <3>2. tier2_forced[s] \in BOOLEAN /\ s \in Gated
      BY <2>2, <3>1 DEF TypeOK
    <3>3. tier'[s] = PersonaTier(s \in HighRisk, retry_counts'[s] + 1, tier2_forced'[s])
      BY <2>1, <3>2 DEF TypeOK, Attempt, PersonaTier
    <3>4. ~invalid_output'[s] => artifact'[s] = retry_counts'[s] + 1
      BY <1>1, <2>1, <3>2 DEF TypeOK, Attempt, PersonaProduces, PersonaFailsSchema
    <3>5. QED
      BY <3>1, <3>3, <3>4
  <2>3. QED
    BY <2>1, <2>2 DEF GateInv
<1>2. ASSUME NEW s \in Gated, GatePasses(s) \/ GateRetries(s) \/ GateEscalates(s)
      PROVE  GateInv'
  <2>1. \A g \in Gated : next' # Node("gate", g)
    BY <1>2 DEF GatePasses, GateRetries, GateEscalates, Conclude, RouteAfterGate,
                NextNode, Node, HumanReview, Finalize
  <2>2. ASSUME NEW g \in Gated, critical_retry_used'[g]
        PROVE  tier2_forced'[g]
    <3>1. CASE GateRetries(s)
      BY <3>1, <2>2 DEF GateRetries, TypeOK, GateInv
    <3>2. CASE GatePasses(s) \/ GateEscalates(s)
      BY <3>2, <2>2 DEF GatePasses, GateEscalates, GateInv
    <3>3. QED
      BY <1>2, <3>1, <3>2
  <2>3. QED
    BY <2>1, <2>2 DEF GateInv
<1>3. ASSUME NEW s \in Gated, ReviewAccepts(s) \/ ReviewRetries(s) \/ ReviewAborts(s)
      PROVE  GateInv'
  <2>1. \A g \in Gated : next' # Node("gate", g)
    BY <1>3 DEF ReviewAccepts, ReviewRetries, ReviewAborts, Review, RouteAfterReview,
                NextNode, Node, HumanReview, Finalize, END
  <2>2. UNCHANGED critical_retry_used /\ \A g \in Gated : tier2_forced[g] => tier2_forced'[g]
    BY <1>3 DEF ReviewAccepts, ReviewRetries, ReviewAborts, Review, TypeOK
  <2>3. QED
    BY <2>1, <2>2 DEF GateInv
<1>4. ASSUME Interrupt \/ FinalizeNode \/ NodeRaises \/ Resumption
      PROVE  GateInv'
  <2>1. UNCHANGED <<tier, artifact, bookkeeping>>
    BY <1>4, ResumptionContinues DEF Interrupt, FinalizeNode, NodeRaises, Continue
  <2>2. next' = next \/ next' = END
    BY <1>4, ResumptionContinues DEF Interrupt, FinalizeNode, NodeRaises, Continue
  <2>3. QED
    BY <2>1, <2>2 DEF GateInv, bookkeeping, Node, END
<1>5. QED
  BY <1>1, <1>2, <1>3, <1>4, NextCases, Bounds

\* A step that leaves the review's data alone, and stays at or avoids the node.
LEMMA EscalationStep ==
  ASSUME TypeOK, ReviewInv, GateInv, EscalatesOnlyAfterTier2, Next
  PROVE  EscalatesOnlyAfterTier2'
<1>1. ASSUME NEW s \in Stages, PersonaProduces(s) \/ (s \in Gated /\ PersonaFailsSchema(s))
      PROVE  next' # HumanReview
  BY <1>1 DEF PersonaProduces, PersonaFailsSchema, Node, HumanReview, Finalize
<1>2. ASSUME NEW s \in Gated, GatePasses(s) \/ GateRetries(s)
      PROVE  next' # HumanReview
  BY <1>2, NodeFacts, Bounds
  DEF GatePasses, GateRetries, Conclude, RouteAfterGate
<1>3. ASSUME NEW s \in Gated, GateEscalates(s)
      PROVE  EscalatesOnlyAfterTier2'
  <2>1. PICK outcome \in GateOutcomes(s) : outcome.verdict = "escalate" /\ Conclude(s, outcome)
    BY <1>3 DEF GateEscalates
  <2>2. /\ evaluations' = [evaluations EXCEPT ![s] = RecordOf(s, outcome)]
        /\ pending_handoff' = s /\ last_evaluated' = s
        /\ UNCHANGED <<retry_counts, tier>>
    BY <1>3, <2>1 DEF GateEscalates, Conclude, PendingAfter
  <2>3. evaluations'[s] = RecordOf(s, outcome)
    BY <2>2 DEF TypeOK
  <2>4. tier[s] = PersonaTier(s \in HighRisk, retry_counts[s] + 1, tier2_forced[s])
    BY <2>1 DEF Conclude, Superstep, GateInv
  <2>5. \/ tier[s] = 2
        \/ ~outcome.scored /\ outcome.judge # "deterministic"
        \/ outcome.critical /\ ~FastTrack
    <3>1. retry_counts[s] >= MaxRetries => tier[s] = 2
      BY <2>4, Bounds DEF PersonaTier, TypeOK
    <3>2. critical_retry_used[s] => tier[s] = 2
      BY <2>4 DEF PersonaTier, GateInv
    <3>3. QED
      BY <2>1, <3>1, <3>2, EscalationDue
  <2>6. QED
    BY <2>1, <2>2, <2>3, <2>5 DEF EscalatesOnlyAfterTier2, RecordOf
<1>4. ASSUME NEW s \in Gated, ReviewAccepts(s) \/ ReviewRetries(s) \/ ReviewAborts(s)
      PROVE  next' # HumanReview
  BY <1>4, NodeFacts, Bounds
  DEF ReviewAccepts, ReviewRetries, ReviewAborts, Review, RouteAfterReview
<1>5. ASSUME FinalizeNode
      PROVE  next' # HumanReview
  BY <1>5, NodeFacts DEF FinalizeNode
<1>6. ASSUME Interrupt \/ NodeRaises \/ Resumption
      PROVE  EscalatesOnlyAfterTier2'
  BY <1>6, ResumptionContinues
  DEF Interrupt, NodeRaises, Continue, EscalatesOnlyAfterTier2, bookkeeping, record
<1>7. ASSUME next' # HumanReview
      PROVE  EscalatesOnlyAfterTier2'
  BY <1>7 DEF EscalatesOnlyAfterTier2
<1>8. QED
  BY <1>1, <1>2, <1>3, <1>4, <1>5, <1>6, <1>7, NextCases, Bounds

------------------------------------------------------------------------------
LEMMA FeedbackStep ==
  ASSUME TypeOK, ReviewInv, EscalatesOnlyAfterTier2, FeedbackAligned, Next
  PROVE  FeedbackAligned'
<1>1. ASSUME NEW s \in Gated, retry_counts' = SpendRetry(s),
             feedback_history' =
               AddFeedback(s, [stage |-> s, attempt |-> retry_counts[s] + 1])
      PROVE  FeedbackAligned'
  <2> DEFINE aligned(g, n) == [i \in 1..n |-> [stage |-> g, attempt |-> i]]
  <2>1. retry_counts'[s] = retry_counts[s] + 1 /\ retry_counts[s] \in Nat
    BY <1>1, Bounds DEF SpendRetry, TypeOK
  <2>2. feedback_history'[s] =
          Append(aligned(s, retry_counts[s]), [stage |-> s, attempt |-> retry_counts[s] + 1])
    BY <1>1 DEF AddFeedback, FeedbackAligned, TypeOK
  <2>3. ASSUME NEW n \in Nat
        PROVE  Append(aligned(s, n), [stage |-> s, attempt |-> n + 1]) = aligned(s, n + 1)
    OBVIOUS
  <2>4. feedback_history'[s] = aligned(s, retry_counts'[s])
    BY <2>1, <2>2, <2>3
  <2>5. ASSUME NEW g \in Gated, g # s
        PROVE  feedback_history'[g] = feedback_history[g] /\ retry_counts'[g] = retry_counts[g]
    BY <1>1, <2>5 DEF AddFeedback, SpendRetry, TypeOK
  <2>6. QED
    BY <2>4, <2>5 DEF FeedbackAligned
<1>2. ASSUME UNCHANGED <<retry_counts, feedback_history>>
      PROVE  FeedbackAligned'
  BY <1>2 DEF FeedbackAligned
<1>3. ASSUME NEW s \in Gated, GateRetries(s)
      PROVE  FeedbackAligned'
  BY <1>1, <1>3 DEF GateRetries, FeedbackOf, RecordOf
<1>4. ASSUME NEW s \in Gated, ReviewRetries(s)
      PROVE  FeedbackAligned'
  <2>1. last_evaluated = s /\ evaluations[s].attempt = retry_counts[s] + 1
    BY <1>4 DEF ReviewRetries, Review, Superstep, EscalatesOnlyAfterTier2
  <2>2. QED
    BY <1>1, <1>4, <2>1 DEF ReviewRetries, FeedbackOf
<1>5. ASSUME NEW s \in Stages, PersonaProduces(s) \/ (s \in Gated /\ PersonaFailsSchema(s))
      PROVE  FeedbackAligned'
  BY <1>2, <1>5 DEF PersonaProduces, PersonaFailsSchema, RunPersona
<1>6. ASSUME NEW s \in Gated,
             GatePasses(s) \/ GateEscalates(s) \/ ReviewAccepts(s) \/ ReviewAborts(s)
      PROVE  FeedbackAligned'
  BY <1>2, <1>6 DEF GatePasses, GateEscalates, ReviewAccepts, ReviewAborts
<1>7. ASSUME Interrupt \/ FinalizeNode \/ NodeRaises \/ Resumption
      PROVE  FeedbackAligned'
  BY <1>2, <1>7, ResumptionContinues
  DEF Interrupt, FinalizeNode, NodeRaises, Continue, bookkeeping
<1>8. QED
  BY <1>3, <1>4, <1>5, <1>6, <1>7, NextCases, Bounds

\* A new run has nothing to evaluate, escalate or feed back.
LEMMA ApprovalInit ==
  Init => GateInv /\ EscalatesOnlyAfterTier2 /\ FeedbackAligned
<1>1. \A s \in Gated : Node("persona", 1) # Node("gate", s)
  BY DEF Node
<1>2. Node("persona", 1) # HumanReview
  BY DEF Node, HumanReview
<1>3. Init => \A s \in Gated :
        feedback_history[s] = [i \in 1..retry_counts[s] |-> [stage |-> s, attempt |-> i]]
  <2>1. ASSUME NEW s \in Gated
        PROVE  <<>> = [i \in 1..0 |-> [stage |-> s, attempt |-> i]]
    OBVIOUS
  <2>2. QED
    BY <2>1 DEF Init
<1>4. QED
  BY <1>1, <1>2, <1>3 DEF Init, GateInv, EscalatesOnlyAfterTier2, FeedbackAligned

\* The invariant of a run but for the artifacts it approved and its steps.
BaseInv == TypeOK /\ ReviewInv /\ GateInv /\ EscalatesOnlyAfterTier2 /\ FeedbackAligned

LEMMA BaseInvariant == Spec => []BaseInv
<1>1. Init => BaseInv
  BY TypeInit, ApprovalInit DEF BaseInv
<1>2. BaseInv /\ [Next]_vars => BaseInv'
  <2>1. ASSUME BaseInv, Next
        PROVE  BaseInv'
    <3>1. TypeOK' /\ ReviewInv'
      BY <2>1, NextCases, PersonaTyped, GateTyped, ReviewTyped, OtherTyped, Bounds DEF BaseInv
    <3>2. QED
      BY <2>1, <3>1, GateInvStep, EscalationStep, FeedbackStep DEF BaseInv
  <2>2. ASSUME BaseInv, UNCHANGED vars
        PROVE  BaseInv'
    BY <2>2 DEF vars, bookkeeping, record, BaseInv, TypeOK, ReviewInv, GateInv,
                EscalatesOnlyAfterTier2, FeedbackAligned
  <2>3. QED
    BY <2>1, <2>2
<1>3. QED
  BY <1>1, <1>2, PTL DEF Spec

\* A reviewer is paged only for the current attempt, after Tier 2 failed, the
\* judge did or the STRICT policy stopped a critical flag.
THEOREM EscalationSafety == Spec => []EscalatesOnlyAfterTier2
<1>1. BaseInv => EscalatesOnlyAfterTier2
  BY DEF BaseInv
<1>2. QED
  BY <1>1, BaseInvariant, PTL

\* One feedback entry per retry, each from its own evaluation.
THEOREM FeedbackSafety == Spec => []FeedbackAligned
<1>1. BaseInv => FeedbackAligned
  BY DEF BaseInv
<1>2. QED
  BY <1>1, BaseInvariant, PTL

------------------------------------------------------------------------------
(* Nothing downstream of an unapproved artifact.                           *)

\* A stage the run may move past.
Cleared(s) ==
  /\ artifact[s] # 0
  /\ \/ human_decisions[s] = "accept_as_is"
     \/ /\ evaluations[s].verdict = "pass"
        /\ evaluations[s].scored /\ ~evaluations[s].critical
        /\ evaluations[s].attempt = artifact[s]

\* How many stages lie behind each node, in this state and in the next one.
LEMMA CountFacts ==
  /\ \A s : next \in {Node("persona", s), Node("gate", s)} => ApprovedCount = s - 1
  /\ next = HumanReview => ApprovedCount = pending_handoff - 1
  /\ next = Finalize => ApprovedCount = N
  /\ next = END =>
       ApprovedCount = IF status = "complete" THEN N ELSE pending_handoff - 1
BY DEF ApprovedCount, Node, HumanReview, Finalize, END

LEMMA NextCountFacts ==
  /\ \A s : next' \in {Node("persona", s), Node("gate", s)} => ApprovedCount' = s - 1
  /\ next' = HumanReview => ApprovedCount' = pending_handoff' - 1
  /\ next' = Finalize => ApprovedCount' = N
  /\ next' = END =>
       ApprovedCount' = IF status' = "complete" THEN N ELSE pending_handoff' - 1
BY DEF ApprovedCount, Node, HumanReview, Finalize, END

\* A step of stage s leaves alone what the stages before it were approved on.
LEMMA ClearedBefore ==
  ASSUME TypeOK, DownstreamOnlyAfterApproval, NEW s \in Stages, ApprovedCount = s - 1,
         \A g \in Gated : g # s =>
           /\ artifact'[g] = artifact[g] /\ evaluations'[g] = evaluations[g]
           /\ human_decisions'[g] = human_decisions[g]
  PROVE  /\ \A g \in Gated : g < s => Cleared(g)'
         /\ ApprovedCount' = s - 1 => DownstreamOnlyAfterApproval'
         /\ ApprovedCount' = s /\ Cleared(s)' => DownstreamOnlyAfterApproval'
<1>1. ASSUME NEW g \in Gated, g < s
      PROVE  Cleared(g)'
  <2>1. Cleared(g)
    BY <1>1, Bounds DEF DownstreamOnlyAfterApproval, Cleared, Gated, Stages
  <2>2. g # s
    BY <1>1, Bounds
  <2>3. QED
    BY <1>1, <2>1, <2>2 DEF Cleared
<1>2. ASSUME ApprovedCount' = s - 1
      PROVE  DownstreamOnlyAfterApproval'
  BY <1>1, <1>2, Bounds, PipelineAssumption
  DEF DownstreamOnlyAfterApproval, Cleared, Gated, Stages
<1>3. ASSUME ApprovedCount' = s, Cleared(s)'
      PROVE  DownstreamOnlyAfterApproval'
  <2>1. ASSUME NEW g \in Gated, g <= s
        PROVE  Cleared(g)'
    <3>1. CASE g = s
      BY <1>3, <3>1
    <3>2. CASE g # s
      BY <1>1, <2>1, <3>2, PipelineAssumption DEF Gated, Stages
    <3>3. QED
      BY <3>1, <3>2
  <2>2. QED
    BY <1>3, <2>1 DEF DownstreamOnlyAfterApproval, Cleared
<1>4. QED
  BY <1>1, <1>2, <1>3

LEMMA ApprovalStep ==
  ASSUME BaseInv, DownstreamOnlyAfterApproval, Next
  PROVE  DownstreamOnlyAfterApproval'
<1> USE DEF BaseInv
<1>1. ASSUME NEW s \in Stages, PersonaProduces(s) \/ (s \in Gated /\ PersonaFailsSchema(s))
      PROVE  DownstreamOnlyAfterApproval'
  <2>1. ApprovedCount = s - 1
    BY <1>1, CountFacts DEF PersonaProduces, PersonaFailsSchema, RunPersona, Superstep
  <2>2. \A g \in Gated : g # s =>
          /\ artifact'[g] = artifact[g] /\ evaluations'[g] = evaluations[g]
          /\ human_decisions'[g] = human_decisions[g]
    BY <1>1, Bounds DEF PersonaProduces, PersonaFailsSchema, RunPersona, record, TypeOK
  <2>3. CASE s \in Gated
    <3>1. ApprovedCount' = s - 1
      BY <1>1, <2>3, NextCountFacts DEF PersonaProduces, PersonaFailsSchema
    <3>2. QED
      BY <2>1, <2>2, <3>1, ClearedBefore
  <2>4. CASE s \notin Gated
    <3>1. s = N /\ next' = Finalize
      BY <1>1, <2>4, PipelineAssumption DEF PersonaProduces, Gated, Stages
    <3>2. ApprovedCount' = N
      BY <3>1, NextCountFacts
    <3>3. \A g \in Gated : Cleared(g)'
      BY <2>1, <2>2, <3>1, ClearedBefore, PipelineAssumption DEF Gated, Stages
    <3>4. QED
      BY <3>3 DEF DownstreamOnlyAfterApproval, Cleared
  <2>5. QED
    BY <2>3, <2>4
<1>2. ASSUME NEW s \in Gated, GatePasses(s) \/ GateRetries(s) \/ GateEscalates(s)
      PROVE  DownstreamOnlyAfterApproval'
  <2>1. PICK outcome \in GateOutcomes(s) : Conclude(s, outcome)
    BY <1>2 DEF GatePasses, GateRetries, GateEscalates
  <2>2. outcome.verdict \in Verdicts
    BY GateOutcomeFacts DEF GateOutcome
  <2>3. ApprovedCount = s - 1 /\ next = Node("gate", s)
    BY <2>1, CountFacts DEF Conclude, Superstep
  <2>4. /\ evaluations' = [evaluations EXCEPT ![s] = RecordOf(s, outcome)]
        /\ artifact' = artifact /\ human_decisions' = human_decisions
        /\ pending_handoff' = PendingAfter(outcome.verdict, s)
        /\ next' = RouteAfterGate(outcome.verdict, s)
    BY <2>1 DEF Conclude
  <2>5. \A g \in Gated : g # s =>
          /\ artifact'[g] = artifact[g] /\ evaluations'[g] = evaluations[g]
          /\ human_decisions'[g] = human_decisions[g]
    BY <2>4 DEF TypeOK
  <2>6. CASE outcome.verdict = "pass"
    <3>1. next' = Node("persona", s + 1)
      BY <2>4, <2>6, PipelineAssumption DEF RouteAfterGate, NextNode, Gated
    <3>2. ApprovedCount' = s
      BY <3>1, NextCountFacts, Bounds DEF Gated, Stages
    <3>3. outcome.scored /\ ~outcome.critical /\ ~invalid_output[s] /\ artifact[s] # 0
      BY <2>6, GateOutcomeFacts
    <3>4. evaluations'[s] = RecordOf(s, outcome)
      BY <2>4 DEF TypeOK
    <3>5. artifact[s] = retry_counts[s] + 1
      BY <2>3, <3>3 DEF GateInv
    <3>6. Cleared(s)'
      BY <2>4, <2>6, <3>3, <3>4, <3>5 DEF Cleared, RecordOf
    <3>7. QED
      BY <2>3, <2>5, <3>2, <3>6, Bounds, ClearedBefore
  <2>7. CASE outcome.verdict # "pass"
    <3>1. ApprovedCount' = s - 1
      BY <2>2, <2>4, <2>7, NextCountFacts DEF RouteAfterGate, PendingAfter, Verdicts
    <3>2. QED
      BY <2>3, <2>5, <3>1, Bounds, ClearedBefore
  <2>8. QED
    BY <2>6, <2>7
<1>3. ASSUME NEW s \in Gated, ReviewAccepts(s) \/ ReviewRetries(s) \/ ReviewAborts(s)
      PROVE  DownstreamOnlyAfterApproval'
  <2>1. PICK action \in Actions :
          /\ Review(s, action)
          /\ action = "abort" => status' = "aborted"
    BY <1>3 DEF ReviewAccepts, ReviewRetries, ReviewAborts, Actions, Review
  <2>2. /\ ApprovedCount = s - 1
        /\ artifact' = artifact /\ evaluations' = evaluations
        /\ human_decisions' = [human_decisions EXCEPT ![s] = action]
        /\ pending_handoff' = s
        /\ next' = RouteAfterReview(action, s)
    BY <2>1, CountFacts DEF Review, Superstep, record
  <2>3. \A g \in Gated : g # s =>
          /\ artifact'[g] = artifact[g] /\ evaluations'[g] = evaluations[g]
          /\ human_decisions'[g] = human_decisions[g]
    BY <2>2 DEF TypeOK
  <2>4. CASE action = "accept_as_is"
    <3>1. next' = Node("persona", s + 1)
      BY <2>2, <2>4, PipelineAssumption DEF RouteAfterReview, NextNode, Gated
    <3>2. ApprovedCount' = s
      BY <3>1, NextCountFacts, Bounds DEF Gated, Stages
    <3>3. artifact[s] # 0
      BY <2>1, <2>4 DEF Review, Taken
    <3>4. human_decisions'[s] = "accept_as_is"
      BY <2>2, <2>4 DEF TypeOK
    <3>5. Cleared(s)'
      BY <2>2, <3>3, <3>4 DEF Cleared
    <3>6. QED
      BY <2>2, <2>3, <3>2, <3>5, Bounds, ClearedBefore
  <2>5. CASE action # "accept_as_is"
    <3>1. ApprovedCount' = s - 1
      BY <2>1, <2>2, <2>5, NextCountFacts DEF RouteAfterReview, Actions
    <3>2. QED
      BY <2>2, <2>3, <3>1, Bounds, ClearedBefore
  <2>6. QED
    BY <2>4, <2>5
<1>4. CASE FinalizeNode
  <2>1. ApprovedCount = N /\ ApprovedCount' = N
    BY <1>4, CountFacts, NextCountFacts DEF FinalizeNode, Superstep
  <2>2. UNCHANGED <<artifact, evaluations, human_decisions>>
    BY <1>4 DEF FinalizeNode, record
  <2>3. QED
    BY <2>1, <2>2 DEF DownstreamOnlyAfterApproval
<1>5. ASSUME Interrupt \/ NodeRaises \/ Resumption
      PROVE  DownstreamOnlyAfterApproval'
  BY <1>5, ResumptionContinues
  DEF Interrupt, NodeRaises, Continue, DownstreamOnlyAfterApproval, ApprovedCount, record
<1>6. QED
  BY <1>1, <1>2, <1>3, <1>4, <1>5, NextCases, Bounds

\* No stage runs downstream of an artifact that neither passed its gate nor
\* was accepted by a reviewer.
THEOREM ApprovalSafety == Spec => []DownstreamOnlyAfterApproval
<1>1. Init => DownstreamOnlyAfterApproval
  <2>1. Init => ApprovedCount = 0
    BY CountFacts DEF Init
  <2>2. QED
    BY <2>1 DEF DownstreamOnlyAfterApproval, Gated
<1>2. BaseInv /\ DownstreamOnlyAfterApproval /\ [Next]_vars
        => DownstreamOnlyAfterApproval'
  <2>1. ASSUME BaseInv, DownstreamOnlyAfterApproval, UNCHANGED vars
        PROVE  DownstreamOnlyAfterApproval'
    BY <2>1 DEF vars, record, DownstreamOnlyAfterApproval, ApprovedCount
  <2>2. QED
    BY <2>1, ApprovalStep
<1>3. QED
  BY <1>1, <1>2, BaseInvariant, PTL DEF Spec

------------------------------------------------------------------------------
(* The length of an invocation.                                            *)

\* The supersteps before stage s of an invocation that spent every retry of
\* the stages before it, and how far up its ladder a stage is.
Base(s) == 1 + 2 * (MaxRetries + 1) * (s - 1)

Rung(s) ==
  IF s \notin Gated THEN 0
  ELSE IF retry_counts[s] < MaxRetries THEN retry_counts[s] ELSE MaxRetries

StepInv ==
  /\ steps <= StepBound
  /\ \A s \in Stages : next = Node("persona", s) => steps <= Base(s) + 2 * Rung(s)
  /\ \A s \in Gated : next = Node("gate", s) => steps <= Base(s) + 2 * Rung(s) + 1
  /\ next = HumanReview /\ invoke = "executing" => steps < StepBound - 1
  /\ next = Finalize => steps < StepBound
  /\ decision # "none" /\ invoke = "executing" => steps = 0

\* A gated stage takes at most two supersteps per attempt of its budget.
LEMMA Ladder ==
  /\ StepBound \in Nat /\ StepBound < RecursionLimit /\ RecursionLimit \in Nat
  /\ \A s \in Stages : Base(s) \in Nat /\ 1 <= Base(s) /\ Base(s) <= StepBound - 2
  /\ \A s \in Gated : Base(s + 1) = Base(s) + 2 * MaxRetries + 2
  /\ Base(N) = StepBound - 2
<1>1. ASSUME NEW a \in Nat, NEW b \in Nat
      PROVE  a * b \in Nat
  OBVIOUS
<1>2. N \in Nat /\ N >= 1 /\ MaxRetries \in Nat
  BY PolicyAssumption, PipelineAssumption
<1>3. ASSUME NEW s \in Stages
      PROVE  /\ Base(s) \in Nat /\ 1 <= Base(s)
             /\ Base(s) <= Base(N)
  <2>1. s \in Nat /\ s - 1 \in Nat /\ N - s \in Nat
    BY <1>2, <1>3 DEF Stages
  <2>2. /\ (MaxRetries + 1) * (s - 1) \in Nat
        /\ (MaxRetries + 1) * (N - s) \in Nat
    BY <1>1, <1>2, <2>1
  <2>3. Base(N) = Base(s) + 2 * ((MaxRetries + 1) * (N - s))
    BY <1>2, <2>1 DEF Base
  <2>4. Base(s) = 1 + 2 * ((MaxRetries + 1) * (s - 1))
    BY <1>2, <2>1 DEF Base
  <2>5. QED
    BY <2>2, <2>3, <2>4
<1>4. ASSUME NEW s \in Gated
      PROVE  Base(s + 1) = Base(s) + 2 * MaxRetries + 2
  BY <1>2, <1>4 DEF Base, Gated
<1>5. Base(N) = StepBound - 2
  BY <1>2 DEF Base, StepBound
<1>6. StepBound \in Nat
  <2>1. Base(N) \in Nat
    BY <1>2, <1>3 DEF Stages
  <2>2. StepBound = Base(N) + 2
    BY <1>2 DEF Base, StepBound
  <2>3. QED
    BY <2>1, <2>2
<1>7. QED
  BY <1>3, <1>4, <1>5, <1>6, PipelineAssumption

LEMMA StepInvStep ==
  ASSUME BaseInv, StepInv, Next
  PROVE  StepInv'
<1> USE DEF BaseInv
<1>1. steps \in Nat /\ \A node : Superstep(node) => steps' \in Nat /\ steps' <= steps + 1
  BY Ladder DEF TypeOK, Superstep
<1>2. \A g \in Stages : Rung(g) \in 0..MaxRetries
  BY Bounds DEF Rung, TypeOK
<1>3. ASSUME NEW s \in Stages, PersonaProduces(s) \/ (s \in Gated /\ PersonaFailsSchema(s))
      PROVE  StepInv'
  <2>1. /\ steps' <= Base(s) + 2 * Rung(s) + 1 /\ steps' \in Nat
        /\ retry_counts' = retry_counts /\ decision' = decision /\ decision = "none"
    BY <1>1, <1>2, <1>3, Ladder, NodeFacts
    DEF PersonaProduces, PersonaFailsSchema, RunPersona, Superstep, StepInv, ReviewInv
  <2>2. Rung(s)' = Rung(s)
    BY <2>1 DEF Rung
  <2>3. CASE s \in Gated
    <3>1. next' = Node("gate", s)
      BY <1>3, <2>3 DEF PersonaProduces, PersonaFailsSchema
    <3>2. Base(s) + 2 * Rung(s) + 1 <= StepBound
      <4>1. s + 1 \in Stages
        BY <2>3, PipelineAssumption DEF Gated, Stages
      <4>2. Base(s + 1) = Base(s) + 2 * MaxRetries + 2 /\ Base(s + 1) <= StepBound - 2
        BY <2>3, <4>1, Ladder
      <4>3. QED
        BY <1>2, <4>2, Ladder, Bounds
    <3>3. steps' <= StepBound
      BY <1>2, <2>1, <3>2, Ladder
    <3>4. \A g : Node("gate", s) = Node("gate", g) => g = s
      BY DEF Node
    <3>5. Node("gate", s) # HumanReview /\ Node("gate", s) # Finalize
      BY DEF Node, HumanReview, Finalize
    <3>6. QED
      BY <2>1, <2>2, <3>1, <3>3, <3>4, <3>5, NodeFacts DEF StepInv
  <2>4. CASE s \notin Gated
    <3>1. s = N /\ next' = Finalize /\ Rung(s) = 0
      BY <1>3, <2>4, PipelineAssumption DEF PersonaProduces, Gated, Stages, Rung
    <3>2. steps' < StepBound
      BY <2>1, <3>1, Ladder
    <3>3. \A g : Finalize # Node("persona", g) /\ Finalize # Node("gate", g)
      BY DEF Node, Finalize
    <3>4. QED
      BY <2>1, <3>1, <3>2, <3>3, NodeFacts, Ladder DEF StepInv
  <2>5. QED
    BY <2>3, <2>4
<1>4. ASSUME NEW s \in Gated, GatePasses(s) \/ GateRetries(s) \/ GateEscalates(s)
      PROVE  StepInv'
  <2>1. PICK outcome \in GateOutcomes(s) :
          /\ Conclude(s, outcome)
          /\ outcome.verdict = "retry" => retry_counts' = SpendRetry(s)
    BY <1>4 DEF GatePasses, GateRetries, GateEscalates
  <2>2. outcome.verdict \in Verdicts /\ (outcome.verdict = "retry" => retry_counts[s] < MaxRetries)
    BY GateOutcomeFacts DEF GateOutcome
  <2>3. s \in Stages /\ s + 1 \in Stages /\ s < N
    BY PipelineAssumption DEF Gated, Stages
  <2>4. /\ steps' <= Base(s) + 2 * Rung(s) + 2 /\ steps' \in Nat
        /\ decision' = "none" /\ next = Node("gate", s)
    BY <1>1, <1>2, <2>1, <2>3, Ladder, NodeFacts
    DEF Conclude, Superstep, StepInv, ReviewInv
  <2>5. Base(s) + 2 * Rung(s) + 2 <= Base(s + 1) /\ Base(s + 1) <= StepBound - 2
    BY <1>2, <2>3, Ladder, Bounds
  <2>6. steps' <= Base(s + 1) /\ steps' <= StepBound /\ steps' < StepBound - 1
    BY <1>2, <2>3, <2>4, <2>5, Ladder
  <2>7. next' = RouteAfterGate(outcome.verdict, s)
    BY <2>1 DEF Conclude
  <2>8. CASE outcome.verdict = "retry"
    <3>1. next' = Node("persona", s)
      BY <2>7, <2>8 DEF RouteAfterGate
    <3>2. Rung(s)' = Rung(s) + 1
      BY <2>1, <2>2, <2>8, Bounds DEF Rung, SpendRetry, TypeOK
    <3>3. \A g : Node("persona", s) = Node("persona", g) => g = s
      BY DEF Node
    <3>4. Node("persona", s) # HumanReview /\ Node("persona", s) # Finalize
      BY DEF Node, HumanReview, Finalize
    <3>5. steps' <= Base(s) + 2 * Rung(s)'
      BY <1>2, <2>3, <2>4, <3>2, Ladder, Bounds
    <3>6. QED
      BY <2>4, <2>6, <3>1, <3>3, <3>4, <3>5, NodeFacts DEF StepInv
  <2>9. CASE outcome.verdict = "pass"
    <3>1. next' = Node("persona", s + 1)
      BY <2>3, <2>7, <2>9 DEF RouteAfterGate, NextNode
    <3>2. \A g : Node("persona", s + 1) = Node("persona", g) => g = s + 1
      BY DEF Node
    <3>3. Node("persona", s + 1) # HumanReview /\ Node("persona", s + 1) # Finalize
      BY DEF Node, HumanReview, Finalize
    <3>4. retry_counts' \in [Gated -> Nat]
      BY <1>4, <2>9, Bounds DEF GatePasses, GateRetries, GateEscalates, SpendRetry, TypeOK
    <3>5. Rung(s + 1)' \in Nat
      BY <3>4, Bounds DEF Rung
    <3>6. steps' <= Base(s + 1) + 2 * Rung(s + 1)'
      BY <2>3, <2>4, <2>6, <3>5, Ladder
    <3>7. QED
      BY <2>4, <2>6, <3>1, <3>2, <3>3, <3>6, NodeFacts DEF StepInv
  <2>10. CASE outcome.verdict = "escalate"
    <3>1. next' = HumanReview
      BY <2>7, <2>10 DEF RouteAfterGate
    <3>2. QED
      BY <2>4, <2>6, <3>1, NodeFacts DEF StepInv
  <2>11. QED
    BY <2>2, <2>8, <2>9, <2>10 DEF Verdicts
<1>5. ASSUME NEW s \in Gated, ReviewAccepts(s) \/ ReviewRetries(s) \/ ReviewAborts(s)
      PROVE  StepInv'
  <2>1. PICK action \in Actions : Review(s, action)
    BY <1>5 DEF ReviewAccepts, ReviewRetries, ReviewAborts, Actions
  <2>2. /\ steps' \in Nat /\ steps' <= 1 /\ decision' = "none"
        /\ next' = RouteAfterReview(action, s)
    BY <1>1, <2>1 DEF Review, Superstep, StepInv
  <2>3. s \in Stages /\ s + 1 \in Stages /\ s < N
    BY PipelineAssumption DEF Gated, Stages
  <2>4. next' = Node("persona", s) \/ next' = Node("persona", s + 1) \/ next' = END
    BY <2>2, <2>3 DEF RouteAfterReview, NextNode
  <2>5. retry_counts' \in [Gated -> Nat]
    BY <1>5, Bounds DEF ReviewAccepts, ReviewRetries, ReviewAborts, SpendRetry, TypeOK
  <2>6. \A g \in Stages : Rung(g)' \in Nat
    BY <2>5, Bounds DEF Rung
  <2>7. \A g \in Stages : steps' <= Base(g) + 2 * Rung(g)'
    BY <2>2, <2>6, Ladder
  <2>8. 1 <= StepBound - 2
    BY <2>3, Ladder
  <2>9. /\ next' # HumanReview /\ next' # Finalize
        /\ \A g \in Gated : next' # Node("gate", g)
    BY <2>4 DEF Node, HumanReview, Finalize, END
  <2>10. steps' <= StepBound
    BY <2>2, <2>8, Ladder
  <2>11. QED
    BY <2>2, <2>7, <2>9, <2>10 DEF StepInv
<1>6. CASE Interrupt
  <2>1. /\ next' = HumanReview /\ invoke' = "interrupted"
        /\ steps' \in Nat /\ steps' <= StepBound
    BY <1>1, <1>6, Ladder DEF Interrupt, Superstep, StepInv
  <2>2. QED
    BY <2>1, NodeFacts DEF StepInv
<1>7. CASE FinalizeNode
  <2>1. /\ next' = END /\ invoke' = "returned"
        /\ steps' \in Nat /\ steps' <= StepBound
    BY <1>1, <1>7, Ladder DEF FinalizeNode, Superstep, StepInv
  <2>2. /\ END # Finalize /\ END # HumanReview
        /\ \A g : END # Node("persona", g) /\ END # Node("gate", g)
    BY DEF END, Node, Finalize, HumanReview
  <2>3. QED
    BY <2>1, <2>2 DEF StepInv
<1>8. CASE NodeRaises
  BY <1>8 DEF NodeRaises, StepInv, Rung, bookkeeping
<1>9. CASE Resumption
  <2>1. steps' = 0 /\ next' = next /\ retry_counts' = retry_counts
    BY <1>9, ResumptionContinues DEF Continue, bookkeeping
  <2>2. 0 < StepBound - 1 /\ 0 < StepBound
    <3>1. N \in Stages
      BY PipelineAssumption DEF Stages
    <3>2. QED
      BY <3>1, Ladder
  <2>3. \A s \in Stages : Rung(s)' = Rung(s)
    BY <2>1 DEF Rung
  <2>4. \A s \in Stages : 0 <= Base(s) + 2 * Rung(s) /\ 0 <= Base(s) + 2 * Rung(s) + 1
    BY <1>2, Ladder, Bounds
  <2>5. /\ \A s \in Stages : next' = Node("persona", s) => steps' <= Base(s) + 2 * Rung(s)'
        /\ \A s \in Gated : next' = Node("gate", s) => steps' <= Base(s) + 2 * Rung(s)' + 1
    BY <2>1, <2>3, <2>4, Bounds
  <2>6. QED
    BY <2>1, <2>2, <2>5, Ladder DEF StepInv
<1>10. QED
  BY <1>3, <1>4, <1>5, <1>6, <1>7, <1>8, <1>9, NextCases, Bounds

\* No invocation reaches LangGraph's recursion limit, for every number of
\* stages and every retry budget whose StepBound is below the limit.
THEOREM StepSafety == Spec => []StepsBelowLimit
<1>1. Init => StepInv
  <2>1. 1 \in Stages
    BY PipelineAssumption DEF Stages
  <2>2. /\ Node("persona", 1) # HumanReview /\ Node("persona", 1) # Finalize
        /\ \A g : Node("persona", 1) = Node("persona", g) => g = 1
    BY DEF Node, HumanReview, Finalize
  <2>3. Init => Rung(1) \in Nat
    BY Bounds DEF Init, Rung
  <2>4. QED
    BY <2>1, <2>2, <2>3, Ladder, NodeFacts DEF Init, StepInv
<1>2. BaseInv /\ StepInv /\ [Next]_vars => StepInv'
  <2>1. ASSUME BaseInv, StepInv, UNCHANGED vars
        PROVE  StepInv'
    BY <2>1 DEF vars, bookkeeping, StepInv, Rung
  <2>2. QED
    BY <2>1, StepInvStep
<1>3. BaseInv /\ StepInv => StepsBelowLimit
  BY Ladder DEF BaseInv, TypeOK, StepInv, StepsBelowLimit
<1>4. QED
  BY <1>1, <1>2, <1>3, BaseInvariant, PTL DEF Spec

------------------------------------------------------------------------------
(* Critical flags.                                                         *)

\* A critical flag answered by a retry has used up the fast track.
CriticalInv ==
  \A s \in Gated :
    evaluations[s].critical /\ evaluations[s].verdict = "retry" =>
      critical_retry_used[s]

\* What an evaluation makes of a critical flag: a retry only by the fast track,
\* once (agents/evaluator.py evaluate, decide_verdict).
LEMMA CriticalFacts ==
  ASSUME TypeOK, NEW s \in Gated, NEW outcome \in GateOutcomes(s), outcome.critical
  PROVE  /\ outcome.verdict = "retry" => FastTrack /\ ~critical_retry_used[s]
         /\ critical_retry_used[s] => outcome.verdict = "escalate"
<1> DEFINE r == retry_counts[s]  used == critical_retry_used[s]
<1>1. r \in 0..RetryCap /\ used \in BOOLEAN
  BY DEF TypeOK
<1>2. ~Rejection(r).critical /\ ~JudgeFailure.critical
  BY DEF Rejection, JudgeFailure
<1>3. ASSUME NEW scores, NEW t, outcome = Scored(scores, t, r, used)
      PROVE  /\ outcome.verdict = "retry" => FastTrack /\ ~used
             /\ used => outcome.verdict = "escalate"
  <2>1. IsCritical(scores)
    BY <1>3 DEF Scored
  <2>2. outcome.verdict = DecideVerdict(scores, r, used)
    BY <1>3 DEF Scored
  <2>3. QED
    BY <2>1, <2>2, PolicyAssumption DEF DecideVerdict, Passes, CriticalStops
<1>4. \/ outcome = Rejection(r)
      \/ \E scores, t : outcome = Scored(scores, t, r, used)
  <2>1. CASE outcome \in JudgedOutcomes[r][used]
    <3>1. PICK blocked \in BOOLEAN, first \in Judgements, second \in Judgements :
            outcome = Evaluate(blocked, first, second, r, used)
      BY <1>1, <2>1 DEF JudgedOutcomes
    <3>2. QED
      BY <1>2, <3>1 DEF Evaluate
  <2>2. QED
    BY <2>1 DEF GateOutcomes
<1>5. QED
  BY <1>2, <1>3, <1>4

\* What a gate stores, and whose flag it may raise.
LEMMA CriticalGate ==
  ASSUME BaseInv, CriticalInv, NEW s \in Gated,
         GatePasses(s) \/ GateRetries(s) \/ GateEscalates(s)
  PROVE  /\ CriticalInv'
         /\ \A g \in Gated :
              evaluations'[g] # evaluations[g] =>
                /\ critical_retry_used[g] => tier[g] = 2
                /\ critical_retry_used[g] /\ evaluations'[g].critical =>
                     evaluations'[g].verdict = "escalate"
<1>1. TypeOK /\ GateInv
  BY DEF BaseInv
<1>2. PICK outcome \in GateOutcomes(s) :
        /\ Conclude(s, outcome)
        /\ outcome.verdict = "retry" <=> GateRetries(s)
        /\ outcome.verdict = "retry" =>
             critical_retry_used' =
               [critical_retry_used EXCEPT ![s] = @ \/ FastTracks(outcome)]
        /\ outcome.verdict # "retry" => UNCHANGED critical_retry_used
  <2>1. CASE GatePasses(s)
    BY <2>1 DEF GatePasses, GateRetries, Conclude
  <2>2. CASE GateRetries(s)
    BY <2>2 DEF GateRetries
  <2>3. CASE GateEscalates(s)
    BY <2>3 DEF GateEscalates, GateRetries, Conclude
  <2>4. QED
    BY <2>1, <2>2, <2>3
<1>3. /\ \A g \in Gated \ {s} : evaluations'[g] = evaluations[g]
      /\ evaluations'[s].critical = outcome.critical
      /\ evaluations'[s].verdict = outcome.verdict
  BY <1>1, <1>2 DEF Conclude, RecordOf, TypeOK
<1>4. next = Node("gate", s)
  BY <1>2 DEF Conclude, Superstep
<1>5. critical_retry_used[s] => tier[s] = 2
  <2>1. ASSUME critical_retry_used[s]
        PROVE  tier[s] = 2
    <3>1. tier2_forced[s]
      BY <1>1, <2>1 DEF GateInv
    <3>2. tier[s] = PersonaTier(s \in HighRisk, retry_counts[s] + 1, tier2_forced[s])
      BY <1>1, <1>4 DEF GateInv
    <3>3. QED
      BY <3>1, <3>2 DEF PersonaTier
  <2>2. QED
    BY <2>1
<1>6. \A g \in Gated : critical_retry_used[g] => critical_retry_used'[g]
  BY <1>1, <1>2 DEF TypeOK
<1>7. outcome.critical /\ outcome.verdict = "retry" => critical_retry_used'[s]
  BY <1>1, <1>2, CriticalFacts DEF TypeOK, FastTracks
<1>8. CriticalInv'
  BY <1>3, <1>6, <1>7 DEF CriticalInv
<1>9. outcome.critical /\ critical_retry_used[s] => outcome.verdict = "escalate"
  BY <1>1, CriticalFacts
<1>10. QED
  BY <1>3, <1>5, <1>8, <1>9

\* Nothing but a gate writes evaluations, and nothing takes a fast track back.
LEMMA CriticalOthers ==
  ASSUME Next, \A s \in Gated : ~(GatePasses(s) \/ GateRetries(s) \/ GateEscalates(s))
  PROVE  UNCHANGED <<evaluations, critical_retry_used>>
<1>1. CASE \E s \in Stages : PersonaProduces(s) \/ PersonaFailsSchema(s)
  BY <1>1 DEF PersonaProduces, PersonaFailsSchema, RunPersona, record
<1>2. CASE \E s \in Gated : ReviewAccepts(s) \/ ReviewRetries(s) \/ ReviewAborts(s)
  BY <1>2 DEF ReviewAccepts, ReviewRetries, ReviewAborts, Review, record
<1>3. CASE Interrupt \/ FinalizeNode \/ NodeRaises \/ Resumption
  BY <1>3, ResumptionContinues
  DEF Interrupt, FinalizeNode, NodeRaises, Continue, bookkeeping, record
<1>4. QED
  BY <1>1, <1>2, <1>3, NextCases, Bounds

\* A critical flag that survives its fast-track retry goes to a reviewer, and
\* the retry ran on Tier 2, for every policy and retry budget.
THEOREM CriticalSafety == Spec => SurvivingCriticalEscalates
<1> DEFINE Survives(s) ==
      /\ evaluations[s].critical /\ evaluations[s].verdict = "retry"
      /\ evaluations'[s].attempt = evaluations[s].attempt + 1
      /\ evaluations'[s].critical
<1>1. Init => CriticalInv
  BY DEF Init, CriticalInv, NoEvaluation
<1>2. BaseInv /\ CriticalInv /\ [Next]_vars =>
        /\ CriticalInv'
        /\ [\A s \in Gated :
              Survives(s) => evaluations'[s].verdict = "escalate" /\ tier[s] = 2]_vars
  <2> SUFFICES ASSUME BaseInv, CriticalInv, [Next]_vars
               PROVE  /\ CriticalInv'
                      /\ \A s \in Gated : Survives(s) =>
                           evaluations'[s].verdict = "escalate" /\ tier[s] = 2
    OBVIOUS
  <2>1. \A s \in Gated : Survives(s) => evaluations'[s] # evaluations[s]
    BY Bounds DEF BaseInv, TypeOK, EvaluationRecord
  <2>2. ASSUME NEW s \in Gated, GatePasses(s) \/ GateRetries(s) \/ GateEscalates(s)
        PROVE  /\ CriticalInv'
               /\ \A g \in Gated : Survives(g) =>
                    evaluations'[g].verdict = "escalate" /\ tier[g] = 2
    BY <2>1, <2>2, CriticalGate DEF CriticalInv
  <2>3. ASSUME UNCHANGED <<evaluations, critical_retry_used>>
        PROVE  /\ CriticalInv'
               /\ \A g \in Gated : ~Survives(g)
    BY <2>1, <2>3 DEF CriticalInv
  <2>4. UNCHANGED vars => UNCHANGED <<evaluations, critical_retry_used>>
    BY DEF vars, bookkeeping, record
  <2>5. QED
    BY <2>2, <2>3, <2>4, CriticalOthers
<1>3. QED
  BY <1>1, <1>2, BaseInvariant, PTL DEF Spec, SurvivingCriticalEscalates
------------------------------------------------------------------------------
(* The pipeline implements StageApproval: every step of a run is an        *)
(* approval, a hold, a redo, an abort, the completion, or none of them.    *)

\* A run has ended exactly when it is at END, where nothing executes.
EndInv ==
  /\ next = END => invoke = "returned"
  /\ next = END <=> status \in {"complete", "aborted"}

LEMMA EndInit == Init => EndInv
BY DEF Init, EndInv, Node, END

\* Steps start before END, and end the run only by completing or aborting it.
LEMMA EndInvStep ==
  ASSUME BaseInv, EndInv, Next
  PROVE  EndInv'
<1>1. next # END
  BY NextCases, ResumptionContinues
  DEF EndInv, PersonaProduces, PersonaFailsSchema, RunPersona, GatePasses, GateRetries,
      GateEscalates, Conclude, ReviewAccepts, ReviewRetries, ReviewAborts, Review, Interrupt,
      FinalizeNode, Superstep, NodeRaises, HumanReview, END, Node
<1>2. ASSUME NEW s \in Stages, PersonaProduces(s) \/ (s \in Gated /\ PersonaFailsSchema(s))
      PROVE  EndInv'
  BY <1>2 DEF PersonaProduces, PersonaFailsSchema, EndInv, Node, Finalize, END
<1>3. ASSUME NEW s \in Gated, GatePasses(s) \/ GateRetries(s) \/ GateEscalates(s)
      PROVE  EndInv'
  <2>1. next' # END
    BY <1>3 DEF GatePasses, GateRetries, GateEscalates, Conclude, RouteAfterGate,
                NextNode, Node, HumanReview, Finalize, END
  <2>2. status' \in {"running", "blocked_for_human"}
    BY <1>3 DEF GatePasses, GateRetries, GateEscalates
  <2>3. QED
    BY <2>1, <2>2 DEF EndInv
<1>4. ASSUME NEW s \in Gated, ReviewAccepts(s) \/ ReviewRetries(s)
      PROVE  EndInv'
  <2>1. next' # END /\ status' = "running"
    BY <1>4 DEF ReviewAccepts, ReviewRetries, Review, RouteAfterReview,
                NextNode, Node, Finalize, END
  <2>2. QED
    BY <2>1 DEF EndInv
<1>5. ASSUME NEW s \in Gated, ReviewAborts(s)
      PROVE  EndInv'
  BY <1>5 DEF ReviewAborts, Review, RouteAfterReview, EndInv
<1>6. CASE FinalizeNode
  BY <1>6 DEF FinalizeNode, EndInv
<1>7. CASE Interrupt \/ NodeRaises \/ Resumption
  BY <1>1, <1>7, ResumptionContinues DEF Interrupt, NodeRaises, Continue, EndInv
<1>8. QED
  BY <1>2, <1>3, <1>4, <1>5, <1>6, <1>7, NextCases, Bounds

------------------------------------------------------------------------------
(* The approved artifacts as a sequence.                                   *)

ApprovedArtifacts == [s \in 1..ApprovedCount |-> artifact[s]]

\* Extending a prefix of a function by one element appends that element.
LEMMA PrefixAppend ==
  ASSUME NEW m \in Nat, NEW f, NEW h, \A i \in 1..m : h[i] = f[i]
  PROVE  /\ [i \in 1..m |-> h[i]] = [i \in 1..m |-> f[i]]
         /\ [i \in 1..m + 1 |-> h[i]] = Append([i \in 1..m |-> f[i]], h[m + 1])
         /\ Len([i \in 1..m |-> f[i]]) = m
<1> DEFINE P == [i \in 1..m |-> f[i]]  Q == [i \in 1..m + 1 |-> h[i]]
<1>1. [i \in 1..m |-> h[i]] = P
  OBVIOUS
<1>2. Len(P) = m
  OBVIOUS
<1>3. Q = Append(P, h[m + 1])
  <2>1. DOMAIN Append(P, h[m + 1]) = 1..m + 1
    OBVIOUS
  <2>2. \A i \in 1..m + 1 : Append(P, h[m + 1])[i] = Q[i]
    OBVIOUS
  <2>3. QED
    BY <2>1, <2>2
<1>4. QED
  BY <1>1, <1>2, <1>3

\* An approval step of stage s: its artifact joins those before it.
LEMMA Approves ==
  ASSUME NEW s \in Stages, ApprovedCount = s - 1, ApprovedCount' = s,
         \A g \in Stages : g # s => artifact'[g] = artifact[g],
         artifact'[s] \in Attempts,
         status \notin {"complete", "aborted"}, status' \notin {"complete", "aborted"},
         next' # HumanReview
  PROVE  Approval!Approve
<1>1. s - 1 \in Nat /\ s \in 1..N /\ N \in Nat
  BY PipelineAssumption DEF Stages
<1>2. \A i \in 1..s - 1 : artifact'[i] = artifact[i]
  BY <1>1 DEF Stages
<1>3. /\ [i \in 1..(s - 1) + 1 |-> artifact'[i]]
           = Append([i \in 1..s - 1 |-> artifact[i]], artifact'[(s - 1) + 1])
      /\ Len([i \in 1..s - 1 |-> artifact[i]]) = s - 1
  BY <1>1, <1>2, PrefixAppend
<1>4. (s - 1) + 1 = s
  BY <1>1
<1>5. /\ ApprovedArtifacts' = Append(ApprovedArtifacts, artifact'[s])
      /\ Len(ApprovedArtifacts) < N
  BY <1>1, <1>3, <1>4 DEF ApprovedArtifacts
<1>6. \E a \in Attempts : ApprovedArtifacts' = Append(ApprovedArtifacts, a)
  BY <1>5
<1>7. QED
  BY <1>5, <1>6 DEF Approval!Approve, Approval!Open, ApprovedArtifacts

\* The other steps leave the approved artifacts of the n first stages alone.
LEMMA Keeps ==
  ASSUME NEW n \in 0..N, ApprovedCount = n, ApprovedCount' = n,
         \A g \in Stages : g <= n => artifact'[g] = artifact[g]
  PROVE  ApprovedArtifacts' = ApprovedArtifacts /\ Len(ApprovedArtifacts) = n
<1>1. \A i \in 1..n : artifact'[i] = artifact[i]
  BY PipelineAssumption DEF Stages
<1>2. n \in Nat
  BY PipelineAssumption
<1>3. QED
  BY <1>1, <1>2, PrefixAppend DEF ApprovedArtifacts

------------------------------------------------------------------------------
LEMMA ApprovalSteps ==
  ASSUME BaseInv, EndInv, EndInv', TypeOK', Next
  PROVE  [Approval!Next]_(Approval!vars)
<1> USE DEF BaseInv
<1> DEFINE ended == status \in {"complete", "aborted"}
<1>1. ASSUME NEW s \in Stages, PersonaProduces(s) \/ (s \in Gated /\ PersonaFailsSchema(s))
      PROVE  [Approval!Next]_(Approval!vars)
  <2>1. /\ ApprovedCount = s - 1 /\ next # HumanReview /\ ~ended /\ ~ended'
        /\ \A g \in Stages : g # s => artifact'[g] = artifact[g]
    <3>1. next = Node("persona", s) /\ next # END
      BY <1>1 DEF PersonaProduces, PersonaFailsSchema, RunPersona, Superstep, Node, END
    <3>2. status' = "running" /\ \A g \in Stages : g # s => artifact'[g] = artifact[g]
      BY <1>1 DEF PersonaProduces, PersonaFailsSchema, TypeOK
    <3>3. QED
      BY <3>1, <3>2, CountFacts, NodeFacts DEF EndInv
  <2>2. CASE s \in Gated
    <3>1. next' = Node("gate", s)
      BY <1>1, <2>2 DEF PersonaProduces, PersonaFailsSchema
    <3>2. ApprovedCount' = s - 1 /\ next' # HumanReview
      BY <3>1, NextCountFacts, NodeFacts
    <3>3. s - 1 \in 0..N /\ \A g \in Stages : g <= s - 1 => g # s
      BY PipelineAssumption DEF Stages
    <3>4. ApprovedArtifacts' = ApprovedArtifacts
      BY <2>1, <3>2, <3>3, Keeps
    <3>5. QED
      BY <2>1, <3>2, <3>4 DEF Approval!vars, ApprovedArtifacts
  <2>3. CASE s \notin Gated
    <3>1. s = N /\ next' = Finalize /\ artifact'[s] = 1
      BY <1>1, <2>3, PipelineAssumption DEF PersonaProduces, Gated, Stages, Attempt, TypeOK
    <3>2. ApprovedCount' = s /\ next' # HumanReview /\ artifact'[s] \in Attempts
      BY <3>1, NextCountFacts, NodeFacts, Bounds DEF Attempts
    <3>3. Approval!Approve
      BY <2>1, <3>2, Approves
    <3>4. QED
      BY <3>3 DEF Approval!Next
  <2>4. QED
    BY <2>2, <2>3
<1>2. ASSUME NEW s \in Gated, GatePasses(s) \/ GateRetries(s) \/ GateEscalates(s)
      PROVE  [Approval!Next]_(Approval!vars)
  <2>1. PICK outcome \in GateOutcomes(s) : Conclude(s, outcome)
    BY <1>2 DEF GatePasses, GateRetries, GateEscalates
  <2>2. outcome.verdict \in Verdicts
    BY GateOutcomeFacts DEF GateOutcome
  <2>3. /\ next = Node("gate", s) /\ next # END /\ next # HumanReview
        /\ artifact' = artifact /\ next' = RouteAfterGate(outcome.verdict, s)
        /\ pending_handoff' = PendingAfter(outcome.verdict, s)
    BY <2>1 DEF Conclude, Superstep, Node, END, HumanReview
  <2>4. ApprovedCount = s - 1 /\ ~ended /\ ~ended'
    BY <1>2, <2>3, CountFacts DEF EndInv, GatePasses, GateRetries, GateEscalates
  <2>5. /\ s \in Stages /\ s - 1 \in 0..N /\ s - 1 < N - 1 /\ s < N
        /\ (s + 1) - 1 = s
    BY PipelineAssumption DEF Gated, Stages
  <2>6. CASE outcome.verdict = "pass"
    <3>1. next' = Node("persona", s + 1)
      BY <2>3, <2>5, <2>6 DEF RouteAfterGate, NextNode
    <3>2. ApprovedCount' = s /\ next' # HumanReview
      BY <2>5, <3>1, NextCountFacts, NodeFacts
    <3>3. artifact'[s] \in Attempts
      <4>1. artifact[s] # 0
        BY <2>6, GateOutcomeFacts
      <4>2. artifact[s] \in 0..RetryCap + 1
        BY <2>5 DEF TypeOK
      <4>3. QED
        BY <2>3, <4>1, <4>2, Bounds DEF Attempts
    <3>4. Approval!Approve
      BY <2>3, <2>4, <2>5, <3>2, <3>3, Approves
    <3>5. QED
      BY <3>4 DEF Approval!Next
  <2>7. CASE outcome.verdict # "pass"
    <3>1. ApprovedCount' = s - 1 /\ (next' = HumanReview <=> outcome.verdict = "escalate")
      BY <2>2, <2>3, <2>7, NextCountFacts, NodeFacts DEF RouteAfterGate, PendingAfter, Verdicts
    <3>2. ApprovedArtifacts' = ApprovedArtifacts /\ Len(ApprovedArtifacts) = s - 1
      BY <2>3, <2>4, <2>5, <3>1, Keeps
    <3>3. CASE outcome.verdict = "escalate"
      <4>1. Len(ApprovedArtifacts) < N - 1 /\ Len(ApprovedArtifacts) < N
        BY <2>5, <3>2, PipelineAssumption, Bounds
      <4>2. next # HumanReview /\ next' = HumanReview
        BY <2>3, <3>1, <3>3
      <4>3. ApprovedArtifacts' = ApprovedArtifacts /\ ~ended /\ ~ended'
        BY <2>4, <3>2
      <4>4. Approval!Hold
        BY <4>1, <4>2, <4>3 DEF Approval!Hold, Approval!Open, ApprovedArtifacts
      <4>5. QED
        BY <4>4 DEF Approval!Next
    <3>4. CASE outcome.verdict # "escalate"
      BY <2>3, <2>4, <3>1, <3>2, <3>4 DEF Approval!vars, ApprovedArtifacts
    <3>5. QED
      BY <3>3, <3>4
  <2>8. QED
    BY <2>6, <2>7
<1>3. ASSUME NEW s \in Gated, ReviewAccepts(s) \/ ReviewRetries(s) \/ ReviewAborts(s)
      PROVE  [Approval!Next]_(Approval!vars)
  <2>1. PICK action \in Actions :
          /\ Review(s, action)
          /\ status' = IF action = "abort" THEN "aborted" ELSE "running"
    BY <1>3 DEF ReviewAccepts, ReviewRetries, ReviewAborts, Actions, Review
  <2>2. /\ next = HumanReview /\ pending_handoff = s /\ pending_handoff' = s
        /\ artifact' = artifact /\ next' = RouteAfterReview(action, s)
    BY <2>1 DEF Review, Superstep
  <2>3. ApprovedCount = s - 1 /\ ~ended
    BY <2>2, CountFacts, NodeFacts DEF EndInv
  <2>4. /\ s \in Stages /\ s - 1 \in 0..N /\ s - 1 < N /\ s < N
        /\ (s + 1) - 1 = s
    BY PipelineAssumption DEF Gated, Stages
  <2>5. CASE action = "accept_as_is"
    <3>1. next' = Node("persona", s + 1)
      BY <2>2, <2>4, <2>5 DEF RouteAfterReview, NextNode
    <3>2. ApprovedCount' = s /\ next' # HumanReview
      BY <2>4, <3>1, NextCountFacts, NodeFacts
    <3>3. artifact'[s] \in Attempts
      BY <2>1, <2>2, <2>4, <2>5, Bounds DEF TypeOK, Attempts, Review, Taken
    <3>4. Approval!Approve
      BY <2>1, <2>2, <2>3, <2>4, <2>5, <3>2, <3>3, Approves
    <3>5. QED
      BY <3>4 DEF Approval!Next
  <2>6. CASE action # "accept_as_is"
    <3>1. ApprovedCount' = s - 1 /\ next' # HumanReview
      BY <2>1, <2>2, <2>6, NextCountFacts, NodeFacts DEF RouteAfterReview, Actions
    <3>2. ApprovedArtifacts' = ApprovedArtifacts /\ Len(ApprovedArtifacts) = s - 1
      BY <2>2, <2>3, <2>4, <3>1, Keeps
    <3>3. CASE action = "retry"
      <4>1. Approval!Redo
        BY <2>1, <2>2, <2>3, <2>4, <3>1, <3>2, <3>3
        DEF Approval!Redo, Approval!Open, ApprovedArtifacts
      <4>2. QED
        BY <4>1 DEF Approval!Next
    <3>4. CASE action = "abort"
      <4>1. Approval!Abort
        BY <2>1, <2>2, <2>3, <2>4, <3>1, <3>2, <3>4
        DEF Approval!Abort, Approval!Open, ApprovedArtifacts
      <4>2. QED
        BY <4>1 DEF Approval!Next
    <3>5. QED
      BY <2>6, <3>3, <3>4 DEF Actions
  <2>7. QED
    BY <2>5, <2>6
<1>4. CASE FinalizeNode
  <2>1. /\ ApprovedCount = N /\ ApprovedCount' = N /\ artifact' = artifact
        /\ next = Finalize /\ next' = END /\ status' = "complete"
    BY <1>4, CountFacts, NextCountFacts DEF FinalizeNode, Superstep
  <2>2. ~ended /\ next # HumanReview /\ next' # HumanReview
    BY <2>1, NodeFacts DEF EndInv, Node, Finalize, END, HumanReview
  <2>3. ApprovedArtifacts' = ApprovedArtifacts /\ Len(ApprovedArtifacts) = N
    BY <2>1, Keeps, PipelineAssumption
  <2>4. Approval!Complete
    BY <2>1, <2>2, <2>3 DEF Approval!Complete, ApprovedArtifacts
  <2>5. QED
    BY <2>4 DEF Approval!Next
<1>5. CASE Interrupt \/ NodeRaises \/ Resumption
  BY <1>5, ResumptionContinues DEF Interrupt, NodeRaises, Continue, ApprovedCount, Approval!vars
<1>6. QED
  BY <1>1, <1>2, <1>3, <1>4, <1>5, NextCases, Bounds

\* Every behaviour of the pipeline is a behaviour of the approval process, for
\* every number of stages, budget, policy and judge.
THEOREM Refinement == Spec => ImplementsApproval
<1>1. Init => Approval!Init
  <2>1. ASSUME Init
        PROVE  /\ ApprovedCount = 0 /\ next # HumanReview
               /\ status = "running"
    <3>1. next = Node("persona", 1) /\ status = "running"
      BY <2>1 DEF Init
    <3>2. QED
      BY <3>1, CountFacts, NodeFacts
  <2>2. [s \in 1..0 |-> artifact[s]] = <<>>
    OBVIOUS
  <2>3. QED
    BY <2>1, <2>2 DEF Approval!Init
<1>2. Init => EndInv
  BY EndInit
<1>3. BaseInv /\ EndInv /\ [Next]_vars => EndInv'
  <2>1. ASSUME EndInv, UNCHANGED vars
        PROVE  EndInv'
    BY <2>1 DEF vars, EndInv
  <2>2. QED
    BY <2>1, EndInvStep
<1>4. BaseInv /\ BaseInv' /\ EndInv /\ EndInv' /\ [Next]_vars
        => [Approval!Next]_(Approval!vars)
  <2>1. ASSUME UNCHANGED vars
        PROVE  UNCHANGED Approval!vars
    BY <2>1 DEF vars, Approval!vars, ApprovedCount
  <2>2. QED
    BY <2>1, ApprovalSteps DEF BaseInv
<1>5. QED
  BY <1>1, <1>2, <1>3, <1>4, BaseInvariant, PTL
  DEF Spec, ImplementsApproval, Approval!Spec
=============================================================================
