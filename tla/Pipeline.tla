------------------------------ MODULE Pipeline --------------------------------
(***************************************************************************)
(* One run of the LangGraph state machine: persona nodes, gate nodes, the  *)
(* human-review interrupt and finalize (graph/nodes.py, build_graph.py),   *)
(* with the checkpointed SDLCState (graph/state.py) as its variables. A    *)
(* superstep runs one node, applies its update and follows its edge. An    *)
(* artifact is named by the attempt that produced it, 0 meaning none.      *)
(***************************************************************************)
EXTENDS Routing, Sequences

CONSTANTS
  N,               \* number of stages (five in STAGES); the last has no gate
  HighRisk,        \* stages whose persona is on Tier 2 by default
  ScoreSet,        \* the score vectors a judge may return
  MaxRedos,        \* bound: reviewer retries beyond the gate's own budget
  RecursionLimit   \* LangGraph's recursion_limit

Stages == 1..N
Gated  == 1..N - 1

\* The longest invocation: two nodes per attempt of every gated stage, the
\* review node that starts it, the last persona and finalize.
StepBound == 2 * (MaxRetries + 1) * (N - 1) + 3

ASSUME PipelineAssumption ==
  /\ N \in Nat /\ N >= 2
  /\ HighRisk \subseteq Stages
  /\ ScoreSet \subseteq ScoreVector
  /\ MaxRedos \in Nat
  /\ RecursionLimit \in Nat /\ StepBound < RecursionLimit

RetryCap  == MaxRetries + MaxRedos
Attempts  == 1..RetryCap + 1
Actions   == {"accept_as_is", "retry", "abort"}
NoHandoff == 0

Node(kind, s) == [node |-> kind, stage |-> s]
HumanReview   == Node("human_review", 0)
Finalize      == Node("finalize", 0)
END           == Node("__end__", 0)
Nodes ==
  {Node(kind, s) : kind \in {"persona", "gate"}, s \in Stages}
    \union {HumanReview, Finalize, END}

\* An EvaluationRecord of a handoff, and what stands for one not written yet.
EvaluationRecord ==
  [attempt : 0..RetryCap + 1, verdict : Verdicts \union {"none"},
   scored : BOOLEAN, critical : BOOLEAN, judge : Judges]
NoEvaluation ==
  [attempt |-> 0, verdict |-> "none", scored |-> FALSE, critical |-> FALSE,
   judge |-> "deterministic"]

\* The evaluation a piece of feedback came from.
FeedbackEntry == [stage : 0..N - 1, attempt : 0..RetryCap + 1]

VARIABLES
  next,                 \* the node the last checkpoint leaves to run
  status,               \* SDLCState.status
  artifact,             \* stage -> attempt that produced its artifact, or 0
  invalid_output,       \* gated stage -> its latest output did not validate
  retry_counts,         \* gated stage -> retries used
  critical_retry_used,  \* gated stage -> the fast track is spent
  tier2_forced,         \* gated stage -> later attempts run on Tier 2
  human_guidance,       \* gated stage -> a reviewer gave guidance
  feedback_history,     \* gated stage -> the evaluations whose feedback it got
  evaluations,          \* gated stage -> its latest evaluation record
  last_evaluated,       \* the handoff of evaluations[-1], or NoHandoff
  human_decisions,      \* gated stage -> the latest decision on it, or "none"
  pending_handoff,      \* the handoff a reviewer is asked about
  last_verdict,         \* what the conditional edges read
  tier,                 \* stage -> tier of its latest attempt (0: none yet)
  invoke,               \* graph.invoke: executing, interrupted, raised, returned
  decision,             \* the Command(resume=...) in flight, or "none"
  steps                 \* supersteps of this invoke, saturating at the limit

bookkeeping == <<invalid_output, retry_counts, critical_retry_used, tier2_forced,
                 human_guidance, feedback_history>>
record      == <<evaluations, last_evaluated>>
vars        == <<next, status, artifact, bookkeeping, record, human_decisions,
                 pending_handoff, last_verdict, tier, invoke, decision, steps>>

------------------------------------------------------------------------------
(* Edges.                                                                  *)

SkipStage(s) == IF s + 1 < N THEN Node("persona", s + 2) ELSE Finalize

NextNode(s) == IF s < N THEN Node("persona", s + 1) ELSE Finalize

FailOpenRoute(verdict, s) ==
  IF verdict = "retry" THEN Node("persona", s) ELSE NextNode(s)

EscalationEnds(verdict, s) ==
  CASE verdict = "pass"  -> NextNode(s)
    [] verdict = "retry" -> Node("persona", s)
    [] OTHER             -> END

RouteAfterGate(verdict, s) ==
  CASE verdict = "pass"  -> NextNode(s)
    [] verdict = "retry" -> Node("persona", s)
    [] OTHER             -> HumanReview

RouteAfterReview(action, s) ==
  CASE action = "abort" -> END
    [] action = "retry" -> Node("persona", s)
    [] OTHER            -> NextNode(s)

------------------------------------------------------------------------------
(* The state the service hands to graph.invoke for a new run.              *)

Init ==
  /\ next = Node("persona", 1)
  /\ status = "running"
  /\ artifact = [s \in Stages |-> 0]
  /\ invalid_output = [s \in Gated |-> FALSE]
  /\ retry_counts = [s \in Gated |-> 0]
  /\ critical_retry_used = [s \in Gated |-> FALSE]
  /\ tier2_forced = [s \in Gated |-> FALSE]
  /\ human_guidance = [s \in Gated |-> FALSE]
  /\ feedback_history = [s \in Gated |-> <<>>]
  /\ evaluations = [s \in Gated |-> NoEvaluation]
  /\ last_evaluated = NoHandoff
  /\ human_decisions = [s \in Gated |-> "none"]
  /\ pending_handoff = NoHandoff
  /\ last_verdict = "none"
  /\ tier = [s \in Stages |-> 0]
  /\ invoke = "executing"
  /\ decision = "none"
  /\ steps = 0

\* One superstep of the executing invoke at a given node.
Superstep(node) ==
  /\ invoke = "executing"
  /\ next = node
  /\ steps' = IF steps < RecursionLimit THEN steps + 1 ELSE steps

------------------------------------------------------------------------------
(* Persona nodes.                                                          *)

\* QA has no retry bookkeeping: it is always on its first attempt.
Attempt(s) == IF s \in Gated THEN retry_counts[s] + 1 ELSE 1

RunPersona(s) ==
  /\ Superstep(Node("persona", s))
  /\ tier' = [tier EXCEPT ![s] =
                PersonaTier(s \in HighRisk, Attempt(s), s \in Gated /\ tier2_forced[s])]
  /\ UNCHANGED <<retry_counts, critical_retry_used, tier2_forced, human_guidance,
                 feedback_history, record, human_decisions, pending_handoff,
                 last_verdict, decision>>

PersonaProduces(s) ==
  /\ RunPersona(s)
  /\ artifact' = [artifact EXCEPT ![s] = Attempt(s)]
  /\ invalid_output' = [g \in Gated |-> g # s /\ invalid_output[g]]
  /\ status' = "running"
  /\ next' = IF s \in Gated THEN Node("gate", s) ELSE Finalize
  /\ UNCHANGED invoke

\* No valid output after the repair attempts: the gate decides what happens,
\* and the artifact of an earlier attempt stays in the state.
PersonaFailsSchema(s) ==
  /\ s \in Gated
  /\ RunPersona(s)
  /\ invalid_output' = [invalid_output EXCEPT ![s] = TRUE]
  /\ status' = "running"
  /\ next' = Node("gate", s)
  /\ UNCHANGED <<artifact, invoke>>

------------------------------------------------------------------------------
(* Gate nodes.                                                             *)

Judgements == ScoreSet \union {NoOutput}

\* Every outcome of an evaluation, by the gate's state: the artifact's findings
\* and what the judges return are open.
JudgedOutcomes ==
  [retries \in 0..RetryCap |-> [used \in BOOLEAN |->
     {Evaluate(blocked, first, second, retries, used) :
        blocked \in BOOLEAN, first \in Judgements, second \in Judgements}]]

GateOutcomes(s) ==
  IF invalid_output[s] \/ artifact[s] = 0
  THEN {Rejection(retry_counts[s])}
  ELSE JudgedOutcomes[retry_counts[s]][critical_retry_used[s]]

RecordOf(s, outcome) ==
  [attempt |-> retry_counts[s] + 1, verdict |-> outcome.verdict,
   scored |-> outcome.scored, critical |-> outcome.critical, judge |-> outcome.judge]

FeedbackOf(s, rec) == [stage |-> s, attempt |-> rec.attempt]

PendingAfter(verdict, s) == IF verdict = "escalate" THEN s ELSE NoHandoff

ForgetRetry(s) == retry_counts

CountTwice(s) == [retry_counts EXCEPT ![s] = @ + 2]

SpendRetry(s) == [retry_counts EXCEPT ![s] = @ + 1]

LatestFeedbackOnly(s, entry) == [feedback_history EXCEPT ![s] = <<entry>>]

AddFeedback(s, entry) == [feedback_history EXCEPT ![s] = Append(@, entry)]

NeverFastTracks(outcome) == FALSE

FastTracks(outcome) == outcome.critical /\ FastTrack

\* What every verdict does: the record is appended and the edge followed.
Conclude(s, outcome) ==
  /\ Superstep(Node("gate", s))
  /\ evaluations' = [evaluations EXCEPT ![s] = RecordOf(s, outcome)]
  /\ last_evaluated' = s
  /\ last_verdict' = outcome.verdict
  /\ pending_handoff' = PendingAfter(outcome.verdict, s)
  /\ next' = RouteAfterGate(outcome.verdict, s)
  /\ UNCHANGED <<artifact, invalid_output, human_guidance, human_decisions, tier,
                 invoke, decision>>

GatePasses(s) ==
  /\ \E outcome \in GateOutcomes(s) :
       outcome.verdict = "pass" /\ Conclude(s, outcome)
  /\ status' = "running"
  /\ UNCHANGED <<retry_counts, critical_retry_used, tier2_forced, feedback_history>>

GateRetries(s) ==
  /\ \E outcome \in GateOutcomes(s) :
       /\ outcome.verdict = "retry"
       /\ Conclude(s, outcome)
       /\ critical_retry_used' =
            [critical_retry_used EXCEPT ![s] = @ \/ FastTracks(outcome)]
       /\ tier2_forced' = [tier2_forced EXCEPT ![s] = @ \/ FastTracks(outcome)]
       /\ feedback_history' = AddFeedback(s, FeedbackOf(s, RecordOf(s, outcome)))
  /\ retry_counts' = SpendRetry(s)
  /\ status' = "running"

GateEscalates(s) ==
  /\ \E outcome \in GateOutcomes(s) :
       outcome.verdict = "escalate" /\ Conclude(s, outcome)
  /\ status' = "blocked_for_human"
  /\ UNCHANGED <<retry_counts, critical_retry_used, tier2_forced, feedback_history>>

------------------------------------------------------------------------------
(* Human review.                                                           *)

\* The node pauses the graph: nothing before interrupt() changes the state.
Interrupt ==
  /\ Superstep(HumanReview)
  /\ decision = "none"
  /\ invoke' = "interrupted"
  /\ UNCHANGED <<next, status, artifact, bookkeeping, record, human_decisions,
                 pending_handoff, last_verdict, tier, decision>>

\* The review request is visible in the snapshot: the node paused, or it was
\* resumed and raised, which leaves the interrupt recorded.
AwaitsReview ==
  \/ invoke = "interrupted"
  \/ invoke = "raised" /\ next = HumanReview /\ decision # "none"

\* graph.invoke goes on from the stored state.
Continue ==
  /\ invoke' = "executing"
  /\ steps' = 0
  /\ UNCHANGED <<next, status, artifact, bookkeeping, record, human_decisions,
                 pending_handoff, last_verdict, tier>>

\* RunService.resume: a decision is taken for a run that awaits review, and
\* accepting needs an artifact in the review request.
Resume(action) ==
  /\ AwaitsReview
  /\ action = "accept_as_is" => artifact[pending_handoff] # 0
  /\ action = "retry" => retry_counts[pending_handoff] < RetryCap   \* bound
  /\ decision' = action
  /\ Continue

Decided == \E s \in Gated : human_decisions[s] # "none"

\* A decision that passed that check while an earlier review was pending and has
\* waited for the run's lock since: it is not checked again. It answers the review
\* that is next by now, also one not presented yet or with nothing to accept;
\* where the last invocation raised in another node, that node runs again and the
\* decision is dropped. Of a run that has ended nothing is left to run.
ResumeLate(action) ==
  /\ Decided /\ invoke \in {"interrupted", "raised"}
  /\ next = HumanReview /\ action = "retry" =>
       retry_counts[pending_handoff] < RetryCap   \* bound
  /\ decision' = IF next = HumanReview THEN action ELSE "none"
  /\ Continue

\* What the node makes of the decision: nothing to accept is an abort.
Taken(s) ==
  IF decision = "accept_as_is" /\ artifact[s] = 0 THEN "abort" ELSE decision

\* The node re-runs from its start with the decision and applies it.
Review(s, action) ==
  /\ Superstep(HumanReview)
  /\ decision # "none" /\ pending_handoff = s /\ Taken(s) = action
  /\ decision' = "none"
  /\ human_decisions' = [human_decisions EXCEPT ![s] = action]
  /\ next' = RouteAfterReview(action, s)
  /\ UNCHANGED <<artifact, invalid_output, critical_retry_used, record,
                 pending_handoff, tier>>

ReviewAccepts(s) ==
  /\ Review(s, "accept_as_is")
  /\ last_verdict' = "human_accept"
  /\ status' = "running"
  /\ UNCHANGED <<retry_counts, tier2_forced, human_guidance, feedback_history, invoke>>

ReviewRetries(s) ==
  /\ Review(s, "retry")
  /\ last_verdict' = "human_retry"
  /\ status' = "running"
  /\ human_guidance' = [human_guidance EXCEPT ![s] = TRUE]
  /\ tier2_forced' = [tier2_forced EXCEPT ![s] = TRUE]
  /\ retry_counts' = SpendRetry(s)
  /\ feedback_history' =
       AddFeedback(s, FeedbackOf(last_evaluated, evaluations[last_evaluated]))
  /\ UNCHANGED invoke

ReviewAborts(s) ==
  /\ Review(s, "abort")
  /\ last_verdict' = "human_abort"
  /\ status' = "aborted"
  /\ invoke' = "returned"
  /\ UNCHANGED <<retry_counts, tier2_forced, human_guidance, feedback_history>>

------------------------------------------------------------------------------
FinalizeNode ==
  /\ Superstep(Finalize)
  /\ status' = "complete"
  /\ pending_handoff' = NoHandoff
  /\ next' = END
  /\ invoke' = "returned"
  /\ UNCHANGED <<artifact, bookkeeping, record, human_decisions, last_verdict,
                 tier, decision>>

\* A node raises (the model or the audit store fails, or the last persona has
\* no valid output): its update is dropped and the invocation ends.
NodeRaises ==
  /\ invoke = "executing"
  /\ invoke' = "raised"
  /\ UNCHANGED <<next, status, artifact, bookkeeping, record, human_decisions,
                 pending_handoff, last_verdict, tier, decision, steps>>

RunNode ==
  \/ \E s \in Stages : PersonaProduces(s) \/ PersonaFailsSchema(s)
  \/ \E s \in Gated : GatePasses(s) \/ GateRetries(s) \/ GateEscalates(s)
  \/ \E s \in Gated : ReviewAccepts(s) \/ ReviewRetries(s) \/ ReviewAborts(s)
  \/ Interrupt
  \/ FinalizeNode

Next ==
  RunNode \/ NodeRaises \/ \E action \in Actions : Resume(action) \/ ResumeLate(action)

Spec == Init /\ [][Next]_vars

\* graph.invoke runs its nodes to the end in its thread: model calls time out
\* and are retried a bounded number of times. Nobody has to decide a review.
FairSpec == Spec /\ WF_vars(RunNode)

------------------------------------------------------------------------------
TypeOK ==
  /\ next \in Nodes
  /\ status \in {"running", "blocked_for_human", "complete", "aborted"}
  /\ artifact \in [Stages -> 0..RetryCap + 1]
  /\ invalid_output \in [Gated -> BOOLEAN]
  /\ retry_counts \in [Gated -> 0..RetryCap]
  /\ critical_retry_used \in [Gated -> BOOLEAN]
  /\ tier2_forced \in [Gated -> BOOLEAN]
  /\ human_guidance \in [Gated -> BOOLEAN]
  /\ feedback_history \in [Gated -> Seq(FeedbackEntry)]
  /\ evaluations \in [Gated -> EvaluationRecord]
  /\ last_evaluated \in 0..N - 1
  /\ human_decisions \in [Gated -> Actions \union {"none"}]
  /\ pending_handoff \in 0..N - 1
  /\ last_verdict \in Verdicts \union {"none", "human_accept", "human_retry", "human_abort"}
  /\ tier \in [Stages -> 0..2]
  /\ invoke \in {"executing", "interrupted", "raised", "returned"}
  /\ decision \in Actions \union {"none"}
  /\ steps \in 0..RecursionLimit

------------------------------------------------------------------------------
(* What the run guarantees.                                                *)

\* The stages behind the run: those it has moved past.
ApprovedCount ==
  CASE next.node \in {"persona", "gate"} -> next.stage - 1
    [] next = HumanReview                -> pending_handoff - 1
    [] next = Finalize                   -> N
    [] next = END /\ status = "complete" -> N
    [] OTHER                             -> pending_handoff - 1

\* Every gated stage the run has moved past has an artifact, and it got there
\* on a scored, non-critical PASS of exactly that artifact, or because a
\* reviewer accepted the stage: routing, invalid outputs that leave an old
\* artifact in place and the judge layers may not let an unevaluated one by.
DownstreamOnlyAfterApproval ==
  \A s \in Gated : s <= ApprovedCount =>
    /\ artifact[s] # 0
    /\ \/ human_decisions[s] = "accept_as_is"
       \/ /\ evaluations[s].verdict = "pass"
          /\ evaluations[s].scored /\ ~evaluations[s].critical
          /\ evaluations[s].attempt = artifact[s]

\* A reviewer is paged for the handoff just evaluated, at its current attempt,
\* after an ESCALATE; and unless the judge failed or the STRICT policy stopped
\* a critical flag, the attempt that failed had run on Tier 2.
EscalatesOnlyAfterTier2 ==
  next = HumanReview =>
    /\ pending_handoff \in Gated /\ last_evaluated = pending_handoff
    /\ LET rec == evaluations[pending_handoff]
       IN  /\ rec.verdict = "escalate"
           /\ rec.attempt = retry_counts[pending_handoff] + 1
           /\ \/ tier[pending_handoff] = 2
              \/ ~rec.scored /\ rec.judge # "deterministic"
              \/ rec.critical /\ ~FastTrack

\* A stage has one feedback entry per retry, in attempt order and each from
\* its own evaluation, whether the gate or a reviewer asked for the retry.
FeedbackAligned ==
  \A s \in Gated :
    feedback_history[s] = [i \in 1..retry_counts[s] |-> [stage |-> s, attempt |-> i]]

\* No invocation reaches LangGraph's recursion limit.
StepsBelowLimit == steps < RecursionLimit

\* A critical flag that survives the fast-track retry goes to a human, and
\* that retry ran on Tier 2.
SurvivingCriticalEscalates ==
  [][\A s \in Gated :
       /\ evaluations[s].critical /\ evaluations[s].verdict = "retry"
       /\ evaluations'[s].attempt = evaluations[s].attempt + 1
       /\ evaluations'[s].critical
       => evaluations'[s].verdict = "escalate" /\ tier[s] = 2]_vars

\* The run implements the approval process: order of the stages, immutability
\* of what was approved, holds that only a reviewer ends, completion.
Approval ==
  INSTANCE StageApproval WITH
    Artifacts <- Attempts,
    approved  <- [s \in 1..ApprovedCount |-> artifact[s]],
    held      <- next = HumanReview,
    outcome   <- IF status \in {"complete", "aborted"} THEN status ELSE "open"
ImplementsApproval == Approval!Spec

\* Every invocation stops executing: it pauses, raises or returns.
InvokeSettles == (invoke = "executing") ~> (invoke # "executing")

------------------------------------------------------------------------------
(* What the documentation says and the code does not do.                   *)

\* "a further failure escalates again" (docs/architecture.md:91): once a
\* reviewer asked for a retry, the next failing verdict is an escalation.
FailureAfterRedoEscalates ==
  [][\A s \in Gated :
       evaluations'[s] # evaluations[s] /\ human_decisions[s] = "retry"
       => evaluations'[s].verdict # "retry"]_vars

\* A retry is given "the previous attempt" (docs/architecture.md:87-88): the
\* artifact of the attempt its latest feedback is about, or none.
RetrySeesPreviousAttempt ==
  \A s \in Gated :
    next = Node("persona", s) /\ retry_counts[s] > 0
    => artifact[s] \in {0, retry_counts[s]}
=============================================================================
