----------------------------- MODULE AuditedRun -------------------------------
(***************************************************************************)
(* A run of the pipeline with the audit rows its nodes append              *)
(* (graph/nodes.py, telemetry.py, run_service.py). A node appends its rows *)
(* before LangGraph stores its update: an exception or a restart in        *)
(* between leaves rows of a superstep that never happened; a review that   *)
(* is resumed, or a node that a late decision runs again, appends anew.    *)
(***************************************************************************)
EXTENDS Pipeline, FiniteSets

CONSTANT MaxFailures   \* bound: invocations that raise or die

ASSUME AuditedAssumption == MaxFailures \in Nat

VARIABLES
  rows,       \* the run's rows of the audit log
  orphans,    \* the last rows belong to a superstep that was not stored
  repeated,   \* history: supersteps, by node and attempt, stored after rows of theirs
  failures

auditVars == <<rows, orphans, repeated, failures>>

View == INSTANCE RunView

Measured == INSTANCE Metrics

Row(event_type, s, attempt, verdict) == View!Row(event_type, s, attempt, verdict)

AuditedInit ==
  /\ Init
  /\ rows = <<Row("run_started", 0, 0, "none")>>
  /\ orphans = FALSE
  /\ repeated = {}
  /\ failures = 0

------------------------------------------------------------------------------
(* The rows of each node, in the order of its appends.                     *)

CountedFromZero(s) == IF s \in Gated THEN retry_counts[s] ELSE 1

\* The attempt a row names.
AttemptTag(s) == Attempt(s)

\* record_calls: one row per call; a failed one is followed by a repair.
CallRows(s, ok) ==
  LET call(type) == Row(type, s, AttemptTag(s), "none")
  IN  IF ok THEN {<<call("persona_call")>>,
                  <<call("parse_failure"), call("persona_call")>>}
      ELSE {<<call("parse_failure"), call("parse_failure")>>}

EvaluationRows(s, outcome) ==
  LET evaluation == [Row("evaluation", s, AttemptTag(s), outcome.verdict)
                       EXCEPT !.judged = outcome.judge # "deterministic"]
  IN  IF outcome.verdict = "escalate"
      THEN <<evaluation, Row("escalation", s, AttemptTag(s), "escalate")>>
      ELSE <<evaluation>>

AcceptOrAbort(s, action) ==
  IF action = "retry" THEN <<>>
  ELSE <<Row("human_decision", s, AttemptTag(s), action)>>

DecisionRows(s, action) ==
  LET taken == Row("human_decision", s, AttemptTag(s), action)
  IN  IF action = "abort" THEN <<taken, Row("run_aborted", s, 0, "none")>>
      ELSE <<taken>>

CompletedRows == <<Row("run_completed", 0, 0, "none")>>

\* Every sequence of rows the node left to run may append.
NodeRows ==
  CASE next.node = "persona" ->
         CallRows(next.stage, TRUE) \union CallRows(next.stage, FALSE)
    [] next.node = "gate" ->
         {EvaluationRows(next.stage, outcome) : outcome \in GateOutcomes(next.stage)}
    [] next = HumanReview /\ decision # "none" ->
         {DecisionRows(pending_handoff, Taken(pending_handoff))}
    [] next = Finalize -> {CompletedRows}
    [] OTHER -> {<<>>}

------------------------------------------------------------------------------
(* Steps.                                                                  *)

\* A superstep that is stored.
Appends(newRows) ==
  /\ rows' = rows \o newRows
  /\ orphans' = FALSE
  /\ repeated' = repeated \union IF orphans THEN {<<next, AttemptTag(next.stage)>>} ELSE {}
  /\ UNCHANGED failures

Persona(s) ==
  \/ PersonaProduces(s) /\ \E r \in CallRows(s, TRUE) : Appends(r)
  \/ PersonaFailsSchema(s) /\ \E r \in CallRows(s, FALSE) : Appends(r)

Gate(s) ==
  /\ GatePasses(s) \/ GateRetries(s) \/ GateEscalates(s)
  /\ Appends(EvaluationRows(s, evaluations'[s]))

HumanReviewNode(s) ==
  \/ ReviewAccepts(s) /\ Appends(DecisionRows(s, "accept_as_is"))
  \/ ReviewRetries(s) /\ Appends(DecisionRows(s, "retry"))
  \/ ReviewAborts(s) /\ Appends(DecisionRows(s, "abort"))

Pauses == Interrupt /\ Appends(<<>>)

Finalizes == FinalizeNode /\ Appends(CompletedRows)

\* A node raises after some of its appends, or its update cannot be stored; the
\* failure is audited unless that append raises as well or the process dies.
Fails ==
  /\ failures < MaxFailures   \* bound
  /\ NodeRaises
  /\ failures' = failures + 1
  /\ UNCHANGED repeated
  /\ \E r \in NodeRows : \E k \in 0..Len(r) :
       /\ orphans' = (orphans \/ k > 0)
       /\ rows' \in {rows \o SubSeq(r, 1, k),
                     rows \o SubSeq(r, 1, k) \o <<Row("run_failed", 0, 0, "none")>>}

\* Resuming appends nothing itself.
Resumes(action) == (Resume(action) \/ ResumeLate(action)) /\ UNCHANGED auditVars

AuditedRunNode ==
  \/ \E s \in Stages : Persona(s)
  \/ \E s \in Gated : Gate(s) \/ HumanReviewNode(s)
  \/ Pauses \/ Finalizes

AuditedNext == AuditedRunNode \/ Fails \/ \E action \in Actions : Resumes(action)

allVars == <<vars, auditVars>>

AuditedSpec == AuditedInit /\ [][AuditedNext]_allVars /\ WF_allVars(AuditedRunNode)

------------------------------------------------------------------------------
(* What a reader of the audit log may rely on.                             *)

\* RunService.state between two steps of the run.
RunState ==
  [status |-> IF AwaitsReview THEN "blocked_for_human"
              ELSE IF status = "blocked_for_human" THEN "running" ELSE status,
   pending |-> IF AwaitsReview THEN pending_handoff ELSE NoHandoff]

\* The stages the view shows as finished are those behind the run, and a stage
\* under review is shown awaiting it: the rows, which know nothing of routing
\* and are written ahead of the state, tell the same story as the state, in which
\* each stage starts after the one before has finished. Only the rows of a
\* superstep that failed run ahead, until the next one is stored.
ViewFollowsRun ==
  ~orphans =>
    /\ View!Done(rows) = 1..ApprovedCount
    /\ \A s \in 1..ApprovedCount :
         /\ View!StageTimes(rows, s).started <= View!StageTimes(rows, s).finished
         /\ s > 1 => View!StageTimes(rows, s - 1).finished < View!StageTimes(rows, s).started
    /\ AwaitsReview =>
         View!StageStatus(rows, pending_handoff, View!RunStatus(rows, RunState), RunState)
           = "awaiting_review"

\* The attempts the view shows of a stage are the retries the run has used, and
\* the latest evaluation of each is that of the run, whatever was repeated after a
\* failure. An attempt with valid output is shown with it; one without is shown with
\* output only if its persona node had raised after the call and was run again.
AttemptsFollowRun ==
  ~orphans =>
    \A s \in Gated :
      LET current == retry_counts[s] + 1
          run     == s <= ApprovedCount \/ (pending_handoff = s /\ next \in {HumanReview, END})
                       \/ next = Node("gate", s)
          shown   == View!HasOutput(rows, s, current)
      IN  /\ View!AttemptNumbers(rows, s) = 1..IF run THEN current ELSE current - 1
          /\ run /\ ~invalid_output[s] => shown
          /\ run /\ shown => ~invalid_output[s] \/ <<Node("persona", s), current>> \in repeated
          /\ View!EvaluationOf(rows, s, evaluations[s].attempt).verdict = evaluations[s].verdict

\* The last decision on a handoff in the audit log is the one the run carried
\* out: a decision repeated or replaced after a failure supersedes its rows.
LastDecisionApplied ==
  ~orphans =>
    \A s \in Gated :
      View!LastRow(rows, LAMBDA r : r.event_type = "human_decision" /\ r.stage = s).verdict
        = human_decisions[s]

\* What the view says of a run that has ended: the ending it shows is the one
\* stored, also after an earlier failure; unless one was audited the headline
\* names a human override exactly if a reviewer accepted a stage; and each
\* retry it counts was asked for by a gate or a reviewer.
OutcomeReported ==
  ~orphans /\ status \in {"complete", "aborted"} =>
    /\ View!EndingRow(rows).event_type =
         IF status = "complete" THEN "run_completed" ELSE "run_aborted"
    /\ ~View!HasRow(rows, "run_failed") =>
         View!Headline(rows, RunState) =
           IF status = "aborted" THEN "aborted"
           ELSE IF \E s \in Gated : human_decisions[s] = "accept_as_is"
           THEN "complete_with_override" ELSE "all_gates_passed"
    /\ \A s \in Gated :
         /\ View!Retries(rows, s) = retry_counts[s]
         /\ View!Retries(rows, s) <=
              View!GateRetries(rows, s) + View!ReviewRetries(rows, s)

EvaluatedOnce(s) == \A n \in Attempts : <<Node("gate", s), n>> \notin repeated

\* The benchmark counts what happened (evals/metrics.py): it misses no attempt the
\* gate evaluated and no retry a gate decided, and credits no stage a reviewer
\* decided on to the gates. Unless a gate of the stage had raised after its
\* evaluation row and was run again, it counts no attempt twice, sees a first pass
\* and a retry only where there was one, and misses no stage passed without a human.
\* A run is counted as managed without one exactly if no reviewer decided on it,
\* and timed once it has ended, or by the row of an abort that was not stored.
\* The artifact laid before a person to label is the one the judge saw
\* (evals/agreement.py), also after a repair or a superstep that was repeated.
MetricsFollowRun ==
  ~orphans =>
    /\ \A s \in Gated :
         /\ Measured!Attempts(rows, s) >= evaluations[s].attempt
         /\ human_decisions[s] = "none" /\ retry_counts[s] > 0 => Measured!Retried(rows, s)
         /\ s <= ApprovedCount /\ Measured!PassesWithoutHuman(rows, s)
              => human_decisions[s] = "none"
         /\ EvaluatedOnce(s) =>
              /\ Measured!Attempts(rows, s) = evaluations[s].attempt
              /\ Measured!Attempt1Passes(rows, s) <=>
                   evaluations[s].attempt = 1 /\ evaluations[s].verdict = "pass"
              /\ s <= ApprovedCount /\ human_decisions[s] = "none"
                   => Measured!PassesWithoutHuman(rows, s)
              /\ human_decisions[s] = "none" /\ Measured!Retried(rows, s)
                   => retry_counts[s] > 0
    /\ \A i \in Measured!Judged(rows) :
         Measured!Produced(rows, i) # 0 /\ rows[Measured!Produced(rows, i)].attempt = rows[i].attempt
    /\ Measured!CompletedWithoutHuman(rows) <=>
         status = "complete" /\ \A s \in Gated : human_decisions[s] = "none"
    /\ status \in {"complete", "aborted"} => Measured!Timed(rows)
    /\ failures = 0 => (Measured!Timed(rows) => status \in {"complete", "aborted"})
=============================================================================
