-------------------------------- MODULE Metrics -------------------------------
(***************************************************************************)
(* What the evaluation harness measures of one run from its audit rows     *)
(* alone (evals/metrics.py, agreement.py); the rates it prints divide the  *)
(* number of runs for which these hold. Latencies, tokens and costs are    *)
(* sums of columns.                                                        *)
(***************************************************************************)
EXTENDS RunView

EvaluationsOf(rows, s) ==
  Positions(rows, LAMBDA r : r.event_type = "evaluation" /\ r.stage = s)

SomeVerdict(rows, s, verdict) ==
  \E i \in EvaluationsOf(rows, s) : rows[i].verdict = verdict

ReachesGate(rows, s) == EvaluationsOf(rows, s) # {}

Attempts(rows, s) == Cardinality(EvaluationsOf(rows, s))

Attempt1Passes(rows, s) ==
  ReachesGate(rows, s) /\ rows[Earliest(EvaluationsOf(rows, s))].verdict = "pass"

Retried(rows, s) == SomeVerdict(rows, s, "retry")

LastEscalates(rows, s) ==
  ReachesGate(rows, s) /\ rows[Latest(EvaluationsOf(rows, s))].verdict = "escalate"

Escalated(rows, s) == SomeVerdict(rows, s, "escalate")

PassesWithoutHuman(rows, s) ==
  /\ ReachesGate(rows, s) /\ ~Escalated(rows, s)
  /\ rows[Latest(EvaluationsOf(rows, s))].verdict = "pass"

\* The evaluations a model made (metrics.py); those with an artifact are sampled for
\* blind labelling (agreement.py), with the latest output of their stage before them.
Judged(rows) ==
  {i \in 1..Len(rows) : rows[i].event_type = "evaluation" /\ rows[i].judged}

Produced(rows, i) ==
  LET outputs == {j \in CallsOf(rows, rows[i].stage) :
                    j < i /\ rows[j].event_type = "persona_call"}
  IN  IF outputs = {} THEN 0 ELSE Latest(outputs)

\* Of the whole run.
EscalatedRun(rows) == HasRow(rows, "escalation")

FailedRun(rows) == HasRow(rows, "run_failed")

CompletedWithoutHuman(rows) == HasRow(rows, "run_completed") /\ ~EscalatedRun(rows)

\* A wall-clock time needs a start and an end; a failed run has none.
Timed(rows) ==
  HasRow(rows, "run_started") /\ (HasRow(rows, "run_completed") \/ HasRow(rows, "run_aborted"))
===============================================================================
