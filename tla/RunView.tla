------------------------------ MODULE RunView ---------------------------------
(***************************************************************************)
(* What a poller sees of a run (orchestrator/view.py): stages, attempts,   *)
(* status and totals, derived from the run's audit rows and the state the  *)
(* run service reads from the checkpointer. Pure operators: `rows` is the  *)
(* run's part of the audit log in order, `state` what RunService.state     *)
(* returns. The rows of judges' calls, of the code verifier and of PII     *)
(* redaction only add timeline lines and token sums and are left out.      *)
(***************************************************************************)
EXTENDS Naturals, Sequences, FiniteSets

CONSTANT N   \* number of stages; the last one has no handoff

\* A row of one stage (0 for the run's own rows), with its attempt and verdict;
\* those of evaluations say whether a model judged.
Row(event_type, stage, attempt, verdict) ==
  [event_type |-> event_type, stage |-> stage, attempt |-> attempt, verdict |-> verdict,
   judged |-> FALSE]

NoRow == Row("none", 0, 0, "none")

Calls     == {"persona_call", "parse_failure"}
Endings   == {"run_completed", "run_aborted", "run_failed"}
Decisions == {"evaluation", "human_decision"}
Terminal  == {"complete", "aborted", "failed"}

\* What load_state returns: a status and the handoff under review, or nothing.
NoPending == 0
NoState   == [status |-> "none", pending |-> NoPending]

Positions(rows, Matches(_)) == {i \in 1..Len(rows) : Matches(rows[i])}

Earliest(found) == CHOOSE i \in found : \A j \in found : i <= j
Latest(found)   == CHOOSE i \in found : \A j \in found : j <= i

LastRow(rows, Matches(_)) ==
  LET found == Positions(rows, Matches)
  IN  IF found = {} THEN NoRow
      ELSE rows[Latest(found)]

HasRow(rows, event_type) == \E i \in 1..Len(rows) : rows[i].event_type = event_type

------------------------------------------------------------------------------
(* Stages.                                                                 *)

CallsOf(rows, s) == Positions(rows, LAMBDA r : r.event_type \in Calls /\ r.stage = s)

\* The attempts the stage's calls are grouped into.
AttemptNumbers(rows, s) == {rows[i].attempt : i \in CallsOf(rows, s)}

\* An attempt shows the latest evaluation row of its number.
EvaluationOf(rows, s, n) ==
  LastRow(rows, LAMBDA r : r.event_type = "evaluation" /\ r.stage = s /\ r.attempt = n)

\* Whether some call of the attempt had valid output.
HasOutput(rows, s, n) ==
  \E i \in CallsOf(rows, s) : rows[i].attempt = n /\ rows[i].event_type = "persona_call"

Retries(rows, s) ==
  LET n == Cardinality(AttemptNumbers(rows, s)) IN IF n = 0 THEN 0 ELSE n - 1

Decisive(rows, s) ==
  LastRow(rows, LAMBDA r : r.event_type \in Decisions /\ r.stage = s)

AnyApproval(rows, s) ==
  LET accepts == Positions(rows, LAMBDA r : r.stage = s /\ r.verdict \in {"pass", "accept_as_is"})
  IN  IF s = N
      THEN IF \E n \in AttemptNumbers(rows, s) : HasOutput(rows, s, n) THEN "completed" ELSE "none"
      ELSE IF accepts # {} THEN "accepted_by_human" ELSE "none"

\* A gated stage is finished when its last decisive row is a pass or an
\* acceptance, the last stage when it has produced something.
DoneStatus(rows, s) ==
  LET last == Decisive(rows, s)
  IN  CASE s = N /\ \E n \in AttemptNumbers(rows, s) : HasOutput(rows, s, n) -> "completed"
        [] s # N /\ last.event_type = "evaluation" /\ last.verdict = "pass" -> "passed"
        [] s # N /\ last.event_type = "human_decision" /\ last.verdict = "accept_as_is"
           -> "accepted_by_human"
        [] OTHER -> "none"

Done(rows) == {s \in 1..N : DoneStatus(rows, s) # "none"}

\* started_at and finished_at of a stage that is done: its first call, and the last
\* row that decided on it. Positions in the log stand for the times of its rows.
StageTimes(rows, s) ==
  LET decisive == Positions(rows, LAMBDA r : r.event_type \in Decisions /\ r.stage = s)
  IN  [started  |-> Earliest(CallsOf(rows, s)),
       finished |-> Latest(IF s = N \/ decisive = {} THEN CallsOf(rows, s) ELSE decisive)]

LatestAttempt(rows, s) ==
  LET ns == AttemptNumbers(rows, s)
  IN  IF ns = {} THEN 0 ELSE Latest(ns)

\* The first unfinished stage: the one the run is on.
ActiveStatus(rows, s, status, state) ==
  IF state.pending = s /\ s # N THEN "awaiting_review"
  ELSE IF status \in {"aborted", "failed"} THEN status
  ELSE IF status # "running" THEN "pending"
  ELSE IF /\ LatestAttempt(rows, s) # 0
          /\ EvaluationOf(rows, s, LatestAttempt(rows, s)).verdict = "retry" THEN "retrying"
  ELSE "running"

StageStatus(rows, s, status, state) ==
  IF DoneStatus(rows, s) # "none" THEN DoneStatus(rows, s)
  ELSE IF 1..s - 1 \subseteq Done(rows) THEN ActiveStatus(rows, s, status, state)
  ELSE "pending"

------------------------------------------------------------------------------
(* The run.                                                                *)

\* A run_failed row is final, whatever the state says.
RunStatus(rows, state) ==
  IF HasRow(rows, "run_failed") THEN "failed"
  ELSE IF state # NoState THEN state.status
  ELSE IF HasRow(rows, "requirement_rejected") THEN "rejected"
  ELSE "queued"

Total(rows, Matches(_)) == Cardinality(Positions(rows, Matches))

\* _totals: the retries the gates decided, and what reviewers decided.
GateRetries(rows, s) ==
  Total(rows, LAMBDA r : r.event_type = "evaluation" /\ r.verdict = "retry" /\ r.stage = s)
ReviewRetries(rows, s) ==
  Total(rows, LAMBDA r : r.event_type = "human_decision" /\ r.verdict = "retry" /\ r.stage = s)

FirstEnding(rows) ==
  LET found == Positions(rows, LAMBDA r : r.event_type \in Endings)
  IN  IF found = {} THEN NoRow ELSE rows[Earliest(found)]

\* finished_at: the latest row that ends a run.
EndingRow(rows) == LastRow(rows, LAMBDA r : r.event_type \in Endings)

\* _final's headline for a run that is over.
Headline(rows, state) ==
  LET status == RunStatus(rows, state)
  IN  IF status = "complete"
      THEN IF \E s \in 1..N : DoneStatus(rows, s) = "accepted_by_human"
           THEN "complete_with_override" ELSE "all_gates_passed"
      ELSE IF status \in {"aborted", "failed"} THEN status ELSE "none"

StatusVersion(lastId, state) == <<state.status, state.pending # NoPending>>

RowsVersion(lastId, state) == <<lastId>>

\* The version a poller hands back: the last row's id, the status and whether a
\* review is pending.
Version(lastId, state) == <<lastId, state.status, state.pending # NoPending>>

\* The view build_view renders from the rows it reads itself and a state that
\* was read before.
BuildView(rows, state) ==
  [status |-> RunStatus(rows, state), pending |-> state.pending,
   version |-> Version(Len(rows), state), rows |-> rows]

\* "Will not change again without a human action."
IsSettled(view) ==
  IF view.status = "blocked_for_human" THEN view.pending # NoPending
  ELSE view.status \in Terminal \union {"rejected"}
=============================================================================
