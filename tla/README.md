# Verification of the SDLC orchestrator

TLA+ models of the multi-agent SDLC orchestrator in `src/sdlc_loop` and of its
evaluation harness in `evals/`, TLC runs on small instances and TLAPS proofs for every
value of the constants. Paths below are relative to the repository root; `nodes.py:88`
names a line.

1. [The system](#1-the-system)
2. [The modules](#2-the-modules-and-the-code)
3. [The runs](#3-the-runs)
4. [The proofs](#4-the-proofs)
5. [Where the code and its documentation differ](#5-where-the-code-and-its-documentation-differ)
6. [What is not modelled](#6-what-is-not-modelled-and-why)
7. [Plan](#7-plan)

## 1. The system

A requirement goes through five personas (PM, BA, architect, developer, QA). The
output of each but the last is scored by an evaluator at a gate; code turns the
scores into PASS, RETRY or ESCALATE. RETRY runs the persona again with the
feedback, ESCALATE pauses the run until a reviewer accepts, retries or aborts. Every
event is appended to a hash-chained audit log; every step of the graph is
checkpointed; what a browser shows is derived from the two.

| Component (source) | State | Operations | What makes it correct |
|---|---|---|---|
| Pipeline graph (`graph/nodes.py`, `build_graph.py`, `routing.py`, `stages.py`, `state.py`) | the checkpointed `SDLCState`: artifacts, retry counts, forced tiers, feedback, evaluations, pending handoff, status | persona, gate, human-review and finalize nodes; conditional edges; interrupt and resume | nothing unapproved gets downstream; a reviewer is the last resort; retries end; a run holds until it is decided |
| Routing policy, tiers (`graph/routing.py`, `llm/model_router.py`, `schemas/evaluation.py`) | none | verdict of a score vector, confirmation rule, tier of a persona and of a judge | monotone verdicts; doubt goes to the stronger judge; a spent budget stops retries |
| Layered evaluator (`agents/evaluator.py`) | none | pre-gate, first judge, confirmation, fail-closed record | no artifact passes unscored |
| Persona agents (`agents/base.py`, `qa.py`, ...) | none | one structured call with repair attempts, its call records | an invalid output is not taken for an artifact; no answered call is missing from the log |
| Run service (`services/run_service.py`) | a lock per run, the active set | start, resume, state, get, `_invoke` | a review takes one decision; a review is not lost; reported status is the real one |
| HTTP API (`api/app.py`) | none of its own | 202 and a background task, 409 checks, view versions, the event stream | an accepted request is carried out; "unchanged" means unchanged |
| Checkpointing (`graph/checkpoint.py`) | one SQLite database | a superstep's state is stored | a run survives a restart |
| Audit log (`governance/audit.py`, `graph/telemetry.py`) | rows with a hash chain, a lock per process | append, events, verify, the rows of a structured call | the chain is linear; `verify_chain` reports the first edit |
| Run view (`orchestrator/view.py`) | none; derived from rows and snapshot | stages, attempts, outcome, version, settled | the view follows the run, through repeated and orphaned rows |
| Master orchestrator (`orchestrator/master.py`) | none; audit rows | submit, assess, plan, execute | a planned requirement is dispatched |
| Batch client (`llm/batch_client.py`) | parked requests, active worker count, flusher thread | worker, complete, flush, close | each caller is answered once and nobody waits for ever |
| Demo mode (`demo/`, `runtime.py`, `llm/fake_client.py`) | script assignments and cursors in memory | scripted and simulated clients | each run finds its script and plays it, whatever runs next to it |
| Checks (`quality/checks.py`), code verifier (`tools/code_verifier.py`) | none | findings on an artifact, a measured report | a blocking finding is never waved through |
| Evaluation harness (`evals/`) | a worker pool | scenarios, injected faults, metrics, sampling | the metrics derived from rows are those of the run |
| Browser page (`web/static/app.js`) | the view it shows, its stream or poll | submit, follow, decide | the page ends up with the last view |
| Token meter and cache, PII redaction, CLI, PDF reports, prompts | — | arithmetic, text, presentation | — |

How they interact: a request thread of the API answers at once and leaves a
background task; the task calls the run service, which takes the run's lock and
executes the graph; nodes call agents, agents call an LLM client (which in batch mode
blocks on a flusher thread, and in demo mode is one client shared by all runs), and
every layer appends audit rows; the page's stream and polls read the checkpointer's
database and the audit log at any time, one after the other and without the lock.

The hard behaviours: the retry ladder (three counters and two flags that the gate
and the reviewer both move), attempts that leave no output, judges that fail,
reviews that pause for hours and are answered by several people, invocations of
one run that overlap, audit rows written ahead of the state and written twice,
checkpoints stored behind the execution, exceptions and restarts between any two
of these, status and rows read in two steps, a batch that waits for threads that
come and go. `PROJECT.json` lists each of them under `hazards` with its line and the
properties that cover it.

## 2. The modules and the code

| Module | What it is |
|---|---|
| `Routing` | the pure decisions: `routing.py`, the tier rules and the evaluator's layering |
| `RoutingProperties` | all 5^5 score vectors as a state space, and relations between verdicts |
| `StageApproval` | the abstract specification of a run: stages approved in order, holds, completion |
| `Pipeline` (extends `Routing`) | one run of the graph, one action per node and outcome |
| `RunView`, `Metrics` | pure operators: what `view.py`, and `evals/metrics.py` and `agreement.py`, derive from rows |
| `AuditedRun` (extends `Pipeline`, uses `RunView`, `Metrics`) | a run with the rows its nodes append, and failures between rows |
| `RunService` | one run as the threads of the server see it |
| `LiveRun` (uses `RunView`) | from the submission of a requirement to the page that follows its run |
| `AuditLog` | threads of several processes on one hash-chained table |
| `BatchClient` | the batching LLM client under the evaluation harness |
| `Checks`, `Simulator` | pure operators: the deterministic checks; the templates, scripts and rule-based judge of demo mode |
| `DemoRun` (extends `Routing`, `Simulator`) | demo and benchmark runs call by call, with injected faults |
| `MCRouting`, `MCPipeline`, `MCAuditedRun`, `MCAuditLog` | what TLC needs beyond constants: score sets, threads, `MCRouting`'s composition of two state spaces |
| `PipelineProofs`, `AuditedRunProofs`, `RoutingProofs`, `RunServiceProofs`, `AuditLogProofs`, `BatchClientProofs`, `LiveRunProofs`, `DemoRunProofs` | theorems about the module of that name |

**Pipeline.** The variables are the fields of `SDLCState` under their names, per
stage; `next` is the node the last checkpoint leaves to run; `invoke` and
`decision` are the state of `graph.invoke` and the resume value in flight. An
artifact is named by the attempt that produced it, an evaluation by its attempt,
verdict, scores' presence and critical flag, a feedback entry by the evaluation it came
from: that is all the properties can tell apart. A superstep is one action: node,
state update and edge together (`PersonaProduces`, `PersonaFailsSchema`,
`GatePasses`, `GateRetries`, `GateEscalates`, `Interrupt`, `ReviewAccepts`,
`ReviewRetries`, `ReviewAborts`, `FinalizeNode`). `NodeRaises` is an exception of
any node: LangGraph then stores nothing of the superstep. `Resume` is
`RunService.resume` with its guards. `ResumeLate` is a decision that passed those guards
while an earlier review was pending and has waited for the run's lock since
(`run_service.py:126-131`, `192`): nothing checks it again. It answers the review
that is next by then, also with nothing to accept; or, if the invocation before it raised
in another node, that node runs again and the decision is dropped. The judges' answers are any score vector of
`ScoreSet` or no output, for each layer independently; the deterministic checks
find a blocking issue or not.

**Routing.** Scores are 1..5 per dimension; `Mean` is in hundredths, rounded as
`round(x, 2)` rounds a multiple of 0.2, that is exactly. Settings are constants.

**AuditedRun, RunView, Metrics.** Each action of `Pipeline` is joined by the rows its
node appends, in order. `Fails` is an exception or a stop of the process anywhere in
a node: any prefix of its rows stays, the update is not stored, and
a resumed review, or a node that a late decision runs again, appends its rows anew.
`orphans` says that the last rows are of a superstep that was not stored; the history
variable `repeated` has the supersteps, by node and attempt, that were stored after such
rows. A superstep is stored here before the next one appends rows; `RunService` has the
checkpoints that lag behind the execution (`Commit`). `RunView` has the functions of `view.py`
over these rows and the state: which attempts a stage has had, its status, the run's
outcome, whether the view is settled, its version. `Metrics` has the per-run and
per-handoff facts whose rates the benchmark prints, and which output a sampled
evaluation is shown with.

**RunService.** The graph is reduced to what threads tell apart: work, a review
pending or paused, an end. A checkpoint carries the status, the node left, how
many escalations there were, whether the interrupt is recorded, and
`human_decisions` as a function from escalation to request. Each thread goes
through the steps between which others can run: the reviewer looks, posts (the 409 check
in `resume_run`), the background task checks again (`resume`), enters the active
set, takes the lock, executes superstep by superstep, leaves the lock, audits a
failure and leaves the active set. `memory[t]` is what the invocation has come to
and `checkpoint` what the database holds: LangGraph stores checkpoints while the
next superstep executes (`Commit`) and waits for the last one when the invocation ends,
so a restart may lose the latest supersteps. A poll is two steps, snapshot and
active set, because `state()` reads them one after the other; a snapshot taken
during an execution may have no pending node, as the comment at
`run_service.py:150-152` says.

**LiveRun.** One requirement, by `POST /orchestrate` (assessed, planned, assigned a
script in demo mode, dispatched by a background task) or `POST /runs`. The task
appends a node's rows and then stores its checkpoint; `Crash` is a restart in
between. The page posts, opens the event stream, and follows it or falls back to polls
as `app.js` does. A read of the server is as many steps as the code takes: state, last
row id, version, rows, and for a run without a snapshot `build_view`'s own later
load (`reloaded`). 204 answers, the stream's end on a settled view and a connection that
breaks are steps of their own.

**AuditLog.** An append is two steps in the process's lock, the SELECT of the last hash
and the INSERT; either may fail, a process may stop, and `Edit` changes a row's
columns behind the log. A hash is the sequence of what was hashed, so that it does not
collide. `Series` are the rows of one structured call; PII redaction is applied to
the payload before it is hashed.

**BatchClient.** One thread per pipeline run of the harness registers in `worker()`,
makes calls one at a time, and leaves; the flusher waits on the condition, submits,
reads results until they end, lack some or raise, and fails the rest. `Tick` lets the
oldest call become overdue. An exception that is not `APIError` ends the flusher.

**Checks, Simulator, DemoRun.** An artifact is what the checks and judges count of it:
numbers of goals, criteria per story, links, risks, whether code parses. The templates
and the curated scripts are given as such counts, the rule-based judge as scores of
them. In `DemoRun` one action is one LLM call (or a gate that rejects before any): its
purpose, the cursor of the shared scripted client, repair attempts, the confirmation by
Tier 2, the records handed to the audit log when the node ends, and
`FaultInjectingLLMClient`, which spoils one response of a faulted run.

Assumed of LangGraph (not under `src/`, modelled from how the code uses it): a
superstep's update is atomic; a raised superstep leaves no state; an interrupt
stays recorded until the review node's superstep ends; a resume value is consumed
by a review in the first superstep or not at all; recursion is limited per
invocation. `steps` counts supersteps and stops at the limit instead of raising;
`StepsBelowLimit` shows that the limit is never reached, so nothing is lost. Assumed
of SQLite: a statement is atomic and durable. Assumed of the Batch API: a batch ends,
each result it has carries the id of one request, and any number may be missing.

## 3. The runs

| Run | Shows | Bounds |
|---|---|---|
| `routing` | `VerdictMonotone`, `CheapJudgeNeverSettlesDoubt`, `SpentBudgetStopsRetries`; `RunsTellTheirStory`, `NoDefectSurvives`, `AnsweredCallsAudited` | every score vector, retries up to one beyond the budget, every second opinion; then two demo runs on one client, one with any injected fault, one repair per call |
| `pipeline` | `TypeOK`, `DownstreamOnlyAfterApproval`, `EscalatesOnlyAfterTier2`, `FeedbackAligned`, `StepsBelowLimit`, `SurvivingCriticalEscalates`, `ImplementsApproval` | N = 3, stage 2 always on Tier 2, 4 score vectors, 2 retries, 1 reviewer's retry |
| `audited_run` | `ViewFollowsRun`, `AttemptsFollowRun`, `LastDecisionApplied`, `OutcomeReported`, `MetricsFollowRun`, `InvokeSettles` | N = 2, 2 score vectors, one judge, 1 retry, 1 reviewer's retry, 1 failure at any row |
| `run_service` | `TypeOK`, `DecisionsComplete`, `ActiveDrains`, `DroppedWasSuperseded`, `DecisionsStand`, `ReviewSurvives`, `TasksEnd` | 2 reviewers, 2 escalations (the second without an artifact), 1 restart |
| `live_run` | `RowsExplainState`, `ScriptAssigned`, `UnchangedIsCurrent`, `PlannedIsDispatched`, `PageCatchesUp` | both modes and routes, 2 reviews, 5 rows of other nodes, 1 restart |
| `audit_log` | `TypeOK`, `VerifyReportsFirstEdit`, `ForkedRowsOfTwoProcesses`, `LockComesFree` | 2 threads of one process and 1 of another, 2 rows, 2 calls per structured call |
| `batch_client` | `TypeOK`, `EachCallInOnePlace`, `BatchWhenAllWait`, `CallsAnswered`, `HarnessEnds` | 3 runs, 2 calls each, a flusher that may die |
| `pipeline_redo`, `pipeline_previous`, `run_service_status`, `run_service_stale`, `run_service_stopped` | a statement of the documentation or tests that the code does not keep, see 5 | N = 2 for the two `pipeline` ones; as above |

What the properties say, in words:

- *DownstreamOnlyAfterApproval*: each stage behind the run has an artifact which
  a scored, uncritical PASS judged — that very attempt, not an older one that an
  attempt without output left in place — or which a reviewer accepted.
- *EscalatesOnlyAfterTier2*: a reviewer is asked about the handoff just evaluated,
  at its current attempt, and only after an attempt on Tier 2, a failed judge or
  a critical flag under STRICT.
- *FeedbackAligned*: one feedback entry per retry, in order, each of its own stage
  and attempt, whoever asked for the retry.
- *SurvivingCriticalEscalates*: a second critical flag after the fast-track retry
  escalates, and the retry ran on Tier 2.
- *StepsBelowLimit*, *InvokeSettles*: the retry loop ends, and below the recursion limit.
- *ImplementsApproval*: refinement to `StageApproval`, through exceptions and resumptions.
- *ViewFollowsRun*, *AttemptsFollowRun*, *LastDecisionApplied*, *OutcomeReported*,
  *MetricsFollowRun*: what the view and the benchmark derive from rows is what the
  state says — up to exactly the rows of a superstep that was not stored. Where a
  late decision ran a raised node again its rows are there twice, and the properties say
  what then remains: a stage whose gate was repeated may be counted with more attempts
  than it had, never with fewer, and only an attempt whose persona was repeated
  may be shown with an output that the state does not have.
- *DecisionsComplete*, *DecisionsStand*, *ReviewSurvives*: the escalations behind a
  run are those decided; a stored decision is never replaced or lost; a pending
  review goes away only by being decided.
- *DroppedWasSuperseded*: a decision answered 202 and dropped by its task was about a
  review that another decision settled.
- *ActiveDrains*, *TasksEnd*: the active set does not keep a run nobody executes, and
  every accepted background task ends, also one whose audit append fails.
- *RowsExplainState*: a view never shows an end or a pending review without its rows,
  except where `build_view` loads the state after the rows.
- *UnchangedIsCurrent*, *PageCatchesUp*: a 204 is given only to a page that has the
  latest view, and a page that goes on ends up with it; the ways in which it stops
  short are the disjuncts of the property, each one a line of the code.
- *ScriptAssigned*, *PlannedIsDispatched*: a demo run finds its script, a planned
  requirement its run, unless the process is restarted in between.
- *VerifyReportsFirstEdit*, *ForkedRowsOfTwoProcesses*: `verify_chain` is exact unless
  the chain has forked, which only two processes can do.
- *EachCallInOnePlace*, *BatchWhenAllWait*, *CallsAnswered*, *HarnessEnds*: see the
  batch client's row in section 1.
- *RunsTellTheirStory*, *NoDefectSurvives*: each curated example shows its one retry
  whatever runs beside it, and an injected defect is stopped by check, judge, repair
  or retry before anybody downstream reads it.
- *AnsweredCallsAudited*: no answered call is missing from the log, but those of a node
  whose later call raised.

Why the bounds are enough. The gate's behaviour depends on the stage only through
`HighRisk` and being gated, so two gated stages, one in `HighRisk`, and the
ungated last one give every kind of neighbour. The four score vectors are one per
case of the rule (pass, borderline, low, critical with a high mean); `routing` covers
all of them. `audited_run` takes a clear pass and a critical failure, which with the
pre-gate and a judge that fails give every verdict: its rows have no scores, and one judge
answers as well as two. `MaxRetries` = 2 is the default; `audited_run` takes 1, which leaves
first, retried and final attempts. One reviewer's retry puts a stage beyond its budget;
a second one repeats it. In `RunService` and `LiveRun` each hazard is between two
invocations, two reads or a read and a restart; two escalations are what a stale
decision needs, and five rows let the page fall behind, catch up and fall behind again.
Two rows chained to one need two writers; a third thread adds a lock that is
contended. Three runs let a batch hold some, all but one and all of the registered
threads. The proofs remove these bounds for the properties they cover.
`MaxWork`, `MaxRows`, `MaxCalls`, `MaxRedos`, `MaxReviews`, `MaxCrashes` and
`MaxFailures` are bounds of the models, not of the code. Checking for deadlock is
off because runs end, and reviewers need not come. In `audit_log` it is
on but says nothing: there an append or a crash is always possible.

`routing` puts two independent state spaces in one run (`MCSpec`): the exploration of
score vectors and the demo runs that `Routing`'s rules decide. Each leaves the other's
variables alone.

Fairness. `AuditedSpec` has weak fairness of the executing node: model
calls have a timeout and a bounded number of retries, so the thread always goes on;
resuming and failing are not fair. `FairSpec` of `RunService` is weak
fairness of the steps of accepted background tasks (`Check` and `TaskStep`, per
thread): the server's thread pool runs them and an executing graph settles, which
is `InvokeSettles`. Looking, posting, polling and restarting are not fair. A
waiting thread competes with finitely many others, so weak fairness is enough for
the lock. `AuditLog`: a thread past its SELECT goes on, to an insert or an
exception; nothing is said about who gets the lock. `BatchClient`: the threads
run, time passes, a submitted batch ends or raises at the API, `main` closes the
client when its pool is empty. `LiveRun`: a submitted request and an accepted task go
on, and so do the page's loops; nobody has to submit, decide, or break a connection.

Each property of a passing run has a mutant in `PROJECT.json`: a plausible bug in one
mapped definition under which TLC finds the property violated. The mutated forms
(`FailOpenRoute`, `NoLock`, ...) stand before the definitions they mutate.

## 4. The proofs

All proofs are checked with tlapm 1.4.5, from the named assumptions on the
constants (`PolicyAssumption`, `PipelineAssumption`, `ServiceAssumption`,
`AuditAssumption`, `BatchAssumption`, `LiveAssumption`, `DemoAssumption`) only. None of the
invariants below is inductive alone.

**PipelineProofs** proves, for every N, retry budget, policy, score set and number of
reviewer retries: `TypeSafety`, `EscalationSafety`, `FeedbackSafety`,
`ApprovalSafety`, `StepSafety` and `CriticalSafety`.

- `TypeOK` needs `ReviewInv`: a review is about a gated handoff and a decision is in
  flight only there, else the retry counter of the review node would be typed by nothing.
- `EscalatesOnlyAfterTier2` needs `GateInv`: at a gate the tier of the attempt is the
  one `PersonaTier` gives for the bookkeeping as it is now, the artifact is of
  this attempt unless the output was invalid, and a spent fast track has forced
  Tier 2. `OutcomeFacts` says what the evaluator's layers can return and
  `EscalationDue` when that is an escalation; together they leave only attempts
  on Tier 2.
- `DownstreamOnlyAfterApproval` follows with the same `GateInv`: what a gate passes is
  the current attempt's artifact.
- `SurvivingCriticalEscalates` needs `CriticalInv`: a critical flag answered by a retry
  has used up the fast track (`CriticalFacts`: an outcome with a flag is a retry only
  on an unused one).
- `StepsBelowLimit` needs `StepInv`: a bound per node, from the number of supersteps to
  the stage (`Base`) and two per rung of the retry ladder (`Rung`); a review restarts
  the count. `Ladder` adds them up to `StepBound`, which the
  assumption puts below the recursion limit (in the code's settings, five stages
  and two retries, 2·3·4 + 3 = 27 against 100).

It also proves `Refinement`: `Spec => ImplementsApproval`. The mapping takes
`approved` from the artifacts of the stages behind the run, `held` from the pending
review node and `outcome` from the status. `EndInv` relates the end node to the
status; each action is shown to be one abstract step or a stutter (`ApprovalSteps`),
from `BaseInv` and `EndInv`. `Resume` and `ResumeLate` are treated as one (`Resumption`):
what the invariants need of either is that the state stays and a decision is in
flight only at the review node (`ResumptionFacts`).

**AuditedRunProofs** proves the five safety properties of `AuditedRun` for every N,
retry budget, policy, score set, number of reviewer retries and of failures at any
row: `DecisionSafety`, `AttemptSafety`, `MetricSafety`, `OutcomeSafety` and
`ViewSafety`. What the view and the benchmark compute is a fact about positions in a
sequence of any length, so the argument has three layers.

- *Sequences.* A kind of row is a set of rows; `Pos`, `Has`, `Count`, `LastIn` and
  `FirstIn` are the positions of the rows of a set in a log, whether there are any, how
  many, the last and the first. `ConcatPos`, `ConcatLast`, `ConcatFirst` and
  `ConcatCount` say what appending does to each. They need no induction over data: the
  latest row is the greatest element of a bounded set of positions (`GreatestNumber`,
  from the well-foundedness of < on Nat).
- *The run.* `AuditedRunIsRun` (`AuditedSpec => Spec`) makes every theorem about
  `Pipeline` hold of a run with rows. `StateInv` adds `HistoryInv`, what a
  stage not yet decided on looks like: beyond the stage the run is at nothing has happened,
  and at a persona or a gate the latest evaluation is of the attempt before.
- *The rows.* `RowsTellState` is the inductive invariant, `StateInv /\ AuditInv`.
  `RowsInv` has a part per kind of row: which attempts have calls and with what output
  (`CallsInv`), the last decision (`HumanInv`, `DecisiveInv`), the order of calls and
  decisions of neighbouring stages (`OrderInv`), evaluations and their number
  (`EvaluationsInv`, `RetriesInv`), the output before each judged evaluation
  (`JudgedInv`) and the run's own rows (`EndingInv`). Each step is reduced to its
  effect on the state (`PersonaEffect`, `GateEffect`, `ReviewEffect`, `StillEffect`)
  and the rows it appends.

None of the five is inductive: after a failure between rows and update the log is ahead
of the state, and a superstep that is run again appends its rows a second time.
`OrphanInv` says where the former can be: before a node other than the end that an
invocation has left without storing its superstep. `RowsInv` holds throughout, because its
parts allow for that one stage: calls of a raised persona (`Called`), the evaluation of
a raised gate (`Open`), the decision of a raised review (`Superseded`). The next superstep
to be stored is that of the same node and attempt (`Stores`, `StoredFacts`), whether a
failed review was answered again or a late decision ran the node again; it makes the
state catch up and enters `repeated`. `Clean` are the stages whose
evaluations are counted exactly, as none of them was repeated (`EvaluatedOnce`) or waits
to be; of the others the count is a bound. `ViewReads` and `MetricsRead` then
translate what `RunView` and `Metrics` compute into `Pos`, `LastIn` and `Count`, and each
theorem is read off the parts it needs; `OutcomeSafety` counts attempts as the
cardinality of an interval (`CallsInv`).

**RoutingProofs** proves, for every threshold, band, minimum, budget and policy,
`BudgetSafety`, `DoubtSafety` and `MonotoneVerdicts`: raising a dimension
lowers neither the mean nor the minimum (`RaiseFacts`), so it can only take a critical
flag away, and each of the rule's cases looks at these three.

**RunServiceProofs** proves, for every number of reviewers, escalations and restarts:
`ServiceTypeSafety`, `DecisionsCompleteSafety`, `DecisionsStandSafety`,
`ReviewSafety`, `ActiveSafety` and `DroppedSafety`. The invariant `IInv` says that only
the lock's holder executes (`Exclusive`), that what it has in memory extends what is
stored (`Extends`: decisions stand, a pending review is left by deciding it) and is
complete in the sense of `DecisionsComplete`, and that before the first invocation
nothing is stored (`Pristine`). `Extends` is transitive, each superstep extends
(`SuperstepFacts`), and storing, failing or dying at any point therefore moves
the database along one chain: `DecisionsStand` and `ReviewSurvives` are read off
`InvStep`. `DroppedSafety` adds `DecisionInv`: the review a request was about is still
pending or has a decision.

**AuditLogProofs** proves, for any number of processes, threads and rows:
`AuditTypeSafety`, `VerifySafety`, `ForkSafety`, and `SingleProcessVerifies`: with one
process on the database the chain never forks, so `verify_chain` is exact.
`Chained` says that every row continues a hash stored before it and hashes the event
its append was answered for; `SelectedOK` that the hash a writer has selected is
continued by no row of its own process, because it holds its process's lock; `Linear`
that without a fork every row continues the row before it.

**BatchClientProofs** proves, for any finite set of runs: `BatchTypeSafety` (the worker
count is the number of registered threads), `PlaceSafety` and `BatchSafety`. `Quiet`
is the strengthening: the flusher holds no batch while it waits for one, and the
client is closed only when every run is done.

**LiveRunProofs** proves, for any number of reviews, rows and restarts: `ScriptSafety`,
`UnchangedSafety` and `ExplainedSafety`. `UnchangedSafety` needs `PageInv`: the version
the page sends is that of the state and of rows its view already has, so an equal
version leaves no row and no status out. `ExplainedSafety` (the property
`RowsExplainState`) needs `ExplainInv`, which follows a state from the node to the page: what
a node is about to store is explained by the rows it has appended (`NodeExplained`), so
is what is stored and what a request has read, and rows are only appended after
that (`GrowsExplained`), so the prefix the page shows explains it as well.

**DemoRunProofs** proves, for any set of runs and faults and any number of repairs:
`CallsSafety` under every policy, and `DeliverySafety` (the property `NoDefectSurvives`)
under `Guarded`, which names the settings it depends on; the shipped ones meet it. For
`CallsSafety`, `Counted` bounds the records of the open node by the repairs of its
structured call, and by those of a first judge before a confirmation. `DeliverySafety`
needs `DeliveryInv`. `PassedInv` says that what a run has moved past is sound and what a
judge is shown has passed the checks; `InjectedInv` that injected content reaches the
gate of its stage's first attempt. The one defect no check finds, the fraud example's
design that presumes an interface, depends on where two cursors of the script are:
`FlawInv` says that such a design meets the judge's first answer, with retries and the
fast track left, unless it is the second one after an injection. `OneRunDelivers` is the
isolation of the runs: a step of one leaves the artifacts and cursors of the others alone.

`StorySafety` (the property `RunsTellTheirStory`) holds under `Curated`: `Guarded`, no
dimension floor above 4, a pass threshold above 3.80 and at most 4.20, a borderline of
at most 3.20; the shipped settings meet it. The scripts are thus not tied to the exact
thresholds, but not free of them either: a threshold above 4.20 would send the drafts
the judges answer with that mean back again. `StoryInv` follows a run that has no fault
through its script: `OnTrack` says that the open stage has its last draft and that its
judge, while confirming, has answered what the script gives there; `Tracked`, of every
stage, that a stage behind the run has had the retries it was due, and that each draft
and each judge's answer has been drawn once, which is where the cursors are; `Told` that
the retry, once counted, has its record with the outcome the example is made for.
`DraftsPass` shows that every scripted draft passes the checks, `GoodPasses`,
`WeakConfirmed` and `WeakRetried` what the policy makes of each scripted answer,
`DueVerdict` the verdict of every gate, and `OneRunTells` that no run moves the cursor
of another.

Only model-checked: liveness (`InvokeSettles`, `TasksEnd`, `LockComesFree`,
`CallsAnswered`, `HarnessEnds`, `PlannedIsDispatched`, `PageCatchesUp`): the prover does
not reason about ENABLED, so not about fairness. Every invariant and
action property of the passing runs is stated by a theorem. No module uses RECURSIVE operators.

## 5. Where the code and its documentation differ

| Run | Statement | What happens |
|---|---|---|
| `pipeline_redo` | `docs/architecture.md:91`: after a reviewer's retry "a further failure escalates again" | after an early escalation the budget is not spent, and the failure is retried automatically (`nodes.py:237`, `routing.py:72`) |
| `pipeline_previous` | `docs/architecture.md:87-88`: a retry is given "the previous attempt" | after an attempt without valid output it is given an older one (`nodes.py:65`, `nodes.py:88`) |
| `run_service_status` | `tests/integration/test_run_status.py:1`: never "failed" while executing | of two overlapping invocations the first to end removes the run from the active set (`run_service.py:206`) |
| `run_service_stale` | `docs/ui-and-orchestrator.md:89`: an escalation pauses until a reviewer decides | a second decision on one escalation, waiting for the lock, decides the next escalation (`run_service.py:126-131`, `192`) |
| `run_service_stopped` | `docs/governance.md:93`: the status distinguishes "executing here" from "stopped" | a run stopped before a pending node is reported running (`run_service.py:149`) |

In `run_service_stale` an acceptance can even abort the run: accepting a stage that
has no artifact is turned into an abort (`nodes.py:214`).

Other limits of the code that the models show, as exceptions a property names, as
disjuncts, or as behaviour a reader should expect:

- A second decision that waits for the lock while the first one's invocation raises
  in a persona or gate runs that node again (`run_service.py:126-131`, `192`). The
  decision is dropped and the node's rows are in the log twice: the benchmark counts an
  attempt more and takes the lost attempt's evaluation for the first
  (`evals/metrics.py:122-128`), and the view may show the output of a lost call for an
  attempt whose stored output was invalid. `MetricsFollowRun` and `AttemptsFollowRun`
  name these cases.
- A decision answered 202 and then refused by `resume` leaves no audit row
  (`run_service.py:127-130`), though `api/app.py:139` says failures are already audited.
- Two processes on one database can fork the hash chain, and `verify_chain` then
  reports a break nobody made (`audit.py:132`).
- An exception other than `APIError` ends the flusher, and its callers wait for ever
  (`batch_client.py:79`): the disjunct `flusher = "dead"` of `CallsAnswered`.
- A run with a `run_failed` row is shown failed for ever, even when a resumed
  invocation completes it (`view.py:542`).
- `run_aborted` and `human_decision` rows are appended before the superstep is
  stored: after a failure in between, the log and the metrics tell of an end that has
  not happened (`nodes.py:217`).
- The first view after a 202 may be the settled one of before: the stream ends on it
  (`view.py:638`). A poll that finds no server is the last one (`app.js:277`), and a
  stream that breaks before its first new view is not replaced by polls when the page's
  view is settled. A view of a
  run without a snapshot loads the state after the rows (`view.py:671`). The version
  is the same for two different reviews with no row between them (`app.py:324`).
- A run submitted by `POST /runs` in demo mode is never assigned a script, so its first
  call raises; after a restart neither is a paused one (`library.py:97`).
- A later call of a node that raises takes the records and the cost of the answered
  ones with it (`base.py:86`).
- Injecting a fault does not advance the script: the second attempt of a flawed design
  gets the flawed design again (`NoDefectSurvives` names this case).

## 6. What is not modelled and why

- PDF reports (`reports/`), the page's rendering, the CLI's printing and argument
  parsing: presentation, with no state of their own. The CLI's review loop is `resume`
  called once per review.
- The token meter and the prompt cache: sums of products of token counts and list
  prices; no control depends on them.
- PII redaction: regular expressions over text. `AuditLog` has only that the payload
  is masked before it is hashed.
- The texts of artifacts, prompts, guidance and plans: a structured call is its outcome,
  an artifact what the checks and judges count of it.
- HTTP transport, authentication, the Anthropic client's parameters and streaming,
  subprocesses and files of the code verifier (its report is what it measured).
- The serializer's allowlist of the checkpointer, logging, settings from the environment.
- Of the harness: percentiles, costs, the kappa statistic, Markdown; and its loop that
  answers every review with `accept_as_is`, which raises where there is no artifact
  (`run_eval.py:52`). `resume`'s refusal itself is modelled.
- Of the view: durations, timeline texts, the rows of judges' calls, the code verifier
  and redaction, which only add timeline lines and token sums.
- In `AuditedRun` a superstep is stored before the next one appends rows, so one
  failure leaves the rows of one superstep; in the code a restart may lose several
  (`Commit` of `RunService`). An append that fails between two of a node's
  (`record_calls` included) is a prefix of its rows in `AuditedRun`; in `DemoRun` a
  node's records are appended together.
- In `LiveRun` invocations of one run do not overlap; that is `RunService`'s subject.

## 7. Plan

Done: all the modules of section 2 and their proofs. What could still be added:

1. The composition of `LiveRun` with two overlapping invocations of `RunService`.
2. The harness's review loop over `RunService` (`run_eval.py:41-68`).
