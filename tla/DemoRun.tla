-------------------------------- MODULE DemoRun -------------------------------
(***************************************************************************)
(* Demo and benchmark runs, call by call: runs that share one scripted or  *)
(* simulated client (demo/library.py, llm/fake_client.py), the structured  *)
(* call with its repair (agents/base.py), the evaluator's layers and the   *)
(* records of a node's calls, which are only audited when the node ends    *)
(* (agents/evaluator.py, graph/nodes.py, graph/telemetry.py).              *)
(***************************************************************************)
EXTENDS Routing, Simulator

CONSTANTS
  Runs,
  Faulted,   \* the runs whose client injects a fault, at most one each
  Repairs,   \* Settings.parse_repair_attempts
  Execute,   \* Settings.execute_generated_code
  Garbage    \* a response that does not validate against its schema

ASSUME DemoAssumption ==
  /\ Faulted \subseteq Runs /\ Repairs \in Nat /\ Execute \in BOOLEAN
  /\ Garbage \notin ScoreVector /\ Garbage # NoOutput
  /\ Garbage \notin Brief /\ Garbage \notin Design /\ Garbage \notin Requirements(1..8)
  /\ Garbage \notin Implementation(1..8) /\ Garbage \notin TestPlan(1..8)

Gated   == PM..Dev
Sources == {"simulator", "leave-management", "fraud-mainframe"}

NoFault == [purpose |-> <<"none", 0, 0>>, attempt |-> 0, item |-> Garbage]

\* FaultInjectingLLMClient replaces the response to one purpose and attempt: by
\* one that never validates, or in the fraud example by a flawed design or code
\* that does not parse.
Faults(source) ==
  {NoFault} \union [purpose : Purposes, attempt : {1}, item : {Garbage}]
    \union IF source = "fraud-mainframe"
           THEN [purpose : {<<"persona", Architect, 0>>}, attempt : {1},
                 item : {FlawedDesign, UnmitigatedDesign}]
                \union [purpose : {<<"persona", Dev, 0>>}, attempt : {1},
                        item : {[Slice(4) EXCEPT !.broken = TRUE]}]
           ELSE {}

Nothing == [present |-> FALSE]

VARIABLES
  run,      \* the state of each run
  cursor    \* the scripted clients': responses used, by run and purpose

demoVars == <<run, cursor>>

\* Where a run is: at the next call or gate, or at its end.
Node(kind, stage) == [kind |-> kind, stage |-> stage]
Ends == {"complete", "blocked", "failed"}

NotStarted ==
  [source |-> "none", fault |-> NoFault, node |-> Node("new", PM),
   artifacts |-> [s \in PM..QA |-> Nothing], invalid |-> FALSE,
   retries |-> [s \in Gated |-> 0], critical_used |-> [s \in Gated |-> FALSE],
   evaluations |-> <<>>, measured |-> Nothing,
   tries |-> 0, first |-> NoOutput,      \* of the open structured call and gate
   answered |-> 0, records |-> 0, audited |-> 0]

DemoInit ==
  /\ run = [r \in Runs |-> NotStarted]
  /\ cursor = [key \in Runs \X Purposes |-> 0]

At(r, kind)  == run[r].node.kind = kind
Stage(r)     == run[r].node.stage
Attempt(r)   == IF Stage(r) = QA THEN 1 ELSE run[r].retries[Stage(r)] + 1

\* The orchestrator assigns the run a source and dispatches it.
Assign(r) ==
  /\ At(r, "new")
  /\ \E source \in Sources :
       \E fault \in IF r \in Faulted THEN Faults(source) ELSE {NoFault} :
         run' = [run EXCEPT ![r].source = source, ![r].fault = fault,
                            ![r].node = Node("persona", PM)]
  /\ UNCHANGED cursor

------------------------------------------------------------------------------
(* The clients.                                                            *)

Script(source, purpose) ==
  IF source = "leave-management" THEN LeaveManagement(purpose) ELSE FraudMainframe(purpose)

SharedCursor(r, purpose) == <<CHOOSE q \in Runs : run[q].source = run[r].source, purpose>>

\* Each run consumes its own copy of the script.
CursorKey(r, purpose) == <<r, purpose>>

\* The next scripted response; the last one is repeated.
Scripted(r, purpose) ==
  LET responses == Script(run[r].source, purpose)
      i         == cursor[CursorKey(r, purpose)] + 1
  IN  responses[IF i > Len(responses) THEN Len(responses) ELSE i]

Simulated(r, purpose) ==
  IF purpose[1] = "persona" THEN Template(Stage(r), Attempt(r))
  ELSE Judgement(Stage(r), run[r].artifacts[Stage(r)])

Injected(r, purpose) == run[r].fault.purpose = purpose /\ run[r].fault.attempt = Attempt(r)

Response(r, purpose) ==
  IF Injected(r, purpose) THEN run[r].fault.item
  ELSE IF run[r].source = "simulator" THEN Simulated(r, purpose)
  ELSE Scripted(r, purpose)

\* An injected response does not reach the client behind it.
Complete(r, purpose) ==
  cursor' = IF Injected(r, purpose) \/ run[r].source = "simulator" THEN cursor
            ELSE [cursor EXCEPT ![CursorKey(r, purpose)] = @ + 1]

------------------------------------------------------------------------------
(* What a call is built from.                                              *)

\* The upstream artifacts a persona's prompt shows, and asserts to be there.
PMReads        == {}
BAReads        == {PM}
ArchitectReads == {BA, PM}
DevReads       == {Architect, BA, PM}
QAReads        == {Architect, Dev, BA}

PersonaReads(s) ==
  CASE s = PM        -> PMReads
    [] s = BA        -> BAReads
    [] s = Architect -> ArchitectReads
    [] s = Dev       -> DevReads
    [] s = QA        -> QAReads

\* A judge reads the artifact under review with the one or two it was made from.
JudgeReads(s) == {s} \union (PersonaReads(s) \ (IF s = BA THEN {} ELSE {PM}))

Present(r, stages) == \A s \in stages : run[r].artifacts[s] # Nothing

\* CodeVerifier: tests are run if that is enabled, the code parses, there are tests
\* in it with safe paths, and pytest is installed.
Verify(impl) ==
  [syntax_errors : {impl.broken},
   tests : {"not_run"} \union
           IF Execute /\ ~impl.broken THEN {"passed", "failed", "timed_out"} ELSE {}]

\* QA measures the code once, before its first call.
Prepared(r) ==
  IF Stage(r) = QA /\ run[r].tries = 0
  THEN {[run[r] EXCEPT !.measured = report] : report \in Verify(run[r].artifacts[Dev])}
  ELSE {run[r]}

\* The report is attached by code; a model cannot invent it.
Finalized(s, draft, measured) ==
  IF s = QA
  THEN [covered |-> draft.covered, untestable |-> draft.untestable, execution |-> measured]
  ELSE draft

------------------------------------------------------------------------------
(* Nodes.                                                                  *)

LastCallOnly(records) == IF records = 0 THEN 0 ELSE 1

\* record_calls appends a row for each call of the node that ends.
Recorded(records) == records

\* The run after one more answered call, the node going on or ending with it.
Answered(state) == [state EXCEPT !.answered = @ + 1, !.records = @ + 1]

NodeEnds(state, node) ==
  [state EXCEPT !.audited = @ + Recorded(state.records), !.records = 0, !.tries = 0,
                !.first = NoOutput, !.node = node]

Repairable(r, response) == response = Garbage /\ run[r].tries < Repairs

AfterPersona(r) ==
  CASE Stage(r) # QA   -> Node("gate", Stage(r))
    [] OTHER           -> Node("complete", QA)

\* Output that never validates: the gate rejects it, the last stage raises after
\* its calls are audited.
PersonaWithout(r) == IF Stage(r) = QA THEN Node("failed", QA) ELSE Node("gate", Stage(r))

PersonaCall(r) ==
  LET purpose  == <<"persona", Stage(r), 0>>
      response == Response(r, purpose)
  IN  /\ At(r, "persona") /\ Present(r, PersonaReads(Stage(r)))
      /\ Complete(r, purpose)
      /\ \E prepared \in Prepared(r) :
           LET after == Answered(prepared)
           IN  run' = [run EXCEPT ![r] =
                 IF Repairable(r, response) THEN [after EXCEPT !.tries = @ + 1]
                 ELSE IF response = Garbage
                 THEN [NodeEnds(after, PersonaWithout(r)) EXCEPT !.invalid = TRUE]
                 ELSE [NodeEnds(after, AfterPersona(r)) EXCEPT !.invalid = FALSE,
                         !.artifacts[Stage(r)] =
                           Finalized(Stage(r), response, prepared.measured)]]

FindingsOf(artifacts, s) ==
  CASE s = PM        -> check_problem_brief(artifacts[PM])
    [] s = BA        -> check_requirements(artifacts[BA], artifacts[PM])
    [] s = Architect -> check_design(artifacts[Architect])
    [] s = Dev       -> check_implementation(artifacts[Dev], artifacts[BA])

\* No valid output, or a blocking finding on it.
Rejected(r) ==
  ~run[r].invalid => Pregate /\ blocking(FindingsOf(run[r].artifacts, Stage(r))) # {}

\* The gate's update, and the edge it takes.
Concluded(r, state, outcome) ==
  LET s == Stage(r)
      node == CASE outcome.verdict = "pass"  -> Node("persona", s + 1)
                [] outcome.verdict = "retry" -> Node("persona", s)
                [] OTHER                     -> Node("blocked", s)
  IN  [NodeEnds(state, node) EXCEPT
         !.evaluations = Append(@, [outcome |-> outcome, stage |-> s, attempt |-> Attempt(r)]),
         !.retries[s] = IF outcome.verdict = "retry" THEN @ + 1 ELSE @,
         !.critical_used[s] = @ \/ (outcome.verdict = "retry" /\ outcome.critical /\ FastTrack)]

\* Rejected without a call.
GateRejects(r) ==
  /\ At(r, "gate") /\ Rejected(r)
  /\ run' = [run EXCEPT ![r] = Concluded(r, @, Rejection(run[r].retries[Stage(r)]))]
  /\ UNCHANGED cursor

\* One call of a judge: the first, or the Tier 2 confirmation.
JudgeCall(r) ==
  LET s        == Stage(r)
      tier     == IF At(r, "gate") THEN FirstTier ELSE JudgeTier(TRUE)
      purpose  == <<"judge", s, tier>>
      response == Response(r, purpose)
      scores   == IF response = Garbage THEN NoOutput ELSE response
      retries  == run[r].retries[s]
      used     == run[r].critical_used[s]
      after    == Answered(run[r])
  IN  /\ At(r, "confirm") \/ (At(r, "gate") /\ ~Rejected(r))
      /\ Present(r, JudgeReads(s))
      /\ Complete(r, purpose)
      /\ run' = [run EXCEPT ![r] =
           CASE Repairable(r, response) -> [after EXCEPT !.tries = @ + 1]
             [] ~Repairable(r, response) /\ At(r, "gate") ->
                  IF scores # NoOutput /\ Confirms(scores, retries, used)
                  THEN [after EXCEPT !.node = Node("confirm", s), !.first = scores, !.tries = 0]
                  ELSE Concluded(r, after, Evaluate(FALSE, scores, NoOutput, retries, used))
             [] OTHER ->
                  Concluded(r, after, Evaluate(FALSE, run[r].first, scores, retries, used))]

\* The client raises (LLMError, or no source after a restart), or an assertion that
\* an upstream artifact is there: the open node's records are lost with its update.
CallRaises(r) ==
  /\ run[r].node.kind \in {"persona", "gate", "confirm"}
  /\ run' = [run EXCEPT ![r].node.kind = "failed", ![r].records = 0,
                        ![r].tries = 0, ![r].first = NoOutput]
  /\ UNCHANGED cursor

DemoNext ==
  \E r \in Runs : Assign(r) \/ PersonaCall(r) \/ GateRejects(r) \/ JudgeCall(r) \/ CallRaises(r)

DemoSpec == DemoInit /\ [][DemoNext]_demoVars

------------------------------------------------------------------------------
(* Correctness.                                                            *)

\* Where each demo shows a retry, and which gate outcome asks for it.
StoryStage(source) ==
  CASE source = "simulator" -> PM [] source = "leave-management" -> BA [] OTHER -> Architect

Story(source) ==
  [verdict |-> "retry", scored |-> TRUE, critical |-> source = "fraud-mainframe",
   judge |-> IF source = "fraud-mainframe" THEN "tier1" ELSE "tier2"]

\* Whatever other runs the client serves in between, a demo run completes with
\* exactly the one retry its source is made to show: the thin brief and the
\* borderline requirements confirmed by Tier 2, the flawed design by its critical
\* flag (DemoExample.highlights, demo/simulator.py).
RunsTellTheirStory ==
  \A r \in Runs :
    run[r].node.kind \in {"complete", "blocked"} /\ run[r].fault = NoFault =>
      LET s == StoryStage(run[r].source)
      IN  /\ At(r, "complete")
          /\ run[r].retries = [g \in Gated |-> IF g = s THEN 1 ELSE 0]
          /\ \E e \in {run[r].evaluations[i] : i \in 1..Len(run[r].evaluations)} :
               e.stage = s /\ e.attempt = 1 /\ e.outcome = Story(run[r].source)

\* No run completes with an artifact the checks would block, a story that is
\* skipped, a criterion that is neither covered nor declared or a test report of
\* other code, and no persona is shown such an artifact on the way, whichever
\* response was spoilt. Injected content never passes at once, and a design that
\* presumes an interface is only delivered where the injection left the
\* script's own flawed first design to the retry.
NoDefectSurvives ==
  \A r \in Runs :
    LET a == run[r].artifacts
        Sound(s) == a[s] # Nothing /\ (s \in Gated => blocking(FindingsOf(a, s)) = {})
    IN  /\ At(r, "persona") => \A s \in PersonaReads(Stage(r)) : Sound(s)
        /\ At(r, "complete") =>
             /\ \A s \in PM..QA : Sound(s)
             /\ uncovered_acceptance_criteria(a[QA], a[BA]) = {}
             /\ a[QA].execution.syntax_errors = a[Dev].broken
             /\ a[Architect].presumes => run[r].fault.item = FlawedDesign
        /\ run[r].fault.item # Garbage =>
             \A e \in {run[r].evaluations[i] : i \in 1..Len(run[r].evaluations)} :
               e.stage = run[r].fault.purpose[2] /\ e.attempt = 1 =>
                 e.outcome.verdict = "retry"

\* Every answered call, also a failed one, its repair and an overruled judge's, is
\* in the audit log or among the records of the node still open; only a node that
\* raises loses the calls it had made, at most those of two structured calls.
AnsweredCallsAudited ==
  \A r \in Runs :
    LET missing == run[r].answered - run[r].audited - run[r].records
    IN  IF At(r, "failed") THEN missing \in 0..2 * Repairs + 1 ELSE missing = 0
===============================================================================
