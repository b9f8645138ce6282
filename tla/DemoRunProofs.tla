---------------------------- MODULE DemoRunProofs ----------------------------
(***************************************************************************)
(* Proofs about DemoRun, for every set of runs and faults and every number *)
(* of repairs: no answered call is missing from the audit log but those of *)
(* a node that raised, no defect a check, a judge or a retry can stop is   *)
(* passed on or delivered, and a run without faults tells its story.       *)
(***************************************************************************)
EXTENDS DemoRun, FiniteSetTheorems, TLAPS

\* The fields of a run: responses are of any kind, so a run is not typed by more.
Fields ==
  {"source", "fault", "node", "artifacts", "invalid", "retries", "critical_used",
   "evaluations", "measured", "tries", "first", "answered", "records", "audited"}

\* The records of the node left open are those of its structured call so far,
\* after a first judge's in a confirmation, and none is open at an end.
Counted(state) ==
  /\ DOMAIN state = Fields
  /\ state.answered \in Nat /\ state.records \in Nat /\ state.audited \in Nat
  /\ state.tries \in 0..Repairs
  /\ "kind" \in DOMAIN state.node
  /\ state.node.kind \in {"new", "persona", "gate"} => state.records = state.tries
  /\ state.node.kind = "confirm" => state.records <= state.tries + Repairs + 1
  /\ state.node.kind # "failed" => state.answered = state.audited + state.records
  /\ state.node.kind = "failed" =>
       state.answered - state.audited - state.records \in 0..2 * Repairs + 1

CountInv == DOMAIN run = Runs /\ \A r \in Runs : Counted(run[r])

LEMMA CountInit == DemoInit => CountInv
<1>1. DOMAIN NotStarted = Fields
  BY DEF NotStarted, Fields
<1>2. /\ NotStarted.answered = 0 /\ NotStarted.records = 0 /\ NotStarted.audited = 0
      /\ NotStarted.tries = 0 /\ NotStarted.node.kind = "new"
  BY DEF NotStarted, Node
<1>3. "kind" \in DOMAIN NotStarted.node
  BY DEF NotStarted, Node
<1>4. Counted(NotStarted)
  BY <1>1, <1>2, <1>3, DemoAssumption DEF Counted
<1>5. QED
  BY <1>4 DEF DemoInit, CountInv

\* A node that ends hands over its records (record_calls, gate_node).
LEMMA EndFacts ==
  ASSUME NEW state, DOMAIN state = Fields, NEW node
  PROVE  /\ DOMAIN NodeEnds(state, node) = Fields
         /\ NodeEnds(state, node).answered = state.answered
         /\ NodeEnds(state, node).audited = state.audited + state.records
         /\ NodeEnds(state, node).records = 0 /\ NodeEnds(state, node).tries = 0
         /\ NodeEnds(state, node).node = node
BY DEF NodeEnds, Recorded, Fields

LEMMA AnsweredFacts ==
  ASSUME NEW state, DOMAIN state = Fields
  PROVE  /\ DOMAIN Answered(state) = Fields
         /\ Answered(state).answered = state.answered + 1
         /\ Answered(state).records = state.records + 1
         /\ Answered(state).audited = state.audited
         /\ Answered(state).tries = state.tries /\ Answered(state).node = state.node
BY DEF Answered, Fields

\* So the counts come out even.
LEMMA EndCounted ==
  ASSUME NEW state, DOMAIN state = Fields,
         state.answered \in Nat, state.records \in Nat, state.audited \in Nat,
         state.answered = state.audited + state.records,
         NEW kind \in {"persona", "gate", "complete", "blocked", "failed"}, NEW stage,
         NEW next, DOMAIN next = Fields,
         \A field \in {"answered", "audited", "records", "tries", "node"} :
           next[field] = NodeEnds(state, Node(kind, stage))[field]
  PROVE  Counted(next)
<1>1. /\ next.answered = state.answered /\ next.audited = state.audited + state.records
      /\ next.records = 0 /\ next.tries = 0 /\ next.node = Node(kind, stage)
  BY EndFacts
<1>2. Node(kind, stage).kind = kind /\ "kind" \in DOMAIN Node(kind, stage)
  BY DEF Node
<1>3. QED
  BY <1>1, <1>2, DemoAssumption DEF Counted

\* A gate's update ends its node, at the next persona, the same or a review.
LEMMA ConcludedCounted ==
  ASSUME NEW r, NEW state, DOMAIN state = Fields,
         state.answered \in Nat, state.records \in Nat, state.audited \in Nat,
         state.answered = state.audited + state.records, NEW outcome
  PROVE  Counted(Concluded(r, state, outcome))
<1> DEFINE s == Stage(r)
           node == CASE outcome.verdict = "pass"  -> Node("persona", s + 1)
                     [] outcome.verdict = "retry" -> Node("persona", s)
                     [] OTHER                     -> Node("blocked", s)
<1>1. PICK kind, stage :
        /\ kind \in {"persona", "gate", "complete", "blocked", "failed"}
        /\ node = Node(kind, stage)
  OBVIOUS
<1> HIDE DEF node
<1>2. DOMAIN NodeEnds(state, node) = Fields
  BY EndFacts
<1>3. /\ DOMAIN Concluded(r, state, outcome) = Fields
      /\ \A field \in {"answered", "audited", "records", "tries", "node"} :
           Concluded(r, state, outcome)[field] = NodeEnds(state, node)[field]
  BY <1>2 DEF Concluded, Fields, node
<1>4. QED
  BY <1>1, <1>3, EndCounted

\* A step of one run leaves the others alone.
LEMMA OneRun ==
  ASSUME CountInv, NEW r \in Runs, NEW state, run' = [run EXCEPT ![r] = state],
         Counted(state)
  PROVE  CountInv'
BY DEF CountInv

LEMMA PersonaCounted ==
  ASSUME CountInv, NEW r \in Runs, PersonaCall(r)
  PROVE  CountInv'
<1> DEFINE response == Response(r, <<"persona", Stage(r), 0>>)
<1>1. Counted(run[r]) /\ run[r].node.kind = "persona"
  BY DEF CountInv, PersonaCall, At
<1> DEFINE update(state) ==
             LET after == Answered(state)
             IN  IF Repairable(r, response) THEN [after EXCEPT !.tries = @ + 1]
                 ELSE IF response = Garbage
                 THEN [NodeEnds(after, PersonaWithout(r)) EXCEPT !.invalid = TRUE]
                 ELSE [NodeEnds(after, AfterPersona(r)) EXCEPT !.invalid = FALSE,
                         !.artifacts[Stage(r)] =
                           Finalized(Stage(r), response, state.measured)]
<1>2. PICK prepared \in Prepared(r) : run' = [run EXCEPT ![r] = update(prepared)]
  BY DEF PersonaCall
<1> HIDE DEF response, update
<1> DEFINE after == Answered(prepared)
<1>3. /\ DOMAIN prepared = Fields
      /\ \A field \in {"answered", "audited", "records", "tries", "node"} :
           prepared[field] = run[r][field]
  BY <1>1 DEF Prepared, Counted, Fields
<1>4. /\ DOMAIN after = Fields
      /\ after.answered = run[r].answered + 1 /\ after.records = run[r].records + 1
      /\ after.audited = run[r].audited /\ after.tries = run[r].tries
      /\ after.node = run[r].node
  BY <1>3, AnsweredFacts
<1> HIDE DEF after
<1>5. /\ after.answered \in Nat /\ after.records \in Nat /\ after.audited \in Nat
      /\ after.answered = after.audited + after.records
  BY <1>1, <1>4 DEF Counted
<1>6. CASE Repairable(r, response)
  <2>1. Counted([after EXCEPT !.tries = @ + 1])
    BY <1>1, <1>4, <1>5, <1>6, DemoAssumption DEF Counted, Repairable, Fields
  <2>2. update(prepared) = [after EXCEPT !.tries = @ + 1]
    BY <1>6 DEF after, update
  <2>3. QED
    BY <1>2, <2>1, <2>2, OneRun
<1>7. CASE ~Repairable(r, response) /\ response = Garbage
  <2> DEFINE next == [NodeEnds(after, PersonaWithout(r)) EXCEPT !.invalid = TRUE]
  <2>1. PICK kind, stage :
          /\ kind \in {"persona", "gate", "complete", "blocked", "failed"}
          /\ PersonaWithout(r) = Node(kind, stage)
    BY DEF PersonaWithout
  <2>2. DOMAIN NodeEnds(after, PersonaWithout(r)) = Fields
    BY <1>4, EndFacts
  <2>3. /\ DOMAIN next = Fields
        /\ \A field \in {"answered", "audited", "records", "tries", "node"} :
             next[field] = NodeEnds(after, Node(kind, stage))[field]
    BY <2>1, <2>2 DEF Fields
  <2>4. update(prepared) = next
    BY <1>7 DEF after, update
  <2> HIDE DEF next
  <2>5. Counted(next)
    BY <1>4, <1>5, <2>1, <2>3, EndCounted
  <2>6. QED
    BY <1>2, <2>4, <2>5, OneRun
<1>8. CASE ~Repairable(r, response) /\ response # Garbage
  <2> DEFINE final == Finalized(Stage(r), response, prepared.measured)
             next  == [NodeEnds(after, AfterPersona(r)) EXCEPT !.invalid = FALSE,
                         !.artifacts[Stage(r)] = final]
  <2>1. PICK kind, stage :
          /\ kind \in {"persona", "gate", "complete", "blocked", "failed"}
          /\ AfterPersona(r) = Node(kind, stage)
    BY DEF AfterPersona
  <2>2. DOMAIN NodeEnds(after, AfterPersona(r)) = Fields
    BY <1>4, EndFacts
  <2>3. /\ DOMAIN next = Fields
        /\ \A field \in {"answered", "audited", "records", "tries", "node"} :
             next[field] = NodeEnds(after, Node(kind, stage))[field]
    BY <2>1, <2>2 DEF Fields
  <2>4. update(prepared) = next
    BY <1>8 DEF after, update
  <2> HIDE DEF next
  <2>5. Counted(next)
    BY <1>4, <1>5, <2>1, <2>3, EndCounted
  <2>6. QED
    BY <1>2, <2>4, <2>5, OneRun
<1>9. QED
  BY <1>6, <1>7, <1>8

LEMMA JudgeCounted ==
  ASSUME CountInv, NEW r \in Runs, JudgeCall(r)
  PROVE  CountInv'
<1> DEFINE s        == Stage(r)
           response == Response(r, <<"judge", s, IF At(r, "gate") THEN FirstTier
                                                 ELSE JudgeTier(TRUE)>>)
           scores   == IF response = Garbage THEN NoOutput ELSE response
           retries  == run[r].retries[s]
           used     == run[r].critical_used[s]
           after    == Answered(run[r])
           repaired == [after EXCEPT !.tries = @ + 1]
           confirm  == [after EXCEPT !.node = Node("confirm", s), !.first = scores, !.tries = 0]
<1>1. Counted(run[r]) /\ run[r].node.kind \in {"gate", "confirm"}
  BY DEF CountInv, JudgeCall, At
<1>2. \/ /\ run' = [run EXCEPT ![r] = repaired]
         /\ run[r].tries < Repairs
      \/ /\ run' = [run EXCEPT ![r] = confirm]
         /\ run[r].node.kind = "gate"
      \/ \E outcome : run' = [run EXCEPT ![r] = Concluded(r, after, outcome)]
  <2>1. CASE Repairable(r, response)
    BY <2>1 DEF JudgeCall, Repairable
  <2>2. CASE ~Repairable(r, response) /\ At(r, "gate")
    BY <2>2 DEF JudgeCall, At
  <2>3. CASE ~Repairable(r, response) /\ ~At(r, "gate")
    BY <2>3 DEF JudgeCall
  <2>4. QED
    BY <2>1, <2>2, <2>3
<1>3. /\ DOMAIN after = Fields
      /\ after.answered = run[r].answered + 1 /\ after.records = run[r].records + 1
      /\ after.audited = run[r].audited /\ after.tries = run[r].tries
      /\ after.node = run[r].node
  BY <1>1, AnsweredFacts DEF Counted
<1> HIDE DEF after, scores, s
<1>4. /\ after.answered \in Nat /\ after.records \in Nat /\ after.audited \in Nat
      /\ after.answered = after.audited + after.records
  BY <1>1, <1>3 DEF Counted
<1>5. run[r].tries < Repairs => Counted(repaired)
  BY <1>1, <1>3, <1>4, DemoAssumption DEF Counted, Fields
<1>6. run[r].node.kind = "gate" => Counted(confirm)
  BY <1>1, <1>3, <1>4, DemoAssumption DEF Counted, Fields, Node
<1>7. \A outcome : Counted(Concluded(r, after, outcome))
  BY <1>3, <1>4, ConcludedCounted
<1> HIDE DEF repaired, confirm
<1>8. QED
  BY <1>2, <1>5, <1>6, <1>7, OneRun

LEMMA CountStep == CountInv /\ [DemoNext]_demoVars => CountInv'
<1> SUFFICES ASSUME CountInv, [DemoNext]_demoVars
             PROVE  CountInv'
  OBVIOUS
<1>1. CASE UNCHANGED demoVars
  BY <1>1 DEF demoVars, CountInv
<1>2. ASSUME NEW r \in Runs, Assign(r)
      PROVE  CountInv'
  <2>1. PICK source, fault :
          run' = [run EXCEPT ![r].source = source, ![r].fault = fault,
                             ![r].node = Node("persona", PM)]
    BY <1>2 DEF Assign
  <2> DEFINE next == [run[r] EXCEPT !.source = source, !.fault = fault,
                                    !.node = Node("persona", PM)]
  <2>2. Counted(run[r]) /\ run[r].node.kind = "new"
    BY <1>2 DEF CountInv, Assign, At
  <2>3. Counted(next)
    BY <2>2 DEF Counted, Fields, Node
  <2>4. run' = [run EXCEPT ![r] = next]
    BY <2>1 DEF CountInv
  <2> HIDE DEF next
  <2>5. QED
    BY <2>3, <2>4, OneRun
<1>3. ASSUME NEW r \in Runs, GateRejects(r)
      PROVE  CountInv'
  <2>1. Counted(run[r]) /\ run[r].node.kind = "gate"
    BY <1>3 DEF CountInv, GateRejects, At
  <2>2. PICK outcome : run' = [run EXCEPT ![r] = Concluded(r, run[r], outcome)]
    BY <1>3 DEF GateRejects
  <2>3. Counted(Concluded(r, run[r], outcome))
    BY <2>1, ConcludedCounted DEF Counted
  <2>4. QED
    BY <2>2, <2>3, OneRun
<1>4. ASSUME NEW r \in Runs, CallRaises(r)
      PROVE  CountInv'
  <2> DEFINE next == [run[r] EXCEPT !.node.kind = "failed", !.records = 0,
                                    !.tries = 0, !.first = NoOutput]
  <2>1. Counted(run[r]) /\ run[r].node.kind \in {"persona", "gate", "confirm"}
    BY <1>4 DEF CountInv, CallRaises
  <2>2. run' = [run EXCEPT ![r] = next]
    BY <1>4 DEF CallRaises, CountInv
  <2>3. /\ DOMAIN next = Fields /\ next.node.kind = "failed" /\ "kind" \in DOMAIN next.node
        /\ next.records = 0 /\ next.tries = 0
        /\ next.answered = run[r].answered /\ next.audited = run[r].audited
    BY <2>1 DEF Counted, Fields
  <2>4. run[r].records \in 0..2 * Repairs + 1
    BY <2>1, DemoAssumption DEF Counted
  <2>5. Counted(next)
    BY <2>1, <2>3, <2>4, DemoAssumption DEF Counted
  <2> HIDE DEF next
  <2>6. QED
    BY <2>2, <2>5, OneRun
<1>5. QED
  BY <1>1, <1>2, <1>3, <1>4, PersonaCounted, JudgeCounted DEF DemoNext

\* No answered call is missing from the audit log and the open node's records,
\* but those of a node that raised, at most two structured calls' (record_calls,
\* gate_node, _call_structured).
THEOREM CallsSafety == DemoSpec => []AnsweredCallsAudited
<1>1. CountInv => AnsweredCallsAudited
  BY DemoAssumption DEF CountInv, Counted, AnsweredCallsAudited, At
<1>2. QED
  BY <1>1, CountInit, CountStep, PTL DEF DemoSpec

------------------------------------------------------------------------------
(* What a run delivers.                                                    *)

\* The settings the gates' hold on defects depends on, which the shipped ones meet
\* (config.py Settings, GatePolicy): the checks run first, then the cheap judge, a
\* stage has two retries, the first of which a critical flag may take, and a mean of
\* 2.40 is too low for a second opinion.
Guarded ==
  /\ Pregate /\ TieredEvaluator /\ ~AllTier2 /\ FastTrack
  /\ MaxRetries >= 2 /\ BorderlineLow > 240

Kinds   == {"new", "persona", "gate", "confirm", "complete", "blocked", "failed"}
Entries == [outcome : GateOutcome, stage : Gated, attempt : Nat]

\* The parts of a run that hold no response.
StateOK(state) ==
  /\ DOMAIN state = Fields
  /\ DOMAIN state.node = {"kind", "stage"}
  /\ state.node.kind \in Kinds /\ state.node.stage \in PM..QA
  /\ state.node.kind \in {"gate", "confirm", "blocked"} => state.node.stage \in Gated
  /\ state.node.kind = "complete" => state.node.stage = QA
  /\ state.node.kind = "new" => state = NotStarted
  /\ state.node.kind # "new" => state.source \in Sources /\ state.fault \in Faults(state.source)
  /\ DOMAIN state.artifacts = PM..QA
  /\ state.retries \in [Gated -> Nat] /\ state.critical_used \in [Gated -> BOOLEAN]
  /\ state.evaluations \in Seq(Entries)
  /\ state.tries \in Nat

\* The criteria of a source's requirements, and its test plan.
Stories(source) ==
  CASE source = "simulator"        -> {<<2, 3, 2, 2>>}
    [] source = "leave-management" -> {<<2, 2, 1, 1>>, <<3, 3, 2, 2, 2>>}
    [] source = "fraud-mainframe"  -> {<<3, 3, 2, 2>>}

PlanOf(source) ==
  CASE source = "simulator"        -> TemplatePlan
    [] source = "leave-management" -> LeaveManagement(<<"persona", QA, 0>>)[1]
    [] source = "fraud-mainframe"  -> FraudMainframe(<<"persona", QA, 0>>)[1]

\* What is known of a source's artifact.
Expected(source, s, artifact) ==
  /\ s = BA => artifact.criteria \in Stories(source)
  /\ s = Architect =>
       (artifact.presumes => source = "fraud-mainframe" /\ artifact = FlawedDesign)
  /\ s = QA => /\ artifact.covered = PlanOf(source).covered
               /\ artifact.untestable = PlanOf(source).untestable

Underway(state) == state.node.kind \in {"persona", "gate", "confirm"}

Behind(state) == {t \in PM..QA : t < state.node.stage \/ state.node.kind = "complete"}

SoundAt(state, t) ==
  /\ state.artifacts[t] # Nothing /\ Expected(state.source, t, state.artifacts[t])
  /\ t \in Gated => blocking(FindingsOf(state.artifacts, t)) = {}

\* What a run has moved past is sound, and a judge is only shown what passed the
\* checks. The report of the tests is of the code that was delivered.
PassedInv(state) ==
  LET s == state.node.stage
      kind == state.node.kind
  IN  /\ Underway(state) \/ kind = "complete" =>
           /\ \A t \in Behind(state) : SoundAt(state, t)
           /\ Architect \in Behind(state) /\ state.artifacts[Architect].presumes =>
                state.fault.item = FlawedDesign
      /\ kind \in {"gate", "confirm"} /\ ~state.invalid =>
           state.artifacts[s] # Nothing /\ Expected(state.source, s, state.artifacts[s])
      /\ kind = "confirm" => ~state.invalid /\ blocking(FindingsOf(state.artifacts, s)) = {}
      /\ kind = "persona" /\ s = QA /\ state.tries > 0 =>
           state.measured.syntax_errors = state.artifacts[Dev].broken
      /\ kind = "complete" =>
           state.artifacts[QA].execution.syntax_errors = state.artifacts[Dev].broken

\* The script's flawed first design, or an injected one, meets the judge's first
\* answer, which is critical and finds a fast track to be had; so it is not passed
\* and not confirmed. Only a second flawed design meets the second answer. `drawn`
\* and `judged` count the designs and the judge's answers used so far.
FlawInv(state, drawn, judged) ==
  LET kind   == state.node.kind
      n      == state.retries[Architect]
      flawed == state.fault.item = FlawedDesign
      fresh  == judged = 0 /\ ~state.critical_used[Architect]
  IN  /\ kind = "new" => drawn = 0 /\ judged = 0
      /\ Underway(state) /\ state.source = "fraud-mainframe" =>
        /\ state.node.stage < Architect => drawn = 0 /\ n = 0 /\ fresh
        /\ state.node.stage = Architect =>
             /\ kind = "persona" /\ (IF flawed THEN n = 0 ELSE drawn = 0) => fresh /\ n <= 1
             /\ kind = "gate" /\ ~flawed /\ drawn = 0 =>
                  /\ fresh /\ n = 0
                  /\ ~state.invalid => state.artifacts[Architect] = UnmitigatedDesign
             /\ kind = "gate" /\ flawed /\ state.fault.item # Garbage /\ n = 0 => fresh
             /\ kind = "gate" /\ ~state.invalid /\ ~flawed
                  /\ state.artifacts[Architect] = FlawedDesign => fresh /\ n <= 1
             /\ kind = "confirm" /\ ~flawed =>
                  drawn > 0 /\ state.artifacts[Architect] # FlawedDesign

\* Injected content reaches the gate of its stage's first attempt, which sends it
\* back.
InjectedInv(state) ==
  state.node.kind # "new" /\ state.fault.item # Garbage =>
    /\ state.node.stage = state.fault.purpose[2] /\ state.retries[state.node.stage] = 0 =>
         /\ state.node.kind = "gate" =>
              ~state.invalid /\ state.artifacts[state.node.stage] = state.fault.item
         /\ state.node.kind # "confirm"
    /\ \A i \in 1..Len(state.evaluations) :
         LET e == state.evaluations[i]
         IN  e.stage = state.fault.purpose[2] /\ e.attempt = 1 => e.outcome.verdict = "retry"

Designs == <<"persona", Architect, 0>>
Reviews == <<"judge", Architect, 1>>

DeliveryInv ==
  /\ DOMAIN run = Runs /\ cursor \in [Runs \X Purposes -> Nat]
  /\ \A r \in Runs :
       /\ StateOK(run[r]) /\ PassedInv(run[r]) /\ InjectedInv(run[r])
       /\ FlawInv(run[r], cursor[<<r, Designs>>], cursor[<<r, Reviews>>])

\* The scripts, stage by stage (demo/library.py and its fixtures).
LEMMA LeaveManagementScript ==
  /\ LeaveManagement(<<"persona", PM, 0>>) = <<CuratedBrief(3)>>
  /\ LeaveManagement(<<"persona", BA, 0>>) =
       <<[criteria |-> <<2, 2, 1, 1>>, trace |-> <<{0}, {1}, {0, 2}, {3}>>, questions |-> 1],
         [criteria |-> <<3, 3, 2, 2, 2>>, trace |-> <<{0}, {1}, {0, 2}, {2}, {3}>>,
          questions |-> 5]>>
  /\ LeaveManagement(<<"persona", Architect, 0>>) = <<SoundDesign(3, 3)>>
  /\ LeaveManagement(<<"persona", Dev, 0>>) = <<Slice(5)>>
  /\ LeaveManagement(<<"persona", QA, 0>>) =
       <<Plan(Criteria(1, 3) \union Criteria(2, 3) \union {<<3, 1>>, <<5, 1>>},
              {<<3, 2>>, <<5, 2>>} \union Criteria(4, 2))>>
<1>1. LeaveManagement(<<"persona", PM, 0>>) = <<CuratedBrief(3)>>
  BY DEF LeaveManagement, PM, BA, Architect, Dev, QA
<1>2. LeaveManagement(<<"persona", BA, 0>>) =
       <<[criteria |-> <<2, 2, 1, 1>>, trace |-> <<{0}, {1}, {0, 2}, {3}>>, questions |-> 1],
         [criteria |-> <<3, 3, 2, 2, 2>>, trace |-> <<{0}, {1}, {0, 2}, {2}, {3}>>,
          questions |-> 5]>>
  BY DEF LeaveManagement, PM, BA, Architect, Dev, QA
<1>3. LeaveManagement(<<"persona", Architect, 0>>) = <<SoundDesign(3, 3)>>
  BY DEF LeaveManagement, PM, BA, Architect, Dev, QA
<1>4. LeaveManagement(<<"persona", Dev, 0>>) = <<Slice(5)>>
  BY DEF LeaveManagement, PM, BA, Architect, Dev, QA
<1>5. LeaveManagement(<<"persona", QA, 0>>) =
       <<Plan(Criteria(1, 3) \union Criteria(2, 3) \union {<<3, 1>>, <<5, 1>>},
              {<<3, 2>>, <<5, 2>>} \union Criteria(4, 2))>>
  BY DEF LeaveManagement, PM, BA, Architect, Dev, QA
<1>6. QED
  BY <1>1, <1>2, <1>3, <1>4, <1>5

LEMMA FraudMainframeScript ==
  /\ FraudMainframe(<<"persona", PM, 0>>) = <<CuratedBrief(6)>>
  /\ FraudMainframe(<<"persona", BA, 0>>) =
       <<[criteria |-> <<3, 3, 2, 2>>, trace |-> <<{0, 3}, {1}, {2}, {1}>>, questions |-> 4]>>
  /\ FraudMainframe(<<"persona", Architect, 0>>) = <<FlawedDesign, SoundDesign(3, 3)>>
  /\ FraudMainframe(<<"persona", Dev, 0>>) = <<Slice(4)>>
  /\ FraudMainframe(<<"persona", QA, 0>>) =
       <<Plan(Criteria(1, 3) \union Criteria(2, 2),
              {<<2, 3>>} \union Criteria(3, 2) \union Criteria(4, 2))>>
  /\ FraudMainframe(<<"judge", Architect, 1>>) = <<<<3, 1, 1, 4, 3>>, <<5, 4, 5, 4, 4>>>>
<1>1. FraudMainframe(<<"persona", PM, 0>>) = <<CuratedBrief(6)>>
  BY DEF FraudMainframe, PM, BA, Architect, Dev, QA
<1>2. FraudMainframe(<<"persona", BA, 0>>) =
        <<[criteria |-> <<3, 3, 2, 2>>, trace |-> <<{0, 3}, {1}, {2}, {1}>>, questions |-> 4]>>
  BY DEF FraudMainframe, PM, BA, Architect, Dev, QA
<1>3. FraudMainframe(<<"persona", Architect, 0>>) = <<FlawedDesign, SoundDesign(3, 3)>>
  BY DEF FraudMainframe, PM, BA, Architect, Dev, QA
<1>4. FraudMainframe(<<"persona", Dev, 0>>) = <<Slice(4)>>
  BY DEF FraudMainframe, PM, BA, Architect, Dev, QA
<1>5. FraudMainframe(<<"persona", QA, 0>>) =
        <<Plan(Criteria(1, 3) \union Criteria(2, 2),
               {<<2, 3>>} \union Criteria(3, 2) \union Criteria(4, 2))>>
  BY DEF FraudMainframe, PM, BA, Architect, Dev, QA
<1>6. FraudMainframe(<<"judge", Architect, 1>>) = <<<<3, 1, 1, 4, 3>>, <<5, 4, 5, 4, 4>>>>
  BY DEF FraudMainframe, PM, BA, Architect, Dev, QA
<1>7. QED
  BY <1>1, <1>2, <1>3, <1>4, <1>5, <1>6

\* The response a script has come to; its last one is repeated.
Drawn(responses, i) == responses[IF i > Len(responses) THEN Len(responses) ELSE i]

LEMMA DrawnFacts ==
  ASSUME NEW i \in Nat, i >= 1
  PROVE  /\ \A x : Drawn(<<x>>, i) = x
         /\ \A x, y : Drawn(<<x, y>>, i) = IF i = 1 THEN x ELSE y
<1>1. ASSUME NEW x
      PROVE  Drawn(<<x>>, i) = x
  <2>1. Len(<<x>>) = 1 /\ <<x>>[1] = x
    OBVIOUS
  <2>2. QED
    BY <2>1 DEF Drawn
<1>2. ASSUME NEW x, NEW y
      PROVE  Drawn(<<x, y>>, i) = IF i = 1 THEN x ELSE y
  <2>1. Len(<<x, y>>) = 2 /\ <<x, y>>[1] = x /\ <<x, y>>[2] = y
    OBVIOUS
  <2>2. QED
    BY <2>1 DEF Drawn
<1>3. QED
  BY <1>1, <1>2

\* Artifacts are none of them "nothing".
LEMMA SomeArtifact ==
  /\ \A goals, metrics, vague, constraints, out :
       [goals |-> goals, metrics |-> metrics, vague |-> vague, constraints |-> constraints,
        out_of_scope |-> out] # Nothing
  /\ \A criteria, trace, questions :
       [criteria |-> criteria, trace |-> trace, questions |-> questions] # Nothing
  /\ \A risks, adrs : SoundDesign(risks, adrs) # Nothing
  /\ FlawedDesign # Nothing /\ UnmitigatedDesign # Nothing
  /\ \A stories : Slice(stories) # Nothing /\ [Slice(stories) EXCEPT !.broken = TRUE] # Nothing
  /\ \A covered, untestable, report :
       [covered |-> covered, untestable |-> untestable, execution |-> report] # Nothing
<1>1. \A goals, metrics, vague, constraints, out :
        [goals |-> goals, metrics |-> metrics, vague |-> vague, constraints |-> constraints,
         out_of_scope |-> out] # Nothing
  BY DEF Nothing
<1>2. \A criteria, trace, questions :
        [criteria |-> criteria, trace |-> trace, questions |-> questions] # Nothing
  BY DEF Nothing
<1>3. /\ \A risks, adrs : SoundDesign(risks, adrs) # Nothing
      /\ FlawedDesign # Nothing /\ UnmitigatedDesign # Nothing
  BY DEF Nothing, SoundDesign, FlawedDesign, UnmitigatedDesign
<1>4. \A stories : Slice(stories) # Nothing /\ [Slice(stories) EXCEPT !.broken = TRUE] # Nothing
  BY DEF Nothing, Slice
<1>5. \A covered, untestable, report :
        [covered |-> covered, untestable |-> untestable, execution |-> report] # Nothing
  BY DEF Nothing
<1>6. QED
  BY <1>1, <1>2, <1>3, <1>4, <1>5

LEMMA ScriptExpected ==
  ASSUME NEW source \in {"leave-management", "fraud-mainframe"}, NEW s \in PM..QA,
         NEW i \in Nat, i >= 1
  PROVE  LET x == Drawn(Script(source, <<"persona", s, 0>>), i)
         IN  /\ Expected(source, s, x)
             /\ s # QA => x # Nothing
             /\ source = "fraud-mainframe" /\ s = Architect =>
                  x = IF i = 1 THEN FlawedDesign ELSE SoundDesign(3, 3)
<1> DEFINE x == Drawn(Script(source, <<"persona", s, 0>>), i)
<1>1. CASE s = PM
  <2>1. x = CuratedBrief(3) \/ x = CuratedBrief(6)
    BY <1>1, LeaveManagementScript, FraudMainframeScript, DrawnFacts DEF Script
  <2> HIDE DEF x
  <2>2. x # Nothing
    BY <2>1, SomeArtifact DEF CuratedBrief
  <2>3. QED
    BY <1>1, <2>2 DEF Expected, PM, BA, Architect, QA, x
<1>2. CASE s = BA
  <2>1. /\ source = "leave-management" =>
             \/ x = [criteria |-> <<2, 2, 1, 1>>, trace |-> <<{0}, {1}, {0, 2}, {3}>>, questions |-> 1]
             \/ x = [criteria |-> <<3, 3, 2, 2, 2>>, trace |-> <<{0}, {1}, {0, 2}, {2}, {3}>>,
                     questions |-> 5]
        /\ source = "fraud-mainframe" =>
             x = [criteria |-> <<3, 3, 2, 2>>, trace |-> <<{0, 3}, {1}, {2}, {1}>>, questions |-> 4]
    BY <1>2, LeaveManagementScript, FraudMainframeScript, DrawnFacts DEF Script
  <2> HIDE DEF x
  <2>2. x # Nothing /\ x.criteria \in Stories(source)
    BY <2>1, SomeArtifact DEF Stories
  <2>3. QED
    BY <1>2, <2>2 DEF Expected, PM, BA, Architect, QA, x
<1>3. CASE s = Architect
  <2>1. /\ source = "leave-management" => x = SoundDesign(3, 3)
        /\ source = "fraud-mainframe" => x = IF i = 1 THEN FlawedDesign ELSE SoundDesign(3, 3)
    BY <1>3, LeaveManagementScript, FraudMainframeScript, DrawnFacts DEF Script
  <2>2. SoundDesign(3, 3).presumes = FALSE
    BY DEF SoundDesign
  <2> HIDE DEF x
  <2>3. x # Nothing /\ (x.presumes => source = "fraud-mainframe" /\ x = FlawedDesign)
    BY <2>1, <2>2, SomeArtifact
  <2>4. QED
    BY <1>3, <2>1, <2>3 DEF Expected, PM, BA, Architect, QA, x
<1>4. CASE s = Dev
  <2>1. x = Slice(5) \/ x = Slice(4)
    BY <1>4, LeaveManagementScript, FraudMainframeScript, DrawnFacts DEF Script
  <2> HIDE DEF x
  <2>2. x # Nothing
    BY <2>1, SomeArtifact
  <2>3. QED
    BY <1>4, <2>2 DEF Expected, Architect, Dev, BA, QA, x
<1>5. CASE s = QA
  <2>1. x = PlanOf(source)
    <3>1. source = "leave-management" => x = LeaveManagement(<<"persona", QA, 0>>)[1]
      BY <1>5, LeaveManagementScript, DrawnFacts DEF Script
    <3>2. source = "fraud-mainframe" => x = FraudMainframe(<<"persona", QA, 0>>)[1]
      BY <1>5, FraudMainframeScript, DrawnFacts DEF Script
    <3>3. QED
      BY <3>1, <3>2 DEF PlanOf
  <2>2. QED
    BY <1>5, <2>1 DEF Expected, Architect, BA, QA
<1>6. QED
  BY <1>1, <1>2, <1>3, <1>4, <1>5 DEF PM, BA, Architect, Dev, QA

LEMMA TemplateExpected ==
  ASSUME NEW s \in PM..QA, NEW n \in Nat
  PROVE  /\ Expected("simulator", s, Template(s, n))
         /\ s # QA => Template(s, n) # Nothing
<1>1. CASE s = PM
  BY <1>1, SomeArtifact DEF Template, TemplateBrief, Expected, PM, BA, Architect, Dev, QA
<1>2. CASE s = BA
  <2>1. Template(s, n) = TemplateRequirements
    BY <1>2 DEF Template, PM, BA, Architect, Dev, QA
  <2>2. TemplateRequirements # Nothing /\ TemplateRequirements.criteria \in Stories("simulator")
    BY SomeArtifact DEF TemplateRequirements, Stories
  <2>3. QED
    BY <1>2, <2>1, <2>2 DEF Expected, PM, BA, Architect, Dev, QA
<1>3. CASE s = Architect
  <2>1. Template(s, n) = SoundDesign(2, 2)
    BY <1>3 DEF Template, PM, BA, Architect, Dev, QA
  <2>2. SoundDesign(2, 2) # Nothing /\ SoundDesign(2, 2).presumes = FALSE
    BY SomeArtifact DEF SoundDesign
  <2>3. QED
    BY <1>3, <2>1, <2>2 DEF Expected, PM, BA, Architect, Dev, QA
<1>4. CASE s = Dev
  <2>1. Template(s, n) = Slice(4)
    BY <1>4 DEF Template, PM, BA, Architect, Dev, QA
  <2>2. QED
    BY <1>4, <2>1, SomeArtifact DEF Expected, PM, BA, Architect, Dev, QA
<1>5. CASE s = QA
  <2>1. Template(s, n) = TemplatePlan /\ PlanOf("simulator") = TemplatePlan
    BY <1>5 DEF Template, PlanOf, PM, BA, Architect, Dev, QA
  <2>2. QED
    BY <1>5, <2>1 DEF Expected, PM, BA, Architect, Dev, QA
<1>6. QED
  BY <1>1, <1>2, <1>3, <1>4, <1>5 DEF PM, BA, Architect, Dev, QA

\* Every criterion of a source's requirements is in its test plan.
LEMMA PlanCovers ==
  ASSUME NEW source \in Sources, NEW plan, NEW req,
         Expected(source, QA, plan), Expected(source, BA, req)
  PROVE  uncovered_acceptance_criteria(plan, req) = {}
<1>1. /\ req.criteria \in Stories(source)
      /\ plan.covered = PlanOf(source).covered /\ plan.untestable = PlanOf(source).untestable
  BY DEF Expected, BA, QA
<1>2. \A s, n : <<s, n>> \in plan.covered \union plan.untestable <=>
                  <<s, n>> \in PlanOf(source).covered \union PlanOf(source).untestable
  BY <1>1
<1>3. ASSUME NEW s \in DOMAIN req.criteria, NEW n \in 1..req.criteria[s]
      PROVE  <<s, n>> \in PlanOf(source).covered \union PlanOf(source).untestable
  <2>1. CASE source = "simulator"
    <3>1. /\ PlanOf(source).covered = {<<1, 1>>, <<1, 2>>, <<2, 1>>, <<2, 2>>, <<2, 3>>, <<4, 1>>}
          /\ PlanOf(source).untestable = {<<3, 1>>, <<3, 2>>, <<4, 2>>}
      BY <2>1 DEF PlanOf, TemplatePlan, Plan
    <3>2. req.criteria = <<2, 3, 2, 2>>
      BY <1>1, <2>1 DEF Stories
    <3>3. s \in 1..4 /\ n \in 1..<<2, 3, 2, 2>>[s]
      BY <3>2
    <3>4. QED
      BY <3>1, <3>3
  <2>2. CASE source = "fraud-mainframe"
    <3>1. /\ PlanOf(source).covered = Criteria(1, 3) \union Criteria(2, 2)
          /\ PlanOf(source).untestable = {<<2, 3>>} \union Criteria(3, 2) \union Criteria(4, 2)
      <4>1. PlanOf(source) = Plan(Criteria(1, 3) \union Criteria(2, 2),
                                  {<<2, 3>>} \union Criteria(3, 2) \union Criteria(4, 2))
        BY <2>2, FraudMainframeScript DEF PlanOf
      <4>2. QED
        BY <4>1 DEF Plan
    <3>2. req.criteria = <<3, 3, 2, 2>>
      BY <1>1, <2>2 DEF Stories
    <3>3. s \in 1..4 /\ n \in 1..<<3, 3, 2, 2>>[s]
      BY <3>2
    <3>4. QED
      BY <3>1, <3>3 DEF Criteria
  <2>3. CASE source = "leave-management"
    <3>1. /\ PlanOf(source).covered =
               Criteria(1, 3) \union Criteria(2, 3) \union {<<3, 1>>, <<5, 1>>}
          /\ PlanOf(source).untestable = {<<3, 2>>, <<5, 2>>} \union Criteria(4, 2)
      <4>1. PlanOf(source) =
              Plan(Criteria(1, 3) \union Criteria(2, 3) \union {<<3, 1>>, <<5, 1>>},
                   {<<3, 2>>, <<5, 2>>} \union Criteria(4, 2))
        BY <2>3, LeaveManagementScript DEF PlanOf
      <4>2. QED
        BY <4>1 DEF Plan
    <3>2. req.criteria = <<2, 2, 1, 1>> \/ req.criteria = <<3, 3, 2, 2, 2>>
      BY <1>1, <2>3 DEF Stories
    <3>3. \/ s \in 1..4 /\ n \in 1..<<2, 2, 1, 1>>[s]
          \/ s \in 1..5 /\ n \in 1..<<3, 3, 2, 2, 2>>[s]
      BY <3>2
    <3>4. QED
      BY <3>1, <3>3 DEF Criteria
  <2>4. QED
    BY <2>1, <2>2, <2>3 DEF Sources
<1>4. \A c \in acceptance_criterion_ids(req) : c \in plan.covered \union plan.untestable
  BY <1>2, <1>3 DEF acceptance_criterion_ids
<1>5. QED
  BY <1>4 DEF uncovered_acceptance_criteria

\* What a call finds its answer in.
LEMMA PersonaPurpose ==
  ASSUME NEW s \in PM..QA
  PROVE  <<"persona", s, 0>> \in Purposes /\ <<"persona", s, 0>> # <<"none", 0, 0>>
BY DEF Purposes, Personas

\* An injected item is garbage, or a design or code of the fraud example.
LEMMA FaultFacts ==
  ASSUME NEW source \in Sources, NEW fault \in Faults(source)
  PROVE  /\ fault = NoFault \/ fault.attempt = 1
         /\ fault.item # Garbage =>
              /\ source = "fraud-mainframe" /\ fault.attempt = 1
              /\ \/ /\ fault.purpose = <<"persona", Architect, 0>>
                    /\ fault.item \in {FlawedDesign, UnmitigatedDesign}
                 \/ /\ fault.purpose = <<"persona", Dev, 0>>
                    /\ fault.item = [Slice(4) EXCEPT !.broken = TRUE]
<1> DEFINE broken == [Slice(4) EXCEPT !.broken = TRUE]
           garbage == [purpose : Purposes, attempt : {1}, item : {Garbage}]
           designs == [purpose : {<<"persona", Architect, 0>>}, attempt : {1},
                       item : {FlawedDesign, UnmitigatedDesign}]
           codes   == [purpose : {<<"persona", Dev, 0>>}, attempt : {1}, item : {broken}]
<1>1. \/ fault = NoFault \/ fault \in garbage
      \/ source = "fraud-mainframe" /\ (fault \in designs \/ fault \in codes)
  BY DEF Faults
<1>2. fault = NoFault => fault.item = Garbage
  BY DEF NoFault
<1>3. fault \in garbage => fault.attempt = 1 /\ fault.item = Garbage
  OBVIOUS
<1> HIDE DEF broken
<1>4. fault \in designs =>
        /\ fault.attempt = 1 /\ fault.purpose = <<"persona", Architect, 0>>
        /\ fault.item \in {FlawedDesign, UnmitigatedDesign}
  OBVIOUS
<1>5. fault \in codes =>
        /\ fault.attempt = 1 /\ fault.purpose = <<"persona", Dev, 0>> /\ fault.item = broken
  OBVIOUS
<1>6. QED
  BY <1>1, <1>2, <1>3, <1>4, <1>5 DEF broken

LEMMA ItemExpected ==
  /\ Expected("fraud-mainframe", Architect, FlawedDesign)
  /\ Expected("fraud-mainframe", Architect, UnmitigatedDesign)
  /\ Expected("fraud-mainframe", Dev, [Slice(4) EXCEPT !.broken = TRUE])
  /\ UnmitigatedDesign # FlawedDesign /\ SoundDesign(3, 3) # FlawedDesign
  /\ SoundDesign(3, 3) # UnmitigatedDesign
  /\ [Slice(4) EXCEPT !.broken = TRUE] # FlawedDesign
<1>1. /\ UnmitigatedDesign.presumes = FALSE /\ SoundDesign(3, 3).presumes = FALSE
      /\ FlawedDesign.presumes = TRUE /\ UnmitigatedDesign.unmitigated = 2
      /\ SoundDesign(3, 3).unmitigated = 0
  BY DEF UnmitigatedDesign, SoundDesign, FlawedDesign
<1>2. UnmitigatedDesign # FlawedDesign /\ SoundDesign(3, 3) # FlawedDesign
      /\ SoundDesign(3, 3) # UnmitigatedDesign
  BY <1>1
<1>3. [Slice(4) EXCEPT !.broken = TRUE] # FlawedDesign
  BY DEF Slice, FlawedDesign
<1>4. QED
  BY <1>1, <1>2, <1>3 DEF Expected, BA, Architect, Dev, QA

\* The checks block the unmitigated design and the code that does not parse.
LEMMA ItemBlocked ==
  ASSUME NEW artifacts
  PROVE  /\ artifacts[Architect] = UnmitigatedDesign =>
              blocking(FindingsOf(artifacts, Architect)) # {}
         /\ artifacts[Dev] = [Slice(4) EXCEPT !.broken = TRUE] =>
              blocking(FindingsOf(artifacts, Dev)) # {}
<1>1. ASSUME artifacts[Architect] = UnmitigatedDesign
      PROVE  blocking(FindingsOf(artifacts, Architect)) # {}
  <2>1. FindingsOf(artifacts, Architect) = check_design(UnmitigatedDesign)
    BY <1>1 DEF FindingsOf, PM, BA, Architect, Dev
  <2>2. UnmitigatedDesign.unmitigated = 2
    BY DEF UnmitigatedDesign, SoundDesign
  <2>3. Finding("blocking", "no_mitigation", 1) \in check_design(UnmitigatedDesign)
    BY <2>2 DEF check_design, Blocking
  <2>4. QED
    BY <2>1, <2>3 DEF blocking, Finding
<1>2. ASSUME artifacts[Dev] = [Slice(4) EXCEPT !.broken = TRUE]
      PROVE  blocking(FindingsOf(artifacts, Dev)) # {}
  <2>1. FindingsOf(artifacts, Dev) = check_implementation(artifacts[Dev], artifacts[BA])
    BY DEF FindingsOf, PM, BA, Architect, Dev
  <2>2. artifacts[Dev].broken
    BY <1>2 DEF Slice
  <2>3. Finding("blocking", "syntax", 0) \in check_implementation(artifacts[Dev], artifacts[BA])
    BY <2>2 DEF check_implementation, Blocking
  <2>4. QED
    BY <2>1, <2>3 DEF blocking, Finding
<1>3. QED
  BY <1>1, <1>2

LEMMA StageNumbers ==
  PM = 1 /\ BA = 2 /\ Architect = 3 /\ Dev = 4 /\ QA = 5 /\ Gated = 1..4
BY DEF PM, BA, Architect, Dev, QA, Gated

LEMMA DesignCalls == Designs \in Purposes /\ Reviews \in Purposes /\ Designs # Reviews
BY DEF Designs, Reviews, Purposes, Personas, JudgeCalls, PM, Architect, Dev, QA

\* A step of one run leaves what is known of the others alone, their cursors too.
LEMMA OneRunDelivers ==
  ASSUME DeliveryInv, NEW r \in Runs, NEW next, run' = [run EXCEPT ![r] = next],
         NEW purpose \in Purposes,
         cursor' = cursor \/ cursor' = [cursor EXCEPT ![<<r, purpose>>] = @ + 1],
         StateOK(next), PassedInv(next), InjectedInv(next),
         FlawInv(next, cursor'[<<r, Designs>>], cursor'[<<r, Reviews>>])
  PROVE  DeliveryInv'
<1>1. DOMAIN run' = Runs /\ run'[r] = next /\ \A q \in Runs \ {r} : run'[q] = run[q]
  BY DEF DeliveryInv
<1>2. /\ cursor' \in [Runs \X Purposes -> Nat]
      /\ \A q \in Runs \ {r}, p \in Purposes : cursor'[<<q, p>>] = cursor[<<q, p>>]
  <2>1. cursor \in [Runs \X Purposes -> Nat] /\ <<r, purpose>> \in Runs \X Purposes
    BY DEF DeliveryInv
  <2>2. \A q \in Runs \ {r}, p \in Purposes :
          <<q, p>> # <<r, purpose>> /\ <<q, p>> \in Runs \X Purposes
    OBVIOUS
  <2>3. CASE cursor' = cursor
    BY <2>1, <2>3
  <2>4. CASE cursor' = [cursor EXCEPT ![<<r, purpose>>] = @ + 1]
    <3>1. cursor[<<r, purpose>>] + 1 \in Nat
      BY <2>1
    <3>2. QED
      BY <2>1, <2>2, <2>4, <3>1
  <2>5. QED
    BY <2>3, <2>4
<1>3. \A q \in Runs \ {r} :
        /\ StateOK(run'[q]) /\ PassedInv(run'[q]) /\ InjectedInv(run'[q])
        /\ FlawInv(run'[q], cursor'[<<q, Designs>>], cursor'[<<q, Reviews>>])
  BY <1>1, <1>2, DesignCalls DEF DeliveryInv
<1>4. QED
  BY <1>1, <1>2, <1>3 DEF DeliveryInv

LEMMA NewRun ==
  /\ StateOK(NotStarted) /\ PassedInv(NotStarted) /\ InjectedInv(NotStarted)
  /\ FlawInv(NotStarted, 0, 0)
<1>1. NotStarted.node.kind = "new" /\ NotStarted.node.stage = PM
  BY DEF NotStarted, Node
<1>2. StateOK(NotStarted)
  <2>1. DOMAIN NotStarted = Fields /\ DOMAIN NotStarted.node = {"kind", "stage"}
    BY DEF NotStarted, Node, Fields
  <2>2. /\ DOMAIN NotStarted.artifacts = PM..QA /\ NotStarted.evaluations = <<>>
        /\ NotStarted.retries \in [Gated -> Nat]
        /\ NotStarted.critical_used \in [Gated -> BOOLEAN] /\ NotStarted.tries \in Nat
    BY DEF NotStarted
  <2>3. NotStarted.evaluations \in Seq(Entries)
    BY <2>2
  <2>4. QED
    BY <1>1, <2>1, <2>2, <2>3, StageNumbers DEF StateOK, Kinds
<1>3. PassedInv(NotStarted) /\ InjectedInv(NotStarted)
      /\ FlawInv(NotStarted, 0, 0)
  BY <1>1 DEF PassedInv, InjectedInv, FlawInv, Underway
<1>4. QED
  BY <1>2, <1>3

LEMMA DeliveryInit == DemoInit => DeliveryInv
<1> SUFFICES ASSUME DemoInit PROVE DeliveryInv
  OBVIOUS
<1>1. \A r \in Runs : cursor[<<r, Designs>>] = 0 /\ cursor[<<r, Reviews>>] = 0
  BY DesignCalls DEF DemoInit
<1>2. QED
  BY <1>1, NewRun DEF DemoInit, DeliveryInv

LEMMA AssignDelivers ==
  ASSUME DeliveryInv, NEW r \in Runs, Assign(r)
  PROVE  DeliveryInv'
<1>1. PICK source \in Sources : \E fault \in Faults(source) :
        run' = [run EXCEPT ![r].source = source, ![r].fault = fault,
                           ![r].node = Node("persona", PM)]
  <2>1. \A source : NoFault \in Faults(source)
    BY DEF Faults
  <2>2. QED
    BY <2>1 DEF Assign
<1>2. PICK fault \in Faults(source) :
        run' = [run EXCEPT ![r].source = source, ![r].fault = fault,
                           ![r].node = Node("persona", PM)]
  BY <1>1
<1> DEFINE next == [run[r] EXCEPT !.source = source, !.fault = fault,
                                  !.node = Node("persona", PM)]
<1>3. run[r] = NotStarted /\ cursor' = cursor /\ DOMAIN run = Runs
  BY DEF Assign, At, DeliveryInv, StateOK
<1>4. run' = [run EXCEPT ![r] = next]
  BY <1>2, <1>3
<1>5. /\ DOMAIN next = Fields /\ next.source = source /\ next.fault = fault
      /\ next.node = Node("persona", PM) /\ next.tries = 0
      /\ \A f \in {"artifacts", "retries", "critical_used", "evaluations"} :
           next[f] = NotStarted[f]
  BY <1>3 DEF NotStarted, Fields
<1> HIDE DEF next
<1>6. /\ next.node.kind = "persona" /\ next.node.stage = 1
      /\ DOMAIN next.node = {"kind", "stage"}
  BY <1>5 DEF Node, PM
<1>7. StateOK(next)
  <2>1. /\ next.artifacts = NotStarted.artifacts /\ next.retries = NotStarted.retries
        /\ next.critical_used = NotStarted.critical_used
        /\ next.evaluations = NotStarted.evaluations
    BY <1>5
  <2>2. /\ DOMAIN next.artifacts = PM..QA /\ next.evaluations \in Seq(Entries)
        /\ next.retries \in [Gated -> Nat] /\ next.critical_used \in [Gated -> BOOLEAN]
    BY <2>1, NewRun DEF StateOK
  <2>3. QED
    BY <1>5, <1>6, <2>2, StageNumbers DEF StateOK, Kinds
<1>8. PassedInv(next)
  BY <1>5, <1>6, StageNumbers DEF PassedInv, Behind
<1>9. InjectedInv(next)
  <2>1. next.evaluations = <<>>
    BY <1>5 DEF NotStarted
  <2>2. Len(next.evaluations) = 0
    BY <2>1
  <2>3. QED
    BY <1>6, <2>2 DEF InjectedInv
<1>10. FlawInv(next, cursor'[<<r, Designs>>], cursor'[<<r, Reviews>>])
  <2>1. cursor[<<r, Designs>>] = 0 /\ cursor[<<r, Reviews>>] = 0
    <3>1. FlawInv(run[r], cursor[<<r, Designs>>], cursor[<<r, Reviews>>])
      BY DEF DeliveryInv
    <3>2. run[r].node.kind = "new"
      BY DEF Assign, At
    <3>3. QED
      BY <3>1, <3>2 DEF FlawInv
  <2>2. next.retries[3] = 0 /\ next.critical_used[3] = FALSE
    <3>1. next.retries = NotStarted.retries /\ next.critical_used = NotStarted.critical_used
      BY <1>5
    <3>2. QED
      BY <3>1, StageNumbers DEF NotStarted
  <2>3. QED
    BY <1>3, <1>6, <2>1, <2>2, StageNumbers DEF FlawInv
<1>11. QED
  BY <1>3, <1>4, <1>7, <1>8, <1>9, <1>10, DesignCalls, OneRunDelivers

\* What a persona is answered: an injected item, or the next one of its source.
LEMMA PersonaResponse ==
  ASSUME DeliveryInv, NEW r \in Runs, run[r].node.kind = "persona"
  PROVE  LET s == run[r].node.stage
             x == Response(r, <<"persona", s, 0>>)
         IN  /\ x # Garbage => Expected(run[r].source, s, x) /\ (s # QA => x # Nothing)
             /\ Injected(r, <<"persona", s, 0>>) => x = run[r].fault.item
             /\ run[r].source = "fraud-mainframe" /\ s = Architect
                  /\ ~Injected(r, <<"persona", s, 0>>) =>
                  x = IF cursor[<<r, Designs>>] = 0 THEN FlawedDesign ELSE SoundDesign(3, 3)
<1> DEFINE s       == run[r].node.stage
           purpose == <<"persona", s, 0>>
           x       == Response(r, purpose)
           source  == run[r].source
           fault   == run[r].fault
<1>1. StateOK(run[r]) /\ cursor \in [Runs \X Purposes -> Nat]
  BY DEF DeliveryInv
<1>2. s \in PM..QA /\ source \in Sources /\ fault \in Faults(source)
  BY <1>1 DEF StateOK
<1>3. purpose \in Purposes
  BY <1>2, PersonaPurpose
<1>4. cursor[<<r, purpose>>] \in Nat
  BY <1>1, <1>3
<1>5. CASE Injected(r, purpose)
  <2>1. x = fault.item /\ fault.purpose = purpose
    BY <1>5 DEF Response, Injected
  <2>2. ASSUME x # Garbage
        PROVE  Expected(source, s, x) /\ (s # QA => x # Nothing)
    <3>1. /\ source = "fraud-mainframe"
          /\ \/ /\ fault.purpose = <<"persona", Architect, 0>>
                /\ fault.item \in {FlawedDesign, UnmitigatedDesign}
             \/ /\ fault.purpose = <<"persona", Dev, 0>>
                /\ fault.item = [Slice(4) EXCEPT !.broken = TRUE]
      BY <1>2, <2>1, <2>2, FaultFacts
    <3>2. \/ s = Architect /\ x \in {FlawedDesign, UnmitigatedDesign}
          \/ s = Dev /\ x = [Slice(4) EXCEPT !.broken = TRUE]
      BY <2>1, <3>1
    <3> HIDE DEF x, s, source
    <3>3. QED
      BY <3>1, <3>2, ItemExpected, SomeArtifact, StageNumbers
  <2>3. QED
    BY <1>5, <2>1, <2>2
<1>6. CASE ~Injected(r, purpose) /\ source = "simulator"
  <2>1. x = Template(s, Attempt(r)) /\ Attempt(r) \in Nat
    <3>1. x = Template(Stage(r), Attempt(r))
      BY <1>6 DEF Response, Simulated
    <3>2. Attempt(r) \in Nat
      <4>1. s # QA => run[r].retries[s] \in Nat
        BY <1>1, <1>2, StageNumbers DEF StateOK
      <4>2. Attempt(r) = IF s = QA THEN 1 ELSE run[r].retries[s] + 1
        BY DEF Attempt, Stage
      <4> HIDE DEF s
      <4>3. QED
        BY <4>1, <4>2
    <3>3. QED
      BY <3>1, <3>2 DEF Stage
  <2> HIDE DEF x
  <2>2. QED
    BY <1>2, <1>6, <2>1, TemplateExpected DEF x
<1>7. CASE ~Injected(r, purpose) /\ source # "simulator"
  <2> DEFINE i == cursor[<<r, purpose>>] + 1
  <2>1. x = Drawn(Script(source, purpose), i) /\ i \in Nat /\ i >= 1
    BY <1>4, <1>7 DEF Response, Scripted, CursorKey, Drawn
  <2>2. source \in {"leave-management", "fraud-mainframe"}
    BY <1>2, <1>7 DEF Sources
  <2>3. i = 1 <=> cursor[<<r, purpose>>] = 0
    BY <1>4
  <2>4. s = Architect => purpose = Designs
    BY DEF Designs
  <2> HIDE DEF x, source, i
  <2>5. /\ Expected(source, s, x) /\ (s # QA => x # Nothing)
        /\ source = "fraud-mainframe" /\ s = Architect =>
             x = IF i = 1 THEN FlawedDesign ELSE SoundDesign(3, 3)
    BY <1>2, <2>1, <2>2, ScriptExpected
  <2>6. QED
    BY <1>7, <2>3, <2>4, <2>5 DEF x, source
<1>8. QED
  BY <1>5, <1>6, <1>7

\* What a node's checks find depends on the artifacts up to its own.
LEMMA FindingsLocal ==
  ASSUME NEW a, NEW b, NEW t \in Gated, \A u \in PM..QA : u <= t => a[u] = b[u]
  PROVE  FindingsOf(a, t) = FindingsOf(b, t)
<1>1. t \in {1, 2, 3, 4} /\ PM..QA = 1..5
  BY StageNumbers
<1>2. /\ a[1] = b[1] /\ (t >= 2 => a[2] = b[2]) /\ (t >= 3 => a[3] = b[3])
      /\ (t = 4 => a[4] = b[4])
  BY <1>1
<1>3. QED
  BY <1>1, <1>2 DEF FindingsOf, PM, BA, Architect, Dev

\* The fields a persona or a judge's open call leaves alone.
Kept(state, next) ==
  /\ DOMAIN next = Fields
  /\ \A f \in {"source", "fault", "retries", "critical_used", "evaluations"} :
       next[f] = state[f]

\* What a persona's call makes of a run: the repair is asked for, the node ends
\* without a valid output, or its artifact is put in the state.
PersonaUpdate(r, state, s, x, next) ==
  /\ Kept(state, next) /\ next.tries \in Nat
  /\ s = QA => IF state.tries = 0
               THEN next.measured.syntax_errors = state.artifacts[Dev].broken
               ELSE next.measured = state.measured
  /\ \/ /\ x = Garbage /\ next.node = state.node /\ next.invalid = state.invalid
        /\ next.artifacts = state.artifacts
     \/ /\ x = Garbage /\ next.node = PersonaWithout(r) /\ next.invalid = TRUE
        /\ next.artifacts = state.artifacts
     \/ /\ x # Garbage /\ next.node = AfterPersona(r) /\ next.invalid = FALSE
        /\ next.artifacts = [state.artifacts EXCEPT ![s] = Finalized(s, x, next.measured)]

LEMMA PersonaEffect ==
  ASSUME DeliveryInv, NEW r \in Runs, PersonaCall(r)
  PROVE  LET s     == run[r].node.stage
             x     == Response(r, <<"persona", s, 0>>)
             state == run[r]
         IN  \E next :
               run' = [run EXCEPT ![r] = next] /\ PersonaUpdate(r, state, s, x, next)
<1> DEFINE s     == run[r].node.stage
           x     == Response(r, <<"persona", s, 0>>)
           state == run[r]
           update(prepared) ==
             LET after == Answered(prepared)
             IN  IF Repairable(r, x) THEN [after EXCEPT !.tries = @ + 1]
                 ELSE IF x = Garbage
                 THEN [NodeEnds(after, PersonaWithout(r)) EXCEPT !.invalid = TRUE]
                 ELSE [NodeEnds(after, AfterPersona(r)) EXCEPT !.invalid = FALSE,
                         !.artifacts[s] = Finalized(s, x, prepared.measured)]
<1>1. PICK prepared \in Prepared(r) : run' = [run EXCEPT ![r] = update(prepared)]
  BY DEF PersonaCall, Stage
<1>2. DOMAIN state = Fields /\ state.tries \in Nat
  BY DEF DeliveryInv, StateOK
<1>3. /\ DOMAIN prepared = Fields
      /\ \A f \in Fields \ {"measured"} : prepared[f] = state[f]
      /\ s = QA => IF state.tries = 0
                   THEN prepared.measured.syntax_errors = state.artifacts[Dev].broken
                   ELSE prepared.measured = state.measured
  <2>1. CASE s = QA /\ state.tries = 0
    <3>1. PICK report \in Verify(state.artifacts[Dev]) :
            prepared = [state EXCEPT !.measured = report]
      BY <2>1 DEF Prepared, Stage
    <3>2. report.syntax_errors = state.artifacts[Dev].broken
      BY DEF Verify
    <3>3. QED
      BY <1>2, <2>1, <3>1, <3>2 DEF Fields
  <2>2. CASE ~(s = QA /\ state.tries = 0)
    <3>1. prepared = state
      BY <2>2 DEF Prepared, Stage
    <3>2. QED
      BY <1>2, <2>2, <3>1
  <2>3. QED
    BY <2>1, <2>2
<1> DEFINE after == Answered(prepared)
<1>4. /\ DOMAIN after = Fields /\ after.tries = state.tries
      /\ \A f \in {"source", "fault", "retries", "critical_used", "evaluations",
                   "node", "artifacts", "invalid"} : after[f] = state[f]
      /\ after.measured = prepared.measured
  BY <1>3 DEF Answered, Fields
<1> DEFINE next == update(prepared)
<1>5. run' = [run EXCEPT ![r] = next]
  BY <1>1
<1> HIDE DEF after
<1>6. CASE Repairable(r, x)
  <2>1. x = Garbage /\ next = [after EXCEPT !.tries = @ + 1]
    BY <1>6 DEF Repairable, after
  <2> HIDE DEF next, x
  <2>2. /\ DOMAIN next = Fields /\ next.tries = state.tries + 1
        /\ \A f \in {"source", "fault", "retries", "critical_used", "evaluations",
                     "node", "artifacts", "invalid"} : next[f] = state[f]
        /\ next.measured = prepared.measured
    BY <1>4, <2>1 DEF Fields
  <2> HIDE DEF s, state
  <2>3. PersonaUpdate(r, state, s, x, next)
    BY <1>2, <1>3, <2>1, <2>2 DEF Kept, PersonaUpdate
  <2>4. QED
    BY <1>5, <2>3 DEF x, s, state
<1>7. CASE ~Repairable(r, x) /\ x = Garbage
  <2>1. next = [NodeEnds(after, PersonaWithout(r)) EXCEPT !.invalid = TRUE]
    BY <1>7 DEF after
  <2> HIDE DEF next, x
  <2>2. /\ DOMAIN next = Fields /\ next.tries = 0 /\ next.node = PersonaWithout(r)
        /\ \A f \in {"source", "fault", "retries", "critical_used", "evaluations",
                     "artifacts"} : next[f] = state[f]
        /\ next.measured = prepared.measured /\ next.invalid = TRUE
    BY <1>4, <2>1 DEF Fields, NodeEnds
  <2> HIDE DEF s, state
  <2>3. PersonaUpdate(r, state, s, x, next)
    BY <1>3, <1>7, <2>2 DEF Kept, PersonaUpdate
  <2>4. QED
    BY <1>5, <2>3 DEF x, s, state
<1>8. CASE x # Garbage
  <2>1. next = [NodeEnds(after, AfterPersona(r)) EXCEPT !.invalid = FALSE,
                  !.artifacts[s] = Finalized(s, x, prepared.measured)]
    BY <1>8 DEF after, Repairable
  <2> HIDE DEF next, x
  <2>2. /\ DOMAIN next = Fields /\ next.tries = 0 /\ next.node = AfterPersona(r)
        /\ \A f \in {"source", "fault", "retries", "critical_used", "evaluations"} :
             next[f] = state[f]
        /\ next.artifacts = [state.artifacts EXCEPT ![s] = Finalized(s, x, prepared.measured)]
        /\ next.measured = prepared.measured /\ next.invalid = FALSE
    BY <1>4, <2>1 DEF Fields, NodeEnds
  <2> HIDE DEF s, state
  <2>3. PersonaUpdate(r, state, s, x, next)
    BY <1>3, <1>8, <2>2 DEF Kept, PersonaUpdate
  <2>4. QED
    BY <1>5, <2>3 DEF x, s, state
<1>9. QED
  BY <1>6, <1>7, <1>8

\* Where a persona's node leaves its run.
LEMMA PersonaNodes ==
  ASSUME NEW r
  PROVE  LET s == run[r].node.stage
         IN  /\ s # QA => /\ AfterPersona(r) = Node("gate", s)
                          /\ PersonaWithout(r) = Node("gate", s)
             /\ s = QA => /\ AfterPersona(r) = Node("complete", QA)
                          /\ PersonaWithout(r) = Node("failed", QA)
BY DEF AfterPersona, PersonaWithout, Stage

LEMMA NodeFacts ==
  ASSUME NEW kind, NEW stage
  PROVE  /\ DOMAIN Node(kind, stage) = {"kind", "stage"}
         /\ Node(kind, stage).kind = kind /\ Node(kind, stage).stage = stage
BY DEF Node

\* What is passed stays as sound as it was while later artifacts change.
LEMMA SoundLocal ==
  ASSUME NEW state, NEW next, NEW t \in PM..QA,
         next.source = state.source,
         \A u \in PM..QA : u <= t => next.artifacts[u] = state.artifacts[u],
         SoundAt(state, t)
  PROVE  SoundAt(next, t)
<1>1. next.artifacts[t] = state.artifacts[t]
  BY StageNumbers
<1>2. t \in Gated => FindingsOf(next.artifacts, t) = FindingsOf(state.artifacts, t)
  BY FindingsLocal
<1>3. QED
  BY <1>1, <1>2 DEF SoundAt

LEMMA PersonaPassed ==
  ASSUME DeliveryInv, NEW r \in Runs, run[r].node.kind = "persona", NEW next,
         PersonaUpdate(r, run[r], run[r].node.stage,
                       Response(r, <<"persona", run[r].node.stage, 0>>), next)
  PROVE  StateOK(next) /\ PassedInv(next)
<1> DEFINE s     == run[r].node.stage
           x     == Response(r, <<"persona", s, 0>>)
           state == run[r]
           final == Finalized(s, x, next.measured)
           repair  == /\ next.node = state.node /\ next.invalid = state.invalid
                      /\ next.artifacts = state.artifacts
           without == /\ next.node = PersonaWithout(r) /\ next.invalid = TRUE
                      /\ next.artifacts = state.artifacts
           produce == /\ x # Garbage /\ next.node = AfterPersona(r) /\ next.invalid = FALSE
                      /\ next.artifacts = [state.artifacts EXCEPT ![s] = final]
<1>1. StateOK(state) /\ PassedInv(state)
  BY DEF DeliveryInv
<1>2. /\ s \in PM..QA /\ DOMAIN state.artifacts = PM..QA /\ DOMAIN state.node = {"kind", "stage"}
      /\ state.node.kind = "persona"
  BY <1>1 DEF StateOK
<1>3. /\ DOMAIN next = Fields /\ next.tries \in Nat
      /\ next.source = state.source /\ next.fault = state.fault
      /\ next.retries = state.retries /\ next.critical_used = state.critical_used
      /\ next.evaluations = state.evaluations
      /\ repair \/ without \/ produce
      /\ s = QA => IF state.tries = 0
                   THEN next.measured.syntax_errors = state.artifacts[Dev].broken
                   ELSE next.measured = state.measured
  BY DEF PersonaUpdate, Kept
<1>4. /\ x # Garbage => Expected(state.source, s, x) /\ (s # QA => x # Nothing)
  BY PersonaResponse
<1>5. /\ \A t \in Behind(state) : SoundAt(state, t)
      /\ Architect \in Behind(state) /\ state.artifacts[Architect].presumes =>
           state.fault.item = FlawedDesign
      /\ s = QA /\ state.tries > 0 =>
           state.measured.syntax_errors = state.artifacts[Dev].broken
  BY <1>1 DEF PassedInv, Underway
<1>6. Behind(state) = {t \in PM..QA : t < s}
  BY <1>1, <1>2, NodeFacts DEF Behind
<1>7. s = QA => next.measured.syntax_errors = state.artifacts[Dev].broken
  BY <1>1, <1>3, <1>5 DEF StateOK
<1>8. /\ \A u \in PM..QA \ {s} : next.artifacts[u] = state.artifacts[u]
      /\ produce => next.artifacts[s] = final
      /\ DOMAIN next.artifacts = PM..QA
  BY <1>2, <1>3
<1>9. /\ repair  => /\ next.node.kind = "persona" /\ next.node.stage = s
                   /\ DOMAIN next.node = {"kind", "stage"}
      /\ without => next.node = IF s = QA THEN Node("failed", QA) ELSE Node("gate", s)
      /\ produce => next.node = IF s = QA THEN Node("complete", QA) ELSE Node("gate", s)
  BY <1>2, PersonaNodes
<1> HIDE DEF s, x, state, final
<1>10. /\ next.node.kind = "complete" => produce /\ s = QA
       /\ next.node.kind \in {"gate", "confirm"} => s # QA /\ next.node.kind = "gate"
       /\ next.node.kind \in {"persona", "gate", "complete", "failed"}
       /\ next.node.stage = s /\ DOMAIN next.node = {"kind", "stage"}
       /\ next.node.kind = "gate" => without \/ produce
       /\ next.node.kind = "persona" => repair
  BY <1>3, <1>9, NodeFacts
<1>11. StateOK(next)
  <2>1. s # QA => s \in Gated
    BY <1>2, StageNumbers
  <2>2. state.source \in Sources /\ state.fault \in Faults(state.source)
    BY <1>1, <1>2, NodeFacts DEF StateOK
  <2>3. QED
    BY <1>1, <1>2, <1>3, <1>8, <1>10, <2>1, <2>2 DEF StateOK, Kinds
<1>12. \A t \in PM..QA : t < s => SoundAt(next, t)
  <2> SUFFICES ASSUME NEW t \in PM..QA, t < s
               PROVE  SoundAt(next, t)
    OBVIOUS
  <2>1. SoundAt(state, t)
    BY <1>5, <1>6
  <2>2. \A u \in PM..QA : u <= t => next.artifacts[u] = state.artifacts[u]
    BY <1>2, <1>8, StageNumbers
  <2>3. QED
    BY <1>3, <2>1, <2>2, SoundLocal
<1>13. produce => next.artifacts[s] # Nothing /\ Expected(next.source, s, next.artifacts[s])
  <2>1. CASE s # QA
    <3>1. final = x
      BY <2>1 DEF Finalized, final
    <3>2. QED
      BY <1>3, <1>4, <1>8, <2>1, <3>1
  <2>2. CASE s = QA
    <3>1. final = [covered |-> x.covered, untestable |-> x.untestable,
                   execution |-> next.measured]
      BY <2>2 DEF Finalized, final
    <3>2. final # Nothing /\ final.covered = x.covered /\ final.untestable = x.untestable
      BY <3>1, SomeArtifact
    <3>3. produce => Expected(state.source, s, final)
      BY <1>4, <2>2, <3>2, StageNumbers DEF Expected
    <3>4. QED
      BY <1>3, <1>8, <3>2, <3>3
  <2>3. QED
    BY <2>1, <2>2
<1>14. next.node.kind = "complete" => next.artifacts[QA].execution.syntax_errors
                                        = next.artifacts[Dev].broken
  <2> SUFFICES ASSUME next.node.kind = "complete"
               PROVE  next.artifacts[QA].execution.syntax_errors = next.artifacts[Dev].broken
    OBVIOUS
  <2>1. s = QA /\ produce
    BY <1>10
  <2>2. final.execution = next.measured
    BY <2>1 DEF Finalized, final
  <2>3. next.artifacts[QA] = final /\ next.artifacts[Dev] = state.artifacts[Dev]
    BY <1>8, <2>1, StageNumbers
  <2>4. QED
    BY <1>7, <2>1, <2>2, <2>3
<1>15. Behind(next) = IF next.node.kind = "complete" THEN PM..QA ELSE {t \in PM..QA : t < s}
  BY <1>10 DEF Behind
<1>16. \A t \in Behind(next) : SoundAt(next, t)
  <2>1. ASSUME next.node.kind = "complete"
        PROVE  SoundAt(next, QA)
    <3>1. produce /\ s = QA
      BY <1>10, <2>1
    <3>2. QA \notin Gated
      BY StageNumbers
    <3>3. QED
      BY <1>13, <3>1, <3>2 DEF SoundAt
  <2>2. next.node.kind = "complete" => s = QA
    BY <1>10
  <2>3. QED
    BY <1>12, <1>15, <2>1, <2>2, StageNumbers
<1>17. Architect \in Behind(next) /\ next.artifacts[Architect].presumes =>
         next.fault.item = FlawedDesign
  <2>1. Architect \in Behind(next) => Architect < s /\ Architect \in Behind(state)
    BY <1>2, <1>6, <1>10, <1>15, StageNumbers
  <2>2. Architect < s => next.artifacts[Architect] = state.artifacts[Architect]
    BY <1>8, StageNumbers
  <2>3. QED
    BY <1>3, <1>5, <2>1, <2>2
<1>18. next.node.kind \in {"gate", "confirm"} /\ ~next.invalid =>
         next.artifacts[next.node.stage] # Nothing
           /\ Expected(next.source, next.node.stage, next.artifacts[next.node.stage])
  BY <1>10, <1>13
<1>19. next.node.kind = "persona" /\ next.node.stage = QA =>
         next.measured.syntax_errors = next.artifacts[Dev].broken
  BY <1>7, <1>10
<1>20. PassedInv(next)
  BY <1>10, <1>14, <1>16, <1>17, <1>18, <1>19 DEF PassedInv
<1>21. QED
  BY <1>11, <1>20

\* A call uses up its source's next response, unless it is simulated or injected.
LEMMA CursorFacts ==
  ASSUME DeliveryInv, NEW r \in Runs, NEW purpose \in Purposes, Complete(r, purpose)
  PROVE  /\ cursor' = cursor \/ cursor' = [cursor EXCEPT ![<<r, purpose>>] = @ + 1]
         /\ Injected(r, purpose) => cursor' = cursor
         /\ \A p \in Purposes : p # purpose => cursor'[<<r, p>>] = cursor[<<r, p>>]
         /\ run[r].source # "simulator" /\ ~Injected(r, purpose) =>
              cursor'[<<r, purpose>>] = cursor[<<r, purpose>>] + 1
         /\ cursor[<<r, purpose>>] \in Nat
<1>1. cursor \in [Runs \X Purposes -> Nat] /\ <<r, purpose>> \in Runs \X Purposes
  BY DEF DeliveryInv
<1>2. cursor' = IF Injected(r, purpose) \/ run[r].source = "simulator" THEN cursor
                ELSE [cursor EXCEPT ![<<r, purpose>>] = @ + 1]
  BY DEF Complete, CursorKey
<1>3. \A p \in Purposes : p # purpose => <<r, p>> # <<r, purpose>> /\ <<r, p>> \in Runs \X Purposes
  OBVIOUS
<1>4. QED
  BY <1>1, <1>2, <1>3

LEMMA PersonaInjected ==
  ASSUME DeliveryInv, NEW r \in Runs, run[r].node.kind = "persona", NEW next,
         PersonaUpdate(r, run[r], run[r].node.stage,
                       Response(r, <<"persona", run[r].node.stage, 0>>), next)
  PROVE  InjectedInv(next)
<1> DEFINE s       == run[r].node.stage
           purpose == <<"persona", s, 0>>
           x       == Response(r, purpose)
           state   == run[r]
           fault   == run[r].fault
<1>1. StateOK(state) /\ InjectedInv(state)
  BY DEF DeliveryInv
<1>2. /\ s \in PM..QA /\ state.node.kind = "persona" /\ DOMAIN state.artifacts = PM..QA
      /\ state.source \in Sources /\ fault \in Faults(state.source)
  BY <1>1 DEF StateOK
<1>3. /\ next.fault = fault /\ next.retries = state.retries
      /\ next.evaluations = state.evaluations
  BY DEF PersonaUpdate, Kept
<1> SUFFICES ASSUME fault.item # Garbage
             PROVE  InjectedInv(next)
  BY <1>3 DEF InjectedInv
<1>4. /\ fault.attempt = 1 /\ fault.purpose[1] = "persona" /\ fault.purpose[2] \in {3, 4}
      /\ fault.purpose = <<"persona", fault.purpose[2], 0>>
  BY <1>2, FaultFacts, StageNumbers
<1>5. next.node.stage = s /\ next.node.kind # "confirm"
      /\ (next.node.kind = "gate" => next.node # state.node)
  BY <1>2, PersonaNodes, NodeFacts DEF PersonaUpdate
<1>6. ASSUME s = fault.purpose[2], state.retries[s] = 0, next.node.kind = "gate"
      PROVE  ~next.invalid /\ next.artifacts[s] = fault.item
  <2>1. Attempt(r) = 1
    <3>1. s # QA /\ Stage(r) = s
      BY <1>4, <1>6, StageNumbers DEF Stage
    <3>2. QED
      BY <1>6, <3>1 DEF Attempt
  <2>2. Injected(r, purpose)
    BY <1>4, <1>6, <2>1 DEF Injected
  <2>3. x = fault.item
    BY <2>2, PersonaResponse
  <2>4. /\ next.node = AfterPersona(r) /\ next.invalid = FALSE
        /\ next.artifacts = [state.artifacts EXCEPT ![s] = Finalized(s, x, next.measured)]
    BY <1>5, <1>6, <2>3 DEF PersonaUpdate
  <2>5. Finalized(s, x, next.measured) = x
    BY <1>4, <1>6, StageNumbers DEF Finalized
  <2>6. QED
    BY <1>2, <2>3, <2>4, <2>5
<1>7. QED
  BY <1>1, <1>2, <1>3, <1>5, <1>6 DEF InjectedInv

LEMMA PersonaFlaw ==
  ASSUME DeliveryInv, NEW r \in Runs, run[r].node.kind = "persona", NEW next,
         PersonaUpdate(r, run[r], run[r].node.stage,
                       Response(r, <<"persona", run[r].node.stage, 0>>), next),
         Complete(r, <<"persona", run[r].node.stage, 0>>)
  PROVE  FlawInv(next, cursor'[<<r, Designs>>], cursor'[<<r, Reviews>>])
<1> DEFINE s       == run[r].node.stage
           purpose == <<"persona", s, 0>>
           x       == Response(r, purpose)
           state   == run[r]
           fault   == run[r].fault
           drawn   == cursor[<<r, Designs>>]
           judged  == cursor[<<r, Reviews>>]
           n       == state.retries[Architect]
           flawed  == fault.item = FlawedDesign
           fresh   == judged = 0 /\ ~state.critical_used[Architect]
<1>1. StateOK(state) /\ FlawInv(state, drawn, judged)
  BY DEF DeliveryInv
<1>2. /\ s \in PM..QA /\ state.node.kind = "persona" /\ DOMAIN state.artifacts = PM..QA
      /\ state.source \in Sources /\ fault \in Faults(state.source) /\ n \in Nat
  BY <1>1, StageNumbers DEF StateOK
<1>3. /\ next.fault = fault /\ next.retries = state.retries /\ next.source = state.source
      /\ next.critical_used = state.critical_used
  BY DEF PersonaUpdate, Kept
<1>4. /\ next.node.stage = s /\ next.node.kind \in {"persona", "gate", "complete", "failed"}
  BY <1>2, PersonaNodes, NodeFacts DEF PersonaUpdate
<1>5. purpose \in Purposes /\ purpose # Reviews /\ (s # Architect => purpose # Designs)
      /\ (s = Architect => purpose = Designs)
  BY <1>2, PersonaPurpose DEF Reviews, Designs
<1>6. /\ cursor'[<<r, Reviews>>] = judged
      /\ s # Architect => cursor'[<<r, Designs>>] = drawn
  BY <1>5, DesignCalls, CursorFacts
<1>7. CASE ~(Underway(next) /\ next.source = "fraud-mainframe") \/ s > Architect
  BY <1>2, <1>4, <1>7, StageNumbers DEF FlawInv, Underway
<1>8. CASE state.source = "fraud-mainframe" /\ s < Architect
  <2>1. drawn = 0 /\ n = 0 /\ fresh
    BY <1>1, <1>2, <1>8 DEF FlawInv, Underway
  <2>2. s # Architect
    BY <1>8, StageNumbers
  <2>3. QED
    BY <1>3, <1>4, <1>6, <1>8, <2>1, <2>2 DEF FlawInv
<1>9. CASE state.source = "fraud-mainframe" /\ s = Architect
  <2>1. (IF flawed THEN n = 0 ELSE drawn = 0) => fresh /\ n <= 1
    BY <1>1, <1>2, <1>9 DEF FlawInv, Underway
  <2>2. /\ drawn \in Nat
        /\ cursor'[<<r, Designs>>] = IF Injected(r, purpose) THEN drawn ELSE drawn + 1
    BY <1>5, <1>9, CursorFacts
  <2>3. Injected(r, purpose) => n = 0 /\ x = fault.item
    <3>1. purpose # <<"none", 0, 0>>
      OBVIOUS
    <3>2. Injected(r, purpose) => fault.attempt = 1
      BY <1>2, <3>1, FaultFacts DEF Injected, NoFault
    <3>3. Attempt(r) = n + 1
      BY <1>9, StageNumbers DEF Attempt, Stage
    <3>4. Injected(r, purpose) => fault.attempt = Attempt(r)
      BY DEF Injected
    <3>5. Injected(r, purpose) => x = fault.item
      BY PersonaResponse
    <3> HIDE DEF n, fault, purpose, x
    <3>6. QED
      BY <1>2, <3>2, <3>3, <3>4, <3>5
  <2>4. ~Injected(r, purpose) => x = IF drawn = 0 THEN FlawedDesign ELSE SoundDesign(3, 3)
    BY <1>9, PersonaResponse
  <2>5. Injected(r, purpose) /\ x # Garbage => x \in {FlawedDesign, UnmitigatedDesign}
    <3>1. Injected(r, purpose) => fault.purpose = <<"persona", Architect, 0>>
      BY <1>9 DEF Injected
    <3>2. QED
      BY <1>2, <2>3, <3>1, FaultFacts, StageNumbers
  <2>6. next.node.kind = "gate" /\ ~next.invalid =>
          x # Garbage /\ next.artifacts[Architect] = x
    <3>1. Finalized(s, x, next.measured) = x
      BY <1>9, StageNumbers DEF Finalized
    <3>2. QED
      BY <1>2, <1>9, <3>1 DEF PersonaUpdate
  <2> HIDE DEF x, purpose, fault, drawn, judged, n, state
  <2>7. next.node.kind = "gate" /\ ~flawed /\ cursor'[<<r, Designs>>] = 0 =>
          /\ fresh /\ n = 0
          /\ ~next.invalid => next.artifacts[Architect] = UnmitigatedDesign
    <3> SUFFICES ASSUME next.node.kind = "gate", ~flawed, cursor'[<<r, Designs>>] = 0
                 PROVE  /\ fresh /\ n = 0
                        /\ ~next.invalid => next.artifacts[Architect] = UnmitigatedDesign
      OBVIOUS
    <3>1. Injected(r, purpose) /\ drawn = 0
      BY <2>2
    <3>2. QED
      BY <2>1, <2>3, <2>5, <2>6, <3>1
  <2>8. next.node.kind = "gate" /\ ~next.invalid /\ ~flawed
          /\ next.artifacts[Architect] = FlawedDesign => fresh /\ n <= 1
    <3> SUFFICES ASSUME next.node.kind = "gate", ~next.invalid, ~flawed,
                        next.artifacts[Architect] = FlawedDesign
                 PROVE  fresh /\ n <= 1
      OBVIOUS
    <3>1. ~Injected(r, purpose) /\ x = FlawedDesign
      BY <2>3, <2>6
    <3>2. drawn = 0
      BY <2>4, <3>1, ItemExpected
    <3>3. QED
      BY <2>1, <3>2
  <2>9. next.node.kind = "persona" /\ (IF flawed THEN n = 0 ELSE cursor'[<<r, Designs>>] = 0) =>
          fresh /\ n <= 1
    BY <2>1, <2>2
  <2>10. /\ next.retries[Architect] = n /\ next.node.kind # "confirm"
         /\ next.node.kind # "new"
         /\ next.critical_used[Architect] = state.critical_used[Architect]
         /\ ~(next.node.stage < Architect)
    BY <1>3, <1>4, <1>9, StageNumbers DEF n
  <2>11. QED
    BY <1>3, <1>6, <2>1, <2>7, <2>8, <2>9, <2>10 DEF FlawInv
<1>10. QED
  BY <1>2, <1>3, <1>7, <1>8, <1>9, StageNumbers

LEMMA PersonaDelivers ==
  ASSUME DeliveryInv, NEW r \in Runs, PersonaCall(r)
  PROVE  DeliveryInv'
<1>1. PICK next : /\ run' = [run EXCEPT ![r] = next]
                  /\ PersonaUpdate(r, run[r], run[r].node.stage,
                                   Response(r, <<"persona", run[r].node.stage, 0>>), next)
  BY PersonaEffect
<1>2. /\ run[r].node.kind = "persona" /\ Complete(r, <<"persona", run[r].node.stage, 0>>)
  BY DEF PersonaCall, At, Stage
<1>3. <<"persona", run[r].node.stage, 0>> \in Purposes
  BY PersonaPurpose DEF DeliveryInv, StateOK
<1>4. StateOK(next) /\ PassedInv(next) /\ InjectedInv(next)
      /\ FlawInv(next, cursor'[<<r, Designs>>], cursor'[<<r, Reviews>>])
  BY <1>1, <1>2, PersonaPassed, PersonaInjected, PersonaFlaw
<1>5. QED
  BY <1>1, <1>2, <1>3, <1>4, CursorFacts, OneRunDelivers

LEMMA OutcomeFacts ==
  ASSUME NEW n \in Nat, NEW used, NEW first, NEW second
  PROVE  /\ Rejection(n) \in GateOutcome /\ Evaluate(FALSE, first, second, n, used) \in GateOutcome
         /\ Rejection(n).verdict # "pass" /\ ~Rejection(n).critical
         /\ n < MaxRetries => Rejection(n).verdict = "retry"
<1>1. \A v : DecideVerdict(v, n, used) \in Verdicts
  BY DEF DecideVerdict, Verdicts
<1>2. DecideWithoutScores(n) \in {"retry", "escalate"}
      /\ (n < MaxRetries => DecideWithoutScores(n) = "retry")
  BY PolicyAssumption DEF DecideWithoutScores, Exhausted
<1>3. \A tier : JudgeSource(tier) \in Judges
  BY DEF JudgeSource, Judges
<1>4. \A v, tier : Scored(v, tier, n, used) \in GateOutcome
  BY <1>1, <1>3 DEF Scored, GateOutcome, IsCritical
<1>5. JudgeFailure \in GateOutcome
  BY <1>3 DEF JudgeFailure, GateOutcome, Verdicts
<1>6. /\ Rejection(n) \in GateOutcome /\ Rejection(n).verdict = DecideWithoutScores(n)
      /\ Rejection(n).critical = FALSE
  BY <1>2 DEF Rejection, GateOutcome, Verdicts, Judges
<1>7. Evaluate(FALSE, first, second, n, used) \in GateOutcome
  BY <1>4, <1>5 DEF Evaluate
<1>8. QED
  BY <1>2, <1>6, <1>7

\* What a verdict makes of a run.
GateUpdate(r, state, outcome, next) ==
  LET s == state.node.stage
  IN  /\ DOMAIN next = Fields /\ next.tries = 0
      /\ \A f \in {"source", "fault", "artifacts"} : next[f] = state[f]
      /\ next.evaluations =
           Append(state.evaluations,
                  [outcome |-> outcome, stage |-> s, attempt |-> state.retries[s] + 1])
      /\ next.retries =
           [state.retries EXCEPT ![s] = IF outcome.verdict = "retry" THEN @ + 1 ELSE @]
      /\ next.critical_used =
           [state.critical_used EXCEPT
              ![s] = @ \/ (outcome.verdict = "retry" /\ outcome.critical /\ FastTrack)]
      /\ next.node = IF outcome.verdict = "pass" THEN Node("persona", s + 1)
                     ELSE IF outcome.verdict = "retry" THEN Node("persona", s)
                     ELSE Node("blocked", s)

LEMMA ConcludedUpdate ==
  ASSUME NEW r \in Runs, StateOK(run[r]), run[r].node.stage \in Gated, NEW outcome, NEW state,
         DOMAIN state = Fields,
         \A f \in {"source", "fault", "artifacts", "evaluations", "retries", "critical_used"} :
           state[f] = run[r][f]
  PROVE  GateUpdate(r, run[r], outcome, Concluded(r, state, outcome))
<1> DEFINE s    == run[r].node.stage
           node == IF outcome.verdict = "pass" THEN Node("persona", s + 1)
                   ELSE IF outcome.verdict = "retry" THEN Node("persona", s)
                   ELSE Node("blocked", s)
           ends == NodeEnds(state, node)
           next == Concluded(r, state, outcome)
<1>1. Stage(r) = s /\ Attempt(r) = run[r].retries[s] + 1
  BY StageNumbers DEF Stage, Attempt
<1>2. node = CASE outcome.verdict = "pass"  -> Node("persona", s + 1)
               [] outcome.verdict = "retry" -> Node("persona", s)
               [] OTHER                     -> Node("blocked", s)
  OBVIOUS
<1> HIDE DEF node
<1>3. /\ DOMAIN ends = Fields /\ ends.tries = 0 /\ ends.node = node
      /\ \A f \in {"source", "fault", "artifacts", "evaluations", "retries", "critical_used"} :
           ends[f] = run[r][f]
  BY DEF NodeEnds, Fields
<1>4. next =
        [ends EXCEPT
           !.evaluations =
              Append(@, [outcome |-> outcome, stage |-> s, attempt |-> run[r].retries[s] + 1]),
           !.retries[s] = IF outcome.verdict = "retry" THEN @ + 1 ELSE @,
           !.critical_used[s] =
              @ \/ (outcome.verdict = "retry" /\ outcome.critical /\ FastTrack)]
  BY <1>1, <1>2 DEF Concluded
<1> HIDE DEF ends, next, s
<1>5. /\ DOMAIN next = Fields /\ next.tries = 0 /\ next.node = node
      /\ \A f \in {"source", "fault", "artifacts"} : next[f] = run[r][f]
  BY <1>3, <1>4 DEF Fields
<1>6. /\ next.evaluations =
           Append(run[r].evaluations,
                  [outcome |-> outcome, stage |-> s, attempt |-> run[r].retries[s] + 1])
      /\ next.retries =
           [run[r].retries EXCEPT ![s] = IF outcome.verdict = "retry" THEN @ + 1 ELSE @]
      /\ next.critical_used =
           [run[r].critical_used EXCEPT
              ![s] = @ \/ (outcome.verdict = "retry" /\ outcome.critical /\ FastTrack)]
  BY <1>3, <1>4 DEF Fields
<1>7. QED
  BY <1>5, <1>6 DEF GateUpdate, s, node, next

LEMMA GatePassed ==
  ASSUME DeliveryInv, NEW r \in Runs, run[r].node.kind \in {"gate", "confirm"},
         NEW outcome \in GateOutcome, NEW next, GateUpdate(r, run[r], outcome, next),
         outcome.verdict = "pass" =>
           /\ ~run[r].invalid
           /\ blocking(FindingsOf(run[r].artifacts, run[r].node.stage)) = {}
           /\ run[r].node.stage = Architect /\ run[r].artifacts[Architect].presumes =>
                run[r].fault.item = FlawedDesign
  PROVE  StateOK(next) /\ PassedInv(next)
<1> DEFINE s     == run[r].node.stage
           state == run[r]
           rec   == [outcome |-> outcome, stage |-> s, attempt |-> state.retries[s] + 1]
           spent == outcome.verdict = "retry" /\ outcome.critical /\ FastTrack
<1>1. StateOK(state) /\ PassedInv(state)
  BY DEF DeliveryInv
<1>2. s \in Gated /\ s \in PM..QA /\ state.node.kind \in {"gate", "confirm"}
  BY <1>1 DEF StateOK
<1>3. /\ DOMAIN next = Fields /\ next.tries = 0
      /\ next.source = state.source /\ next.fault = state.fault
      /\ next.artifacts = state.artifacts
      /\ next.evaluations = Append(state.evaluations, rec)
      /\ next.retries =
           [state.retries EXCEPT ![s] = IF outcome.verdict = "retry" THEN @ + 1 ELSE @]
      /\ next.critical_used = [state.critical_used EXCEPT ![s] = @ \/ spent]
      /\ next.node = IF outcome.verdict = "pass" THEN Node("persona", s + 1)
                     ELSE IF outcome.verdict = "retry" THEN Node("persona", s)
                     ELSE Node("blocked", s)
  BY DEF GateUpdate
<1>4. /\ DOMAIN next.node = {"kind", "stage"}
      /\ next.node.kind = IF outcome.verdict \in {"pass", "retry"} THEN "persona" ELSE "blocked"
      /\ next.node.stage = IF outcome.verdict = "pass" THEN s + 1 ELSE s
  BY <1>3, NodeFacts
<1>5. /\ \A t \in PM..QA : t < s => SoundAt(state, t)
      /\ Architect \in PM..QA /\ Architect < s /\ state.artifacts[Architect].presumes =>
           state.fault.item = FlawedDesign
      /\ ~state.invalid => state.artifacts[s] # Nothing
                             /\ Expected(state.source, s, state.artifacts[s])
  BY <1>1, <1>2 DEF PassedInv, Underway, Behind
<1> HIDE DEF s, state
<1>6. StateOK(next)
  <2>1. rec \in Entries
    <3>1. state.retries[s] + 1 \in Nat
      BY <1>1, <1>2 DEF StateOK
    <3>2. QED
      BY <1>2, <3>1 DEF Entries
  <2> HIDE DEF rec
  <2>2. next.evaluations \in Seq(Entries)
    BY <1>1, <1>3, <2>1 DEF StateOK
  <2>3. next.retries \in [Gated -> Nat]
    BY <1>1, <1>2, <1>3 DEF StateOK
  <2>4. next.critical_used \in [Gated -> BOOLEAN]
    <3>1. spent \in BOOLEAN
      OBVIOUS
    <3> HIDE DEF spent
    <3>2. state.critical_used \in [Gated -> BOOLEAN]
      BY <1>1 DEF StateOK
    <3>3. (state.critical_used[s] \/ spent) \in BOOLEAN
      BY <1>2, <3>1, <3>2
    <3>4. QED
      BY <1>2, <1>3, <3>2, <3>3
  <2>5. /\ next.node.stage \in PM..QA
        /\ next.node.kind \in {"persona", "blocked"}
        /\ next.node.kind = "blocked" => next.node.stage \in Gated
    BY <1>2, <1>4, StageNumbers
  <2>6. /\ state.source \in Sources /\ state.fault \in Faults(state.source)
        /\ DOMAIN state.artifacts = PM..QA
    BY <1>1, <1>2 DEF StateOK
  <2>7. QED
    BY <1>3, <1>4, <2>2, <2>3, <2>4, <2>5, <2>6 DEF StateOK, Kinds
<1>7. Behind(next) = {t \in PM..QA : t < next.node.stage}
  BY <1>4 DEF Behind
<1>8. ASSUME next.node.kind = "persona", NEW t \in PM..QA, t < next.node.stage
      PROVE  SoundAt(next, t)
  <2>1. CASE t < s
    BY <1>3, <1>5, <2>1, SoundLocal
  <2>2. CASE t = s /\ outcome.verdict = "pass"
    <3>1. SoundAt(state, s)
      BY <1>2, <1>5, <2>2 DEF SoundAt, state, s
    <3>2. QED
      BY <1>2, <1>3, <2>2, <3>1, SoundLocal
  <2>3. QED
    BY <1>2, <1>4, <1>8, <2>1, <2>2, StageNumbers
<1>9. next.node.kind = "persona" /\ Architect < next.node.stage
        /\ next.artifacts[Architect].presumes => next.fault.item = FlawedDesign
  <2>1. outcome.verdict = "pass" /\ s = Architect /\ state.artifacts[Architect].presumes =>
          state.fault.item = FlawedDesign
    BY DEF s, state
  <2>2. QED
    BY <1>2, <1>3, <1>4, <1>5, <2>1, StageNumbers
<1>10. PassedInv(next)
  BY <1>3, <1>4, <1>7, <1>8, <1>9 DEF PassedInv, Underway
<1>11. QED
  BY <1>6, <1>10

LEMMA GateInjected ==
  ASSUME DeliveryInv, NEW r \in Runs, run[r].node.kind \in {"gate", "confirm"},
         NEW outcome \in GateOutcome, NEW next, GateUpdate(r, run[r], outcome, next),
         /\ run[r].fault.item # Garbage /\ run[r].node.stage = run[r].fault.purpose[2]
         /\ run[r].retries[run[r].node.stage] = 0
         => outcome.verdict = "retry"
  PROVE  InjectedInv(next)
<1> DEFINE s     == run[r].node.stage
           state == run[r]
           rec   == [outcome |-> outcome, stage |-> s, attempt |-> state.retries[s] + 1]
<1>1. StateOK(state) /\ InjectedInv(state)
  BY DEF DeliveryInv
<1>2. s \in Gated /\ state.retries[s] \in Nat /\ state.evaluations \in Seq(Entries)
  BY <1>1 DEF StateOK
<1>3. /\ next.fault = state.fault /\ next.evaluations = Append(state.evaluations, rec)
      /\ next.node.kind \in {"persona", "blocked"}
  BY NodeFacts DEF GateUpdate
<1> SUFFICES ASSUME state.fault.item # Garbage
             PROVE  InjectedInv(next)
  BY <1>3 DEF InjectedInv
<1>4. ASSUME NEW i \in 1..Len(next.evaluations)
      PROVE  LET e == next.evaluations[i]
             IN  e.stage = next.fault.purpose[2] /\ e.attempt = 1 =>
                   e.outcome.verdict = "retry"
  <2>1. rec.outcome = outcome /\ rec.stage = s /\ rec.attempt = state.retries[s] + 1
    OBVIOUS
  <2> HIDE DEF rec
  <2>2. \/ i \in 1..Len(state.evaluations) /\ next.evaluations[i] = state.evaluations[i]
        \/ next.evaluations[i] = rec
    BY <1>2, <1>3, <1>4
  <2>3. \A j \in 1..Len(state.evaluations) :
          LET e == state.evaluations[j]
          IN  e.stage = state.fault.purpose[2] /\ e.attempt = 1 => e.outcome.verdict = "retry"
    BY <1>1 DEF InjectedInv
  <2>4. rec.stage = state.fault.purpose[2] /\ rec.attempt = 1 => rec.outcome.verdict = "retry"
    BY <1>2, <2>1
  <2>5. QED
    BY <1>3, <2>2, <2>3, <2>4
<1>5. QED
  BY <1>3, <1>4 DEF InjectedInv

LEMMA GateFlaw ==
  ASSUME DeliveryInv, NEW r \in Runs, run[r].node.kind \in {"gate", "confirm"},
         NEW outcome \in GateOutcome, NEW next, GateUpdate(r, run[r], outcome, next),
         NEW judged,
         run[r].node.stage # Architect => judged = cursor[<<r, Reviews>>],
         /\ run[r].source = "fraud-mainframe" /\ run[r].node.stage = Architect
         /\ run[r].fault.item # FlawedDesign /\ cursor[<<r, Designs>>] = 0
         => judged = 0 /\ ~outcome.critical
  PROVE  FlawInv(next, cursor[<<r, Designs>>], judged)
<1> DEFINE s     == run[r].node.stage
           state == run[r]
           drawn == cursor[<<r, Designs>>]
           n     == state.retries[Architect]
           flawed == state.fault.item = FlawedDesign
<1>1. StateOK(state) /\ FlawInv(state, drawn, cursor[<<r, Reviews>>])
  BY DEF DeliveryInv
<1>2. /\ s \in Gated /\ state.node.kind \in {"gate", "confirm"} /\ n \in Nat
      /\ DOMAIN state.retries = Gated /\ DOMAIN state.critical_used = Gated
  BY <1>1, StageNumbers DEF StateOK
<1>3. /\ next.source = state.source /\ next.fault = state.fault
      /\ next.retries =
           [state.retries EXCEPT ![s] = IF outcome.verdict = "retry" THEN @ + 1 ELSE @]
      /\ next.critical_used =
           [state.critical_used EXCEPT
              ![s] = @ \/ (outcome.verdict = "retry" /\ outcome.critical /\ FastTrack)]
      /\ next.node.kind = IF outcome.verdict \in {"pass", "retry"} THEN "persona" ELSE "blocked"
      /\ next.node.stage = IF outcome.verdict = "pass" THEN s + 1 ELSE s
  BY NodeFacts DEF GateUpdate
<1>4. CASE next.node.kind = "blocked" \/ state.source # "fraud-mainframe"
  BY <1>3, <1>4 DEF FlawInv, Underway
<1>5. CASE next.node.kind = "persona" /\ state.source = "fraud-mainframe"
  <2>1. s < Architect => drawn = 0 /\ n = 0 /\ cursor[<<r, Reviews>>] = 0
                           /\ ~state.critical_used[Architect]
    BY <1>1, <1>2, <1>5 DEF FlawInv, Underway
  <2>2. s # Architect => /\ next.retries[Architect] = n
                         /\ next.critical_used[Architect] = state.critical_used[Architect]
    BY <1>2, <1>3, StageNumbers
  <2>3. CASE s < Architect
    BY <1>2, <1>3, <1>5, <2>1, <2>2, <2>3, StageNumbers DEF FlawInv
  <2>4. CASE s > Architect \/ (s = Architect /\ outcome.verdict = "pass")
    BY <1>2, <1>3, <1>5, <2>4, StageNumbers DEF FlawInv
  <2>5. CASE s = Architect /\ outcome.verdict = "retry"
    <3>1. next.retries[Architect] = n + 1
      BY <1>2, <1>3, <2>5, StageNumbers
    <3>2. ~flawed /\ drawn = 0 => n = 0 /\ ~state.critical_used[Architect]
      BY <1>1, <1>2, <1>5, <2>5, StageNumbers DEF FlawInv, Underway
    <3>3. ~flawed /\ drawn = 0 => judged = 0 /\ ~outcome.critical
      BY <1>5, <2>5
    <3>4. ~flawed /\ drawn = 0 => ~next.critical_used[Architect]
      BY <1>2, <1>3, <2>5, <3>2, <3>3, StageNumbers
    <3>5. QED
      BY <1>2, <1>3, <1>5, <2>5, <3>1, <3>2, <3>3, <3>4, StageNumbers DEF FlawInv
  <2>6. QED
    BY <1>2, <1>3, <1>5, <2>3, <2>4, <2>5, StageNumbers
<1>6. QED
  BY <1>3, <1>4, <1>5

\* Injected content at its stage's first attempt.
LEMMA InjectedAtGate ==
  ASSUME DeliveryInv, NEW r \in Runs, run[r].node.kind \in {"gate", "confirm"},
         run[r].fault.item # Garbage, run[r].node.stage = run[r].fault.purpose[2],
         run[r].retries[run[r].node.stage] = 0
  PROVE  /\ run[r].node.kind = "gate"
         /\ \/ blocking(FindingsOf(run[r].artifacts, run[r].node.stage)) # {}
            \/ /\ run[r].source = "fraud-mainframe" /\ run[r].node.stage = Architect
               /\ run[r].artifacts[Architect] = FlawedDesign
               /\ run[r].fault.item = FlawedDesign
               /\ run[r].fault.purpose = Designs
               /\ cursor[<<r, Reviews>>] = 0 /\ ~run[r].critical_used[Architect]
<1> DEFINE s     == run[r].node.stage
           state == run[r]
<1>1. /\ StateOK(state) /\ InjectedInv(state)
      /\ FlawInv(state, cursor[<<r, Designs>>], cursor[<<r, Reviews>>])
  BY DEF DeliveryInv
<1>2. state.node.kind = "gate" /\ state.artifacts[s] = state.fault.item
  BY <1>1 DEF InjectedInv
<1>3. /\ state.source = "fraud-mainframe"
      /\ \/ /\ state.fault.purpose = <<"persona", Architect, 0>>
            /\ state.fault.item \in {FlawedDesign, UnmitigatedDesign}
         \/ /\ state.fault.purpose = <<"persona", Dev, 0>>
            /\ state.fault.item = [Slice(4) EXCEPT !.broken = TRUE]
  <2>1. state.source \in Sources /\ state.fault \in Faults(state.source)
    BY <1>1, <1>2 DEF StateOK
  <2>2. QED
    BY <2>1, FaultFacts
<1>4. CASE /\ state.fault.purpose = <<"persona", Architect, 0>>
           /\ state.fault.item = FlawedDesign
  <2>1. s = Architect
    BY <1>4
  <2>2. cursor[<<r, Reviews>>] = 0 /\ ~state.critical_used[Architect]
    BY <1>1, <1>2, <1>3, <1>4, <2>1 DEF FlawInv, Underway
  <2>3. QED
    BY <1>2, <1>3, <1>4, <2>1, <2>2 DEF Designs
<1>5. CASE /\ state.fault.purpose = <<"persona", Architect, 0>>
           /\ state.fault.item = UnmitigatedDesign
  BY <1>2, <1>5, ItemBlocked
<1>6. CASE /\ state.fault.purpose = <<"persona", Dev, 0>>
           /\ state.fault.item = [Slice(4) EXCEPT !.broken = TRUE]
  <2>1. s = Dev
    BY <1>6
  <2>2. QED
    BY <1>2, <1>6, <2>1, ItemBlocked
<1>7. QED
  BY <1>3, <1>4, <1>5, <1>6

LEMMA RejectionDelivers ==
  ASSUME Guarded, DeliveryInv, NEW r \in Runs, GateRejects(r)
  PROVE  DeliveryInv'
<1> DEFINE s       == run[r].node.stage
           state   == run[r]
           outcome == Rejection(state.retries[s])
           next    == Concluded(r, state, outcome)
<1>1. StateOK(state) /\ state.node.kind = "gate" /\ s \in Gated /\ state.retries[s] \in Nat
  BY DEF GateRejects, At, DeliveryInv, StateOK
<1>2. run' = [run EXCEPT ![r] = next] /\ cursor' = cursor
  BY DEF GateRejects, Stage, DeliveryInv
<1>3. /\ outcome \in GateOutcome /\ outcome.verdict # "pass" /\ ~outcome.critical
      /\ state.retries[s] = 0 => outcome.verdict = "retry"
  <2>1. state.retries[s] = 0 => state.retries[s] < MaxRetries
    BY PolicyAssumption DEF Guarded
  <2>2. QED
    BY <1>1, <2>1, OutcomeFacts
<1>4. GateUpdate(r, state, outcome, next)
  BY <1>1, ConcludedUpdate DEF StateOK
<1> HIDE DEF outcome, next
<1>5. StateOK(next) /\ PassedInv(next)
  BY <1>1, <1>3, <1>4, GatePassed
<1>6. InjectedInv(next)
  BY <1>1, <1>3, <1>4, GateInjected
<1>7. FlawInv(next, cursor[<<r, Designs>>], cursor[<<r, Reviews>>])
  <2>1. /\ state.source = "fraud-mainframe" /\ s = Architect
        /\ state.fault.item # FlawedDesign /\ cursor[<<r, Designs>>] = 0
        => cursor[<<r, Reviews>>] = 0
    <3>1. FlawInv(state, cursor[<<r, Designs>>], cursor[<<r, Reviews>>])
      BY DEF DeliveryInv
    <3>2. QED
      BY <1>1, <3>1 DEF FlawInv, Underway
  <2>2. QED
    BY <1>1, <1>3, <1>4, <2>1, GateFlaw
<1>8. QED
  BY <1>2, <1>5, <1>6, <1>7, DesignCalls, OneRunDelivers

LEMMA RaiseDelivers ==
  ASSUME DeliveryInv, NEW r \in Runs, CallRaises(r)
  PROVE  DeliveryInv'
<1> DEFINE state == run[r]
           next  == [state EXCEPT !.node.kind = "failed", !.records = 0,
                                  !.tries = 0, !.first = NoOutput]
<1>1. StateOK(state) /\ InjectedInv(state) /\ state.node.kind \in {"persona", "gate", "confirm"}
  BY DEF CallRaises, DeliveryInv
<1>2. run' = [run EXCEPT ![r] = next] /\ cursor' = cursor
  BY DEF CallRaises, DeliveryInv
<1>3. /\ DOMAIN next = Fields /\ next.tries = 0
      /\ next.node = [state.node EXCEPT !.kind = "failed"]
      /\ \A f \in {"source", "fault", "artifacts", "retries", "critical_used", "evaluations"} :
           next[f] = state[f]
  BY <1>1 DEF StateOK, Fields
<1> HIDE DEF next
<1>4. /\ DOMAIN next.node = {"kind", "stage"} /\ next.node.kind = "failed"
      /\ next.node.stage = state.node.stage
  BY <1>1, <1>3 DEF StateOK
<1>5. StateOK(next)
  BY <1>1, <1>3, <1>4 DEF StateOK, Kinds
<1>6. PassedInv(next) /\ FlawInv(next, cursor[<<r, Designs>>], cursor[<<r, Reviews>>])
  BY <1>4 DEF PassedInv, FlawInv, Underway
<1>7. InjectedInv(next)
  BY <1>1, <1>3, <1>4 DEF InjectedInv
<1>8. QED
  BY <1>2, <1>5, <1>6, <1>7, DesignCalls, OneRunDelivers

\* The judge's first answer to a design of the fraud example is critical, and its
\* mean too low for a second opinion: the gate asks for another attempt.
LEMMA FirstReview ==
  ASSUME Guarded, NEW r \in Runs, run[r].source = "fraud-mainframe",
         cursor[<<r, Reviews>>] = 0, ~Injected(r, Reviews), NEW n \in Nat, n <= 1
  PROVE  LET x == Response(r, Reviews)
         IN  /\ x # Garbage /\ x # NoOutput /\ ~Confirms(x, n, FALSE)
             /\ Evaluate(FALSE, x, NoOutput, n, FALSE).verdict = "retry"
             /\ Evaluate(FALSE, x, NoOutput, n, FALSE) = Story("fraud-mainframe")
<1> DEFINE x == Response(r, Reviews)
<1>1. x = <<3, 1, 1, 4, 3>>
  <2>1. x = Drawn(Script("fraud-mainframe", Reviews), cursor[<<r, Reviews>>] + 1)
    BY DEF Response, Scripted, CursorKey, Drawn
  <2>2. Script("fraud-mainframe", Reviews) = <<<<3, 1, 1, 4, 3>>, <<5, 4, 5, 4, 4>>>>
    BY FraudMainframeScript DEF Script, Reviews
  <2>3. QED
    BY <2>1, <2>2, DrawnFacts
<1> HIDE DEF x
<1>2. /\ x \in ScoreVector /\ x[1] = 3 /\ x[2] = 1 /\ x[3] = 1 /\ x[4] = 4 /\ x[5] = 3
  BY <1>1 DEF ScoreVector, Dimensions
<1>3. x # Garbage /\ x # NoOutput
  BY <1>2, DemoAssumption, PolicyAssumption
<1>4. Mean(x) = 240
  BY <1>2 DEF Mean
<1>5. IsCritical(x)
  <2>1. \E d \in Dimensions : x[d] = 1
    BY <1>2 DEF Dimensions
  <2>2. \A d \in Dimensions : 1 <= x[d]
    BY <1>2 DEF Dimensions, ScoreVector
  <2>3. \A m \in 1..5 : (\E d \in Dimensions : x[d] = m) /\ (\A d \in Dimensions : m <= x[d])
                          => m = 1
    BY <2>1, <2>2
  <2>4. QED
    BY <2>1, <2>2, <2>3 DEF IsCritical, Minimum
<1>6. DecideVerdict(x, n, FALSE) = "retry"
  <2>1. ~Passes(x)
    BY <1>5 DEF Passes
  <2>2. ~Exhausted(n)
    BY PolicyAssumption DEF Guarded, Exhausted
  <2>3. ~CriticalStops(x, FALSE)
    BY DEF Guarded, CriticalStops
  <2>4. QED
    BY <2>1, <2>2, <2>3 DEF DecideVerdict
<1>7. ~Confirms(x, n, FALSE)
  <2>1. ~(BorderlineLow <= Mean(x))
    BY <1>4, PolicyAssumption DEF Guarded
  <2>2. ~NeedsTier2Confirmation(x, DecideVerdict(x, n, FALSE))
    BY <1>6, <2>1 DEF NeedsTier2Confirmation
  <2>3. QED
    BY <2>2 DEF Confirms
<1>8. /\ Evaluate(FALSE, x, NoOutput, n, FALSE).verdict = "retry"
      /\ Evaluate(FALSE, x, NoOutput, n, FALSE) = Story("fraud-mainframe")
  <2>1. Evaluate(FALSE, x, NoOutput, n, FALSE) = Scored(x, FirstTier, n, FALSE)
    BY <1>3 DEF Evaluate
  <2>2. JudgeSource(FirstTier) = "tier1"
    BY DEF JudgeSource, FirstTier, JudgeTier, Guarded
  <2>3. IsCritical(x) = TRUE
    BY <1>5 DEF IsCritical
  <2>4. Scored(x, FirstTier, n, FALSE) = Story("fraud-mainframe")
    BY <1>6, <2>2, <2>3 DEF Scored, Story
  <2>5. Story("fraud-mainframe").verdict = "retry"
    BY DEF Story
  <2>6. QED
    BY <2>1, <2>4, <2>5
<1>9. QED
  BY <1>3, <1>7, <1>8 DEF x

\* The judge a gate or a confirmation calls.
JudgePurpose(r) ==
  <<"judge", run[r].node.stage, IF run[r].node.kind = "gate" THEN FirstTier ELSE JudgeTier(TRUE)>>

JudgeScores(r) ==
  IF Response(r, JudgePurpose(r)) = Garbage THEN NoOutput ELSE Response(r, JudgePurpose(r))

\* What a judge's call makes of a run: the repair is asked for, the second opinion
\* is, or the gate concludes.
JudgeUpdate(r, next) ==
  LET state   == run[r]
      s       == state.node.stage
      n       == state.retries[s]
      used    == state.critical_used[s]
  IN  \/ /\ Kept(state, next) /\ next.artifacts = state.artifacts
         /\ next.invalid = state.invalid /\ next.tries \in Nat
         /\ \/ next.node = state.node /\ Response(r, JudgePurpose(r)) = Garbage
            \/ /\ next.node = Node("confirm", s) /\ state.node.kind = "gate"
               /\ next.first = JudgeScores(r)
               /\ JudgeScores(r) # NoOutput /\ Confirms(JudgeScores(r), n, used)
      \/ \E outcome \in GateOutcome :
           /\ GateUpdate(r, state, outcome, next)
           /\ outcome = IF state.node.kind = "gate"
                        THEN Evaluate(FALSE, JudgeScores(r), NoOutput, n, used)
                        ELSE Evaluate(FALSE, state.first, JudgeScores(r), n, used)
           /\ state.node.kind = "gate" =>
                ~(JudgeScores(r) # NoOutput /\ Confirms(JudgeScores(r), n, used))

LEMMA JudgeEffect ==
  ASSUME DeliveryInv, NEW r \in Runs, JudgeCall(r)
  PROVE  /\ run[r].node.kind \in {"gate", "confirm"}
         /\ run[r].node.kind = "gate" => ~Rejected(r)
         /\ Complete(r, JudgePurpose(r)) /\ JudgePurpose(r) \in Purposes
         /\ \E next : run' = [run EXCEPT ![r] = next] /\ JudgeUpdate(r, next)
<1> DEFINE state  == run[r]
           s      == state.node.stage
           n      == state.retries[s]
           used   == state.critical_used[s]
           x      == Response(r, JudgePurpose(r))
           scores == JudgeScores(r)
           after  == Answered(state)
           next   == CASE Repairable(r, x) -> [after EXCEPT !.tries = @ + 1]
                       [] ~Repairable(r, x) /\ At(r, "gate") ->
                            IF scores # NoOutput /\ Confirms(scores, n, used)
                            THEN [after EXCEPT !.node = Node("confirm", s), !.first = scores,
                                               !.tries = 0]
                            ELSE Concluded(r, after, Evaluate(FALSE, scores, NoOutput, n, used))
                       [] OTHER ->
                            Concluded(r, after, Evaluate(FALSE, state.first, scores, n, used))
<1>1. /\ state.node.kind \in {"gate", "confirm"} /\ (state.node.kind = "gate" => ~Rejected(r))
      /\ Complete(r, JudgePurpose(r)) /\ run' = [run EXCEPT ![r] = next]
  BY DEF JudgeCall, JudgePurpose, JudgeScores, At, Stage
<1>2. /\ StateOK(state) /\ s \in Gated /\ n \in Nat /\ state.tries \in Nat
      /\ DOMAIN state = Fields
  BY <1>1 DEF DeliveryInv, StateOK
<1>3. JudgePurpose(r) \in Purposes
  <2>1. FirstTier \in 1..2 /\ JudgeTier(TRUE) \in 1..2
    BY DEF FirstTier, JudgeTier
  <2>2. QED
    <3>1. \A stage \in PM..Dev, tier \in 1..2 : <<"judge", stage, tier>> \in Purposes
      BY DEF Purposes, JudgeCalls
    <3>2. s \in PM..Dev
      BY <1>2 DEF Gated
    <3>3. QED
      BY <2>1, <3>1, <3>2 DEF JudgePurpose
<1>4. /\ DOMAIN after = Fields /\ after.tries = state.tries
      /\ \A f \in {"source", "fault", "retries", "critical_used", "evaluations",
                   "node", "artifacts", "invalid"} : after[f] = state[f]
  BY <1>2 DEF Answered, Fields
<1>5. \A outcome : GateUpdate(r, state, outcome, Concluded(r, after, outcome))
  BY <1>2, <1>4, ConcludedUpdate
<1> HIDE DEF after
<1>6. JudgeUpdate(r, next)
  <2>1. CASE Repairable(r, x)
    <3>1. next = [after EXCEPT !.tries = @ + 1] /\ x = Garbage
      BY <2>1 DEF Repairable
    <3> HIDE DEF next, x
    <3>2. /\ DOMAIN next = Fields /\ next.tries = state.tries + 1
          /\ \A f \in {"source", "fault", "retries", "critical_used", "evaluations",
                       "node", "artifacts", "invalid"} : next[f] = state[f]
      BY <1>4, <3>1 DEF Fields
    <3>3. next.tries \in Nat
      BY <1>2, <3>2
    <3>4. QED
      BY <3>1, <3>2, <3>3 DEF JudgeUpdate, Kept, x
  <2>2. CASE ~Repairable(r, x) /\ At(r, "gate") /\ scores # NoOutput /\ Confirms(scores, n, used)
    <3>1. next = [after EXCEPT !.node = Node("confirm", s), !.first = scores, !.tries = 0]
      BY <2>2
    <3> HIDE DEF next, scores
    <3>2. /\ DOMAIN next = Fields /\ next.tries = 0 /\ next.node = Node("confirm", s)
          /\ next.first = scores
          /\ \A f \in {"source", "fault", "retries", "critical_used", "evaluations",
                       "artifacts", "invalid"} : next[f] = state[f]
      BY <1>4, <3>1 DEF Fields
    <3>3. state.node.kind = "gate" /\ JudgeScores(r) # NoOutput
            /\ Confirms(JudgeScores(r), n, used)
      BY <2>2 DEF scores, At
    <3>4. Kept(state, next) /\ next.artifacts = state.artifacts /\ next.invalid = state.invalid
      BY <3>2 DEF Kept
    <3>5. next.tries \in Nat /\ next.node = Node("confirm", s) /\ next.first = JudgeScores(r)
      BY <3>2 DEF scores
    <3>6. QED
      BY <3>3, <3>4, <3>5, Zenon DEF JudgeUpdate
  <2>3. CASE ~Repairable(r, x) /\ At(r, "gate")
               /\ ~(scores # NoOutput /\ Confirms(scores, n, used))
    <3> DEFINE outcome == Evaluate(FALSE, scores, NoOutput, n, used)
    <3>1. next = Concluded(r, after, outcome)
      BY <2>3
    <3>2. outcome \in GateOutcome
      BY <1>2, OutcomeFacts
    <3>3. GateUpdate(r, state, outcome, next)
      BY <1>5, <3>1
    <3>4. outcome = IF state.node.kind = "gate"
                    THEN Evaluate(FALSE, JudgeScores(r), NoOutput, n, used)
                    ELSE Evaluate(FALSE, state.first, JudgeScores(r), n, used)
      BY <2>3 DEF At
    <3>5. state.node.kind = "gate" =>
            ~(JudgeScores(r) # NoOutput /\ Confirms(JudgeScores(r), n, used))
      BY <2>3
    <3> HIDE DEF next, outcome
    <3>6. QED
      BY <3>2, <3>3, <3>4, <3>5, Zenon DEF JudgeUpdate
  <2>4. CASE ~Repairable(r, x) /\ ~At(r, "gate")
    <3> DEFINE outcome == Evaluate(FALSE, state.first, scores, n, used)
    <3>1. next = Concluded(r, after, outcome)
      BY <2>4
    <3>2. outcome \in GateOutcome
      BY <1>2, OutcomeFacts
    <3>3. GateUpdate(r, state, outcome, next)
      BY <1>5, <3>1
    <3>4. outcome = IF state.node.kind = "gate"
                    THEN Evaluate(FALSE, JudgeScores(r), NoOutput, n, used)
                    ELSE Evaluate(FALSE, state.first, JudgeScores(r), n, used)
      BY <2>4 DEF At
    <3>5. state.node.kind # "gate"
      BY <2>4 DEF At
    <3> HIDE DEF next, outcome
    <3>6. QED
      BY <3>2, <3>3, <3>4, <3>5, Zenon DEF JudgeUpdate
  <2>5. QED
    BY <2>1, <2>2, <2>3, <2>4
<1>7. QED
  BY <1>1, <1>3, <1>6

\* What reaches a judge is valid and passed the checks.
LEMMA JudgedIsSound ==
  ASSUME Guarded, DeliveryInv, NEW r \in Runs, run[r].node.kind \in {"gate", "confirm"},
         run[r].node.kind = "gate" => ~Rejected(r)
  PROVE  /\ ~run[r].invalid
         /\ blocking(FindingsOf(run[r].artifacts, run[r].node.stage)) = {}
         /\ run[r].artifacts[run[r].node.stage] # Nothing
         /\ Expected(run[r].source, run[r].node.stage, run[r].artifacts[run[r].node.stage])
<1>1. PassedInv(run[r])
  BY DEF DeliveryInv
<1>2. /\ ~run[r].invalid
      /\ blocking(FindingsOf(run[r].artifacts, run[r].node.stage)) = {}
  BY <1>1 DEF PassedInv, Rejected, Guarded, Stage
<1>3. QED
  BY <1>1, <1>2 DEF PassedInv

\* A flawed design that could be passed, or was injected, is sent back at once.
LEMMA FlawMeetsReview ==
  ASSUME Guarded, DeliveryInv, NEW r \in Runs, run[r].node.kind = "gate", ~Rejected(r),
         run[r].source = "fraud-mainframe", run[r].node.stage = Architect,
         run[r].artifacts[Architect] = FlawedDesign,
         run[r].fault.item = FlawedDesign =>
           run[r].retries[Architect] = 0 /\ run[r].fault.item # Garbage
             /\ run[r].fault.purpose = Designs,
         NEW next, JudgeUpdate(r, next), Complete(r, JudgePurpose(r))
  PROVE  \/ /\ next.node = run[r].node
            /\ Response(r, JudgePurpose(r)) = Garbage /\ cursor'[<<r, Reviews>>] = 0
         \/ \E outcome \in GateOutcome :
              /\ GateUpdate(r, run[r], outcome, next) /\ outcome.verdict # "pass"
              /\ run[r].fault.item = FlawedDesign => outcome.verdict = "retry"
<1> DEFINE state  == run[r]
           n      == state.retries[Architect]
           used   == state.critical_used[Architect]
           scores == JudgeScores(r)
           x      == Response(r, Reviews)
<1>1. JudgePurpose(r) = Reviews
  BY DEF JudgePurpose, Reviews, FirstTier, JudgeTier, Guarded
<1>2. ~state.invalid
  BY JudgedIsSound
<1>3. /\ StateOK(state) /\ state.source \in Sources /\ state.fault \in Faults(state.source)
      /\ FlawInv(state, cursor[<<r, Designs>>], cursor[<<r, Reviews>>])
  BY DEF DeliveryInv, StateOK
<1>4. cursor[<<r, Reviews>>] = 0 /\ used = FALSE /\ n \in Nat /\ n <= 1
  <2>1. n \in Nat /\ used \in BOOLEAN
    BY <1>3, StageNumbers DEF StateOK
  <2>2. cursor[<<r, Reviews>>] = 0 /\ ~used /\ n <= 1
    BY <1>2, <1>3, <2>1 DEF FlawInv, Underway
  <2>3. QED
    BY <2>1, <2>2
<1>5. CASE Injected(r, Reviews)
  <2>1. state.fault.purpose = Reviews /\ x = state.fault.item
    BY <1>5 DEF Injected, Response
  <2>2. x = Garbage
    BY <1>3, <2>1, FaultFacts DEF Reviews
  <2>3. scores = NoOutput /\ state.fault.item # FlawedDesign
    BY <1>1, <2>1, <2>2, DesignCalls DEF JudgeScores
  <2>4. cursor'[<<r, Reviews>>] = 0
    BY <1>1, <1>4, <1>5, DesignCalls, CursorFacts
  <2>5. \A u, m : Evaluate(FALSE, NoOutput, NoOutput, m, u).verdict = "escalate"
    BY DEF Evaluate, JudgeFailure
  <2>6. QED
    BY <1>1, <2>2, <2>3, <2>4, <2>5 DEF JudgeUpdate
<1>6. CASE ~Injected(r, Reviews)
  <2>1. /\ x # Garbage /\ x # NoOutput /\ ~Confirms(x, n, FALSE)
        /\ Evaluate(FALSE, x, NoOutput, n, FALSE).verdict = "retry"
    BY <1>4, <1>6, FirstReview
  <2>2. scores = x
    BY <1>1, <2>1 DEF JudgeScores
  <2>3. QED
    BY <1>1, <1>4, <2>1, <2>2 DEF JudgeUpdate
<1>7. QED
  BY <1>5, <1>6

LEMMA ConcludedKinds ==
  ASSUME NEW r, NEW state, NEW outcome, NEW next, GateUpdate(r, state, outcome, next)
  PROVE  next.node.kind \in {"persona", "blocked"}
BY NodeFacts DEF GateUpdate

LEMMA JudgeDelivers ==
  ASSUME Guarded, DeliveryInv, NEW r \in Runs, JudgeCall(r)
  PROVE  DeliveryInv'
<1> DEFINE state  == run[r]
           s      == state.node.stage
           n      == state.retries[s]
           fault  == state.fault
           drawn  == cursor[<<r, Designs>>]
           judged == cursor[<<r, Reviews>>]
           flawed == fault.item = FlawedDesign
           design == state.source = "fraud-mainframe" /\ s = Architect
           injected == fault.item # Garbage /\ s = fault.purpose[2] /\ n = 0
<1>1. /\ state.node.kind \in {"gate", "confirm"} /\ (state.node.kind = "gate" => ~Rejected(r))
      /\ Complete(r, JudgePurpose(r)) /\ JudgePurpose(r) \in Purposes
  BY JudgeEffect
<1>2. PICK next : run' = [run EXCEPT ![r] = next] /\ JudgeUpdate(r, next)
  BY JudgeEffect
<1>3. /\ StateOK(state) /\ PassedInv(state) /\ InjectedInv(state)
      /\ FlawInv(state, drawn, judged)
  BY DEF DeliveryInv
<1>4. /\ ~state.invalid /\ blocking(FindingsOf(state.artifacts, s)) = {}
      /\ Expected(state.source, s, state.artifacts[s])
  BY <1>1, JudgedIsSound
<1>5. drawn \in Nat /\ judged \in Nat /\ s \in Gated /\ n \in Nat
      /\ DOMAIN state = Fields /\ state.tries \in Nat
  BY <1>1, <1>3, DesignCalls DEF DeliveryInv, StateOK
<1>6. /\ cursor' = cursor \/ cursor' = [cursor EXCEPT ![<<r, JudgePurpose(r)>>] = @ + 1]
      /\ cursor'[<<r, Designs>>] = drawn
      /\ s # Architect => cursor'[<<r, Reviews>>] = judged
  <2>1. JudgePurpose(r) # Designs /\ (s # Architect => JudgePurpose(r) # Reviews)
    BY DEF JudgePurpose, Designs, Reviews
  <2>2. QED
    BY <1>1, <2>1, DesignCalls, CursorFacts
<1>7. design /\ ~flawed => drawn > 0
  <2>1. design /\ ~flawed /\ state.node.kind = "confirm" => drawn > 0
    BY <1>3, <1>5 DEF FlawInv, Underway
  <2>2. design /\ ~flawed /\ state.node.kind = "gate" /\ drawn = 0 =>
          state.artifacts[Architect] = UnmitigatedDesign
    BY <1>3, <1>4 DEF FlawInv, Underway
  <2>3. design => state.artifacts[Architect] # UnmitigatedDesign
    BY <1>4, ItemBlocked
  <2>4. QED
    BY <1>1, <1>5, <2>1, <2>2, <2>3
<1>8. injected => /\ state.node.kind = "gate" /\ design /\ flawed
                  /\ state.artifacts[Architect] = FlawedDesign /\ fault.purpose = Designs
  BY <1>1, <1>4, InjectedAtGate
<1>9. state.node.kind = "confirm" /\ design /\ ~flawed =>
        state.artifacts[Architect] # FlawedDesign
  BY <1>3 DEF FlawInv, Underway
<1>10. state.artifacts[Architect].presumes /\ s = Architect =>
         design /\ state.artifacts[Architect] = FlawedDesign
  BY <1>4 DEF Expected
<1> HIDE DEF drawn, judged
\* A flawed design that may not be passed goes back.
<1>11. ASSUME state.node.kind = "gate", design, state.artifacts[Architect] = FlawedDesign,
              injected \/ ~flawed
       PROVE  \/ /\ next.node = state.node
                 /\ Response(r, JudgePurpose(r)) = Garbage /\ cursor'[<<r, Reviews>>] = 0
              \/ \E outcome \in GateOutcome :
                   /\ GateUpdate(r, state, outcome, next) /\ outcome.verdict # "pass"
                   /\ flawed => outcome.verdict = "retry"
  BY <1>1, <1>2, <1>8, <1>11, FlawMeetsReview
<1> DEFINE sentback == /\ state.node.kind = "gate" /\ design
                       /\ state.artifacts[Architect] = FlawedDesign /\ (injected \/ ~flawed)
           same    == /\ Kept(state, next) /\ next.artifacts = state.artifacts
                      /\ next.invalid = state.invalid /\ next.tries \in Nat
           repair  == /\ same /\ next.node = state.node
                      /\ sentback => cursor'[<<r, Reviews>>] = 0
           confirm == /\ same /\ next.node = Node("confirm", s) /\ state.node.kind = "gate"
                      /\ ~sentback
           concludes(outcome) == /\ GateUpdate(r, state, outcome, next)
                                 /\ sentback => /\ outcome.verdict # "pass"
                                                /\ flawed => outcome.verdict = "retry"
<1>12. \/ same /\ next.node = state.node
       \/ same /\ next.node = Node("confirm", s) /\ state.node.kind = "gate"
       \/ \E outcome \in GateOutcome : GateUpdate(r, state, outcome, next)
  BY <1>2, Zenon DEF JudgeUpdate
<1>13. repair \/ confirm \/ \E outcome \in GateOutcome : concludes(outcome)
  <2>1. CASE ~sentback
    BY <1>12, <2>1
  <2>2. CASE sentback
    <3>1. \/ next.node = state.node /\ cursor'[<<r, Reviews>>] = 0
          \/ \E outcome \in GateOutcome : concludes(outcome)
      BY <1>11, <2>2
    <3>2. next.node = state.node => same
      <4>1. ASSUME next.node = state.node, NEW outcome, GateUpdate(r, state, outcome, next)
            PROVE  FALSE
        <5>1. next.node.kind \in {"persona", "blocked"}
          BY <4>1, ConcludedKinds
        <5>2. QED
          BY <1>1, <4>1, <5>1
      <4>2. next.node = state.node => next.node # Node("confirm", s)
        BY <2>2, NodeFacts
      <4>3. QED
        BY <1>12, <4>1, <4>2
    <3>3. QED
      BY <2>2, <3>1, <3>2
  <2>3. QED
    BY <2>1, <2>2
<1>14. same => /\ DOMAIN next = Fields /\ next.source = state.source /\ next.fault = fault
               /\ next.retries = state.retries /\ next.evaluations = state.evaluations
               /\ next.critical_used = state.critical_used
               /\ next.artifacts = state.artifacts /\ next.invalid = state.invalid
               /\ next.tries \in Nat
  BY DEF Kept
<1> HIDE DEF same, concludes
<1>15. CASE repair
  <2>1. StateOK(next) /\ PassedInv(next) /\ InjectedInv(next)
    <3>1. StateOK(next)
      BY <1>1, <1>3, <1>14, <1>15 DEF StateOK
    <3>2. PassedInv(next)
      BY <1>1, <1>3, <1>14, <1>15 DEF PassedInv, Underway, Behind, SoundAt
    <3>3. InjectedInv(next)
      BY <1>1, <1>3, <1>14, <1>15 DEF InjectedInv
    <3>4. QED
      BY <3>1, <3>2, <3>3
  <2>2. FlawInv(next, drawn, cursor'[<<r, Reviews>>])
    <3>1. CASE s # Architect
      BY <1>1, <1>3, <1>6, <1>14, <1>15, <3>1 DEF FlawInv, Underway
    <3>2. CASE ~design /\ s = Architect
      BY <1>1, <1>14, <1>15, <3>2 DEF FlawInv, Underway
    <3>3. CASE design
      <4>1. flawed /\ fault.item # Garbage /\ n = 0 => injected
        <5>1. state.source \in Sources /\ fault \in Faults(state.source)
          BY <1>1, <1>3 DEF StateOK
        <5>2. flawed /\ fault.item # Garbage => fault.purpose[2] = Architect
          BY <5>1, FaultFacts, ItemExpected
        <5>3. QED
          BY <3>3, <5>2
      <4>2. state.node.kind = "gate" /\ (injected \/ ~flawed)
              /\ state.artifacts[Architect] = FlawedDesign => cursor'[<<r, Reviews>>] = 0
        BY <1>15, <3>3
      <4>3. state.node.kind = "gate" /\ injected =>
              cursor'[<<r, Reviews>>] = 0 /\ ~state.critical_used[Architect]
        BY <1>1, <1>3, <1>8, <3>3, <4>2 DEF FlawInv, Underway
      <4>4. state.node.kind = "gate" /\ ~flawed /\ state.artifacts[Architect] = FlawedDesign =>
              /\ cursor'[<<r, Reviews>>] = 0 /\ ~state.critical_used[Architect]
              /\ state.retries[Architect] <= 1
        BY <1>3, <1>4, <3>3, <4>2 DEF FlawInv, Underway
      <4>5. QED
        BY <1>1, <1>5, <1>7, <1>9, <1>14, <1>15, <3>3, <4>1, <4>3, <4>4, StageNumbers
        DEF FlawInv
    <3>4. QED
      BY <3>1, <3>2, <3>3
  <2>3. QED
    BY <1>1, <1>2, <1>6, <2>1, <2>2, OneRunDelivers DEF drawn
<1>16. CASE confirm
  <2>1. next.node.kind = "confirm" /\ next.node.stage = s
        /\ DOMAIN next.node = {"kind", "stage"}
    BY <1>16, NodeFacts
  <2>2. StateOK(next)
    BY <1>1, <1>3, <1>5, <1>14, <1>16, <2>1 DEF StateOK, Kinds
  <2>3. PassedInv(next)
    BY <1>1, <1>3, <1>4, <1>14, <1>16, <2>1 DEF PassedInv, Underway, Behind, SoundAt
  <2>4. InjectedInv(next)
    <3>1. ~injected
      BY <1>8, <1>16
    <3>2. QED
      BY <1>3, <1>14, <1>16, <2>1, <3>1 DEF InjectedInv
  <2>5. FlawInv(next, drawn, cursor'[<<r, Reviews>>])
    <3>1. CASE s # Architect
      BY <1>1, <1>3, <1>6, <1>14, <1>16, <2>1, <3>1 DEF FlawInv, Underway
    <3>2. CASE ~design /\ s = Architect
      BY <1>1, <1>14, <1>16, <2>1, <3>2 DEF FlawInv, Underway
    <3>3. CASE design
      <4>1. ~flawed => drawn > 0 /\ state.artifacts[Architect] # FlawedDesign
        BY <1>7, <1>16, <3>3
      <4>2. QED
        BY <1>14, <1>16, <2>1, <3>3, <4>1, StageNumbers DEF FlawInv
    <3>4. QED
      BY <3>1, <3>2, <3>3
  <2>6. QED
    BY <1>1, <1>2, <1>6, <2>2, <2>3, <2>4, <2>5, OneRunDelivers DEF drawn
<1>17. ASSUME NEW outcome \in GateOutcome, concludes(outcome)
       PROVE  DeliveryInv'
  <2>1. /\ GateUpdate(r, state, outcome, next)
        /\ sentback => outcome.verdict # "pass" /\ (flawed => outcome.verdict = "retry")
    BY <1>17 DEF concludes
  <2>2. outcome.verdict = "pass" /\ s = Architect /\ state.artifacts[Architect].presumes =>
          flawed
    BY <1>1, <1>9, <1>10, <2>1
  <2>3. StateOK(next) /\ PassedInv(next)
    BY <1>1, <1>4, <2>1, <2>2, GatePassed
  <2>4. InjectedInv(next)
    <3>1. injected => outcome.verdict = "retry"
      BY <1>8, <2>1
    <3>2. QED
      BY <1>1, <2>1, <3>1, GateInjected
  <2>5. FlawInv(next, drawn, cursor'[<<r, Reviews>>])
    <3>1. ~(design /\ ~flawed /\ drawn = 0)
      BY <1>5, <1>7
    <3>2. QED
      BY <1>1, <1>6, <2>1, <3>1, GateFlaw DEF drawn, judged
  <2>6. QED
    BY <1>1, <1>2, <1>6, <2>3, <2>4, <2>5, OneRunDelivers DEF drawn
<1>18. QED
  BY <1>13, <1>15, <1>16, <1>17

LEMMA DeliveryStep ==
  ASSUME Guarded, DeliveryInv, [DemoNext]_demoVars
  PROVE  DeliveryInv'
<1>1. CASE UNCHANGED demoVars
  BY <1>1 DEF demoVars, DeliveryInv
<1>2. CASE DemoNext
  BY <1>2, AssignDelivers, PersonaDelivers, RejectionDelivers, JudgeDelivers, RaiseDelivers
  DEF DemoNext
<1>3. QED
  BY <1>1, <1>2

\* Where every gate's checks, tiers and fast track are as the code ships them, no
\* run of any mix of runs, faults and repairs completes with, or shows a persona,
\* an artifact its checks would block, leaves a criterion undeclared or a report
\* of other code, or passes injected content at once (gate_node, check_*,
\* decide_verdict, FaultInjectingLLMClient).
THEOREM DeliverySafety == Guarded => (DemoSpec => []NoDefectSurvives)
<1> SUFFICES ASSUME Guarded
             PROVE  DemoSpec => []NoDefectSurvives
  OBVIOUS
<1>1. DeliveryInv => NoDefectSurvives
  <2> SUFFICES ASSUME DeliveryInv, NEW r \in Runs
               PROVE  LET a == run[r].artifacts
                          Sound(s) == a[s] # Nothing
                                        /\ (s \in Gated => blocking(FindingsOf(a, s)) = {})
                      IN  /\ At(r, "persona") => \A s \in PersonaReads(Stage(r)) : Sound(s)
                          /\ At(r, "complete") =>
                               /\ \A s \in PM..QA : Sound(s)
                               /\ uncovered_acceptance_criteria(a[QA], a[BA]) = {}
                               /\ a[QA].execution.syntax_errors = a[Dev].broken
                               /\ a[Architect].presumes => run[r].fault.item = FlawedDesign
                          /\ run[r].fault.item # Garbage =>
                               \A e \in {run[r].evaluations[i] : i \in 1..Len(run[r].evaluations)} :
                                 e.stage = run[r].fault.purpose[2] /\ e.attempt = 1 =>
                                   e.outcome.verdict = "retry"
    BY DEF NoDefectSurvives
  <2> DEFINE state == run[r]
             a     == state.artifacts
             s     == state.node.stage
  <2>1. StateOK(state) /\ PassedInv(state) /\ InjectedInv(state)
    BY DEF DeliveryInv
  <2>2. state.node.kind \in {"persona", "complete"} =>
          \A t \in Behind(state) : SoundAt(state, t)
    BY <2>1 DEF PassedInv, Underway
  <2>3. ASSUME state.node.kind = "persona", NEW t \in PersonaReads(s)
        PROVE  a[t] # Nothing /\ (t \in Gated => blocking(FindingsOf(a, t)) = {})
    <3>1. t \in Behind(state)
      <4>1. s \in 1..5
        BY <2>1, StageNumbers DEF StateOK
      <4>2. t \in PM..QA /\ t < s
        BY <2>3, <4>1 DEF PersonaReads, PMReads, BAReads, ArchitectReads, DevReads, QAReads,
                          PM, BA, Architect, Dev, QA
      <4>3. QED
        BY <4>2 DEF Behind
    <3>2. QED
      BY <2>2, <2>3, <3>1 DEF SoundAt
  <2>4. ASSUME state.node.kind = "complete"
        PROVE  /\ \A t \in PM..QA : a[t] # Nothing
                                       /\ (t \in Gated => blocking(FindingsOf(a, t)) = {})
               /\ uncovered_acceptance_criteria(a[QA], a[BA]) = {}
               /\ a[QA].execution.syntax_errors = a[Dev].broken
               /\ a[Architect].presumes => state.fault.item = FlawedDesign
    <3>1. Behind(state) = PM..QA /\ QA \in PM..QA /\ BA \in PM..QA /\ Architect \in PM..QA
      BY <2>4, StageNumbers DEF Behind
    <3>2. \A t \in PM..QA : SoundAt(state, t)
      BY <2>2, <2>4, <3>1
    <3>3. Expected(state.source, QA, a[QA]) /\ Expected(state.source, BA, a[BA])
      BY <3>1, <3>2 DEF SoundAt
    <3>4. state.source \in Sources
      BY <2>1, <2>4 DEF StateOK
    <3>5. uncovered_acceptance_criteria(a[QA], a[BA]) = {}
      BY <3>3, <3>4, PlanCovers
    <3>6. /\ a[QA].execution.syntax_errors = a[Dev].broken
          /\ a[Architect].presumes => state.fault.item = FlawedDesign
      BY <2>1, <2>4, <3>1 DEF PassedInv
    <3>7. QED
      BY <3>2, <3>5, <3>6 DEF SoundAt
  <2>5. state.fault.item # Garbage =>
          \A i \in 1..Len(state.evaluations) :
            LET e == state.evaluations[i]
            IN  e.stage = state.fault.purpose[2] /\ e.attempt = 1 => e.outcome.verdict = "retry"
    <3>1. CASE state.node.kind = "new"
      <4>1. state.fault = NoFault
        BY <2>1, <3>1 DEF StateOK, NotStarted
      <4>2. QED
        BY <4>1 DEF NoFault
    <3>2. CASE state.node.kind # "new"
      BY <2>1, <3>2 DEF InjectedInv
    <3>3. QED
      BY <3>1, <3>2
  <2>6. QED
    BY <2>3, <2>4, <2>5 DEF At, Stage
<1>2. QED
  BY <1>1, DeliveryInit, DeliveryStep, PTL DEF DemoSpec

------------------------------------------------------------------------------
(* The story a run tells.                                                  *)

\* The settings the examples were made for, around the shipped ones: the borderline
\* answers lie in the band, the good ones above it.
Curated ==
  /\ Guarded /\ MinDimension <= 4
  /\ 380 < PassThreshold /\ PassThreshold <= 420 /\ BorderlineLow <= 320

\* The retries a source is made to show, its drafts by attempt, and the answers of
\* its judges.
Due(source, s) == IF s = StoryStage(source) THEN 1 ELSE 0

Draft(source, s, n) ==
  IF source = "simulator" THEN Template(s, n) ELSE Drawn(Script(source, <<"persona", s, 0>>), n)

Answer(source, s, tier, n) ==
  IF source = "simulator" THEN Judgement(s, Draft(source, s, n))
  ELSE Drawn(Script(source, <<"judge", s, tier>>), n)

\* A stage of a run without faults: behind it, each has had the retries it is due
\* and holds its last draft; each draft and each judge's answer was used once.
Tracked(state, used, t) ==
  LET source  == state.source
      kind    == state.node.kind
      s       == state.node.stage
      n       == state.retries[t]
      drafts  == used[<<"persona", t, 0>>]
      answers == used[<<"judge", t, 1>>]
  IN  /\ t < s => /\ n = Due(source, t) /\ state.artifacts[t] = Draft(source, t, n + 1)
                  /\ source # "simulator" => drafts = n + 1 /\ answers = n + 1
      /\ t > s => /\ n = 0
                  /\ source # "simulator" => drafts = 0 /\ answers = 0
      /\ t = s => /\ n <= Due(source, t)
                  /\ source # "simulator" =>
                       /\ drafts = IF kind = "persona" THEN n ELSE n + 1
                       /\ answers = IF kind = "confirm" THEN n + 1 ELSE n
      /\ state.critical_used[t] => n > 0

\* The retry has been asked for as the story has it.
Told(state) ==
  state.retries[StoryStage(state.source)] = 1 =>
    \E i \in 1..Len(state.evaluations) :
      LET e == state.evaluations[i]
      IN  e.stage = StoryStage(state.source) /\ e.attempt = 1
            /\ e.outcome = Story(state.source)

OnTrack(state, used) ==
  LET source == state.source
      kind   == state.node.kind
      s      == state.node.stage
  IN  /\ kind # "blocked"
      /\ \A t \in Gated : Tracked(state, used, t)
      /\ kind \in {"gate", "confirm"} =>
           ~state.invalid /\ state.artifacts[s] = Draft(source, s, state.retries[s] + 1)
      /\ kind = "confirm" =>
           /\ source # "fraud-mainframe" /\ s = StoryStage(source) /\ state.retries[s] = 0
           /\ state.first = Answer(source, s, 1, 1)
      /\ Told(state)

Used(r) == [p \in Purposes |-> cursor[<<r, p>>]]

StoryInv ==
  \A r \in Runs :
    /\ run[r].node.kind = "new" => \A p \in Purposes : cursor[<<r, p>>] = 0
    /\ run[r].fault = NoFault /\ run[r].node.kind \notin {"new", "failed"} =>
         OnTrack(run[r], Used(r))

\* The drafts, by source: the first of two where there is a story to tell.
LEMMA SimulatedDrafts ==
  ASSUME NEW n \in Nat
  PROVE  /\ Draft("simulator", PM, n) = TemplateBrief(n > 1)
         /\ Draft("simulator", BA, n) = TemplateRequirements
         /\ Draft("simulator", Architect, n) = SoundDesign(2, 2)
         /\ Draft("simulator", Dev, n) = Slice(4)
         /\ Draft("simulator", QA, n) = TemplatePlan
BY StageNumbers DEF Draft, Template

LEMMA LeaveDrafts ==
  ASSUME NEW n \in Nat, n >= 1
  PROVE  /\ Draft("leave-management", PM, n) = CuratedBrief(3)
         /\ Draft("leave-management", BA, n) =
              IF n = 1
              THEN [criteria |-> <<2, 2, 1, 1>>, trace |-> <<{0}, {1}, {0, 2}, {3}>>,
                    questions |-> 1]
              ELSE [criteria |-> <<3, 3, 2, 2, 2>>,
                    trace |-> <<{0}, {1}, {0, 2}, {2}, {3}>>, questions |-> 5]
         /\ Draft("leave-management", Architect, n) = SoundDesign(3, 3)
         /\ Draft("leave-management", Dev, n) = Slice(5)
         /\ Draft("leave-management", QA, n) =
              Plan(Criteria(1, 3) \union Criteria(2, 3) \union {<<3, 1>>, <<5, 1>>},
                   {<<3, 2>>, <<5, 2>>} \union Criteria(4, 2))
<1>1. \A s : Draft("leave-management", s, n) = Drawn(LeaveManagement(<<"persona", s, 0>>), n)
  BY DEF Draft, Script
<1>2. QED
  BY <1>1, LeaveManagementScript, DrawnFacts

LEMMA FraudDrafts ==
  ASSUME NEW n \in Nat, n >= 1
  PROVE  /\ Draft("fraud-mainframe", PM, n) = CuratedBrief(6)
         /\ Draft("fraud-mainframe", BA, n) =
              [criteria |-> <<3, 3, 2, 2>>, trace |-> <<{0, 3}, {1}, {2}, {1}>>,
               questions |-> 4]
         /\ Draft("fraud-mainframe", Architect, n) =
              IF n = 1 THEN FlawedDesign ELSE SoundDesign(3, 3)
         /\ Draft("fraud-mainframe", Dev, n) = Slice(4)
         /\ Draft("fraud-mainframe", QA, n) =
              Plan(Criteria(1, 3) \union Criteria(2, 2),
                   {<<2, 3>>} \union Criteria(3, 2) \union Criteria(4, 2))
<1>1. \A s : Draft("fraud-mainframe", s, n) = Drawn(FraudMainframe(<<"persona", s, 0>>), n)
  BY DEF Draft, Script
<1>2. QED
  BY <1>1, FraudMainframeScript, DrawnFacts

\* A requirements artifact is of its schema, so it is not garbage.
LEMMA ValidRequirements ==
  ASSUME NEW stories \in 4..5, NEW criteria \in [1..stories -> Nat \ {0}],
         NEW trace \in [1..stories -> SUBSET Int], NEW questions \in Nat
  PROVE  [criteria |-> criteria, trace |-> trace, questions |-> questions] # Garbage
<1>1. 1..stories \in SUBSET (1..8)
  OBVIOUS
<1>2. criteria \in UNION {[S -> Nat \ {0}] : S \in SUBSET (1..8)}
  BY <1>1
<1>3. trace \in UNION {[S -> SUBSET Int] : S \in SUBSET (1..8)}
  BY <1>1
<1>4. [criteria |-> criteria, trace |-> trace, questions |-> questions] \in Requirements(1..8)
  BY <1>2, <1>3 DEF Requirements
<1>5. QED
  BY <1>4, DemoAssumption

LEMMA ValidRest ==
  /\ \A constraints \in Nat : CuratedBrief(constraints) # Garbage
  /\ \A risks, adrs \in Nat : SoundDesign(risks, adrs) # Garbage
  /\ FlawedDesign # Garbage /\ Slice(4) # Garbage /\ Slice(5) # Garbage
  /\ \A covered, untestable \in SUBSET ((1..8) \X Nat) : Plan(covered, untestable) # Garbage
<1>1. \A constraints \in Nat : CuratedBrief(constraints) \in Brief
  BY DEF CuratedBrief, Brief
<1>2. \A risks, adrs \in Nat : SoundDesign(risks, adrs) \in Design
  BY DEF SoundDesign, Design
<1>3. FlawedDesign \in Design
  BY DEF FlawedDesign, Design
<1>4. Slice(4) \in Implementation(1..8) /\ Slice(5) \in Implementation(1..8)
  BY DEF Slice, Implementation
<1>5. \A covered, untestable \in SUBSET ((1..8) \X Nat) :
        Plan(covered, untestable) \in TestPlan(1..8)
  BY DEF Plan, TestPlan
<1>6. QED
  BY <1>1, <1>2, <1>3, <1>4, <1>5, DemoAssumption

LEMMA DraftValid ==
  ASSUME NEW source \in Sources, NEW s \in PM..QA, NEW n \in Nat, n >= 1
  PROVE  Draft(source, s, n) # Garbage
<1>1. s \in {PM, BA, Architect, Dev, QA}
  BY StageNumbers
<1>2. CASE source = "simulator"
  <2>1. TemplateRequirements # Garbage
    BY ValidRequirements DEF TemplateRequirements
  <2>2. TemplatePlan # Garbage
    BY ValidRest DEF TemplatePlan
  <2>3. TemplateBrief(n > 1) # Garbage
    <3>1. TemplateBrief(n > 1) \in Brief
      BY DEF TemplateBrief, Brief
    <3>2. QED
      BY <3>1, DemoAssumption
  <2>4. QED
    BY <1>1, <1>2, <2>1, <2>2, <2>3, SimulatedDrafts, ValidRest
<1>3. CASE source = "leave-management"
  <2>1. Draft(source, BA, n) # Garbage
    BY <1>3, LeaveDrafts, ValidRequirements
  <2>2. Draft(source, QA, n) # Garbage
    BY <1>3, LeaveDrafts, ValidRest DEF Criteria
  <2>3. QED
    BY <1>1, <1>3, <2>1, <2>2, LeaveDrafts, ValidRest
<1>4. CASE source = "fraud-mainframe"
  <2>1. Draft(source, BA, n) # Garbage
    BY <1>4, FraudDrafts, ValidRequirements
  <2>2. Draft(source, QA, n) # Garbage
    BY <1>4, FraudDrafts, ValidRest DEF Criteria
  <2>3. QED
    BY <1>1, <1>4, <2>1, <2>2, FraudDrafts, ValidRest
<1>5. QED
  BY <1>2, <1>3, <1>4 DEF Sources

\* The answers of the judges: good ones, and each story's weak ones.
Good(x) ==
  /\ x \in ScoreVector /\ Mean(x) >= 420 /\ \A d \in Dimensions : x[d] >= 4

LEMMA VectorFacts ==
  ASSUME NEW x, NEW a \in 1..5, NEW b \in 1..5, NEW c \in 1..5, NEW d \in 1..5, NEW e \in 1..5,
         x = <<a, b, c, d, e>>
  PROVE  /\ x \in ScoreVector /\ Mean(x) = 20 * (a + b + c + d + e)
         /\ a + b + c + d + e >= 21 /\ a >= 4 /\ b >= 4 /\ c >= 4 /\ d >= 4 /\ e >= 4 => Good(x)
<1>1. x[1] = a /\ x[2] = b /\ x[3] = c /\ x[4] = d /\ x[5] = e
  OBVIOUS
<1>2. x \in ScoreVector
  BY DEF ScoreVector, Dimensions
<1>3. Mean(x) = 20 * (a + b + c + d + e)
  BY <1>1 DEF Mean
<1>4. ASSUME a + b + c + d + e >= 21, a >= 4, b >= 4, c >= 4, d >= 4, e >= 4
      PROVE  Good(x)
  <2>1. Mean(x) >= 420
    BY <1>3, <1>4
  <2>2. \A i \in Dimensions : x[i] >= 4
    BY <1>1, <1>4 DEF Dimensions
  <2>3. QED
    BY <1>2, <2>1, <2>2 DEF Good
<1>5. QED
  BY <1>2, <1>3, <1>4

LEMMA GoodVectors ==
  /\ Good(<<5, 4, 5, 5, 4>>) /\ Good(<<5, 4, 5, 4, 5>>) /\ Good(<<5, 4, 5, 4, 4>>)
  /\ Good(<<4, 4, 5, 4, 5>>) /\ Good(<<4, 4, 5, 4, 4>>)
<1>1. ASSUME NEW a \in 4..5, NEW d \in 4..5, NEW e \in 4..5, a + d + e >= 12
      PROVE  Good(<<a, 4, 5, d, e>>)
  <2> DEFINE x == <<a, 4, 5, d, e>>
  <2>1. x = <<a, 4, 5, d, e>>
    OBVIOUS
  <2> HIDE DEF x
  <2>2. Good(x)
    BY <1>1, <2>1, VectorFacts
  <2>3. QED
    BY <2>2 DEF x
<1>2. QED
  BY <1>1

LEMMA LeaveJudges ==
  /\ LeaveManagement(<<"judge", PM, 1>>) = <<<<5, 4, 5, 4, 5>>>>
  /\ LeaveManagement(<<"judge", BA, 1>>) = <<<<4, 3, 2, 3, 4>>, <<5, 4, 5, 4, 5>>>>
  /\ LeaveManagement(<<"judge", BA, 2>>) = <<<<3, 3, 2, 3, 4>>>>
  /\ LeaveManagement(<<"judge", Architect, 1>>) = <<<<5, 4, 5, 4, 4>>>>
  /\ LeaveManagement(<<"judge", Dev, 1>>) = <<<<4, 4, 5, 4, 5>>>>
<1>1. LeaveManagement(<<"judge", PM, 1>>) = <<<<5, 4, 5, 4, 5>>>>
  BY DEF LeaveManagement, PM, BA, Architect, Dev, QA
<1>2. LeaveManagement(<<"judge", BA, 1>>) = <<<<4, 3, 2, 3, 4>>, <<5, 4, 5, 4, 5>>>>
  BY DEF LeaveManagement, PM, BA, Architect, Dev, QA
<1>3. LeaveManagement(<<"judge", BA, 2>>) = <<<<3, 3, 2, 3, 4>>>>
  BY DEF LeaveManagement, PM, BA, Architect, Dev, QA
<1>4. LeaveManagement(<<"judge", Architect, 1>>) = <<<<5, 4, 5, 4, 4>>>>
  BY DEF LeaveManagement, PM, BA, Architect, Dev, QA
<1>5. LeaveManagement(<<"judge", Dev, 1>>) = <<<<4, 4, 5, 4, 5>>>>
  BY DEF LeaveManagement, PM, BA, Architect, Dev, QA
<1>6. QED
  BY <1>1, <1>2, <1>3, <1>4, <1>5

LEMMA FraudJudges ==
  /\ FraudMainframe(<<"judge", PM, 1>>) = <<<<5, 4, 5, 4, 5>>>>
  /\ FraudMainframe(<<"judge", BA, 1>>) = <<<<4, 4, 5, 4, 5>>>>
  /\ FraudMainframe(<<"judge", Dev, 1>>) = <<<<4, 4, 5, 4, 4>>>>
<1>1. FraudMainframe(<<"judge", PM, 1>>) = <<<<5, 4, 5, 4, 5>>>>
  BY DEF FraudMainframe, PM, BA, Architect, Dev, QA
<1>2. FraudMainframe(<<"judge", BA, 1>>) = <<<<4, 4, 5, 4, 5>>>>
  BY DEF FraudMainframe, PM, BA, Architect, Dev, QA
<1>3. FraudMainframe(<<"judge", Dev, 1>>) = <<<<4, 4, 5, 4, 4>>>>
  BY DEF FraudMainframe, PM, BA, Architect, Dev, QA
<1>4. QED
  BY <1>1, <1>2, <1>3

LEMMA SimulatedJudges ==
  /\ Judgement(PM, TemplateBrief(FALSE)) = <<3, 4, 5, 3, 4>>
  /\ Judgement(PM, TemplateBrief(TRUE)) = <<5, 4, 5, 5, 4>>
  /\ Judgement(BA, TemplateRequirements) = <<5, 4, 5, 4, 5>>
  /\ Judgement(Architect, SoundDesign(2, 2)) = <<5, 4, 5, 4, 4>>
  /\ Judgement(Dev, Slice(4)) = <<5, 4, 5, 4, 5>>
<1>1. /\ \A a : Judgement(PM, a) = JudgeBrief(a) /\ Judgement(BA, a) = JudgeRequirements(a)
                  /\ Judgement(Architect, a) = JudgeDesign(a)
                  /\ Judgement(Dev, a) = JudgeImplementation(a)
  BY DEF Judgement, PM, BA, Architect, Dev
<1>2. JudgeBrief(TemplateBrief(FALSE)) = <<3, 4, 5, 3, 4>>
  BY DEF JudgeBrief, TemplateBrief, Score
<1>3. JudgeBrief(TemplateBrief(TRUE)) = <<5, 4, 5, 5, 4>>
  BY DEF JudgeBrief, TemplateBrief, Score
<1>4. JudgeRequirements(TemplateRequirements) = <<5, 4, 5, 4, 5>>
  <2> DEFINE a == TemplateRequirements
  <2>1. /\ DOMAIN a.criteria = 1..4 /\ DOMAIN a.trace = 1..4 /\ a.questions = 3
        /\ {t \in 1..4 : a.criteria[t] < 2} = {}
    BY DEF TemplateRequirements
  <2>2. Cardinality(1..4) = 4
    <3>1. \A lo, hi \in Int : Cardinality(lo..hi) = IF lo > hi THEN 0 ELSE hi - lo + 1
      BY FS_Interval
    <3>2. 1 \in Int /\ 4 \in Int
      OBVIOUS
    <3>3. Cardinality(1..4) = IF 1 > 4 THEN 0 ELSE 4 - 1 + 1
      BY <3>1, <3>2, Zenon
    <3>4. QED
      BY <3>3
  <2> HIDE DEF a
  <2>3. QED
    BY <2>1, <2>2 DEF JudgeRequirements, Score, a
<1>5. JudgeDesign(SoundDesign(2, 2)) = <<5, 4, 5, 4, 4>>
  BY DEF JudgeDesign, SoundDesign, Score
<1>6. JudgeImplementation(Slice(4)) = <<5, 4, 5, 4, 5>>
  <2>1. Slice(4).broken = FALSE /\ Slice(4).implemented # {}
    BY DEF Slice
  <2>2. QED
    BY <2>1 DEF JudgeImplementation, Score
<1>7. QED
  BY <1>1, <1>2, <1>3, <1>4, <1>5, <1>6

\* The answer to the last draft of every stage is good.
LEMMA GoodAnswer ==
  ASSUME NEW source \in Sources, NEW s \in Gated
  PROVE  Good(Answer(source, s, 1, Due(source, s) + 1))
<1> DEFINE x == Answer(source, s, 1, Due(source, s) + 1)
           G(a, b, c, d, e) == x = <<a, b, c, d, e>>
<1>1. s \in {PM, BA, Architect, Dev}
  BY StageNumbers
<1>2. \/ G(5, 4, 5, 5, 4) \/ G(5, 4, 5, 4, 5) \/ G(5, 4, 5, 4, 4)
      \/ G(4, 4, 5, 4, 5) \/ G(4, 4, 5, 4, 4)
  <2>1. CASE source = "simulator"
    <3>1. x = Judgement(s, Draft("simulator", s, Due(source, s) + 1))
      BY <2>1 DEF Answer
    <3>2. Due(source, s) + 1 = IF s = PM THEN 2 ELSE 1
      BY <2>1 DEF Due, StoryStage
    <3>3. /\ s = PM => x = Judgement(PM, TemplateBrief(TRUE))
          /\ s = BA => x = Judgement(BA, TemplateRequirements)
          /\ s = Architect => x = Judgement(Architect, SoundDesign(2, 2))
          /\ s = Dev => x = Judgement(Dev, Slice(4))
      <4>1. Draft("simulator", PM, 2) = TemplateBrief(TRUE)
        <5>1. (2 > 1) = TRUE
          OBVIOUS
        <5>2. Draft("simulator", PM, 2) = TemplateBrief(2 > 1)
          BY SimulatedDrafts
        <5>3. QED
          BY <5>1, <5>2
      <4> HIDE DEF x
      <4>2. s = PM => Due(source, s) + 1 = 2
        BY <3>2
      <4>3. s # PM => Due(source, s) + 1 = 1
        BY <3>2
      <4>4. /\ Draft("simulator", BA, 1) = TemplateRequirements
            /\ Draft("simulator", Architect, 1) = SoundDesign(2, 2)
            /\ Draft("simulator", Dev, 1) = Slice(4)
        BY SimulatedDrafts
      <4>5. BA # PM /\ Architect # PM /\ Dev # PM
        BY StageNumbers
      <4>6. QED
        BY <3>1, <4>1, <4>2, <4>3, <4>4, <4>5
    <3> HIDE DEF x
    <3>4. QED
      BY <1>1, <3>3, SimulatedJudges
  <2>2. CASE source = "leave-management"
    <3>1. x = Drawn(LeaveManagement(<<"judge", s, 1>>), Due(source, s) + 1)
      BY <2>2 DEF Answer, Script
    <3>2. Due(source, s) + 1 = IF s = BA THEN 2 ELSE 1
      BY <2>2 DEF Due, StoryStage
    <3> HIDE DEF x
    <3>3. /\ s = PM => x = <<5, 4, 5, 4, 5>>
          /\ s = BA => x = <<5, 4, 5, 4, 5>>
          /\ s = Architect => x = <<5, 4, 5, 4, 4>>
          /\ s = Dev => x = <<4, 4, 5, 4, 5>>
      BY <3>1, <3>2, LeaveJudges, DrawnFacts, StageNumbers
    <3>4. QED
      BY <1>1, <3>3
  <2>3. CASE source = "fraud-mainframe"
    <3>1. x = Drawn(FraudMainframe(<<"judge", s, 1>>), Due(source, s) + 1)
      BY <2>3 DEF Answer, Script
    <3>2. Due(source, s) + 1 = IF s = Architect THEN 2 ELSE 1
      BY <2>3 DEF Due, StoryStage
    <3> HIDE DEF x
    <3>3. /\ s = PM => x = <<5, 4, 5, 4, 5>>
          /\ s = BA => x = <<4, 4, 5, 4, 5>>
          /\ s = Architect => x = <<5, 4, 5, 4, 4>>
          /\ s = Dev => x = <<4, 4, 5, 4, 4>>
      BY <3>1, <3>2, FraudJudges, FraudMainframeScript, DrawnFacts, StageNumbers
    <3>4. QED
      BY <1>1, <3>3
  <2>4. QED
    BY <2>1, <2>2, <2>3 DEF Sources
<1> HIDE DEF x
<1>3. QED
  BY <1>2, GoodVectors DEF x

\* What a gate makes of good and of weak answers under the curated settings.
LEMMA GoodPasses ==
  ASSUME Curated, NEW x, Good(x), NEW n \in Nat, NEW used
  PROVE  /\ x # NoOutput /\ x # Garbage /\ ~Confirms(x, n, used)
         /\ Evaluate(FALSE, x, NoOutput, n, used).verdict = "pass"
<1>1. /\ x \in ScoreVector /\ Mean(x) \in Int /\ Mean(x) >= 420
      /\ \A d \in Dimensions : x[d] \in 4..5
  BY DEF Good, ScoreVector, Dimensions, Mean
<1>2. x # NoOutput /\ x # Garbage
  BY <1>1, DemoAssumption, PolicyAssumption
<1>3. Minimum(x) \in 4..5
  <2> DEFINE P(m) == (\E d \in Dimensions : x[d] = m) /\ (\A d \in Dimensions : m <= x[d])
  <2>1. \E m \in 1..5 : P(m)
    <3>1. CASE \E d \in Dimensions : x[d] = 4
      <4>1. P(4)
        BY <1>1, <3>1
      <4>2. QED
        BY <4>1
    <3>2. CASE \A d \in Dimensions : x[d] # 4
      <4>1. P(5)
        BY <1>1, <3>2 DEF Dimensions
      <4>2. QED
        BY <4>1
    <3>3. QED
      BY <3>1, <3>2
  <2>2. Minimum(x) = CHOOSE m \in 1..5 : P(m)
    BY DEF Minimum
  <2>3. Minimum(x) \in 1..5 /\ P(Minimum(x))
    BY <2>1, <2>2
  <2>4. QED
    BY <1>1, <2>3
<1>4. Passes(x)
  BY <1>1, <1>3, PolicyAssumption DEF Passes, IsCritical, Curated
<1>5. DecideVerdict(x, n, used) = "pass"
  BY <1>4 DEF DecideVerdict
<1>6. ~Confirms(x, n, used)
  <2>1. ~(Mean(x) < PassThreshold)
    BY <1>1, PolicyAssumption DEF Curated
  <2>2. QED
    BY <1>5, <2>1 DEF Confirms, NeedsTier2Confirmation
<1>7. Evaluate(FALSE, x, NoOutput, n, used) = Scored(x, FirstTier, n, used)
  BY <1>2 DEF Evaluate
<1>8. Scored(x, FirstTier, n, used).verdict = "pass"
  BY <1>5 DEF Scored
<1>9. QED
  BY <1>2, <1>6, <1>7, <1>8

LEMMA WeakConfirmed ==
  ASSUME Curated, NEW x \in ScoreVector, Mean(x) \in {320, 380}
  PROVE  x # NoOutput /\ x # Garbage /\ Confirms(x, 0, FALSE)
<1>1. x # NoOutput /\ x # Garbage
  BY DemoAssumption, PolicyAssumption
<1>2. BorderlineLow <= Mean(x) /\ Mean(x) < PassThreshold
  BY PolicyAssumption DEF Curated
<1>3. TieredEvaluator /\ FirstTier = 1
  BY DEF Curated, Guarded, FirstTier, JudgeTier
<1>4. QED
  BY <1>1, <1>2, <1>3 DEF Confirms, NeedsTier2Confirmation

LEMMA WeakRetried ==
  ASSUME Curated, NEW x, NEW y \in ScoreVector, NEW source, source # "fraud-mainframe",
         x # NoOutput, Confirms(x, 0, FALSE),
         Mean(y) <= 380, \A d \in Dimensions : y[d] # 1
  PROVE  Evaluate(FALSE, x, y, 0, FALSE) = Story(source)
<1>1. y # NoOutput
  BY PolicyAssumption
<1>2. ~Passes(y)
  <2>1. Mean(y) \in Int
    BY DEF ScoreVector, Dimensions, Mean
  <2>2. QED
    BY <2>1, PolicyAssumption DEF Passes, Curated
<1>3. ~Exhausted(0)
  BY PolicyAssumption DEF Exhausted, Curated, Guarded
<1>4. ~CriticalStops(y, FALSE)
  BY DEF CriticalStops, Curated, Guarded
<1>5. DecideVerdict(y, 0, FALSE) = "retry"
  BY <1>2, <1>3, <1>4 DEF DecideVerdict
<1>6. IsCritical(y) = FALSE
  <2> DEFINE P(m) == (\E d \in Dimensions : y[d] = m) /\ (\A d \in Dimensions : m <= y[d])
  <2>1. \A d \in Dimensions : y[d] \in 2..5
    BY DEF ScoreVector
  <2>2. \E m \in 1..5 : P(m)
    <3>1. CASE \E d \in Dimensions : y[d] = 2
      <4>1. P(2)
        BY <2>1, <3>1
      <4>2. QED
        BY <4>1
    <3>2. CASE (\E d \in Dimensions : y[d] = 3) /\ ~\E d \in Dimensions : y[d] = 2
      <4>1. P(3)
        BY <2>1, <3>2
      <4>2. QED
        BY <4>1
    <3>3. CASE (\E d \in Dimensions : y[d] = 4) /\ \A d \in Dimensions : y[d] \notin {2, 3}
      <4>1. P(4)
        BY <2>1, <3>3
      <4>2. QED
        BY <4>1
    <3>4. CASE \A d \in Dimensions : y[d] \notin {2, 3, 4}
      <4>1. P(5)
        BY <2>1, <3>4 DEF Dimensions
      <4>2. QED
        BY <4>1
    <3>5. QED
      BY <3>1, <3>2, <3>3, <3>4
  <2>3. Minimum(y) = CHOOSE m \in 1..5 : P(m)
    BY DEF Minimum
  <2>4. Minimum(y) \in 1..5 /\ P(Minimum(y))
    BY <2>2, <2>3
  <2>5. QED
    BY <2>1, <2>4 DEF IsCritical
<1>7. JudgeSource(JudgeTier(TRUE)) = "tier2"
  BY DEF JudgeSource, JudgeTier
<1>8. Evaluate(FALSE, x, y, 0, FALSE) = Scored(y, JudgeTier(TRUE), 0, FALSE)
  BY <1>1 DEF Evaluate
<1>9. QED
  BY <1>5, <1>6, <1>7, <1>8 DEF Scored, Story

\* The answers to the drafts that are sent back.
LEMMA WeakAnswers ==
  ASSUME NEW n \in Nat, n >= 1
  PROVE  /\ Answer("simulator", PM, 1, 1) = <<3, 4, 5, 3, 4>>
         /\ Answer("simulator", PM, 2, 1) = <<3, 4, 5, 3, 4>>
         /\ Answer("leave-management", BA, 1, 1) = <<4, 3, 2, 3, 4>>
         /\ Answer("leave-management", BA, 2, n) = <<3, 3, 2, 3, 4>>
<1>1. \A tier : Answer("simulator", PM, tier, 1) = <<3, 4, 5, 3, 4>>
  <2>1. \A tier : Answer("simulator", PM, tier, 1) = Judgement(PM, Draft("simulator", PM, 1))
    BY DEF Answer
  <2>2. Draft("simulator", PM, 1) = TemplateBrief(1 > 1)
    BY SimulatedDrafts
  <2>3. (1 > 1) = FALSE
    OBVIOUS
  <2>4. QED
    BY <2>1, <2>2, <2>3, SimulatedJudges
<1>2. \A tier, m : Answer("leave-management", BA, tier, m) =
                     Drawn(LeaveManagement(<<"judge", BA, tier>>), m)
  BY DEF Answer, Script
<1>3. QED
  BY <1>1, <1>2, LeaveJudges, DrawnFacts

LEMMA WeakVectors ==
  /\ <<3, 4, 5, 3, 4>> \in ScoreVector /\ Mean(<<3, 4, 5, 3, 4>>) = 380
  /\ <<4, 3, 2, 3, 4>> \in ScoreVector /\ Mean(<<4, 3, 2, 3, 4>>) = 320
  /\ <<3, 3, 2, 3, 4>> \in ScoreVector /\ Mean(<<3, 3, 2, 3, 4>>) = 300
  /\ \A d \in Dimensions : <<3, 4, 5, 3, 4>>[d] # 1 /\ <<3, 3, 2, 3, 4>>[d] # 1
<1>1. <<3, 4, 5, 3, 4>> \in ScoreVector /\ Mean(<<3, 4, 5, 3, 4>>) = 380
  <2> DEFINE x == <<3, 4, 5, 3, 4>>
  <2>1. /\ x \in ScoreVector
        /\ x[1] = 3 /\ x[2] = 4 /\ x[3] = 5 /\ x[4] = 3 /\ x[5] = 4
    BY DEF ScoreVector, Dimensions
  <2> HIDE DEF x
  <2>2. Mean(x) = 380
    BY <2>1 DEF Mean
  <2>3. QED
    BY <2>1, <2>2 DEF x
<1>2. <<4, 3, 2, 3, 4>> \in ScoreVector /\ Mean(<<4, 3, 2, 3, 4>>) = 320
  <2> DEFINE x == <<4, 3, 2, 3, 4>>
  <2>1. /\ x \in ScoreVector
        /\ x[1] = 4 /\ x[2] = 3 /\ x[3] = 2 /\ x[4] = 3 /\ x[5] = 4
    BY DEF ScoreVector, Dimensions
  <2> HIDE DEF x
  <2>2. Mean(x) = 320
    BY <2>1 DEF Mean
  <2>3. QED
    BY <2>1, <2>2 DEF x
<1>3. <<3, 3, 2, 3, 4>> \in ScoreVector /\ Mean(<<3, 3, 2, 3, 4>>) = 300
  <2> DEFINE x == <<3, 3, 2, 3, 4>>
  <2>1. /\ x \in ScoreVector
        /\ x[1] = 3 /\ x[2] = 3 /\ x[3] = 2 /\ x[4] = 3 /\ x[5] = 4
    BY DEF ScoreVector, Dimensions
  <2> HIDE DEF x
  <2>2. Mean(x) = 300
    BY <2>1 DEF Mean
  <2>3. QED
    BY <2>1, <2>2 DEF x
<1>4. \A d \in Dimensions : <<3, 4, 5, 3, 4>>[d] # 1 /\ <<3, 3, 2, 3, 4>>[d] # 1
  BY DEF Dimensions
<1>5. QED
  BY <1>1, <1>2, <1>3, <1>4

\* No draft that is due has a finding that blocks it.
LEMMA Unblocked ==
  ASSUME NEW a
  PROVE  /\ blocking(FindingsOf(a, PM)) = {}
         /\ /\ DOMAIN a[BA].criteria = DOMAIN a[BA].trace
            /\ \A i \in DOMAIN a[BA].trace : a[BA].trace[i] \subseteq 0..a[PM].goals - 1
            => blocking(FindingsOf(a, BA)) = {}
         /\ a[Architect].risks >= 2 /\ a[Architect].risks \in Nat
              /\ a[Architect].unmitigated = 0 /\ a[Architect].detailed
            => blocking(FindingsOf(a, Architect)) = {}
         /\ ~a[Dev].broken /\ a[Dev].implemented \union a[Dev].stubbed = DOMAIN a[BA].criteria
            => blocking(FindingsOf(a, Dev)) = {}
<1>1. /\ FindingsOf(a, PM) = check_problem_brief(a[PM])
      /\ FindingsOf(a, BA) = check_requirements(a[BA], a[PM])
      /\ FindingsOf(a, Architect) = check_design(a[Architect])
      /\ FindingsOf(a, Dev) = check_implementation(a[Dev], a[BA])
  BY DEF FindingsOf, PM, BA, Architect, Dev
<1>2. \A issue, about, n, lo, hi : \A f \in Count(issue, about, n, lo, hi) : f.severity # "blocking"
  BY DEF Count, Finding
<1>3. \A issue : Blocking(issue, {}) = {}
  BY DEF Blocking
<1>4. blocking(FindingsOf(a, PM)) = {}
  BY <1>1, <1>2 DEF check_problem_brief, blocking, Finding
<1>5. ASSUME DOMAIN a[BA].criteria = DOMAIN a[BA].trace,
             \A i \in DOMAIN a[BA].trace : a[BA].trace[i] \subseteq 0..a[PM].goals - 1
      PROVE  blocking(FindingsOf(a, BA)) = {}
  <2> DEFINE stories == DOMAIN a[BA].criteria
             traced  == DOMAIN a[BA].trace
             unknown == {s \in traced : ~(a[BA].trace[s] \subseteq 0..a[PM].goals - 1)}
  <2>1. stories \ traced = {} /\ traced \ stories = {} /\ unknown = {}
    BY <1>5
  <2>2. FindingsOf(a, BA) =
          Blocking("untraced", stories \ traced)
            \union Blocking("unknown_story", traced \ stories)
            \union Blocking("unknown_goal", unknown)
            \union Count("user_stories", 0, Cardinality(stories), 4, 8)
            \union UNION {Count("criteria", s, a[BA].criteria[s], 2, 4) : s \in stories}
    BY <1>1 DEF check_requirements
  <2> HIDE DEF stories, traced, unknown
  <2>3. \A f \in FindingsOf(a, BA) :
          \/ f \in Count("user_stories", 0, Cardinality(stories), 4, 8)
          \/ \E s \in stories : f \in Count("criteria", s, a[BA].criteria[s], 2, 4)
    BY <1>3, <2>1, <2>2
  <2>4. QED
    BY <1>2, <2>3 DEF blocking
<1>6. ASSUME a[Architect].risks >= 2, a[Architect].risks \in Nat,
             a[Architect].unmitigated = 0, a[Architect].detailed
      PROVE  blocking(FindingsOf(a, Architect)) = {}
  <2>1. ~(a[Architect].risks < 2) /\ 1..a[Architect].unmitigated = {}
    BY <1>6
  <2>2. FindingsOf(a, Architect) = Count("adrs", 0, a[Architect].adrs, 2, 4)
    BY <1>1, <1>3, <1>6, <2>1 DEF check_design
  <2>3. QED
    BY <1>2, <2>2 DEF blocking
<1>7. ASSUME ~a[Dev].broken, a[Dev].implemented \union a[Dev].stubbed = DOMAIN a[BA].criteria
      PROVE  blocking(FindingsOf(a, Dev)) = {}
  <2>1. FindingsOf(a, Dev) = Count("implemented", 0, Cardinality(a[Dev].implemented), 1, 2)
    BY <1>1, <1>3, <1>7 DEF check_implementation
  <2>2. QED
    BY <1>2, <2>1 DEF blocking
<1>8. QED
  BY <1>4, <1>5, <1>6, <1>7

LEMMA DueFacts ==
  ASSUME NEW source \in Sources, NEW s
  PROVE  /\ Due(source, s) \in {0, 1}
         /\ Due(source, s) = 1 =>
              \/ source = "simulator" /\ s = PM
              \/ source = "leave-management" /\ s = BA
              \/ source = "fraud-mainframe" /\ s = Architect
         /\ Due(source, s) = 1 <=> s = StoryStage(source)
         /\ StoryStage(source) \in Gated
         /\ source = "simulator" => Due(source, PM) = 1 /\ Due(source, BA) = 0
         /\ source = "leave-management" => Due(source, PM) = 0 /\ Due(source, BA) = 1
         /\ source = "fraud-mainframe" => Due(source, PM) = 0 /\ Due(source, BA) = 0
<1>1. CASE source = "simulator"
  <2>1. StoryStage(source) = PM
    BY <1>1 DEF StoryStage
  <2>2. QED
    BY <1>1, <2>1, StageNumbers DEF Due
<1>2. CASE source = "leave-management"
  <2>1. StoryStage(source) = BA
    BY <1>2 DEF StoryStage
  <2>2. QED
    BY <1>2, <2>1, StageNumbers DEF Due
<1>3. CASE source = "fraud-mainframe"
  <2>1. StoryStage(source) = Architect
    BY <1>3 DEF StoryStage
  <2>2. QED
    BY <1>3, <2>1, StageNumbers DEF Due
<1>4. QED
  BY <1>1, <1>2, <1>3 DEF Sources

LEMMA DraftsPass ==
  ASSUME NEW source \in Sources, NEW s \in Gated, NEW n \in Nat, NEW a,
         a[s] = Draft(source, s, n + 1),
         \A t \in Gated : t < s => a[t] = Draft(source, t, Due(source, t) + 1)
  PROVE  blocking(FindingsOf(a, s)) = {}
<1>1. s \in {PM, BA, Architect, Dev} /\ BA \in Gated /\ PM \in Gated
  BY StageNumbers
<1>2. n + 1 \in Nat /\ n + 1 >= 1
  OBVIOUS
<1>3. CASE s = PM
  BY <1>3, Unblocked
<1>4. CASE s = BA
  <2>1. a[PM] = Draft(source, PM, Due(source, PM) + 1)
    BY <1>1, <1>4, StageNumbers
  <2>2. a[PM].goals >= 4 /\ a[PM].goals \in Nat
    <3>1. CASE source = "simulator"
      <4>1. a[PM] = Draft("simulator", PM, 2)
        BY <2>1, <3>1, DueFacts
      <4>2. Draft("simulator", PM, 2) = TemplateBrief(2 > 1)
        BY SimulatedDrafts
      <4>3. TemplateBrief(2 > 1).goals = 4
        BY DEF TemplateBrief
      <4>4. QED
        BY <4>1, <4>2, <4>3
    <3>2. CASE source # "simulator"
      <4>1. a[PM] = Draft(source, PM, 1)
        BY <2>1, <3>2, DueFacts DEF Sources
      <4>2. a[PM] = CuratedBrief(3) \/ a[PM] = CuratedBrief(6)
        BY <3>2, <4>1, LeaveDrafts, FraudDrafts DEF Sources
      <4>3. CuratedBrief(3).goals = 4 /\ CuratedBrief(6).goals = 4
        BY DEF CuratedBrief
      <4>4. QED
        BY <4>2, <4>3
    <3>3. QED
      BY <3>1, <3>2
  <2>3. /\ DOMAIN a[BA].criteria = DOMAIN a[BA].trace
        /\ \A i \in DOMAIN a[BA].trace : a[BA].trace[i] \subseteq 0..3
    <3>1. CASE source = "simulator"
      <4>1. a[BA] = TemplateRequirements
        BY <1>2, <1>4, <3>1, SimulatedDrafts
      <4>2. QED
        BY <4>1 DEF TemplateRequirements
    <3>2. CASE source = "leave-management"
      <4>1. \/ a[BA] = [criteria |-> <<2, 2, 1, 1>>, trace |-> <<{0}, {1}, {0, 2}, {3}>>,
                        questions |-> 1]
            \/ a[BA] = [criteria |-> <<3, 3, 2, 2, 2>>,
                        trace |-> <<{0}, {1}, {0, 2}, {2}, {3}>>, questions |-> 5]
        BY <1>2, <1>4, <3>2, LeaveDrafts
      <4>2. QED
        BY <4>1
    <3>3. CASE source = "fraud-mainframe"
      <4>1. a[BA] = [criteria |-> <<3, 3, 2, 2>>, trace |-> <<{0, 3}, {1}, {2}, {1}>>,
                     questions |-> 4]
        BY <1>2, <1>4, <3>3, FraudDrafts
      <4>2. QED
        BY <4>1
    <3>4. QED
      BY <3>1, <3>2, <3>3 DEF Sources
  <2>4. \A x : x \subseteq 0..3 => x \subseteq 0..a[PM].goals - 1
    BY <2>2
  <2>5. QED
    BY <1>4, <2>3, <2>4, Unblocked
<1>5. CASE s = Architect
  <2>1. a[Architect] \in {FlawedDesign, SoundDesign(2, 2), SoundDesign(3, 3)}
    BY <1>2, <1>5, SimulatedDrafts, LeaveDrafts, FraudDrafts DEF Sources
  <2>2. /\ a[Architect].risks \in {2, 3} /\ a[Architect].unmitigated = 0
        /\ a[Architect].detailed
    BY <2>1 DEF FlawedDesign, SoundDesign
  <2>3. QED
    BY <1>5, <2>2, Unblocked
<1>6. CASE s = Dev
  <2>1. a[BA] = Draft(source, BA, Due(source, BA) + 1)
    BY <1>1, <1>6, StageNumbers
  <2>2. /\ source = "leave-management" => DOMAIN a[BA].criteria = 1..5
        /\ source # "leave-management" => DOMAIN a[BA].criteria = 1..4
    <3>1. CASE source = "simulator"
      <4>1. a[BA] = TemplateRequirements
        BY <2>1, <3>1, SimulatedDrafts, DueFacts
      <4>2. QED
        BY <3>1, <4>1 DEF TemplateRequirements
    <3>2. CASE source = "leave-management"
      <4>1. a[BA] = Draft("leave-management", BA, 2)
        BY <2>1, <3>2, DueFacts
      <4>2. a[BA].criteria = <<3, 3, 2, 2, 2>>
        BY <4>1, LeaveDrafts
      <4>3. QED
        BY <3>2, <4>2
    <3>3. CASE source = "fraud-mainframe"
      <4>1. a[BA] = Draft("fraud-mainframe", BA, 1)
        BY <2>1, <3>3, DueFacts
      <4>2. a[BA].criteria = <<3, 3, 2, 2>>
        BY <4>1, FraudDrafts
      <4>3. QED
        BY <3>3, <4>2
    <3>4. QED
      BY <3>1, <3>2, <3>3 DEF Sources
  <2>3. a[Dev] = IF source = "leave-management" THEN Slice(5) ELSE Slice(4)
    BY <1>2, <1>6, SimulatedDrafts, LeaveDrafts, FraudDrafts DEF Sources
  <2>4. /\ ~Slice(4).broken /\ Slice(4).implemented \union Slice(4).stubbed = 1..4
        /\ ~Slice(5).broken /\ Slice(5).implemented \union Slice(5).stubbed = 1..5
    BY DEF Slice
  <2>5. ~a[Dev].broken /\ a[Dev].implemented \union a[Dev].stubbed = DOMAIN a[BA].criteria
    BY <2>2, <2>3, <2>4
  <2>6. QED
    BY <1>6, <2>5, Unblocked
<1>7. QED
  BY <1>1, <1>3, <1>4, <1>5, <1>6

\* Without a fault a call is answered by its source, and takes its cursor on.
LEMMA PlainCall ==
  ASSUME DeliveryInv, NEW r \in Runs, run[r].fault = NoFault, NEW purpose \in Purposes
  PROVE  /\ ~Injected(r, purpose)
         /\ run[r].source = "simulator" => Response(r, purpose) = Simulated(r, purpose)
         /\ run[r].source # "simulator" =>
              Response(r, purpose) = Drawn(Script(run[r].source, purpose), Used(r)[purpose] + 1)
         /\ Used(r)[purpose] \in Nat
<1>1. purpose # <<"none", 0, 0>>
  BY DEF Purposes, Personas, JudgeCalls
<1>2. ~Injected(r, purpose)
  BY <1>1 DEF Injected, NoFault
<1>3. Used(r)[purpose] = cursor[<<r, purpose>>] /\ cursor[<<r, purpose>>] \in Nat
  BY DEF DeliveryInv, Used
<1>4. QED
  BY <1>2, <1>3 DEF Response, Scripted, CursorKey, Drawn

LEMMA CallsMade ==
  ASSUME NEW t \in Gated
  PROVE  /\ <<"persona", t, 0>> \in Purposes /\ <<"judge", t, 1>> \in Purposes
         /\ <<"judge", t, 2>> \in Purposes
BY StageNumbers DEF Purposes, Personas, JudgeCalls

LEMMA PersonaDrafts ==
  ASSUME DeliveryInv, NEW r \in Runs, run[r].fault = NoFault, run[r].node.kind = "persona",
         run[r].node.stage \in Gated, Tracked(run[r], Used(r), run[r].node.stage)
  PROVE  LET s == run[r].node.stage
         IN  /\ Response(r, <<"persona", s, 0>>) = Draft(run[r].source, s, run[r].retries[s] + 1)
             /\ Response(r, <<"persona", s, 0>>) # Garbage
<1> DEFINE state  == run[r]
           s      == state.node.stage
           source == state.source
           n      == state.retries[s]
           x      == Response(r, <<"persona", s, 0>>)
<1>1. source \in Sources /\ n \in Nat /\ s \in Gated
  BY DEF DeliveryInv, StateOK
<1>2. <<"persona", s, 0>> \in Purposes
  BY <1>1, CallsMade
<1>3. ASSUME source = "simulator"
      PROVE  x = Draft(source, s, n + 1)
  <2>1. x = Simulated(r, <<"persona", s, 0>>)
    BY <1>2, <1>3, PlainCall
  <2>2. Stage(r) = s /\ Attempt(r) = n + 1
    BY <1>1, StageNumbers DEF Stage, Attempt
  <2>3. x = Template(s, n + 1)
    BY <2>1, <2>2 DEF Simulated
  <2>4. QED
    BY <1>3, <2>3 DEF Draft
<1>4. ASSUME source # "simulator"
      PROVE  x = Draft(source, s, n + 1)
  <2>1. Used(r)[<<"persona", s, 0>>] = n
    BY <1>1, <1>4, StageNumbers DEF Tracked
  <2>2. x = Drawn(Script(source, <<"persona", s, 0>>), n + 1)
    BY <1>2, <1>4, <2>1, PlainCall
  <2>3. QED
    BY <1>4, <2>2 DEF Draft
<1>5. x = Draft(source, s, n + 1)
  BY <1>3, <1>4
<1> HIDE DEF x
<1>6. s \in PM..QA /\ n + 1 \in Nat /\ n + 1 >= 1
  BY <1>1, StageNumbers
<1>7. QED
  BY <1>1, <1>5, <1>6, DraftValid DEF x

LEMMA JudgeAnswers ==
  ASSUME Curated, DeliveryInv, NEW r \in Runs, run[r].fault = NoFault,
         run[r].node.kind \in {"gate", "confirm"}, OnTrack(run[r], Used(r))
  PROVE  LET s == run[r].node.stage
             n == run[r].retries[s]
         IN  /\ run[r].node.kind = "gate" =>
                  /\ JudgePurpose(r) = <<"judge", s, 1>>
                  /\ Response(r, JudgePurpose(r)) = Answer(run[r].source, s, 1, n + 1)
             /\ run[r].node.kind = "confirm" =>
                  /\ JudgePurpose(r) = <<"judge", s, 2>>
                  /\ \E m \in Nat \ {0} :
                       /\ Response(r, JudgePurpose(r)) = Answer(run[r].source, s, 2, m)
                       /\ run[r].source = "simulator" => m = 1
<1> DEFINE state  == run[r]
           s      == state.node.stage
           source == state.source
           n      == state.retries[s]
<1>1. source \in Sources /\ s \in Gated /\ n \in Nat
  BY DEF DeliveryInv, StateOK
<1>2. /\ state.artifacts[s] = Draft(source, s, n + 1) /\ Tracked(state, Used(r), s)
      /\ state.node.kind = "confirm" => n = 0
  BY <1>1 DEF OnTrack
<1>3. JudgePurpose(r) = <<"judge", s, IF state.node.kind = "gate" THEN 1 ELSE 2>>
  BY DEF JudgePurpose, FirstTier, JudgeTier, Curated, Guarded
<1>4. JudgePurpose(r) \in Purposes
  BY <1>1, <1>3, CallsMade
<1>5. CASE source = "simulator"
  <2>1. Response(r, JudgePurpose(r)) = Simulated(r, JudgePurpose(r))
    BY <1>4, <1>5, PlainCall
  <2>2. Simulated(r, JudgePurpose(r)) = Judgement(s, state.artifacts[s])
    BY <1>3 DEF Simulated, Stage
  <2>3. \A tier, m : Answer(source, s, tier, m) = Judgement(s, Draft(source, s, m))
    BY <1>5 DEF Answer
  <2>4. n = 0 => n + 1 = 1
    OBVIOUS
  <2>5. QED
    BY <1>2, <1>3, <2>1, <2>2, <2>3, <2>4
<1>6. CASE source # "simulator"
  <2>1. Response(r, JudgePurpose(r)) =
          Drawn(Script(source, JudgePurpose(r)), Used(r)[JudgePurpose(r)] + 1)
    BY <1>4, <1>6, PlainCall
  <2>2. \A tier, m : Answer(source, s, tier, m) = Drawn(Script(source, <<"judge", s, tier>>), m)
    BY <1>6 DEF Answer
  <2>3. state.node.kind = "gate" => Used(r)[<<"judge", s, 1>>] = n
    BY <1>1, <1>2, <1>6, StageNumbers DEF Tracked
  <2>4. Used(r)[JudgePurpose(r)] + 1 \in Nat \ {0}
    BY <1>4, PlainCall
  <2>5. CASE state.node.kind = "gate"
    BY <1>3, <2>1, <2>2, <2>3, <2>5
  <2>6. CASE state.node.kind = "confirm"
    BY <1>3, <1>6, <2>1, <2>2, <2>4, <2>6
  <2>7. QED
    BY <2>5, <2>6
<1>7. QED
  BY <1>5, <1>6

\* What a step does not touch stays on track.
LEMMA TrackedFrame ==
  ASSUME NEW state, NEW next, NEW used, NEW after, NEW t \in Gated,
         state.node.stage \in PM..QA, next.node.stage \in PM..QA,
         Tracked(state, used, t),
         \/ t < state.node.stage /\ t < next.node.stage
         \/ t > state.node.stage /\ t > next.node.stage,
         next.source = state.source, next.retries[t] = state.retries[t],
         next.artifacts[t] = state.artifacts[t],
         next.critical_used[t] = state.critical_used[t],
         after[<<"persona", t, 0>>] = used[<<"persona", t, 0>>],
         after[<<"judge", t, 1>>] = used[<<"judge", t, 1>>]
  PROVE  Tracked(next, after, t)
<1>1. /\ t \in Int /\ state.node.stage \in Int /\ next.node.stage \in Int
  BY StageNumbers
<1>2. /\ t < state.node.stage <=> t < next.node.stage
      /\ t > state.node.stage <=> t > next.node.stage
      /\ t # state.node.stage /\ t # next.node.stage
  BY <1>1
<1>3. QED
  BY <1>2 DEF Tracked

LEMMA ToldKept ==
  ASSUME NEW state, NEW next, StateOK(state), Told(state), next.source = state.source,
         next.retries[StoryStage(state.source)] = state.retries[StoryStage(state.source)],
         \/ next.evaluations = state.evaluations
         \/ \E rec : next.evaluations = Append(state.evaluations, rec)
  PROVE  Told(next)
<1>1. state.evaluations \in Seq(Entries)
  BY DEF StateOK
<1>2. \A i \in 1..Len(state.evaluations) :
        i \in 1..Len(next.evaluations) /\ next.evaluations[i] = state.evaluations[i]
  BY <1>1
<1>3. QED
  BY <1>2 DEF Told

LEMMA ToldNow ==
  ASSUME NEW state, NEW next, StateOK(state), next.source = state.source,
         NEW outcome, outcome = Story(state.source),
         next.evaluations = Append(state.evaluations,
           [outcome |-> outcome, stage |-> StoryStage(state.source), attempt |-> 1])
  PROVE  Told(next)
<1> DEFINE rec == [outcome |-> outcome, stage |-> StoryStage(state.source), attempt |-> 1]
<1>1. rec.outcome = outcome /\ rec.stage = StoryStage(state.source) /\ rec.attempt = 1
  OBVIOUS
<1> HIDE DEF rec
<1>2. state.evaluations \in Seq(Entries) /\ next.evaluations = Append(state.evaluations, rec)
  BY DEF StateOK, rec
<1>3. /\ Len(state.evaluations) + 1 \in 1..Len(next.evaluations)
      /\ next.evaluations[Len(state.evaluations) + 1] = rec
  BY <1>2
<1>4. QED
  BY <1>1, <1>3 DEF Told

\* A step of one run leaves the others on track.
LEMMA OneRunTells ==
  ASSUME DeliveryInv, StoryInv, NEW r \in Runs, NEW next,
         run' = [run EXCEPT ![r] = next],
         \/ cursor' = cursor
         \/ \E p \in Purposes : cursor' = [cursor EXCEPT ![<<r, p>>] = @ + 1],
         next.node.kind # "new",
         next.fault = NoFault /\ next.node.kind # "failed" => OnTrack(next, Used(r)')
  PROVE  StoryInv'
<1> SUFFICES ASSUME NEW q \in Runs
             PROVE  /\ run[q]'.node.kind = "new" => \A p \in Purposes : cursor[<<q, p>>]' = 0
                    /\ run[q]'.fault = NoFault /\ run[q]'.node.kind \notin {"new", "failed"} =>
                         OnTrack(run[q]', Used(q)')
  BY DEF StoryInv
<1>1. DOMAIN run = Runs /\ cursor \in [Runs \X Purposes -> Nat]
  BY DEF DeliveryInv
<1>2. CASE q = r
  <2>1. run[q]' = next
    BY <1>1, <1>2
  <2>2. QED
    BY <1>2, <2>1
<1>3. CASE q # r
  <2>1. run[q]' = run[q] /\ \A p \in Purposes : cursor[<<q, p>>]' = cursor[<<q, p>>]
    BY <1>1, <1>3
  <2>2. Used(q)' = Used(q)
    BY <2>1 DEF Used
  <2>3. QED
    BY <2>1, <2>2 DEF StoryInv
<1>4. QED
  BY <1>2, <1>3

LEMMA AssignTells ==
  ASSUME DeliveryInv, StoryInv, NEW r \in Runs, Assign(r)
  PROVE  StoryInv'
<1>1. PICK source \in Sources : \E fault \in Faults(source) :
        run' = [run EXCEPT ![r].source = source, ![r].fault = fault,
                           ![r].node = Node("persona", PM)]
  <2>1. \A source : NoFault \in Faults(source)
    BY DEF Faults
  <2>2. QED
    BY <2>1 DEF Assign
<1>2. PICK fault \in Faults(source) :
        run' = [run EXCEPT ![r].source = source, ![r].fault = fault,
                           ![r].node = Node("persona", PM)]
  BY <1>1
<1> DEFINE next == [run[r] EXCEPT !.source = source, !.fault = fault,
                                  !.node = Node("persona", PM)]
<1>3. run[r] = NotStarted /\ cursor' = cursor /\ DOMAIN run = Runs /\ run[r].node.kind = "new"
  BY DEF Assign, At, DeliveryInv, StateOK
<1>4. run' = [run EXCEPT ![r] = next]
  BY <1>2, <1>3
<1>5. /\ next.source = source /\ next.node = Node("persona", PM)
      /\ next.retries = NotStarted.retries /\ next.critical_used = NotStarted.critical_used
  BY <1>3 DEF NotStarted
<1> HIDE DEF next
<1>6. /\ next.node.kind = "persona" /\ next.node.stage = 1
      /\ \A t \in Gated : next.retries[t] = 0 /\ next.critical_used[t] = FALSE
  BY <1>5 DEF Node, PM, NotStarted
<1>7. \A p \in Purposes : Used(r)'[p] = 0
  <2>1. \A p \in Purposes : cursor'[<<r, p>>] = 0
    BY <1>3 DEF StoryInv
  <2>2. QED
    BY <2>1 DEF Used
<1>8. OnTrack(next, Used(r)')
  <2>1. ASSUME NEW t \in Gated
        PROVE  Tracked(next, Used(r)', t)
    <3>1. Used(r)'[<<"persona", t, 0>>] = 0 /\ Used(r)'[<<"judge", t, 1>>] = 0
      BY <1>7, CallsMade
    <3>2. Due(source, t) \in {0, 1}
      BY DueFacts
    <3>3. ~(t < 1)
      BY StageNumbers
    <3>4. QED
      BY <1>5, <1>6, <3>1, <3>2, <3>3 DEF Tracked
  <2>2. Told(next)
    <3>1. next.retries[StoryStage(source)] = 0
      BY <1>6, DueFacts
    <3>2. QED
      BY <1>5, <3>1 DEF Told
  <2>3. QED
    BY <1>6, <2>1, <2>2 DEF OnTrack
<1>9. QED
  BY <1>3, <1>4, <1>6, <1>8, OneRunTells

LEMMA PersonaTells ==
  ASSUME DeliveryInv, StoryInv, NEW r \in Runs, PersonaCall(r)
  PROVE  StoryInv'
<1> DEFINE state   == run[r]
           s       == state.node.stage
           source  == state.source
           purpose == <<"persona", s, 0>>
           x       == Response(r, purpose)
           after   == Used(r)'
<1>1. PICK next : run' = [run EXCEPT ![r] = next] /\ PersonaUpdate(r, state, s, x, next)
  BY PersonaEffect
<1>2. state.node.kind = "persona" /\ Complete(r, purpose)
  BY DEF PersonaCall, At, Stage
<1>3. /\ StateOK(state) /\ s \in PM..QA /\ source \in Sources /\ purpose \in Purposes
      /\ DOMAIN state.artifacts = PM..QA
  BY <1>2, PersonaPurpose DEF DeliveryInv, StateOK
<1>4. /\ next.source = source /\ next.fault = state.fault /\ next.retries = state.retries
      /\ next.critical_used = state.critical_used /\ next.evaluations = state.evaluations
      /\ \/ /\ x = Garbage /\ next.artifacts = state.artifacts
            /\ next.node = state.node \/ next.node = PersonaWithout(r)
         \/ /\ x # Garbage /\ next.node = AfterPersona(r) /\ next.invalid = FALSE
            /\ next.artifacts = [state.artifacts EXCEPT ![s] = Finalized(s, x, next.measured)]
  BY <1>1 DEF PersonaUpdate, Kept
<1>5. /\ next.node.kind # "new"
      /\ s = QA /\ next.node.kind # "failed" =>
           next.node.stage = QA /\ next.node.kind \in {"persona", "complete"}
  BY <1>2, <1>4, PersonaNodes, NodeFacts
<1>6. \A p \in Purposes :
        after[p] = IF p = purpose /\ source # "simulator" /\ ~Injected(r, purpose)
                   THEN Used(r)[p] + 1 ELSE Used(r)[p]
  <2>1. \A p \in Purposes : after[p] = cursor'[<<r, p>>] /\ Used(r)[p] = cursor[<<r, p>>]
    BY DEF Used
  <2>2. source = "simulator" => cursor' = cursor
    BY <1>2 DEF Complete
  <2>3. QED
    BY <1>2, <1>3, <2>1, <2>2, CursorFacts
<1> HIDE DEF after, x
<1>7. ASSUME next.fault = NoFault, next.node.kind # "failed"
      PROVE  OnTrack(next, after)
  <2>1. OnTrack(state, Used(r)) /\ state.fault = NoFault
    BY <1>2, <1>4, <1>7 DEF StoryInv
  <2>2. /\ \A t \in Gated : Tracked(state, Used(r), t)
        /\ Told(state)
    BY <2>1 DEF OnTrack
  <2>3. Told(next)
    BY <1>3, <1>4, <2>2, ToldKept
  <2>4. ASSUME NEW t \in Gated, t # s, next.node.stage = s
        PROVE  Tracked(next, after, t)
    <3>1. /\ after[<<"persona", t, 0>>] = Used(r)[<<"persona", t, 0>>]
          /\ after[<<"judge", t, 1>>] = Used(r)[<<"judge", t, 1>>]
      <4>1. <<"persona", t, 0>> # purpose /\ <<"judge", t, 1>> # purpose
        BY <2>4
      <4>2. QED
        BY <1>6, <4>1, CallsMade
    <3>2. next.artifacts[t] = state.artifacts[t]
      BY <1>3, <1>4, <2>4, StageNumbers
    <3>3. \/ t < s /\ t < next.node.stage
          \/ t > s /\ t > next.node.stage
      BY <1>3, <2>4, StageNumbers
    <3>4. Tracked(state, Used(r), t)
      BY <2>2
    <3>5. /\ state.node.stage \in PM..QA /\ next.node.stage \in PM..QA
      BY <1>3, <2>4
    <3> HIDE DEF state, s, purpose
    <3>6. QED
      BY <1>4, <3>1, <3>2, <3>3, <3>4, <3>5, TrackedFrame DEF state, s, source
  <2>5. CASE s = QA
    <3>1. next.node.stage = QA /\ next.node.kind \in {"persona", "complete"}
      BY <1>5, <1>7, <2>5
    <3>2. \A t \in Gated : Tracked(next, after, t)
      BY <2>4, <2>5, <3>1, StageNumbers
    <3>3. QED
      BY <2>3, <3>1, <3>2 DEF OnTrack
  <2>6. CASE s # QA
    <3>1. s \in Gated
      BY <1>3, <2>6, StageNumbers
    <3> DEFINE n == state.retries[s]
    <3>2. x = Draft(source, s, n + 1) /\ x # Garbage
      BY <1>2, <2>1, <2>2, <3>1, PersonaDrafts DEF x
    <3>3. Finalized(s, x, next.measured) = x
      BY <2>6 DEF Finalized
    <3>4. /\ next.node.kind = "gate" /\ next.node.stage = s /\ next.invalid = FALSE
          /\ next.artifacts[s] = x
      <4>1. /\ next.node = AfterPersona(r) /\ next.invalid = FALSE
            /\ next.artifacts = [state.artifacts EXCEPT ![s] = Finalized(s, x, next.measured)]
        BY <1>4, <3>2
      <4>2. AfterPersona(r) = Node("gate", s)
        BY <2>6, PersonaNodes
      <4>3. next.node.kind = "gate" /\ next.node.stage = s
        BY <4>1, <4>2, NodeFacts
      <4>4. next.artifacts[s] = x
        BY <1>3, <3>3, <4>1
      <4>5. QED
        BY <4>1, <4>3, <4>4
    <3>5. Tracked(next, after, s)
      <4>1. ~Injected(r, purpose) /\ Used(r)[purpose] \in Nat
        BY <1>3, <2>1, PlainCall
      <4>2. <<"judge", s, 1>> # purpose
        OBVIOUS
      <4>3. /\ source # "simulator" => after[purpose] = Used(r)[purpose] + 1
            /\ after[<<"judge", s, 1>>] = Used(r)[<<"judge", s, 1>>]
        BY <1>3, <1>6, <3>1, <4>1, <4>2, CallsMade
      <4>4. Tracked(state, Used(r), s)
        BY <2>2, <3>1
      <4>5. ~(s < s) /\ ~(s > s)
        BY <1>3, StageNumbers
      <4>6. /\ n <= Due(source, s) /\ (state.critical_used[s] => n > 0)
            /\ source # "simulator" => /\ Used(r)[purpose] = n
                                       /\ Used(r)[<<"judge", s, 1>>] = n
        BY <1>2, <4>4 DEF Tracked
      <4> HIDE DEF n
      <4>7. QED
        BY <1>4, <3>4, <4>3, <4>5, <4>6 DEF Tracked, n
    <3>6. \A t \in Gated : Tracked(next, after, t)
      BY <2>4, <3>4, <3>5
    <3>7. QED
      BY <1>4, <2>3, <3>2, <3>4, <3>6 DEF OnTrack
  <2>7. QED
    BY <2>5, <2>6
<1>8. cursor' = cursor \/ \E p \in Purposes : cursor' = [cursor EXCEPT ![<<r, p>>] = @ + 1]
  BY <1>2, <1>3, CursorFacts
<1>9. QED
  BY <1>1, <1>5, <1>7, <1>8, OneRunTells DEF after

\* A pass moves a run on, and the story's retry sends it back, on track.
LEMMA PassTracks ==
  ASSUME NEW r, NEW state, StateOK(state), NEW used, OnTrack(state, used),
         state.node.kind = "gate",
         state.retries[state.node.stage] = Due(state.source, state.node.stage),
         NEW outcome, outcome.verdict = "pass", NEW next, GateUpdate(r, state, outcome, next),
         NEW after,
         \A t \in Gated :
           /\ after[<<"persona", t, 0>>] = used[<<"persona", t, 0>>]
           /\ after[<<"judge", t, 1>>] =
                IF t = state.node.stage /\ state.source # "simulator"
                THEN used[<<"judge", t, 1>>] + 1 ELSE used[<<"judge", t, 1>>]
  PROVE  OnTrack(next, after)
<1> DEFINE s      == state.node.stage
           source == state.source
           n      == state.retries[s]
<1>1. /\ s \in Gated /\ source \in Sources /\ DOMAIN state.retries = Gated
      /\ DOMAIN state.critical_used = Gated /\ n \in Nat
      /\ state.critical_used \in [Gated -> BOOLEAN]
  BY DEF StateOK
<1>2. /\ next.source = source /\ next.artifacts = state.artifacts
      /\ next.retries = state.retries /\ next.critical_used = state.critical_used
      /\ \E rec : next.evaluations = Append(state.evaluations, rec)
      /\ next.node = Node("persona", s + 1)
  <2>1. /\ next.source = source /\ next.artifacts = state.artifacts
        /\ \E rec : next.evaluations = Append(state.evaluations, rec)
        /\ next.node = Node("persona", s + 1)
    BY DEF GateUpdate
  <2>2. next.retries =
          [state.retries EXCEPT ![s] = IF outcome.verdict = "retry" THEN @ + 1 ELSE @]
    BY DEF GateUpdate
  <2>3. next.critical_used =
          [state.critical_used EXCEPT
             ![s] = @ \/ (outcome.verdict = "retry" /\ outcome.critical /\ FastTrack)]
    BY DEF GateUpdate
  <2>4. outcome.verdict # "retry"
    OBVIOUS
  <2>5. next.retries = state.retries
    BY <1>1, <2>2, <2>4 DEF StateOK
  <2>6. next.critical_used = state.critical_used
    <3>1. next.critical_used = [state.critical_used EXCEPT ![s] = @ \/ FALSE]
      BY <2>3, <2>4
    <3>2. QED
      BY <1>1, <3>1
  <2>7. QED
    BY <2>1, <2>5, <2>6
<1>3. next.node.kind = "persona" /\ next.node.stage = s + 1
  BY <1>2, NodeFacts
<1>4. /\ \A t \in Gated : Tracked(state, used, t)
      /\ state.artifacts[s] = Draft(source, s, n + 1) /\ Told(state)
  BY DEF OnTrack
<1>5. ASSUME NEW t \in Gated
      PROVE  Tracked(next, after, t)
  <2>1. CASE t = s
    <3>1. /\ state.critical_used[s] => n > 0
          /\ source # "simulator" =>
               used[<<"persona", s, 0>>] = n + 1 /\ used[<<"judge", s, 1>>] = n
      BY <1>1, <1>4, StageNumbers DEF Tracked
    <3>2. s < s + 1 /\ ~(s > s + 1) /\ s # s + 1
      BY <1>1, StageNumbers
    <3>3. source # "simulator" =>
            after[<<"persona", s, 0>>] = n + 1 /\ after[<<"judge", s, 1>>] = n + 1
      BY <1>1, <3>1
    <3>4. n = Due(source, s)
      OBVIOUS
    <3>5. next.retries[s] = n /\ next.critical_used[s] = state.critical_used[s]
      BY <1>2
    <3> HIDE DEF n
    <3>6. QED
      BY <1>2, <1>3, <1>4, <2>1, <3>1, <3>2, <3>3, <3>4, <3>5 DEF Tracked
  <2>2. CASE t = s + 1
    <3>1. /\ state.retries[t] = 0 /\ (state.critical_used[t] => FALSE)
          /\ source # "simulator" => used[<<"persona", t, 0>>] = 0 /\ used[<<"judge", t, 1>>] = 0
      BY <1>1, <1>4, <2>2, StageNumbers DEF Tracked
    <3>2. ~(t < t) /\ ~(t > t) /\ t # s
      BY <1>1, <2>2, StageNumbers
    <3>3. Due(source, t) \in {0, 1}
      BY <1>1, DueFacts
    <3>4. source # "simulator" => after[<<"persona", t, 0>>] = 0 /\ after[<<"judge", t, 1>>] = 0
      BY <3>1, <3>2
    <3>5. next.retries[t] = 0 /\ ~next.critical_used[t]
      BY <1>2, <3>1
    <3>6. QED
      BY <1>2, <1>3, <2>2, <3>2, <3>3, <3>4, <3>5 DEF Tracked
  <2>3. CASE t # s /\ t # s + 1
    <3>1. /\ \/ t < s /\ t < s + 1
             \/ t > s /\ t > s + 1
          /\ s \in PM..QA /\ s + 1 \in PM..QA
      BY <1>1, <2>3, StageNumbers
    <3>2. Tracked(state, used, t)
      BY <1>4
    <3>3. /\ after[<<"persona", t, 0>>] = used[<<"persona", t, 0>>]
          /\ after[<<"judge", t, 1>>] = used[<<"judge", t, 1>>]
      BY <2>3
    <3>4. QED
      BY <1>2, <1>3, <3>1, <3>2, <3>3, TrackedFrame
  <2>4. QED
    BY <2>1, <2>2, <2>3
<1>6. Told(next)
  BY <1>2, <1>4, ToldKept
<1>7. QED
  BY <1>3, <1>5, <1>6 DEF OnTrack

LEMMA RetryTracks ==
  ASSUME NEW r, NEW state, StateOK(state), NEW used, OnTrack(state, used),
         state.node.kind \in {"gate", "confirm"}, state.node.stage = StoryStage(state.source),
         state.retries[state.node.stage] = 0,
         NEW outcome, outcome = Story(state.source),
         NEW next, GateUpdate(r, state, outcome, next),
         NEW after,
         \A t \in Gated :
           /\ after[<<"persona", t, 0>>] = used[<<"persona", t, 0>>]
           /\ after[<<"judge", t, 1>>] =
                IF t = state.node.stage /\ state.source # "simulator" /\ state.node.kind = "gate"
                THEN used[<<"judge", t, 1>>] + 1 ELSE used[<<"judge", t, 1>>]
  PROVE  OnTrack(next, after)
<1> DEFINE s      == state.node.stage
           source == state.source
<1>1. /\ s \in Gated /\ source \in Sources /\ DOMAIN state.retries = Gated
      /\ DOMAIN state.critical_used = Gated
  BY DEF StateOK
<1>2. outcome.verdict = "retry"
  BY DEF Story
<1>3. /\ next.source = source /\ next.artifacts = state.artifacts
      /\ next.retries = [state.retries EXCEPT ![s] = @ + 1]
      /\ \A t \in Gated \ {s} : next.critical_used[t] = state.critical_used[t]
      /\ next.evaluations = Append(state.evaluations,
           [outcome |-> outcome, stage |-> s, attempt |-> 1])
      /\ next.node = Node("persona", s)
  BY <1>1, <1>2 DEF GateUpdate
<1>4. next.node.kind = "persona" /\ next.node.stage = s
  BY <1>3, NodeFacts
<1>5. next.retries[s] = 1 /\ \A t \in Gated \ {s} : next.retries[t] = state.retries[t]
  BY <1>1, <1>3
<1>6. \A t \in Gated : Tracked(state, used, t)
  BY DEF OnTrack
<1>7. ASSUME NEW t \in Gated
      PROVE  Tracked(next, after, t)
  <2>1. CASE t = s
    <3>1. source # "simulator" =>
            /\ used[<<"persona", s, 0>>] = 1
            /\ used[<<"judge", s, 1>>] = IF state.node.kind = "confirm" THEN 1 ELSE 0
      BY <1>1, <1>6, StageNumbers DEF Tracked
    <3>2. ~(s < s) /\ ~(s > s) /\ Due(source, s) = 1
      BY <1>1, DueFacts, StageNumbers
    <3>3. source # "simulator" =>
            after[<<"persona", s, 0>>] = 1 /\ after[<<"judge", s, 1>>] = 1
      BY <1>1, <3>1
    <3>4. QED
      BY <1>3, <1>4, <1>5, <2>1, <3>2, <3>3 DEF Tracked
  <2>2. CASE t # s
    <3>1. /\ \/ t < s /\ t < s
             \/ t > s /\ t > s
          /\ s \in PM..QA
      BY <1>1, <2>2, StageNumbers
    <3>2. Tracked(state, used, t)
      BY <1>6
    <3>3. /\ after[<<"persona", t, 0>>] = used[<<"persona", t, 0>>]
          /\ after[<<"judge", t, 1>>] = used[<<"judge", t, 1>>]
      BY <2>2
    <3>4. QED
      BY <1>3, <1>4, <1>5, <2>2, <3>1, <3>2, <3>3, TrackedFrame
  <2>3. QED
    BY <2>1, <2>2
<1>8. Told(next)
  BY <1>3, ToldNow
<1>9. QED
  BY <1>4, <1>7, <1>8 DEF OnTrack

\* What the gate of a stage concludes from the answers that are due.
LEMMA DueVerdict ==
  ASSUME Curated, DeliveryInv, NEW r \in Runs, run[r].fault = NoFault,
         run[r].node.kind \in {"gate", "confirm"}, OnTrack(run[r], Used(r)),
         NEW next, JudgeUpdate(r, next)
  PROVE  LET state == run[r]
             s     == state.node.stage
         IN  \/ /\ state.node.kind = "gate" /\ state.retries[s] = Due(state.source, s)
                /\ \E outcome \in GateOutcome :
                     GateUpdate(r, state, outcome, next) /\ outcome.verdict = "pass"
             \/ /\ s = StoryStage(state.source) /\ state.retries[s] = 0
                /\ GateUpdate(r, state, Story(state.source), next)
             \/ /\ state.node.kind = "gate" /\ state.source # "fraud-mainframe"
                /\ s = StoryStage(state.source) /\ state.retries[s] = 0
                /\ Kept(state, next) /\ next.artifacts = state.artifacts
                /\ next.invalid = state.invalid /\ next.node = Node("confirm", s)
                /\ next.first = Answer(state.source, s, 1, 1)
<1> DEFINE state  == run[r]
           s      == state.node.stage
           source == state.source
           n      == state.retries[s]
           used   == state.critical_used[s]
           scores == JudgeScores(r)
           x      == Response(r, JudgePurpose(r))
           concludes(outcome) == outcome \in GateOutcome /\ GateUpdate(r, state, outcome, next)
           confirms == /\ Kept(state, next) /\ next.artifacts = state.artifacts
                       /\ next.invalid = state.invalid /\ next.node = Node("confirm", s)
                       /\ next.first = scores /\ state.node.kind = "gate"
                       /\ Confirms(scores, n, used)
<1>1. source \in Sources /\ s \in Gated /\ n \in Nat /\ used \in BOOLEAN
  BY DEF DeliveryInv, StateOK
<1>2. n <= Due(source, s) /\ Due(source, s) \in {0, 1} /\ (used => n > 0)
      /\ (state.node.kind = "confirm" => n = 0 /\ s = StoryStage(source)
                                           /\ source # "fraud-mainframe"
                                           /\ state.first = Answer(source, s, 1, 1))
  <2>1. Tracked(state, Used(r), s)
    BY <1>1 DEF OnTrack
  <2>2. QED
    BY <1>1, <2>1, DueFacts, StageNumbers DEF OnTrack, Tracked
<1> DEFINE verdict(outcome) ==
             /\ outcome = IF state.node.kind = "gate"
                          THEN Evaluate(FALSE, scores, NoOutput, n, used)
                          ELSE Evaluate(FALSE, state.first, scores, n, used)
             /\ state.node.kind = "gate" => ~(scores # NoOutput /\ Confirms(scores, n, used))
<1>3. x # Garbage => scores = x /\ (confirms \/ \E outcome : concludes(outcome) /\ verdict(outcome))
  <2>1. x # Garbage => scores = x
    BY DEF JudgeScores
  <2>2. \/ x = Garbage
        \/ confirms
        \/ \E outcome \in GateOutcome : GateUpdate(r, state, outcome, next) /\ verdict(outcome)
    BY Zenon DEF JudgeUpdate
  <2> HIDE DEF x, scores, confirms, verdict
  <2>3. QED
    BY <2>1, <2>2
<1> HIDE DEF x, scores, concludes, used
<1>4. CASE state.node.kind = "gate" /\ n = Due(source, s)
  <2>1. x = Answer(source, s, 1, Due(source, s) + 1)
    BY <1>4, JudgeAnswers DEF x
  <2>2. Good(x)
    BY <1>1, <2>1, GoodAnswer
  <2>3. /\ x # NoOutput /\ x # Garbage /\ ~Confirms(x, n, used)
        /\ Evaluate(FALSE, x, NoOutput, n, used).verdict = "pass"
    BY <1>1, <2>2, GoodPasses
  <2>4. \E outcome : concludes(outcome) /\ outcome = Evaluate(FALSE, x, NoOutput, n, used)
    <3>1. scores = x /\ ~confirms
      BY <1>3, <2>3
    <3>2. QED
      BY <1>3, <1>4, <2>3, <3>1
  <2>5. \E outcome \in GateOutcome :
          GateUpdate(r, state, outcome, next) /\ outcome.verdict = "pass"
    BY <2>3, <2>4 DEF concludes
  <2>6. QED
    BY <1>4, <2>5
<1>5. CASE state.node.kind = "gate" /\ n # Due(source, s)
  <2>1. n = 0 /\ s = StoryStage(source) /\ used = FALSE
    BY <1>1, <1>2, <1>5, DueFacts
  <2>2. x = Answer(source, s, 1, 1)
    BY <1>5, <2>1, JudgeAnswers DEF x
  <2>3. CASE source = "fraud-mainframe"
    <3>1. s = Architect /\ JudgePurpose(r) = Reviews
      BY <1>5, <2>1, <2>3, JudgeAnswers DEF StoryStage, Reviews
    <3>2. cursor[<<r, Reviews>>] = 0
      <4>1. Tracked(state, Used(r), s)
        BY <1>1 DEF OnTrack
      <4>2. Used(r)[<<"judge", s, 1>>] = 0
        BY <1>1, <1>5, <2>1, <2>3, <4>1, StageNumbers DEF Tracked
      <4>3. QED
        BY <3>1, <4>2, DesignCalls DEF Used, Reviews
    <3>3. ~Injected(r, Reviews)
      BY DesignCalls, PlainCall
    <3>4. /\ x # Garbage /\ x # NoOutput /\ ~Confirms(x, 0, FALSE)
          /\ Evaluate(FALSE, x, NoOutput, 0, FALSE) = Story("fraud-mainframe")
      <4>1. Guarded
        BY DEF Curated
      <4>2. x = Response(r, Reviews)
        BY <3>1 DEF x
      <4>3. 0 \in Nat /\ 0 <= 1
        OBVIOUS
      <4>4. QED
        BY <2>3, <3>2, <3>3, <4>1, <4>2, <4>3, FirstReview, Zenon
    <3>5. ~Confirms(x, n, used)
            /\ Evaluate(FALSE, x, NoOutput, n, used) = Story("fraud-mainframe")
      BY <2>1, <3>4
    <3>6. scores = x /\ ~confirms
      BY <1>3, <3>4, <3>5
    <3>7. concludes(Story(source))
      BY <1>3, <1>5, <2>3, <3>4, <3>5, <3>6
    <3>8. QED
      BY <2>1, <3>7 DEF concludes
  <2>4. CASE source # "fraud-mainframe"
    <3>1. x = <<3, 4, 5, 3, 4>> \/ x = <<4, 3, 2, 3, 4>>
      BY <1>1, <2>1, <2>2, <2>4, WeakAnswers DEF Sources, StoryStage
    <3>2. x \in ScoreVector /\ Mean(x) \in {320, 380}
      BY <3>1, WeakVectors
    <3>3. x # NoOutput /\ x # Garbage /\ Confirms(x, 0, FALSE)
      BY <3>2, WeakConfirmed
    <3>4. Confirms(x, n, used)
      BY <2>1, <3>3
    <3>5. scores = x /\ \A outcome : ~verdict(outcome)
      BY <1>3, <1>5, <3>3, <3>4
    <3>6. confirms
      BY <1>3, <3>3, <3>5
    <3>7. QED
      BY <1>5, <2>1, <2>2, <2>4, <3>5, <3>6
  <2>5. QED
    BY <2>3, <2>4
<1>6. CASE state.node.kind = "confirm"
  <2>1. n = 0 /\ s = StoryStage(source) /\ used = FALSE /\ source # "fraud-mainframe"
        /\ state.first = Answer(source, s, 1, 1)
    BY <1>1, <1>2, <1>6
  <2>2. PICK m \in Nat \ {0} : x = Answer(source, s, 2, m) /\ (source = "simulator" => m = 1)
    BY <1>6, JudgeAnswers DEF x
  <2>3. /\ x = <<3, 4, 5, 3, 4>> \/ x = <<3, 3, 2, 3, 4>>
        /\ state.first = <<3, 4, 5, 3, 4>> \/ state.first = <<4, 3, 2, 3, 4>>
    <3>1. CASE source = "simulator"
      <4>1. s = PM /\ m = 1
        BY <2>1, <2>2, <3>1 DEF StoryStage
      <4>2. QED
        BY <2>1, <2>2, <3>1, <4>1, WeakAnswers
    <3>2. CASE source = "leave-management"
      <4>1. s = BA /\ m >= 1 /\ m \in Nat
        BY <2>1, <2>2, <3>2 DEF StoryStage
      <4>2. QED
        BY <2>1, <2>2, <3>2, <4>1, WeakAnswers
    <3>3. QED
      BY <1>1, <2>1, <3>1, <3>2 DEF Sources
  <2>4. /\ x \in ScoreVector /\ Mean(x) \in {300, 380} /\ \A d \in Dimensions : x[d] # 1
        /\ state.first \in ScoreVector /\ Mean(state.first) \in {320, 380}
    BY <2>3, WeakVectors
  <2>5. state.first # NoOutput /\ Confirms(state.first, 0, FALSE)
    <3> DEFINE first == state.first
    <3>1. first \in ScoreVector /\ Mean(first) \in {320, 380}
      BY <2>4
    <3> HIDE DEF first
    <3>2. first # NoOutput /\ Confirms(first, 0, FALSE)
      BY <3>1, WeakConfirmed
    <3>3. QED
      BY <3>2 DEF first
  <2>6. x # Garbage /\ Evaluate(FALSE, state.first, x, 0, FALSE) = Story(source)
    <3>1. x # Garbage
      BY <2>4, DemoAssumption
    <3>2. Evaluate(FALSE, state.first, x, 0, FALSE) = Story(source)
      <4> DEFINE first == state.first
                 origin == source
      <4>1. first # NoOutput /\ Confirms(first, 0, FALSE) /\ origin # "fraud-mainframe"
        BY <2>1, <2>5
      <4> HIDE DEF first, origin
      <4>2. x \in ScoreVector /\ Mean(x) <= 380 /\ \A d \in Dimensions : x[d] # 1
        BY <2>4
      <4>3. Evaluate(FALSE, first, x, 0, FALSE) = Story(origin)
        BY <4>1, <4>2, WeakRetried, Zenon
      <4>4. QED
        BY <4>3 DEF first, origin
    <3>3. QED
      BY <3>1, <3>2
  <2>7. concludes(Story(source))
    <3>1. Evaluate(FALSE, state.first, x, n, used) = Story(source)
      BY <2>1, <2>6
    <3>2. scores = x /\ ~confirms
      BY <1>3, <1>6, <2>6
    <3>3. QED
      BY <1>3, <1>6, <2>6, <3>1, <3>2
  <2>8. QED
    BY <2>1, <2>7 DEF concludes
<1>7. QED
  BY <1>4, <1>5, <1>6

LEMMA JudgeTells ==
  ASSUME Curated, DeliveryInv, StoryInv, NEW r \in Runs, JudgeCall(r)
  PROVE  StoryInv'
<1> DEFINE state   == run[r]
           s       == state.node.stage
           source  == state.source
           purpose == JudgePurpose(r)
           after   == Used(r)'
<1>1. /\ state.node.kind \in {"gate", "confirm"} /\ Complete(r, purpose) /\ purpose \in Purposes
  BY JudgeEffect
<1>2. PICK next : run' = [run EXCEPT ![r] = next] /\ JudgeUpdate(r, next)
  BY JudgeEffect
<1>3. StateOK(state) /\ s \in Gated /\ source \in Sources
  BY <1>1 DEF DeliveryInv, StateOK
<1>4. next.fault = state.fault /\ next.source = source
      /\ next.node.kind \in {"persona", "gate", "confirm", "blocked"}
  <2>1. ASSUME Kept(state, next), next.node = state.node \/ next.node = Node("confirm", s)
        PROVE  /\ next.fault = state.fault /\ next.source = source
               /\ next.node.kind \in {"gate", "confirm"}
    BY <1>1, <2>1, NodeFacts DEF Kept
  <2>2. ASSUME NEW outcome, GateUpdate(r, state, outcome, next)
        PROVE  /\ next.fault = state.fault /\ next.source = source
               /\ next.node.kind \in {"persona", "blocked"}
    BY <2>2, ConcludedKinds DEF GateUpdate
  <2>3. \/ Kept(state, next) /\ (next.node = state.node \/ next.node = Node("confirm", s))
        \/ \E outcome : GateUpdate(r, state, outcome, next)
    BY <1>2, Zenon DEF JudgeUpdate
  <2>4. QED
    BY <2>1, <2>2, <2>3
<1>5. \A p \in Purposes :
        after[p] = IF p = purpose /\ source # "simulator" /\ ~Injected(r, purpose)
                   THEN Used(r)[p] + 1 ELSE Used(r)[p]
  <2>1. \A p \in Purposes : after[p] = cursor'[<<r, p>>] /\ Used(r)[p] = cursor[<<r, p>>]
    BY DEF Used
  <2>2. source = "simulator" => cursor' = cursor
    BY <1>1 DEF Complete
  <2>3. QED
    BY <1>1, <2>1, <2>2, CursorFacts
<1> HIDE DEF after
<1>6. ASSUME next.fault = NoFault
      PROVE  OnTrack(next, after)
  <2>1. OnTrack(state, Used(r)) /\ state.fault = NoFault
    BY <1>1, <1>4, <1>6 DEF StoryInv
  <2>2. ~Injected(r, purpose)
    BY <1>1, <2>1, PlainCall
  <2>3. purpose = <<"judge", s, IF state.node.kind = "gate" THEN 1 ELSE 2>>
    BY <1>1, <2>1, JudgeAnswers
  <2>4. \A t \in Gated :
          /\ after[<<"persona", t, 0>>] = Used(r)[<<"persona", t, 0>>]
          /\ after[<<"judge", t, 1>>] =
               IF t = s /\ source # "simulator" /\ state.node.kind = "gate"
               THEN Used(r)[<<"judge", t, 1>>] + 1 ELSE Used(r)[<<"judge", t, 1>>]
    <3> SUFFICES ASSUME NEW t \in Gated
                 PROVE  /\ after[<<"persona", t, 0>>] = Used(r)[<<"persona", t, 0>>]
                        /\ after[<<"judge", t, 1>>] =
                             IF t = s /\ source # "simulator" /\ state.node.kind = "gate"
                             THEN Used(r)[<<"judge", t, 1>>] + 1 ELSE Used(r)[<<"judge", t, 1>>]
      OBVIOUS
    <3>1. <<"persona", t, 0>> # purpose
          /\ (<<"judge", t, 1>> = purpose <=> t = s /\ state.node.kind = "gate")
      BY <1>1, <2>3
    <3> HIDE DEF purpose, s, state, source
    <3>2. QED
      BY <1>5, <2>2, <3>1, CallsMade
  <2>5. CASE /\ state.node.kind = "gate" /\ state.retries[s] = Due(source, s)
             /\ \E outcome \in GateOutcome :
                  GateUpdate(r, state, outcome, next) /\ outcome.verdict = "pass"
    <3>1. PICK outcome : GateUpdate(r, state, outcome, next) /\ outcome.verdict = "pass"
      BY <2>5
    <3>2. \A t \in Gated :
            /\ after[<<"persona", t, 0>>] = Used(r)[<<"persona", t, 0>>]
            /\ after[<<"judge", t, 1>>] =
                 IF t = s /\ source # "simulator"
                 THEN Used(r)[<<"judge", t, 1>>] + 1 ELSE Used(r)[<<"judge", t, 1>>]
      BY <2>4, <2>5
    <3>3. QED
      BY <1>3, <2>1, <2>5, <3>1, <3>2, PassTracks
  <2>6. CASE /\ s = StoryStage(source) /\ state.retries[s] = 0
             /\ GateUpdate(r, state, Story(source), next)
    BY <1>1, <1>3, <2>1, <2>4, <2>6, RetryTracks
  <2>7. CASE /\ state.node.kind = "gate" /\ source # "fraud-mainframe"
             /\ s = StoryStage(source) /\ state.retries[s] = 0
             /\ Kept(state, next) /\ next.artifacts = state.artifacts
             /\ next.invalid = state.invalid /\ next.node = Node("confirm", s)
             /\ next.first = Answer(source, s, 1, 1)
    <3>1. /\ next.node.kind = "confirm" /\ next.node.stage = s
          /\ next.retries = state.retries /\ next.critical_used = state.critical_used
          /\ next.evaluations = state.evaluations
      BY <2>7, NodeFacts DEF Kept
    <3>2. /\ \A t \in Gated : Tracked(state, Used(r), t)
          /\ ~state.invalid /\ state.artifacts[s] = Draft(source, s, 0 + 1) /\ Told(state)
      BY <2>1, <2>7 DEF OnTrack
    <3>3. ASSUME NEW t \in Gated
          PROVE  Tracked(next, after, t)
      <4>1. CASE t = s
        <5>1. /\ 0 <= Due(source, s) /\ ~state.critical_used[s]
              /\ source # "simulator" => /\ Used(r)[<<"persona", s, 0>>] = 0 + 1
                                         /\ Used(r)[<<"judge", s, 1>>] = 0
          BY <1>3, <2>7, <3>2, StageNumbers DEF Tracked
        <5>2. ~(s < s) /\ ~(s > s)
          BY <1>3, StageNumbers
        <5>3. source # "simulator" =>
                after[<<"persona", s, 0>>] = 0 + 1 /\ after[<<"judge", s, 1>>] = 0 + 1
          BY <1>3, <2>4, <2>7, <5>1
        <5>4. QED
          BY <1>4, <2>7, <3>1, <4>1, <5>1, <5>2, <5>3 DEF Tracked
      <4>2. CASE t # s
        <5>1. /\ \/ t < s /\ t < s
                 \/ t > s /\ t > s
              /\ s \in PM..QA
          BY <1>3, <4>2, StageNumbers
        <5>2. Tracked(state, Used(r), t)
          BY <3>2
        <5>3. /\ after[<<"persona", t, 0>>] = Used(r)[<<"persona", t, 0>>]
              /\ after[<<"judge", t, 1>>] = Used(r)[<<"judge", t, 1>>]
          BY <2>4, <4>2
        <5>4. /\ next.retries[t] = state.retries[t] /\ next.artifacts[t] = state.artifacts[t]
              /\ next.critical_used[t] = state.critical_used[t]
          BY <2>7, <3>1
        <5>5. QED
          BY <1>4, <3>1, <5>1, <5>2, <5>3, <5>4, TrackedFrame
      <4>3. QED
        BY <4>1, <4>2
    <3>4. Told(next)
      BY <1>3, <1>4, <3>1, <3>2, ToldKept
    <3>5. QED
      BY <1>4, <2>7, <3>1, <3>2, <3>3, <3>4 DEF OnTrack
  <2>8. QED
    BY <1>1, <1>2, <2>1, <2>5, <2>6, <2>7, DueVerdict
<1>7. cursor' = cursor \/ \E p \in Purposes : cursor' = [cursor EXCEPT ![<<r, p>>] = @ + 1]
  BY <1>1, CursorFacts
<1>8. QED
  BY <1>2, <1>4, <1>6, <1>7, OneRunTells DEF after

LEMMA RejectionTells ==
  ASSUME DeliveryInv, StoryInv, NEW r \in Runs, GateRejects(r)
  PROVE  StoryInv'
<1> DEFINE state   == run[r]
           s       == state.node.stage
           outcome == Rejection(state.retries[s])
           next    == Concluded(r, state, outcome)
<1>1. StateOK(state) /\ state.node.kind = "gate" /\ s \in Gated /\ Rejected(r)
  BY DEF GateRejects, At, DeliveryInv, StateOK
<1>2. run' = [run EXCEPT ![r] = next] /\ cursor' = cursor
  BY DEF GateRejects, Stage, DeliveryInv
<1>3. GateUpdate(r, state, outcome, next)
  BY <1>1, ConcludedUpdate DEF StateOK
<1>4. state.fault # NoFault
  <2> SUFFICES ASSUME state.fault = NoFault
               PROVE  FALSE
    OBVIOUS
  <2>1. OnTrack(state, Used(r)) /\ state.source \in Sources /\ state.retries[s] \in Nat
    BY <1>1 DEF StoryInv, StateOK
  <2>2. /\ ~state.invalid /\ state.artifacts[s] = Draft(state.source, s, state.retries[s] + 1)
        /\ \A t \in Gated : t < s =>
             state.artifacts[t] = Draft(state.source, t, Due(state.source, t) + 1)
    BY <1>1, <2>1 DEF OnTrack, Tracked
  <2>3. blocking(FindingsOf(state.artifacts, s)) = {}
    BY <1>1, <2>1, <2>2, DraftsPass
  <2>4. QED
    BY <1>1, <2>2, <2>3 DEF Rejected, Stage
<1> HIDE DEF outcome, next
<1>5. next.fault = state.fault /\ next.node.kind # "new"
  <2>1. next.node.kind \in {"persona", "blocked"}
    BY <1>3, ConcludedKinds
  <2>2. next.fault = state.fault
    BY <1>3 DEF GateUpdate
  <2>3. QED
    BY <2>1, <2>2
<1>6. QED
  BY <1>2, <1>4, <1>5, OneRunTells

LEMMA RaiseTells ==
  ASSUME DeliveryInv, StoryInv, NEW r \in Runs, CallRaises(r)
  PROVE  StoryInv'
<1> DEFINE next == [run[r] EXCEPT !.node.kind = "failed", !.records = 0,
                                  !.tries = 0, !.first = NoOutput]
<1>1. run' = [run EXCEPT ![r] = next] /\ cursor' = cursor
  BY DEF CallRaises, DeliveryInv
<1>2. DOMAIN run[r] = Fields /\ DOMAIN run[r].node = {"kind", "stage"}
  BY DEF DeliveryInv, StateOK
<1>3. next.node.kind = "failed"
  BY <1>2 DEF Fields
<1> HIDE DEF next
<1>4. QED
  BY <1>1, <1>3, OneRunTells

LEMMA StoryStep ==
  ASSUME Curated, DeliveryInv, StoryInv, [DemoNext]_demoVars
  PROVE  StoryInv'
<1>1. CASE UNCHANGED demoVars
  BY <1>1 DEF demoVars, StoryInv, Used
<1>2. CASE DemoNext
  BY <1>2, AssignTells, PersonaTells, RejectionTells, JudgeTells, RaiseTells DEF DemoNext
<1>3. QED
  BY <1>1, <1>2

LEMMA StoryInit == DemoInit => StoryInv
<1> SUFFICES ASSUME DemoInit PROVE StoryInv
  OBVIOUS
<1>1. \A r \in Runs : run[r].node.kind = "new" /\ \A p \in Purposes : cursor[<<r, p>>] = 0
  BY DEF DemoInit, NotStarted, Node
<1>2. QED
  BY <1>1 DEF StoryInv

\* Where the gates are as shipped and the thresholds between the examples' borderline
\* and good answers, a run without faults that ends tells its source's story, in any
\* number of runs that share their clients (DemoExample.highlights, demo/library.py).
THEOREM StorySafety == Curated => (DemoSpec => []RunsTellTheirStory)
<1> SUFFICES ASSUME Curated
             PROVE  DemoSpec => []RunsTellTheirStory
  OBVIOUS
<1>1. DeliveryInv /\ StoryInv => RunsTellTheirStory
  <2> SUFFICES ASSUME DeliveryInv, StoryInv, NEW r \in Runs,
                      run[r].node.kind \in {"complete", "blocked"}, run[r].fault = NoFault
               PROVE  LET s == StoryStage(run[r].source)
                      IN  /\ At(r, "complete")
                          /\ run[r].retries = [g \in Gated |-> IF g = s THEN 1 ELSE 0]
                          /\ \E e \in {run[r].evaluations[i] : i \in 1..Len(run[r].evaluations)} :
                               e.stage = s /\ e.attempt = 1 /\ e.outcome = Story(run[r].source)
    BY DEF RunsTellTheirStory
  <2> DEFINE state == run[r]
             s     == StoryStage(state.source)
  <2>1. OnTrack(state, Used(r)) /\ StateOK(state) /\ state.source \in Sources
    BY DEF StoryInv, DeliveryInv, StateOK
  <2>2. state.node.kind = "complete" /\ state.node.stage = QA
    BY <2>1 DEF OnTrack, StateOK
  <2>3. \A t \in Gated : state.retries[t] = IF t = s THEN 1 ELSE 0
    BY <2>1, <2>2, StageNumbers DEF OnTrack, Tracked, Due
  <2>4. state.retries = [g \in Gated |-> IF g = s THEN 1 ELSE 0]
    BY <2>1, <2>3 DEF StateOK
  <2>5. state.retries[s] = 1
    BY <2>1, <2>3, DueFacts
  <2>6. PICK i \in 1..Len(state.evaluations) :
          /\ state.evaluations[i].stage = s /\ state.evaluations[i].attempt = 1
          /\ state.evaluations[i].outcome = Story(state.source)
    BY <2>1, <2>5 DEF OnTrack, Told
  <2>7. QED
    BY <2>2, <2>4, <2>6 DEF At
<1>2. Guarded
  BY DEF Curated
<1>3. DeliveryInv /\ StoryInv /\ [DemoNext]_demoVars => DeliveryInv' /\ StoryInv'
  BY <1>2, DeliveryStep, StoryStep
<1>4. DemoInit => DeliveryInv /\ StoryInv
  BY DeliveryInit, StoryInit
<1>5. QED
  BY <1>1, <1>3, <1>4, PTL DEF DemoSpec
=============================================================================
