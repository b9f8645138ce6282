------------------------------- MODULE Simulator -------------------------------
(***************************************************************************)
(* The stand-ins for a model: the simulator's templates and its rule-based *)
(* judge (demo/simulator.py), and the curated scripts of the two examples  *)
(* (demo/library.py and its fixtures), reduced to what the checks and the  *)
(* judges count.                                                           *)
(***************************************************************************)
EXTENDS Checks, Sequences

PM == 1
BA == 2
Architect == 3
Dev == 4
QA == 5

------------------------------------------------------------------------------
(* Templates.                                                              *)

AlwaysThin(complete) ==
  [goals |-> 2, metrics |-> 2, vague |-> 2, constraints |-> 3, out_of_scope |-> 0]

\* The first draft is deliberately thin.
TemplateBrief(complete) ==
  IF complete
  THEN [goals |-> 4, metrics |-> 3, vague |-> 0, constraints |-> 3, out_of_scope |-> 2]
  ELSE [goals |-> 2, metrics |-> 2, vague |-> 2, constraints |-> 3, out_of_scope |-> 0]

TemplateRequirements ==
  [criteria |-> <<2, 3, 2, 2>>, trace |-> <<{0}, {1, 2}, {0}, {3}>>, questions |-> 3]

SoundDesign(risks, adrs) ==
  [risks |-> risks, unmitigated |-> 0, adrs |-> adrs, detailed |-> TRUE, adapter |-> TRUE,
   presumes |-> FALSE]

\* The first two stories are implemented, the others stubbed.
Slice(stories) == [broken |-> FALSE, implemented |-> 1..2, stubbed |-> 3..stories]

Plan(covered, untestable) == [covered |-> covered, untestable |-> untestable]

TemplatePlan ==
  Plan({<<1, 1>>, <<1, 2>>, <<2, 1>>, <<2, 2>>, <<2, 3>>, <<4, 1>>},
       {<<3, 1>>, <<3, 2>>, <<4, 2>>})

Template(s, attempt) ==
  CASE s = PM        -> TemplateBrief(attempt > 1)
    [] s = BA        -> TemplateRequirements
    [] s = Architect -> SoundDesign(2, 2)
    [] s = Dev       -> Slice(4)
    [] s = QA        -> TemplatePlan

------------------------------------------------------------------------------
(* The rule-based judge. A score vector lists completeness, correctness,   *)
(* constraint awareness, clarity and traceability.                         *)

Score(condition, good, bad) == IF condition THEN good ELSE bad

JudgeBrief(a) ==
  <<Score(a.goals >= 3 /\ a.out_of_scope > 0, 5, 3), 4, Score(a.constraints > 0, 5, 1),
    Score(a.vague = 0, 5, 3), 4>>

JudgeRequirements(a) ==
  LET stories == DOMAIN a.criteria
      thin    == {s \in stories : a.criteria[s] < 2}
  IN  <<Score(Cardinality(stories) \in 4..8 /\ thin = {}, 5, 3), 4,
        Score(a.questions > 0, 5, 3), 4, Score(stories \subseteq DOMAIN a.trace, 5, 2)>>

JudgeDesign(a) ==
  <<Score(a.risks >= 2 /\ a.unmitigated = 0, 5, 3), 4, Score(a.adapter, 5, 3), 4, 4>>

JudgeImplementation(a) ==
  <<5, Score(a.broken, 1, 4), 5, 4, Score(a.implemented # {}, 5, 2)>>

Judgement(s, a) ==
  CASE s = PM        -> JudgeBrief(a)
    [] s = BA        -> JudgeRequirements(a)
    [] s = Architect -> JudgeDesign(a)
    [] s = Dev       -> JudgeImplementation(a)

------------------------------------------------------------------------------
(* The curated scripts: stage or judge -> its responses in order.          *)

Personas == {<<"persona", s, 0>> : s \in PM..QA}
JudgeCalls == {<<"judge", s, tier>> : s \in PM..Dev, tier \in 1..2}
Purposes == Personas \union JudgeCalls

CuratedBrief(constraints) ==
  [goals |-> 4, metrics |-> 3, vague |-> 0, constraints |-> constraints, out_of_scope |-> 3]

Criteria(s, n) == {s} \X (1..n)

LeaveManagement(purpose) ==
  CASE purpose = <<"persona", PM, 0>> -> <<CuratedBrief(3)>>
    [] purpose = <<"persona", BA, 0>> ->
         <<[criteria |-> <<2, 2, 1, 1>>, trace |-> <<{0}, {1}, {0, 2}, {3}>>, questions |-> 1],
           [criteria |-> <<3, 3, 2, 2, 2>>, trace |-> <<{0}, {1}, {0, 2}, {2}, {3}>>,
            questions |-> 5]>>
    [] purpose = <<"persona", Architect, 0>> -> <<SoundDesign(3, 3)>>
    [] purpose = <<"persona", Dev, 0>> -> <<Slice(5)>>
    [] purpose = <<"persona", QA, 0>> ->
         <<Plan(Criteria(1, 3) \union Criteria(2, 3) \union {<<3, 1>>, <<5, 1>>},
                {<<3, 2>>, <<5, 2>>} \union Criteria(4, 2))>>
    [] purpose = <<"judge", BA, 1>> -> <<<<4, 3, 2, 3, 4>>, <<5, 4, 5, 4, 5>>>>
    [] purpose = <<"judge", BA, 2>> -> <<<<3, 3, 2, 3, 4>>>>
    [] purpose \in {<<"judge", PM, 1>>, <<"judge", PM, 2>>} -> <<<<5, 4, 5, 4, 5>>>>
    [] purpose \in {<<"judge", Architect, 1>>, <<"judge", Architect, 2>>} -> <<<<5, 4, 5, 4, 4>>>>
    [] purpose \in {<<"judge", Dev, 1>>, <<"judge", Dev, 2>>} -> <<<<4, 4, 5, 4, 5>>>>

\* F3 of the fault cases, and the first design of the script: a webhook and a
\* REST API on a batch-only mainframe.
FlawedDesign ==
  [risks |-> 2, unmitigated |-> 0, adrs |-> 2, detailed |-> TRUE, adapter |-> FALSE,
   presumes |-> TRUE]

\* F6 of the fault cases.
UnmitigatedDesign == [SoundDesign(2, 3) EXCEPT !.unmitigated = 2]

FraudMainframe(purpose) ==
  CASE purpose = <<"persona", PM, 0>> -> <<CuratedBrief(6)>>
    [] purpose = <<"persona", BA, 0>> ->
         <<[criteria |-> <<3, 3, 2, 2>>, trace |-> <<{0, 3}, {1}, {2}, {1}>>, questions |-> 4]>>
    [] purpose = <<"persona", Architect, 0>> -> <<FlawedDesign, SoundDesign(3, 3)>>
    [] purpose = <<"persona", Dev, 0>> -> <<Slice(4)>>
    [] purpose = <<"persona", QA, 0>> ->
         <<Plan(Criteria(1, 3) \union Criteria(2, 2),
                {<<2, 3>>} \union Criteria(3, 2) \union Criteria(4, 2))>>
    [] purpose = <<"judge", Architect, 1>> -> <<<<3, 1, 1, 4, 3>>, <<5, 4, 5, 4, 4>>>>
    [] purpose = <<"judge", Architect, 2>> -> <<<<5, 4, 5, 4, 4>>>>
    [] purpose \in {<<"judge", PM, 1>>, <<"judge", PM, 2>>} -> <<<<5, 4, 5, 4, 5>>>>
    [] purpose \in {<<"judge", BA, 1>>, <<"judge", BA, 2>>} -> <<<<4, 4, 5, 4, 5>>>>
    [] purpose \in {<<"judge", Dev, 1>>, <<"judge", Dev, 2>>} -> <<<<4, 4, 5, 4, 4>>>>
===============================================================================
