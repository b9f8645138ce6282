-------------------------------- MODULE Checks --------------------------------
(***************************************************************************)
(* The deterministic handoff checks (quality/checks.py) over what they     *)
(* count of an artifact (schemas/artifacts.py). A story is its number; an  *)
(* acceptance criterion is a pair of a story and its number there.         *)
(***************************************************************************)
EXTENDS Integers, FiniteSets

\* goals, success metrics, how many of them have no number, constraints, scope.
Brief == [goals : Nat, metrics : Nat, vague : Nat, constraints : Nat, out_of_scope : Nat]

\* Story ids are unique: the criteria are counted by story, and a story's links to
\* business goals are one set.
Requirements(Stories) ==
  [criteria : UNION {[S -> Nat \ {0}] : S \in SUBSET Stories},
   trace : UNION {[S -> SUBSET Int] : S \in SUBSET Stories}, questions : Nat]

\* `presumes`: it relies on an interface the legacy system does not have.
Design ==
  [risks : Nat, unmitigated : Nat, adrs : Nat, detailed : BOOLEAN, adapter : BOOLEAN,
   presumes : BOOLEAN]

Implementation(Stories) ==
  [broken : BOOLEAN, implemented : SUBSET Stories, stubbed : SUBSET Stories]

TestPlan(Stories) ==
  [covered : SUBSET (Stories \X Nat), untestable : SUBSET (Stories \X Nat)]

Finding(severity, issue, about) ==
  [severity |-> severity, issue |-> issue, about |-> about]

Blocking(issue, subjects) == {Finding("blocking", issue, x) : x \in subjects}

Count(issue, about, n, lo, hi) ==
  IF n \in lo..hi THEN {} ELSE {Finding("advisory", issue, about)}

------------------------------------------------------------------------------
check_problem_brief(brief) ==
  Count("business_goals", 0, brief.goals, 3, 5)
    \union Count("success_metrics", 0, brief.metrics, 2, 4)
    \union {Finding("advisory", "no_number", i) : i \in 1..brief.vague}

check_requirements(req, brief) ==
  LET stories == DOMAIN req.criteria
      traced  == DOMAIN req.trace
  IN  Blocking("untraced", stories \ traced)
        \union Blocking("unknown_story", traced \ stories)
        \union Blocking("unknown_goal",
                        {s \in traced : ~(req.trace[s] \subseteq 0..brief.goals - 1)})
        \union Count("user_stories", 0, Cardinality(stories), 4, 8)
        \union UNION {Count("criteria", s, req.criteria[s], 2, 4) : s \in stories}

MitigationsUnchecked(design) ==
  Blocking("risks", IF design.risks < 2 THEN {0} ELSE {})
    \union Blocking("approach", IF design.detailed THEN {} ELSE {0})

check_design(design) ==
  Blocking("risks", IF design.risks < 2 THEN {0} ELSE {})
    \union Blocking("no_mitigation", 1..design.unmitigated)
    \union Blocking("approach", IF design.detailed THEN {} ELSE {0})
    \union Count("adrs", 0, design.adrs, 2, 4)

check_implementation(impl, req) ==
  LET stories  == DOMAIN req.criteria
      declared == impl.implemented \union impl.stubbed
  IN  Blocking("syntax", IF impl.broken THEN {0} ELSE {})
        \union Blocking("unknown_story", declared \ stories)
        \union Blocking("silently_skipped", stories \ declared)
        \union Count("implemented", 0, Cardinality(impl.implemented), 1, 2)

blocking(findings) == {f \in findings : f.severity = "blocking"}

acceptance_criterion_ids(req) ==
  UNION {{<<s, n>> : n \in 1..req.criteria[s]} : s \in DOMAIN req.criteria}

uncovered_acceptance_criteria(plan, req) ==
  acceptance_criterion_ids(req) \ (plan.covered \union plan.untestable)
===============================================================================
