--------------------------- MODULE AuditedRunProofs ---------------------------
(***************************************************************************)
(* Proofs about AuditedRun: what the audit rows of a run tell of its state, *)
(* for every number of stages, budget, policy, judge and number of         *)
(* failures. A run with its rows is a run of Pipeline, so every theorem    *)
(* about Pipeline holds of it.                                             *)
(***************************************************************************)
EXTENDS AuditedRun, PipelineProofs, FiniteSetTheorems, SequenceTheorems, WellFoundedInduction

------------------------------------------------------------------------------
(* Rows as sets, and the rows of a set in a log.                           *)

Marks   == Verdicts \union Actions \union {"none"}
Numbers == 0..RetryCap + 1
Types   == {"run_started", "persona_call", "parse_failure", "evaluation", "escalation",
            "human_decision", "run_completed", "run_aborted", "run_failed"}

\* The rows of some types, stages, attempts and verdicts.
RowsOf(types, stages, ns, vs) ==
  [event_type : types, stage : stages, attempt : ns, verdict : vs, judged : BOOLEAN]

RowSet == RowsOf(Types, 0..N, Numbers, Marks)

Pos(seq, S)     == {i \in 1..Len(seq) : seq[i] \in S}
Has(seq, S)     == Pos(seq, S) # {}
Count(seq, S)   == Cardinality(Pos(seq, S))
LastIn(seq, S)  == IF Has(seq, S) THEN seq[View!Latest(Pos(seq, S))] ELSE View!NoRow
FirstIn(seq, S) == seq[View!Earliest(Pos(seq, S))]

\* Every nonempty set of numbers has a least element, and a greatest one if it
\* is bounded.
LEMMA LeastNumber ==
  ASSUME NEW T \in SUBSET Nat, T # {}
  PROVE  \E m \in T : \A n \in T : m <= n
<1> DEFINE R == OpToRel(<, Nat)
<1>1. IsWellFoundedOn(R, Nat)
  BY NatLessThanWellFounded
<1>2. \A x, y \in Nat : <<y, x>> \in R <=> y < x
  BY DEF OpToRel
<1> HIDE DEF R
<1>3. PICK m \in T : \A n \in T : ~(<<n, m>> \in R)
  BY <1>1, WFMin
<1>4. ASSUME NEW n \in T
      PROVE  m <= n
  <2>1. m \in Nat /\ n \in Nat
    OBVIOUS
  <2>2. ~(n < m)
    BY <1>2, <1>3, <2>1
  <2>3. QED
    BY <2>1, <2>2
<1>5. QED
  BY <1>4

LEMMA GreatestNumber ==
  ASSUME NEW T \in SUBSET Nat, T # {}, NEW bound \in Nat, \A n \in T : n <= bound
  PROVE  \E m \in T : \A n \in T : n <= m
<1> DEFINE U == {k \in Nat : \A n \in T : n <= k}
<1>1. U # {} /\ U \in SUBSET Nat
  OBVIOUS
<1>2. PICK k \in U : \A u \in U : k <= u
  BY <1>1, LeastNumber
<1>3. CASE k \in T
  BY <1>2, <1>3
<1>4. CASE k \notin T
  <2>1. PICK t \in T : TRUE
    OBVIOUS
  <2>2. k \in Nat /\ t \in Nat /\ t <= k /\ t # k
    BY <1>2, <1>4, <2>1
  <2>3. k - 1 \in Nat
    BY <2>2
  <2>4. \A n \in T : n <= k - 1
    <3>1. ASSUME NEW n \in T
          PROVE  n <= k - 1
      <4>1. n \in Nat /\ n <= k /\ n # k
        BY <1>2, <1>4
      <4>2. QED
        BY <2>2, <4>1
    <3>2. QED
      BY <3>1
  <2>5. k - 1 \in U
    BY <2>3, <2>4
  <2>6. k <= k - 1
    BY <1>2, <2>5
  <2>7. QED
    BY <2>2, <2>6
<1>5. QED
  BY <1>3, <1>4

\* Latest and Earliest name the greatest and the least position.
LEMMA LatestFacts ==
  ASSUME NEW T \in SUBSET Nat, T # {}, NEW bound \in Nat, \A n \in T : n <= bound
  PROVE  View!Latest(T) \in T /\ \A n \in T : n <= View!Latest(T)
BY GreatestNumber DEF View!Latest

LEMMA EarliestFacts ==
  ASSUME NEW T \in SUBSET Nat, T # {}
  PROVE  View!Earliest(T) \in T /\ \A n \in T : View!Earliest(T) <= n
BY LeastNumber DEF View!Earliest

LEMMA LatestIs ==
  ASSUME NEW T \in SUBSET Nat, NEW m \in T, \A n \in T : n <= m
  PROVE  View!Latest(T) = m
<1>1. View!Latest(T) \in T /\ \A n \in T : n <= View!Latest(T)
  BY LatestFacts
<1>2. View!Latest(T) \in Nat /\ m \in Nat /\ View!Latest(T) <= m /\ m <= View!Latest(T)
  BY <1>1
<1>3. QED
  BY <1>2

LEMMA EarliestIs ==
  ASSUME NEW T \in SUBSET Nat, NEW m \in T, \A n \in T : m <= n
  PROVE  View!Earliest(T) = m
<1>1. View!Earliest(T) \in T /\ \A n \in T : View!Earliest(T) <= n
  BY EarliestFacts
<1>2. View!Earliest(T) \in Nat /\ m \in Nat /\ View!Earliest(T) <= m /\ m <= View!Earliest(T)
  BY <1>1
<1>3. QED
  BY <1>2

LEMMA PosFacts ==
  ASSUME NEW X, NEW q \in Seq(X), NEW S
  PROVE  /\ Pos(q, S) \in SUBSET Nat /\ Len(q) \in Nat
         /\ \A i \in Pos(q, S) : 1 <= i /\ i <= Len(q) /\ q[i] \in S
         /\ IsFiniteSet(Pos(q, S)) /\ Count(q, S) \in Nat
<1>1. Len(q) \in Nat
  OBVIOUS
<1>2. Pos(q, S) \in SUBSET Nat /\ \A i \in Pos(q, S) : 1 <= i /\ i <= Len(q) /\ q[i] \in S
  BY <1>1 DEF Pos
<1>3. Pos(q, S) \subseteq 1..Len(q)
  BY DEF Pos
<1>4. IsFiniteSet(1..Len(q))
  BY <1>1, FS_Interval
<1>5. IsFiniteSet(Pos(q, S))
  BY <1>3, <1>4, FS_Subset
<1>6. QED
  BY <1>1, <1>2, <1>5, FS_CardinalityType DEF Count

\* The last row of a set is one of its rows, at the greatest of their positions.
LEMMA LastFacts ==
  ASSUME NEW X, NEW q \in Seq(X), NEW S, Has(q, S)
  PROVE  \E i \in Pos(q, S) : LastIn(q, S) = q[i] /\ \A j \in Pos(q, S) : j <= i
<1>1. View!Latest(Pos(q, S)) \in Pos(q, S)
      /\ \A j \in Pos(q, S) : j <= View!Latest(Pos(q, S))
  BY PosFacts, LatestFacts DEF Has
<1>2. QED
  BY <1>1 DEF LastIn

LEMMA LastAt ==
  ASSUME NEW X, NEW q \in Seq(X), NEW S, NEW i \in Pos(q, S), \A j \in Pos(q, S) : j <= i
  PROVE  Has(q, S) /\ LastIn(q, S) = q[i]
<1>1. View!Latest(Pos(q, S)) = i
  BY PosFacts, LatestIs
<1>2. QED
  BY <1>1 DEF LastIn, Has

LEMMA FirstFacts ==
  ASSUME NEW X, NEW q \in Seq(X), NEW S, Has(q, S)
  PROVE  \E i \in Pos(q, S) : FirstIn(q, S) = q[i] /\ \A j \in Pos(q, S) : i <= j
<1>1. View!Earliest(Pos(q, S)) \in Pos(q, S)
      /\ \A j \in Pos(q, S) : View!Earliest(Pos(q, S)) <= j
  BY PosFacts, EarliestFacts DEF Has
<1>2. QED
  BY <1>1 DEF FirstIn

LEMMA FirstAt ==
  ASSUME NEW X, NEW q \in Seq(X), NEW S, NEW i \in Pos(q, S), \A j \in Pos(q, S) : i <= j
  PROVE  Has(q, S) /\ FirstIn(q, S) = q[i]
<1>1. View!Earliest(Pos(q, S)) = i
  BY PosFacts, EarliestIs
<1>2. QED
  BY <1>1 DEF FirstIn, Has

\* A node appends its rows behind those of the log.
LEMMA ConcatPos ==
  ASSUME NEW X, NEW q \in Seq(X), NEW w \in Seq(X), NEW S
  PROVE  /\ q \o w \in Seq(X) /\ Len(q \o w) = Len(q) + Len(w)
         /\ \A i \in 1..Len(q) : (q \o w)[i] = q[i]
         /\ \A j \in 1..Len(w) : (q \o w)[Len(q) + j] = w[j]
         /\ \A i \in 1..Len(q \o w) :
              /\ i <= Len(q) => (i \in Pos(q \o w, S) <=> i \in Pos(q, S))
              /\ i > Len(q) => (i \in Pos(q \o w, S) <=> i - Len(q) \in Pos(w, S))
         /\ Pos(q, S) \subseteq Pos(q \o w, S)
         /\ Has(q \o w, S) <=> Has(q, S) \/ Has(w, S)
<1>1. /\ q \o w \in Seq(X) /\ Len(q \o w) = Len(q) + Len(w)
      /\ Len(q) \in Nat /\ Len(w) \in Nat
      /\ \A i \in 1..Len(q) : (q \o w)[i] = q[i]
  OBVIOUS
<1>2. \A j \in 1..Len(w) : (q \o w)[Len(q) + j] = w[j]
  OBVIOUS
<1>3. ASSUME NEW i \in 1..Len(q \o w)
      PROVE  /\ i <= Len(q) => (i \in Pos(q \o w, S) <=> i \in Pos(q, S))
             /\ i > Len(q) => (i \in Pos(q \o w, S) <=> i - Len(q) \in Pos(w, S))
  <2>1. CASE i <= Len(q)
    <3>1. i \in 1..Len(q) /\ ~(i > Len(q))
      BY <1>1, <2>1
    <3>2. QED
      BY <1>1, <3>1 DEF Pos
  <2>2. CASE i > Len(q)
    <3>1. i - Len(q) \in 1..Len(w) /\ i = Len(q) + (i - Len(q)) /\ ~(i <= Len(q))
      BY <1>1, <2>2
    <3>2. (q \o w)[i] = w[i - Len(q)]
      BY <1>2, <3>1
    <3>3. QED
      BY <3>1, <3>2 DEF Pos
  <2>3. QED
    BY <1>1, <2>1, <2>2
<1>4. \A i \in Pos(q, S) : i \in 1..Len(q \o w) /\ i <= Len(q)
  BY <1>1 DEF Pos
<1>5. Pos(q, S) \subseteq Pos(q \o w, S)
  BY <1>3, <1>4
<1>6. ASSUME NEW j \in Pos(w, S)
      PROVE  Len(q) + j \in Pos(q \o w, S)
  BY <1>1, <1>2 DEF Pos
<1>7. ASSUME NEW i \in Pos(q \o w, S)
      PROVE  i \in Pos(q, S) \/ i - Len(q) \in Pos(w, S)
  <2>1. i \in 1..Len(q \o w) /\ (i <= Len(q) \/ i > Len(q))
    BY <1>1 DEF Pos
  <2>2. QED
    BY <1>3, <2>1
<1>8. QED
  BY <1>1, <1>2, <1>3, <1>5, <1>6, <1>7 DEF Has

LEMMA ConcatLast ==
  ASSUME NEW X, NEW q \in Seq(X), NEW w \in Seq(X), NEW S
  PROVE  LastIn(q \o w, S) = IF Has(w, S) THEN LastIn(w, S) ELSE LastIn(q, S)
<1>1. CASE Has(w, S)
  <2>1. PICK j \in Pos(w, S) : LastIn(w, S) = w[j] /\ \A k \in Pos(w, S) : k <= j
    BY <1>1, LastFacts
  <2>2. j \in 1..Len(w) /\ Len(q) \in Nat /\ Len(w) \in Nat /\ j \in Nat /\ j > 0
    BY PosFacts DEF Pos
  <2>3. /\ Len(q) + j \in 1..Len(q \o w) /\ Len(q) + j > Len(q) /\ (Len(q) + j) - Len(q) = j
        /\ (q \o w)[Len(q) + j] = w[j]
    BY <2>2, ConcatPos
  <2>4. Len(q) + j \in Pos(q \o w, S)
    BY <2>3, ConcatPos
  <2>5. ASSUME NEW i \in Pos(q \o w, S)
        PROVE  i <= Len(q) + j
    <3>1. i \in 1..Len(q \o w) /\ i \in Nat
      BY DEF Pos
    <3>2. CASE i > Len(q)
      <4>1. i - Len(q) \in Pos(w, S)
        BY <3>1, <3>2, ConcatPos
      <4>2. i - Len(q) <= j
        BY <2>1, <4>1
      <4>3. QED
        BY <2>2, <3>1, <4>2
    <3>3. QED
      BY <2>2, <3>1, <3>2
  <2>6. q \o w \in Seq(X)
    OBVIOUS
  <2>7. LastIn(q \o w, S) = (q \o w)[Len(q) + j]
    BY <2>4, <2>5, <2>6, LastAt
  <2>8. QED
    BY <1>1, <2>1, <2>3, <2>7
<1>2. CASE ~Has(w, S) /\ Has(q, S)
  <2>1. PICK i \in Pos(q, S) : LastIn(q, S) = q[i] /\ \A j \in Pos(q, S) : j <= i
    BY <1>2, LastFacts
  <2>2. i \in Pos(q \o w, S) /\ (q \o w)[i] = q[i]
    BY ConcatPos DEF Pos
  <2>3. ASSUME NEW k \in Pos(q \o w, S)
        PROVE  k <= i
    <3>1. k \in 1..Len(q \o w) /\ k \in Nat /\ Len(q) \in Nat
      BY DEF Pos
    <3>2. k <= Len(q)
      <4>1. CASE k > Len(q)
        BY <1>2, <3>1, <4>1, ConcatPos DEF Has
      <4>2. QED
        BY <3>1, <4>1
    <3>3. k \in Pos(q, S)
      BY <3>1, <3>2, ConcatPos
    <3>4. QED
      BY <2>1, <3>3
  <2>4. q \o w \in Seq(X)
    OBVIOUS
  <2>5. LastIn(q \o w, S) = (q \o w)[i]
    BY <2>2, <2>3, <2>4, LastAt
  <2>6. QED
    BY <1>2, <2>1, <2>2, <2>5
<1>3. CASE ~Has(w, S) /\ ~Has(q, S)
  BY <1>3, ConcatPos DEF LastIn
<1>4. QED
  BY <1>1, <1>2, <1>3

LEMMA ConcatFirst ==
  ASSUME NEW X, NEW q \in Seq(X), NEW w \in Seq(X), NEW S
  PROVE  /\ Has(q, S) => FirstIn(q \o w, S) = FirstIn(q, S)
         /\ ~Has(q, S) /\ Has(w, S) => FirstIn(q \o w, S) = FirstIn(w, S)
<1>1. ASSUME Has(q, S)
      PROVE  FirstIn(q \o w, S) = FirstIn(q, S)
  <2>1. PICK i \in Pos(q, S) : FirstIn(q, S) = q[i] /\ \A j \in Pos(q, S) : i <= j
    BY <1>1, FirstFacts
  <2>2. i \in Pos(q \o w, S) /\ (q \o w)[i] = q[i] /\ i \in 1..Len(q) /\ Len(q) \in Nat
    BY ConcatPos DEF Pos
  <2>3. ASSUME NEW k \in Pos(q \o w, S)
        PROVE  i <= k
    <3>1. k \in 1..Len(q \o w) /\ k \in Nat
      BY DEF Pos
    <3>2. CASE k <= Len(q)
      BY <2>1, <3>1, <3>2, ConcatPos
    <3>3. QED
      BY <2>2, <3>1, <3>2
  <2>4. q \o w \in Seq(X)
    OBVIOUS
  <2>5. QED
    BY <2>1, <2>2, <2>3, <2>4, FirstAt
<1>2. ASSUME ~Has(q, S), Has(w, S)
      PROVE  FirstIn(q \o w, S) = FirstIn(w, S)
  <2>1. PICK j \in Pos(w, S) : FirstIn(w, S) = w[j] /\ \A k \in Pos(w, S) : j <= k
    BY <1>2, FirstFacts
  <2>2. j \in 1..Len(w) /\ Len(q) \in Nat /\ Len(w) \in Nat /\ j \in Nat /\ j > 0
    BY PosFacts DEF Pos
  <2>3. /\ Len(q) + j \in 1..Len(q \o w) /\ Len(q) + j > Len(q) /\ (Len(q) + j) - Len(q) = j
        /\ (q \o w)[Len(q) + j] = w[j]
    BY <2>2, ConcatPos
  <2>4. Len(q) + j \in Pos(q \o w, S)
    BY <2>3, ConcatPos
  <2>5. ASSUME NEW k \in Pos(q \o w, S)
        PROVE  Len(q) + j <= k
    <3>1. k \in 1..Len(q \o w) /\ k \in Nat
      BY DEF Pos
    <3>2. CASE k <= Len(q)
      BY <1>2, <3>1, <3>2, ConcatPos DEF Has
    <3>3. CASE k > Len(q)
      <4>1. k - Len(q) \in Pos(w, S)
        BY <3>1, <3>3, ConcatPos
      <4>2. j <= k - Len(q)
        BY <2>1, <4>1
      <4>3. QED
        BY <2>2, <3>1, <4>2
    <3>4. QED
      BY <2>2, <3>1, <3>2, <3>3
  <2>6. q \o w \in Seq(X)
    OBVIOUS
  <2>7. FirstIn(q \o w, S) = (q \o w)[Len(q) + j]
    BY <2>4, <2>5, <2>6, FirstAt
  <2>8. QED
    BY <2>1, <2>3, <2>7
<1>3. QED
  BY <1>1, <1>2

LEMMA ConcatCount ==
  ASSUME NEW X, NEW q \in Seq(X), NEW w \in Seq(X), NEW S
  PROVE  /\ Count(q, S) \in Nat /\ Count(q \o w, S) \in Nat
         /\ Count(q, S) <= Count(q \o w, S)
         /\ ~Has(w, S) => Count(q \o w, S) = Count(q, S)
         /\ \A j : Pos(w, S) = {j} => Count(q \o w, S) = Count(q, S) + 1
<1>1. q \o w \in Seq(X) /\ Len(q) \in Nat
  OBVIOUS
<1>2. /\ IsFiniteSet(Pos(q, S)) /\ Count(q, S) \in Nat
      /\ IsFiniteSet(Pos(q \o w, S)) /\ Count(q \o w, S) \in Nat
  BY <1>1, PosFacts
<1>3. Count(q, S) <= Count(q \o w, S)
  BY <1>2, ConcatPos, FS_Subset DEF Count
<1>4. ASSUME ~Has(w, S)
      PROVE  Count(q \o w, S) = Count(q, S)
  <2>1. ASSUME NEW i \in Pos(q \o w, S)
        PROVE  i \in Pos(q, S)
    <3>1. i \in 1..Len(q \o w) /\ (i <= Len(q) \/ i > Len(q))
      BY <1>1 DEF Pos
    <3>2. QED
      BY <1>4, <3>1, ConcatPos DEF Has
  <2>2. Pos(q \o w, S) = Pos(q, S)
    BY <2>1, ConcatPos
  <2>3. QED
    BY <2>2 DEF Count
<1>5. ASSUME NEW j, Pos(w, S) = {j}
      PROVE  Count(q \o w, S) = Count(q, S) + 1
  <2>1. j \in 1..Len(w) /\ Len(w) \in Nat
    BY <1>5 DEF Pos
  <2>2. /\ Len(q) + j \in 1..Len(q \o w) /\ Len(q) + j > Len(q) /\ (Len(q) + j) - Len(q) = j
    BY <1>1, <2>1, ConcatPos
  <2>3. Len(q) + j \in Pos(q \o w, S) /\ Len(q) + j \notin Pos(q, S)
    BY <1>1, <1>5, <2>1, <2>2, ConcatPos DEF Pos
  <2>4. ASSUME NEW i \in Pos(q \o w, S)
        PROVE  i \in Pos(q, S) \/ i = Len(q) + j
    <3>1. i \in 1..Len(q \o w) /\ (i <= Len(q) \/ i > Len(q))
      BY <1>1 DEF Pos
    <3>2. CASE i > Len(q)
      <4>1. i - Len(q) = j
        BY <1>5, <3>1, <3>2, ConcatPos
      <4>2. QED
        BY <1>1, <2>1, <3>1, <4>1
    <3>3. QED
      BY <3>1, <3>2, ConcatPos
  <2>5. Pos(q \o w, S) = Pos(q, S) \union {Len(q) + j}
    BY <2>3, <2>4, ConcatPos
  <2>6. QED
    BY <1>2, <2>3, <2>5, FS_AddElement DEF Count
<1>6. QED
  BY <1>2, <1>3, <1>4, <1>5

------------------------------------------------------------------------------
(* The sets of rows the view and the metrics read.                         *)

CallRowsOf(s)      == {r \in RowSet : r.event_type \in View!Calls /\ r.stage = s}
CallRowsAt(s, n)   == {r \in RowSet : r.event_type \in View!Calls /\ r.stage = s /\ r.attempt = n}
OutputRowsOf(s)    == {r \in RowSet : r.event_type = "persona_call" /\ r.stage = s}
OutputRowsAt(s, n) == {r \in RowSet : r.event_type = "persona_call" /\ r.stage = s /\ r.attempt = n}

EvaluationRowsOf(s)      == {r \in RowSet : r.event_type = "evaluation" /\ r.stage = s}
EvaluationRowsAt(s, n)   ==
  {r \in RowSet : r.event_type = "evaluation" /\ r.stage = s /\ r.attempt = n}
EvaluationRowsWith(s, v) ==
  {r \in RowSet : r.event_type = "evaluation" /\ r.stage = s /\ r.verdict = v}

HumanRowsOf(s)      == {r \in RowSet : r.event_type = "human_decision" /\ r.stage = s}
HumanRowsWith(s, v) ==
  {r \in RowSet : r.event_type = "human_decision" /\ r.stage = s /\ r.verdict = v}
DecisiveRowsOf(s)   == {r \in RowSet : r.event_type \in View!Decisions /\ r.stage = s}

EndingRows    == {r \in RowSet : r.event_type \in View!Endings}
RowsOfType(t) == {r \in RowSet : r.event_type = t}

------------------------------------------------------------------------------
(* The inductive invariant.                                                *)

\* The stage has run at its current attempt.
Ran(s) ==
  \/ s <= ApprovedCount
  \/ pending_handoff = s /\ next \in {HumanReview, END}
  \/ next = Node("gate", s)

\* The last rows of the stage are of a superstep that was not stored: calls of its
\* persona, an evaluation, or a decision that was not carried out.
Called(s)     == Ran(s) \/ (orphans /\ next = Node("persona", s))
Open(s)       == orphans /\ next = Node("gate", s)
Superseded(s) == orphans /\ next = HumanReview /\ s = pending_handoff

AuditTypeOK == rows \in Seq(RowSet) /\ orphans \in BOOLEAN /\ failures \in Nat

\* A run with such rows goes on with another decision, or with one that was late.
OrphanInv ==
  orphans =>
    /\ next # END
    /\ next = HumanReview => decision # "none"
    /\ invoke = "executing" /\ next # HumanReview => Decided

\* What a stage that has not been decided on can look like.
HistoryInv ==
  \A s \in Gated :
    /\ s > ApprovedCount + 1 =>
         retry_counts[s] = 0 /\ evaluations[s] = NoEvaluation /\ human_decisions[s] = "none"
    /\ next \in {Node("persona", s), Node("gate", s)} =>
         /\ evaluations[s].attempt = retry_counts[s] /\ evaluations[s].verdict # "pass"
         /\ evaluations[s].verdict = "escalate" => human_decisions[s] # "none"
    /\ s > ApprovedCount => human_decisions[s] # "accept_as_is"

HumanInv ==
  \A s \in Gated : ~Superseded(s) =>
    LastIn(rows, HumanRowsOf(s)).verdict = human_decisions[s]

DecisiveInv ==
  \A s \in Gated : ~Superseded(s) /\ ~Open(s) =>
    /\ s <= ApprovedCount /\ human_decisions[s] = "accept_as_is" =>
         /\ LastIn(rows, DecisiveRowsOf(s)).event_type = "human_decision"
         /\ LastIn(rows, DecisiveRowsOf(s)).verdict = "accept_as_is"
    /\ s <= ApprovedCount /\ human_decisions[s] # "accept_as_is" =>
         /\ LastIn(rows, DecisiveRowsOf(s)).event_type = "evaluation"
         /\ LastIn(rows, DecisiveRowsOf(s)).verdict = "pass"
    /\ s > ApprovedCount =>
         LastIn(rows, DecisiveRowsOf(s)).verdict \notin {"pass", "accept_as_is"}

\* The attempts called are those the run has started; the current one has shown
\* output exactly if it is valid, unless a call of it was repeated.
CallsOfStage(s) ==
  /\ \A n \in Numbers :
       /\ 1 <= n /\ n <= (IF Ran(s) THEN retry_counts[s] + 1 ELSE retry_counts[s])
            => Has(rows, CallRowsAt(s, n))
       /\ Has(rows, CallRowsAt(s, n)) =>
            1 <= n /\ n <= IF Called(s) THEN retry_counts[s] + 1 ELSE retry_counts[s]
  /\ Ran(s) /\ ~invalid_output[s] => Has(rows, OutputRowsAt(s, retry_counts[s] + 1))
  /\ Ran(s) /\ Has(rows, OutputRowsAt(s, retry_counts[s] + 1)) =>
       ~invalid_output[s] \/ <<Node("persona", s), retry_counts[s] + 1>> \in repeated
  /\ next = Node("gate", s) /\ ~invalid_output[s] =>
       Has(rows, OutputRowsOf(s)) /\ LastIn(rows, OutputRowsOf(s)).attempt = retry_counts[s] + 1

LastCalled == ApprovedCount = N \/ (orphans /\ next = Node("persona", N))

CallsInv ==
  /\ \A s \in Gated : CallsOfStage(s)
  /\ ApprovedCount = N => Has(rows, CallRowsOf(N)) /\ Has(rows, OutputRowsOf(N))
  /\ Has(rows, CallRowsOf(N)) \/ Has(rows, OutputRowsOf(N)) => LastCalled

\* A stage is called before it is decided on, and the next one after that.
OrderIn(seq, s) ==
  /\ \A j \in Pos(seq, DecisiveRowsOf(s)) : \E i \in Pos(seq, CallRowsOf(s)) : i < j
  /\ \A j \in Pos(seq, DecisiveRowsOf(s)) : \A k \in Pos(seq, CallRowsOf(s + 1)) : j < k

OrderInv == \A s \in Gated : OrderIn(rows, s)

\* No evaluation of the stage is in the log twice, nor one that was not stored.
Clean(s) == EvaluatedOnce(s) /\ ~Open(s)

EvaluationsOfStage(s) ==
  /\ ~Open(s) =>
       /\ LastIn(rows, EvaluationRowsAt(s, evaluations[s].attempt)).verdict = evaluations[s].verdict
       /\ LastIn(rows, EvaluationRowsOf(s)).verdict = evaluations[s].verdict
  /\ Count(rows, EvaluationRowsOf(s)) >= evaluations[s].attempt
  /\ Clean(s) =>
       /\ Count(rows, EvaluationRowsOf(s)) = evaluations[s].attempt
       /\ Has(rows, EvaluationRowsOf(s)) =>
            (FirstIn(rows, EvaluationRowsOf(s)).verdict = "pass"
               <=> evaluations[s].attempt = 1 /\ evaluations[s].verdict = "pass")

EvaluationsInv == \A s \in Gated : EvaluationsOfStage(s)

\* A person was asked about the stage.
Paged(s) == human_decisions[s] # "none" \/ evaluations[s].verdict = "escalate"

RetriesOfStage(s) ==
  /\ Paged(s) => Has(rows, EvaluationRowsWith(s, "escalate"))
  /\ Clean(s) /\ Has(rows, EvaluationRowsWith(s, "escalate")) => Paged(s)
  /\ human_decisions[s] = "none" =>
       /\ retry_counts[s] > 0 => Has(rows, EvaluationRowsWith(s, "retry"))
       /\ Clean(s) /\ Has(rows, EvaluationRowsWith(s, "retry")) => retry_counts[s] > 0
  /\ retry_counts[s] <=
       Count(rows, EvaluationRowsWith(s, "retry")) + Count(rows, HumanRowsWith(s, "retry"))

RetriesInv == \A s \in Gated : RetriesOfStage(s)

\* Behind every judged evaluation is the output it judged.
JudgedAt(seq, i) ==
  \E j \in Pos(seq, OutputRowsOf(seq[i].stage)) :
    /\ j < i /\ seq[j].attempt = seq[i].attempt
    /\ \A k \in Pos(seq, OutputRowsOf(seq[i].stage)) : k < i => k <= j

JudgedIn(seq) ==
  \A i \in 1..Len(seq) : seq[i].event_type = "evaluation" /\ seq[i].judged => JudgedAt(seq, i)

JudgedInv ==
  /\ JudgedIn(rows)
  /\ (\E s \in Gated : Paged(s)) => Has(rows, RowsOfType("escalation"))
  /\ Has(rows, RowsOfType("escalation")) =>
       (\E s \in Gated : Paged(s)) \/ (orphans /\ next.node = "gate")

EndingInv ==
  /\ Has(rows, RowsOfType("run_started"))
  /\ Has(rows, RowsOfType("run_completed")) =>
       status = "complete" \/ (orphans /\ next = Finalize)
  /\ Has(rows, RowsOfType("run_aborted")) => status = "aborted" \/ failures > 0
  /\ status \in {"complete", "aborted"} =>
       /\ Has(rows, EndingRows)
       /\ LastIn(rows, EndingRows).event_type =
            IF status = "complete" THEN "run_completed" ELSE "run_aborted"

RowsInv ==
  /\ HumanInv /\ DecisiveInv /\ CallsInv /\ OrderInv
  /\ EvaluationsInv /\ RetriesInv /\ JudgedInv /\ EndingInv

AuditInv == AuditTypeOK /\ OrphanInv /\ RowsInv

------------------------------------------------------------------------------
(* The rows a node appends.                                                *)

LEMMA RowFacts ==
  /\ \A t \in Types, s \in 0..N, n \in Numbers, v \in Marks :
       /\ Row(t, s, n, v) \in RowSet
       /\ Row(t, s, n, v).event_type = t /\ Row(t, s, n, v).stage = s
       /\ Row(t, s, n, v).attempt = n /\ Row(t, s, n, v).verdict = v
  /\ 0 \in Numbers /\ 0 \in 0..N /\ Stages \subseteq 0..N /\ Gated \subseteq 0..N
  /\ "none" \in Marks /\ Actions \subseteq Marks /\ Verdicts \subseteq Marks
<1>1. 0 \in Numbers /\ 0 \in 0..N /\ Stages \subseteq 0..N /\ Gated \subseteq 0..N
  BY Bounds, PipelineAssumption DEF Numbers, Stages, Gated
<1>2. "none" \in Marks /\ Actions \subseteq Marks /\ Verdicts \subseteq Marks
  BY DEF Marks
<1>3. QED
  BY <1>1, <1>2 DEF Row, View!Row, RowSet, RowsOf

LEMMA JudgedRow ==
  ASSUME NEW r \in RowSet, NEW b \in BOOLEAN
  PROVE  LET a == [r EXCEPT !.judged = b]
         IN  /\ a \in RowSet /\ a.judged = b
             /\ a.event_type = r.event_type /\ a.stage = r.stage
             /\ a.attempt = r.attempt /\ a.verdict = r.verdict
BY DEF RowSet, RowsOf

LEMMA AttemptFacts ==
  ASSUME TypeOK, NEW s \in Stages
  PROVE  /\ Attempt(s) \in Numbers /\ Attempt(s) \in Nat /\ Attempt(s) >= 1
         /\ s \in Gated => Attempt(s) = retry_counts[s] + 1 /\ retry_counts[s] \in Nat
BY Bounds DEF Attempt, Numbers, TypeOK

LEMMA OneRow ==
  ASSUME NEW a \in RowSet
  PROVE  <<a>> \in Seq(RowSet) /\ Len(<<a>>) = 1 /\ <<a>>[1] = a /\ 1..Len(<<a>>) = {1}
OBVIOUS

LEMMA TwoRows ==
  ASSUME NEW a \in RowSet, NEW b \in RowSet
  PROVE  /\ <<a, b>> \in Seq(RowSet) /\ Len(<<a, b>>) = 2
         /\ <<a, b>>[1] = a /\ <<a, b>>[2] = b /\ 1..Len(<<a, b>>) = {1, 2}
OBVIOUS

\* The rows of a persona's calls: of its stage and attempt, the last with an
\* output if the node has one, none otherwise (agents/structured.py).
CallsAppended(w, s, ok) ==
  /\ w \in Seq(RowSet) /\ Len(w) >= 1
  /\ \A j \in 1..Len(w) :
       /\ w[j].event_type \in View!Calls /\ w[j].stage = s /\ w[j].attempt = Attempt(s)
       /\ ~ok => w[j].event_type = "parse_failure"
  /\ ok => w[Len(w)].event_type = "persona_call"

LEMMA CallRowsFacts ==
  ASSUME TypeOK, NEW s \in Stages, NEW ok \in BOOLEAN, NEW w \in CallRows(s, ok)
  PROVE  CallsAppended(w, s, ok)
<1> DEFINE call(t) == Row(t, s, AttemptTag(s), "none")
           c == call("persona_call")
           f == call("parse_failure")
<1>1. AttemptTag(s) \in Numbers /\ s \in 0..N /\ AttemptTag(s) = Attempt(s)
  BY AttemptFacts, RowFacts DEF AttemptTag
<1>2. /\ c \in RowSet /\ c.event_type = "persona_call" /\ c.stage = s /\ c.attempt = Attempt(s)
      /\ f \in RowSet /\ f.event_type = "parse_failure" /\ f.stage = s /\ f.attempt = Attempt(s)
  BY <1>1, RowFacts DEF Types
<1>3. \/ ok /\ w = <<c>>
      \/ ok /\ w = <<f, c>>
      \/ ~ok /\ w = <<f, f>>
  BY DEF CallRows
<1> HIDE DEF c, f
<1>4. {"persona_call", "parse_failure"} \subseteq View!Calls
  BY DEF View!Calls
<1>5. CASE ok /\ w = <<c>>
  BY <1>2, <1>4, <1>5, OneRow DEF CallsAppended
<1>6. CASE ok /\ w = <<f, c>>
  BY <1>2, <1>4, <1>6, TwoRows DEF CallsAppended
<1>7. CASE ~ok /\ w = <<f, f>>
  BY <1>2, <1>4, <1>7, TwoRows DEF CallsAppended
<1>8. QED
  BY <1>3, <1>5, <1>6, <1>7

\* The rows of an evaluation: its own, and an escalation behind an ESCALATE.
EvaluationAppended(w, s, outcome) ==
  /\ w \in Seq(RowSet) /\ Len(w) >= 1
  /\ w[1].event_type = "evaluation" /\ w[1].stage = s /\ w[1].attempt = Attempt(s)
  /\ w[1].verdict = outcome.verdict
  /\ w[1].judged <=> outcome.judge # "deterministic"
  /\ \A j \in 1..Len(w) :
       j # 1 => outcome.verdict = "escalate" /\ w[j].event_type = "escalation"
  /\ outcome.verdict = "escalate" => Len(w) = 2

LEMMA EvaluationRowsFacts ==
  ASSUME TypeOK, NEW s \in Gated, NEW outcome, outcome.verdict \in Verdicts
  PROVE  EvaluationAppended(EvaluationRows(s, outcome), s, outcome)
<1> DEFINE b == outcome.judge # "deterministic"
           r == Row("evaluation", s, AttemptTag(s), outcome.verdict)
           a == [r EXCEPT !.judged = b]
           e == Row("escalation", s, AttemptTag(s), "escalate")
<1>1. AttemptTag(s) \in Numbers /\ s \in 0..N /\ AttemptTag(s) = Attempt(s)
  BY AttemptFacts, RowFacts, Bounds DEF AttemptTag
<1>2. outcome.verdict \in Marks /\ "escalate" \in Marks
  BY RowFacts DEF Verdicts
<1>3. /\ r \in RowSet /\ e \in RowSet /\ e.event_type = "escalation"
      /\ r.event_type = "evaluation" /\ r.stage = s /\ r.attempt = Attempt(s)
      /\ r.verdict = outcome.verdict
  BY <1>1, <1>2, RowFacts DEF Types
<1>4. b \in BOOLEAN /\ (b <=> outcome.judge # "deterministic")
  OBVIOUS
<1>5. EvaluationRows(s, outcome) = IF outcome.verdict = "escalate" THEN <<a, e>> ELSE <<a>>
  BY DEF EvaluationRows
<1> HIDE DEF b, r, e
<1>6. /\ a \in RowSet /\ (a.judged <=> outcome.judge # "deterministic")
      /\ a.event_type = "evaluation" /\ a.stage = s /\ a.attempt = Attempt(s)
      /\ a.verdict = outcome.verdict
  BY <1>3, <1>4, JudgedRow
<1> HIDE DEF a
<1>7. CASE outcome.verdict = "escalate"
  BY <1>3, <1>5, <1>6, <1>7, TwoRows DEF EvaluationAppended
<1>8. CASE outcome.verdict # "escalate"
  BY <1>5, <1>6, <1>8, OneRow DEF EvaluationAppended
<1>9. QED
  BY <1>7, <1>8

\* The rows of a decision: its own, and the ending behind an abort.
DecisionAppended(w, s, action) ==
  /\ w \in Seq(RowSet) /\ Len(w) >= 1
  /\ w[1].event_type = "human_decision" /\ w[1].stage = s /\ w[1].verdict = action
  /\ \A j \in 1..Len(w) :
       j # 1 => action = "abort" /\ w[j].event_type = "run_aborted"
  /\ action = "abort" => Len(w) = 2

LEMMA DecisionRowsFacts ==
  ASSUME TypeOK, NEW s \in Gated, NEW action \in Actions
  PROVE  DecisionAppended(DecisionRows(s, action), s, action)
<1> DEFINE a == Row("human_decision", s, AttemptTag(s), action)
           e == Row("run_aborted", s, 0, "none")
<1>1. AttemptTag(s) \in Numbers /\ s \in 0..N /\ action \in Marks
  BY AttemptFacts, RowFacts, Bounds DEF AttemptTag
<1>2. /\ a \in RowSet /\ a.event_type = "human_decision" /\ a.stage = s /\ a.verdict = action
      /\ e \in RowSet /\ e.event_type = "run_aborted"
  BY <1>1, RowFacts DEF Types
<1>3. DecisionRows(s, action) = IF action = "abort" THEN <<a, e>> ELSE <<a>>
  BY DEF DecisionRows
<1> HIDE DEF a, e
<1>4. CASE action = "abort"
  BY <1>2, <1>3, <1>4, TwoRows DEF DecisionAppended
<1>5. CASE action # "abort"
  BY <1>2, <1>3, <1>5, OneRow DEF DecisionAppended
<1>6. QED
  BY <1>4, <1>5

------------------------------------------------------------------------------
(* What each node does to the state the rows are compared with.            *)

LEMMA RanFacts ==
  /\ \A s \in Stages : next = Node("persona", s) =>
       \A g \in Gated : Ran(g) <=> g < s
  /\ \A s \in Stages : next = Node("gate", s) =>
       \A g \in Gated : Ran(g) <=> g <= s
  /\ next = HumanReview /\ pending_handoff \in Gated =>
       \A g \in Gated : Ran(g) <=> g <= pending_handoff
  /\ next = Finalize => \A g \in Gated : Ran(g)
  /\ next = END /\ status = "complete" => \A g \in Gated : Ran(g)
  /\ next = END /\ status # "complete" /\ pending_handoff \in Gated =>
       \A g \in Gated : Ran(g) <=> g <= pending_handoff
<1>1. ASSUME NEW s \in Stages, next = Node("persona", s), NEW g \in Gated
      PROVE  Ran(g) <=> g < s
  <2>1. ApprovedCount = s - 1 /\ (g <= s - 1 <=> g < s)
    BY <1>1, CountFacts, PipelineAssumption DEF Gated, Stages
  <2>2. next # HumanReview /\ next # END /\ next # Node("gate", g)
    BY <1>1 DEF Node, HumanReview, END
  <2>3. QED
    BY <2>1, <2>2 DEF Ran
<1>2. ASSUME NEW s \in Stages, next = Node("gate", s), NEW g \in Gated
      PROVE  Ran(g) <=> g <= s
  <2>1. ApprovedCount = s - 1 /\ (g <= s - 1 \/ g = s <=> g <= s)
    BY <1>2, CountFacts, PipelineAssumption DEF Gated, Stages
  <2>2. next # HumanReview /\ next # END /\ (next = Node("gate", g) <=> g = s)
    BY <1>2 DEF Node, HumanReview, END
  <2>3. QED
    BY <2>1, <2>2 DEF Ran
<1>3. ASSUME next = HumanReview \/ (next = END /\ status # "complete"),
             pending_handoff \in Gated, NEW g \in Gated
      PROVE  Ran(g) <=> g <= pending_handoff
  <2>1. ApprovedCount = pending_handoff - 1
    BY <1>3, CountFacts DEF END, HumanReview, Node
  <2>2. \A p \in Gated : g <= p - 1 \/ p = g <=> g <= p
    BY PipelineAssumption DEF Gated
  <2>3. next \in {HumanReview, END} /\ next # Node("gate", g)
    BY <1>3 DEF Node, HumanReview, END
  <2>4. QED
    BY <1>3, <2>1, <2>2, <2>3 DEF Ran
<1>4. ASSUME next = Finalize \/ (next = END /\ status = "complete"), NEW g \in Gated
      PROVE  Ran(g)
  <2>1. ApprovedCount = N /\ g <= N
    BY <1>4, CountFacts, PipelineAssumption DEF Gated
  <2>2. QED
    BY <2>1 DEF Ran
<1>5. QED
  BY <1>1, <1>2, <1>3, <1>4

LEMMA NextRanFacts ==
  /\ \A s \in Stages : next' = Node("persona", s) =>
       \A g \in Gated : Ran(g)' <=> g < s
  /\ \A s \in Stages : next' = Node("gate", s) =>
       \A g \in Gated : Ran(g)' <=> g <= s
  /\ next' = HumanReview /\ pending_handoff' \in Gated =>
       \A g \in Gated : Ran(g)' <=> g <= pending_handoff'
  /\ next' = Finalize => \A g \in Gated : Ran(g)'
  /\ next' = END /\ status' = "complete" => \A g \in Gated : Ran(g)'
  /\ next' = END /\ status' # "complete" /\ pending_handoff' \in Gated =>
       \A g \in Gated : Ran(g)' <=> g <= pending_handoff'
<1>1. ASSUME NEW s \in Stages, next' = Node("persona", s), NEW g \in Gated
      PROVE  Ran(g)' <=> g < s
  <2>1. ApprovedCount' = s - 1 /\ (g <= s - 1 <=> g < s)
    BY <1>1, NextCountFacts, PipelineAssumption DEF Gated, Stages
  <2>2. next' # HumanReview /\ next' # END /\ next' # Node("gate", g)
    BY <1>1 DEF Node, HumanReview, END
  <2>3. QED
    BY <2>1, <2>2 DEF Ran
<1>2. ASSUME NEW s \in Stages, next' = Node("gate", s), NEW g \in Gated
      PROVE  Ran(g)' <=> g <= s
  <2>1. ApprovedCount' = s - 1 /\ (g <= s - 1 \/ g = s <=> g <= s)
    BY <1>2, NextCountFacts, PipelineAssumption DEF Gated, Stages
  <2>2. next' # HumanReview /\ next' # END /\ (next' = Node("gate", g) <=> g = s)
    BY <1>2 DEF Node, HumanReview, END
  <2>3. QED
    BY <2>1, <2>2 DEF Ran
<1>3. ASSUME next' = HumanReview \/ (next' = END /\ status' # "complete"),
             pending_handoff' \in Gated, NEW g \in Gated
      PROVE  Ran(g)' <=> g <= pending_handoff'
  <2>1. ApprovedCount' = pending_handoff' - 1
    BY <1>3, NextCountFacts DEF END, HumanReview, Node
  <2>2. \A p \in Gated : g <= p - 1 \/ p = g <=> g <= p
    BY PipelineAssumption DEF Gated
  <2>3. next' \in {HumanReview, END} /\ next' # Node("gate", g)
    BY <1>3 DEF Node, HumanReview, END
  <2>4. QED
    BY <1>3, <2>1, <2>2, <2>3 DEF Ran
<1>4. ASSUME next' = Finalize \/ (next' = END /\ status' = "complete"), NEW g \in Gated
      PROVE  Ran(g)'
  <2>1. ApprovedCount' = N /\ g <= N
    BY <1>4, NextCountFacts, PipelineAssumption DEF Gated
  <2>2. QED
    BY <2>1 DEF Ran
<1>5. QED
  BY <1>1, <1>2, <1>3, <1>4

\* The stages a step leaves as they are.
OthersKept(s) ==
  \A g \in Gated : g # s =>
    /\ retry_counts'[g] = retry_counts[g] /\ evaluations'[g] = evaluations[g]
    /\ human_decisions'[g] = human_decisions[g] /\ invalid_output'[g] = invalid_output[g]
    /\ g <= ApprovedCount' <=> g <= ApprovedCount
    /\ Ran(g)' <=> Ran(g)
    /\ next # Node("gate", g) /\ next' # Node("gate", g)

PersonaEffect(s, ok) ==
  /\ next = Node("persona", s) /\ ApprovedCount = s - 1
  /\ UNCHANGED <<retry_counts, evaluations, human_decisions, pending_handoff>>
  /\ status' = "running"
  /\ s \in Gated => /\ next' = Node("gate", s) /\ ApprovedCount' = s - 1
                    /\ ~Ran(s) /\ Ran(s)'
                    /\ invalid_output'[s] <=> ~ok
  /\ s \notin Gated => s = N /\ ok /\ next' = Finalize /\ ApprovedCount' = N
  /\ OthersKept(s)

LEMMA PersonaState ==
  ASSUME BaseInv, NEW s \in Stages, NEW ok \in BOOLEAN,
         IF ok THEN PersonaProduces(s) ELSE PersonaFailsSchema(s)
  PROVE  PersonaEffect(s, ok)
<1> USE DEF BaseInv
<1>1. next = Node("persona", s) /\ ApprovedCount = s - 1
  BY CountFacts DEF PersonaProduces, PersonaFailsSchema, RunPersona, Superstep
<1>2. /\ UNCHANGED <<retry_counts, evaluations, human_decisions, pending_handoff>>
      /\ status' = "running"
  BY DEF PersonaProduces, PersonaFailsSchema, RunPersona, record
<1>3. \A g \in Gated : g # s => invalid_output'[g] = invalid_output[g]
  BY DEF PersonaProduces, PersonaFailsSchema, TypeOK
<1>4. \A g : g # s => next # Node("gate", g) /\ next' # Node("gate", g)
  BY <1>1 DEF PersonaProduces, PersonaFailsSchema, Node, Finalize
<1>5. CASE s \in Gated
  <2>1. next' = Node("gate", s)
    BY <1>5 DEF PersonaProduces, PersonaFailsSchema
  <2>2. ApprovedCount' = s - 1
    BY <2>1, NextCountFacts
  <2>3. \A g \in Gated : (Ran(g) <=> g < s) /\ (Ran(g)' <=> g <= s)
    BY <1>1, <2>1, RanFacts, NextRanFacts
  <2>4. invalid_output'[s] <=> ~ok
    BY <1>5 DEF PersonaProduces, PersonaFailsSchema, TypeOK
  <2>5. s \in Nat /\ Gated \subseteq Nat
    BY Bounds
  <2>6. ~Ran(s) /\ Ran(s)' /\ \A g \in Gated : g # s => (Ran(g)' <=> Ran(g))
    BY <1>5, <2>3, <2>5
  <2>7. OthersKept(s)
    BY <1>1, <1>2, <1>3, <1>4, <2>2, <2>6 DEF OthersKept
  <2>8. QED
    BY <1>1, <1>2, <1>5, <2>1, <2>2, <2>4, <2>6, <2>7 DEF PersonaEffect
<1>6. CASE s \notin Gated
  <2>1. s = N /\ ok /\ next' = Finalize
    BY <1>6, PipelineAssumption DEF PersonaProduces, PersonaFailsSchema, Gated, Stages
  <2>2. ApprovedCount' = N
    BY <2>1, NextCountFacts
  <2>3. \A g \in Gated : Ran(g) /\ Ran(g)' /\ g <= ApprovedCount /\ g <= ApprovedCount'
    <3>1. \A g \in Gated : g \in Nat /\ g < N /\ g <= N - 1 /\ g <= N /\ N \in Stages
      BY PipelineAssumption DEF Gated, Stages
    <3>2. \A g \in Gated : Ran(g) /\ Ran(g)'
      BY <1>1, <2>1, <3>1, RanFacts, NextRanFacts
    <3>3. QED
      BY <1>1, <2>1, <2>2, <3>1, <3>2
  <2>4. OthersKept(s)
    BY <1>2, <1>3, <1>4, <2>3 DEF OthersKept
  <2>5. QED
    BY <1>1, <1>2, <1>6, <2>1, <2>2, <2>4 DEF PersonaEffect
<1>7. QED
  BY <1>5, <1>6

GateEffect(s, outcome) ==
  /\ next = Node("gate", s) /\ ApprovedCount = s - 1 /\ Ran(s)
  /\ outcome.verdict \in Verdicts
  /\ evaluations'[s] = RecordOf(s, outcome)
  /\ invalid_output'[s] = invalid_output[s] /\ human_decisions'[s] = human_decisions[s]
  /\ outcome.judge # "deterministic" => ~invalid_output[s]
  /\ status' \in {"running", "blocked_for_human"}
  /\ next' # Node("gate", s)
  /\ outcome.verdict = "pass" =>
       /\ next' = Node("persona", s + 1) /\ ApprovedCount' = s /\ Ran(s)'
       /\ retry_counts'[s] = retry_counts[s]
  /\ outcome.verdict = "retry" =>
       /\ next' = Node("persona", s) /\ ApprovedCount' = s - 1 /\ ~Ran(s)'
       /\ retry_counts'[s] = retry_counts[s] + 1
  /\ outcome.verdict = "escalate" =>
       /\ next' = HumanReview /\ pending_handoff' = s /\ ApprovedCount' = s - 1 /\ Ran(s)'
       /\ retry_counts'[s] = retry_counts[s]
  /\ OthersKept(s)

LEMMA GateState ==
  ASSUME BaseInv, NEW s \in Gated, GatePasses(s) \/ GateRetries(s) \/ GateEscalates(s)
  PROVE  \E outcome \in GateOutcomes(s) : GateEffect(s, outcome)
<1> USE DEF BaseInv
<1>1. PICK outcome \in GateOutcomes(s) :
        /\ Conclude(s, outcome)
        /\ status' \in {"running", "blocked_for_human"}
        /\ retry_counts' = IF outcome.verdict = "retry" THEN SpendRetry(s) ELSE retry_counts
  BY DEF GatePasses, GateRetries, GateEscalates
<1>2. outcome.verdict \in Verdicts
  BY GateOutcomeFacts DEF GateOutcome
<1>3. /\ next = Node("gate", s)
      /\ evaluations' = [evaluations EXCEPT ![s] = RecordOf(s, outcome)]
      /\ invalid_output' = invalid_output /\ human_decisions' = human_decisions
      /\ pending_handoff' = PendingAfter(outcome.verdict, s)
      /\ next' = RouteAfterGate(outcome.verdict, s)
  BY <1>1 DEF Conclude, Superstep
<1>4. /\ s \in Stages /\ s + 1 \in Stages /\ s < N /\ (s + 1) - 1 = s
      /\ Gated \subseteq Nat /\ retry_counts[s] \in Nat
  BY PipelineAssumption, Bounds DEF Gated, Stages, TypeOK
<1>5. ApprovedCount = s - 1 /\ \A g \in Gated : Ran(g) <=> g <= s
  BY <1>3, <1>4, CountFacts, RanFacts
<1>6. evaluations'[s] = RecordOf(s, outcome) /\ \A g \in Gated : g # s => evaluations'[g] = evaluations[g]
  BY <1>3 DEF TypeOK
<1>7. outcome.judge # "deterministic" => ~invalid_output[s]
  BY DEF GateOutcomes, Rejection
<1>8. /\ outcome.verdict = "retry" => retry_counts'[s] = retry_counts[s] + 1
      /\ outcome.verdict # "retry" => retry_counts'[s] = retry_counts[s]
      /\ \A g \in Gated : g # s => retry_counts'[g] = retry_counts[g]
  BY <1>1 DEF SpendRetry, TypeOK
<1>9. /\ outcome.verdict = "pass" => next' = Node("persona", s + 1)
      /\ outcome.verdict = "retry" => next' = Node("persona", s)
      /\ outcome.verdict = "escalate" => next' = HumanReview /\ pending_handoff' = s
  BY <1>3, <1>4 DEF RouteAfterGate, NextNode, PendingAfter
<1>10. \A g : next' # Node("gate", g)
  BY <1>2, <1>9 DEF Verdicts, Node, HumanReview
<1>11. \A g : g # s => next # Node("gate", g)
  BY <1>3 DEF Node
<1>12. /\ outcome.verdict = "pass" => ApprovedCount' = s
       /\ outcome.verdict # "pass" => ApprovedCount' = s - 1
  BY <1>2, <1>4, <1>9, NextCountFacts DEF Verdicts
<1>13. /\ outcome.verdict = "pass" => \A g \in Gated : Ran(g)' <=> g < s + 1
       /\ outcome.verdict = "retry" => \A g \in Gated : Ran(g)' <=> g < s
       /\ outcome.verdict = "escalate" => \A g \in Gated : Ran(g)' <=> g <= s
  BY <1>4, <1>9, NextRanFacts
<1>14. /\ outcome.verdict = "pass" => Ran(s)'
       /\ outcome.verdict = "retry" => ~Ran(s)'
       /\ outcome.verdict = "escalate" => Ran(s)'
       /\ Ran(s)
  BY <1>4, <1>5, <1>13
<1>15. ASSUME NEW g \in Gated, g # s
       PROVE  (g <= ApprovedCount' <=> g <= ApprovedCount) /\ (Ran(g)' <=> Ran(g))
  <2>1. g \in Nat /\ s \in Nat
    BY <1>4
  <2>2. Ran(g)' <=> Ran(g)
    BY <1>2, <1>5, <1>13, <1>15, <2>1 DEF Verdicts
  <2>3. g <= ApprovedCount' <=> g <= ApprovedCount
    BY <1>5, <1>12, <1>15, <2>1
  <2>4. QED
    BY <2>2, <2>3
<1>16. OthersKept(s)
  BY <1>3, <1>6, <1>8, <1>10, <1>11, <1>15 DEF OthersKept
<1>17. GateEffect(s, outcome)
  BY <1>1, <1>2, <1>3, <1>5, <1>6, <1>7, <1>8, <1>9, <1>10, <1>12, <1>14, <1>16
  DEF GateEffect, Verdicts
<1>18. QED
  BY <1>17

ReviewEffect(s, action) ==
  /\ next = HumanReview /\ ApprovedCount = s - 1 /\ Ran(s)
  /\ pending_handoff = s /\ pending_handoff' = s
  /\ evaluations'[s] = evaluations[s] /\ evaluations[s].verdict = "escalate"
  /\ evaluations[s].attempt = retry_counts[s] + 1
  /\ invalid_output'[s] = invalid_output[s] /\ human_decisions'[s] = action
  /\ status' = IF action = "abort" THEN "aborted" ELSE "running"
  /\ next' # Node("gate", s) /\ next' # HumanReview
  /\ action = "accept_as_is" =>
       /\ next' = Node("persona", s + 1) /\ ApprovedCount' = s /\ Ran(s)'
       /\ retry_counts'[s] = retry_counts[s]
  /\ action = "retry" =>
       /\ next' = Node("persona", s) /\ ApprovedCount' = s - 1 /\ ~Ran(s)'
       /\ retry_counts'[s] = retry_counts[s] + 1
  /\ action = "abort" =>
       /\ next' = END /\ ApprovedCount' = s - 1 /\ Ran(s)'
       /\ retry_counts'[s] = retry_counts[s]
  /\ OthersKept(s)

LEMMA ReviewState ==
  ASSUME BaseInv, NEW s \in Gated, NEW action \in Actions,
         CASE action = "accept_as_is" -> ReviewAccepts(s)
           [] action = "retry"        -> ReviewRetries(s)
           [] action = "abort"        -> ReviewAborts(s)
  PROVE  ReviewEffect(s, action)
<1> USE DEF BaseInv
<1>1. /\ Review(s, action)
      /\ status' = IF action = "abort" THEN "aborted" ELSE "running"
      /\ retry_counts' = IF action = "retry" THEN SpendRetry(s) ELSE retry_counts
  BY DEF ReviewAccepts, ReviewRetries, ReviewAborts, Actions
<1>2. /\ next = HumanReview /\ pending_handoff = s /\ pending_handoff' = s
      /\ human_decisions' = [human_decisions EXCEPT ![s] = action]
      /\ evaluations' = evaluations /\ invalid_output' = invalid_output
      /\ next' = RouteAfterReview(action, s)
  BY <1>1 DEF Review, Superstep, record
<1>3. evaluations[s].verdict = "escalate" /\ evaluations[s].attempt = retry_counts[s] + 1
  BY <1>2 DEF EscalatesOnlyAfterTier2
<1>4. /\ s \in Stages /\ s + 1 \in Stages /\ s < N /\ (s + 1) - 1 = s
      /\ Gated \subseteq Nat /\ retry_counts[s] \in Nat
  BY PipelineAssumption, Bounds DEF Gated, Stages, TypeOK
<1>5. ApprovedCount = s - 1 /\ \A g \in Gated : Ran(g) <=> g <= s
  BY <1>2, <1>4, CountFacts, RanFacts
<1>6. human_decisions'[s] = action /\ \A g \in Gated : g # s => human_decisions'[g] = human_decisions[g]
  BY <1>2 DEF TypeOK
<1>8. /\ action = "retry" => retry_counts'[s] = retry_counts[s] + 1
      /\ action # "retry" => retry_counts'[s] = retry_counts[s]
      /\ \A g \in Gated : g # s => retry_counts'[g] = retry_counts[g]
  BY <1>1 DEF SpendRetry, TypeOK
<1>9. /\ action = "accept_as_is" => next' = Node("persona", s + 1)
      /\ action = "retry" => next' = Node("persona", s)
      /\ action = "abort" => next' = END
  BY <1>2, <1>4 DEF RouteAfterReview, NextNode
<1>10. next' # HumanReview /\ \A g : next' # Node("gate", g)
  BY <1>9 DEF Actions, Node, HumanReview, END
<1>11. \A g : next # Node("gate", g)
  BY <1>2 DEF Node, HumanReview
<1>12. /\ action = "accept_as_is" => ApprovedCount' = s
       /\ action # "accept_as_is" => ApprovedCount' = s - 1
  BY <1>1, <1>2, <1>4, <1>9, NextCountFacts DEF Actions
<1>13. /\ action = "accept_as_is" => \A g \in Gated : Ran(g)' <=> g < s + 1
       /\ action = "retry" => \A g \in Gated : Ran(g)' <=> g < s
       /\ action = "abort" => \A g \in Gated : Ran(g)' <=> g <= s
  BY <1>1, <1>2, <1>4, <1>9, NextRanFacts
<1>14. /\ action = "accept_as_is" => Ran(s)'
       /\ action = "retry" => ~Ran(s)'
       /\ action = "abort" => Ran(s)'
       /\ Ran(s)
  BY <1>4, <1>5, <1>13
<1>15. ASSUME NEW g \in Gated, g # s
       PROVE  (g <= ApprovedCount' <=> g <= ApprovedCount) /\ (Ran(g)' <=> Ran(g))
  <2>1. g \in Nat /\ s \in Nat
    BY <1>4
  <2>2. Ran(g)' <=> Ran(g)
    BY <1>5, <1>13, <1>15, <2>1 DEF Actions
  <2>3. g <= ApprovedCount' <=> g <= ApprovedCount
    BY <1>5, <1>12, <1>15, <2>1
  <2>4. QED
    BY <2>2, <2>3
<1>16. OthersKept(s)
  BY <1>2, <1>6, <1>8, <1>10, <1>11, <1>15 DEF OthersKept
<1>17. QED
  BY <1>1, <1>2, <1>3, <1>5, <1>6, <1>8, <1>9, <1>10, <1>12, <1>14, <1>16
  DEF ReviewEffect, Actions

\* Pausing, resuming, raising and finalize change nothing the rows tell of a stage.
StillEffect ==
  /\ UNCHANGED <<retry_counts, evaluations, human_decisions, invalid_output>>
  /\ ApprovedCount' = ApprovedCount
  /\ next' = next \/ next' = END
  /\ \A g \in Gated :
       /\ Ran(g)' <=> Ran(g)
       /\ next' = Node("gate", g) <=> next = Node("gate", g)

LEMMA StillState ==
  ASSUME BaseInv,
         Interrupt \/ FinalizeNode \/ NodeRaises \/ Resumption
  PROVE  StillEffect
<1>1. CASE Interrupt \/ NodeRaises \/ Resumption
  <2>1. /\ UNCHANGED <<retry_counts, evaluations, human_decisions, invalid_output>>
        /\ UNCHANGED <<next, status, pending_handoff>>
    BY <1>1, ResumptionContinues DEF Interrupt, NodeRaises, Continue, bookkeeping, record
  <2>2. ApprovedCount' = ApprovedCount
    BY <2>1 DEF ApprovedCount
  <2>3. \A g \in Gated : Ran(g)' <=> Ran(g)
    BY <2>1, <2>2 DEF Ran
  <2>4. QED
    BY <2>1, <2>2, <2>3 DEF StillEffect
<1>2. CASE FinalizeNode
  <2>1. /\ UNCHANGED <<retry_counts, evaluations, human_decisions, invalid_output>>
        /\ next = Finalize /\ next' = END /\ status' = "complete"
    BY <1>2 DEF FinalizeNode, Superstep, bookkeeping, record
  <2>2. ApprovedCount' = N /\ ApprovedCount = N
    BY <2>1, CountFacts, NextCountFacts
  <2>3. \A g \in Gated : Ran(g)' /\ Ran(g)
    BY <2>1, RanFacts, NextRanFacts
  <2>4. \A g : next # Node("gate", g) /\ next' # Node("gate", g)
    BY <2>1 DEF Node, Finalize, END
  <2>5. QED
    BY <2>1, <2>2, <2>3, <2>4 DEF StillEffect
<1>3. QED
  BY <1>1, <1>2

------------------------------------------------------------------------------
(* The history of a stage.                                                 *)

History(g) ==
  /\ g > ApprovedCount + 1 =>
       retry_counts[g] = 0 /\ evaluations[g] = NoEvaluation /\ human_decisions[g] = "none"
  /\ next \in {Node("persona", g), Node("gate", g)} =>
       /\ evaluations[g].attempt = retry_counts[g] /\ evaluations[g].verdict # "pass"
       /\ evaluations[g].verdict = "escalate" => human_decisions[g] # "none"
  /\ g > ApprovedCount => human_decisions[g] # "accept_as_is"

LEMMA HistoryOthers ==
  ASSUME NEW s \in Gated, NEW g \in Gated, g # s, History(g), OthersKept(s),
         ApprovedCount = s - 1, ApprovedCount' = s - 1 \/ ApprovedCount' = s,
         \/ next' # Node("persona", g)
         \/ g > ApprovedCount + 1
  PROVE  History(g)'
<1>1. g \in Nat /\ s \in Nat
  BY Bounds
<1>2. /\ retry_counts'[g] = retry_counts[g] /\ evaluations'[g] = evaluations[g]
      /\ human_decisions'[g] = human_decisions[g] /\ next' # Node("gate", g)
  BY DEF OthersKept
<1>3. /\ g > ApprovedCount' + 1 => g > ApprovedCount + 1
      /\ g > ApprovedCount' => g > ApprovedCount
  <2>1. CASE ApprovedCount' = s - 1
    BY <2>1
  <2>2. CASE ApprovedCount' = s
    BY <1>1, <2>2
  <2>3. QED
    BY <2>1, <2>2
<1>4. /\ NoEvaluation.verdict = "none" /\ NoEvaluation.attempt = 0
  BY DEF NoEvaluation
<1>5. QED
  BY <1>2, <1>3, <1>4 DEF History

LEMMA HistoryStep ==
  ASSUME BaseInv, HistoryInv, Next
  PROVE  HistoryInv'
<1> USE DEF BaseInv
<1>1. \A g \in Gated : History(g)
  BY DEF HistoryInv, History
<1>2. ASSUME \A g \in Gated : History(g)'
      PROVE  HistoryInv'
  BY <1>2 DEF HistoryInv, History
<1> HIDE DEF HistoryInv
<1>3. ASSUME NEW s \in Stages, NEW ok \in BOOLEAN,
             IF ok THEN PersonaProduces(s) ELSE s \in Gated /\ PersonaFailsSchema(s)
      PROVE  HistoryInv'
  <2>1. PersonaEffect(s, ok)
    BY <1>3, PersonaState
  <2>2. ASSUME NEW g \in Gated
        PROVE  History(g)'
    <3>1. /\ retry_counts'[g] = retry_counts[g] /\ evaluations'[g] = evaluations[g]
          /\ human_decisions'[g] = human_decisions[g]
      BY <2>1 DEF PersonaEffect
    <3>2. g > ApprovedCount' + 1 => g > ApprovedCount + 1
      BY <2>1, PipelineAssumption, Bounds DEF PersonaEffect, Gated, Stages
    <3>3. g > ApprovedCount' => g > ApprovedCount
      BY <2>1, PipelineAssumption, Bounds DEF PersonaEffect, Gated, Stages
    <3>4. next' \in {Node("persona", g), Node("gate", g)} =>
            next \in {Node("persona", g), Node("gate", g)}
      BY <2>1 DEF PersonaEffect, Node, Finalize
    <3>5. QED
      BY <1>1, <3>1, <3>2, <3>3, <3>4 DEF History
  <2>3. QED
    BY <1>2, <2>2
<1>4. ASSUME NEW s \in Gated, GatePasses(s) \/ GateRetries(s) \/ GateEscalates(s)
      PROVE  HistoryInv'
  <2>1. PICK outcome \in GateOutcomes(s) : GateEffect(s, outcome)
    BY <1>4, GateState
  <2>2. s \in Nat /\ retry_counts[s] \in Nat
    BY Bounds DEF TypeOK
  <2>3. evaluations'[s].attempt = retry_counts[s] + 1 /\ evaluations'[s].verdict = outcome.verdict
    BY <2>1 DEF GateEffect, RecordOf
  <2>4. ApprovedCount = s - 1 /\ (ApprovedCount' = s - 1 \/ ApprovedCount' = s) /\ OthersKept(s)
    BY <2>1 DEF GateEffect, Verdicts
  <2>5. History(s)'
    <3>1. ~(s > ApprovedCount' + 1)
      <4>1. CASE ApprovedCount' = s - 1
        BY <2>2, <4>1
      <4>2. CASE ApprovedCount' = s
        BY <2>2, <4>2
      <4>3. QED
        BY <2>4, <4>1, <4>2
    <3>2. human_decisions'[s] # "accept_as_is"
      BY <1>1, <2>1, <2>2 DEF GateEffect, History
    <3>3. next' \in {Node("persona", s), Node("gate", s)} => outcome.verdict = "retry"
      BY <2>1, <2>2 DEF GateEffect, Verdicts, Node, HumanReview
    <3>4. outcome.verdict = "retry" => retry_counts'[s] = retry_counts[s] + 1
      BY <2>1 DEF GateEffect
    <3>5. QED
      BY <2>3, <3>1, <3>2, <3>3, <3>4 DEF History
  <2>6. ASSUME NEW g \in Gated, g # s
        PROVE  History(g)'
    <3>1. g \in Nat
      BY Bounds
    <3>2. next' = Node("persona", g) => g = s + 1
      BY <2>1, <2>6 DEF GateEffect, Verdicts, Node, HumanReview
    <3>3. next' # Node("persona", g) \/ g > ApprovedCount + 1
      BY <2>2, <2>4, <3>2
    <3>4. QED
      BY <1>1, <2>4, <2>6, <3>3, HistoryOthers
  <2>7. QED
    BY <1>2, <2>5, <2>6
<1>5. ASSUME NEW s \in Gated, ReviewAccepts(s) \/ ReviewRetries(s) \/ ReviewAborts(s)
      PROVE  HistoryInv'
  <2>1. PICK action \in Actions : ReviewEffect(s, action)
    <3>1. CASE ReviewAccepts(s)
      BY <3>1, ReviewState DEF Actions
    <3>2. CASE ReviewRetries(s)
      BY <3>2, ReviewState DEF Actions
    <3>3. CASE ReviewAborts(s)
      BY <3>3, ReviewState DEF Actions
    <3>4. QED
      BY <1>5, <3>1, <3>2, <3>3
  <2>2. s \in Nat /\ retry_counts[s] \in Nat
    BY Bounds DEF TypeOK
  <2>3. /\ ApprovedCount = s - 1 /\ (ApprovedCount' = s - 1 \/ ApprovedCount' = s) /\ OthersKept(s)
        /\ human_decisions'[s] = action /\ evaluations'[s] = evaluations[s]
        /\ evaluations[s].attempt = retry_counts[s] + 1 /\ evaluations[s].verdict = "escalate"
    BY <2>1 DEF ReviewEffect, Actions
  <2>4. History(s)'
    <3>1. ~(s > ApprovedCount' + 1)
      <4>1. CASE ApprovedCount' = s - 1
        BY <2>2, <4>1
      <4>2. CASE ApprovedCount' = s
        BY <2>2, <4>2
      <4>3. QED
        BY <2>3, <4>1, <4>2
    <3>2. human_decisions'[s] # "none" /\ (action = "accept_as_is" => ApprovedCount' = s)
      BY <2>1, <2>3 DEF ReviewEffect, Actions
    <3>3. next' \in {Node("persona", s), Node("gate", s)} => action = "retry"
      BY <2>1, <2>2 DEF ReviewEffect, Actions, Node, END
    <3>4. action = "retry" => retry_counts'[s] = retry_counts[s] + 1
      BY <2>1 DEF ReviewEffect
    <3>5. s > ApprovedCount' => human_decisions'[s] # "accept_as_is"
      BY <2>2, <2>3, <3>2
    <3>6. QED
      BY <2>3, <3>1, <3>2, <3>3, <3>4, <3>5 DEF History
  <2>5. ASSUME NEW g \in Gated, g # s
        PROVE  History(g)'
    <3>1. g \in Nat
      BY Bounds
    <3>2. next' = Node("persona", g) => g = s + 1
      BY <2>1, <2>5 DEF ReviewEffect, Actions, Node, END
    <3>3. next' # Node("persona", g) \/ g > ApprovedCount + 1
      BY <2>2, <2>3, <3>2
    <3>4. QED
      BY <1>1, <2>3, <2>5, <3>3, HistoryOthers
  <2>6. QED
    BY <1>2, <2>4, <2>5
<1>6. ASSUME Interrupt \/ FinalizeNode \/ NodeRaises \/ Resumption
      PROVE  HistoryInv'
  <2>1. StillEffect
    BY <1>6, StillState
  <2>2. \A g \in Gated : History(g)'
    BY <1>1, <2>1 DEF StillEffect, History, Node, END
  <2>3. QED
    BY <1>2, <2>2
<1>7. CASE \E s \in Stages : PersonaProduces(s)
  BY <1>3, <1>7
<1>8. CASE \E s \in Gated : PersonaFailsSchema(s)
  BY <1>3, <1>8, Bounds
<1>9. QED
  BY <1>4, <1>5, <1>6, <1>7, <1>8, NextCases

\* Only gated stages have a gate to run.
GateNodeInv == \A s \in Stages : next = Node("gate", s) => s \in Gated

LEMMA GateNodeStep ==
  ASSUME BaseInv, GateNodeInv, Next
  PROVE  GateNodeInv'
<1>1. ASSUME NEW s \in Stages, PersonaProduces(s) \/ (s \in Gated /\ PersonaFailsSchema(s))
      PROVE  GateNodeInv'
  BY <1>1 DEF PersonaProduces, PersonaFailsSchema, GateNodeInv, Node, Finalize
<1>2. ASSUME NEW s \in Gated, GatePasses(s) \/ GateRetries(s) \/ GateEscalates(s)
      PROVE  GateNodeInv'
  BY <1>2 DEF GatePasses, GateRetries, GateEscalates, Conclude, RouteAfterGate,
              NextNode, Node, HumanReview, Finalize, GateNodeInv
<1>3. ASSUME NEW s \in Gated, ReviewAccepts(s) \/ ReviewRetries(s) \/ ReviewAborts(s)
      PROVE  GateNodeInv'
  BY <1>3 DEF ReviewAccepts, ReviewRetries, ReviewAborts, Review, RouteAfterReview,
              NextNode, Node, Finalize, END, GateNodeInv
<1>4. ASSUME Interrupt \/ FinalizeNode \/ NodeRaises \/ Resumption
      PROVE  GateNodeInv'
  BY <1>4, ResumptionContinues
  DEF Interrupt, FinalizeNode, NodeRaises, Continue, GateNodeInv, Node, END
<1>5. QED
  BY <1>1, <1>2, <1>3, <1>4, NextCases, Bounds

\* What is known of the state of a run, rows aside.
StateInv == BaseInv /\ EndInv /\ GateNodeInv /\ DownstreamOnlyAfterApproval /\ HistoryInv

LEMMA StateInvariant == Spec => []StateInv
<1>1. Init => EndInv /\ HistoryInv /\ GateNodeInv
  <2>1. Init => ApprovedCount = 0
    BY CountFacts DEF Init
  <2>2. NoEvaluation.verdict = "none" /\ NoEvaluation.attempt = 0
    BY DEF NoEvaluation
  <2>3. QED
    BY <2>1, <2>2, EndInit, NodeFacts DEF Init, HistoryInv, GateNodeInv
<1>2. BaseInv /\ EndInv /\ HistoryInv /\ GateNodeInv /\ [Next]_vars
        => EndInv' /\ HistoryInv' /\ GateNodeInv'
  <2>1. ASSUME EndInv, HistoryInv, GateNodeInv, UNCHANGED vars
        PROVE  EndInv' /\ HistoryInv' /\ GateNodeInv'
    BY <2>1 DEF vars, bookkeeping, record, EndInv, HistoryInv, GateNodeInv, ApprovedCount
  <2>2. QED
    BY <2>1, EndInvStep, HistoryStep, GateNodeStep
<1>3. QED
  BY <1>1, <1>2, BaseInvariant, ApprovalSafety, PTL DEF Spec, StateInv

------------------------------------------------------------------------------
(* The steps of a run with its rows.                                       *)

\* A superstep that is stored, noted if rows of it were in the log before.
Stores(node, n) ==
  /\ repeated \subseteq repeated' /\ (orphans => <<node, n>> \in repeated')
  /\ ~orphans' /\ failures' = failures

PersonaStep(s, ok, w) ==
  /\ PersonaEffect(s, ok) /\ CallsAppended(w, s, ok)
  /\ rows' = rows \o w /\ Stores(Node("persona", s), Attempt(s))

GateStep(s, outcome, w) ==
  /\ GateEffect(s, outcome) /\ EvaluationAppended(w, s, outcome)
  /\ rows' = rows \o w /\ Stores(Node("gate", s), Attempt(s))
  /\ orphans => Decided

ReviewStep(s, action, w) ==
  /\ ReviewEffect(s, action) /\ DecisionAppended(w, s, action)
  /\ rows' = rows \o w /\ Stores(HumanReview, Attempt(0))

\* What the row of a node says of it.
RowOfNode(w, j) ==
  \/ /\ w[j].event_type \in View!Calls /\ next = Node("persona", w[j].stage)
     /\ w[j].attempt = Attempt(w[j].stage)
  \/ /\ w[j].event_type = "evaluation" /\ j = 1 /\ next = Node("gate", w[j].stage)
     /\ w[j].stage \in Gated /\ w[j].attempt = Attempt(w[j].stage)
     /\ w[j].judged => ~invalid_output[w[j].stage]
  \/ w[j].event_type = "escalation" /\ next.node = "gate"
  \/ /\ w[j].event_type = "human_decision" /\ next = HumanReview
     /\ w[j].stage = pending_handoff
  \/ w[j].event_type = "run_aborted" /\ next = HumanReview
  \/ w[j].event_type = "run_completed" /\ next = Finalize

\* The rows of a pause, a failure or the end: those of a node that was not stored,
\* and endings.
StillAppended(w) ==
  /\ w \in Seq(RowSet)
  /\ \A j \in 1..Len(w) :
       \/ w[j].event_type = "run_failed"
       \/ RowOfNode(w, j) /\ orphans' /\ failures' > 0
       \/ w[j].event_type = "run_completed" /\ status' = "complete"
  /\ status' = "complete" => Len(w) >= 1 /\ w[Len(w)].event_type = "run_completed"

StillStep(w) ==
  /\ StillEffect /\ StillAppended(w)
  /\ rows' = rows \o w /\ failures' >= failures /\ status' # "aborted"
  /\ repeated \subseteq repeated'
  /\ \/ UNCHANGED <<next, pending_handoff>> /\ status' # "complete" /\ (orphans => orphans')
     \/ next = Finalize /\ next' = END /\ status' = "complete" /\ ~orphans'

LEMMA NodeRowsTyped ==
  ASSUME TypeOK, ReviewInv, GateNodeInv, NEW r \in NodeRows
  PROVE  /\ r \in Seq(RowSet) /\ \A j \in 1..Len(r) : RowOfNode(r, j)
         /\ next = HumanReview /\ decision = "none" => Len(r) = 0
<1>1. HumanReview.node = "human_review" /\ Finalize.node = "finalize"
  BY DEF HumanReview, Finalize, Node
<1>2. /\ next.node \in {"persona", "gate"} => next.stage \in Stages /\ next # HumanReview
      /\ next.node = "persona" => next = Node("persona", next.stage)
      /\ next.node = "gate" => next = Node("gate", next.stage)
  BY DEF TypeOK, Nodes, Node, HumanReview, Finalize, END
<1>3. CASE next.node = "persona"
  <2>1. next.stage \in Stages /\ next # HumanReview /\ next = Node("persona", next.stage)
    BY <1>2, <1>3
  <2>2. NodeRows = CallRows(next.stage, TRUE) \union CallRows(next.stage, FALSE)
    BY <1>1, <1>3, <2>1 DEF NodeRows
  <2>3. CallsAppended(r, next.stage, TRUE) \/ CallsAppended(r, next.stage, FALSE)
    <3>1. r \in CallRows(next.stage, TRUE) \/ r \in CallRows(next.stage, FALSE)
      BY <2>2
    <3>2. QED
      BY <2>1, <3>1, CallRowsFacts
  <2>4. QED
    BY <2>1, <2>3 DEF CallsAppended, RowOfNode
<1>4. CASE next.node = "gate" /\ next.stage \in Gated
  <2> DEFINE g == next.stage
  <2>0. NodeRows = {EvaluationRows(g, outcome) : outcome \in GateOutcomes(g)}
    BY <1>1, <1>2, <1>4 DEF NodeRows
  <2>1. PICK outcome \in GateOutcomes(g) : r = EvaluationRows(g, outcome)
    BY <2>0
  <2>2. outcome.verdict \in Verdicts
    BY <1>4, GateOutcomeFacts DEF GateOutcome
  <2>3. outcome.judge # "deterministic" => ~invalid_output[g]
    BY DEF GateOutcomes, Rejection
  <2>4. EvaluationAppended(r, g, outcome) /\ next = Node("gate", g) /\ g \in Gated
    BY <1>2, <1>4, <2>1, <2>2, EvaluationRowsFacts
  <2> HIDE DEF g
  <2>5. \A j \in 1..Len(r) : RowOfNode(r, j)
    BY <1>4, <2>3, <2>4 DEF EvaluationAppended, RowOfNode
  <2>6. QED
    BY <1>2, <1>4, <2>4, <2>5 DEF EvaluationAppended
<1>5. CASE next = HumanReview /\ decision # "none"
  <2>1. r = DecisionRows(pending_handoff, Taken(pending_handoff))
    BY <1>1, <1>5 DEF NodeRows
  <2>2. pending_handoff \in Gated /\ Taken(pending_handoff) \in Actions
    BY <1>5 DEF ReviewInv, Taken, TypeOK, Actions
  <2>3. DecisionAppended(r, pending_handoff, Taken(pending_handoff))
    BY <2>1, <2>2, DecisionRowsFacts
  <2>4. QED
    BY <1>5, <2>3 DEF DecisionAppended, RowOfNode
<1>6. CASE next = Finalize
  <2>1. r = <<Row("run_completed", 0, 0, "none")>> /\ next # HumanReview
    BY <1>1, <1>6, NodeFacts DEF NodeRows, CompletedRows
  <2>2. /\ Row("run_completed", 0, 0, "none") \in RowSet
        /\ Row("run_completed", 0, 0, "none").event_type = "run_completed"
    BY RowFacts DEF Types
  <2>3. QED
    BY <1>6, <2>1, <2>2, OneRow DEF RowOfNode
<1>7. CASE /\ next.node \notin {"persona", "gate"}
           /\ ~(next = HumanReview /\ decision # "none") /\ next # Finalize
  <2>1. r = <<>>
    BY <1>7 DEF NodeRows
  <2>2. QED
    BY <2>1
<1>8. next.node = "gate" => next.stage \in Gated
  BY <1>2 DEF GateNodeInv
<1>9. QED
  BY <1>3, <1>4, <1>5, <1>6, <1>7, <1>8

LEMMA PrefixRows ==
  ASSUME NEW r \in Seq(RowSet), NEW k \in 0..Len(r), NEW f \in RowSet
  PROVE  /\ SubSeq(r, 1, k) \in Seq(RowSet) /\ Len(SubSeq(r, 1, k)) = k
         /\ \A j \in 1..k : SubSeq(r, 1, k)[j] = r[j]
         /\ SubSeq(r, 1, k) \o <<f>> \in Seq(RowSet)
         /\ Len(SubSeq(r, 1, k) \o <<f>>) = k + 1
         /\ \A j \in 1..k : (SubSeq(r, 1, k) \o <<f>>)[j] = r[j]
         /\ (SubSeq(r, 1, k) \o <<f>>)[k + 1] = f
         /\ k \in Nat /\ k <= Len(r)
<1>1. Len(r) \in Nat /\ k \in Nat /\ k <= Len(r)
  OBVIOUS
<1>2. /\ SubSeq(r, 1, k) \in Seq(RowSet) /\ Len(SubSeq(r, 1, k)) = k
      /\ \A j \in 1..k : SubSeq(r, 1, k)[j] = r[j]
  <2>1. \A j \in 1..k : r[j] \in RowSet
    BY <1>1
  <2>2. QED
    BY <1>1, <2>1
<1>3. <<f>> \in Seq(RowSet) /\ Len(<<f>>) = 1 /\ <<f>>[1] = f
  BY OneRow
<1> DEFINE p == SubSeq(r, 1, k)
<1> HIDE DEF p
<1>4. /\ p \o <<f>> \in Seq(RowSet)
      /\ Len(p \o <<f>>) = k + 1
      /\ \A j \in 1..k : (p \o <<f>>)[j] = p[j]
      /\ (p \o <<f>>)[k + 1] = f
  BY <1>1, <1>2, <1>3, ConcatProperties DEF p
<1>5. QED
  BY <1>1, <1>2, <1>4 DEF p

\* What a failure leaves in the log: nothing, or rows of the node it hit, and
\* perhaps its own row.
LEMMA FailFacts ==
  ASSUME StateInv, AuditTypeOK, Fails
  PROVE  /\ NodeRaises /\ failures' = failures + 1 /\ failures' \in Nat /\ orphans' \in BOOLEAN
         /\ repeated' = repeated /\ (orphans => orphans')
         /\ next = HumanReview /\ decision = "none" => orphans' = orphans
         /\ \E w \in Seq(RowSet) :
              /\ rows' = rows \o w
              /\ \A j \in 1..Len(w) :
                   w[j].event_type = "run_failed" \/ (RowOfNode(w, j) /\ orphans')
<1> DEFINE f == Row("run_failed", 0, 0, "none")
<1>1. f \in RowSet /\ f.event_type = "run_failed"
  BY RowFacts DEF Types
<1> HIDE DEF f
<1>2. NodeRaises /\ failures' = failures + 1 /\ repeated' = repeated
  BY DEF Fails
<1>3. PICK r \in NodeRows : \E k \in 0..Len(r) :
        /\ orphans' = (orphans \/ k > 0)
        /\ rows' \in {rows \o SubSeq(r, 1, k), rows \o SubSeq(r, 1, k) \o <<f>>}
  BY DEF Fails, f
<1>4. PICK k \in 0..Len(r) :
        /\ orphans' = (orphans \/ k > 0)
        /\ rows' \in {rows \o SubSeq(r, 1, k), rows \o SubSeq(r, 1, k) \o <<f>>}
  BY <1>3
<1>5. /\ r \in Seq(RowSet) /\ \A j \in 1..Len(r) : RowOfNode(r, j)
      /\ next = HumanReview /\ decision = "none" => Len(r) = 0
  BY NodeRowsTyped DEF StateInv, BaseInv
<1> DEFINE p == SubSeq(r, 1, k)
           t == p \o <<f>>
<1>6. /\ p \in Seq(RowSet) /\ Len(p) = k
      /\ \A j \in 1..k : p[j] = r[j]
      /\ t \in Seq(RowSet) /\ Len(t) = k + 1
      /\ \A j \in 1..k : t[j] = r[j]
      /\ t[k + 1] = f
      /\ k \in Nat /\ k <= Len(r) /\ Len(r) \in Nat
  BY <1>1, <1>5, PrefixRows
<1>7. rows' = rows \o p \/ rows' = rows \o t
  <2>1. rows \in Seq(RowSet) /\ p \in Seq(RowSet) /\ <<f>> \in Seq(RowSet)
    BY <1>1, <1>6, OneRow DEF AuditTypeOK
  <2>2. (rows \o p) \o <<f>> = rows \o t
    <3> HIDE DEF p
    <3>1. QED
      BY <2>1, ConcatAssociative
  <2>3. QED
    BY <1>4, <2>2
<1> HIDE DEF p, t
<1>8. orphans \in BOOLEAN /\ failures \in Nat
  BY DEF AuditTypeOK
<1>9. orphans' \in BOOLEAN /\ (orphans' <=> orphans \/ k > 0)
  BY <1>4, <1>6, <1>8
<1>10. ASSUME NEW w \in {p, t}, NEW j \in 1..Len(w)
       PROVE  w[j].event_type = "run_failed" \/ (RowOfNode(w, j) /\ orphans')
  <2>1. j \in 1..k \/ j = k + 1
    BY <1>6, <1>10
  <2>2. CASE j \in 1..k
    <3>1. k > 0 /\ j \in 1..Len(r) /\ w[j] = r[j]
      BY <1>6, <1>10, <2>2
    <3>2. RowOfNode(r, j)
      BY <1>5, <3>1
    <3>3. RowOfNode(w, j)
      BY <3>1, <3>2 DEF RowOfNode
    <3>4. QED
      BY <1>9, <3>1, <3>3
  <2>3. CASE j = k + 1 /\ j \notin 1..k
    <3>1. w = t
      BY <1>6, <1>10, <2>3
    <3>2. QED
      BY <1>1, <1>6, <2>3, <3>1
  <2>4. QED
    BY <2>1, <2>2, <2>3
<1>11. next = HumanReview /\ decision = "none" => orphans' = orphans
  <2>1. ASSUME next = HumanReview, decision = "none"
        PROVE  k = 0
    BY <1>5, <1>6, <2>1
  <2>2. QED
    BY <1>8, <1>9, <2>1
<1>12. (orphans => orphans') /\ failures' \in Nat
  BY <1>2, <1>8, <1>9
<1>13. PICK w \in {p, t} : rows' = rows \o w /\ w \in Seq(RowSet)
  BY <1>6, <1>7
<1>14. QED
  BY <1>2, <1>9, <1>10, <1>11, <1>12, <1>13

LEMMA AuditedCases ==
  ASSUME StateInv, AuditTypeOK, OrphanInv, AuditedNext
  PROVE  /\ AuditTypeOK' /\ OrphanInv' /\ status \notin {"complete", "aborted"}
         /\ \/ \E s \in Stages, ok \in BOOLEAN, w \in Seq(RowSet) : PersonaStep(s, ok, w)
            \/ \E s \in Gated : \E outcome \in GateOutcomes(s), w \in Seq(RowSet) :
                 GateStep(s, outcome, w)
            \/ \E s \in Gated, action \in Actions, w \in Seq(RowSet) : ReviewStep(s, action, w)
            \/ \E w \in Seq(RowSet) : StillStep(w)
<1> USE DEF StateInv, BaseInv
<1>1. invoke # "returned"
  <2>1. CASE \E action \in Actions : Resumes(action)
    BY <2>1, ResumptionContinues DEF Resumes, Resumption
  <2>2. CASE AuditedRunNode \/ Fails
    BY <2>2 DEF AuditedRunNode, Persona, Gate, HumanReviewNode, Pauses, Finalizes, Fails,
           PersonaProduces, PersonaFailsSchema, RunPersona, GatePasses, GateRetries,
           GateEscalates, Conclude, ReviewAccepts, ReviewRetries, ReviewAborts,
           Review, Interrupt, FinalizeNode, Superstep, NodeRaises
  <2>3. QED
    BY <2>1, <2>2 DEF AuditedNext
<1>2. next # END /\ status \notin {"complete", "aborted"}
  BY <1>1 DEF EndInv
<1>3. rows \in Seq(RowSet) /\ orphans \in BOOLEAN /\ failures \in Nat
  BY DEF AuditTypeOK
<1>4. ASSUME NEW w \in Seq(RowSet), Appends(w)
      PROVE  /\ AuditTypeOK' /\ OrphanInv'
             /\ rows' = rows \o w /\ Stores(next, Attempt(next.stage))
  <2>1. rows' = rows \o w /\ orphans' = FALSE /\ failures' = failures
    BY <1>4 DEF Appends
  <2>2. Stores(next, Attempt(next.stage))
    BY <1>3, <1>4 DEF Appends, Stores, AttemptTag
  <2>3. QED
    BY <1>3, <2>1, <2>2, ConcatProperties DEF AuditTypeOK, OrphanInv
<1>5. \A k, s : Node(k, s).stage = s /\ HumanReview.stage = 0
  BY DEF Node, HumanReview
<1>8. ASSUME NEW s \in Stages, Persona(s)
      PROVE  /\ AuditTypeOK' /\ OrphanInv'
             /\ \E ok \in BOOLEAN, w \in Seq(RowSet) : PersonaStep(s, ok, w)
  <2>1. PICK ok \in BOOLEAN :
          /\ IF ok THEN PersonaProduces(s) ELSE PersonaFailsSchema(s)
          /\ \E r \in CallRows(s, ok) : Appends(r)
    BY <1>8 DEF Persona
  <2>2. PICK w \in CallRows(s, ok) : Appends(w)
    BY <2>1
  <2>3. CallsAppended(w, s, ok) /\ PersonaEffect(s, ok)
    BY <2>1, CallRowsFacts, PersonaState
  <2>4. w \in Seq(RowSet) /\ next = Node("persona", s)
    BY <2>3 DEF CallsAppended, PersonaEffect
  <2>5. /\ AuditTypeOK' /\ OrphanInv'
        /\ rows' = rows \o w /\ Stores(Node("persona", s), Attempt(s))
    BY <1>4, <1>5, <2>2, <2>4
  <2>6. QED
    BY <2>3, <2>4, <2>5 DEF PersonaStep
<1>9. ASSUME NEW s \in Gated, Gate(s)
      PROVE  /\ AuditTypeOK' /\ OrphanInv'
             /\ \E outcome \in GateOutcomes(s), w \in Seq(RowSet) : GateStep(s, outcome, w)
  <2>1. PICK outcome \in GateOutcomes(s) : GateEffect(s, outcome)
    BY <1>9, GateState DEF Gate
  <2> DEFINE rec == RecordOf(s, outcome)
             w == EvaluationRows(s, rec)
  <2>2. /\ rec.verdict = outcome.verdict /\ rec.judge = outcome.judge
        /\ outcome.verdict \in Verdicts /\ next = Node("gate", s) /\ evaluations'[s] = rec
    BY <2>1 DEF GateEffect, RecordOf
  <2>3. Appends(w)
    BY <1>9, <2>2 DEF Gate
  <2> HIDE DEF rec
  <2>4. EvaluationAppended(w, s, rec)
    BY <2>2, EvaluationRowsFacts
  <2> HIDE DEF w
  <2>5. EvaluationAppended(w, s, outcome) /\ w \in Seq(RowSet)
    BY <2>2, <2>4 DEF EvaluationAppended
  <2>6. invoke = "executing"
    BY <1>9 DEF Gate, GatePasses, GateRetries, GateEscalates, Conclude, Superstep
  <2>7. orphans => Decided
    BY <2>2, <2>6, NodeFacts DEF OrphanInv
  <2>8. /\ AuditTypeOK' /\ OrphanInv'
        /\ rows' = rows \o w /\ Stores(Node("gate", s), Attempt(s))
    BY <1>4, <1>5, <2>2, <2>3, <2>5
  <2>9. GateStep(s, outcome, w)
    BY <2>1, <2>5, <2>7, <2>8 DEF GateStep
  <2>10. QED
    BY <2>5, <2>8, <2>9
<1>10. ASSUME NEW s \in Gated, HumanReviewNode(s)
       PROVE  /\ AuditTypeOK' /\ OrphanInv'
              /\ \E action \in Actions, w \in Seq(RowSet) : ReviewStep(s, action, w)
  <2>1. PICK action \in Actions :
          /\ CASE action = "accept_as_is" -> ReviewAccepts(s)
               [] action = "retry"        -> ReviewRetries(s)
               [] action = "abort"        -> ReviewAborts(s)
          /\ Appends(DecisionRows(s, action))
    <3>1. CASE ReviewAccepts(s) /\ Appends(DecisionRows(s, "accept_as_is"))
      BY <3>1 DEF Actions
    <3>2. CASE ReviewRetries(s) /\ Appends(DecisionRows(s, "retry"))
      BY <3>2 DEF Actions
    <3>3. CASE ReviewAborts(s) /\ Appends(DecisionRows(s, "abort"))
      BY <3>3 DEF Actions
    <3>4. QED
      BY <1>10, <3>1, <3>2, <3>3 DEF HumanReviewNode
  <2> DEFINE w == DecisionRows(s, action)
  <2>2. ReviewEffect(s, action) /\ DecisionAppended(w, s, action)
    BY <2>1, ReviewState, DecisionRowsFacts
  <2>3. Appends(w)
    BY <2>1
  <2> HIDE DEF w
  <2>4. w \in Seq(RowSet) /\ next = HumanReview
    BY <2>2 DEF DecisionAppended, ReviewEffect
  <2>5. /\ AuditTypeOK' /\ OrphanInv'
        /\ rows' = rows \o w /\ Stores(HumanReview, Attempt(0))
    BY <1>4, <1>5, <2>3, <2>4
  <2>6. QED
    BY <2>2, <2>4, <2>5 DEF ReviewStep
<1>11. <<>> \in Seq(RowSet) /\ Len(<<>>) = 0 /\ rows \o <<>> = rows
  BY <1>3, ConcatEmptySeq
<1>12. ASSUME Pauses
       PROVE  AuditTypeOK' /\ OrphanInv' /\ \E w \in Seq(RowSet) : StillStep(w)
  <2>1. /\ Interrupt /\ AuditTypeOK' /\ OrphanInv'
        /\ rows' = rows \o <<>> /\ Stores(next, Attempt(next.stage))
    BY <1>4, <1>11, <1>12 DEF Pauses
  <2>2. /\ StillEffect /\ ~orphans /\ next = HumanReview
        /\ UNCHANGED <<status, next, pending_handoff>>
    BY <2>1, StillState DEF Interrupt, Superstep, OrphanInv
  <2>3. StillAppended(<<>>)
    BY <1>2, <1>11, <2>2 DEF StillAppended
  <2>4. StillStep(<<>>)
    BY <1>2, <1>3, <2>1, <2>2, <2>3 DEF StillStep, Stores
  <2>5. QED
    BY <1>11, <2>1, <2>4
<1>13. ASSUME Finalizes
       PROVE  AuditTypeOK' /\ OrphanInv' /\ \E w \in Seq(RowSet) : StillStep(w)
  <2> DEFINE a == Row("run_completed", 0, 0, "none")
  <2>1. a \in RowSet /\ a.event_type = "run_completed"
    BY RowFacts DEF Types
  <2>2. FinalizeNode /\ Appends(<<a>>)
    BY <1>13 DEF Finalizes, CompletedRows
  <2> HIDE DEF a
  <2>3. <<a>> \in Seq(RowSet) /\ Len(<<a>>) = 1 /\ <<a>>[1] = a /\ 1..Len(<<a>>) = {1}
    BY <2>1, OneRow
  <2>4. /\ AuditTypeOK' /\ OrphanInv'
        /\ rows' = rows \o <<a>> /\ Stores(next, Attempt(next.stage))
    BY <1>4, <2>2, <2>3
  <2>5. StillEffect /\ status' = "complete" /\ next = Finalize /\ next' = END
    BY <2>2, StillState DEF FinalizeNode, Superstep
  <2>6. StillAppended(<<a>>)
    BY <2>1, <2>3, <2>5 DEF StillAppended
  <2>7. StillStep(<<a>>)
    BY <1>3, <2>4, <2>5, <2>6 DEF StillStep, Stores
  <2>8. QED
    BY <2>3, <2>4, <2>7
<1>14. ASSUME NEW action \in Actions, Resumes(action)
       PROVE  AuditTypeOK' /\ OrphanInv' /\ \E w \in Seq(RowSet) : StillStep(w)
  <2>1. Resumption /\ Continue /\ UNCHANGED auditVars
    BY <1>14, ResumptionContinues DEF Resumes, Resumption
  <2>2. UNCHANGED <<status, pending_handoff, next, human_decisions>>
    BY <2>1 DEF Continue
  <2>3. StillEffect
    BY <2>1, StillState
  <2>4. StillAppended(<<>>)
    BY <1>2, <1>11, <2>2 DEF StillAppended
  <2>5. StillStep(<<>>)
    BY <1>2, <1>3, <1>11, <2>1, <2>2, <2>3, <2>4 DEF StillStep, auditVars
  <2>6. /\ next = HumanReview => decision' # "none"
        /\ next # HumanReview => Decided'
    <3>1. CASE Resume(action)
      BY <3>1 DEF Resume, AwaitsReview, ReviewInv, Actions
    <3>2. CASE ResumeLate(action)
      BY <2>2, <3>2 DEF ResumeLate, Actions, Decided
    <3>3. QED
      BY <1>14, <3>1, <3>2 DEF Resumes
  <2>7. AuditTypeOK' /\ OrphanInv'
    BY <1>2, <2>1, <2>2, <2>6 DEF AuditTypeOK, OrphanInv, auditVars
  <2>8. QED
    BY <1>11, <2>5, <2>7
<1>15. ASSUME Fails
       PROVE  AuditTypeOK' /\ OrphanInv' /\ \E w \in Seq(RowSet) : StillStep(w)
  <2>1. /\ NodeRaises /\ failures' = failures + 1 /\ failures' \in Nat /\ orphans' \in BOOLEAN
        /\ repeated' = repeated /\ (orphans => orphans')
        /\ next = HumanReview /\ decision = "none" => orphans' = orphans
    BY <1>15, FailFacts
  <2>2. PICK w \in Seq(RowSet) :
              /\ rows' = rows \o w
              /\ \A j \in 1..Len(w) :
                   w[j].event_type = "run_failed" \/ (RowOfNode(w, j) /\ orphans')
    BY <1>15, FailFacts
  <2>3. /\ StillEffect /\ UNCHANGED <<next, status, pending_handoff, decision>>
        /\ invoke' = "raised"
    BY <2>1, StillState DEF NodeRaises
  <2>4. AuditTypeOK'
    BY <1>3, <2>1, <2>2, ConcatProperties DEF AuditTypeOK
  <2>5. OrphanInv'
    BY <1>2, <2>1, <2>3 DEF OrphanInv
  <2>6. failures' > 0 /\ failures' >= failures
    BY <1>3, <2>1
  <2>7. StillAppended(w)
    BY <1>2, <2>2, <2>3, <2>6 DEF StillAppended
  <2>8. StillStep(w)
    BY <1>2, <2>1, <2>2, <2>3, <2>6, <2>7 DEF StillStep
  <2>9. QED
    BY <2>4, <2>5, <2>8
<1>16. \/ \E s \in Stages : Persona(s)
       \/ \E s \in Gated : Gate(s) \/ HumanReviewNode(s)
       \/ Pauses \/ Finalizes \/ Fails \/ \E action \in Actions : Resumes(action)
  BY DEF AuditedNext, AuditedRunNode
<1>17. QED
  BY <1>2, <1>8, <1>9, <1>10, <1>12, <1>13, <1>14, <1>15, <1>16

------------------------------------------------------------------------------
(* What the rows of a step add to each set.                                *)

LEMMA ConcatKept ==
  ASSUME NEW X, NEW q \in Seq(X), NEW w \in Seq(X), NEW S, ~Has(w, S)
  PROVE  /\ Pos(q \o w, S) = Pos(q, S) /\ Count(q \o w, S) = Count(q, S)
         /\ Has(q \o w, S) <=> Has(q, S)
         /\ LastIn(q \o w, S) = LastIn(q, S)
         /\ Has(q, S) => FirstIn(q \o w, S) = FirstIn(q, S)
<1>1. ASSUME NEW i \in Pos(q \o w, S)
      PROVE  i \in Pos(q, S)
  <2>1. i \in 1..Len(q \o w) /\ Len(q) \in Nat /\ (i <= Len(q) \/ i > Len(q))
    BY DEF Pos
  <2>2. QED
    BY <2>1, ConcatPos DEF Has
<1>2. Pos(q, S) \subseteq Pos(q \o w, S)
  BY ConcatPos
<1>3. Pos(q \o w, S) = Pos(q, S)
  BY <1>1, <1>2
<1>4. QED
  BY <1>3, ConcatCount, ConcatLast, ConcatFirst DEF Has

LEMMA ConcatOne ==
  ASSUME NEW X, NEW q \in Seq(X), NEW w \in Seq(X), NEW S, Pos(w, S) = {1}
  PROVE  /\ Has(q \o w, S) /\ Count(q \o w, S) = Count(q, S) + 1 /\ Count(q, S) \in Nat
         /\ LastIn(q \o w, S) = w[1]
         /\ ~Has(q, S) => FirstIn(q \o w, S) = w[1]
         /\ Has(q, S) => FirstIn(q \o w, S) = FirstIn(q, S)
<1>1. Has(w, S) /\ 1 \in Pos(w, S) /\ \A j \in Pos(w, S) : j <= 1 /\ 1 <= j
  BY DEF Has
<1>2. LastIn(w, S) = w[1] /\ FirstIn(w, S) = w[1]
  BY <1>1, LastAt, FirstAt
<1>3. Count(q \o w, S) = Count(q, S) + 1 /\ Count(q, S) \in Nat
  BY ConcatCount
<1>4. Has(q \o w, S) /\ LastIn(q \o w, S) = w[1]
  BY <1>1, <1>2, ConcatPos, ConcatLast
<1>5. QED
  BY <1>1, <1>2, <1>3, <1>4, ConcatFirst

LEMMA PersonaRows ==
  ASSUME NEW s \in Stages, NEW ok \in BOOLEAN, NEW w, CallsAppended(w, s, ok)
  PROVE  /\ \A g : ~Has(w, EvaluationRowsOf(g))
         /\ \A g, n : ~Has(w, EvaluationRowsAt(g, n))
         /\ \A g, v : ~Has(w, EvaluationRowsWith(g, v))
         /\ \A g : ~Has(w, HumanRowsOf(g))
         /\ \A g, v : ~Has(w, HumanRowsWith(g, v))
         /\ ~Has(w, EndingRows) /\ \A g : ~Has(w, DecisiveRowsOf(g))
         /\ \A v : v \notin View!Calls => ~Has(w, RowsOfType(v))
         /\ \A g : Has(w, CallRowsOf(g)) <=> g = s
         /\ \A g, n : Has(w, CallRowsAt(g, n)) <=> g = s /\ n = Attempt(s)
         /\ \A g : Has(w, OutputRowsOf(g)) <=> g = s /\ ok
         /\ \A g, n : Has(w, OutputRowsAt(g, n)) <=> g = s /\ ok /\ n = Attempt(s)
         /\ ok => LastIn(w, OutputRowsOf(s)).attempt = Attempt(s)
<1>1. /\ w \in Seq(RowSet) /\ Len(w) \in Nat /\ Len(w) >= 1 /\ Len(w) \in 1..Len(w)
      /\ \A j \in 1..Len(w) :
           /\ w[j].event_type \in View!Calls /\ w[j].stage = s /\ w[j].attempt = Attempt(s)
           /\ ~ok => w[j].event_type = "parse_failure"
           /\ w[j] \in RowSet
      /\ ok => w[Len(w)].event_type = "persona_call"
  BY DEF CallsAppended
<1>2. /\ View!Calls \intersect View!Decisions = {} /\ View!Calls \intersect View!Endings = {}
      /\ \A t \in View!Calls : t \notin {"evaluation", "human_decision"}
      /\ "persona_call" \in View!Calls
  BY DEF View!Calls, View!Decisions, View!Endings
<1>3. /\ \A g : ~Has(w, EvaluationRowsOf(g))
      /\ \A g, n : ~Has(w, EvaluationRowsAt(g, n))
      /\ \A g, v : ~Has(w, EvaluationRowsWith(g, v))
      /\ \A g : ~Has(w, HumanRowsOf(g))
      /\ \A g, v : ~Has(w, HumanRowsWith(g, v))
  BY <1>1, <1>2 DEF Has, Pos, EvaluationRowsOf, EvaluationRowsAt, EvaluationRowsWith,
                    HumanRowsOf, HumanRowsWith
<1>4. /\ ~Has(w, EndingRows) /\ \A g : ~Has(w, DecisiveRowsOf(g))
      /\ \A v : v \notin View!Calls => ~Has(w, RowsOfType(v))
  BY <1>1, <1>2 DEF Has, Pos, DecisiveRowsOf, EndingRows, RowsOfType
<1>5. /\ \A g : Has(w, CallRowsOf(g)) <=> g = s
      /\ \A g, n : Has(w, CallRowsAt(g, n)) <=> g = s /\ n = Attempt(s)
  BY <1>1 DEF Has, Pos, CallRowsOf, CallRowsAt
<1>6. /\ \A g : Has(w, OutputRowsOf(g)) <=> g = s /\ ok
      /\ \A g, n : Has(w, OutputRowsAt(g, n)) <=> g = s /\ ok /\ n = Attempt(s)
  <2>1. \A g : Has(w, OutputRowsOf(g)) => g = s /\ ok
    BY <1>1 DEF Has, Pos, OutputRowsOf
  <2>2. \A g, n : Has(w, OutputRowsAt(g, n)) => g = s /\ ok /\ n = Attempt(s)
    BY <1>1 DEF Has, Pos, OutputRowsAt
  <2>3. ok => Len(w) \in Pos(w, OutputRowsOf(s)) /\ Len(w) \in Pos(w, OutputRowsAt(s, Attempt(s)))
    BY <1>1 DEF Pos, OutputRowsOf, OutputRowsAt
  <2>4. QED
    BY <2>1, <2>2, <2>3 DEF Has
<1>7. ASSUME ok
      PROVE  LastIn(w, OutputRowsOf(s)).attempt = Attempt(s)
  <2>1. Has(w, OutputRowsOf(s))
    <3>1. Len(w) \in Pos(w, OutputRowsOf(s))
      BY <1>1, <1>7 DEF Pos, OutputRowsOf
    <3>2. QED
      BY <3>1 DEF Has
  <2>2. PICK i \in Pos(w, OutputRowsOf(s)) : LastIn(w, OutputRowsOf(s)) = w[i]
    BY <1>1, <2>1, LastFacts
  <2>3. QED
    BY <1>1, <2>2 DEF Pos
<1>8. QED
  BY <1>3, <1>4, <1>5, <1>6, <1>7

LEMMA GateRows ==
  ASSUME NEW s \in Gated, NEW outcome, NEW w, EvaluationAppended(w, s, outcome)
  PROVE  /\ \A g : ~Has(w, CallRowsOf(g))
         /\ \A g, n : ~Has(w, CallRowsAt(g, n))
         /\ \A g : ~Has(w, OutputRowsOf(g))
         /\ \A g, n : ~Has(w, OutputRowsAt(g, n))
         /\ ~Has(w, EndingRows)
         /\ \A g : ~Has(w, HumanRowsOf(g))
         /\ \A g, v : ~Has(w, HumanRowsWith(g, v))
         /\ \A v : v \notin {"evaluation", "escalation"} => ~Has(w, RowsOfType(v))
         /\ \A g : g # s => /\ ~Has(w, EvaluationRowsOf(g)) /\ \A n : ~Has(w, EvaluationRowsAt(g, n))
                     /\ \A v : ~Has(w, EvaluationRowsWith(g, v))
                     /\ ~Has(w, DecisiveRowsOf(g))
         /\ Pos(w, EvaluationRowsOf(s)) = {1} /\ Pos(w, DecisiveRowsOf(s)) = {1}
         /\ Pos(w, EvaluationRowsAt(s, Attempt(s))) = {1}
         /\ Pos(w, EvaluationRowsWith(s, outcome.verdict)) = {1}
         /\ \A n : n # Attempt(s) => ~Has(w, EvaluationRowsAt(s, n))
         /\ \A v : v # outcome.verdict => ~Has(w, EvaluationRowsWith(s, v))
         /\ Has(w, RowsOfType("escalation")) <=> outcome.verdict = "escalate"
<1>1. /\ w \in Seq(RowSet) /\ Len(w) \in Nat /\ 1 \in 1..Len(w) /\ \A j \in 1..Len(w) : w[j] \in RowSet
      /\ w[1].event_type = "evaluation" /\ w[1].stage = s /\ w[1].attempt = Attempt(s)
      /\ w[1].verdict = outcome.verdict
      /\ \A j \in 1..Len(w) :
           j # 1 => outcome.verdict = "escalate" /\ w[j].event_type = "escalation"
      /\ outcome.verdict = "escalate" => 2 \in 1..Len(w)
  <2>1. w \in Seq(RowSet) /\ Len(w) \in Nat /\ Len(w) >= 1
        /\ (outcome.verdict = "escalate" => Len(w) = 2)
    BY DEF EvaluationAppended
  <2>2. 1 \in 1..Len(w)
    BY <2>1
  <2>3. ASSUME outcome.verdict = "escalate"
        PROVE  2 \in 1..Len(w)
    <3>1. Len(w) = 2
      BY <2>1, <2>3
    <3>2. QED
      BY <3>1
  <2>4. \A j \in 1..Len(w) : w[j] \in RowSet
    BY <2>1
  <2>5. QED
    BY <2>1, <2>2, <2>3, <2>4 DEF EvaluationAppended
<1>2. /\ "evaluation" \notin View!Calls /\ "escalation" \notin View!Calls
      /\ "evaluation" \notin View!Endings /\ "escalation" \notin View!Endings
      /\ "evaluation" \in View!Decisions /\ "escalation" \notin View!Decisions
  BY DEF View!Calls, View!Decisions, View!Endings
<1>3. \A j \in 1..Len(w) : w[j].event_type = "evaluation" \/ w[j].event_type = "escalation"
  BY <1>1
<1>4. /\ \A g : ~Has(w, CallRowsOf(g))
      /\ \A g, n : ~Has(w, CallRowsAt(g, n))
      /\ \A g : ~Has(w, OutputRowsOf(g))
      /\ \A g, n : ~Has(w, OutputRowsAt(g, n))
  BY <1>2, <1>3 DEF Has, Pos, CallRowsOf, CallRowsAt, OutputRowsOf, OutputRowsAt
<1>5. /\ ~Has(w, EndingRows)
      /\ \A g : ~Has(w, HumanRowsOf(g))
      /\ \A g, v : ~Has(w, HumanRowsWith(g, v))
      /\ \A v : v \notin {"evaluation", "escalation"} => ~Has(w, RowsOfType(v))
  BY <1>2, <1>3 DEF Has, Pos, HumanRowsOf, HumanRowsWith, EndingRows, RowsOfType
<1>6. \A j \in 1..Len(w) :
        w[j].event_type = "evaluation" \/ w[j].event_type \in View!Decisions => j = 1
  BY <1>1, <1>2
<1>7. \A g : g # s => /\ ~Has(w, EvaluationRowsOf(g)) /\ \A n : ~Has(w, EvaluationRowsAt(g, n))
               /\ \A v : ~Has(w, EvaluationRowsWith(g, v))
               /\ ~Has(w, DecisiveRowsOf(g))
  BY <1>1, <1>6 DEF Has, Pos, EvaluationRowsOf, EvaluationRowsAt, EvaluationRowsWith, DecisiveRowsOf
<1>8. /\ Pos(w, EvaluationRowsOf(s)) = {1} /\ Pos(w, DecisiveRowsOf(s)) = {1}
      /\ Pos(w, EvaluationRowsAt(s, Attempt(s))) = {1}
      /\ Pos(w, EvaluationRowsWith(s, outcome.verdict)) = {1}
  BY <1>1, <1>2, <1>6 DEF Pos, EvaluationRowsOf, EvaluationRowsAt, EvaluationRowsWith, DecisiveRowsOf
<1>9. /\ \A n : n # Attempt(s) => ~Has(w, EvaluationRowsAt(s, n))
      /\ \A v : v # outcome.verdict => ~Has(w, EvaluationRowsWith(s, v))
  BY <1>1, <1>6 DEF Has, Pos, EvaluationRowsAt, EvaluationRowsWith
<1>10. Has(w, RowsOfType("escalation")) <=> outcome.verdict = "escalate"
  BY <1>1 DEF Has, Pos, RowsOfType
<1>11. QED
  BY <1>4, <1>5, <1>7, <1>8, <1>9, <1>10

LEMMA ReviewRows ==
  ASSUME NEW s \in Gated, NEW action \in Actions, NEW w, DecisionAppended(w, s, action)
  PROVE  /\ \A g : ~Has(w, CallRowsOf(g))
         /\ \A g, n : ~Has(w, CallRowsAt(g, n))
         /\ \A g : ~Has(w, OutputRowsOf(g))
         /\ \A g, n : ~Has(w, OutputRowsAt(g, n))
         /\ \A g : ~Has(w, EvaluationRowsOf(g))
         /\ \A g, n : ~Has(w, EvaluationRowsAt(g, n))
         /\ \A g, v : ~Has(w, EvaluationRowsWith(g, v))
         /\ \A v : v \notin {"human_decision", "run_aborted"} => ~Has(w, RowsOfType(v))
         /\ \A g : g # s => /\ ~Has(w, HumanRowsOf(g)) /\ \A v : ~Has(w, HumanRowsWith(g, v))
                     /\ ~Has(w, DecisiveRowsOf(g))
         /\ Pos(w, HumanRowsOf(s)) = {1} /\ Pos(w, DecisiveRowsOf(s)) = {1}
         /\ Pos(w, HumanRowsWith(s, action)) = {1}
         /\ \A v : v # action => ~Has(w, HumanRowsWith(s, v))
         /\ action # "abort" => ~Has(w, EndingRows) /\ ~Has(w, RowsOfType("run_aborted"))
         /\ action = "abort" =>
              Has(w, EndingRows) /\ LastIn(w, EndingRows).event_type = "run_aborted"
<1>1. /\ w \in Seq(RowSet) /\ Len(w) \in Nat /\ 1 \in 1..Len(w) /\ \A j \in 1..Len(w) : w[j] \in RowSet
      /\ w[1].event_type = "human_decision" /\ w[1].stage = s /\ w[1].verdict = action
      /\ \A j \in 1..Len(w) :
           j # 1 => action = "abort" /\ w[j].event_type = "run_aborted"
      /\ action = "abort" => 2 \in 1..Len(w)
  <2>1. w \in Seq(RowSet) /\ Len(w) \in Nat /\ Len(w) >= 1 /\ (action = "abort" => Len(w) = 2)
    BY DEF DecisionAppended
  <2>2. 1 \in 1..Len(w) /\ (action = "abort" => 2 \in 1..Len(w))
    BY <2>1
  <2>3. \A j \in 1..Len(w) : w[j] \in RowSet
    BY <2>1
  <2>4. QED
    BY <2>1, <2>2, <2>3 DEF DecisionAppended
<1>2. /\ "human_decision" \notin View!Calls /\ "run_aborted" \notin View!Calls
      /\ "human_decision" \notin View!Endings /\ "run_aborted" \in View!Endings
      /\ "human_decision" \in View!Decisions /\ "run_aborted" \notin View!Decisions
  BY DEF View!Calls, View!Decisions, View!Endings
<1>3. \A j \in 1..Len(w) : w[j].event_type = "human_decision" \/ w[j].event_type = "run_aborted"
  BY <1>1
<1>4. /\ \A g : ~Has(w, CallRowsOf(g))
      /\ \A g, n : ~Has(w, CallRowsAt(g, n))
      /\ \A g : ~Has(w, OutputRowsOf(g))
      /\ \A g, n : ~Has(w, OutputRowsAt(g, n))
  BY <1>2, <1>3 DEF Has, Pos, CallRowsOf, CallRowsAt, OutputRowsOf, OutputRowsAt
<1>5. /\ \A g : ~Has(w, EvaluationRowsOf(g))
      /\ \A g, n : ~Has(w, EvaluationRowsAt(g, n))
      /\ \A g, v : ~Has(w, EvaluationRowsWith(g, v))
      /\ \A v : v \notin {"human_decision", "run_aborted"} => ~Has(w, RowsOfType(v))
  BY <1>3 DEF Has, Pos, EvaluationRowsOf, EvaluationRowsAt, EvaluationRowsWith, RowsOfType
<1>6. \A j \in 1..Len(w) :
        w[j].event_type = "human_decision" \/ w[j].event_type \in View!Decisions => j = 1
  BY <1>1, <1>2
<1>7. \A g : g # s => /\ ~Has(w, HumanRowsOf(g)) /\ \A v : ~Has(w, HumanRowsWith(g, v))
               /\ ~Has(w, DecisiveRowsOf(g))
  BY <1>1, <1>6 DEF Has, Pos, HumanRowsOf, HumanRowsWith, DecisiveRowsOf
<1>8. /\ Pos(w, HumanRowsOf(s)) = {1} /\ Pos(w, DecisiveRowsOf(s)) = {1}
      /\ Pos(w, HumanRowsWith(s, action)) = {1}
      /\ \A v : v # action => ~Has(w, HumanRowsWith(s, v))
  BY <1>1, <1>2, <1>6 DEF Has, Pos, HumanRowsOf, HumanRowsWith, DecisiveRowsOf
<1>9. action # "abort" => ~Has(w, EndingRows) /\ ~Has(w, RowsOfType("run_aborted"))
  BY <1>1, <1>2 DEF Has, Pos, EndingRows, RowsOfType
<1>10. ASSUME action = "abort"
       PROVE  Has(w, EndingRows) /\ LastIn(w, EndingRows).event_type = "run_aborted"
  <2>1. 2 \in Pos(w, EndingRows)
    BY <1>1, <1>2, <1>10 DEF Pos, EndingRows
  <2>2. Has(w, EndingRows)
    BY <2>1 DEF Has
  <2>3. PICK i \in Pos(w, EndingRows) : LastIn(w, EndingRows) = w[i]
    BY <1>1, <2>2, LastFacts
  <2>4. i \in 1..Len(w) /\ w[i].event_type \in View!Endings
    BY <2>3 DEF Pos, EndingRows
  <2>5. QED
    BY <1>2, <1>3, <2>2, <2>3, <2>4
<1>11. QED
  BY <1>4, <1>5, <1>7, <1>8, <1>9, <1>10

\* The rows of a pause, a failure or the end, stage by stage.
LEMMA StillRows ==
  ASSUME NEW w, StillAppended(w)
  PROVE  /\ \A g : Has(w, CallRowsOf(g)) \/ Has(w, OutputRowsOf(g)) =>
              orphans' /\ next = Node("persona", g)
         /\ \A g, n : Has(w, CallRowsAt(g, n)) \/ Has(w, OutputRowsAt(g, n)) =>
              orphans' /\ next = Node("persona", g) /\ n = Attempt(g)
         /\ \A g : Has(w, EvaluationRowsOf(g)) => orphans' /\ next = Node("gate", g)
         /\ \A g, n : Has(w, EvaluationRowsAt(g, n)) => orphans' /\ next = Node("gate", g)
         /\ \A g, v : Has(w, EvaluationRowsWith(g, v)) => orphans' /\ next = Node("gate", g)
         /\ \A g : Has(w, HumanRowsOf(g)) => orphans' /\ next = HumanReview /\ g = pending_handoff
         /\ \A g : Has(w, DecisiveRowsOf(g)) =>
              /\ orphans'
              /\ next = Node("gate", g) \/ (next = HumanReview /\ g = pending_handoff)
         /\ Has(w, RowsOfType("escalation")) => orphans' /\ next.node = "gate"
         /\ Has(w, RowsOfType("run_completed")) =>
              status' = "complete" \/ (orphans' /\ next = Finalize)
         /\ Has(w, RowsOfType("run_aborted")) => failures' > 0
         /\ status' = "complete" =>
              Has(w, EndingRows) /\ LastIn(w, EndingRows).event_type = "run_completed"
<1>1. /\ w \in Seq(RowSet) /\ Len(w) \in Nat /\ \A j \in 1..Len(w) : w[j] \in RowSet
      /\ \A j \in 1..Len(w) :
           \/ w[j].event_type = "run_failed"
           \/ RowOfNode(w, j) /\ orphans' /\ failures' > 0
           \/ w[j].event_type = "run_completed" /\ status' = "complete"
      /\ status' = "complete" => Len(w) \in 1..Len(w) /\ w[Len(w)].event_type = "run_completed"
  BY DEF StillAppended
<1>2. /\ View!Calls = {"persona_call", "parse_failure"}
      /\ View!Decisions = {"evaluation", "human_decision"} /\ "run_completed" \in View!Endings
  BY DEF View!Calls, View!Decisions, View!Endings
<1>3. ASSUME NEW j \in 1..Len(w)
      PROVE  /\ w[j].event_type \in View!Calls =>
                  /\ orphans' /\ next = Node("persona", w[j].stage)
                  /\ w[j].attempt = Attempt(w[j].stage)
             /\ w[j].event_type = "evaluation" => orphans' /\ next = Node("gate", w[j].stage)
             /\ w[j].event_type = "escalation" => orphans' /\ next.node = "gate"
             /\ w[j].event_type = "human_decision" =>
                  orphans' /\ next = HumanReview /\ w[j].stage = pending_handoff
             /\ w[j].event_type = "run_completed" =>
                  status' = "complete" \/ (orphans' /\ next = Finalize)
             /\ w[j].event_type = "run_aborted" => failures' > 0
  BY <1>1, <1>2, <1>3 DEF RowOfNode
<1>4. /\ \A g : Has(w, CallRowsOf(g)) \/ Has(w, OutputRowsOf(g)) =>
           orphans' /\ next = Node("persona", g)
      /\ \A g, n : Has(w, CallRowsAt(g, n)) \/ Has(w, OutputRowsAt(g, n)) =>
           orphans' /\ next = Node("persona", g) /\ n = Attempt(g)
  BY <1>2, <1>3 DEF Has, Pos, CallRowsOf, CallRowsAt, OutputRowsOf, OutputRowsAt
<1>5. /\ \A g : Has(w, EvaluationRowsOf(g)) => orphans' /\ next = Node("gate", g)
      /\ \A g, n : Has(w, EvaluationRowsAt(g, n)) => orphans' /\ next = Node("gate", g)
      /\ \A g, v : Has(w, EvaluationRowsWith(g, v)) => orphans' /\ next = Node("gate", g)
  BY <1>3 DEF Has, Pos, EvaluationRowsOf, EvaluationRowsAt, EvaluationRowsWith
<1>6. /\ \A g : Has(w, HumanRowsOf(g)) => orphans' /\ next = HumanReview /\ g = pending_handoff
      /\ \A g : Has(w, DecisiveRowsOf(g)) =>
           /\ orphans'
           /\ next = Node("gate", g) \/ (next = HumanReview /\ g = pending_handoff)
  BY <1>2, <1>3 DEF Has, Pos, HumanRowsOf, DecisiveRowsOf
<1>7. /\ Has(w, RowsOfType("escalation")) => orphans' /\ next.node = "gate"
      /\ Has(w, RowsOfType("run_completed")) =>
           status' = "complete" \/ (orphans' /\ next = Finalize)
      /\ Has(w, RowsOfType("run_aborted")) => failures' > 0
  BY <1>3 DEF Has, Pos, RowsOfType
<1>8. ASSUME status' = "complete"
      PROVE  Has(w, EndingRows) /\ LastIn(w, EndingRows).event_type = "run_completed"
  <2>1. Len(w) \in Pos(w, EndingRows) /\ \A i \in Pos(w, EndingRows) : i <= Len(w)
    BY <1>1, <1>2, <1>8 DEF Pos, EndingRows
  <2>2. Has(w, EndingRows) /\ LastIn(w, EndingRows) = w[Len(w)]
    BY <1>1, <2>1, LastAt
  <2>3. QED
    BY <1>1, <1>8, <2>2
<1>9. QED
  BY <1>4, <1>5, <1>6, <1>7, <1>8

LEMMA CountType ==
  ASSUME TypeOK
  PROVE  ApprovedCount \in Int /\ ApprovedCount <= N
<1>1. ASSUME NEW s \in Stages, next \in {Node("persona", s), Node("gate", s)}
      PROVE  ApprovedCount \in Int /\ ApprovedCount <= N
  <2>1. ApprovedCount = s - 1
    BY <1>1, CountFacts
  <2>2. QED
    BY <2>1, PipelineAssumption DEF Stages
<1>2. CASE next \in {HumanReview, Finalize, END}
  <2>1. ApprovedCount = N \/ ApprovedCount = pending_handoff - 1
    BY <1>2, CountFacts
  <2>2. pending_handoff \in Nat /\ pending_handoff <= N /\ N \in Nat
    BY PipelineAssumption DEF TypeOK, Gated, NoHandoff
  <2>3. CASE ApprovedCount = N
    BY <2>2, <2>3
  <2>4. CASE ApprovedCount = pending_handoff - 1
    BY <2>2, <2>4
  <2>5. QED
    BY <2>1, <2>3, <2>4
<1>3. QED
  BY <1>1, <1>2 DEF TypeOK, Nodes

\* Rows of other stages and types keep an order that stood.
LEMMA OrderKept ==
  ASSUME NEW q \in Seq(RowSet), NEW w \in Seq(RowSet), NEW s,
         OrderIn(q, s), ~Has(w, DecisiveRowsOf(s))
  PROVE  OrderIn(q \o w, s)
<1>1. Pos(q \o w, DecisiveRowsOf(s)) = Pos(q, DecisiveRowsOf(s))
  BY ConcatKept
<1>2. Pos(q, CallRowsOf(s)) \subseteq Pos(q \o w, CallRowsOf(s))
  BY ConcatPos
<1>3. ASSUME NEW j \in Pos(q, DecisiveRowsOf(s)), NEW k \in Pos(q \o w, CallRowsOf(s + 1))
      PROVE  j < k
  <2>1. k \in 1..Len(q \o w) /\ k \in Nat /\ j \in Nat /\ j <= Len(q) /\ Len(q) \in Nat
    BY DEF Pos
  <2>2. CASE k <= Len(q)
    <3>1. k \in Pos(q, CallRowsOf(s + 1))
      BY <2>1, <2>2, ConcatPos
    <3>2. QED
      BY <3>1 DEF OrderIn
  <2>3. QED
    BY <2>1, <2>2
<1>4. QED
  BY <1>1, <1>2, <1>3 DEF OrderIn

\* A decision on a stage that was called, while the next one was not.
LEMMA OrderExtended ==
  ASSUME NEW q \in Seq(RowSet), NEW w \in Seq(RowSet), NEW s, OrderIn(q, s),
         Has(q, CallRowsOf(s)), ~Has(q, CallRowsOf(s + 1)), ~Has(w, CallRowsOf(s + 1))
  PROVE  OrderIn(q \o w, s)
<1>1. PICK i \in Pos(q, CallRowsOf(s)) : TRUE
  BY DEF Has
<1>2. i \in Pos(q \o w, CallRowsOf(s)) /\ i \in Nat /\ i <= Len(q) /\ Len(q) \in Nat
  BY ConcatPos DEF Pos
<1>3. Pos(q \o w, CallRowsOf(s + 1)) = {}
  BY ConcatPos DEF Has
<1>4. ASSUME NEW j \in Pos(q \o w, DecisiveRowsOf(s))
      PROVE  \E k \in Pos(q \o w, CallRowsOf(s)) : k < j
  <2>1. j \in 1..Len(q \o w) /\ j \in Nat
    BY DEF Pos
  <2>2. CASE j <= Len(q)
    <3>1. j \in Pos(q, DecisiveRowsOf(s))
      BY <2>1, <2>2, ConcatPos
    <3>2. PICK k \in Pos(q, CallRowsOf(s)) : k < j
      BY <3>1 DEF OrderIn
    <3>3. QED
      BY <3>2, ConcatPos
  <2>3. CASE ~(j <= Len(q))
    BY <1>2, <2>1, <2>3
  <2>4. QED
    BY <2>2, <2>3
<1>5. QED
  BY <1>3, <1>4 DEF OrderIn

LEMMA JudgedAtKept ==
  ASSUME NEW q \in Seq(RowSet), NEW w \in Seq(RowSet), NEW i \in 1..Len(q), JudgedAt(q, i)
  PROVE  JudgedAt(q \o w, i) /\ (q \o w)[i] = q[i]
<1>1. (q \o w)[i] = q[i] /\ i \in Nat /\ i <= Len(q) /\ Len(q) \in Nat
  OBVIOUS
<1> DEFINE S == OutputRowsOf(q[i].stage)
<1>2. PICK j \in Pos(q, S) :
        /\ j < i /\ q[j].attempt = q[i].attempt
        /\ \A k \in Pos(q, S) : k < i => k <= j
  BY DEF JudgedAt
<1> HIDE DEF S
<1>3. j \in Pos(q \o w, S) /\ (q \o w)[j] = q[j]
  BY ConcatPos DEF Pos
<1>4. ASSUME NEW k \in Pos(q \o w, S), k < i
      PROVE  k <= j
  <2>1. k \in 1..Len(q \o w) /\ k <= Len(q)
    BY <1>1, <1>4 DEF Pos
  <2>2. k \in Pos(q, S)
    BY <2>1, ConcatPos
  <2>3. QED
    BY <1>2, <1>4, <2>2
<1>5. QED
  BY <1>1, <1>2, <1>3, <1>4 DEF JudgedAt, S

LEMMA JudgedKept ==
  ASSUME NEW q \in Seq(RowSet), NEW w \in Seq(RowSet), JudgedIn(q),
         \A j \in 1..Len(w) : w[j].event_type = "evaluation" /\ w[j].judged =>
           JudgedAt(q \o w, Len(q) + j)
  PROVE  JudgedIn(q \o w)
<1>1. Len(q) \in Nat /\ Len(w) \in Nat /\ Len(q \o w) = Len(q) + Len(w)
  OBVIOUS
<1>2. ASSUME NEW i \in 1..Len(q \o w), (q \o w)[i].event_type = "evaluation", (q \o w)[i].judged
      PROVE  JudgedAt(q \o w, i)
  <2>1. CASE i <= Len(q)
    <3>1. i \in 1..Len(q) /\ (q \o w)[i] = q[i]
      BY <1>1, <2>1
    <3>2. JudgedAt(q, i)
      BY <1>2, <3>1 DEF JudgedIn
    <3>3. QED
      BY <3>1, <3>2, JudgedAtKept
  <2>2. CASE ~(i <= Len(q))
    <3>1. i - Len(q) \in 1..Len(w) /\ i = Len(q) + (i - Len(q))
      BY <1>1, <2>2
    <3>2. (q \o w)[i] = w[i - Len(q)]
      BY <3>1, ConcatPos
    <3>3. JudgedAt(q \o w, Len(q) + (i - Len(q)))
      BY <1>2, <3>1, <3>2
    <3>4. QED
      BY <3>1, <3>3
  <2>3. QED
    BY <2>1, <2>2
<1>3. QED
  BY <1>2 DEF JudgedIn

\* A judged evaluation appended behind the output it judged.
LEMMA JudgedExtended ==
  ASSUME NEW q \in Seq(RowSet), NEW w \in Seq(RowSet), Len(w) >= 1,
         ~Has(w, OutputRowsOf(w[1].stage)), Has(q, OutputRowsOf(w[1].stage)),
         LastIn(q, OutputRowsOf(w[1].stage)).attempt = w[1].attempt
  PROVE  JudgedAt(q \o w, Len(q) + 1)
<1> DEFINE S == OutputRowsOf(w[1].stage)
<1>1. Len(q) \in Nat /\ Len(w) \in Nat /\ 1 \in 1..Len(w)
  OBVIOUS
<1>2. (q \o w)[Len(q) + 1] = w[1]
  BY <1>1, ConcatPos
<1>3. Pos(q \o w, S) = Pos(q, S)
  <2> HIDE DEF S
  <2>1. ~Has(w, S)
    BY DEF S
  <2>2. QED
    BY <2>1, ConcatKept
<1>4. PICK j \in Pos(q, S) : LastIn(q, S) = q[j] /\ \A k \in Pos(q, S) : k <= j
  <2> HIDE DEF S
  <2>1. Has(q, S)
    BY DEF S
  <2>2. QED
    BY <2>1, LastFacts
<1> HIDE DEF S
<1>5. j < Len(q) + 1 /\ (q \o w)[j] = q[j]
  BY <1>1, ConcatPos DEF Pos
<1>6. (q \o w)[j].attempt = w[1].attempt
  BY <1>4, <1>5 DEF S
<1>7. QED
  BY <1>2, <1>3, <1>4, <1>5, <1>6 DEF JudgedAt, S

------------------------------------------------------------------------------
(* Each step preserves what the rows tell of the state.                    *)

\* A superstep that is stored leaves no row behind that is not of the run.
LEMMA StoredFacts ==
  ASSUME NEW node, NEW n, Stores(node, n)
  PROVE  /\ \A g : ~Superseded(g)' /\ ~Open(g)' /\ (Called(g)' <=> Ran(g)')
         /\ LastCalled' <=> ApprovedCount' = N
         /\ \A g : EvaluatedOnce(g)' => EvaluatedOnce(g)
         /\ repeated \subseteq repeated' /\ failures' = failures
<1>1. ~orphans' /\ repeated \subseteq repeated' /\ failures' = failures
  BY DEF Stores
<1>2. \A g : EvaluatedOnce(g)' => EvaluatedOnce(g)
  BY <1>1 DEF EvaluatedOnce
<1>3. QED
  BY <1>1, <1>2 DEF Superseded, Open, Called, LastCalled

LEMMA PersonaPreserves ==
  ASSUME StateInv, AuditTypeOK, RowsInv, status \notin {"complete", "aborted"},
         NEW s \in Stages, NEW ok \in BOOLEAN, NEW w \in Seq(RowSet), PersonaStep(s, ok, w)
  PROVE  RowsInv'
<1> USE DEF StateInv, BaseInv
<1>1. /\ rows \in Seq(RowSet) /\ rows' = rows \o w
      /\ CallsAppended(w, s, ok) /\ Stores(Node("persona", s), Attempt(s))
      /\ next = Node("persona", s) /\ ApprovedCount = s - 1 /\ status' = "running"
      /\ UNCHANGED <<retry_counts, evaluations, human_decisions, pending_handoff>>
      /\ OthersKept(s)
  BY DEF PersonaStep, PersonaEffect, AuditTypeOK
<1>2. /\ s \in Gated => /\ next' = Node("gate", s) /\ ApprovedCount' = s - 1
                        /\ ~Ran(s) /\ Ran(s)'
                        /\ invalid_output'[s] <=> ~ok
      /\ s \notin Gated => s = N /\ ok /\ next' = Finalize /\ ApprovedCount' = N
  BY DEF PersonaStep, PersonaEffect
<1>3. /\ \A g : /\ ~Superseded(g) /\ ~Superseded(g)' /\ ~Open(g) /\ ~Open(g)'
                /\ Called(g)' <=> Ran(g)'
                /\ g # s => (Called(g) <=> Ran(g))
                /\ EvaluatedOnce(g)' => EvaluatedOnce(g)
      /\ repeated \subseteq repeated' /\ failures' = failures /\ next.node = "persona"
      /\ next # Finalize
  <2>1. \A g : /\ ~Superseded(g) /\ ~Open(g) /\ (g # s => (Called(g) <=> Ran(g)))
    BY <1>1 DEF Superseded, Open, Called, Node, HumanReview
  <2>2. next.node = "persona" /\ next # Finalize
    BY <1>1 DEF Node, Finalize
  <2>3. QED
    BY <1>1, <2>1, <2>2, StoredFacts
<1>4. \A g \in Gated : /\ g \in Nat /\ g # N /\ g \in Stages
                       /\ g <= ApprovedCount' <=> g <= ApprovedCount
                       /\ g > ApprovedCount' <=> g > ApprovedCount
  <2>1. \A g \in Gated : g \in Nat /\ g < N /\ N \in Nat /\ g \in Stages
    BY PipelineAssumption DEF Gated, Stages
  <2>2. s \in Nat
    BY Bounds
  <2>3. CASE s \in Gated
    BY <1>1, <1>2, <2>1, <2>2, <2>3
  <2>4. CASE s \notin Gated
    <3>1. ApprovedCount = N - 1 /\ ApprovedCount' = N
      BY <1>1, <1>2, <2>4
    <3>2. QED
      BY <2>1, <3>1
  <2>5. QED
    BY <2>3, <2>4
<1>5. /\ \A g : ~Has(w, EvaluationRowsOf(g)) /\ ~Has(w, HumanRowsOf(g)) /\ ~Has(w, DecisiveRowsOf(g))
      /\ \A g, n : ~Has(w, EvaluationRowsAt(g, n))
      /\ \A g, v : ~Has(w, EvaluationRowsWith(g, v)) /\ ~Has(w, HumanRowsWith(g, v))
      /\ ~Has(w, EndingRows)
      /\ \A v : v \notin View!Calls => ~Has(w, RowsOfType(v))
  <2>1. \A g : ~Has(w, EvaluationRowsOf(g)) /\ ~Has(w, HumanRowsOf(g)) /\ ~Has(w, DecisiveRowsOf(g))
    BY <1>1, PersonaRows
  <2>2. \A g, n : ~Has(w, EvaluationRowsAt(g, n))
    BY <1>1, PersonaRows
  <2>3. \A g, v : ~Has(w, EvaluationRowsWith(g, v)) /\ ~Has(w, HumanRowsWith(g, v))
    BY <1>1, PersonaRows
  <2>4. ~Has(w, EndingRows)
    BY <1>1, PersonaRows
  <2>5. \A v : v \notin View!Calls => ~Has(w, RowsOfType(v))
    BY <1>1, PersonaRows
  <2>6. QED
    BY <2>1, <2>2, <2>3, <2>4, <2>5
<1>6. \A S : ~Has(w, S) =>
        /\ LastIn(rows', S) = LastIn(rows, S) /\ Count(rows', S) = Count(rows, S)
        /\ Has(rows', S) <=> Has(rows, S)
        /\ Has(rows, S) => FirstIn(rows', S) = FirstIn(rows, S)
  BY <1>1, ConcatKept
<1>7. \A g : (Clean(g)' => Clean(g)) /\ (Paged(g)' <=> Paged(g))
  BY <1>1, <1>3 DEF Clean, Paged
<1>8. HumanInv' /\ DecisiveInv'
  <2>1. \A g \in Gated : /\ LastIn(rows', HumanRowsOf(g)) = LastIn(rows, HumanRowsOf(g))
                         /\ LastIn(rows', DecisiveRowsOf(g)) = LastIn(rows, DecisiveRowsOf(g))
    BY <1>5, <1>6
  <2>2. HumanInv'
    BY <1>1, <1>3, <2>1 DEF RowsInv, HumanInv
  <2>3. DecisiveInv'
    BY <1>1, <1>3, <1>4, <2>1 DEF RowsInv, DecisiveInv
  <2>4. QED
    BY <2>2, <2>3
<1>9. OrderInv'
  BY <1>1, <1>5, OrderKept DEF RowsInv, OrderInv
<1>10. EvaluationsInv'
  <2>1. ASSUME NEW g \in Gated
        PROVE  EvaluationsOfStage(g)'
    BY <1>1, <1>3, <1>5, <1>6, <1>7 DEF RowsInv, EvaluationsInv, EvaluationsOfStage
  <2>2. QED
    BY <2>1 DEF EvaluationsInv
<1>11. RetriesInv'
  <2>1. ASSUME NEW g \in Gated
        PROVE  RetriesOfStage(g)'
    BY <1>1, <1>5, <1>6, <1>7 DEF RowsInv, RetriesInv, RetriesOfStage
  <2>2. QED
    BY <2>1 DEF RetriesInv
<1>12. JudgedInv'
  <2>1. \A j \in 1..Len(w) : w[j].event_type # "evaluation"
    BY <1>1 DEF CallsAppended, View!Calls
  <2>2. JudgedIn(rows')
    BY <1>1, <2>1, JudgedKept DEF RowsInv, JudgedInv
  <2>3. Has(rows', RowsOfType("escalation")) <=> Has(rows, RowsOfType("escalation"))
    BY <1>5, <1>6 DEF View!Calls
  <2>4. QED
    BY <1>3, <1>7, <2>2, <2>3 DEF RowsInv, JudgedInv
<1>13. EndingInv'
  <2>1. {"run_started", "run_completed", "run_aborted"} \intersect View!Calls = {}
    BY DEF View!Calls
  <2>2. \A t \in {"run_started", "run_completed", "run_aborted"} :
          Has(rows', RowsOfType(t)) <=> Has(rows, RowsOfType(t))
    BY <1>5, <1>6, <2>1
  <2>3. QED
    BY <1>1, <1>3, <2>2 DEF RowsInv, EndingInv
<1>14. ASSUME NEW g \in Gated
       PROVE  CallsOfStage(g)'
  <2>1. CASE g # s
    <3>1. \A n : ~Has(w, CallRowsAt(g, n)) /\ ~Has(w, OutputRowsAt(g, n))
      BY <1>1, <2>1, PersonaRows
    <3>2. \A n : /\ Has(rows', CallRowsAt(g, n)) <=> Has(rows, CallRowsAt(g, n))
                 /\ Has(rows', OutputRowsAt(g, n)) <=> Has(rows, OutputRowsAt(g, n))
      BY <1>6, <3>1
    <3>3. /\ next' # Node("gate", g) /\ (Ran(g)' <=> Ran(g)) /\ (Called(g)' <=> Called(g))
          /\ invalid_output'[g] = invalid_output[g]
      BY <1>1, <1>3, <2>1 DEF OthersKept
    <3>4. QED
      BY <1>1, <1>3, <3>2, <3>3 DEF RowsInv, CallsInv, CallsOfStage
  <2>2. CASE g = s
    <3>1. /\ Attempt(s) = retry_counts[s] + 1 /\ retry_counts[s] \in Nat /\ Attempt(s) \in Numbers
          /\ Numbers \subseteq Nat
      BY <2>2, AttemptFacts, Bounds DEF Numbers
    <3>2. \A n : /\ Has(rows', CallRowsAt(s, n)) <=> Has(rows, CallRowsAt(s, n)) \/ n = Attempt(s)
                 /\ Has(rows', OutputRowsAt(s, n)) <=>
                      Has(rows, OutputRowsAt(s, n)) \/ (ok /\ n = Attempt(s))
      BY <1>1, PersonaRows, ConcatPos
    <3>3. ~Ran(s) /\ Ran(s)' /\ Called(s)' /\ (invalid_output'[s] <=> ~ok)
      BY <1>2, <1>3, <2>2
    <3>4. \A n \in Numbers :
            /\ 1 <= n /\ n <= retry_counts[s] => Has(rows, CallRowsAt(s, n))
            /\ Has(rows, CallRowsAt(s, n)) =>
                 1 <= n /\ n <= IF Called(s) THEN retry_counts[s] + 1 ELSE retry_counts[s]
      BY <2>2, <3>3 DEF RowsInv, CallsInv, CallsOfStage
    <3>5. \A n \in Numbers : Has(rows', CallRowsAt(s, n)) <=> 1 <= n /\ n <= retry_counts'[s] + 1
      <4>1. retry_counts'[s] = retry_counts[s]
        BY <1>1
      <4>2. \A n \in Numbers : 1 <= n /\ n <= retry_counts[s] + 1 <=>
                                 (1 <= n /\ n <= retry_counts[s]) \/ n = retry_counts[s] + 1
        BY <3>1
      <4>3. \A n \in Numbers : Has(rows, CallRowsAt(s, n)) => 1 <= n /\ n <= retry_counts[s] + 1
        BY <3>1, <3>4
      <4>4. QED
        BY <3>1, <3>2, <3>4, <4>1, <4>2, <4>3
    <3>6. ASSUME Has(rows, OutputRowsAt(s, Attempt(s)))
          PROVE  <<Node("persona", s), retry_counts'[s] + 1>> \in repeated'
      <4>1. OutputRowsAt(s, Attempt(s)) \subseteq CallRowsAt(s, Attempt(s))
        BY DEF OutputRowsAt, CallRowsAt, View!Calls
      <4>2. Has(rows, CallRowsAt(s, Attempt(s)))
        BY <3>6, <4>1 DEF Has, Pos
      <4>3. Called(s)
        BY <3>1, <3>4, <4>2
      <4>4. orphans
        BY <3>3, <4>3 DEF Called
      <4>5. QED
        BY <1>1, <3>1, <4>4 DEF Stores
    <3>7. /\ ~invalid_output'[s] => Has(rows', OutputRowsAt(s, retry_counts'[s] + 1))
          /\ Has(rows', OutputRowsAt(s, retry_counts'[s] + 1)) =>
               ~invalid_output'[s] \/ <<Node("persona", s), retry_counts'[s] + 1>> \in repeated'
      BY <1>1, <3>1, <3>2, <3>3, <3>6
    <3>8. ASSUME ~invalid_output'[s]
          PROVE  Has(rows', OutputRowsOf(s)) /\ LastIn(rows', OutputRowsOf(s)).attempt = retry_counts'[s] + 1
      <4>1. ok /\ Has(w, OutputRowsOf(s)) /\ LastIn(w, OutputRowsOf(s)).attempt = Attempt(s)
        BY <1>1, <3>3, <3>8, PersonaRows
      <4>2. Has(rows', OutputRowsOf(s)) /\ LastIn(rows', OutputRowsOf(s)) = LastIn(w, OutputRowsOf(s))
        BY <1>1, <4>1, ConcatPos, ConcatLast
      <4>3. QED
        BY <1>1, <3>1, <4>1, <4>2
    <3>9. QED
      BY <2>2, <3>3, <3>5, <3>7, <3>8 DEF CallsOfStage
  <2>3. QED
    BY <2>1, <2>2
<1>15. /\ ApprovedCount' = N => Has(rows', CallRowsOf(N)) /\ Has(rows', OutputRowsOf(N))
       /\ Has(rows', CallRowsOf(N)) \/ Has(rows', OutputRowsOf(N)) => LastCalled'
  <2>1. s \in Nat /\ s <= N /\ N \in Nat
    BY PipelineAssumption DEF Stages
  <2>2. CASE s \in Gated
    <3>1. s # N /\ ApprovedCount # N /\ ApprovedCount' # N /\ next # Node("persona", N)
      BY <1>1, <1>2, <1>4, <2>1, <2>2 DEF Node
    <3>2. ~Has(rows, CallRowsOf(N)) /\ ~Has(rows, OutputRowsOf(N))
      BY <3>1 DEF RowsInv, CallsInv, LastCalled
    <3>3. ~Has(w, CallRowsOf(N)) /\ ~Has(w, OutputRowsOf(N))
      BY <1>1, <3>1, PersonaRows
    <3>4. QED
      BY <1>6, <3>1, <3>2, <3>3
  <2>3. CASE s \notin Gated
    <3>1. s = N /\ ok /\ ApprovedCount' = N
      BY <1>2, <2>3
    <3>2. Has(w, CallRowsOf(N)) /\ Has(w, OutputRowsOf(N))
      BY <1>1, <3>1, PersonaRows
    <3>3. QED
      BY <1>1, <3>1, <3>2, ConcatPos DEF LastCalled
  <2>4. QED
    BY <2>2, <2>3
<1>16. CallsInv'
  BY <1>14, <1>15 DEF CallsInv
<1>17. QED
  BY <1>8, <1>9, <1>10, <1>11, <1>12, <1>13, <1>16 DEF RowsInv

LEMMA HasCount ==
  ASSUME NEW X, NEW q \in Seq(X), NEW S
  PROVE  Count(q, S) \in Nat /\ (Has(q, S) <=> Count(q, S) > 0)
BY PosFacts, FS_EmptySet DEF Has, Count

\* A stage that has run was called; the one after it was not.
LEMMA CalledOnce ==
  ASSUME StateInv, AuditTypeOK, CallsInv, NEW s \in Gated, ApprovedCount = s - 1, Ran(s),
         s + 1 \in Gated => ~Ran(s + 1), next # Node("persona", s + 1)
  PROVE  Has(rows, CallRowsOf(s)) /\ ~Has(rows, CallRowsOf(s + 1))
<1> USE DEF StateInv, BaseInv
<1>1. /\ s \in Nat /\ s < N /\ N \in Nat /\ retry_counts[s] \in Nat
      /\ retry_counts[s] + 1 \in Numbers
  <2>1. Attempt(s) \in Numbers /\ Attempt(s) = retry_counts[s] + 1 /\ retry_counts[s] \in Nat
    BY AttemptFacts, Bounds
  <2>2. QED
    BY <2>1, PipelineAssumption DEF Gated
<1>2. Has(rows, CallRowsAt(s, retry_counts[s] + 1))
  <2>1. CallsOfStage(s)
    BY DEF CallsInv
  <2>2. 1 <= retry_counts[s] + 1
    BY <1>1
  <2>3. QED
    BY <1>1, <2>1, <2>2 DEF CallsOfStage
<1>3. Has(rows, CallRowsOf(s))
  BY <1>2 DEF Has, Pos, CallRowsAt, CallRowsOf
<1>4. CASE s + 1 \in Gated
  <2>1. s + 1 > ApprovedCount + 1 /\ ~Called(s + 1)
    BY <1>1, <1>4 DEF Called
  <2>2. retry_counts[s + 1] = 0
    BY <1>4, <2>1 DEF HistoryInv
  <2>3. \A n \in Numbers : ~(1 <= n /\ n <= 0)
    BY DEF Numbers
  <2>4. \A n \in Numbers : ~Has(rows, CallRowsAt(s + 1, n))
    BY <1>4, <2>1, <2>2, <2>3 DEF CallsInv, CallsOfStage
  <2>5. \A r \in CallRowsOf(s + 1) : r.attempt \in Numbers /\ r \in CallRowsAt(s + 1, r.attempt)
    BY DEF CallRowsOf, CallRowsAt, RowSet, RowsOf
  <2>6. QED
    BY <1>3, <2>4, <2>5 DEF Has, Pos
<1>5. CASE s + 1 \notin Gated
  <2>1. s + 1 = N
    BY <1>1, <1>5 DEF Gated
  <2>2. ApprovedCount # N
    BY <1>1
  <2>3. QED
    BY <1>3, <2>1, <2>2 DEF CallsInv, LastCalled
<1>6. QED
  BY <1>4, <1>5

LEMMA GatePreserves ==
  ASSUME StateInv, AuditTypeOK, RowsInv, status \notin {"complete", "aborted"},
         NEW s \in Gated, NEW outcome, NEW w \in Seq(RowSet), GateStep(s, outcome, w)
  PROVE  RowsInv'
<1> USE DEF StateInv, BaseInv
<1>1. /\ rows \in Seq(RowSet) /\ rows' = rows \o w
      /\ EvaluationAppended(w, s, outcome) /\ OthersKept(s)
      /\ Stores(Node("gate", s), Attempt(s))
      /\ orphans => Decided
      /\ next = Node("gate", s) /\ ApprovedCount = s - 1 /\ Ran(s)
      /\ outcome.verdict \in Verdicts
      /\ invalid_output'[s] = invalid_output[s] /\ human_decisions'[s] = human_decisions[s]
      /\ outcome.judge # "deterministic" => ~invalid_output[s]
      /\ status' \in {"running", "blocked_for_human"} /\ next' # Node("gate", s)
  BY DEF GateStep, GateEffect, AuditTypeOK
<1>2. /\ evaluations'[s].attempt = retry_counts[s] + 1 /\ evaluations'[s].verdict = outcome.verdict
      /\ Attempt(s) = retry_counts[s] + 1 /\ retry_counts[s] \in Nat
      /\ s \in Nat /\ s < N /\ N \in Nat
  <2>1. evaluations'[s] = RecordOf(s, outcome)
    BY DEF GateStep, GateEffect
  <2>2. Attempt(s) = retry_counts[s] + 1 /\ retry_counts[s] \in Nat
    BY AttemptFacts, Bounds
  <2>3. s \in Nat /\ s < N /\ N \in Nat
    BY PipelineAssumption DEF Gated
  <2>4. QED
    BY <2>1, <2>2, <2>3 DEF RecordOf
<1>3. /\ outcome.verdict = "pass" =>
           ApprovedCount' = s /\ Ran(s)' /\ retry_counts'[s] = retry_counts[s]
      /\ outcome.verdict = "retry" =>
           ApprovedCount' = s - 1 /\ ~Ran(s)' /\ retry_counts'[s] = retry_counts[s] + 1
      /\ outcome.verdict = "escalate" =>
           ApprovedCount' = s - 1 /\ Ran(s)' /\ retry_counts'[s] = retry_counts[s]
      /\ outcome.verdict \in {"pass", "retry", "escalate"}
  BY DEF GateStep, GateEffect, Verdicts
<1>4. /\ evaluations[s].attempt = retry_counts[s] /\ evaluations[s].verdict # "pass"
      /\ evaluations[s].verdict = "escalate" => human_decisions[s] # "none"
      /\ human_decisions[s] # "accept_as_is"
  <2>1. s > ApprovedCount
    BY <1>1, <1>2
  <2>2. QED
    BY <1>1, <2>1 DEF HistoryInv
<1>5. /\ \A g : /\ ~Superseded(g) /\ ~Superseded(g)' /\ ~Open(g)' /\ (g # s => ~Open(g))
                /\ (Called(g) <=> Ran(g)) /\ (Called(g)' <=> Ran(g)')
                /\ Clean(g)' => Clean(g)
      /\ repeated \subseteq repeated' /\ failures' = failures
      /\ ~LastCalled /\ next # Finalize /\ next # Node("persona", s + 1)
  <2>1. \A g : ~Superseded(g) /\ (g # s => ~Open(g)) /\ (Called(g) <=> Ran(g))
    BY <1>1 DEF Superseded, Open, Called, Node, HumanReview
  <2>2. next # Finalize /\ next # Node("persona", s + 1) /\ next # Node("persona", N)
    BY <1>1 DEF Node, Finalize
  <2>3. ~LastCalled
    <3>1. ApprovedCount # N
      BY <1>1, <1>2
    <3>2. QED
      BY <2>2, <3>1 DEF LastCalled
  <2>4. Clean(s)' => Clean(s)
    <3>1. Attempt(s) \in Attempts
      BY AttemptFacts, Bounds DEF Attempts, Numbers
    <3>2. orphans => ~EvaluatedOnce(s)'
      BY <1>1, <3>1 DEF Stores, EvaluatedOnce
    <3>3. QED
      BY <1>1, <3>2, StoredFacts DEF Clean, Open
  <2>5. QED
    BY <1>1, <2>1, <2>2, <2>3, <2>4, StoredFacts DEF Clean
<1>6. \A g \in Gated : g # s =>
        /\ g \in Nat
        /\ g <= ApprovedCount' <=> g <= ApprovedCount
        /\ g > ApprovedCount' <=> g > ApprovedCount
  <2>1. \A g \in Gated : g \in Nat
    BY Bounds
  <2>2. ApprovedCount' = s \/ ApprovedCount' = s - 1
    BY <1>3
  <2>3. CASE ApprovedCount' = s
    BY <1>1, <1>2, <2>1, <2>3
  <2>4. CASE ApprovedCount' = s - 1
    BY <1>1, <1>2, <2>1, <2>4
  <2>5. QED
    BY <2>2, <2>3, <2>4
<1>7. \A S : ~Has(w, S) =>
        /\ LastIn(rows', S) = LastIn(rows, S) /\ Count(rows', S) = Count(rows, S)
        /\ Has(rows', S) <=> Has(rows, S)
        /\ Has(rows, S) => FirstIn(rows', S) = FirstIn(rows, S)
  BY <1>1, ConcatKept
<1>8. HumanInv'
  <2>1. ASSUME NEW g \in Gated
        PROVE  LastIn(rows', HumanRowsOf(g)).verdict = human_decisions'[g]
    <3>1. LastIn(rows', HumanRowsOf(g)) = LastIn(rows, HumanRowsOf(g))
      BY <1>1, <1>7, GateRows
    <3>2. human_decisions'[g] = human_decisions[g]
      BY <1>1 DEF OthersKept
    <3>3. QED
      BY <1>5, <3>1, <3>2 DEF RowsInv, HumanInv
  <2>2. QED
    BY <2>1 DEF HumanInv
<1>9. DecisiveInv'
  <2>1. ASSUME NEW g \in Gated, g # s
        PROVE  /\ LastIn(rows', DecisiveRowsOf(g)) = LastIn(rows, DecisiveRowsOf(g))
               /\ human_decisions'[g] = human_decisions[g]
    BY <1>1, <1>7, <2>1, GateRows DEF OthersKept
  <2>2. LastIn(rows', DecisiveRowsOf(s)) = w[1]
    BY <1>1, GateRows, ConcatOne
  <2>3. w[1].event_type = "evaluation" /\ w[1].verdict = outcome.verdict
    BY <1>1 DEF EvaluationAppended
  <2>4. /\ s <= ApprovedCount' => outcome.verdict = "pass"
        /\ s > ApprovedCount' => outcome.verdict \in {"retry", "escalate"}
    <3>1. CASE outcome.verdict = "pass"
      BY <1>2, <1>3, <3>1
    <3>2. CASE outcome.verdict # "pass"
      BY <1>2, <1>3, <3>2
    <3>3. QED
      BY <3>1, <3>2
  <2>5. ASSUME NEW g \in Gated
        PROVE  /\ g <= ApprovedCount' /\ human_decisions'[g] = "accept_as_is" =>
                    /\ LastIn(rows', DecisiveRowsOf(g)).event_type = "human_decision"
                    /\ LastIn(rows', DecisiveRowsOf(g)).verdict = "accept_as_is"
               /\ g <= ApprovedCount' /\ human_decisions'[g] # "accept_as_is" =>
                    /\ LastIn(rows', DecisiveRowsOf(g)).event_type = "evaluation"
                    /\ LastIn(rows', DecisiveRowsOf(g)).verdict = "pass"
               /\ g > ApprovedCount' =>
                    LastIn(rows', DecisiveRowsOf(g)).verdict \notin {"pass", "accept_as_is"}
    <3>1. CASE g # s
      BY <1>5, <1>6, <2>1, <3>1 DEF RowsInv, DecisiveInv
    <3>2. CASE g = s
      BY <1>1, <1>4, <2>2, <2>3, <2>4, <3>2
    <3>3. QED
      BY <3>1, <3>2
  <2>6. QED
    BY <2>5 DEF DecisiveInv
<1>10. OrderInv'
  <2>1. ASSUME NEW g \in Gated, g # s
        PROVE  OrderIn(rows', g)
    <3>1. ~Has(w, DecisiveRowsOf(g)) /\ OrderIn(rows, g)
      BY <1>1, <2>1, GateRows DEF RowsInv, OrderInv
    <3>2. QED
      BY <1>1, <3>1, OrderKept
  <2>2. OrderIn(rows', s)
    <3>1. s + 1 \in Gated => ~Ran(s + 1)
      BY <1>1, <1>2, RanFacts, Bounds
    <3>2. Has(rows, CallRowsOf(s)) /\ ~Has(rows, CallRowsOf(s + 1))
      BY <1>1, <1>5, <3>1, CalledOnce DEF RowsInv
    <3>3. ~Has(w, CallRowsOf(s + 1)) /\ OrderIn(rows, s)
      BY <1>1, GateRows DEF RowsInv, OrderInv
    <3>4. QED
      BY <1>1, <3>2, <3>3, OrderExtended
  <2>3. QED
    BY <2>1, <2>2 DEF OrderInv
<1>11. CallsInv'
  <2>1. \A g, n : /\ Has(rows', CallRowsAt(g, n)) <=> Has(rows, CallRowsAt(g, n))
                  /\ Has(rows', OutputRowsAt(g, n)) <=> Has(rows, OutputRowsAt(g, n))
    BY <1>1, <1>7, GateRows
  <2>2. ASSUME NEW g \in Gated
        PROVE  CallsOfStage(g)'
    <3>1. CallsOfStage(g)
      BY DEF RowsInv, CallsInv
    <3>2. CASE g # s
      BY <1>1, <1>5, <2>1, <3>1, <3>2 DEF OthersKept, CallsOfStage
    <3>3. CASE g = s
      <4>1. \A n \in Numbers : Has(rows', CallRowsAt(s, n)) <=> 1 <= n /\ n <= retry_counts[s] + 1
        BY <1>1, <1>5, <2>1, <3>1, <3>3 DEF CallsOfStage
      <4>2. /\ ~invalid_output[s] => Has(rows', OutputRowsAt(s, retry_counts[s] + 1))
            /\ Has(rows', OutputRowsAt(s, retry_counts[s] + 1)) =>
                 ~invalid_output[s] \/ <<Node("persona", s), retry_counts[s] + 1>> \in repeated'
        BY <1>1, <1>5, <2>1, <3>1, <3>3 DEF CallsOfStage
      <4>3. /\ Ran(s)' => retry_counts'[s] = retry_counts[s]
            /\ ~Ran(s)' => retry_counts'[s] = retry_counts[s] + 1
        BY <1>3
      <4>4. QED
        BY <1>1, <1>5, <3>3, <4>1, <4>2, <4>3 DEF CallsOfStage
    <3>4. QED
      BY <3>2, <3>3
  <2>3. ~Has(rows', CallRowsOf(N)) /\ ~Has(rows', OutputRowsOf(N)) /\ ApprovedCount' # N
    <3>1. ApprovedCount' = s \/ ApprovedCount' = s - 1
      BY <1>3
    <3>2. ApprovedCount' # N
      BY <1>2, <3>1
    <3>3. ~Has(rows, CallRowsOf(N)) /\ ~Has(rows, OutputRowsOf(N))
      BY <1>5 DEF RowsInv, CallsInv
    <3>4. QED
      BY <1>1, <1>7, <3>2, <3>3, GateRows
  <2>4. QED
    BY <2>2, <2>3 DEF CallsInv
<1>12. EvaluationsInv'
  <2>1. ASSUME NEW g \in Gated, g # s
        PROVE  EvaluationsOfStage(g)'
    <3>1. ~Has(w, EvaluationRowsOf(g)) /\ \A n : ~Has(w, EvaluationRowsAt(g, n))
      BY <1>1, <2>1, GateRows
    <3>2. evaluations'[g] = evaluations[g] /\ ~Open(g)
      BY <1>1, <1>5, <2>1 DEF OthersKept
    <3>3. QED
      BY <1>5, <1>7, <3>1, <3>2 DEF RowsInv, EvaluationsInv, EvaluationsOfStage
  <2>2. EvaluationsOfStage(s)'
    <3>0. EvaluationsOfStage(s)
      BY DEF RowsInv, EvaluationsInv
    <3>1. w[1].verdict = outcome.verdict
      BY <1>1 DEF EvaluationAppended
    <3>2. LastIn(rows', EvaluationRowsAt(s, Attempt(s))) = w[1]
      BY <1>1, GateRows, ConcatOne
    <3>3. /\ LastIn(rows', EvaluationRowsOf(s)) = w[1] /\ Has(rows', EvaluationRowsOf(s))
          /\ Count(rows', EvaluationRowsOf(s)) = Count(rows, EvaluationRowsOf(s)) + 1
          /\ Count(rows, EvaluationRowsOf(s)) \in Nat
          /\ ~Has(rows, EvaluationRowsOf(s)) => FirstIn(rows', EvaluationRowsOf(s)) = w[1]
          /\ Has(rows, EvaluationRowsOf(s)) =>
               FirstIn(rows', EvaluationRowsOf(s)) = FirstIn(rows, EvaluationRowsOf(s))
      BY <1>1, GateRows, ConcatOne
    <3>4. Count(rows', EvaluationRowsOf(s)) >= evaluations'[s].attempt
      <4>1. Count(rows, EvaluationRowsOf(s)) >= retry_counts[s]
        BY <1>4, <3>0 DEF EvaluationsOfStage
      <4>2. QED
        BY <1>2, <3>3, <4>1
    <3>5. ASSUME Clean(s)'
          PROVE  /\ Count(rows', EvaluationRowsOf(s)) = evaluations'[s].attempt
                 /\ FirstIn(rows', EvaluationRowsOf(s)).verdict = "pass"
                      <=> evaluations'[s].attempt = 1 /\ evaluations'[s].verdict = "pass"
      <4>1. Clean(s)
        BY <1>5, <3>5
      <4>2. Count(rows, EvaluationRowsOf(s)) = retry_counts[s]
        BY <1>4, <3>0, <4>1 DEF EvaluationsOfStage
      <4>3. Has(rows, EvaluationRowsOf(s)) <=> retry_counts[s] > 0
        BY <1>1, <4>2, HasCount
      <4>4. Has(rows, EvaluationRowsOf(s)) => FirstIn(rows, EvaluationRowsOf(s)).verdict # "pass"
        BY <1>4, <3>0, <4>1 DEF EvaluationsOfStage
      <4>5. CASE Has(rows, EvaluationRowsOf(s))
        <5>1. evaluations'[s].attempt # 1
          BY <1>2, <4>3, <4>5
        <5>2. QED
          BY <1>2, <3>3, <4>2, <4>4, <4>5, <5>1
      <4>6. CASE ~Has(rows, EvaluationRowsOf(s))
        <5>1. evaluations'[s].attempt = 1
          BY <1>2, <4>3, <4>6
        <5>2. QED
          BY <1>2, <3>1, <3>3, <4>2, <4>6, <5>1
      <4>7. QED
        BY <4>5, <4>6
    <3>6. QED
      BY <1>2, <3>1, <3>2, <3>3, <3>4, <3>5 DEF EvaluationsOfStage
  <2>3. QED
    BY <2>1, <2>2 DEF EvaluationsInv
<1>13. RetriesInv'
  <2>0. \A g : Count(rows', HumanRowsWith(g, "retry")) = Count(rows, HumanRowsWith(g, "retry"))
    BY <1>1, <1>7, GateRows
  <2>1. ASSUME NEW g \in Gated, g # s
        PROVE  RetriesOfStage(g)'
    <3>1. \A v : ~Has(w, EvaluationRowsWith(g, v))
      BY <1>1, <2>1, GateRows
    <3>2. /\ evaluations'[g] = evaluations[g] /\ human_decisions'[g] = human_decisions[g]
          /\ retry_counts'[g] = retry_counts[g]
      BY <1>1, <2>1 DEF OthersKept
    <3>3. QED
      BY <1>5, <1>7, <2>0, <3>1, <3>2 DEF RowsInv, RetriesInv, RetriesOfStage, Paged
  <2>2. RetriesOfStage(s)'
    <3>1. \A v : Has(rows', EvaluationRowsWith(s, v)) <=>
                   Has(rows, EvaluationRowsWith(s, v)) \/ v = outcome.verdict
      <4>1. ASSUME NEW v
            PROVE  Has(rows', EvaluationRowsWith(s, v)) <=>
                     Has(rows, EvaluationRowsWith(s, v)) \/ v = outcome.verdict
        <5>1. CASE v = outcome.verdict
          <6>1. Pos(w, EvaluationRowsWith(s, v)) = {1}
            BY <1>1, <5>1, GateRows
          <6>2. QED
            BY <1>1, <5>1, <6>1, ConcatOne
        <5>2. CASE v # outcome.verdict
          BY <1>1, <1>7, <5>2, GateRows
        <5>3. QED
          BY <5>1, <5>2
      <4>2. QED
        BY <4>1
    <3>2. /\ outcome.verdict = "retry" =>
               Count(rows', EvaluationRowsWith(s, "retry")) = Count(rows, EvaluationRowsWith(s, "retry")) + 1
          /\ outcome.verdict # "retry" =>
               Count(rows', EvaluationRowsWith(s, "retry")) = Count(rows, EvaluationRowsWith(s, "retry"))
      <4>1. CASE outcome.verdict = "retry"
        <5>1. Pos(w, EvaluationRowsWith(s, "retry")) = {1}
          BY <1>1, <4>1, GateRows
        <5>2. QED
          BY <1>1, <4>1, <5>1, ConcatOne
      <4>2. CASE outcome.verdict # "retry"
        BY <1>1, <1>7, <4>2, GateRows
      <4>3. QED
        BY <4>1, <4>2
    <3>3. /\ human_decisions[s] # "none" => Has(rows, EvaluationRowsWith(s, "escalate"))
          /\ Clean(s) /\ Has(rows, EvaluationRowsWith(s, "escalate")) => human_decisions[s] # "none"
          /\ human_decisions[s] = "none" =>
               /\ retry_counts[s] > 0 => Has(rows, EvaluationRowsWith(s, "retry"))
               /\ Clean(s) /\ Has(rows, EvaluationRowsWith(s, "retry")) => retry_counts[s] > 0
          /\ retry_counts[s] <=
               Count(rows, EvaluationRowsWith(s, "retry")) + Count(rows, HumanRowsWith(s, "retry"))
      BY <1>4 DEF RowsInv, RetriesInv, RetriesOfStage, Paged
    <3>4. /\ Count(rows, EvaluationRowsWith(s, "retry")) \in Nat
          /\ Count(rows, HumanRowsWith(s, "retry")) \in Nat
      BY <1>1, HasCount
    <3>5. Paged(s)' <=> human_decisions[s] # "none" \/ outcome.verdict = "escalate"
      BY <1>1, <1>2 DEF Paged
    <3>6. /\ Paged(s)' => Has(rows', EvaluationRowsWith(s, "escalate"))
          /\ Clean(s)' /\ Has(rows', EvaluationRowsWith(s, "escalate")) => Paged(s)'
      BY <1>5, <3>1, <3>3, <3>5
    <3>7. /\ outcome.verdict = "retry" => retry_counts'[s] = retry_counts[s] + 1
          /\ outcome.verdict # "retry" => retry_counts'[s] = retry_counts[s]
      BY <1>3
    <3>8. human_decisions[s] = "none" =>
            /\ retry_counts'[s] > 0 => Has(rows', EvaluationRowsWith(s, "retry"))
            /\ Clean(s)' /\ Has(rows', EvaluationRowsWith(s, "retry")) => retry_counts'[s] > 0
      <4>1. CASE outcome.verdict = "retry"
        BY <1>2, <3>1, <3>7, <4>1
      <4>2. CASE outcome.verdict # "retry"
        BY <1>5, <3>1, <3>3, <3>7, <4>2
      <4>3. QED
        BY <4>1, <4>2
    <3>9. retry_counts'[s] <=
            Count(rows', EvaluationRowsWith(s, "retry")) + Count(rows', HumanRowsWith(s, "retry"))
      <4>1. CASE outcome.verdict = "retry"
        BY <1>2, <2>0, <3>2, <3>3, <3>4, <3>7, <4>1
      <4>2. CASE outcome.verdict # "retry"
        BY <1>2, <2>0, <3>2, <3>3, <3>4, <3>7, <4>2
      <4>3. QED
        BY <4>1, <4>2
    <3>10. QED
      BY <1>1, <3>6, <3>8, <3>9 DEF RetriesOfStage
  <2>3. QED
    BY <2>1, <2>2 DEF RetriesInv
<1>14. JudgedInv'
  <2>1. ASSUME NEW j \in 1..Len(w), w[j].event_type = "evaluation", w[j].judged
        PROVE  JudgedAt(rows \o w, Len(rows) + j)
    <3>1. /\ j = 1 /\ w[1].stage = s /\ w[1].attempt = Attempt(s) /\ Len(w) >= 1
          /\ outcome.judge # "deterministic"
      BY <1>1, <2>1 DEF EvaluationAppended
    <3>2. Has(rows, OutputRowsOf(s)) /\ LastIn(rows, OutputRowsOf(s)).attempt = Attempt(s)
      BY <1>1, <1>2, <3>1 DEF RowsInv, CallsInv, CallsOfStage
    <3>3. ~Has(w, OutputRowsOf(s))
      BY <1>1, GateRows
    <3>4. QED
      BY <1>1, <3>1, <3>2, <3>3, JudgedExtended
  <2>2. JudgedIn(rows')
    BY <1>1, <2>1, JudgedKept DEF RowsInv, JudgedInv
  <2>3. Has(rows', RowsOfType("escalation")) <=>
          Has(rows, RowsOfType("escalation")) \/ outcome.verdict = "escalate"
    BY <1>1, GateRows, ConcatPos
  <2>4. \A g \in Gated : Paged(g)' <=> Paged(g) \/ (g = s /\ outcome.verdict = "escalate")
    <3>1. \A g \in Gated : g # s => (Paged(g)' <=> Paged(g))
      BY <1>1 DEF OthersKept, Paged
    <3>2. /\ Paged(s)' <=> human_decisions[s] # "none" \/ outcome.verdict = "escalate"
          /\ Paged(s) <=> human_decisions[s] # "none"
      BY <1>1, <1>2, <1>4 DEF Paged
    <3>3. QED
      BY <3>1, <3>2
  <2>5. orphans => \E g \in Gated : Paged(g)
    BY <1>1 DEF Decided, Paged
  <2>6. QED
    BY <2>2, <2>3, <2>4, <2>5 DEF RowsInv, JudgedInv
<1>15. EndingInv'
  <2>1. \A t \in {"run_started", "run_completed", "run_aborted"} :
          Has(rows', RowsOfType(t)) <=> Has(rows, RowsOfType(t))
    <3>1. \A t \in {"run_started", "run_completed", "run_aborted"} : ~Has(w, RowsOfType(t))
      BY <1>1, GateRows
    <3>2. QED
      BY <1>7, <3>1
  <2>2. QED
    BY <1>1, <1>5, <2>1 DEF RowsInv, EndingInv
<1>16. QED
  BY <1>8, <1>9, <1>10, <1>11, <1>12, <1>13, <1>14, <1>15 DEF RowsInv

LEMMA ReviewPreserves ==
  ASSUME StateInv, AuditTypeOK, RowsInv, status \notin {"complete", "aborted"},
         NEW s \in Gated, NEW action \in Actions, NEW w \in Seq(RowSet), ReviewStep(s, action, w)
  PROVE  RowsInv'
<1> USE DEF StateInv, BaseInv
<1>1. /\ rows \in Seq(RowSet) /\ rows' = rows \o w
      /\ DecisionAppended(w, s, action) /\ OthersKept(s)
      /\ Stores(HumanReview, Attempt(0))
      /\ next = HumanReview /\ ApprovedCount = s - 1 /\ Ran(s) /\ pending_handoff = s
      /\ evaluations'[s] = evaluations[s] /\ evaluations[s].verdict = "escalate"
      /\ invalid_output'[s] = invalid_output[s] /\ human_decisions'[s] = action
      /\ status' = IF action = "abort" THEN "aborted" ELSE "running"
      /\ next' # Node("gate", s)
  BY DEF ReviewStep, ReviewEffect, AuditTypeOK
<1>2. s \in Nat /\ s < N /\ N \in Nat /\ retry_counts[s] \in Nat
  <2>1. retry_counts[s] \in Nat
    BY AttemptFacts, Bounds
  <2>2. QED
    BY <2>1, PipelineAssumption DEF Gated
<1>3. /\ action = "accept_as_is" =>
           ApprovedCount' = s /\ Ran(s)' /\ retry_counts'[s] = retry_counts[s]
      /\ action = "retry" =>
           ApprovedCount' = s - 1 /\ ~Ran(s)' /\ retry_counts'[s] = retry_counts[s] + 1
      /\ action = "abort" =>
           ApprovedCount' = s - 1 /\ Ran(s)' /\ retry_counts'[s] = retry_counts[s]
      /\ action \in {"accept_as_is", "retry", "abort"}
  BY DEF ReviewStep, ReviewEffect, Actions
<1>4. /\ \A g : /\ (g # s => ~Superseded(g)) /\ ~Superseded(g)' /\ ~Open(g) /\ ~Open(g)'
                /\ (Called(g) <=> Ran(g)) /\ (Called(g)' <=> Ran(g)')
                /\ Clean(g)' => Clean(g)
      /\ repeated \subseteq repeated' /\ failures' = failures
      /\ ~LastCalled /\ next # Finalize /\ next.node # "gate" /\ next # Node("persona", s + 1)
  <2>1. \A g : /\ (g # s => ~Superseded(g)) /\ ~Open(g) /\ (Called(g) <=> Ran(g))
    BY <1>1 DEF Superseded, Open, Called, Node, HumanReview
  <2>2. next # Finalize /\ next.node # "gate" /\ \A g : next # Node("persona", g)
    BY <1>1 DEF Node, HumanReview, Finalize
  <2>3. ~LastCalled
    <3>1. ApprovedCount # N
      BY <1>1, <1>2
    <3>2. QED
      BY <2>2, <3>1 DEF LastCalled
  <2>4. QED
    BY <1>1, <2>1, <2>2, <2>3, StoredFacts DEF Clean
<1>5. \A g \in Gated : g # s =>
        /\ g \in Nat
        /\ g <= ApprovedCount' <=> g <= ApprovedCount
        /\ g > ApprovedCount' <=> g > ApprovedCount
  <2>1. \A g \in Gated : g \in Nat
    BY Bounds
  <2>2. ApprovedCount' = s \/ ApprovedCount' = s - 1
    BY <1>3
  <2>3. CASE ApprovedCount' = s
    BY <1>1, <1>2, <2>1, <2>3
  <2>4. CASE ApprovedCount' = s - 1
    BY <1>1, <1>2, <2>1, <2>4
  <2>5. QED
    BY <2>2, <2>3, <2>4
<1>6. \A S : ~Has(w, S) =>
        /\ LastIn(rows', S) = LastIn(rows, S) /\ Count(rows', S) = Count(rows, S)
        /\ Has(rows', S) <=> Has(rows, S)
        /\ Has(rows, S) => FirstIn(rows', S) = FirstIn(rows, S)
  BY <1>1, ConcatKept
<1>7. w[1].event_type = "human_decision" /\ w[1].verdict = action
  BY <1>1 DEF DecisionAppended
<1>8. HumanInv'
  <2>1. ASSUME NEW g \in Gated
        PROVE  LastIn(rows', HumanRowsOf(g)).verdict = human_decisions'[g]
    <3>1. CASE g # s
      <4>1. LastIn(rows', HumanRowsOf(g)) = LastIn(rows, HumanRowsOf(g))
        BY <1>1, <1>6, <3>1, ReviewRows
      <4>2. human_decisions'[g] = human_decisions[g]
        BY <1>1, <3>1 DEF OthersKept
      <4>3. QED
        BY <1>4, <3>1, <4>1, <4>2 DEF RowsInv, HumanInv
    <3>2. CASE g = s
      <4>1. LastIn(rows', HumanRowsOf(s)) = w[1]
        <5>1. Pos(w, HumanRowsOf(s)) = {1}
          BY <1>1, ReviewRows
        <5>2. QED
          BY <1>1, <5>1, ConcatOne
      <4>2. QED
        BY <1>1, <1>7, <3>2, <4>1
    <3>3. QED
      BY <3>1, <3>2
  <2>2. QED
    BY <2>1 DEF HumanInv
<1>9. DecisiveInv'
  <2>1. ASSUME NEW g \in Gated, g # s
        PROVE  /\ LastIn(rows', DecisiveRowsOf(g)) = LastIn(rows, DecisiveRowsOf(g))
               /\ human_decisions'[g] = human_decisions[g]
    BY <1>1, <1>6, <2>1, ReviewRows DEF OthersKept
  <2>2. LastIn(rows', DecisiveRowsOf(s)) = w[1]
    <3>1. Pos(w, DecisiveRowsOf(s)) = {1}
      BY <1>1, ReviewRows
    <3>2. QED
      BY <1>1, <3>1, ConcatOne
  <2>3. /\ s <= ApprovedCount' => action = "accept_as_is"
        /\ s > ApprovedCount' => action \in {"retry", "abort"}
    <3>1. CASE action = "accept_as_is"
      BY <1>2, <1>3, <3>1
    <3>2. CASE action # "accept_as_is"
      BY <1>2, <1>3, <3>2
    <3>3. QED
      BY <3>1, <3>2
  <2>4. ASSUME NEW g \in Gated
        PROVE  /\ g <= ApprovedCount' /\ human_decisions'[g] = "accept_as_is" =>
                    /\ LastIn(rows', DecisiveRowsOf(g)).event_type = "human_decision"
                    /\ LastIn(rows', DecisiveRowsOf(g)).verdict = "accept_as_is"
               /\ g <= ApprovedCount' /\ human_decisions'[g] # "accept_as_is" =>
                    /\ LastIn(rows', DecisiveRowsOf(g)).event_type = "evaluation"
                    /\ LastIn(rows', DecisiveRowsOf(g)).verdict = "pass"
               /\ g > ApprovedCount' =>
                    LastIn(rows', DecisiveRowsOf(g)).verdict \notin {"pass", "accept_as_is"}
    <3>1. CASE g # s
      BY <1>4, <1>5, <2>1, <3>1 DEF RowsInv, DecisiveInv
    <3>2. CASE g = s
      BY <1>1, <1>7, <2>2, <2>3, <3>2
    <3>3. QED
      BY <3>1, <3>2
  <2>5. QED
    BY <2>4 DEF DecisiveInv
<1>10. OrderInv'
  <2>1. ASSUME NEW g \in Gated, g # s
        PROVE  OrderIn(rows', g)
    <3>1. ~Has(w, DecisiveRowsOf(g)) /\ OrderIn(rows, g)
      BY <1>1, <2>1, ReviewRows DEF RowsInv, OrderInv
    <3>2. QED
      BY <1>1, <3>1, OrderKept
  <2>2. OrderIn(rows', s)
    <3>1. s + 1 \in Gated => ~Ran(s + 1)
      BY <1>1, <1>2, RanFacts
    <3>2. Has(rows, CallRowsOf(s)) /\ ~Has(rows, CallRowsOf(s + 1))
      BY <1>1, <1>4, <3>1, CalledOnce DEF RowsInv
    <3>3. ~Has(w, CallRowsOf(s + 1)) /\ OrderIn(rows, s)
      BY <1>1, ReviewRows DEF RowsInv, OrderInv
    <3>4. QED
      BY <1>1, <3>2, <3>3, OrderExtended
  <2>3. QED
    BY <2>1, <2>2 DEF OrderInv
<1>11. CallsInv'
  <2>1. \A g, n : /\ Has(rows', CallRowsAt(g, n)) <=> Has(rows, CallRowsAt(g, n))
                  /\ Has(rows', OutputRowsAt(g, n)) <=> Has(rows, OutputRowsAt(g, n))
    BY <1>1, <1>6, ReviewRows
  <2>2. ASSUME NEW g \in Gated
        PROVE  CallsOfStage(g)'
    <3>1. CallsOfStage(g) /\ next' # Node("gate", s)
      BY <1>1 DEF RowsInv, CallsInv
    <3>2. CASE g # s
      BY <1>1, <1>4, <2>1, <3>1, <3>2 DEF OthersKept, CallsOfStage
    <3>3. CASE g = s
      <4>1. \A n \in Numbers : Has(rows', CallRowsAt(s, n)) <=> 1 <= n /\ n <= retry_counts[s] + 1
        BY <1>1, <1>4, <2>1, <3>1, <3>3 DEF CallsOfStage
      <4>2. /\ ~invalid_output[s] => Has(rows', OutputRowsAt(s, retry_counts[s] + 1))
            /\ Has(rows', OutputRowsAt(s, retry_counts[s] + 1)) =>
                 ~invalid_output[s] \/ <<Node("persona", s), retry_counts[s] + 1>> \in repeated'
        BY <1>1, <1>4, <2>1, <3>1, <3>3 DEF CallsOfStage
      <4>3. /\ Ran(s)' => retry_counts'[s] = retry_counts[s]
            /\ ~Ran(s)' => retry_counts'[s] = retry_counts[s] + 1
        BY <1>3
      <4>4. QED
        BY <1>1, <1>4, <3>3, <4>1, <4>2, <4>3 DEF CallsOfStage
    <3>4. QED
      BY <3>2, <3>3
  <2>3. ~Has(rows', CallRowsOf(N)) /\ ~Has(rows', OutputRowsOf(N)) /\ ApprovedCount' # N
    <3>1. ApprovedCount' = s \/ ApprovedCount' = s - 1
      BY <1>3
    <3>2. ApprovedCount' # N
      BY <1>2, <3>1
    <3>3. ~Has(rows, CallRowsOf(N)) /\ ~Has(rows, OutputRowsOf(N))
      BY <1>4 DEF RowsInv, CallsInv
    <3>4. QED
      BY <1>1, <1>6, <3>2, <3>3, ReviewRows
  <2>4. QED
    BY <2>2, <2>3 DEF CallsInv
<1>12. EvaluationsInv'
  <2>1. \A g : ~Has(w, EvaluationRowsOf(g)) /\ \A n : ~Has(w, EvaluationRowsAt(g, n))
    BY <1>1, ReviewRows
  <2>2. \A g \in Gated : evaluations'[g] = evaluations[g]
    BY <1>1 DEF OthersKept
  <2>3. ASSUME NEW g \in Gated
        PROVE  EvaluationsOfStage(g)'
    BY <1>4, <1>6, <2>1, <2>2, <2>3 DEF RowsInv, EvaluationsInv, EvaluationsOfStage
  <2>4. QED
    BY <2>3 DEF EvaluationsInv
<1>13. RetriesInv'
  <2>1. ASSUME NEW g \in Gated
        PROVE  RetriesOfStage(g)'
    <3>1. \A v : ~Has(w, EvaluationRowsWith(g, v))
      BY <1>1, ReviewRows
    <3>2. CASE g # s
      <4>1. /\ evaluations'[g] = evaluations[g] /\ human_decisions'[g] = human_decisions[g]
            /\ retry_counts'[g] = retry_counts[g]
        BY <1>1, <3>2 DEF OthersKept
      <4>2. ~Has(w, HumanRowsWith(g, "retry"))
        BY <1>1, <3>2, ReviewRows
      <4>3. QED
        BY <1>4, <1>6, <3>1, <4>1, <4>2 DEF RowsInv, RetriesInv, RetriesOfStage, Paged
    <3>3. CASE g = s
      <4>1. Has(rows', EvaluationRowsWith(s, "escalate"))
        BY <1>1, <1>6, <3>1, <3>3 DEF RowsInv, RetriesInv, RetriesOfStage, Paged
      <4>2. human_decisions'[s] # "none" /\ Paged(s)'
        BY <1>1 DEF Actions, Paged
      <4>3. Count(rows', EvaluationRowsWith(s, "retry")) = Count(rows, EvaluationRowsWith(s, "retry"))
        BY <1>6, <3>1, <3>3
      <4>4. /\ Count(rows, EvaluationRowsWith(s, "retry")) \in Nat
            /\ Count(rows, HumanRowsWith(s, "retry")) \in Nat
        BY <1>1, HasCount
      <4>5. retry_counts[s] <=
              Count(rows, EvaluationRowsWith(s, "retry")) + Count(rows, HumanRowsWith(s, "retry"))
        BY DEF RowsInv, RetriesInv, RetriesOfStage
      <4>6. CASE action = "retry"
        <5>1. Pos(w, HumanRowsWith(s, "retry")) = {1}
          BY <1>1, <4>6, ReviewRows
        <5>2. Count(rows', HumanRowsWith(s, "retry")) = Count(rows, HumanRowsWith(s, "retry")) + 1
          BY <1>1, <5>1, ConcatOne
        <5>3. QED
          BY <1>2, <1>3, <3>3, <4>1, <4>2, <4>3, <4>4, <4>5, <4>6, <5>2
          DEF RetriesOfStage
      <4>7. CASE action # "retry"
        <5>1. Count(rows', HumanRowsWith(s, "retry")) = Count(rows, HumanRowsWith(s, "retry"))
          BY <1>1, <1>6, <4>7, ReviewRows
        <5>2. retry_counts'[s] = retry_counts[s]
          BY <1>3, <4>7
        <5>3. QED
          BY <1>2, <3>3, <4>1, <4>2, <4>3, <4>4, <4>5, <5>1, <5>2
          DEF RetriesOfStage
      <4>8. QED
        BY <4>6, <4>7
    <3>4. QED
      BY <3>2, <3>3
  <2>2. QED
    BY <2>1 DEF RetriesInv
<1>14. JudgedInv'
  <2>1. \A j \in 1..Len(w) : w[j].event_type # "evaluation"
    BY <1>1 DEF DecisionAppended
  <2>2. JudgedIn(rows')
    BY <1>1, <2>1, JudgedKept DEF RowsInv, JudgedInv
  <2>3. Has(rows', RowsOfType("escalation")) <=> Has(rows, RowsOfType("escalation"))
    BY <1>1, <1>6, ReviewRows
  <2>4. Paged(s) /\ Paged(s)'
    BY <1>1 DEF Paged
  <2>5. QED
    BY <2>2, <2>3, <2>4 DEF RowsInv, JudgedInv
<1>15. EndingInv'
  <2>1. \A t \in {"run_started", "run_completed"} :
          Has(rows', RowsOfType(t)) <=> Has(rows, RowsOfType(t))
    <3>1. \A t \in {"run_started", "run_completed"} : ~Has(w, RowsOfType(t))
      BY <1>1, ReviewRows
    <3>2. QED
      BY <1>6, <3>1
  <2>2. CASE action = "abort"
    <3>1. Has(w, EndingRows) /\ LastIn(w, EndingRows).event_type = "run_aborted"
      BY <1>1, <2>2, ReviewRows
    <3>2. Has(rows', EndingRows) /\ LastIn(rows', EndingRows) = LastIn(w, EndingRows)
      BY <1>1, <3>1, ConcatPos, ConcatLast
    <3>3. QED
      BY <1>1, <1>4, <2>1, <2>2, <3>1, <3>2 DEF RowsInv, EndingInv
  <2>3. CASE action # "abort"
    <3>1. Has(rows', RowsOfType("run_aborted")) <=> Has(rows, RowsOfType("run_aborted"))
      BY <1>1, <1>6, <2>3, ReviewRows
    <3>2. QED
      BY <1>1, <1>4, <2>1, <2>3, <3>1 DEF RowsInv, EndingInv
  <2>4. QED
    BY <2>2, <2>3
<1>16. QED
  BY <1>8, <1>9, <1>10, <1>11, <1>12, <1>13, <1>14, <1>15 DEF RowsInv

LEMMA StillPreserves ==
  ASSUME StateInv, AuditTypeOK, AuditTypeOK', RowsInv, status \notin {"complete", "aborted"},
         NEW w \in Seq(RowSet), StillStep(w)
  PROVE  RowsInv'
<1> USE DEF StateInv, BaseInv
<1>1. /\ rows \in Seq(RowSet) /\ rows' = rows \o w /\ failures' >= failures
      /\ failures \in Nat /\ failures' \in Nat
      /\ StillAppended(w) /\ status' # "aborted"
      /\ UNCHANGED <<retry_counts, evaluations, human_decisions, invalid_output>>
      /\ ApprovedCount' = ApprovedCount /\ repeated \subseteq repeated'
      /\ \A g \in Gated : /\ Ran(g)' <=> Ran(g)
                          /\ next' = Node("gate", g) <=> next = Node("gate", g)
      /\ \/ UNCHANGED <<next, pending_handoff>> /\ status' # "complete" /\ (orphans => orphans')
         \/ next = Finalize /\ next' = END /\ status' = "complete" /\ ~orphans'
  BY DEF StillStep, StillEffect, AuditTypeOK
<1>2. /\ orphans' => UNCHANGED <<next, pending_handoff>>
      /\ orphans /\ next # Finalize => orphans' /\ UNCHANGED <<next, pending_handoff>>
      /\ orphans /\ next = Finalize => status' = "complete" \/ (orphans' /\ next' = Finalize)
  BY <1>1
<1>3. /\ \A g \in Gated : Called(g) => Called(g)'
      /\ \A g : Open(g) => Open(g)'
      /\ \A g : Superseded(g) => Superseded(g)'
      /\ \A g : Clean(g)' => Clean(g)
      /\ LastCalled => LastCalled'
      /\ \A g : Paged(g)' <=> Paged(g)
  <2>1. \A g : /\ Node("persona", g) # Finalize /\ Node("gate", g) # Finalize
               /\ HumanReview # Finalize
    BY DEF Node, HumanReview, Finalize
  <2>2. \A g : /\ Open(g) => Open(g)'
               /\ Superseded(g) => Superseded(g)'
    BY <1>2, <2>1 DEF Open, Superseded
  <2>3. \A g : orphans /\ next = Node("persona", g) => orphans' /\ next' = Node("persona", g)
    BY <1>2, <2>1
  <2>4. \A g : EvaluatedOnce(g)' => EvaluatedOnce(g)
    BY <1>1 DEF EvaluatedOnce
  <2>5. \A g : Paged(g)' <=> Paged(g)
    BY <1>1 DEF Paged
  <2>6. QED
    BY <1>1, <2>2, <2>3, <2>4, <2>5 DEF Called, LastCalled, Clean
<1>4. /\ \A g : Has(w, CallRowsOf(g)) \/ Has(w, OutputRowsOf(g)) =>
           orphans' /\ next = Node("persona", g) /\ next' = Node("persona", g)
      /\ \A g, n : Has(w, CallRowsAt(g, n)) \/ Has(w, OutputRowsAt(g, n)) =>
           /\ orphans' /\ next = Node("persona", g) /\ next' = Node("persona", g)
           /\ n = Attempt(g)
      /\ \A g : Has(w, EvaluationRowsOf(g)) => Open(g)'
      /\ \A g, n : Has(w, EvaluationRowsAt(g, n)) => Open(g)'
      /\ \A g, v : Has(w, EvaluationRowsWith(g, v)) => Open(g)'
      /\ \A g : Has(w, HumanRowsOf(g)) => Superseded(g)'
      /\ \A g : Has(w, DecisiveRowsOf(g)) => Open(g)' \/ Superseded(g)'
      /\ Has(w, RowsOfType("escalation")) => orphans' /\ next'.node = "gate"
  <2>1. \A g : Has(w, CallRowsOf(g)) \/ Has(w, OutputRowsOf(g)) =>
           orphans' /\ next = Node("persona", g) /\ next' = Node("persona", g)
    BY <1>1, <1>2, StillRows
  <2>2. \A g, n : Has(w, CallRowsAt(g, n)) \/ Has(w, OutputRowsAt(g, n)) =>
           /\ orphans' /\ next = Node("persona", g) /\ next' = Node("persona", g)
           /\ n = Attempt(g)
    BY <1>1, <1>2, StillRows
  <2>3. /\ \A g : Has(w, EvaluationRowsOf(g)) => Open(g)'
        /\ \A g, n : Has(w, EvaluationRowsAt(g, n)) => Open(g)'
        /\ \A g, v : Has(w, EvaluationRowsWith(g, v)) => Open(g)'
    BY <1>1, <1>2, StillRows DEF Open
  <2>4. \A g : Has(w, HumanRowsOf(g)) => Superseded(g)'
    BY <1>1, <1>2, StillRows DEF Superseded
  <2>5. \A g : Has(w, DecisiveRowsOf(g)) => Open(g)' \/ Superseded(g)'
    BY <1>1, <1>2, StillRows DEF Open, Superseded
  <2>6. Has(w, RowsOfType("escalation")) => orphans' /\ next'.node = "gate"
    BY <1>1, <1>2, StillRows
  <2>7. QED
    BY <2>1, <2>2, <2>3, <2>4, <2>5, <2>6
<1>5. \A S : ~Has(w, S) =>
        /\ LastIn(rows', S) = LastIn(rows, S) /\ Count(rows', S) = Count(rows, S)
        /\ Has(rows', S) <=> Has(rows, S)
        /\ Has(rows, S) => FirstIn(rows', S) = FirstIn(rows, S)
  BY <1>1, ConcatKept
<1>6. \A S : /\ Has(rows', S) <=> Has(rows, S) \/ Has(w, S)
             /\ Count(rows, S) \in Nat /\ Count(rows', S) \in Nat
             /\ Count(rows, S) <= Count(rows', S)
  BY <1>1, ConcatPos, ConcatCount
<1>7. \A g \in Gated : /\ retry_counts[g] \in Nat /\ Attempt(g) = retry_counts[g] + 1
                       /\ g \in Stages
  BY AttemptFacts, Bounds
<1>8. HumanInv'
  BY <1>1, <1>3, <1>4, <1>5 DEF RowsInv, HumanInv
<1>9. DecisiveInv'
  <2>1. \A g \in Gated : ~Superseded(g)' /\ ~Open(g)' =>
          /\ ~Superseded(g) /\ ~Open(g)
          /\ LastIn(rows', DecisiveRowsOf(g)) = LastIn(rows, DecisiveRowsOf(g))
    BY <1>3, <1>4, <1>5
  <2>2. QED
    BY <1>1, <2>1 DEF RowsInv, DecisiveInv
<1>10. CallsInv'
  <2>1. ASSUME NEW g \in Gated
        PROVE  CallsOfStage(g)'
    <3>1. CallsOfStage(g) /\ g \in Stages
      BY <1>7 DEF RowsInv, CallsInv
    <3>2. next = Node("persona", g) => ~Ran(g) /\ next # Node("gate", g)
      <4>1. next = Node("persona", g) => (Ran(g) <=> g < g)
        BY <3>1, RanFacts
      <4>2. QED
        BY <3>1, <4>1, Bounds DEF Node
    <3>3. \A n \in Numbers :
            1 <= n /\ n <= (IF Ran(g)' THEN retry_counts'[g] + 1 ELSE retry_counts'[g])
              => Has(rows', CallRowsAt(g, n))
      BY <1>1, <1>6, <3>1 DEF CallsOfStage
    <3>4. ASSUME NEW n \in Numbers, Has(rows', CallRowsAt(g, n))
          PROVE  1 <= n /\ n <= IF Called(g)' THEN retry_counts'[g] + 1 ELSE retry_counts'[g]
      <4>1. CASE Has(rows, CallRowsAt(g, n))
        <5>1. 1 <= n /\ n <= (IF Called(g) THEN retry_counts[g] + 1 ELSE retry_counts[g])
          BY <3>1, <4>1 DEF CallsOfStage
        <5>2. n \in Nat
          BY Bounds DEF Numbers
        <5>3. QED
          BY <1>1, <1>3, <1>7, <5>1, <5>2
      <4>2. CASE Has(w, CallRowsAt(g, n))
        <5>1. n = retry_counts[g] + 1 /\ Called(g)'
          BY <1>4, <1>7, <4>2 DEF Called
        <5>2. QED
          BY <1>1, <1>7, <5>1
      <4>3. QED
        BY <1>6, <3>4, <4>1, <4>2
    <3>5. Ran(g)' /\ ~invalid_output'[g] => Has(rows', OutputRowsAt(g, retry_counts'[g] + 1))
      BY <1>1, <1>6, <3>1 DEF CallsOfStage
    <3>6. Ran(g)' /\ Has(rows', OutputRowsAt(g, retry_counts'[g] + 1)) =>
            ~invalid_output'[g] \/ <<Node("persona", g), retry_counts'[g] + 1>> \in repeated'
      <4>1. Ran(g) => ~Has(w, OutputRowsAt(g, retry_counts[g] + 1))
        BY <1>4, <3>2
      <4>2. QED
        BY <1>1, <1>5, <3>1, <4>1 DEF CallsOfStage
    <3>7. next' = Node("gate", g) /\ ~invalid_output'[g] =>
            /\ Has(rows', OutputRowsOf(g))
            /\ LastIn(rows', OutputRowsOf(g)).attempt = retry_counts'[g] + 1
      <4>1. next = Node("gate", g) => ~Has(w, OutputRowsOf(g))
        BY <1>4, <3>2
      <4>2. QED
        BY <1>1, <1>5, <3>1, <4>1 DEF CallsOfStage
    <3>8. QED
      BY <3>3, <3>4, <3>5, <3>6, <3>7 DEF CallsOfStage
  <2>2. ApprovedCount' = N => Has(rows', CallRowsOf(N)) /\ Has(rows', OutputRowsOf(N))
    BY <1>1, <1>6 DEF RowsInv, CallsInv
  <2>3. Has(rows', CallRowsOf(N)) \/ Has(rows', OutputRowsOf(N)) => LastCalled'
    <3>1. Has(w, CallRowsOf(N)) \/ Has(w, OutputRowsOf(N)) => LastCalled'
      BY <1>4 DEF LastCalled
    <3>2. Has(rows, CallRowsOf(N)) \/ Has(rows, OutputRowsOf(N)) => LastCalled'
      BY <1>3 DEF RowsInv, CallsInv
    <3>3. QED
      BY <1>6, <3>1, <3>2
  <2>4. QED
    BY <2>1, <2>2, <2>3 DEF CallsInv
<1>11. EvaluationsInv'
  <2>1. ASSUME NEW g \in Gated
        PROVE  EvaluationsOfStage(g)'
    <3>1. EvaluationsOfStage(g) /\ evaluations'[g] = evaluations[g]
      BY <1>1 DEF RowsInv, EvaluationsInv
    <3>2. ~Open(g)' => ~Open(g) /\ ~Has(w, EvaluationRowsOf(g)) /\ \A n : ~Has(w, EvaluationRowsAt(g, n))
      BY <1>3, <1>4
    <3>3. Clean(g)' => Clean(g) /\ ~Open(g)'
      BY <1>3 DEF Clean
    <3>4. Count(rows', EvaluationRowsOf(g)) >= evaluations'[g].attempt
      <4>1. /\ Count(rows, EvaluationRowsOf(g)) >= evaluations[g].attempt
            /\ Count(rows, EvaluationRowsOf(g)) <= Count(rows', EvaluationRowsOf(g))
            /\ Count(rows, EvaluationRowsOf(g)) \in Nat /\ Count(rows', EvaluationRowsOf(g)) \in Nat
        BY <1>6, <3>1 DEF EvaluationsOfStage
      <4>2. evaluations[g].attempt \in Int
        BY DEF TypeOK, EvaluationRecord
      <4>3. QED
        BY <3>1, <4>1, <4>2
    <3>5. QED
      BY <1>5, <3>1, <3>2, <3>3, <3>4 DEF EvaluationsOfStage
  <2>2. QED
    BY <2>1 DEF EvaluationsInv
<1>12. RetriesInv'
  <2>1. ASSUME NEW g \in Gated
        PROVE  RetriesOfStage(g)'
    <3>1. /\ RetriesOfStage(g) /\ (Paged(g)' <=> Paged(g))
          /\ human_decisions'[g] = human_decisions[g] /\ retry_counts'[g] = retry_counts[g]
      BY <1>1, <1>3 DEF RowsInv, RetriesInv
    <3>2. Clean(g)' => Clean(g) /\ \A v : ~Has(w, EvaluationRowsWith(g, v))
      BY <1>3, <1>4 DEF Clean
    <3>3. retry_counts'[g] <= Count(rows', EvaluationRowsWith(g, "retry"))
                                + Count(rows', HumanRowsWith(g, "retry"))
      <4>1. retry_counts[g] <= Count(rows, EvaluationRowsWith(g, "retry"))
                                 + Count(rows, HumanRowsWith(g, "retry"))
        BY <3>1 DEF RetriesOfStage
      <4>2. QED
        BY <1>6, <1>7, <3>1, <4>1
    <3>4. QED
      BY <1>6, <3>1, <3>2, <3>3 DEF RetriesOfStage
  <2>2. QED
    BY <2>1 DEF RetriesInv
<1>13. JudgedInv'
  <2>1. ASSUME NEW j \in 1..Len(w), w[j].event_type = "evaluation", w[j].judged
        PROVE  JudgedAt(rows \o w, Len(rows) + j)
    <3>1. RowOfNode(w, j)
      BY <1>1, <2>1 DEF StillAppended
    <3>2. /\ j = 1 /\ next = Node("gate", w[1].stage) /\ w[1].stage \in Gated
          /\ w[1].attempt = Attempt(w[1].stage) /\ ~invalid_output[w[1].stage]
      BY <2>1, <3>1 DEF RowOfNode, View!Calls
    <3>3. /\ Has(rows, OutputRowsOf(w[1].stage))
          /\ LastIn(rows, OutputRowsOf(w[1].stage)).attempt = w[1].attempt
      BY <1>7, <3>2 DEF RowsInv, CallsInv, CallsOfStage
    <3>4. ~Has(w, OutputRowsOf(w[1].stage))
      BY <1>4, <3>2 DEF Node
    <3>5. Len(w) >= 1
      BY <3>2
    <3>6. QED
      BY <1>1, <3>2, <3>3, <3>4, <3>5, JudgedExtended
  <2>2. JudgedIn(rows')
    BY <1>1, <2>1, JudgedKept DEF RowsInv, JudgedInv
  <2>3. orphans /\ next.node = "gate" => orphans' /\ next'.node = "gate"
    <3>1. next.node = "gate" => next # Finalize
      BY DEF Finalize, Node
    <3>2. QED
      BY <1>2, <3>1
  <2>4. QED
    BY <1>3, <1>4, <1>6, <2>2, <2>3 DEF RowsInv, JudgedInv
<1>14. EndingInv'
  <2>1. Has(rows', RowsOfType("run_started"))
    BY <1>6 DEF RowsInv, EndingInv
  <2>2. Has(rows', RowsOfType("run_completed")) =>
          status' = "complete" \/ (orphans' /\ next' = Finalize)
    <3>1. Has(w, RowsOfType("run_completed")) =>
            status' = "complete" \/ (orphans' /\ next' = Finalize)
      BY <1>1, <1>2, StillRows
    <3>2. Has(rows, RowsOfType("run_completed")) => orphans /\ next = Finalize
      BY DEF RowsInv, EndingInv
    <3>3. QED
      BY <1>2, <1>6, <3>1, <3>2
  <2>3. Has(rows', RowsOfType("run_aborted")) => failures' > 0
    <3>1. Has(w, RowsOfType("run_aborted")) => failures' > 0
      BY <1>1, StillRows
    <3>2. Has(rows, RowsOfType("run_aborted")) => failures > 0
      BY DEF RowsInv, EndingInv
    <3>3. QED
      BY <1>1, <1>6, <3>1, <3>2
  <2>4. ASSUME status' = "complete"
        PROVE  Has(rows', EndingRows) /\ LastIn(rows', EndingRows).event_type = "run_completed"
    <3>1. Has(w, EndingRows) /\ LastIn(w, EndingRows).event_type = "run_completed"
      BY <1>1, <2>4, StillRows
    <3>2. QED
      BY <1>1, <3>1, ConcatPos, ConcatLast
  <2>5. QED
    BY <1>1, <2>1, <2>2, <2>3, <2>4 DEF EndingInv
<1>15. OrderInv'
  <2>1. ASSUME NEW g \in Gated
        PROVE  OrderIn(rows', g)
    <3>1. OrderIn(rows, g)
      BY DEF RowsInv, OrderInv
    <3>2. CASE Has(w, DecisiveRowsOf(g))
      <4>1. next = Node("gate", g) \/ (next = HumanReview /\ pending_handoff = g)
        BY <1>1, <3>2, StillRows
      <4>2. ApprovedCount = g - 1 /\ Ran(g) /\ (g + 1 \in Gated => ~Ran(g + 1))
        <5>1. ApprovedCount = g - 1
          BY <4>1, CountFacts
        <5>2. \A h \in Gated : Ran(h) <=> h <= g
          BY <1>7, <4>1, RanFacts
        <5>3. g \in Nat
          BY <1>7, Bounds
        <5>4. QED
          BY <5>1, <5>2, <5>3
      <4>3. next # Node("persona", g + 1)
        BY <4>1 DEF Node, HumanReview
      <4>4. Has(rows, CallRowsOf(g)) /\ ~Has(rows, CallRowsOf(g + 1))
        BY <4>2, <4>3, CalledOnce DEF RowsInv
      <4>5. ~Has(w, CallRowsOf(g + 1))
        BY <1>4, <4>3
      <4>6. QED
        BY <1>1, <3>1, <4>4, <4>5, OrderExtended
    <3>3. QED
      BY <1>1, <3>1, <3>2, OrderKept
  <2>2. QED
    BY <2>1 DEF OrderInv
<1>16. QED
  BY <1>8, <1>9, <1>10, <1>11, <1>12, <1>13, <1>14, <1>15 DEF RowsInv

LEMMA AuditInit == AuditedInit => AuditInv
<1> SUFFICES ASSUME AuditedInit
             PROVE  AuditInv
  OBVIOUS
<1> DEFINE a == Row("run_started", 0, 0, "none")
<1>1. a \in RowSet /\ a.event_type = "run_started"
  BY RowFacts DEF Types
<1>2. rows = <<a>> /\ orphans = FALSE /\ failures = 0 /\ Init
  BY DEF AuditedInit
<1> HIDE DEF a
<1>3. rows \in Seq(RowSet) /\ 1..Len(rows) = {1} /\ rows[1] = a
  BY <1>1, <1>2, OneRow
<1>4. AuditTypeOK /\ OrphanInv
  BY <1>2, <1>3 DEF AuditTypeOK, OrphanInv
<1>5. ApprovedCount = 0 /\ next = Node("persona", 1) /\ status = "running"
  BY <1>2, CountFacts DEF Init
<1>6. ASSUME NEW g \in Gated
      PROVE  /\ ~Ran(g) /\ next # Node("gate", g) /\ ~(g <= ApprovedCount) /\ g # N
             /\ retry_counts[g] = 0 /\ human_decisions[g] = "none"
             /\ evaluations[g].attempt = 0 /\ evaluations[g].verdict = "none"
  <2>1. g \in Nat /\ g >= 1 /\ g < N /\ 1 \in Stages
    BY PipelineAssumption DEF Gated, Stages
  <2>2. ~Ran(g)
    BY <1>5, <2>1, RanFacts
  <2>3. NoEvaluation.verdict = "none" /\ NoEvaluation.attempt = 0
    BY DEF NoEvaluation
  <2>4. QED
    BY <1>2, <1>5, <2>1, <2>2, <2>3, NodeFacts DEF Init
<1>7. \A S : a \notin S =>
        /\ ~Has(rows, S) /\ Pos(rows, S) = {} /\ LastIn(rows, S) = View!NoRow /\ Count(rows, S) = 0
  BY <1>3, FS_EmptySet DEF Has, Pos, LastIn, Count
<1>8. View!NoRow.verdict = "none"
  BY DEF View!NoRow, View!Row
<1>9. a.event_type \notin View!Calls /\ a.event_type \notin View!Decisions
      /\ a.event_type \notin View!Endings
  BY <1>1 DEF View!Calls, View!Decisions, View!Endings
<1>10. /\ \A g : a \notin CallRowsOf(g) /\ a \notin OutputRowsOf(g)
       /\ \A g, n : a \notin CallRowsAt(g, n) /\ a \notin OutputRowsAt(g, n)
  BY <1>1, <1>9 DEF CallRowsOf, CallRowsAt, OutputRowsOf, OutputRowsAt
<1>11. /\ \A g : a \notin EvaluationRowsOf(g) /\ a \notin HumanRowsOf(g) /\ a \notin DecisiveRowsOf(g)
       /\ \A g, n : a \notin EvaluationRowsAt(g, n)
       /\ \A g, v : a \notin EvaluationRowsWith(g, v) /\ a \notin HumanRowsWith(g, v)
  BY <1>1, <1>9 DEF EvaluationRowsOf, EvaluationRowsAt, EvaluationRowsWith, HumanRowsOf,
                    HumanRowsWith, DecisiveRowsOf
<1>12. a \notin EndingRows /\ \A t : t # "run_started" => a \notin RowsOfType(t)
  BY <1>1, <1>9 DEF EndingRows, RowsOfType
<1>0. /\ \A g : Open(g) = FALSE /\ (Called(g) <=> Ran(g))
      /\ \A g \in Gated : ~Paged(g)
  BY <1>2, <1>6 DEF Open, Called, Paged
<1>13. HumanInv
  BY <1>6, <1>7, <1>8, <1>11 DEF HumanInv
<1>14. DecisiveInv
  BY <1>6, <1>7, <1>8, <1>11 DEF DecisiveInv
<1>15. CallsInv
  <2>1. \A n \in Numbers : ~(1 <= n /\ n <= 0)
    BY DEF Numbers
  <2>2. ApprovedCount # N
    BY <1>5, PipelineAssumption
  <2>3. ASSUME NEW g \in Gated
        PROVE  CallsOfStage(g)
    BY <1>0, <1>6, <1>7, <1>10, <2>1, <2>3 DEF CallsOfStage
  <2>4. QED
    BY <1>7, <1>10, <2>2, <2>3 DEF CallsInv
<1>16. OrderInv
  BY <1>7, <1>11 DEF OrderInv, OrderIn
<1>17. EvaluationsInv
  BY <1>6, <1>7, <1>8, <1>11 DEF EvaluationsInv, EvaluationsOfStage
<1>18. RetriesInv
  BY <1>0, <1>6, <1>7, <1>11 DEF RetriesInv, RetriesOfStage
<1>19. JudgedInv
  <2>1. \A i \in 1..Len(rows) : rows[i].event_type # "evaluation"
    BY <1>1, <1>3
  <2>2. QED
    BY <1>0, <1>7, <1>12, <2>1 DEF JudgedInv, JudgedIn
<1>20. EndingInv
  <2>1. Has(rows, RowsOfType("run_started"))
    BY <1>1, <1>3 DEF Has, Pos, RowsOfType
  <2>2. QED
    BY <1>5, <1>7, <1>12, <2>1 DEF EndingInv
<1>21. QED
  BY <1>4, <1>13, <1>14, <1>15, <1>16, <1>17, <1>18, <1>19, <1>20 DEF AuditInv, RowsInv

LEMMA AuditStep ==
  ASSUME StateInv, AuditInv, [AuditedNext]_allVars
  PROVE  AuditInv'
<1>1. CASE AuditedNext
  <2>1. /\ AuditTypeOK' /\ OrphanInv' /\ status \notin {"complete", "aborted"}
        /\ \/ \E s \in Stages, ok \in BOOLEAN, w \in Seq(RowSet) : PersonaStep(s, ok, w)
           \/ \E s \in Gated : \E outcome \in GateOutcomes(s), w \in Seq(RowSet) :
                GateStep(s, outcome, w)
           \/ \E s \in Gated, action \in Actions, w \in Seq(RowSet) : ReviewStep(s, action, w)
           \/ \E w \in Seq(RowSet) : StillStep(w)
    BY <1>1, AuditedCases DEF AuditInv
  <2>2. AuditTypeOK /\ RowsInv
    BY DEF AuditInv
  <2>3. CASE \E s \in Stages, ok \in BOOLEAN, w \in Seq(RowSet) : PersonaStep(s, ok, w)
    BY <2>1, <2>2, <2>3, PersonaPreserves DEF AuditInv
  <2>4. CASE \E s \in Gated : \E outcome \in GateOutcomes(s), w \in Seq(RowSet) :
               GateStep(s, outcome, w)
    BY <2>1, <2>2, <2>4, GatePreserves DEF AuditInv
  <2>5. CASE \E s \in Gated, action \in Actions, w \in Seq(RowSet) : ReviewStep(s, action, w)
    BY <2>1, <2>2, <2>5, ReviewPreserves DEF AuditInv
  <2>6. CASE \E w \in Seq(RowSet) : StillStep(w)
    BY <2>1, <2>2, <2>6, StillPreserves DEF AuditInv
  <2>7. QED
    BY <2>1, <2>3, <2>4, <2>5, <2>6
<1>2. CASE UNCHANGED allVars
  <2>1. /\ UNCHANGED <<next, status, retry_counts, evaluations, human_decisions, invalid_output,
                       pending_handoff, invoke, decision>>
        /\ UNCHANGED <<rows, orphans, repeated, failures>>
    BY <1>2 DEF allVars, vars, bookkeeping, record, auditVars
  <2>2. ApprovedCount' = ApprovedCount
    BY <2>1 DEF ApprovedCount
  <2>3. \A g : /\ (Ran(g)' <=> Ran(g)) /\ (Superseded(g)' <=> Superseded(g))
               /\ (Open(g)' <=> Open(g)) /\ (Paged(g)' <=> Paged(g))
               /\ (EvaluatedOnce(g)' <=> EvaluatedOnce(g))
    BY <2>1, <2>2 DEF Ran, Superseded, Open, Paged, EvaluatedOnce
  <2>4. /\ \A g : (Called(g)' <=> Called(g)) /\ (Clean(g)' <=> Clean(g))
        /\ LastCalled' <=> LastCalled
    BY <2>1, <2>2, <2>3 DEF Called, Clean, LastCalled
  <2>5. AuditTypeOK' /\ OrphanInv'
    BY <2>1 DEF AuditInv, AuditTypeOK, OrphanInv, Decided
  <2>6. /\ HumanInv' /\ DecisiveInv' /\ OrderInv' /\ JudgedInv' /\ EndingInv'
    BY <2>1, <2>2, <2>3 DEF AuditInv, RowsInv, HumanInv, DecisiveInv, OrderInv, JudgedInv, EndingInv
  <2>7. CallsInv'
    BY <2>1, <2>2, <2>3, <2>4 DEF AuditInv, RowsInv, CallsInv, CallsOfStage
  <2>8. EvaluationsInv' /\ RetriesInv'
    BY <2>1, <2>3, <2>4
    DEF AuditInv, RowsInv, EvaluationsInv, EvaluationsOfStage, RetriesInv, RetriesOfStage
  <2>9. QED
    BY <2>5, <2>6, <2>7, <2>8 DEF AuditInv, RowsInv
<1>3. QED
  BY <1>1, <1>2

\* A run with its rows is a run: appending rows, failing in the middle of a node
\* and its orphans change nothing of what the state machine does (graph/nodes.py).
THEOREM AuditedRunIsRun == AuditedSpec => Spec
<1>1. AuditedInit => Init
  BY DEF AuditedInit
<1>2. [AuditedNext]_allVars => [Next]_vars
  BY DEF AuditedNext, AuditedRunNode, Persona, Gate, HumanReviewNode, Pauses, Finalizes, Fails,
         Resumes, Next, RunNode, allVars
<1>3. QED
  BY <1>1, <1>2, PTL DEF AuditedSpec, Spec

\* The rows of a run tell its state, between any two of its steps (telemetry.py): also
\* while the last of them are of a superstep that was not stored, and after such a
\* superstep was repeated by a retry of the review or a late decision.
THEOREM RowsTellState == AuditedSpec => [](StateInv /\ AuditInv)
<1>1. StateInv /\ AuditInv /\ [AuditedNext]_allVars => AuditInv'
  BY AuditStep
<1>2. QED
  BY <1>1, AuditInit, AuditedRunIsRun, StateInvariant, PTL DEF AuditedSpec

------------------------------------------------------------------------------
(* What the view and the metrics read off the rows, as sets of rows.       *)

\* The cardinality the view and the metrics take is this module's.
LEMMA SameCardinality ==
  \A T : View!Cardinality(T) = Cardinality(T) /\ Measured!Cardinality(T) = Cardinality(T)
BY DEF View!Cardinality, Measured!Cardinality, Cardinality

LEMMA ViewReads ==
  ASSUME rows \in Seq(RowSet)
  PROVE  /\ \A s : View!CallsOf(rows, s) = Pos(rows, CallRowsOf(s))
         /\ \A s, n : View!EvaluationOf(rows, s, n) = LastIn(rows, EvaluationRowsAt(s, n))
         /\ \A s : View!Decisive(rows, s) = LastIn(rows, DecisiveRowsOf(s))
         /\ \A s, n : View!HasOutput(rows, s, n) <=> Has(rows, OutputRowsAt(s, n))
         /\ \A s : View!AttemptNumbers(rows, s) = {n \in Numbers : Has(rows, CallRowsAt(s, n))}
         /\ \A s : View!GateRetries(rows, s) = Count(rows, EvaluationRowsWith(s, "retry"))
         /\ \A s : View!ReviewRetries(rows, s) = Count(rows, HumanRowsWith(s, "retry"))
         /\ View!EndingRow(rows) = LastIn(rows, EndingRows)
         /\ \A t : View!HasRow(rows, t) <=> Has(rows, RowsOfType(t))
<1>1. \A i \in 1..Len(rows) : rows[i] \in RowSet /\ rows[i].attempt \in Numbers
  <2>1. \A r \in RowSet : r.attempt \in Numbers
    BY DEF RowSet, RowsOf
  <2>2. QED
    BY <2>1
<1>2. \A s : View!CallsOf(rows, s) = Pos(rows, CallRowsOf(s))
  BY <1>1 DEF View!CallsOf, View!Positions, Pos, CallRowsOf
<1>3. ASSUME NEW s, NEW n
      PROVE  View!EvaluationOf(rows, s, n) = LastIn(rows, EvaluationRowsAt(s, n))
  <2>1. {i \in 1..Len(rows) : rows[i].event_type = "evaluation" /\ rows[i].stage = s
                                /\ rows[i].attempt = n} = Pos(rows, EvaluationRowsAt(s, n))
    BY <1>1 DEF Pos, EvaluationRowsAt
  <2>2. QED
    BY <2>1 DEF View!EvaluationOf, View!LastRow, View!Positions, LastIn, Has
<1>4. ASSUME NEW s
      PROVE  View!Decisive(rows, s) = LastIn(rows, DecisiveRowsOf(s))
  <2>1. {i \in 1..Len(rows) : rows[i].event_type \in View!Decisions /\ rows[i].stage = s}
          = Pos(rows, DecisiveRowsOf(s))
    BY <1>1 DEF Pos, DecisiveRowsOf
  <2>2. QED
    BY <2>1 DEF View!Decisive, View!LastRow, View!Positions, LastIn, Has
<1>5. \A s, n : View!HasOutput(rows, s, n) <=> Has(rows, OutputRowsAt(s, n))
  BY <1>1, <1>2 DEF View!HasOutput, View!Calls, Has, Pos, OutputRowsAt, CallRowsOf
<1>6. \A s : View!AttemptNumbers(rows, s) = {n \in Numbers : Has(rows, CallRowsAt(s, n))}
  BY <1>1, <1>2 DEF View!AttemptNumbers, Has, Pos, CallRowsOf, CallRowsAt
<1>7. ASSUME NEW s
      PROVE  View!GateRetries(rows, s) = Count(rows, EvaluationRowsWith(s, "retry"))
  <2>1. {i \in 1..Len(rows) : rows[i].event_type = "evaluation" /\ rows[i].verdict = "retry"
                                /\ rows[i].stage = s} = Pos(rows, EvaluationRowsWith(s, "retry"))
    BY <1>1 DEF Pos, EvaluationRowsWith
  <2>2. QED
    BY <2>1, SameCardinality DEF View!GateRetries, View!Total, View!Positions, Count
<1>8. ASSUME NEW s
      PROVE  View!ReviewRetries(rows, s) = Count(rows, HumanRowsWith(s, "retry"))
  <2>1. {i \in 1..Len(rows) : rows[i].event_type = "human_decision" /\ rows[i].verdict = "retry"
                                /\ rows[i].stage = s} = Pos(rows, HumanRowsWith(s, "retry"))
    BY <1>1 DEF Pos, HumanRowsWith
  <2>2. QED
    BY <2>1, SameCardinality DEF View!ReviewRetries, View!Total, View!Positions, Count
<1>9. View!EndingRow(rows) = LastIn(rows, EndingRows)
  <2>1. {i \in 1..Len(rows) : rows[i].event_type \in View!Endings} = Pos(rows, EndingRows)
    BY <1>1 DEF Pos, EndingRows
  <2>2. QED
    BY <2>1 DEF View!EndingRow, View!LastRow, View!Positions, LastIn, Has
<1>10. \A t : View!HasRow(rows, t) <=> Has(rows, RowsOfType(t))
  BY <1>1 DEF View!HasRow, Has, Pos, RowsOfType
<1>11. QED
  BY <1>2, <1>3, <1>4, <1>5, <1>6, <1>7, <1>8, <1>9, <1>10

LEMMA MetricsRead ==
  ASSUME rows \in Seq(RowSet)
  PROVE  /\ \A s : Measured!EvaluationsOf(rows, s) = Pos(rows, EvaluationRowsOf(s))
         /\ \A s, v : Measured!SomeVerdict(rows, s, v) <=> Has(rows, EvaluationRowsWith(s, v))
         /\ \A s : Measured!Attempts(rows, s) = Count(rows, EvaluationRowsOf(s))
         /\ \A s : Measured!ReachesGate(rows, s) <=> Has(rows, EvaluationRowsOf(s))
         /\ \A s : Has(rows, EvaluationRowsOf(s)) =>
              /\ rows[Measured!Earliest(Measured!EvaluationsOf(rows, s))]
                   = FirstIn(rows, EvaluationRowsOf(s))
              /\ rows[Measured!Latest(Measured!EvaluationsOf(rows, s))]
                   = LastIn(rows, EvaluationRowsOf(s))
         /\ \A t : Measured!HasRow(rows, t) <=> Has(rows, RowsOfType(t))
         /\ \A T : Measured!Latest(T) = View!Latest(T)
         /\ \A s : Measured!CallsOf(rows, s) = Pos(rows, CallRowsOf(s))
<1>1. \A i \in 1..Len(rows) : rows[i] \in RowSet
  OBVIOUS
<1>2. \A s : Measured!EvaluationsOf(rows, s) = Pos(rows, EvaluationRowsOf(s))
  BY <1>1 DEF Measured!EvaluationsOf, Measured!Positions, Pos, EvaluationRowsOf
<1>3. \A s, v : Measured!SomeVerdict(rows, s, v) <=> Has(rows, EvaluationRowsWith(s, v))
  BY <1>1, <1>2 DEF Measured!SomeVerdict, Has, Pos, EvaluationRowsOf, EvaluationRowsWith
<1>4. /\ \A s : Measured!Attempts(rows, s) = Count(rows, EvaluationRowsOf(s))
      /\ \A s : Measured!ReachesGate(rows, s) <=> Has(rows, EvaluationRowsOf(s))
  BY <1>2, SameCardinality DEF Measured!Attempts, Measured!ReachesGate, Count, Has
<1>5. \A T : Measured!Latest(T) = View!Latest(T) /\ Measured!Earliest(T) = View!Earliest(T)
  BY DEF Measured!Latest, Measured!Earliest, View!Latest, View!Earliest
<1>6. \A s : Has(rows, EvaluationRowsOf(s)) =>
        /\ rows[Measured!Earliest(Measured!EvaluationsOf(rows, s))]
             = FirstIn(rows, EvaluationRowsOf(s))
        /\ rows[Measured!Latest(Measured!EvaluationsOf(rows, s))]
             = LastIn(rows, EvaluationRowsOf(s))
  BY <1>2, <1>5 DEF FirstIn, LastIn
<1>7. \A t : Measured!HasRow(rows, t) <=> Has(rows, RowsOfType(t))
  BY <1>1 DEF Measured!HasRow, Has, Pos, RowsOfType
<1>8. \A s : Measured!CallsOf(rows, s) = Pos(rows, CallRowsOf(s))
  BY <1>1 DEF Measured!CallsOf, Measured!Positions, Measured!Calls, View!Calls, Pos, CallRowsOf
<1>9. QED
  BY <1>2, <1>3, <1>4, <1>5, <1>6, <1>7, <1>8

------------------------------------------------------------------------------
(* The properties.                                                         *)

LEMMA RowsKnown ==
  ASSUME AuditInv, ~orphans
  PROVE  /\ rows \in Seq(RowSet) /\ RowsInv /\ failures \in Nat
         /\ \A s : ~Superseded(s) /\ ~Open(s) /\ (Called(s) <=> Ran(s))
         /\ LastCalled <=> ApprovedCount = N
BY DEF AuditInv, AuditTypeOK, Superseded, Open, Called, LastCalled

\* The last decision on a handoff in the audit log is the one the run carried
\* out (graph/nodes.py human_review_node).
THEOREM DecisionSafety == AuditedSpec => []LastDecisionApplied
<1>1. StateInv /\ AuditInv => LastDecisionApplied
  <2> SUFFICES ASSUME AuditInv, ~orphans, NEW s \in Gated
               PROVE  View!LastRow(rows, LAMBDA r : r.event_type = "human_decision" /\ r.stage = s).verdict
                        = human_decisions[s]
    BY DEF LastDecisionApplied
  <2>1. rows \in Seq(RowSet) /\ LastIn(rows, HumanRowsOf(s)).verdict = human_decisions[s]
    BY RowsKnown DEF RowsInv, HumanInv
  <2>2. \A i \in 1..Len(rows) : rows[i] \in RowSet
    BY <2>1
  <2>3. {i \in 1..Len(rows) : rows[i].event_type = "human_decision" /\ rows[i].stage = s}
          = Pos(rows, HumanRowsOf(s))
    BY <2>2 DEF Pos, HumanRowsOf
  <2>4. QED
    BY <2>1, <2>3 DEF View!LastRow, View!Positions, LastIn, Has
<1>2. QED
  BY <1>1, RowsTellState, PTL

\* The attempts the view shows of a stage are the retries the run has used, each
\* with the latest evaluation of it, also after a superstep was repeated; valid output
\* is always shown, and invalid output only of an attempt that was called again
\* (orchestrator/view.py _attempts).
THEOREM AttemptSafety == AuditedSpec => []AttemptsFollowRun
<1>1. StateInv /\ AuditInv => AttemptsFollowRun
  <2> SUFFICES ASSUME StateInv, AuditInv, ~orphans, NEW s \in Gated
               PROVE  /\ View!AttemptNumbers(rows, s) =
                           1..IF Ran(s) THEN retry_counts[s] + 1 ELSE (retry_counts[s] + 1) - 1
                      /\ Ran(s) /\ ~invalid_output[s] =>
                           View!HasOutput(rows, s, retry_counts[s] + 1)
                      /\ Ran(s) /\ View!HasOutput(rows, s, retry_counts[s] + 1) =>
                           \/ ~invalid_output[s]
                           \/ <<Node("persona", s), retry_counts[s] + 1>> \in repeated
                      /\ View!EvaluationOf(rows, s, evaluations[s].attempt).verdict
                           = evaluations[s].verdict
    BY DEF AttemptsFollowRun, Ran
  <2>1. rows \in Seq(RowSet) /\ RowsInv
    BY RowsKnown
  <2>2. /\ retry_counts[s] \in Nat /\ retry_counts[s] + 1 \in Numbers
        /\ retry_counts[s] + 1 <= RetryCap + 1 /\ RetryCap \in Nat
    <3>1. Attempt(s) \in Numbers /\ Attempt(s) = retry_counts[s] + 1 /\ retry_counts[s] \in Nat
      BY AttemptFacts, Bounds DEF StateInv, BaseInv
    <3>2. QED
      BY <3>1, Bounds DEF Numbers
  <2>3. \A n \in Numbers : Has(rows, CallRowsAt(s, n)) <=>
          1 <= n /\ n <= IF Ran(s) THEN retry_counts[s] + 1 ELSE retry_counts[s]
    BY <2>1, RowsKnown DEF RowsInv, CallsInv, CallsOfStage
  <2>4. View!AttemptNumbers(rows, s) =
          1..IF Ran(s) THEN retry_counts[s] + 1 ELSE (retry_counts[s] + 1) - 1
    <3>1. View!AttemptNumbers(rows, s) = {n \in Numbers : Has(rows, CallRowsAt(s, n))}
      BY <2>1, ViewReads
    <3>2. {n \in Numbers : Has(rows, CallRowsAt(s, n))} =
            1..IF Ran(s) THEN retry_counts[s] + 1 ELSE (retry_counts[s] + 1) - 1
      BY <2>2, <2>3 DEF Numbers
    <3>3. QED
      BY <3>1, <3>2
  <2>5. /\ Ran(s) /\ ~invalid_output[s] => View!HasOutput(rows, s, retry_counts[s] + 1)
        /\ Ran(s) /\ View!HasOutput(rows, s, retry_counts[s] + 1) =>
             ~invalid_output[s] \/ <<Node("persona", s), retry_counts[s] + 1>> \in repeated
    <3>1. View!HasOutput(rows, s, retry_counts[s] + 1) <=> Has(rows, OutputRowsAt(s, retry_counts[s] + 1))
      BY <2>1, ViewReads
    <3>2. QED
      BY <2>1, <3>1 DEF RowsInv, CallsInv, CallsOfStage
  <2>6. View!EvaluationOf(rows, s, evaluations[s].attempt).verdict = evaluations[s].verdict
    <3>1. View!EvaluationOf(rows, s, evaluations[s].attempt)
            = LastIn(rows, EvaluationRowsAt(s, evaluations[s].attempt))
      BY <2>1, ViewReads
    <3>2. QED
      BY <2>1, <3>1, RowsKnown DEF RowsInv, EvaluationsInv, EvaluationsOfStage
  <2>7. QED
    BY <2>4, <2>5, <2>6
<1>2. QED
  BY <1>1, RowsTellState, PTL

\* The benchmark's metrics and the sampling of judged artifacts count what
\* happened in the run, and exactly that of every stage none of whose evaluations was
\* repeated after its gate had raised (evals/metrics.py, agreement.py).
THEOREM MetricSafety == AuditedSpec => []MetricsFollowRun
<1>1. StateInv /\ AuditInv => MetricsFollowRun
  <2> SUFFICES ASSUME StateInv, AuditInv, ~orphans
               PROVE  MetricsFollowRun
    BY DEF MetricsFollowRun
  <2>1. rows \in Seq(RowSet) /\ RowsInv /\ failures \in Nat
    BY RowsKnown
  <2>2. \A g \in Gated : g <= ApprovedCount =>
          human_decisions[g] = "accept_as_is" \/ evaluations[g].verdict = "pass"
    BY DEF StateInv, DownstreamOnlyAfterApproval
  <2>3. ASSUME NEW s \in Gated
        PROVE  /\ Measured!Attempts(rows, s) >= evaluations[s].attempt
               /\ human_decisions[s] = "none" /\ retry_counts[s] > 0 => Measured!Retried(rows, s)
               /\ s <= ApprovedCount /\ Measured!PassesWithoutHuman(rows, s)
                    => human_decisions[s] = "none"
               /\ EvaluatedOnce(s) =>
                    /\ Measured!Attempts(rows, s) = evaluations[s].attempt
                    /\ Measured!Attempt1Passes(rows, s) <=>
                         evaluations[s].attempt = 1 /\ evaluations[s].verdict = "pass"
                    /\ s <= ApprovedCount /\ human_decisions[s] = "none"
                         => Measured!PassesWithoutHuman(rows, s)
                    /\ human_decisions[s] = "none" /\ Measured!Retried(rows, s)
                         => retry_counts[s] > 0
    <3>1. EvaluationsOfStage(s) /\ RetriesOfStage(s) /\ ~Open(s) /\ (EvaluatedOnce(s) => Clean(s))
      BY <2>1, RowsKnown DEF RowsInv, EvaluationsInv, RetriesInv, Clean
    <3>2. /\ LastIn(rows, EvaluationRowsOf(s)).verdict = evaluations[s].verdict
          /\ Count(rows, EvaluationRowsOf(s)) >= evaluations[s].attempt
          /\ EvaluatedOnce(s) =>
               /\ Count(rows, EvaluationRowsOf(s)) = evaluations[s].attempt
               /\ Has(rows, EvaluationRowsOf(s)) =>
                    (FirstIn(rows, EvaluationRowsOf(s)).verdict = "pass"
                       <=> evaluations[s].attempt = 1 /\ evaluations[s].verdict = "pass")
      BY <3>1 DEF EvaluationsOfStage
    <3>3. /\ Measured!Attempts(rows, s) = Count(rows, EvaluationRowsOf(s))
          /\ Measured!ReachesGate(rows, s) <=> Has(rows, EvaluationRowsOf(s))
          /\ Measured!Escalated(rows, s) <=> Has(rows, EvaluationRowsWith(s, "escalate"))
          /\ Measured!Retried(rows, s) <=> Has(rows, EvaluationRowsWith(s, "retry"))
      BY <2>1, MetricsRead DEF Measured!Escalated, Measured!Retried
    <3>4. ~Has(rows, EvaluationRowsOf(s)) =>
            /\ evaluations[s].verdict # "pass"
            /\ EvaluatedOnce(s) => evaluations[s].attempt # 1
      <4>1. Has(rows, EvaluationRowsOf(s)) <=> Count(rows, EvaluationRowsOf(s)) > 0
        BY <2>1, HasCount
      <4>2. EvaluatedOnce(s) /\ evaluations[s].attempt = 1 => Has(rows, EvaluationRowsOf(s))
        BY <3>2, <4>1
      <4>3. View!NoRow.verdict = "none"
        BY DEF View!NoRow, View!Row
      <4>4. QED
        BY <3>2, <4>2, <4>3 DEF LastIn
    <3>5. EvaluatedOnce(s) =>
            (Measured!Attempt1Passes(rows, s) <=>
               evaluations[s].attempt = 1 /\ evaluations[s].verdict = "pass")
      <4>1. CASE Has(rows, EvaluationRowsOf(s))
        BY <2>1, <3>2, <3>3, <4>1, MetricsRead DEF Measured!Attempt1Passes
      <4>2. CASE ~Has(rows, EvaluationRowsOf(s))
        BY <3>3, <3>4, <4>2 DEF Measured!Attempt1Passes
      <4>3. QED
        BY <4>1, <4>2
    <3>6. /\ human_decisions[s] # "none" => Measured!Escalated(rows, s)
          /\ EvaluatedOnce(s) /\ Measured!Escalated(rows, s) =>
               human_decisions[s] # "none" \/ evaluations[s].verdict = "escalate"
          /\ human_decisions[s] = "none" =>
               /\ retry_counts[s] > 0 => Measured!Retried(rows, s)
               /\ EvaluatedOnce(s) /\ Measured!Retried(rows, s) => retry_counts[s] > 0
      BY <3>1, <3>3 DEF RetriesOfStage, Paged
    <3>7. Measured!PassesWithoutHuman(rows, s) => human_decisions[s] = "none"
      BY <3>6 DEF Measured!PassesWithoutHuman
    <3>8. s <= ApprovedCount /\ human_decisions[s] = "none" /\ EvaluatedOnce(s) =>
            Measured!PassesWithoutHuman(rows, s)
      <4> SUFFICES ASSUME s <= ApprovedCount, human_decisions[s] = "none", EvaluatedOnce(s)
                   PROVE  Measured!PassesWithoutHuman(rows, s)
        OBVIOUS
      <4>1. evaluations[s].verdict = "pass"
        BY <2>2
      <4>2. ~Measured!Escalated(rows, s)
        BY <3>6, <4>1
      <4>3. Has(rows, EvaluationRowsOf(s))
        BY <3>4, <4>1
      <4>4. rows[Measured!Latest(Measured!EvaluationsOf(rows, s))].verdict = "pass"
        BY <2>1, <3>2, <4>1, <4>3, MetricsRead
      <4>5. QED
        BY <3>3, <4>2, <4>3, <4>4 DEF Measured!PassesWithoutHuman
    <3>9. QED
      BY <3>2, <3>3, <3>5, <3>6, <3>7, <3>8
  <2>4. ASSUME NEW i \in Measured!Judged(rows)
        PROVE  Measured!Produced(rows, i) # 0 /\ rows[Measured!Produced(rows, i)].attempt = rows[i].attempt
    <3> DEFINE S == OutputRowsOf(rows[i].stage)
               T == {j \in Pos(rows, S) : j < i}
               outputs == {j \in Measured!CallsOf(rows, rows[i].stage) :
                             j < i /\ rows[j].event_type = "persona_call"}
    <3>1. i \in 1..Len(rows) /\ JudgedAt(rows, i)
      BY <2>1 DEF Measured!Judged, RowsInv, JudgedInv, JudgedIn
    <3>2. PICK j \in Pos(rows, S) :
            /\ j < i /\ rows[j].attempt = rows[i].attempt
            /\ \A k \in Pos(rows, S) : k < i => k <= j
      BY <3>1 DEF JudgedAt
    <3>3. j \in T /\ (\A k \in T : k <= j) /\ T \in SUBSET Nat /\ j # 0
      BY <3>2 DEF Pos
    <3>4. outputs = T
      BY <2>1, MetricsRead DEF Pos, CallRowsOf, OutputRowsOf, View!Calls
    <3>5. Measured!Produced(rows, i) = IF outputs = {} THEN 0 ELSE Measured!Latest(outputs)
      BY DEF Measured!Produced
    <3> HIDE DEF T, outputs
    <3>6. View!Latest(T) = j
      BY <3>3, LatestIs
    <3>7. Measured!Produced(rows, i) = j
      BY <2>1, <3>3, <3>4, <3>5, <3>6, MetricsRead
    <3>8. QED
      BY <3>2, <3>3, <3>7
  <2>5. /\ Has(rows, RowsOfType("run_completed")) <=> status = "complete"
        /\ status = "aborted" => Has(rows, RowsOfType("run_aborted"))
    <3>1. ASSUME status \in {"complete", "aborted"}
          PROVE  Has(rows, RowsOfType(IF status = "complete" THEN "run_completed" ELSE "run_aborted"))
      <4>1. /\ Has(rows, EndingRows)
            /\ LastIn(rows, EndingRows).event_type =
                 IF status = "complete" THEN "run_completed" ELSE "run_aborted"
        BY <2>1, <3>1 DEF RowsInv, EndingInv
      <4>2. PICK i \in Pos(rows, EndingRows) : LastIn(rows, EndingRows) = rows[i]
        BY <2>1, <4>1, LastFacts
      <4>3. i \in Pos(rows, RowsOfType(IF status = "complete" THEN "run_completed" ELSE "run_aborted"))
        BY <4>1, <4>2 DEF Pos, EndingRows, RowsOfType
      <4>4. QED
        BY <4>3 DEF Has
    <3>2. QED
      BY <2>1, <3>1 DEF RowsInv, EndingInv
  <2>6. Measured!CompletedWithoutHuman(rows) <=>
          status = "complete" /\ \A s \in Gated : human_decisions[s] = "none"
    <3>1. /\ Measured!HasRow(rows, "run_completed") <=> status = "complete"
          /\ Measured!EscalatedRun(rows) <=>
               \E s \in Gated : human_decisions[s] # "none" \/ evaluations[s].verdict = "escalate"
      <4>1. /\ Measured!HasRow(rows, "run_completed") <=> Has(rows, RowsOfType("run_completed"))
            /\ Measured!EscalatedRun(rows) <=> Has(rows, RowsOfType("escalation"))
        BY <2>1, MetricsRead DEF Measured!EscalatedRun
      <4>2. Has(rows, RowsOfType("escalation")) <=> \E s \in Gated : Paged(s)
        BY <2>1 DEF RowsInv, JudgedInv
      <4>3. QED
        BY <2>5, <4>1, <4>2 DEF Paged
    <3>2. ASSUME status = "complete", NEW s \in Gated, evaluations[s].verdict = "escalate"
          PROVE  human_decisions[s] # "none"
      <4>1. ApprovedCount = N
        BY <3>2, CountFacts DEF StateInv, EndInv
      <4>2. s <= N
        BY PipelineAssumption DEF Gated
      <4>3. QED
        BY <2>2, <3>2, <4>1, <4>2
    <3>3. QED
      BY <3>1, <3>2 DEF Measured!CompletedWithoutHuman
  <2>7. /\ status \in {"complete", "aborted"} => Measured!Timed(rows)
        /\ failures = 0 => (Measured!Timed(rows) => status \in {"complete", "aborted"})
    <3>1. Measured!Timed(rows) <=>
            Has(rows, RowsOfType("run_completed")) \/ Has(rows, RowsOfType("run_aborted"))
      BY <2>1, MetricsRead DEF Measured!Timed, RowsInv, EndingInv
    <3>2. Has(rows, RowsOfType("run_aborted")) => status = "aborted" \/ failures > 0
      BY <2>1 DEF RowsInv, EndingInv
    <3>3. QED
      BY <2>1, <2>5, <3>1, <3>2
  <2>8. QED
    BY <2>3, <2>4, <2>6, <2>7 DEF MetricsFollowRun
<1>2. QED
  BY <1>1, RowsTellState, PTL

\* The status the view gives a stage: finished exactly if the run is past it, by a
\* reviewer exactly if one accepted it.
LEMMA DoneFacts ==
  ASSUME StateInv, AuditInv, ~orphans, NEW s \in 1..N
  PROVE  /\ View!DoneStatus(rows, s) # "none" <=> s <= ApprovedCount
         /\ s <= ApprovedCount =>
              (View!DoneStatus(rows, s) = "accepted_by_human"
                 <=> s \in Gated /\ human_decisions[s] = "accept_as_is")
<1> USE DEF StateInv, BaseInv
<1>1. /\ rows \in Seq(RowSet) /\ RowsInv /\ (LastCalled <=> ApprovedCount = N)
      /\ \A g : ~Superseded(g) /\ ~Open(g)
  BY RowsKnown
<1>2. ApprovedCount \in Int /\ ApprovedCount <= N /\ N \in Nat
  BY CountType, PipelineAssumption
<1>3. CASE s = N
  <2>1. (\E n \in View!AttemptNumbers(rows, N) : View!HasOutput(rows, N, n)) <=> ApprovedCount = N
    <3>1. (\E n \in View!AttemptNumbers(rows, N) : View!HasOutput(rows, N, n))
            <=> \E n \in Numbers : Has(rows, CallRowsAt(N, n)) /\ Has(rows, OutputRowsAt(N, n))
      BY <1>1, ViewReads
    <3>2. (\E n \in Numbers : Has(rows, CallRowsAt(N, n)) /\ Has(rows, OutputRowsAt(N, n)))
            <=> Has(rows, OutputRowsOf(N))
      <4>1. ASSUME NEW i \in Pos(rows, OutputRowsOf(N))
            PROVE  \E n \in Numbers : i \in Pos(rows, CallRowsAt(N, n)) /\ i \in Pos(rows, OutputRowsAt(N, n))
        <5>1. \A r \in RowSet : r.attempt \in Numbers
          BY DEF RowSet, RowsOf
        <5>2. rows[i].attempt \in Numbers
          BY <5>1 DEF Pos, OutputRowsOf
        <5>3. QED
          BY <5>2 DEF Pos, OutputRowsOf, OutputRowsAt, CallRowsAt, View!Calls
      <4>2. \A n : OutputRowsAt(N, n) \subseteq OutputRowsOf(N)
        BY DEF OutputRowsAt, OutputRowsOf
      <4>3. (\E n \in Numbers : Has(rows, CallRowsAt(N, n)) /\ Has(rows, OutputRowsAt(N, n)))
              => Has(rows, OutputRowsOf(N))
        BY <4>2 DEF Has, Pos
      <4>4. Has(rows, OutputRowsOf(N)) =>
              \E n \in Numbers : Has(rows, CallRowsAt(N, n)) /\ Has(rows, OutputRowsAt(N, n))
        BY <4>1 DEF Has
      <4>5. QED
        BY <4>3, <4>4
    <3>3. Has(rows, OutputRowsOf(N)) <=> ApprovedCount = N
      BY <1>1 DEF RowsInv, CallsInv
    <3>4. QED
      BY <3>1, <3>2, <3>3
  <2>2. View!DoneStatus(rows, s) = IF ApprovedCount = N THEN "completed" ELSE "none"
    BY <1>3, <2>1 DEF View!DoneStatus
  <2>3. s \notin Gated
    BY <1>2, <1>3 DEF Gated
  <2>4. QED
    BY <1>2, <1>3, <2>2, <2>3
<1>4. CASE s # N
  <2>1. s \in Gated
    BY <1>2, <1>4 DEF Gated
  <2> DEFINE last == LastIn(rows, DecisiveRowsOf(s))
  <2>2. View!Decisive(rows, s) = last
    BY <1>1, ViewReads
  <2>3. /\ s <= ApprovedCount /\ human_decisions[s] = "accept_as_is" =>
             last.event_type = "human_decision" /\ last.verdict = "accept_as_is"
        /\ s <= ApprovedCount /\ human_decisions[s] # "accept_as_is" =>
             last.event_type = "evaluation" /\ last.verdict = "pass"
        /\ s > ApprovedCount => last.verdict \notin {"pass", "accept_as_is"}
    BY <1>1, <2>1 DEF RowsInv, DecisiveInv
  <2>4. View!DoneStatus(rows, s) =
          IF last.event_type = "evaluation" /\ last.verdict = "pass" THEN "passed"
          ELSE IF last.event_type = "human_decision" /\ last.verdict = "accept_as_is"
          THEN "accepted_by_human" ELSE "none"
    BY <1>4, <2>2 DEF View!DoneStatus
  <2> HIDE DEF last
  <2>5. QED
    BY <1>2, <2>1, <2>3, <2>4
<1>5. QED
  BY <1>3, <1>4

\* What the view says of a run that has ended: its ending, its headline and the
\* retries of its stages (orchestrator/view.py _final, _totals).
THEOREM OutcomeSafety == AuditedSpec => []OutcomeReported
<1>1. StateInv /\ AuditInv => OutcomeReported
  <2> SUFFICES ASSUME StateInv, AuditInv, ~orphans, status \in {"complete", "aborted"}
               PROVE  OutcomeReported
    BY DEF OutcomeReported
  <2> USE DEF StateInv, BaseInv
  <2>1. rows \in Seq(RowSet) /\ RowsInv
    BY RowsKnown
  <2>2. View!EndingRow(rows).event_type =
          IF status = "complete" THEN "run_completed" ELSE "run_aborted"
    BY <2>1, ViewReads DEF RowsInv, EndingInv
  <2>3. next = END /\ next # HumanReview
    BY NodeFacts DEF EndInv
  <2>4. RunState.status = status
    <3>1. ~AwaitsReview
      BY <2>3 DEF AwaitsReview, ReviewInv
    <3>2. QED
      BY <3>1 DEF RunState
  <2>5. ASSUME ~View!HasRow(rows, "run_failed")
        PROVE  View!Headline(rows, RunState) =
                 IF status = "aborted" THEN "aborted"
                 ELSE IF \E s \in Gated : human_decisions[s] = "accept_as_is"
                 THEN "complete_with_override" ELSE "all_gates_passed"
    <3>1. RunState # View!NoState
      BY <2>4 DEF View!NoState
    <3>2. View!RunStatus(rows, RunState) = status
      BY <2>4, <2>5, <3>1 DEF View!RunStatus
    <3>3. CASE status = "aborted"
      BY <3>2, <3>3 DEF View!Headline
    <3>4. CASE status = "complete"
      <4>1. ApprovedCount = N /\ N \in Nat /\ \A s \in 1..N : s <= N
        BY <2>3, <3>4, CountFacts, PipelineAssumption
      <4>2. Gated \subseteq 1..N
        BY PipelineAssumption DEF Gated
      <4>3. \A s \in 1..N : View!DoneStatus(rows, s) = "accepted_by_human"
                              <=> s \in Gated /\ human_decisions[s] = "accept_as_is"
        BY <4>1, DoneFacts
      <4>4. (\E s \in 1..N : View!DoneStatus(rows, s) = "accepted_by_human")
              <=> \E s \in Gated : human_decisions[s] = "accept_as_is"
        BY <4>2, <4>3
      <4>5. View!Headline(rows, RunState) =
              IF \E s \in 1..N : View!DoneStatus(rows, s) = "accepted_by_human"
              THEN "complete_with_override" ELSE "all_gates_passed"
        BY <3>2, <3>4 DEF View!Headline
      <4>6. QED
        BY <3>4, <4>4, <4>5
    <3>5. QED
      BY <3>3, <3>4
  <2>6. ASSUME NEW s \in Gated
        PROVE  /\ View!Retries(rows, s) = retry_counts[s]
               /\ View!Retries(rows, s) <= View!GateRetries(rows, s) + View!ReviewRetries(rows, s)
    <3>1. /\ retry_counts[s] \in Nat /\ retry_counts[s] + 1 \in Numbers
          /\ retry_counts[s] + 1 <= RetryCap + 1 /\ RetryCap \in Nat
      <4>1. Attempt(s) \in Numbers /\ Attempt(s) = retry_counts[s] + 1 /\ retry_counts[s] \in Nat
        BY AttemptFacts, Bounds
      <4>2. QED
        BY <4>1, Bounds DEF Numbers
    <3>2. ~Ran(s) => retry_counts[s] = 0
      <4>1. ASSUME ~Ran(s)
            PROVE  s > ApprovedCount + 1
        <5>1. ~(s <= ApprovedCount) /\ pending_handoff # s
          BY <2>3, <4>1 DEF Ran
        <5>2. ApprovedCount = N \/ ApprovedCount = pending_handoff - 1
          BY <2>3, CountFacts
        <5>3. s \in Nat /\ s <= N /\ N \in Nat /\ pending_handoff \in Nat
          BY PipelineAssumption DEF Gated, TypeOK, NoHandoff
        <5>4. CASE ApprovedCount = N
          BY <5>1, <5>3, <5>4
        <5>5. CASE ApprovedCount = pending_handoff - 1
          BY <5>1, <5>3, <5>5
        <5>6. QED
          BY <5>2, <5>4, <5>5
      <4>2. QED
        BY <4>1 DEF HistoryInv
    <3> DEFINE last == IF Ran(s) THEN retry_counts[s] + 1 ELSE retry_counts[s]
    <3>3. View!AttemptNumbers(rows, s) = 1..last
      <4>1. View!AttemptNumbers(rows, s) = {n \in Numbers : Has(rows, CallRowsAt(s, n))}
        BY <2>1, ViewReads
      <4>2. \A n \in Numbers : Has(rows, CallRowsAt(s, n)) <=> 1 <= n /\ n <= last
        BY <2>1, RowsKnown DEF RowsInv, CallsInv, CallsOfStage
      <4>3. last \in Nat /\ last <= RetryCap + 1
        BY <3>1
      <4> HIDE DEF last
      <4>4. {n \in Numbers : Has(rows, CallRowsAt(s, n))} = 1..last
        BY <3>1, <4>2, <4>3 DEF Numbers
      <4>5. QED
        BY <4>1, <4>4
    <3>4. Cardinality(1..last) = last
      <4>1. last \in Nat
        BY <3>1
      <4> HIDE DEF last
      <4>2. Cardinality(1..last) = IF 1 > last THEN 0 ELSE last - 1 + 1
        BY <4>1, FS_Interval
      <4>3. QED
        BY <4>1, <4>2
    <3>5. View!Retries(rows, s) = IF last = 0 THEN 0 ELSE last - 1
      <4> HIDE DEF last
      <4>1. QED
        BY <3>3, <3>4, SameCardinality DEF View!Retries
    <3>6. View!Retries(rows, s) = retry_counts[s]
      <4>1. CASE Ran(s)
        BY <3>1, <3>5, <4>1
      <4>2. CASE ~Ran(s)
        BY <3>1, <3>2, <3>5, <4>2
      <4>3. QED
        BY <4>1, <4>2
    <3>7. retry_counts[s] <= View!GateRetries(rows, s) + View!ReviewRetries(rows, s)
      BY <2>1, ViewReads DEF RowsInv, RetriesInv, RetriesOfStage
    <3>8. QED
      BY <3>6, <3>7
  <2>7. QED
    BY <2>2, <2>5, <2>6 DEF OutcomeReported
<1>2. QED
  BY <1>1, RowsTellState, PTL

\* The stages the view shows as finished are those behind the run, started and
\* finished in order, and a stage under review is shown awaiting it
\* (orchestrator/view.py _stage, _derive_statuses).
THEOREM ViewSafety == AuditedSpec => []ViewFollowsRun
<1>1. StateInv /\ AuditInv => ViewFollowsRun
  <2> SUFFICES ASSUME StateInv, AuditInv, ~orphans
               PROVE  ViewFollowsRun
    BY DEF ViewFollowsRun
  <2> USE DEF StateInv, BaseInv
  <2>1. rows \in Seq(RowSet) /\ RowsInv /\ \A g : ~Superseded(g) /\ ~Open(g)
    BY RowsKnown
  <2>2. ApprovedCount \in Int /\ ApprovedCount <= N /\ N \in Nat
    BY CountType, PipelineAssumption
  <2>3. View!Done(rows) = 1..ApprovedCount
    <3>1. View!Done(rows) = {s \in 1..N : View!DoneStatus(rows, s) # "none"}
      BY DEF View!Done
    <3>2. \A s \in 1..N : View!DoneStatus(rows, s) # "none" <=> s <= ApprovedCount
      BY DoneFacts
    <3>3. {s \in 1..N : View!DoneStatus(rows, s) # "none"} = 1..ApprovedCount
      BY <2>2, <3>2
    <3>4. QED
      BY <3>1, <3>3
  <2>4. ASSUME NEW s \in 1..ApprovedCount
        PROVE  /\ s \in 1..N /\ s \in Nat
               /\ s \in Gated => Has(rows, DecisiveRowsOf(s)) /\ OrderIn(rows, s)
               /\ s \notin Gated => s = N
               /\ Has(rows, CallRowsOf(s))
    <3>1. s \in 1..N /\ s \in Nat /\ s <= ApprovedCount /\ (s \notin Gated => s = N /\ ApprovedCount = N)
      BY <2>2 DEF Gated
    <3>2. s \in Gated => Has(rows, DecisiveRowsOf(s)) /\ OrderIn(rows, s)
      <4>1. View!NoRow.verdict = "none"
        BY DEF View!NoRow, View!Row
      <4>2. s \in Gated => LastIn(rows, DecisiveRowsOf(s)).verdict # "none" /\ OrderIn(rows, s)
        BY <2>1, <3>1 DEF RowsInv, DecisiveInv, OrderInv
      <4>3. QED
        BY <4>1, <4>2 DEF LastIn
    <3>3. Has(rows, CallRowsOf(s))
      BY <2>1, <3>1, <3>2 DEF RowsInv, CallsInv, OrderIn, Has
    <3>4. QED
      BY <3>1, <3>2, <3>3
  <2>5. ASSUME NEW s \in 1..ApprovedCount
        PROVE  /\ View!StageTimes(rows, s).started = View!Earliest(Pos(rows, CallRowsOf(s)))
               /\ View!StageTimes(rows, s).finished =
                    View!Latest(IF s = N THEN Pos(rows, CallRowsOf(s)) ELSE Pos(rows, DecisiveRowsOf(s)))
    <3>1. {i \in 1..Len(rows) : rows[i].event_type \in View!Decisions /\ rows[i].stage = s}
            = Pos(rows, DecisiveRowsOf(s))
      <4>1. \A i \in 1..Len(rows) : rows[i] \in RowSet
        BY <2>1
      <4>2. QED
        BY <4>1 DEF Pos, DecisiveRowsOf
    <3>2. View!CallsOf(rows, s) = Pos(rows, CallRowsOf(s))
      BY <2>1, ViewReads
    <3>3. s # N => Pos(rows, DecisiveRowsOf(s)) # {}
      BY <2>4 DEF Has
    <3>4. QED
      BY <3>1, <3>2, <3>3 DEF View!StageTimes, View!Positions
  <2>6. ASSUME NEW s \in 1..ApprovedCount
        PROVE  /\ View!StageTimes(rows, s).started <= View!StageTimes(rows, s).finished
               /\ s > 1 => View!StageTimes(rows, s - 1).finished < View!StageTimes(rows, s).started
    <3> DEFINE first == View!Earliest(Pos(rows, CallRowsOf(s)))
    <3>1. /\ first \in Pos(rows, CallRowsOf(s)) /\ first \in Nat
          /\ \A i \in Pos(rows, CallRowsOf(s)) : first <= i /\ i \in Nat
      <4>1. Pos(rows, CallRowsOf(s)) \in SUBSET Nat /\ Pos(rows, CallRowsOf(s)) # {}
        BY <2>1, <2>4, PosFacts DEF Has
      <4>2. QED
        BY <4>1, EarliestFacts
    <3>2. View!StageTimes(rows, s).started = first
      BY <2>5
    <3> HIDE DEF first
    <3>3. ASSUME NEW T \in SUBSET Nat, T # {}, \A i \in T : i <= Len(rows)
          PROVE  View!Latest(T) \in T /\ View!Latest(T) \in Nat
      <4>1. Len(rows) \in Nat
        BY <2>1, LenProperties
      <4>2. QED
        BY <3>3, <4>1, LatestFacts
    <3>4. ASSUME NEW g \in Gated, g \in 1..ApprovedCount
          PROVE  /\ View!StageTimes(rows, g).finished \in Pos(rows, DecisiveRowsOf(g))
                 /\ View!StageTimes(rows, g).finished \in Nat
      <4>1. g # N
        BY PipelineAssumption DEF Gated
      <4>2. View!StageTimes(rows, g).finished = View!Latest(Pos(rows, DecisiveRowsOf(g)))
        BY <2>5, <3>4, <4>1
      <4>3. /\ Pos(rows, DecisiveRowsOf(g)) \in SUBSET Nat /\ Pos(rows, DecisiveRowsOf(g)) # {}
            /\ \A i \in Pos(rows, DecisiveRowsOf(g)) : i <= Len(rows)
        BY <2>1, <2>4, <3>4, PosFacts DEF Has
      <4>4. QED
        BY <3>3, <4>2, <4>3
    <3>5. first <= View!StageTimes(rows, s).finished
      <4>1. CASE s \in Gated
        <5>1. View!StageTimes(rows, s).finished \in Pos(rows, DecisiveRowsOf(s))
              /\ View!StageTimes(rows, s).finished \in Nat
          BY <3>4, <4>1
        <5>2. PICK i \in Pos(rows, CallRowsOf(s)) : i < View!StageTimes(rows, s).finished
          BY <2>4, <4>1, <5>1 DEF OrderIn
        <5>3. QED
          BY <3>1, <5>1, <5>2
      <4>2. CASE s \notin Gated
        <5>1. View!StageTimes(rows, s).finished = View!Latest(Pos(rows, CallRowsOf(s)))
          BY <2>4, <2>5, <4>2
        <5>2. /\ Pos(rows, CallRowsOf(s)) \in SUBSET Nat /\ Pos(rows, CallRowsOf(s)) # {}
              /\ \A i \in Pos(rows, CallRowsOf(s)) : i <= Len(rows)
          BY <2>1, <2>4, PosFacts DEF Has
        <5>3. View!Latest(Pos(rows, CallRowsOf(s))) \in Pos(rows, CallRowsOf(s))
          BY <3>3, <5>2
        <5>4. QED
          BY <3>1, <5>1, <5>3
      <4>3. QED
        BY <4>1, <4>2
    <3>6. ASSUME s > 1
          PROVE  View!StageTimes(rows, s - 1).finished < first
      <4>1. s - 1 \in Gated /\ s - 1 \in 1..ApprovedCount /\ (s - 1) + 1 = s
        BY <2>2, <3>6 DEF Gated
      <4>2. View!StageTimes(rows, s - 1).finished \in Pos(rows, DecisiveRowsOf(s - 1))
        BY <3>4, <4>1
      <4>3. OrderIn(rows, s - 1)
        BY <2>4, <4>1
      <4>4. QED
        BY <3>1, <4>1, <4>2, <4>3 DEF OrderIn
    <3>7. QED
      BY <3>2, <3>5, <3>6
  <2>7. ASSUME AwaitsReview
        PROVE  View!StageStatus(rows, pending_handoff, View!RunStatus(rows, RunState), RunState)
                 = "awaiting_review"
    <3> DEFINE p == pending_handoff
    <3>1. p \in Gated /\ next = HumanReview
      BY <2>7 DEF AwaitsReview, ReviewInv
    <3>2. ApprovedCount = p - 1 /\ p \in 1..N /\ p # N /\ p \in Nat
      BY <3>1, CountFacts, PipelineAssumption DEF Gated
    <3>3. View!DoneStatus(rows, p) = "none"
      BY <3>2, DoneFacts
    <3>4. RunState.pending = p
      BY <2>7 DEF RunState
    <3>5. 1..p - 1 \subseteq View!Done(rows)
      BY <2>3, <3>2
    <3> HIDE DEF p
    <3>6. View!StageStatus(rows, p, View!RunStatus(rows, RunState), RunState) = "awaiting_review"
      BY <3>2, <3>3, <3>4, <3>5 DEF View!StageStatus, View!ActiveStatus
    <3>7. QED
      BY <3>6 DEF p
  <2>8. QED
    BY <2>3, <2>6, <2>7 DEF ViewFollowsRun
<1>2. QED
  BY <1>1, RowsTellState, PTL
=============================================================================
