-------------------------- MODULE BatchClientProofs ---------------------------
(***************************************************************************)
(* Proofs about BatchClient for any finite set of runs, any number of      *)
(* calls, and with or without exceptions that end the flusher.             *)
(***************************************************************************)
EXTENDS BatchClient, FiniteSetTheorems, TLAPS

\* The flusher holds no batch while it waits for one; the client is closed when
\* every run is done.
Quiet ==
  /\ flusher \in {"wait", "returned"} => byId = {}
  /\ stopped => \A j \in Jobs : pc[j] = "done"

IInv == TypeOK /\ EachCallInOnePlace /\ Quiet

LEMMA RegisteredFinite ==
  IsFiniteSet(Registered) /\ Cardinality(Registered) \in Nat
<1>1. Registered \subseteq Jobs
  BY DEF Registered
<1> QED
  BY <1>1, BatchAssumption, FS_Subset, FS_CardinalityType

\* A thread that stays inside or outside worker() is counted as before.
LEMMA SameRegistered ==
  ASSUME TypeOK, NEW j \in Jobs, NEW state \in {"running", "waiting"},
         pc[j] \in {"running", "waiting"}, pc' = [pc EXCEPT ![j] = state]
  PROVE  Registered' = Registered
BY DEF Registered, TypeOK

LEMMA TypeNext ==
  ASSUME IInv, [Next]_vars
  PROVE  TypeOK'
<1> USE DEF IInv
<1> USE RegisteredFinite
<1>1. ASSUME NEW j \in Jobs, Register(j)
      PROVE  TypeOK'
  <2>1. Registered' = Registered \union {j} /\ j \notin Registered
    BY <1>1 DEF Register, Registered, TypeOK
  <2>2. Cardinality(Registered') = Cardinality(Registered) + 1
    BY <2>1, FS_AddElement
  <2> QED
    BY <1>1, <2>2 DEF Register, TypeOK
<1>2. ASSUME NEW j \in Jobs, Complete(j)
      PROVE  TypeOK'
  <2>1. Registered' = Registered
    BY <1>2, SameRegistered DEF Complete
  <2>2. calls' \in [Jobs -> 0..MaxCalls]
    BY <1>2, BatchAssumption DEF Complete, TypeOK
  <2> QED
    BY <1>2, <2>1, <2>2 DEF Complete, TypeOK
<1>3. ASSUME NEW j \in Jobs, Receive(j)
      PROVE  TypeOK'
  <2>1. Registered' = Registered
    BY <1>3, SameRegistered DEF Receive
  <2> QED
    BY <1>3, <2>1 DEF Receive, TypeOK
<1>4. ASSUME NEW j \in Jobs, Unregister(j)
      PROVE  TypeOK'
  <2>1. Registered' = Registered \ {j} /\ j \in Registered
    BY <1>4 DEF Unregister, Registered, TypeOK
  <2>2. Cardinality(Registered') = Cardinality(Registered) - 1
    BY <2>1, FS_RemoveElement
  <2> QED
    BY <1>4, <2>2 DEF Unregister, ActiveWithout, TypeOK
<1>5. ASSUME NEW j \in Jobs, HandBack(j) \/ FailRest(j)
      PROVE  TypeOK'
  <2>1. Registered' = Registered
    BY <1>5 DEF HandBack, FailRest, Registered
  <2> QED
    BY <1>5, <2>1 DEF HandBack, FailRest, Answer, TypeOK
<1>6. CASE Close \/ Tick \/ UNCHANGED vars
  <2>1. Registered' = Registered
    BY <1>6 DEF Close, Tick, vars, Registered
  <2> QED
    BY <1>6, <2>1 DEF Close, Tick, vars, TypeOK
<1>7. CASE Flush \/ FlusherReturns \/ Submitted \/ ResultsEnd \/ BatchDone \/ FlusherDies
  <2>1. Registered' = Registered
    BY <1>7 DEF Flush, FlusherReturns, Submitted, ResultsEnd, BatchDone, FlusherDies, Registered
  <2> QED
    BY <1>7, <2>1 DEF Flush, FlusherReturns, Submitted, ResultsEnd, BatchDone, FlusherDies,
       ParkedAfterFlush, TypeOK
<1> QED
  BY <1>1, <1>2, <1>3, <1>4, <1>5, <1>6, <1>7 DEF Next, FlusherStep

\* A running thread has no call outstanding.
LEMMA RunningAnswered ==
  ASSUME EachCallInOnePlace, NEW j \in Jobs, pc[j] # "waiting"
  PROVE  answers[j] = calls[j] /\ j \notin pending /\ j \notin byId
BY DEF EachCallInOnePlace

LEMMA PlaceNext ==
  ASSUME IInv, [Next]_vars
  PROVE  EachCallInOnePlace'
<1> USE DEF IInv
<1>1. ASSUME NEW j \in Jobs, Register(j)
      PROVE  EachCallInOnePlace'
  BY <1>1 DEF Register, EachCallInOnePlace, TypeOK
<1>2. ASSUME NEW j \in Jobs, Complete(j)
      PROVE  EachCallInOnePlace'
  <2>1. answers[j] = calls[j] /\ j \notin pending /\ j \notin byId
    BY <1>2, RunningAnswered DEF Complete
  <2> QED
    BY <1>2, <2>1 DEF Complete, EachCallInOnePlace, TypeOK
<1>3. ASSUME NEW j \in Jobs, Receive(j)
      PROVE  EachCallInOnePlace'
  BY <1>3 DEF Receive, Answered, EachCallInOnePlace, TypeOK
<1>4. ASSUME NEW j \in Jobs, Unregister(j)
      PROVE  EachCallInOnePlace'
  BY <1>4 DEF Unregister, EachCallInOnePlace, TypeOK
<1>5. ASSUME NEW j \in Jobs, HandBack(j) \/ FailRest(j)
      PROVE  EachCallInOnePlace'
  BY <1>5 DEF HandBack, FailRest, Answer, EachCallInOnePlace, TypeOK
<1>6. CASE Flush
  <2>1. byId = {}
    BY <1>6 DEF Flush, Quiet
  <2> QED
    BY <1>6, <2>1 DEF Flush, ParkedAfterFlush, EachCallInOnePlace
<1>7. CASE BatchDone
  BY <1>7 DEF BatchDone, AllAnswered, EachCallInOnePlace
<1>8. CASE Close \/ Tick \/ FlusherReturns \/ Submitted \/ ResultsEnd \/ FlusherDies
           \/ UNCHANGED vars
  BY <1>8 DEF Close, Tick, FlusherReturns, Submitted, ResultsEnd, FlusherDies, vars,
     EachCallInOnePlace
<1> QED
  BY <1>1, <1>2, <1>3, <1>4, <1>5, <1>6, <1>7, <1>8 DEF Next, FlusherStep

LEMMA QuietNext ==
  ASSUME IInv, [Next]_vars
  PROVE  Quiet'
<1> USE DEF IInv
<1>1. ASSUME NEW j \in Jobs, Register(j) \/ Complete(j) \/ Receive(j) \/ Unregister(j)
      PROVE  Quiet'
  BY <1>1 DEF Register, Complete, Receive, Unregister, Quiet
<1>2. ASSUME NEW j \in Jobs, HandBack(j) \/ FailRest(j)
      PROVE  Quiet'
  BY <1>2 DEF HandBack, FailRest, Answer, Quiet
<1>3. CASE Close \/ Tick \/ UNCHANGED vars
  BY <1>3 DEF Close, Tick, vars, Quiet
<1>4. CASE Flush \/ FlusherReturns \/ Submitted \/ ResultsEnd \/ BatchDone \/ FlusherDies
  BY <1>4 DEF Flush, FlusherReturns, Submitted, ResultsEnd, BatchDone, FlusherDies, Quiet
<1> QED
  BY <1>1, <1>2, <1>3, <1>4 DEF Next, FlusherStep

LEMMA BatchInit == Init => IInv
<1> SUFFICES ASSUME Init
             PROVE  IInv
  OBVIOUS
<1>1. Registered = {} /\ Cardinality(Registered) = 0
  BY FS_EmptySet DEF Init, Registered
<1>2. calls \in [Jobs -> 0..MaxCalls] /\ answers \in [Jobs -> Nat]
  BY BatchAssumption DEF Init
<1>3. TypeOK
  BY <1>1, <1>2 DEF Init, TypeOK
<1>4. EachCallInOnePlace /\ Quiet
  BY DEF Init, EachCallInOnePlace, Quiet
<1> QED
  BY <1>3, <1>4 DEF IInv

LEMMA BatchInv == Spec => []IInv
<1>1. IInv /\ [Next]_vars => IInv'
  BY TypeNext, PlaceNext, QuietNext DEF IInv
<1> QED
  BY BatchInit, <1>1, PTL DEF Spec

------------------------------------------------------------------------------

\* The worker count is the number of registered threads, whatever order they
\* register, wait and leave in (TypeOK).
THEOREM BatchTypeSafety == Spec => []TypeOK
BY BatchInv, PTL DEF IInv

\* Each call is parked, submitted or answered, and answered once
\* (EachCallInOnePlace), also when the API loses results or fails midway.
THEOREM PlaceSafety == Spec => []EachCallInOnePlace
BY BatchInv, PTL DEF IInv

\* A batch holds the call of every registered run, or is overdue
\* (BatchWhenAllWait).
THEOREM BatchSafety == Spec => BatchWhenAllWait
<1>1. ASSUME IInv, Flush
      PROVE  overdue \/ \A j \in Registered : j \in byId'
  <2>1. CASE stopped
    BY <1>1, <2>1 DEF IInv, Quiet, Registered
  <2>2. CASE Ready
    <3>1. pending \subseteq Registered
      BY <1>1 DEF IInv, EachCallInOnePlace, TypeOK, Registered
    <3>2. Cardinality(pending) <= Cardinality(Registered) /\ Cardinality(pending) \in Nat
      BY <3>1, RegisteredFinite, FS_Subset, FS_CardinalityType
    <3>3. ~overdue => Cardinality(pending) = Cardinality(Registered)
      BY <1>1, <2>2, <3>2, RegisteredFinite DEF IInv, TypeOK, Ready
    <3>4. ~overdue => pending = Registered
      BY <3>1, <3>3, RegisteredFinite, FS_Subset
    <3> QED
      BY <1>1, <3>4 DEF Flush
  <2> QED
    BY <1>1, <2>1, <2>2 DEF Flush
<1>2. IInv /\ [Next]_vars => [Flush => overdue \/ \A j \in Registered : j \in byId']_vars
  BY <1>1
<1> QED
  BY <1>2, BatchInv, PTL DEF Spec, BatchWhenAllWait
=============================================================================
