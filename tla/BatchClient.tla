------------------------------ MODULE BatchClient ------------------------------
(***************************************************************************)
(* The Batch API client (llm/batch_client.py) under the evaluation harness *)
(* that uses it (evals/run_eval.py): one thread per pipeline run, each     *)
(* blocked on at most one LLM call, and the flusher thread that parks the  *)
(* calls, submits them together and hands the results back.                *)
(***************************************************************************)
EXTENDS Naturals, FiniteSets

CONSTANTS
  Jobs,         \* pipeline runs, each in a thread of the pool
  MaxCalls,     \* bound: LLM calls of a run
  Unexpected    \* exceptions other than anthropic.APIError reach the flusher

ASSUME BatchAssumption ==
  /\ IsFiniteSet(Jobs)
  /\ MaxCalls \in Nat
  /\ Unexpected \in BOOLEAN

VARIABLES
  pc,         \* job -> idle, running (registered), waiting on its future, done
  calls,      \* job -> calls it has made
  answers,    \* job -> answers its futures were given
  pending,    \* _pending: jobs with a parked call
  active,     \* _active_workers
  overdue,    \* the oldest parked call has waited max_wait_s
  flusher,    \* wait (for the condition), submit, collect, fail, returned, dead
  byId,       \* by_id: jobs of the submitted batch not answered yet
  stopped     \* _stopped

vars == <<pc, calls, answers, pending, active, overdue, flusher, byId, stopped>>

Init ==
  /\ pc = [j \in Jobs |-> "idle"]
  /\ calls = [j \in Jobs |-> 0] /\ answers = [j \in Jobs |-> 0]
  /\ pending = {} /\ active = 0 /\ overdue = FALSE
  /\ flusher = "wait" /\ byId = {} /\ stopped = FALSE

Registered == {j \in Jobs : pc[j] \in {"running", "waiting"}}

------------------------------------------------------------------------------
(* The runs of the harness.                                                *)

\* A thread of the pool takes the job: worker() registers it.
Register(j) ==
  /\ pc[j] = "idle"
  /\ pc' = [pc EXCEPT ![j] = "running"]
  /\ active' = active + 1
  /\ UNCHANGED <<calls, answers, pending, overdue, flusher, byId, stopped>>

\* complete(): the call is parked and the thread waits for its future.
Complete(j) ==
  /\ pc[j] = "running" /\ calls[j] < MaxCalls   \* bound
  /\ pc' = [pc EXCEPT ![j] = "waiting"]
  /\ calls' = [calls EXCEPT ![j] = @ + 1]
  /\ pending' = pending \union {j}
  /\ UNCHANGED <<answers, active, overdue, flusher, byId, stopped>>

Answered(j) == answers[j] = calls[j]

\* The future has a result or an exception; what the run does then, it does
\* between this call and the next one.
Receive(j) ==
  /\ pc[j] = "waiting" /\ Answered(j)
  /\ pc' = [pc EXCEPT ![j] = "running"]
  /\ UNCHANGED <<calls, answers, pending, active, overdue, flusher, byId, stopped>>

CountedOnly(j) == active

ActiveWithout(j) == active - 1

\* The run ended, paused runs having been resumed by the harness, or raised.
Unregister(j) ==
  /\ pc[j] = "running"
  /\ pc' = [pc EXCEPT ![j] = "done"]
  /\ active' = ActiveWithout(j)
  /\ UNCHANGED <<calls, answers, pending, overdue, flusher, byId, stopped>>

\* The harness closes the client when the pool has run every job.
Close ==
  /\ ~stopped /\ \A j \in Jobs : pc[j] = "done"
  /\ stopped' = TRUE
  /\ UNCHANGED <<pc, calls, answers, pending, active, overdue, flusher, byId>>

\* Time passes.
Tick ==
  /\ pending # {} /\ ~overdue
  /\ overdue' = TRUE
  /\ UNCHANGED <<pc, calls, answers, pending, active, flusher, byId, stopped>>

------------------------------------------------------------------------------
(* The flusher. Its wait() has a timeout, so no notification can be missed. *)

ReadyOneEarly ==
  pending # {} /\ (Cardinality(pending) + 1 >= active \/ overdue)

Ready ==
  pending # {} /\ (Cardinality(pending) >= active \/ overdue)

ParkedStays == pending

\* What stays parked when a batch is taken.
ParkedAfterFlush == {}

Flush ==
  /\ flusher = "wait" /\ (stopped \/ Ready) /\ pending # {}
  /\ flusher' = "submit"
  /\ byId' = pending
  /\ pending' = ParkedAfterFlush
  /\ overdue' = FALSE
  /\ UNCHANGED <<pc, calls, answers, active, stopped>>

NotWoken == FALSE

Stopping == stopped /\ pending = {}

FlusherReturns ==
  /\ flusher = "wait" /\ Stopping
  /\ flusher' = "returned"
  /\ UNCHANGED <<pc, calls, answers, pending, active, overdue, byId, stopped>>

\* create() and the polling until the batch has ended.
Submitted ==
  /\ flusher = "submit"
  /\ flusher' = "collect"
  /\ UNCHANGED <<pc, calls, answers, pending, active, overdue, byId, stopped>>

Answer(j) ==
  /\ answers' = [answers EXCEPT ![j] = @ + 1]
  /\ byId' = byId \ {j}

\* One line of the results: a response or an LLMError. A line of a call that is
\* not in by_id, or no longer, is skipped.
HandBack(j) ==
  /\ flusher = "collect" /\ j \in byId
  /\ Answer(j)
  /\ UNCHANGED <<pc, calls, pending, active, overdue, flusher, stopped>>

\* The results have ended, or an APIError ends the submission, the polling or
\* the reading: the calls without an answer get an exception.
ResultsEnd ==
  /\ flusher \in {"submit", "collect"}
  /\ flusher' = "fail"
  /\ UNCHANGED <<pc, calls, answers, pending, active, overdue, byId, stopped>>

FailRest(j) ==
  /\ flusher = "fail" /\ j \in byId
  /\ Answer(j)
  /\ UNCHANGED <<pc, calls, pending, active, overdue, flusher, stopped>>

IgnoreMissing == TRUE

AllAnswered == byId = {}

BatchDone ==
  /\ flusher = "fail" /\ AllAnswered
  /\ flusher' = "wait"
  /\ byId' = {}
  /\ UNCHANGED <<pc, calls, answers, pending, active, overdue, stopped>>

\* An exception that is not an APIError ends the thread.
FlusherDies ==
  /\ Unexpected /\ flusher \in {"submit", "collect"}
  /\ flusher' = "dead"
  /\ UNCHANGED <<pc, calls, answers, pending, active, overdue, byId, stopped>>

FlusherStep ==
  \/ Flush \/ FlusherReturns \/ Submitted \/ ResultsEnd \/ BatchDone \/ FlusherDies
  \/ \E j \in Jobs : HandBack(j) \/ FailRest(j)

Next ==
  \/ \E j \in Jobs : Register(j) \/ Complete(j) \/ Receive(j) \/ Unregister(j)
  \/ Close \/ Tick \/ FlusherStep

Spec == Init /\ [][Next]_vars

\* Threads run, time passes, and every batch ends at the API or fails.
FairSpec ==
  /\ Spec
  /\ \A j \in Jobs : WF_vars(Register(j)) /\ WF_vars(Receive(j))
  /\ \A j \in Jobs : WF_vars(Complete(j) \/ Unregister(j))
  /\ WF_vars(Close) /\ WF_vars(Tick) /\ WF_vars(FlusherStep)

------------------------------------------------------------------------------
(* Correctness.                                                            *)

\* Type invariant; the worker count is that of the registered threads
\* (BatchingLLMClient.worker).
TypeOK ==
  /\ pc \in [Jobs -> {"idle", "running", "waiting", "done"}]
  /\ calls \in [Jobs -> 0..MaxCalls] /\ answers \in [Jobs -> Nat]
  /\ pending \subseteq Jobs /\ byId \subseteq Jobs
  /\ active = Cardinality(Registered)
  /\ overdue \in BOOLEAN /\ stopped \in BOOLEAN
  /\ flusher \in {"wait", "submit", "collect", "fail", "returned", "dead"}

\* A call without an answer is parked or in the submitted batch, never in both,
\* and one with an answer in neither: no future is set twice, whatever the API
\* answers, loses or refuses (BatchingLLMClient._submit).
EachCallInOnePlace ==
  /\ pending \intersect byId = {}
  /\ \A j \in Jobs :
       /\ j \in pending \union byId <=> answers[j] # calls[j]
       /\ j \in pending \union byId => answers[j] + 1 = calls[j] /\ pc[j] = "waiting"

\* A batch is submitted when every registered run waits in it, or its oldest
\* call is overdue: a run between two calls is not left out
\* (BatchingLLMClient._ready).
BatchWhenAllWait ==
  [][Flush => overdue \/ \A j \in Registered : j \in byId']_vars

\* Every call is answered, through lost results and API errors, unless an
\* exception of another kind has ended the flusher (BatchingLLMClient._submit).
CallsAnswered ==
  \A j \in Jobs : pc[j] = "waiting" ~> pc[j] # "waiting" \/ flusher = "dead"

\* The harness comes to its end: every run is done, and the flusher with it,
\* with the same exception.
HarnessEnds == <>(flusher \in {"returned", "dead"})
=============================================================================
