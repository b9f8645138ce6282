------------------------------ MODULE RunService ------------------------------
(***************************************************************************)
(* One run as the service's threads see it (services/run_service.py and    *)
(* the routes of api/app.py): the background task that starts it, reviewers*)
(* who look at a pending review and post a decision, the background tasks  *)
(* that apply decisions, pollers, exceptions and restarts of the process.  *)
(* The graph is reduced to what these threads tell apart: work, a review   *)
(* that is paused or about to pause, and an end.                           *)
(***************************************************************************)
EXTENDS Naturals

CONSTANTS
  Reviewers,    \* reviewers' requests, each a decision on one review
  Start,        \* the background task of POST /runs
  NoThread,
  EmptyReviews, \* escalations whose stage has produced no artifact
  MaxReviews,   \* bound: escalations of the run
  MaxCrashes    \* bound: restarts of the process

ASSUME ServiceAssumption ==
  /\ Start \notin Reviewers
  /\ NoThread \notin Reviewers \union {Start}
  /\ MaxReviews \in Nat /\ MaxCrashes \in Nat
  /\ EmptyReviews \subseteq 1..MaxReviews

Threads == Reviewers \union {Start}

Actions == {"accept_as_is", "retry", "abort"}

\* A checkpoint: the stored status, the node left to run, the number of
\* escalations so far, whether the last one's interrupt is recorded
\* (snapshot.interrupts), and human_decisions: whose request each escalation
\* was decided by.
Checkpoint(status, node, review, paused, decided) ==
  [status |-> status, node |-> node, review |-> review, paused |-> paused,
   decided |-> decided]

Undecided    == [review \in 1..MaxReviews |-> NoThread]
NoCheckpoint == Checkpoint("none", "none", 0, FALSE, Undecided)
Fresh        == Checkpoint("running", "work", 0, FALSE, Undecided)

Decisions == [1..MaxReviews -> Reviewers \union {NoThread}]

Checkpoints ==
  {NoCheckpoint} \union
    {c \in [status : {"running", "blocked_for_human", "complete", "aborted"},
            node : {"work", "review", "end"}, review : 0..MaxReviews,
            paused : BOOLEAN, decided : Decisions] :
       /\ c.status = "running" <=> c.node = "work"
       /\ c.status = "blocked_for_human" <=> c.node = "review"
       /\ c.node = "review" => c.review > 0
       /\ c.paused => c.node = "review"}

\* A thread: before its request, answered 202 (accepted) or 409 (refused),
\* past the check of resume, in _invoke waiting for the run's lock, executing
\* the graph, out of the lock but not of the active set, and how it ended.
Final == {"refused", "dropped", "returned", "raised", "killed"}
Invoking == {"waiting", "executing", "leaving", "failing"}
PCs   == {"idle", "looked", "accepted", "checked"} \union Invoking \union Final

VARIABLES
  checkpoint,   \* the run's latest row in the checkpointer's database
  pc,           \* thread -> where it is
  seen,         \* reviewer -> the review the decision is about
  chosen,       \* reviewer -> the action decided on
  memory,       \* thread -> the checkpoint its invocation has come to
  inHand,       \* thread -> its Command(resume=...) is not consumed yet
  lock,         \* holder of the run's lock
  active,       \* the run's id is in the active set
  snapshot,     \* what a poller read of the checkpoint, or NoSnapshot
  crashes

vars == <<checkpoint, pc, seen, chosen, memory, inHand, lock, active, snapshot,
          crashes>>

NoSnapshot == [status |-> "none", hasNext |-> FALSE, pending |-> FALSE]

Init ==
  /\ checkpoint = NoCheckpoint
  /\ pc = [t \in Threads |-> IF t = Start THEN "checked" ELSE "idle"]
  /\ seen = [t \in Reviewers |-> 0]
  /\ chosen = [t \in Reviewers |-> "retry"]
  /\ memory = [t \in Threads |-> NoCheckpoint]
  /\ inHand = [t \in Threads |-> FALSE]
  /\ lock = NoThread
  /\ active = FALSE
  /\ snapshot = NoSnapshot
  /\ crashes = 0

------------------------------------------------------------------------------
(* Reviewers and their requests.                                           *)

\* A reviewer reads the pending review (GET /runs/{id} or the review panel)
\* and decides.
Look(t) ==
  /\ pc[t] = "idle" /\ checkpoint.paused
  /\ pc' = [pc EXCEPT ![t] = "looked"]
  /\ seen' = [seen EXCEPT ![t] = checkpoint.review]
  /\ \E action \in Actions : chosen' = [chosen EXCEPT ![t] = action]
  /\ UNCHANGED <<checkpoint, memory, inHand, lock, active,
                 snapshot, crashes>>

\* The run awaits review, and an acceptance has something to accept.
Admissible(t) ==
  /\ checkpoint.paused
  /\ chosen[t] = "accept_as_is" => checkpoint.review \notin EmptyReviews

\* POST /runs/{id}/resume: 202 and a background task, or 409.
Post(t) ==
  /\ pc[t] = "looked"
  /\ pc' = [pc EXCEPT ![t] = IF Admissible(t) THEN "accepted" ELSE "refused"]
  /\ UNCHANGED <<checkpoint, seen, chosen, memory, inHand, lock, active, snapshot, crashes>>

\* The task: resume checks again, and what it raises is only logged.
Check(t) ==
  /\ pc[t] = "accepted"
  /\ pc' = [pc EXCEPT ![t] = IF Admissible(t) THEN "checked" ELSE "dropped"]
  /\ UNCHANGED <<checkpoint, seen, chosen, memory, inHand, lock, active, snapshot, crashes>>

------------------------------------------------------------------------------
(* _invoke.                                                                *)

Enter(t) ==
  /\ pc[t] = "checked"
  /\ pc' = [pc EXCEPT ![t] = "waiting"]
  /\ active' = TRUE
  /\ UNCHANGED <<checkpoint, seen, chosen, memory, inHand, lock,
                 snapshot, crashes>>

NoLock == TRUE

LockFree == lock = NoThread

\* graph.invoke loads the checkpoint; a new run's input becomes its first one.
\* Only a review consumes a resume value, and only in the first superstep.
Acquire(t) ==
  /\ pc[t] = "waiting" /\ LockFree
  /\ lock' = t
  /\ pc' = [pc EXCEPT ![t] = "executing"]
  /\ memory' = [memory EXCEPT ![t] = IF t = Start THEN Fresh ELSE checkpoint]
  /\ inHand' = [inHand EXCEPT ![t] = t # Start /\ checkpoint.node = "review"]
  /\ UNCHANGED <<checkpoint, seen, chosen, active, snapshot, crashes>>

\* A superstep of t's invocation ends with a new checkpoint.
Superstep(t, node, next) ==
  /\ pc[t] = "executing" /\ memory[t].node = node
  /\ memory' = [memory EXCEPT ![t] = next]
  /\ UNCHANGED <<checkpoint, pc, seen, chosen, lock, active, snapshot, crashes>>

\* LangGraph stores checkpoints while the next superstep already executes.
Commit(t) ==
  /\ pc[t] = "executing" /\ checkpoint # memory[t]
  /\ checkpoint' = memory[t]
  /\ UNCHANGED <<pc, seen, chosen, memory, inHand, lock, active, snapshot, crashes>>

\* A gate escalates: the next superstep is the review node.
Escalate(t) ==
  /\ memory[t].review < MaxReviews   \* bound
  /\ Superstep(t, "work",
       Checkpoint("blocked_for_human", "review", memory[t].review + 1, FALSE,
                  memory[t].decided))
  /\ UNCHANGED inHand

Finish(t) ==
  /\ Superstep(t, "work",
       Checkpoint("complete", "end", memory[t].review, FALSE, memory[t].decided))
  /\ UNCHANGED inHand

\* An acceptance of nothing is an abort.
Effective(action, review) ==
  IF action = "accept_as_is" /\ review \in EmptyReviews THEN "abort" ELSE action

LatestDecisionOnly(decided, review, t) == [Undecided EXCEPT ![review] = t]

\* The reducer of human_decisions appends.
AddDecision(decided, review, t) == [decided EXCEPT ![review] = t]

ForgetStatus(action, review, decided) ==
  IF action = "abort" THEN Checkpoint("blocked_for_human", "end", review, FALSE, decided)
  ELSE Checkpoint("running", "work", review, FALSE, decided)

AfterDecision(action, review, decided) ==
  IF action = "abort" THEN Checkpoint("aborted", "end", review, FALSE, decided)
  ELSE Checkpoint("running", "work", review, FALSE, decided)

\* The review node takes the decision in hand.
Decide(t) ==
  /\ t \in Reviewers /\ inHand[t]
  /\ LET review == memory[t].review
     IN  Superstep(t, "review",
           AfterDecision(Effective(chosen[t], review), review,
                         AddDecision(memory[t].decided, review, t)))
  /\ inHand' = [inHand EXCEPT ![t] = FALSE]

\* interrupt() without a decision in hand is recorded.
Pause(t) ==
  /\ ~inHand[t] /\ ~memory[t].paused
  /\ Superstep(t, "review",
       Checkpoint("blocked_for_human", "review", memory[t].review, TRUE,
                  memory[t].decided))
  /\ UNCHANGED inHand

HeldOnRaise(exit) == IF exit = "failing" THEN lock ELSE NoThread

LockAfter(exit) == NoThread

\* The invocation ends and leaves the lock; the active set not yet.
LeaveLock(t, exit) ==
  /\ pc[t] = "executing"
  /\ pc' = [pc EXCEPT ![t] = exit]
  /\ lock' = LockAfter(exit)
  /\ memory' = [memory EXCEPT ![t] = NoCheckpoint]
  /\ inHand' = [inHand EXCEPT ![t] = FALSE]
  /\ UNCHANGED <<seen, chosen, active, snapshot, crashes>>

\* Paused, or nothing is left to run. invoke waits for the checkpoints to be
\* stored.
Return(t) ==
  /\ memory[t].node = "end" \/ (memory[t].paused /\ ~inHand[t])
  /\ LeaveLock(t, "leaving")
  /\ checkpoint' = memory[t]

\* A node raises, its superstep leaving no checkpoint, or the checkpointer, and
\* then the last ones may not be stored.
Raise(t) ==
  /\ LeaveLock(t, "failing")
  /\ checkpoint' \in {checkpoint, memory[t]}

KeptOnFailure(t) == active /\ pc[t] = "failing"

\* `finally` takes the run's id out of the active set, whoever put it there.
ActiveAfter(t) == FALSE

\* An exception becomes a run_failed row (module AuditedRun), unless its append
\* raises as well; `finally` leaves the active set either way.
Leave(t) ==
  /\ pc[t] \in {"leaving", "failing"}
  /\ pc' = [pc EXCEPT ![t] = IF @ = "failing" THEN "raised" ELSE "returned"]
  /\ active' = ActiveAfter(t)
  /\ UNCHANGED <<checkpoint, seen, chosen, memory, inHand, lock, snapshot, crashes>>

------------------------------------------------------------------------------
(* Restarts and polls.                                                     *)

MemoryOnly(c) == NoCheckpoint

\* The database outlives the process, and only the database does.
AfterCrash(c) == c

\* The process stops and starts again. Its threads are gone, with the locks and
\* the active set; a reviewer who has only looked is not.
Crash ==
  /\ crashes < MaxCrashes   \* bound
  /\ crashes' = crashes + 1
  /\ pc' = [t \in Threads |->
              IF pc[t] \in {"accepted", "checked"} \union Invoking THEN "killed"
              ELSE pc[t]]
  /\ checkpoint' = AfterCrash(checkpoint)
  /\ lock' = NoThread /\ active' = FALSE
  /\ memory' = [t \in Threads |-> NoCheckpoint]
  /\ inHand' = [t \in Threads |-> FALSE]
  /\ snapshot' = NoSnapshot
  /\ UNCHANGED <<seen, chosen>>

SnapshotOf(c, hasNext) ==
  [status |-> c.status, hasNext |-> hasNext, pending |-> c.paused]

Executing == \E t \in Threads : pc[t] = "executing"

\* state() reads the checkpoint. Between two supersteps of an invocation
\* LangGraph can show one without a node left to run.
PollSnapshot ==
  /\ snapshot = NoSnapshot /\ checkpoint # NoCheckpoint
  /\ \E hasNext \in IF Executing THEN {FALSE, checkpoint.node # "end"}
                     ELSE {checkpoint.node # "end"} :
       snapshot' = SnapshotOf(checkpoint, hasNext)
  /\ UNCHANGED <<checkpoint, pc, seen, chosen, memory, inHand, lock, active, crashes>>

\* What state() makes of a snapshot and of the active set.
StatusOf(snap, isActive) ==
  LET status == IF snap.pending THEN "blocked_for_human"
                ELSE IF snap.status = "blocked_for_human" THEN "running"
                ELSE snap.status
  IN  IF status = "running" /\ ~snap.hasNext /\ ~isActive THEN "failed" ELSE status

\* The active set is read after the snapshot, under a lock of its own; the
\* status returned is StatusOf(snapshot, active).
PollReport ==
  /\ snapshot # NoSnapshot
  /\ snapshot' = NoSnapshot
  /\ UNCHANGED <<checkpoint, pc, seen, chosen, memory, inHand, lock, active, crashes>>

------------------------------------------------------------------------------

\* One step of a task the server has accepted.
TaskStep(t) ==
  \/ Enter(t) \/ Acquire(t) \/ Commit(t)
  \/ Escalate(t) \/ Finish(t) \/ Decide(t) \/ Pause(t) \/ Return(t) \/ Raise(t)
  \/ Leave(t)

Next ==
  \/ \E t \in Reviewers : Look(t) \/ Post(t) \/ Check(t)
  \/ \E t \in Threads : TaskStep(t)
  \/ Crash \/ PollSnapshot \/ PollReport

Spec == Init /\ [][Next]_vars

\* The server runs its background tasks; nobody has to look, post or poll.
FairSpec ==
  /\ Spec
  /\ \A t \in Reviewers : WF_vars(Check(t))
  /\ \A t \in Threads : WF_vars(TaskStep(t))

------------------------------------------------------------------------------
(* Correctness.                                                            *)

\* Type invariant; Checkpoints says which nodes can be pending under which
\* status, whoever stored it last (RunService._invoke, HumanDecision).
TypeOK ==
  /\ checkpoint \in Checkpoints
  /\ pc \in [Threads -> PCs]
  /\ seen \in [Reviewers -> 0..MaxReviews]
  /\ chosen \in [Reviewers -> Actions]
  /\ memory \in [Threads -> Checkpoints]
  /\ inHand \in [Threads -> BOOLEAN]
  /\ lock \in Threads \union {NoThread}
  /\ active \in BOOLEAN
  /\ crashes \in 0..MaxCrashes

\* The escalations behind the run, and only those, have a decision in
\* human_decisions: none is skipped and none answered before it is presented.
DecisionsComplete ==
  \A review \in 1..MaxReviews :
    checkpoint.decided[review] # NoThread <=>
      \/ review < checkpoint.review
      \/ review = checkpoint.review /\ checkpoint.node # "review"

\* However many reviewers were told 202 for it (app.py resume_run), one review
\* takes one decision for good: the per-run lock serialises their invocations
\* and a later one finds the review gone, or another one.
DecisionsStand ==
  [][\A review \in 1..MaxReviews :
       checkpoint.decided[review] # NoThread =>
         checkpoint'.decided[review] = checkpoint.decided[review]]_vars

\* A pending review stays pending until a decision is applied to it, through
\* other requests, failing invocations and restarts of the process.
ReviewSurvives ==
  [][checkpoint.paused /\ checkpoint' # checkpoint =>
       checkpoint'.decided[checkpoint.review] # NoThread]_vars

\* When no invocation is left, the run's id is out of the active set, however
\* each of them ended (the `finally` of _invoke).
ActiveDrains == active => \E t \in Threads : pc[t] \in Invoking

\* A decision answered 202 and then dropped by its task, which only logs the
\* error (app.py, _run_in_background), was about a review that another decision
\* has settled: dropping it loses nothing.
DroppedWasSuperseded ==
  \A t \in Reviewers :
    pc[t] = "dropped" => checkpoint.decided[seen[t]] # NoThread

\* Every background task the server accepted ends: none waits for ever for the
\* run's lock.
TasksEnd == \A t \in Threads : pc[t] \in {"accepted", "checked"} ~> pc[t] \in Final

------------------------------------------------------------------------------
(* What the documentation and the tests say, and the code does not keep.   *)

\* tests/integration/test_run_status.py:1: a run must never be reported
\* "failed" while it is still executing.
NeverFailedWhileExecuting ==
  [][PollReport /\ StatusOf(snapshot, active) = "failed" => ~Executing]_vars

\* docs/ui-and-orchestrator.md:89: an escalation pauses the graph until a
\* reviewer decides; the decision taken is the one made on this escalation.
DecisionsAnswerTheirReview ==
  \A review \in 1..MaxReviews :
    checkpoint.decided[review] # NoThread => seen[checkpoint.decided[review]] = review

\* docs/governance.md:93: the run-status logic distinguishes "executing here"
\* from "stopped": a run that stopped in the middle is not reported running.
StoppedRunIsReported ==
  (checkpoint # NoCheckpoint /\ \A t \in Threads : pc[t] \notin Invoking) =>
    StatusOf(SnapshotOf(checkpoint, checkpoint.node # "end"), active) # "running"
=============================================================================
