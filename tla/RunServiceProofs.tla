--------------------------- MODULE RunServiceProofs ---------------------------
(***************************************************************************)
(* Proofs about RunService, for every number of reviewers, escalations and *)
(* restarts of the process.                                                *)
(***************************************************************************)
EXTENDS RunService, TLAPS

------------------------------------------------------------------------------
(* The invariant.                                                          *)

\* Exactly the escalations behind the checkpoint c have a decision.
Complete(c) ==
  \A review \in 1..MaxReviews :
    c.decided[review] # NoThread <=>
      review < c.review \/ (review = c.review /\ c.node # "review")

\* The run can go from checkpoint c to d: decisions stand, and a pending review
\* is left by deciding it.
Extends(c, d) ==
  /\ \A review \in 1..MaxReviews :
       c.decided[review] # NoThread => d.decided[review] = c.decided[review]
  /\ c.paused /\ d # c => d.decided[c.review] # NoThread

\* Only the holder of the lock executes, ahead of the database.
Exclusive ==
  \A t \in Threads : pc[t] = "executing" =>
    /\ lock = t
    /\ memory[t] # NoCheckpoint /\ Complete(memory[t])
    /\ Extends(checkpoint, memory[t])

\* Before the first invocation there is no checkpoint, and without one nobody
\* has anything to review.
Pristine ==
  /\ pc[Start] \in {"checked", "waiting"} => checkpoint = NoCheckpoint
  /\ checkpoint = NoCheckpoint => \A t \in Reviewers : pc[t] = "idle"

IInv == TypeOK /\ Exclusive /\ Pristine /\ Complete(checkpoint)

------------------------------------------------------------------------------
(* Lemmas about checkpoints.                                               *)

\* What a superstep stores is a checkpoint.
LEMMA CheckpointMembers ==
  /\ Undecided \in Decisions
  /\ NoCheckpoint \in Checkpoints /\ Fresh \in Checkpoints
  /\ \A decided \in Decisions :
       /\ \A r \in 0..MaxReviews :
            /\ Checkpoint("running", "work", r, FALSE, decided) \in Checkpoints
            /\ Checkpoint("complete", "end", r, FALSE, decided) \in Checkpoints
            /\ Checkpoint("aborted", "end", r, FALSE, decided) \in Checkpoints
       /\ \A r \in 1..MaxReviews, paused \in BOOLEAN :
            Checkpoint("blocked_for_human", "review", r, paused, decided) \in Checkpoints
<1>1. Undecided \in Decisions
  BY DEF Undecided, Decisions
<1>2. NoCheckpoint \in Checkpoints
  BY DEF Checkpoints
<1>3. ASSUME NEW decided \in Decisions, NEW r \in 0..MaxReviews
      PROVE  /\ Checkpoint("running", "work", r, FALSE, decided) \in Checkpoints
             /\ Checkpoint("complete", "end", r, FALSE, decided) \in Checkpoints
             /\ Checkpoint("aborted", "end", r, FALSE, decided) \in Checkpoints
  BY <1>3 DEF Checkpoints, Checkpoint
<1>4. ASSUME NEW decided \in Decisions, NEW r \in 1..MaxReviews, NEW paused \in BOOLEAN
      PROVE  Checkpoint("blocked_for_human", "review", r, paused, decided) \in Checkpoints
  BY <1>4, ServiceAssumption DEF Checkpoints, Checkpoint
<1>5. Fresh \in Checkpoints
  <2>1. 0 \in 0..MaxReviews
    BY ServiceAssumption
  <2>2. QED
    BY <1>1, <1>3, <2>1 DEF Fresh
<1>6. QED
  BY <1>1, <1>2, <1>3, <1>4, <1>5

\* What is known of a checkpoint from the node it leaves to run.
LEMMA CheckpointFacts ==
  ASSUME NEW c \in Checkpoints
  PROVE  /\ c.review \in 0..MaxReviews /\ c.paused \in BOOLEAN /\ c.decided \in Decisions
         /\ c = NoCheckpoint => c.node = "none" /\ c.review = 0 /\ ~c.paused
         /\ c.node = "review" => c.review \in 1..MaxReviews
         /\ c.paused => c.node = "review"
<1>1. CASE c = NoCheckpoint
  BY <1>1, ServiceAssumption, CheckpointMembers DEF NoCheckpoint, Checkpoint
<1>2. CASE c # NoCheckpoint
  <2>1. /\ c \in [status : {"running", "blocked_for_human", "complete", "aborted"},
                  node : {"work", "review", "end"}, review : 0..MaxReviews,
                  paused : BOOLEAN, decided : Decisions]
        /\ c.node = "review" => c.review > 0
        /\ c.paused => c.node = "review"
    BY <1>2 DEF Checkpoints
  <2>2. /\ c.review \in 0..MaxReviews /\ c.paused \in BOOLEAN
        /\ c.decided \in Decisions
    BY <2>1
  <2>3. c.node = "review" => c.review \in 1..MaxReviews
    BY <2>1, <2>2, ServiceAssumption
  <2>4. QED
    BY <1>2, <2>1, <2>2, <2>3
<1>3. QED
  BY <1>1, <1>2

LEMMA ExtendsReflexive == \A c : Extends(c, c)
BY DEF Extends

LEMMA ExtendsTransitive ==
  ASSUME NEW c \in Checkpoints, NEW d \in Checkpoints, NEW e \in Checkpoints,
         Extends(c, d), Extends(d, e)
  PROVE  Extends(c, e)
<1>1. \A review \in 1..MaxReviews :
        c.decided[review] # NoThread => e.decided[review] = c.decided[review]
  BY DEF Extends
<1>2. ASSUME c.paused, e # c
      PROVE  e.decided[c.review] # NoThread
  <2>1. c.review \in 1..MaxReviews
    BY <1>2, CheckpointFacts
  <2>2. CASE d = c
    BY <1>2, <2>2 DEF Extends
  <2>3. CASE d # c
    <3>1. d.decided[c.review] # NoThread
      BY <1>2, <2>3 DEF Extends
    <3>2. QED
      BY <2>1, <3>1 DEF Extends
  <2>4. QED
    BY <2>2, <2>3
<1>3. QED
  BY <1>1, <1>2 DEF Extends

------------------------------------------------------------------------------
(* Each superstep extends the checkpoint it starts from.                   *)

\* A superstep's checkpoint is well formed, complete if the one before it was,
\* and extends that one (gate_node, human_review_node, finalize_node).
LEMMA SuperstepFacts ==
  ASSUME TypeOK, NEW t \in Threads, pc[t] = "executing", Complete(memory[t]),
         Escalate(t) \/ Finish(t) \/ Decide(t) \/ Pause(t)
  PROVE  /\ memory'[t] \in Checkpoints \ {NoCheckpoint}
         /\ memory' = [memory EXCEPT ![t] = memory'[t]]
         /\ inHand' \in [Threads -> BOOLEAN]
         /\ Complete(memory'[t])
         /\ Extends(memory[t], memory'[t])
         /\ UNCHANGED <<checkpoint, pc, seen, chosen, lock, active, snapshot,
                        crashes>>
<1> DEFINE m == memory[t]
           next == memory'[t]
<1>1. /\ m \in Checkpoints /\ m.review \in 0..MaxReviews /\ m.decided \in Decisions
      /\ m.node = "review" => m.review \in 1..MaxReviews
      /\ m.paused => m.node = "review"
      /\ inHand \in [Threads -> BOOLEAN] /\ memory \in [Threads -> Checkpoints]
  BY CheckpointFacts DEF TypeOK
<1>2. /\ memory' = [memory EXCEPT ![t] = next]
      /\ UNCHANGED <<checkpoint, pc, seen, chosen, lock, active, snapshot, crashes>>
      /\ inHand' \in [Threads -> BOOLEAN]
  BY <1>1 DEF Escalate, Finish, Decide, Pause, Superstep
<1>3. ASSUME Escalate(t)
      PROVE  next \in Checkpoints \ {NoCheckpoint} /\ Complete(next) /\ Extends(m, next)
  <2>1. /\ next = Checkpoint("blocked_for_human", "review", m.review + 1, FALSE, m.decided)
        /\ m.node = "work" /\ m.review < MaxReviews
    BY <1>1, <1>3 DEF Escalate, Superstep
  <2>2. m.review + 1 \in 1..MaxReviews
    BY <1>1, <2>1, ServiceAssumption
  <2>3. /\ next \in Checkpoints \ {NoCheckpoint} /\ next.review = m.review + 1
        /\ next.node = "review" /\ next.decided = m.decided
    <3>1. next \in Checkpoints
      BY <1>1, <2>1, <2>2, CheckpointMembers
    <3>2. QED
      BY <2>1, <3>1 DEF Checkpoint, NoCheckpoint
  <2>4. Complete(next)
    <3> SUFFICES ASSUME NEW review \in 1..MaxReviews
                 PROVE  m.decided[review] # NoThread <=> review < m.review + 1
      BY <2>3 DEF Complete
    <3>1. m.decided[review] # NoThread <=> review < m.review \/ review = m.review
      BY <2>1 DEF Complete
    <3>2. review \in Nat /\ m.review \in Nat
      BY <1>1, ServiceAssumption
    <3> HIDE DEF m
    <3>3. QED
      BY <3>1, <3>2
  <2>5. Extends(m, next)
    BY <1>1, <2>1, <2>3 DEF Extends
  <2>6. QED
    BY <2>3, <2>4, <2>5
<1>4. ASSUME Finish(t)
      PROVE  next \in Checkpoints \ {NoCheckpoint} /\ Complete(next) /\ Extends(m, next)
  <2>1. /\ next = Checkpoint("complete", "end", m.review, FALSE, m.decided)
        /\ m.node = "work"
    BY <1>1, <1>4 DEF Finish, Superstep
  <2>2. /\ next \in Checkpoints \ {NoCheckpoint} /\ next.review = m.review
        /\ next.node = "end" /\ next.decided = m.decided
    <3>1. next \in Checkpoints
      BY <1>1, <2>1, CheckpointMembers
    <3>2. QED
      BY <2>1, <3>1 DEF Checkpoint, NoCheckpoint
  <2>3. Complete(next)
    BY <2>1, <2>2 DEF Complete
  <2>4. Extends(m, next)
    BY <1>1, <2>1, <2>2 DEF Extends
  <2>5. QED
    BY <2>2, <2>3, <2>4
<1>5. ASSUME Decide(t)
      PROVE  next \in Checkpoints \ {NoCheckpoint} /\ Complete(next) /\ Extends(m, next)
  <2> DEFINE decided == AddDecision(m.decided, m.review, t)
  <2>1. /\ next = AfterDecision(Effective(chosen[t], m.review), m.review, decided)
        /\ m.node = "review" /\ t \in Reviewers
    BY <1>1, <1>5 DEF Decide, Superstep
  <2>2. m.review \in 1..MaxReviews
    BY <1>1, <2>1
  <2>3. /\ decided \in Decisions /\ decided[m.review] = t
        /\ \A review \in 1..MaxReviews :
             review # m.review => decided[review] = m.decided[review]
    BY <1>1, <2>1, <2>2 DEF AddDecision, Decisions
  <2> HIDE DEF decided
  <2>4. \/ next = Checkpoint("running", "work", m.review, FALSE, decided)
        \/ next = Checkpoint("aborted", "end", m.review, FALSE, decided)
    BY <2>1 DEF AfterDecision
  <2>5. /\ next \in Checkpoints \ {NoCheckpoint} /\ next.review = m.review
        /\ next.node # "review" /\ next.decided = decided
    <3>1. next \in Checkpoints
      BY <1>1, <2>3, <2>4, CheckpointMembers
    <3>2. QED
      BY <2>4, <3>1 DEF Checkpoint, NoCheckpoint
  <2>6. t # NoThread
    BY ServiceAssumption DEF Threads
  <2>7. Complete(next)
    BY <1>1, <2>1, <2>3, <2>5, <2>6 DEF Complete
  <2>8. Extends(m, next)
    BY <2>1, <2>2, <2>3, <2>5, <2>6 DEF Extends, Complete
  <2>9. QED
    BY <2>5, <2>7, <2>8
<1>6. ASSUME Pause(t)
      PROVE  next \in Checkpoints \ {NoCheckpoint} /\ Complete(next) /\ Extends(m, next)
  <2>1. /\ next = Checkpoint("blocked_for_human", "review", m.review, TRUE, m.decided)
        /\ m.node = "review" /\ ~m.paused
    BY <1>1, <1>6 DEF Pause, Superstep
  <2>2. /\ next \in Checkpoints \ {NoCheckpoint} /\ next.review = m.review
        /\ next.node = "review" /\ next.decided = m.decided
    <3>1. next \in Checkpoints
      BY <1>1, <2>1, CheckpointMembers
    <3>2. QED
      BY <2>1, <3>1 DEF Checkpoint, NoCheckpoint
  <2>3. Complete(next)
    BY <2>1, <2>2 DEF Complete
  <2>4. Extends(m, next)
    BY <2>1, <2>2 DEF Extends
  <2>5. QED
    BY <2>2, <2>3, <2>4
<1>7. QED
  BY <1>2, <1>3, <1>4, <1>5, <1>6

------------------------------------------------------------------------------
(* Type correctness.                                                       *)

\* No interleaving of a run's threads stores or loads what is no checkpoint.
LEMMA TypeStep ==
  IInv /\ [Next]_vars => TypeOK'
<1> SUFFICES ASSUME IInv, [Next]_vars
             PROVE  TypeOK'
  OBVIOUS
<1>1. TypeOK
  BY DEF IInv
<1> USE <1>1, ServiceAssumption DEF TypeOK
<1>2. ASSUME NEW t \in Reviewers, Look(t)
      PROVE  TypeOK'
  <2>1. seen' \in [Reviewers -> 0..MaxReviews]
    BY <1>2, CheckpointFacts DEF Look
  <2>2. pc' \in [Threads -> PCs]
    BY <1>2 DEF Look, Threads, PCs
  <2>3. QED
    BY <1>2, <2>1, <2>2 DEF Look
<1>3. ASSUME NEW t \in Reviewers, Post(t) \/ Check(t)
      PROVE  TypeOK'
  <2>1. pc' \in [Threads -> PCs]
    BY <1>3 DEF Post, Check, Threads, PCs, Final
  <2>2. QED
    BY <1>3, <2>1 DEF Post, Check
<1>4. ASSUME NEW t \in Threads, Enter(t)
      PROVE  TypeOK'
  <2>1. pc' \in [Threads -> PCs]
    BY <1>4 DEF Enter, PCs, Invoking
  <2>2. QED
    BY <1>4, <2>1 DEF Enter
<1>5. ASSUME NEW t \in Threads, Acquire(t)
      PROVE  TypeOK'
  <2>1. memory' \in [Threads -> Checkpoints]
    BY <1>5, CheckpointMembers DEF Acquire
  <2>2. pc' \in [Threads -> PCs]
    BY <1>5 DEF Acquire, PCs, Invoking
  <2>3. inHand' \in [Threads -> BOOLEAN]
    BY <1>5 DEF Acquire
  <2>4. QED
    BY <1>5, <2>1, <2>2, <2>3 DEF Acquire
<1>6. ASSUME NEW t \in Threads, Commit(t)
      PROVE  TypeOK'
  BY <1>6 DEF Commit
<1>7. ASSUME NEW t \in Threads, Escalate(t) \/ Finish(t) \/ Decide(t) \/ Pause(t)
      PROVE  TypeOK'
  <2>1. pc[t] = "executing"
    BY <1>7 DEF Escalate, Finish, Decide, Pause, Superstep
  <2>2. Complete(memory[t])
    BY <2>1 DEF IInv, Exclusive
  <2>3. /\ memory'[t] \in Checkpoints /\ memory' = [memory EXCEPT ![t] = memory'[t]]
        /\ inHand' \in [Threads -> BOOLEAN]
        /\ UNCHANGED <<checkpoint, pc, seen, chosen, lock, active, snapshot,
                       crashes>>
    BY <1>7, <2>1, <2>2, SuperstepFacts
  <2>4. QED
    BY <2>3
<1>8. ASSUME NEW t \in Threads, Return(t) \/ Raise(t)
      PROVE  TypeOK'
  <2>1. pc' \in [Threads -> PCs]
    BY <1>8 DEF Return, Raise, LeaveLock, PCs, Invoking
  <2>2. checkpoint' \in Checkpoints
    BY <1>8 DEF Return, Raise
  <2>3. memory' \in [Threads -> Checkpoints] /\ inHand' \in [Threads -> BOOLEAN]
    <3>1. /\ memory' = [memory EXCEPT ![t] = NoCheckpoint]
          /\ inHand' = [inHand EXCEPT ![t] = FALSE]
      BY <1>8 DEF Return, Raise, LeaveLock
    <3>2. NoCheckpoint \in Checkpoints
      BY CheckpointMembers
    <3>3. QED
      BY <3>1, <3>2
  <2>4. lock' = NoThread /\ UNCHANGED <<seen, chosen, active, snapshot, crashes>>
    BY <1>8 DEF Return, Raise, LeaveLock, LockAfter
  <2>5. QED
    BY <2>1, <2>2, <2>3, <2>4
<1>9. ASSUME NEW t \in Threads, Leave(t)
      PROVE  TypeOK'
  <2>1. pc' \in [Threads -> PCs]
    BY <1>9 DEF Leave, PCs, Final
  <2>2. QED
    BY <1>9, <2>1 DEF Leave, ActiveAfter
<1>10. CASE Crash
  <2>1. "killed" \in PCs
    BY DEF PCs, Final
  <2>2. pc' \in [Threads -> PCs]
    BY <1>10, <2>1 DEF Crash
  <2>3. crashes' \in 0..MaxCrashes
    BY <1>10 DEF Crash
  <2>4. UNCHANGED <<checkpoint, seen, chosen>>
    BY <1>10 DEF Crash, AfterCrash
  <2>5. active' = FALSE /\ lock' = NoThread
    BY <1>10 DEF Crash
  <2>6. memory' \in [Threads -> Checkpoints] /\ inHand' \in [Threads -> BOOLEAN]
    BY <1>10, CheckpointMembers DEF Crash
  <2>7. QED
    BY <2>2, <2>3, <2>4, <2>5, <2>6
<1>11. CASE PollSnapshot \/ PollReport
  BY <1>11 DEF PollSnapshot, PollReport
<1>12. CASE UNCHANGED vars
  BY <1>12 DEF vars
<1>13. QED
  BY <1>2, <1>3, <1>4, <1>5, <1>6, <1>7, <1>8, <1>9, <1>10, <1>11, <1>12
  DEF Next, TaskStep

------------------------------------------------------------------------------
(* The invariant is inductive.                                             *)

\* Requests, the active set and polls leave checkpoints alone; nobody begins to
\* execute, and only executions end.
OutsideMove ==
  /\ UNCHANGED checkpoint
  /\ \A u \in Threads :
       pc'[u] = "executing" =>
         pc[u] = "executing" /\ lock' = lock /\ memory'[u] = memory[u]
  /\ pc'[Start] \in {"checked", "waiting"} => pc[Start] \in {"checked", "waiting"}
  /\ checkpoint = NoCheckpoint => \A u \in Reviewers : pc'[u] = pc[u]

LEMMA OutsideStep ==
  ASSUME IInv, OutsideMove
  PROVE  Exclusive' /\ Pristine' /\ Complete(checkpoint)'
<1>1. checkpoint' = checkpoint /\ Complete(checkpoint)'
  BY DEF OutsideMove, IInv, Complete
<1>2. Exclusive'
  <2> SUFFICES ASSUME NEW u \in Threads, pc'[u] = "executing"
               PROVE  /\ lock' = u
                      /\ memory'[u] # NoCheckpoint /\ Complete(memory'[u])
                      /\ Extends(checkpoint', memory'[u])
    BY DEF Exclusive, Complete, Extends
  <2>1. pc[u] = "executing" /\ lock' = lock /\ memory'[u] = memory[u]
    BY DEF OutsideMove
  <2>2. QED
    BY <1>1, <2>1 DEF IInv, Exclusive
<1>3. Pristine'
  BY <1>1 DEF OutsideMove, IInv, Pristine
<1>4. QED
  BY <1>1, <1>2, <1>3

\* One step, and what it does to the database besides: the stored checkpoint
\* only moves on (RunService._invoke).
LEMMA InvStep ==
  IInv /\ [Next]_vars => IInv' /\ Extends(checkpoint, checkpoint')
<1> SUFFICES ASSUME IInv, [Next]_vars
             PROVE  IInv' /\ Extends(checkpoint, checkpoint')
  OBVIOUS
<1> USE ServiceAssumption
<1> DEFINE Goal == /\ Exclusive' /\ Pristine' /\ Complete(checkpoint)'
                   /\ Extends(checkpoint, checkpoint')
<1>1. TypeOK /\ TypeOK'
  BY TypeStep DEF IInv
<1>2. ASSUME OutsideMove
      PROVE  Goal
  BY <1>2, OutsideStep, ExtendsReflexive DEF OutsideMove
<1>3. \A t \in Threads : pc[t] = "executing" => \A u \in Threads \ {t} : pc[u] # "executing"
  BY DEF IInv, Exclusive
<1>4. ASSUME NEW t \in Reviewers, Look(t) \/ Post(t) \/ Check(t)
      PROVE  Goal
  <2>1. t # Start /\ t \in Threads /\ pc[t] \in {"idle", "looked", "accepted"}
    BY <1>4 DEF Threads, Look, Post, Check
  <2>2. /\ UNCHANGED <<checkpoint, memory, lock>>
        /\ \A u \in Threads : u # t => pc'[u] = pc[u]
        /\ pc'[t] \in {"looked", "accepted", "refused", "checked", "dropped"}
    BY <1>1, <1>4, <2>1 DEF Look, Post, Check, TypeOK
  <2>3. pc[t] = "idle" => checkpoint.paused
    BY <1>4 DEF Look, Post, Check
  <2>4. checkpoint # NoCheckpoint
    <3>1. checkpoint = NoCheckpoint => ~checkpoint.paused
      BY DEF NoCheckpoint, Checkpoint
    <3>2. QED
      BY <2>3, <3>1 DEF IInv, Pristine
  <2>5. OutsideMove
    BY <2>1, <2>2, <2>4 DEF OutsideMove, Threads
  <2>6. QED
    BY <1>2, <2>5
<1>5. ASSUME NEW t \in Threads, Enter(t) \/ Leave(t)
      PROVE  Goal
  <2>1. /\ UNCHANGED <<checkpoint, memory, lock>>
        /\ \A u \in Threads : u # t => pc'[u] = pc[u]
        /\ pc[t] \in {"checked", "leaving", "failing"}
        /\ pc'[t] # "executing" /\ pc'[t] # "checked"
        /\ pc'[t] = "waiting" => pc[t] = "checked"
    BY <1>1, <1>5 DEF Enter, Leave, TypeOK
  <2>2. checkpoint = NoCheckpoint => t \notin Reviewers
    BY <2>1 DEF IInv, Pristine
  <2>3. OutsideMove
    BY <2>1, <2>2 DEF OutsideMove, Threads
  <2>4. QED
    BY <1>2, <2>3
<1>6. ASSUME Crash
      PROVE  Goal
  <2>1. /\ UNCHANGED checkpoint
        /\ \A u \in Threads :
             /\ pc'[u] \notin {"accepted", "checked", "waiting", "executing"}
             /\ pc[u] = "idle" => pc'[u] = "idle"
    BY <1>6 DEF Crash, AfterCrash, Invoking
  <2>2. checkpoint = NoCheckpoint => \A u \in Reviewers : pc'[u] = pc[u]
    BY <2>1 DEF Threads, IInv, Pristine
  <2>3. OutsideMove
    BY <2>1, <2>2 DEF OutsideMove, Threads
  <2>4. QED
    BY <1>2, <2>3
<1>7. ASSUME PollSnapshot \/ PollReport \/ UNCHANGED vars
      PROVE  Goal
  <2>1. UNCHANGED <<checkpoint, pc, memory, lock>>
    BY <1>7 DEF PollSnapshot, PollReport, vars
  <2>2. OutsideMove
    BY <2>1 DEF OutsideMove
  <2>3. QED
    BY <1>2, <2>2
<1>8. ASSUME NEW t \in Threads, Acquire(t)
      PROVE  Goal
  <2> DEFINE loaded == IF t = Start THEN Fresh ELSE checkpoint
  <2>1. /\ lock' = t /\ pc[t] = "waiting" /\ pc'[t] = "executing"
        /\ memory'[t] = loaded /\ checkpoint' = checkpoint
        /\ \A u \in Threads \ {t} : pc'[u] = pc[u]
    BY <1>1, <1>8 DEF Acquire, TypeOK
  <2>2. \A u \in Threads : pc[u] # "executing"
    BY <1>8 DEF Acquire, LockFree, IInv, Exclusive, Threads
  <2>3. /\ t = Start => checkpoint = NoCheckpoint
        /\ t # Start => checkpoint # NoCheckpoint
    BY <2>1 DEF IInv, Pristine, Threads
  <2>4. loaded # NoCheckpoint
    BY <2>3 DEF Fresh, NoCheckpoint, Checkpoint
  <2>5. Complete(loaded) /\ Extends(checkpoint, loaded)
    <3>1. CASE t = Start
      <4>1. \A review \in 1..MaxReviews : Fresh.decided[review] = NoThread
        BY DEF Fresh, Checkpoint, Undecided
      <4>2. \A review \in 1..MaxReviews : ~(review < 0) /\ review # 0
        OBVIOUS
      <4>3. Fresh.review = 0
        BY DEF Fresh, Checkpoint
      <4>4. Complete(Fresh)
        BY <4>1, <4>2, <4>3 DEF Complete
      <4>5. /\ \A review \in 1..MaxReviews : NoCheckpoint.decided[review] = NoThread
            /\ ~NoCheckpoint.paused
        BY DEF NoCheckpoint, Checkpoint, Undecided
      <4>6. Extends(NoCheckpoint, Fresh)
        BY <4>5 DEF Extends
      <4>7. QED
        BY <2>3, <3>1, <4>4, <4>6
    <3>2. CASE t # Start
      BY <3>2, ExtendsReflexive DEF IInv
    <3>3. QED
      BY <3>1, <3>2
  <2> HIDE DEF loaded
  <2>6. Exclusive'
    BY <2>1, <2>2, <2>4, <2>5 DEF Exclusive, Complete
  <2>7. Pristine'
    <3>1. pc'[Start] \in {"checked", "waiting"} => checkpoint = NoCheckpoint
      BY <2>1 DEF IInv, Pristine, Threads
    <3>2. checkpoint = NoCheckpoint => t \notin Reviewers
      BY <2>1 DEF IInv, Pristine
    <3>3. QED
      BY <2>1, <3>1, <3>2 DEF IInv, Pristine, Threads
  <2>8. Complete(checkpoint)' /\ Extends(checkpoint, checkpoint')
    BY <2>1, ExtendsReflexive DEF IInv, Complete
  <2>9. QED
    BY <2>6, <2>7, <2>8
<1>9. ASSUME NEW t \in Threads, Escalate(t) \/ Finish(t) \/ Decide(t) \/ Pause(t)
      PROVE  Goal
  <2>1. pc[t] = "executing"
    BY <1>9 DEF Escalate, Finish, Decide, Pause, Superstep
  <2>2. lock = t /\ Complete(memory[t]) /\ Extends(checkpoint, memory[t])
    BY <2>1 DEF IInv, Exclusive
  <2>3. /\ memory'[t] \in Checkpoints \ {NoCheckpoint}
        /\ Complete(memory'[t]) /\ Extends(memory[t], memory'[t])
        /\ UNCHANGED <<checkpoint, pc, lock>>
    BY <1>1, <1>9, <2>1, <2>2, SuperstepFacts
  <2>4. memory[t] \in Checkpoints /\ checkpoint \in Checkpoints
    BY <1>1 DEF TypeOK
  <2>5. Extends(checkpoint, memory'[t])
    BY <2>2, <2>3, <2>4, ExtendsTransitive
  <2>6. Exclusive'
    <3> SUFFICES ASSUME NEW u \in Threads, pc'[u] = "executing"
                 PROVE  /\ lock' = u
                        /\ memory'[u] # NoCheckpoint /\ Complete(memory'[u])
                        /\ Extends(checkpoint', memory'[u])
      BY DEF Exclusive, Complete, Extends
    <3>1. u = t
      BY <1>3, <2>1, <2>3
    <3>2. QED
      BY <2>2, <2>3, <2>5, <3>1
  <2>7. Pristine'
    BY <2>3 DEF IInv, Pristine
  <2>8. Complete(checkpoint)' /\ Extends(checkpoint, checkpoint')
    BY <2>3, ExtendsReflexive DEF IInv, Complete
  <2>9. QED
    BY <2>6, <2>7, <2>8
<1>10. ASSUME NEW t \in Threads, Commit(t) \/ Return(t) \/ Raise(t)
       PROVE  Goal
  <2>1. /\ pc[t] = "executing"
        /\ checkpoint' = checkpoint \/ checkpoint' = memory[t]
        /\ pc'[t] \in {"executing", "leaving", "failing"}
        /\ \A u \in Threads \ {t} : pc'[u] = pc[u]
    BY <1>1, <1>10 DEF Commit, Return, Raise, LeaveLock, TypeOK
  <2>2. pc'[t] = "executing" =>
          checkpoint' = memory[t] /\ lock' = lock /\ memory'[t] = memory[t]
    BY <1>1, <1>10 DEF Commit, Return, Raise, LeaveLock, TypeOK
  <2>3. /\ lock = t /\ memory[t] # NoCheckpoint
        /\ Complete(memory[t]) /\ Extends(checkpoint, memory[t])
    BY <2>1 DEF IInv, Exclusive
  <2>4. Exclusive'
    <3> SUFFICES ASSUME NEW u \in Threads, pc'[u] = "executing"
                 PROVE  /\ lock' = u
                        /\ memory'[u] # NoCheckpoint /\ Complete(memory'[u])
                        /\ Extends(checkpoint', memory'[u])
      BY DEF Exclusive, Complete, Extends
    <3>1. u = t
      BY <1>3, <2>1
    <3>2. QED
      BY <2>2, <2>3, <3>1, ExtendsReflexive
  <2>5. Pristine'
    <3>1. t # Start => checkpoint # NoCheckpoint
      BY <2>1 DEF IInv, Pristine, Threads
    <3>2. t # Start => pc'[Start] \notin {"checked", "waiting"}
      BY <2>1, <3>1 DEF IInv, Pristine, Threads
    <3>3. pc'[Start] \notin {"checked", "waiting"}
      BY <2>1, <3>2
    <3>4. checkpoint' = NoCheckpoint => checkpoint = NoCheckpoint
      BY <2>1, <2>3
    <3>5. checkpoint = NoCheckpoint => \A u \in Reviewers : pc'[u] = "idle"
      BY <2>1, <3>1, ServiceAssumption DEF IInv, Pristine, Threads
    <3>6. QED
      BY <3>3, <3>4, <3>5 DEF Pristine
  <2>6. Complete(checkpoint') /\ Extends(checkpoint, checkpoint')
    BY <2>1, <2>3, ExtendsReflexive DEF IInv
  <2>7. Complete(checkpoint)'
    BY <2>6 DEF Complete
  <2>8. QED
    BY <2>4, <2>5, <2>6, <2>7
<1> HIDE DEF Goal
<1>11. Goal
  BY <1>4, <1>5, <1>6, <1>7, <1>8, <1>9, <1>10 DEF Next, TaskStep
<1>12. QED
  BY <1>1, <1>11 DEF IInv, Goal

LEMMA InvInit == Init => IInv
<1> SUFFICES ASSUME Init
             PROVE  IInv
  OBVIOUS
<1> USE ServiceAssumption DEF Init
<1>1. TypeOK
  <2>1. NoCheckpoint \in Checkpoints
    BY CheckpointMembers
  <2>2. pc \in [Threads -> PCs]
    BY DEF PCs, Threads
  <2>3. seen \in [Reviewers -> 0..MaxReviews]
    OBVIOUS
  <2>4. chosen \in [Reviewers -> Actions]
    BY DEF Actions
  <2>5. memory \in [Threads -> Checkpoints] /\ inHand \in [Threads -> BOOLEAN]
    BY <2>1
  <2>6. lock \in Threads \union {NoThread} /\ active \in BOOLEAN
    OBVIOUS
  <2>7. crashes \in 0..MaxCrashes
    OBVIOUS
  <2>8. checkpoint \in Checkpoints
    BY <2>1
  <2> HIDE DEF Init
  <2>9. QED
    BY <2>2, <2>3, <2>4, <2>5, <2>6, <2>7, <2>8 DEF TypeOK
<1>2. \A t \in Threads : pc[t] \in {"checked", "idle"}
  OBVIOUS
<1>3. Exclusive
  BY <1>2 DEF Exclusive
<1>4. Pristine
  BY DEF Pristine, Threads
<1>5. Complete(checkpoint)
  <2>1. /\ \A review \in 1..MaxReviews : NoCheckpoint.decided[review] = NoThread
        /\ NoCheckpoint.review = 0
    BY DEF NoCheckpoint, Checkpoint, Undecided
  <2>2. \A review \in 1..MaxReviews : ~(review < 0) /\ review # 0
    OBVIOUS
  <2>3. QED
    BY <2>1, <2>2 DEF Complete
<1>6. QED
  BY <1>1, <1>3, <1>4, <1>5 DEF IInv

------------------------------------------------------------------------------
(* Theorems.                                                               *)

\* IInv holds in every reachable state of a run's threads, for any number of
\* concurrent resume requests (RunService.resume, _invoke).
THEOREM ServiceInvariant == Spec => []IInv
<1>1. IInv /\ [Next]_vars => IInv'
  BY InvStep
<1>2. QED
  BY <1>1, InvInit, PTL DEF Spec

\* Every stored checkpoint is one some superstep of the graph leaves, and every
\* thread is somewhere in its request (RunService, resume_run).
THEOREM ServiceTypeSafety == Spec => []TypeOK
<1>1. IInv => TypeOK
  BY DEF IInv
<1>2. QED
  BY <1>1, ServiceInvariant, PTL

\* The escalations behind a run, and only those, have a decision
\* (human_review_node, RunService.resume).
THEOREM DecisionsCompleteSafety == Spec => []DecisionsComplete
<1>1. IInv => DecisionsComplete
  BY DEF IInv, Complete, DecisionsComplete
<1>2. QED
  BY <1>1, ServiceInvariant, PTL

\* A stored decision is never replaced or lost, however many requests were
\* answered 202 for its review: the lock of _invoke is enough.
THEOREM DecisionsStandSafety == Spec => DecisionsStand
<1> DEFINE Stand == \A review \in 1..MaxReviews :
                      checkpoint.decided[review] # NoThread =>
                        checkpoint'.decided[review] = checkpoint.decided[review]
<1>1. IInv /\ [Next]_vars => [Stand]_vars
  BY InvStep DEF Extends
<1>2. QED
  BY <1>1, ServiceInvariant, PTL DEF Spec, DecisionsStand

\* A pending review stays as it is until a decision is applied to it, through
\* refused and failing requests, escalations and restarts (RunService._invoke,
\* human_review_node).
THEOREM ReviewSafety == Spec => ReviewSurvives
<1> DEFINE Survives == checkpoint.paused /\ checkpoint' # checkpoint =>
                         checkpoint'.decided[checkpoint.review] # NoThread
<1>1. IInv /\ [Next]_vars => [Survives]_vars
  BY InvStep DEF Extends
<1>2. QED
  BY <1>1, ServiceInvariant, PTL DEF Spec, ReviewSurvives

\* A run nobody executes is out of the active set, whichever invocations put
\* it there and however they ended (the `finally` of RunService._invoke).
THEOREM ActiveSafety == Spec => []ActiveDrains
<1> USE DEF ActiveDrains
<1>1. Init => ActiveDrains
  BY DEF Init
<1>2. IInv /\ ActiveDrains /\ [Next]_vars => ActiveDrains'
  <2> SUFFICES ASSUME IInv, ActiveDrains, [Next]_vars, active'
               PROVE  \E u \in Threads : pc'[u] \in Invoking
    OBVIOUS
  <2>1. pc \in [Threads -> PCs]
    BY DEF IInv, TypeOK
  <2>2. ASSUME NEW t \in Threads, Enter(t) \/ Acquire(t) \/ Return(t) \/ Raise(t)
        PROVE  pc'[t] \in Invoking
    BY <2>1, <2>2 DEF Enter, Acquire, Return, Raise, LeaveLock, Invoking
  <2>3. ASSUME NEW t \in Threads, Leave(t)
        PROVE  FALSE
    BY <2>3 DEF Leave, ActiveAfter
  <2>4. ASSUME NEW t \in Reviewers, Look(t) \/ Post(t) \/ Check(t)
        PROVE  \E u \in Threads : pc'[u] \in Invoking
    <3>1. /\ active' = active /\ pc[t] \in {"idle", "looked", "accepted"} /\ t \in Threads
          /\ \A u \in Threads : u # t => pc'[u] = pc[u]
      BY <2>1, <2>4 DEF Look, Post, Check, Threads
    <3>2. PICK u \in Threads : pc[u] \in Invoking
      BY <3>1
    <3>3. QED
      BY <3>1, <3>2 DEF Invoking
  <2>5. ASSUME NEW t \in Threads,
               Commit(t) \/ Escalate(t) \/ Finish(t) \/ Decide(t) \/ Pause(t)
        PROVE  UNCHANGED <<pc, active>>
    BY <2>5 DEF Commit, Escalate, Finish, Decide, Pause, Superstep
  <2>6. ASSUME PollSnapshot \/ PollReport \/ UNCHANGED vars
        PROVE  UNCHANGED <<pc, active>>
    BY <2>6 DEF PollSnapshot, PollReport, vars
  <2>7. ~Crash
    BY DEF Crash
  <2>8. QED
    BY <2>2, <2>3, <2>4, <2>5, <2>6, <2>7 DEF Next, TaskStep
<1>3. QED
  BY <1>1, <1>2, ServiceInvariant, PTL DEF Spec

------------------------------------------------------------------------------
(* Dropped decisions.                                                      *)

Settled(t) == checkpoint.decided[seen[t]] # NoThread

\* The review t's decision is about is still the pending one.
Pending(t) == checkpoint.paused /\ checkpoint.review = seen[t]

\* A decision under way is about a review that is pending or settled; one that
\* was accepted had something to accept.
DecisionInv ==
  \A t \in Reviewers :
    /\ pc[t] \in {"looked", "accepted", "dropped"} => seen[t] \in 1..MaxReviews
    /\ pc[t] = "looked" => Settled(t) \/ Pending(t)
    /\ pc[t] = "accepted" =>
         \/ Settled(t)
         \/ /\ Pending(t)
            /\ chosen[t] = "accept_as_is" => seen[t] \notin EmptyReviews
    /\ pc[t] = "dropped" => Settled(t)

\* A reviewer's own steps: looking finds the review pending, and the checks
\* refuse or drop only what is settled (app.py resume_run, RunService.resume).
LEMMA DecisionSteps ==
  ASSUME IInv, DecisionInv, NEW t \in Reviewers, Look(t) \/ Post(t) \/ Check(t)
  PROVE  DecisionInv'
<1>1. /\ pc \in [Threads -> PCs] /\ seen \in [Reviewers -> 0..MaxReviews]
      /\ chosen \in [Reviewers -> Actions] /\ checkpoint \in Checkpoints
      /\ t \in Threads /\ Reviewers \subseteq Threads
  BY DEF IInv, TypeOK, Threads
<1>2. UNCHANGED checkpoint
  BY DEF Look, Post, Check
<1>3. \A u \in Reviewers \ {t} :
        pc'[u] = pc[u] /\ seen'[u] = seen[u] /\ chosen'[u] = chosen[u]
  BY <1>1 DEF Look, Post, Check
<1>4. ASSUME Look(t)
      PROVE  pc'[t] = "looked" /\ seen'[t] \in 1..MaxReviews /\ Pending(t)'
  <2>1. checkpoint.paused /\ seen'[t] = checkpoint.review /\ pc'[t] = "looked"
    BY <1>1, <1>4 DEF Look
  <2>2. checkpoint.review \in 1..MaxReviews
    BY <1>1, <2>1, CheckpointFacts
  <2>3. QED
    BY <1>2, <2>1, <2>2 DEF Pending
<1>5. ASSUME Post(t)
      PROVE  /\ pc[t] = "looked" /\ UNCHANGED <<seen, chosen>>
             /\ pc'[t] \in {"accepted", "refused"}
             /\ pc'[t] = "accepted" => Admissible(t)
  BY <1>1, <1>5 DEF Post
<1>6. ASSUME Check(t)
      PROVE  /\ pc[t] = "accepted" /\ UNCHANGED <<seen, chosen>>
             /\ pc'[t] \in {"checked", "dropped"}
             /\ pc'[t] = "dropped" => ~Admissible(t)
  BY <1>1, <1>6 DEF Check
<1>7. /\ pc'[t] \in {"looked", "accepted", "dropped"} => seen'[t] \in 1..MaxReviews
      /\ pc'[t] = "looked" => Settled(t)' \/ Pending(t)'
      /\ pc'[t] = "accepted" =>
           \/ Settled(t)'
           \/ /\ Pending(t)'
              /\ chosen'[t] = "accept_as_is" => seen'[t] \notin EmptyReviews
      /\ pc'[t] = "dropped" => Settled(t)'
  BY <1>2, <1>4, <1>5, <1>6 DEF DecisionInv, Settled, Pending, Admissible
<1>8. QED
  BY <1>2, <1>3, <1>7 DEF DecisionInv, Settled, Pending

\* Everybody else only moves the database on, and a pending review is left by
\* settling it.
LEMMA DecisionFrame ==
  ASSUME IInv, DecisionInv, Extends(checkpoint, checkpoint'),
         UNCHANGED <<seen, chosen>>,
         \A u \in Reviewers :
           pc'[u] \in {"looked", "accepted", "dropped"} => pc'[u] = pc[u]
  PROVE  DecisionInv'
<1> SUFFICES ASSUME NEW u \in Reviewers, pc'[u] \in {"looked", "accepted", "dropped"}
             PROVE  /\ seen[u] \in 1..MaxReviews
                    /\ Settled(u) => Settled(u)'
                    /\ Pending(u) => Settled(u)' \/ Pending(u)'
  BY DEF DecisionInv
<1>1. seen[u] \in 1..MaxReviews
  BY DEF DecisionInv
<1>2. QED
  BY <1>1 DEF Extends, Settled, Pending

\* A decision answered 202 and dropped by its task was about a review that
\* another decision has settled, for any number of reviewers and reviews.
THEOREM DroppedSafety == Spec => []DroppedWasSuperseded
<1>1. Init => DecisionInv
  BY ServiceAssumption DEF Init, DecisionInv, Threads
<1>2. IInv /\ DecisionInv /\ [Next]_vars => DecisionInv'
  <2> SUFFICES ASSUME IInv, DecisionInv, [Next]_vars
               PROVE  DecisionInv'
    OBVIOUS
  <2>1. Extends(checkpoint, checkpoint')
    BY InvStep
  <2>2. pc \in [Threads -> PCs] /\ Reviewers \subseteq Threads
    BY DEF IInv, TypeOK, Threads
  <2>3. ASSUME NEW t \in Threads, TaskStep(t)
        PROVE  /\ UNCHANGED <<seen, chosen>>
               /\ \A u \in Reviewers :
                    pc'[u] \in {"looked", "accepted", "dropped"} => pc'[u] = pc[u]
    <3>1. CASE Enter(t) \/ Acquire(t) \/ Leave(t)
      BY <2>2, <3>1 DEF Enter, Acquire, Leave
    <3>2. CASE Return(t) \/ Raise(t)
      BY <2>2, <3>2 DEF Return, Raise, LeaveLock
    <3>3. CASE Commit(t) \/ Escalate(t) \/ Finish(t) \/ Decide(t) \/ Pause(t)
      BY <3>3 DEF Commit, Escalate, Finish, Decide, Pause, Superstep
    <3>4. QED
      BY <2>3, <3>1, <3>2, <3>3 DEF TaskStep
  <2>4. ASSUME Crash \/ PollSnapshot \/ PollReport \/ UNCHANGED vars
        PROVE  /\ UNCHANGED <<seen, chosen>>
               /\ \A u \in Reviewers :
                    pc'[u] \in {"looked", "accepted", "dropped"} => pc'[u] = pc[u]
    BY <2>2, <2>4 DEF Crash, PollSnapshot, PollReport, vars
  <2>5. QED
    BY <2>1, <2>3, <2>4, DecisionSteps, DecisionFrame DEF Next
<1>3. DecisionInv => DroppedWasSuperseded
  BY DEF DecisionInv, DroppedWasSuperseded, Settled
<1>4. QED
  BY <1>1, <1>2, <1>3, ServiceInvariant, PTL DEF Spec
=============================================================================
