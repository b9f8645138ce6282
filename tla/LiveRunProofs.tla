---------------------------- MODULE LiveRunProofs ----------------------------
(***************************************************************************)
(* Proofs about LiveRun, for every number of reviews, rows and restarts:   *)
(* a demo run finds its script, a page is only told "unchanged" when it    *)
(* has the latest rows and the status just read, and the rows it shows     *)
(* explain the state it shows.                                             *)
(***************************************************************************)
EXTENDS LiveRun, FiniteSetTheorems, TLAPS

\* The types the proofs need.
Statuses == {"none", "running", "blocked_for_human", "complete", "aborted"}
Stored   == [status : Statuses, review : Nat, pending : BOOLEAN]
States   == [status : Statuses, pending : Nat]

Types    == {"requirement_validated", "requirement_rejected", "workflow_planned",
             "persona_call", "run_started", "evaluation", "escalation",
             "human_decision", "run_completed", "run_aborted", "run_failed"}
RowSet   == {View!Row(event_type, 0, 0, "none") : event_type \in Types}

LiveTypeOK ==
  /\ rows \in Seq(RowSet)
  /\ checkpoint \in Stored /\ storing \in Stored
  /\ crashes \in Nat
  /\ read \in [state : States, id : Nat]
  /\ view \in [state : States, n : Nat, reloaded : BOOLEAN]

\* Rows are only appended.
LEMMA AppendsFacts ==
  ASSUME LiveTypeOK, NEW types \in Seq(Types), Appends(types)
  PROVE  rows' \in Seq(RowSet) /\ Len(rows) <= Len(rows')
<1> DEFINE added == [i \in 1..Len(types) |-> View!Row(types[i], 0, 0, "none")]
<1>1. Len(types) \in Nat
  OBVIOUS
<1>2. \A i \in 1..Len(types) : View!Row(types[i], 0, 0, "none") \in RowSet
  BY DEF RowSet
<1>3. added \in [1..Len(types) -> RowSet]
  BY <1>2
<1> HIDE DEF added
<1>4. added \in Seq(RowSet)
  BY <1>1, <1>3
<1>5. rows \in Seq(RowSet) /\ rows' = rows \o added
  BY DEF LiveTypeOK, Appends, added
<1>6. QED
  BY <1>4, <1>5

LEMMA StateNowTyped ==
  ASSUME LiveTypeOK
  PROVE  StateNow \in States
BY DEF LiveTypeOK, StateNow, States, Stored, Statuses, View!NoState, View!NoPending

------------------------------------------------------------------------------
(* The inductive invariant.                                                *)

\* Only an accepted request has a task or something to review, and a stored
\* checkpoint has a status (api/app.py orchestrate, create_run).
TaskInv ==
  /\ task # "none" \/ checkpoint.pending => request = "accepted"
  /\ checkpoint.status = "none" => checkpoint = NoCheckpoint
  /\ task = "storing" => storing.status # "none"

\* An accepted demo run has its script until the process stops.
ScriptInv ==
  Demo /\ kind = "orchestrate" /\ crashes = 0 /\ request = "accepted" => assigned

\* The version the stream has is that of the rows and the state behind the view
\* on the page, or of no state when build_view loaded one itself.
SinceOf(version, v) ==
  \E id \in Nat, state \in States :
    /\ version = View!Version(id, state) /\ id <= v.n
    /\ state = v.state \/ state = View!NoState

\* A page never has rows or a state ahead of the server's, and reads nothing
\* older than its view.
PageInv ==
  /\ view.n <= Len(rows)
  /\ page \in {"rows", "reload"} => read.id <= Len(rows)
  /\ page = "reload" => read.state = View!NoState
  /\ view.state # View!NoState \/ read.state # View!NoState => checkpoint # NoCheckpoint
  /\ read.state.status = "none" => read.state = View!NoState
  /\ page \in {"id", "rows", "reload"} /\ read.state = View!NoState =>
       view.state = View!NoState
  /\ since # NoVersion => SinceOf(since, view)

LiveInv == LiveTypeOK /\ TaskInv /\ ScriptInv /\ PageInv

LEMMA LiveInit == Init => LiveInv
<1> SUFFICES ASSUME Init
             PROVE  LiveInv
  OBVIOUS
<1> USE DEF Init
<1>1. LiveTypeOK
  BY DEF LiveTypeOK, NoCheckpoint, Checkpoint, Stored, Statuses, NothingRead, NoView, States,
         View!NoState, View!NoPending
<1>2. TaskInv /\ ScriptInv
  BY DEF TaskInv, ScriptInv, NoCheckpoint, Checkpoint
<1>3. PageInv
  BY DEF PageInv, NoView, NothingRead
<1>4. QED
  BY <1>1, <1>2, <1>3 DEF LiveInv

------------------------------------------------------------------------------
(* The server's steps.                                                     *)

\* What a node that ends its work may store.
LEMMA CheckpointTyped ==
  ASSUME NEW status \in Statuses, NEW review \in Nat, NEW pending \in BOOLEAN
  PROVE  /\ Checkpoint(status, review, pending) \in Stored
         /\ Checkpoint(status, review, pending).status = status
         /\ Checkpoint(status, review, pending).pending = pending
BY DEF Checkpoint, Stored

\* What the actions append.
LEMMA RowTypes ==
  /\ <<"persona_call">> \in Seq(Types) /\ <<"requirement_rejected">> \in Seq(Types)
  /\ <<"requirement_validated">> \in Seq(Types) /\ <<"workflow_planned">> \in Seq(Types)
  /\ <<"run_started">> \in Seq(Types) /\ <<"evaluation">> \in Seq(Types)
  /\ <<"run_completed">> \in Seq(Types) /\ <<"run_failed">> \in Seq(Types)
  /\ <<"human_decision">> \in Seq(Types)
  /\ <<"evaluation", "escalation">> \in Seq(Types)
  /\ <<"human_decision", "run_aborted">> \in Seq(Types)
<1>1. \A type \in Types : <<type>> \in Seq(Types)
  OBVIOUS
<1>2. \A first, second \in Types : <<first, second>> \in Seq(Types)
  OBVIOUS
<1>3. QED
  BY <1>1, <1>2 DEF Types

\* A submission moves the request on, without a task but for its last step.
LEMMA SubmissionStep ==
  ASSUME LiveInv, Submission \/ StartRun
  PROVE  LiveTypeOK' /\ TaskInv' /\ ScriptInv'
         /\ UNCHANGED <<client, checkpoint>> /\ Len(rows) <= Len(rows')
<1>1. LiveTypeOK /\ TaskInv /\ ScriptInv
  BY DEF LiveInv
<1>2. /\ UNCHANGED <<client, checkpoint, storing, crashes, mode, kind>>
      /\ request # "accepted"
      /\ rows' = rows \/ \E types \in Seq(Types) : Appends(types)
      /\ \/ UNCHANGED task /\ request' # "accepted"
         \/ /\ task' = "queued" /\ request' = "accepted"
            /\ assigned' = Demo \/ kind = "runs"
  <2>1. CASE Triage \/ Reject \/ Validate \/ Plan
    BY <2>1, RowTypes DEF Triage, Reject, Assessed, Validate, Plan, run, decisions, route
  <2>2. CASE TriageUnavailable
    BY <2>2 DEF TriageUnavailable, run, decisions, route
  <2>3. CASE Dispatch \/ StartRun
    BY <2>3 DEF Dispatch, StartRun, Background, Assignment, decisions, route
  <2>4. QED
    BY <2>1, <2>2, <2>3 DEF Submission
<1>3. rows' \in Seq(RowSet) /\ Len(rows) <= Len(rows')
  BY <1>1, <1>2, AppendsFacts DEF LiveTypeOK
<1>4. LiveTypeOK'
  BY <1>1, <1>2, <1>3 DEF LiveTypeOK, client
<1>5. TaskInv' /\ ScriptInv'
  BY <1>1, <1>2 DEF TaskInv, ScriptInv, Demo
<1>6. QED
  BY <1>2, <1>3, <1>4, <1>5

\* The background task only goes on once the request is accepted, and stores
\* what a node has come to.
LEMMA TaskSteps ==
  ASSUME LiveInv, TaskStep
  PROVE  /\ LiveTypeOK' /\ TaskInv' /\ ScriptInv'
         /\ UNCHANGED client /\ Len(rows) <= Len(rows')
         /\ checkpoint # NoCheckpoint => checkpoint' # NoCheckpoint
<1>1. LiveTypeOK /\ TaskInv /\ ScriptInv
  BY DEF LiveInv
<1>2. /\ UNCHANGED <<client, crashes, mode, kind, request, assigned>>
      /\ task # "none"
      /\ rows' = rows \/ \E types \in Seq(Types) : Appends(types)
  <2>1. CASE Store \/ Pause \/ Resume
    BY <2>1 DEF Store, Pause, Resume, decisions, route
  <2>2. CASE Begin \/ Raise
    BY <2>2, RowTypes DEF Begin, Raise, decisions, route
  <2>3. CASE Work \/ Escalate \/ Complete
    BY <2>3, RowTypes DEF Work, Escalate, Complete, Working, NodeEnds, decisions, route
  <2>4. CASE ApplyDecision
    BY <2>4, RowTypes DEF ApplyDecision, NodeEnds, route
  <2>5. QED
    BY <2>1, <2>2, <2>3, <2>4 DEF TaskStep
<1>3. rows' \in Seq(RowSet) /\ Len(rows) <= Len(rows')
  BY <1>1, <1>2, AppendsFacts DEF LiveTypeOK
<1>4. /\ checkpoint' \in Stored /\ storing' \in Stored
      /\ checkpoint'.status = "none" => checkpoint' = NoCheckpoint
      /\ task' = "storing" => storing'.status # "none"
      /\ checkpoint # NoCheckpoint => checkpoint' # NoCheckpoint
  <2>1. checkpoint \in Stored /\ storing \in Stored
    BY <1>1 DEF LiveTypeOK
  <2>2. CASE Begin
    <3>1. storing' = Checkpoint("running", 0, FALSE) /\ UNCHANGED checkpoint
      BY <2>2 DEF Begin
    <3>2. QED
      BY <1>1, <2>1, <3>1, CheckpointTyped DEF TaskInv, Statuses
  <2>3. CASE Work
    BY <1>1, <2>1, <2>3 DEF Work, Working, NodeEnds, TaskInv
  <2>4. CASE Escalate \/ Complete \/ ApplyDecision
    <3>1. checkpoint.review \in Nat /\ checkpoint.review + 1 \in Nat
      BY <2>1 DEF Stored
    <3>2. /\ UNCHANGED checkpoint
          /\ \E status \in Statuses \ {"none"}, review \in Nat :
               storing' = Checkpoint(status, review, FALSE)
      <4>1. CASE Escalate
        BY <3>1, <4>1 DEF Escalate, NodeEnds, Statuses
      <4>2. CASE Complete
        BY <3>1, <4>2 DEF Complete, NodeEnds, Statuses
      <4>3. CASE ApplyDecision
        BY <3>1, <4>3 DEF ApplyDecision, NodeEnds, Statuses
      <4>4. QED
        BY <2>4, <4>1, <4>2, <4>3
    <3>3. PICK status \in Statuses \ {"none"}, review \in Nat :
            storing' = Checkpoint(status, review, FALSE)
      BY <3>2
    <3>4. storing' \in Stored /\ storing'.status # "none"
      BY <3>3, CheckpointTyped
    <3>5. QED
      BY <1>1, <2>1, <3>2, <3>4 DEF TaskInv
  <2>5. CASE Pause
    BY <1>1, <2>1, <2>5 DEF Pause, Stored, NoCheckpoint, Checkpoint
  <2>6. CASE Store
    <3>1. checkpoint' = storing /\ storing' = storing /\ storing.status # "none"
      BY <1>1, <2>6 DEF Store, TaskInv
    <3>2. QED
      BY <2>1, <2>6, <3>1 DEF Store, NoCheckpoint, Checkpoint
  <2>7. CASE Resume \/ Raise
    BY <1>1, <2>1, <2>7 DEF Resume, Raise, TaskInv
  <2>8. QED
    BY <2>2, <2>3, <2>4, <2>5, <2>6, <2>7 DEF TaskStep
<1>5. LiveTypeOK'
  BY <1>1, <1>2, <1>3, <1>4 DEF LiveTypeOK, client
<1>6. TaskInv' /\ ScriptInv'
  BY <1>1, <1>2, <1>4 DEF TaskInv, ScriptInv, Demo
<1>7. QED
  BY <1>2, <1>3, <1>4, <1>5, <1>6

\* Nothing the server does moves a page, or takes away what it has read.
LEMMA PageKept ==
  ASSUME LiveInv, LiveTypeOK', UNCHANGED <<read, since, view>>,
         Len(rows) <= Len(rows'),
         checkpoint # NoCheckpoint => checkpoint' # NoCheckpoint,
         page' \in {"id", "rows", "reload"} => page' = page
  PROVE  PageInv'
<1>1. /\ Len(rows) \in Nat /\ Len(rows') \in Nat
      /\ view.n \in Nat /\ read.id \in Nat
  BY DEF LiveInv, LiveTypeOK
<1>2. PageInv
  BY DEF LiveInv
<1>3. QED
  BY <1>1, <1>2 DEF PageInv

------------------------------------------------------------------------------
(* The page's steps, decisions and restarts.                               *)

\* What the page may be sent: a view no older than what was read for it.
LEMMA DeliverStep ==
  ASSUME LiveInv, NEW v \in [state : States, n : Nat, reloaded : BOOLEAN],
         Deliver(v), read.id <= v.n, v.n <= Len(rows),
         v.state # View!NoState => checkpoint # NoCheckpoint,
         read.state = v.state \/ read.state = View!NoState
  PROVE  LiveTypeOK' /\ PageInv'
<1>1. LiveTypeOK /\ PageInv
  BY DEF LiveInv
<1>2. /\ view' = v /\ since' = View!Version(read.id, read.state)
      /\ page' \in {"stopped", "state"}
      /\ UNCHANGED <<rows, checkpoint, storing, crashes, read>>
  BY DEF Deliver, server, run, decisions
<1>3. LiveTypeOK'
  BY <1>1, <1>2 DEF LiveTypeOK
<1>4. SinceOf(since', v)
  BY <1>1, <1>2 DEF LiveTypeOK, SinceOf
<1>5. PageInv'
  BY <1>1, <1>2, <1>4 DEF PageInv
<1>6. QED
  BY <1>3, <1>5

LEMMA PageSteps ==
  ASSUME LiveInv, PageStep \/ StreamBreaks \/ PollBreaks
  PROVE  LiveTypeOK' /\ PageInv' /\ UNCHANGED server
<1>1. LiveTypeOK /\ PageInv /\ TaskInv
  BY DEF LiveInv
<1>2. UNCHANGED server
  BY DEF PageStep, Open, NotFound, ReadState, ReadId, ReadRows, ReadRowsFirst, Reload, Deliver,
     StreamBreaks, PollBreaks
<1>3. UNCHANGED <<rows, checkpoint, storing, crashes>>
  BY <1>2 DEF server, run, decisions
<1>4. Len(rows) \in Nat
  BY <1>1 DEF LiveTypeOK
<1>5. /\ StateNow \in States
      /\ StateNow # View!NoState => checkpoint # NoCheckpoint
      /\ StateNow.status = "none" => StateNow = View!NoState
  BY <1>1, StateNowTyped DEF StateNow, TaskInv, View!NoState
<1>6. CASE Open
  <2>1. UNCHANGED <<read, view>> /\ since' = NoVersion /\ page' = "state"
    BY <1>6 DEF Open
  <2>2. QED
    BY <1>1, <1>2, <1>3, <2>1 DEF LiveTypeOK, PageInv
<1>7. CASE NotFound \/ StreamBreaks \/ PollBreaks
  <2>1. /\ UNCHANGED <<read, since, view>>
        /\ page' \in {"state", "stopped", "disconnected"}
    BY <1>7 DEF NotFound, StreamBreaks, PollBreaks
  <2>2. QED
    BY <1>1, <1>2, <1>3, <2>1 DEF LiveTypeOK, PageInv
<1>8. CASE ReadState
  <2>1. read' = [state |-> StateNow, id |-> 0] /\ page' = "id" /\ UNCHANGED <<since, view>>
    BY <1>8 DEF ReadState
  <2>2. StateNow = View!NoState => view.state = View!NoState
    BY <1>1 DEF StateNow, PageInv, TaskInv, View!NoState
  <2>3. LiveTypeOK'
    BY <1>1, <1>3, <1>5, <2>1 DEF LiveTypeOK
  <2>4. PageInv'
    BY <1>1, <1>3, <1>5, <2>1, <2>2 DEF PageInv
  <2>5. QED
    BY <1>2, <2>3, <2>4
<1>9. CASE ReadId \/ ReadRowsFirst
  <2>1. /\ read' = [read EXCEPT !.id = Len(rows)] /\ UNCHANGED <<since, view>>
        /\ page' \in {"state", "rows", "reload"}
        /\ page \in {"id", "rows"}
        /\ page' = "reload" => read.state = View!NoState
    BY <1>9 DEF ReadId, ReadRowsFirst
  <2>2. read'.state = read.state /\ read'.id = Len(rows) /\ read' \in [state : States, id : Nat]
    BY <1>1, <1>4, <2>1 DEF LiveTypeOK
  <2>3. LiveTypeOK' /\ PageInv'
    BY <1>1, <1>3, <1>4, <2>1, <2>2 DEF LiveTypeOK, PageInv
  <2>4. QED
    BY <1>2, <2>3
<1>10. CASE ReadRows
  <2> DEFINE v == [state |-> read.state, n |-> Len(rows), reloaded |-> FALSE]
  <2>1. Deliver(v) /\ page = "rows"
    BY <1>10 DEF ReadRows
  <2>2. v \in [state : States, n : Nat, reloaded : BOOLEAN]
    BY <1>1, <1>4 DEF LiveTypeOK
  <2>3. read.id <= v.n /\ v.n <= Len(rows) /\ (v.state # View!NoState => checkpoint # NoCheckpoint)
    BY <1>1, <1>4, <2>1 DEF PageInv
  <2>4. v.state = read.state
    OBVIOUS
  <2> HIDE DEF v
  <2>5. QED
    BY <1>2, <2>1, <2>2, <2>3, <2>4, DeliverStep
<1>11. CASE Reload
  <2> DEFINE v == [state |-> StateNow, n |-> read.id, reloaded |-> TRUE]
  <2>1. Deliver(v) /\ page = "reload"
    BY <1>11 DEF Reload
  <2>2. v \in [state : States, n : Nat, reloaded : BOOLEAN]
    BY <1>1, <1>5 DEF LiveTypeOK
  <2>3. /\ read.id <= v.n /\ v.n <= Len(rows)
        /\ v.state # View!NoState => checkpoint # NoCheckpoint
        /\ read.state = View!NoState
    BY <1>1, <1>5, <2>1 DEF PageInv, LiveTypeOK
  <2> HIDE DEF v
  <2>4. QED
    BY <1>2, <2>1, <2>2, <2>3, DeliverStep
<1>12. QED
  BY <1>6, <1>7, <1>8, <1>9, <1>10, <1>11 DEF PageStep

\* A decision needs a pending review, and a restart forgets what is in memory.
LEMMA OtherSteps ==
  ASSUME LiveInv, Decide \/ Crash
  PROVE  LiveInv'
<1>1. LiveTypeOK /\ PageInv /\ TaskInv /\ ScriptInv
  BY DEF LiveInv
<1>2. CASE Decide
  <2>1. /\ UNCHANGED <<rows, checkpoint, storing, crashes, mode, kind, request, assigned,
                       read, view>>
        /\ checkpoint.pending /\ task' = "resuming"
        /\ since' = NoVersion /\ page' = "state"
    BY <1>2 DEF Decide, route
  <2>2. LiveTypeOK' /\ PageInv'
    BY <1>1, <2>1 DEF LiveTypeOK, PageInv
  <2>3. TaskInv' /\ ScriptInv'
    BY <1>1, <2>1 DEF TaskInv, ScriptInv, Demo
  <2>4. QED
    BY <2>2, <2>3 DEF LiveInv
<1>3. CASE Crash
  <2>1. /\ UNCHANGED <<rows, checkpoint, storing, read, since, view>>
        /\ crashes' = crashes + 1 /\ task' = "none"
        /\ request = "accepted" => request' = "accepted"
        /\ page' \in {"id", "rows", "reload"} => page' = page
    BY <1>3 DEF Crash
  <2>2. LiveTypeOK'
    BY <1>1, <2>1 DEF LiveTypeOK
  <2>3. Len(rows) <= Len(rows')
    BY <1>1, <2>1 DEF LiveTypeOK
  <2>4. PageInv'
    BY <2>1, <2>2, <2>3, PageKept
  <2>5. TaskInv' /\ ScriptInv'
    BY <1>1, <2>1 DEF TaskInv, ScriptInv, LiveTypeOK
  <2>6. QED
    BY <2>2, <2>4, <2>5 DEF LiveInv
<1>4. QED
  BY <1>2, <1>3

LEMMA LiveStep == LiveInv /\ [Next]_vars => LiveInv'
<1> SUFFICES ASSUME LiveInv, [Next]_vars
             PROVE  LiveInv'
  OBVIOUS
<1>1. CASE Submission \/ StartRun
  BY <1>1, SubmissionStep, PageKept DEF LiveInv, client
<1>2. CASE TaskStep
  BY <1>2, TaskSteps, PageKept DEF LiveInv, client
<1>3. CASE PageStep \/ StreamBreaks \/ PollBreaks
  <2>1. LiveTypeOK' /\ PageInv' /\ UNCHANGED server
    BY <1>3, PageSteps
  <2>2. TaskInv' /\ ScriptInv'
    BY <2>1 DEF LiveInv, TaskInv, ScriptInv, server, route, run, Demo
  <2>3. QED
    BY <2>1, <2>2 DEF LiveInv
<1>4. CASE Decide \/ Crash
  BY <1>4, OtherSteps
<1>5. CASE UNCHANGED vars
  BY <1>5 DEF vars, server, client, route, run, decisions, LiveInv, LiveTypeOK, TaskInv,
     ScriptInv, PageInv, Demo
<1>6. QED
  BY <1>1, <1>2, <1>3, <1>4, <1>5 DEF Next

LEMMA LiveInvariant == Spec => []LiveInv
<1>1. QED
  BY LiveInit, LiveStep, PTL DEF Spec

------------------------------------------------------------------------------
(* The rows that explain a state.                                          *)

\* The rows of a type, and what the view must find in the rows it shows.
Typed(seq, type) == {i \in 1..Len(seq) : seq[i].event_type = type}

Explained(seq, status, reviews) ==
  /\ status = "complete" => Typed(seq, "run_completed") # {}
  /\ status = "aborted" => Typed(seq, "run_aborted") # {}
  /\ reviews <= Cardinality(Typed(seq, "escalation"))

\* A node's rows come before its update, and a page reads the rows after the
\* state: what is stored, or about to be, what a request has read and what the
\* page shows are all explained by rows that are there.
ExplainInv ==
  /\ Explained(rows, checkpoint.status, checkpoint.review)
  /\ Explained(rows, storing.status, storing.review)
  /\ Explained(rows, read.state.status, read.state.pending)
  /\ ~view.reloaded =>
       Explained(SubSeq(rows, 1, view.n), view.state.status, view.state.pending)

LEMMA TypedFacts ==
  ASSUME NEW seq \in Seq(RowSet), NEW type
  PROVE  /\ IsFiniteSet(Typed(seq, type)) /\ Cardinality(Typed(seq, type)) \in Nat
         /\ Typed(seq, type) # {} => Cardinality(Typed(seq, type)) >= 1
<1>1. Len(seq) \in Nat /\ Typed(seq, type) \subseteq 1..Len(seq)
  BY DEF Typed
<1>2. IsFiniteSet(Typed(seq, type))
  <2>1. IsFiniteSet(1..Len(seq))
    BY <1>1, FS_Interval
  <2>2. QED
    BY <1>1, <2>1, FS_Subset
<1>3. Cardinality(Typed(seq, type)) \in Nat
  BY <1>2, FS_CardinalityType
<1>4. Typed(seq, type) # {} => Cardinality(Typed(seq, type)) # 0
  BY <1>2, FS_EmptySet
<1>5. QED
  BY <1>2, <1>3, <1>4

\* Rows that are appended keep those that were there, and count.
LEMMA ConcatTyped ==
  ASSUME NEW seq \in Seq(RowSet), NEW added \in Seq(RowSet), NEW type
  PROVE  /\ seq \o added \in Seq(RowSet)
         /\ Typed(seq, type) \subseteq Typed(seq \o added, type)
         /\ \A j \in 1..Len(added) : added[j].event_type = type =>
              /\ Len(seq) + j \in Typed(seq \o added, type)
              /\ Len(seq) + j \notin Typed(seq, type)
<1>1. /\ Len(seq) \in Nat /\ Len(added) \in Nat /\ seq \o added \in Seq(RowSet)
      /\ Len(seq \o added) = Len(seq) + Len(added)
      /\ \A i \in 1..Len(seq) : (seq \o added)[i] = seq[i]
  OBVIOUS
<1>2. \A j \in 1..Len(added) : (seq \o added)[Len(seq) + j] = added[j]
  OBVIOUS
<1>3. Typed(seq, type) \subseteq Typed(seq \o added, type)
  BY <1>1 DEF Typed
<1>4. ASSUME NEW j \in 1..Len(added), added[j].event_type = type
      PROVE  /\ Len(seq) + j \in Typed(seq \o added, type)
             /\ Len(seq) + j \notin Typed(seq, type)
  <2>1. /\ Len(seq) + j \in 1..Len(seq \o added)
        /\ Len(seq) + j \notin 1..Len(seq)
    BY <1>1
  <2>2. QED
    BY <1>2, <1>4, <2>1 DEF Typed
<1>5. QED
  BY <1>1, <1>3, <1>4

\* One more escalation explains one more review.
LEMMA ConcatExplained ==
  ASSUME NEW seq \in Seq(RowSet), NEW added \in Seq(RowSet), NEW status, NEW reviews \in Nat,
         Explained(seq, status, reviews)
  PROVE  /\ Explained(seq \o added, status, reviews)
         /\ \A j \in 1..Len(added) : added[j].event_type = "escalation" =>
              reviews + 1 <= Cardinality(Typed(seq \o added, "escalation"))
<1> DEFINE old == Typed(seq, "escalation")
           new == Typed(seq \o added, "escalation")
<1>1. /\ seq \o added \in Seq(RowSet)
      /\ \A type : Typed(seq, type) \subseteq Typed(seq \o added, type)
  BY ConcatTyped
<1>2. /\ IsFiniteSet(old) /\ IsFiniteSet(new)
      /\ Cardinality(old) \in Nat /\ Cardinality(new) \in Nat
      /\ old \subseteq new /\ reviews <= Cardinality(old)
  BY <1>1, TypedFacts DEF Explained
<1>3. ASSUME NEW j \in 1..Len(added), added[j].event_type = "escalation"
      PROVE  reviews + 1 <= Cardinality(new)
  <2>1. Len(seq) + j \in new /\ Len(seq) + j \notin old
    BY <1>3, ConcatTyped
  <2> HIDE DEF old, new
  <2>2. /\ Cardinality(old \union {Len(seq) + j}) = Cardinality(old) + 1
        /\ old \union {Len(seq) + j} \subseteq new
    BY <1>2, <2>1, FS_AddElement
  <2>3. Cardinality(old \union {Len(seq) + j}) <= Cardinality(new)
    BY <1>2, <2>2, FS_Subset
  <2>4. QED
    BY <1>2, <2>2, <2>3
<1>4. Cardinality(old) <= Cardinality(new)
  BY <1>2, FS_Subset
<1>5. reviews <= Cardinality(new)
  <2> HIDE DEF old, new
  <2>1. QED
    BY <1>2, <1>4
<1>6. QED
  BY <1>1, <1>3, <1>5 DEF Explained

\* The rows a node appends, by their types.
LEMMA AppendsRows ==
  ASSUME NEW types \in Seq(Types), Appends(types)
  PROVE  \E added \in Seq(RowSet) :
           /\ rows' = rows \o added /\ Len(added) = Len(types)
           /\ \A j \in 1..Len(types) : added[j].event_type = types[j]
<1> DEFINE added == [i \in 1..Len(types) |-> View!Row(types[i], 0, 0, "none")]
<1>1. Len(types) \in Nat
  OBVIOUS
<1>2. \A i \in 1..Len(types) : View!Row(types[i], 0, 0, "none") \in RowSet
  BY DEF RowSet
<1>3. \A i \in 1..Len(types) : View!Row(types[i], 0, 0, "none").event_type = types[i]
  BY DEF View!Row
<1>4. added \in [1..Len(types) -> RowSet] /\ \A j \in 1..Len(types) : added[j].event_type = types[j]
  BY <1>2, <1>3
<1>5. rows' = rows \o added
  BY DEF Appends
<1> HIDE DEF added
<1>6. added \in Seq(RowSet) /\ Len(added) = Len(types)
  BY <1>1, <1>4
<1>7. QED
  BY <1>4, <1>5, <1>6

\* The log only grows.
Grows == rows' = rows \/ \E added \in Seq(RowSet) : rows' = rows \o added

LEMMA GrowsExplained ==
  ASSUME LiveTypeOK, Grows
  PROVE  /\ \A status, reviews : reviews \in Nat /\ Explained(rows, status, reviews) =>
                                   Explained(rows', status, reviews)
         /\ \A n \in Nat : n <= Len(rows) => SubSeq(rows', 1, n) = SubSeq(rows, 1, n)
<1>1. rows \in Seq(RowSet)
  BY DEF LiveTypeOK
<1>2. CASE rows' = rows
  BY <1>2
<1>3. CASE \E added \in Seq(RowSet) : rows' = rows \o added
  <2>1. PICK added \in Seq(RowSet) : rows' = rows \o added
    BY <1>3
  <2>2. ASSUME NEW n \in Nat, n <= Len(rows)
        PROVE  SubSeq(rows \o added, 1, n) = SubSeq(rows, 1, n)
    <3>1. /\ Len(rows) \in Nat /\ Len(added) \in Nat
          /\ Len(rows \o added) = Len(rows) + Len(added)
          /\ \A i \in 1..Len(rows) : (rows \o added)[i] = rows[i]
      BY <1>1
    <3>2. \A i \in 1..n : (rows \o added)[i] = rows[i]
      BY <2>2, <3>1
    <3>3. /\ SubSeq(rows \o added, 1, n) = [i \in 1..n |-> (rows \o added)[i]]
          /\ SubSeq(rows, 1, n) = [i \in 1..n |-> rows[i]]
      BY <1>1, <2>2, <3>1
    <3>4. QED
      BY <3>2, <3>3
  <2>3. QED
    BY <1>1, <2>1, <2>2, ConcatExplained
<1>4. QED
  BY <1>2, <1>3 DEF Grows

------------------------------------------------------------------------------
(* Every step keeps what is stored, read and shown explained.              *)

LEMMA ExplainInit == Init => ExplainInv
<1> SUFFICES ASSUME Init
             PROVE  ExplainInv
  OBVIOUS
<1>1. rows = <<>> /\ <<>> \in Seq(RowSet) /\ SubSeq(rows, 1, 0) = <<>>
  BY DEF Init
<1>2. Explained(<<>>, "none", 0)
  <2>1. Cardinality(Typed(<<>>, "escalation")) \in Nat
    BY <1>1, TypedFacts
  <2>2. QED
    BY <2>1 DEF Explained
<1>3. /\ checkpoint.status = "none" /\ checkpoint.review = 0
      /\ storing.status = "none" /\ storing.review = 0
      /\ read.state.status = "none" /\ read.state.pending = 0
      /\ view.state.status = "none" /\ view.state.pending = 0 /\ view.n = 0
  BY DEF Init, NoCheckpoint, Checkpoint, NothingRead, NoView, View!NoState, View!NoPending
<1>4. QED
  BY <1>1, <1>2, <1>3 DEF ExplainInv

\* A step of the server that stores nothing the rows do not explain.
LEMMA ServerKeepsExplained ==
  ASSUME LiveInv, ExplainInv, Grows, UNCHANGED <<read, view>>,
         Explained(rows', checkpoint'.status, checkpoint'.review),
         Explained(rows', storing'.status, storing'.review)
  PROVE  ExplainInv'
<1>1. /\ read.state.pending \in Nat /\ view.n \in Nat /\ view.n <= Len(rows)
      /\ LiveTypeOK
  BY DEF LiveInv, LiveTypeOK, PageInv, States
<1>2. Explained(rows', read.state.status, read.state.pending)
  BY <1>1, GrowsExplained DEF ExplainInv
<1>3. SubSeq(rows', 1, view.n) = SubSeq(rows, 1, view.n)
  BY <1>1, GrowsExplained
<1>4. QED
  BY <1>2, <1>3 DEF ExplainInv

\* What a node appends explains what it is about to store.
LEMMA NodeExplained ==
  ASSUME LiveInv, ExplainInv, NEW types \in Seq(Types), NEW next, NodeEnds(types, next),
         \/ /\ next.status = checkpoint.status
            /\ next.review = checkpoint.review
         \/ /\ next.status \in {"running", "blocked_for_human"}
            /\ next.review = checkpoint.review
         \/ /\ next.status = "blocked_for_human"
            /\ next.review = checkpoint.review + 1
            /\ \E j \in 1..Len(types) : types[j] = "escalation"
         \/ /\ next.status = "complete"
            /\ next.review = checkpoint.review
            /\ \E j \in 1..Len(types) : types[j] = "run_completed"
         \/ /\ next.status = "aborted"
            /\ next.review = checkpoint.review
            /\ \E j \in 1..Len(types) : types[j] = "run_aborted"
  PROVE  /\ Grows
         /\ Explained(rows', checkpoint'.status, checkpoint'.review)
         /\ Explained(rows', storing'.status, storing'.review)
<1>1. rows \in Seq(RowSet) /\ checkpoint.review \in Nat /\ LiveTypeOK
  BY DEF LiveInv, LiveTypeOK, Stored
<1>2. storing' = next /\ UNCHANGED checkpoint /\ Appends(types)
  BY DEF NodeEnds
<1>3. PICK added \in Seq(RowSet) :
        /\ rows' = rows \o added /\ Len(added) = Len(types)
        /\ \A j \in 1..Len(types) : added[j].event_type = types[j]
  BY <1>2, AppendsRows
<1>4. Explained(rows, checkpoint.status, checkpoint.review)
  BY DEF ExplainInv
<1>5. /\ Explained(rows', checkpoint.status, checkpoint.review)
      /\ \A j \in 1..Len(added) : added[j].event_type = "escalation" =>
           checkpoint.review + 1 <= Cardinality(Typed(rows', "escalation"))
  BY <1>1, <1>3, <1>4, ConcatExplained
<1>6. ASSUME NEW type, \E j \in 1..Len(types) : types[j] = type
      PROVE  Typed(rows', type) # {}
  <2>1. PICK j \in 1..Len(types) : types[j] = type
    BY <1>6
  <2>2. j \in 1..Len(added) /\ added[j].event_type = type
    BY <1>3, <2>1
  <2>3. Len(rows) + j \in Typed(rows \o added, type)
    BY <1>1, <2>2, ConcatTyped
  <2>4. QED
    BY <1>3, <2>3
<1>7. checkpoint.review <= Cardinality(Typed(rows', "escalation"))
  BY <1>5 DEF Explained
<1>8. (\E j \in 1..Len(types) : types[j] = "escalation") =>
        checkpoint.review + 1 <= Cardinality(Typed(rows', "escalation"))
  BY <1>3, <1>5
<1>9. Explained(rows', next.status, next.review)
  BY <1>5, <1>6, <1>7, <1>8 DEF Explained
<1>10. QED
  BY <1>2, <1>3, <1>5, <1>9 DEF Grows

LEMMA TaskExplained ==
  ASSUME LiveInv, ExplainInv, TaskStep
  PROVE  ExplainInv'
<1>1. /\ LiveTypeOK /\ rows \in Seq(RowSet)
      /\ checkpoint \in Stored /\ checkpoint.review \in Nat /\ storing.review \in Nat
  BY DEF LiveInv, LiveTypeOK, Stored
<1>2. UNCHANGED <<read, view>>
  BY TaskSteps DEF client
<1>3. /\ Explained(rows, checkpoint.status, checkpoint.review)
      /\ Explained(rows, storing.status, storing.review)
  BY DEF ExplainInv
<1>4. ASSUME NEW types \in Seq(Types), Appends(types)
      PROVE  Grows
  BY <1>4, AppendsRows DEF Grows
<1>5. /\ Grows
      /\ Explained(rows', checkpoint'.status, checkpoint'.review)
      /\ Explained(rows', storing'.status, storing'.review)
  <2>1. CASE Begin
    <3>1. /\ Appends(<<"run_started">>) /\ UNCHANGED checkpoint
          /\ storing'.status = "running" /\ storing'.review = 0
      BY <2>1 DEF Begin, Checkpoint
    <3>2. Grows
      BY <1>4, <3>1, RowTypes
    <3>3. Explained(rows', checkpoint.status, checkpoint.review)
      BY <1>1, <1>3, <3>2, GrowsExplained
    <3>4. rows' \in Seq(RowSet)
      BY <1>1, <3>1, RowTypes, AppendsFacts
    <3>5. Cardinality(Typed(rows', "escalation")) \in Nat
      BY <3>4, TypedFacts
    <3>6. Explained(rows', "running", 0)
      BY <3>5 DEF Explained
    <3>7. QED
      BY <3>1, <3>2, <3>3, <3>6
  <2>2. CASE Work
    BY <2>2, NodeExplained, RowTypes DEF Work
  <2>3. CASE Escalate
    <3> DEFINE next == Checkpoint("blocked_for_human", checkpoint.review + 1, FALSE)
               types == <<"evaluation", "escalation">>
    <3>1. NodeEnds(types, next) /\ types \in Seq(Types)
      BY <2>3, RowTypes DEF Escalate
    <3>2. next.status = "blocked_for_human" /\ next.review = checkpoint.review + 1
      BY DEF Checkpoint
    <3>3. \E j \in 1..Len(types) : types[j] = "escalation"
      <4>1. 2 \in 1..Len(types) /\ types[2] = "escalation"
        OBVIOUS
      <4>2. QED
        BY <4>1
    <3> HIDE DEF next, types
    <3>4. QED
      BY <3>1, <3>2, <3>3, NodeExplained
  <2>4. CASE Complete
    <3> DEFINE next == Checkpoint("complete", checkpoint.review, FALSE)
               types == <<"run_completed">>
    <3>1. NodeEnds(types, next) /\ types \in Seq(Types)
      BY <2>4, RowTypes DEF Complete
    <3>2. next.status = "complete" /\ next.review = checkpoint.review
      BY DEF Checkpoint
    <3>3. \E j \in 1..Len(types) : types[j] = "run_completed"
      <4>1. 1 \in 1..Len(types) /\ types[1] = "run_completed"
        OBVIOUS
      <4>2. QED
        BY <4>1
    <3> HIDE DEF next, types
    <3>4. QED
      BY <3>1, <3>2, <3>3, NodeExplained
  <2>5. CASE ApplyDecision
    <3>1. CASE NodeEnds(<<"human_decision">>, Checkpoint("running", checkpoint.review, FALSE))
      <4> DEFINE next == Checkpoint("running", checkpoint.review, FALSE)
      <4>1. next.status = "running" /\ next.review = checkpoint.review
        BY DEF Checkpoint
      <4>2. NodeEnds(<<"human_decision">>, next) /\ <<"human_decision">> \in Seq(Types)
        BY <3>1, RowTypes
      <4> HIDE DEF next
      <4>3. QED
        BY <4>1, <4>2, NodeExplained
    <3>2. CASE NodeEnds(<<"human_decision", "run_aborted">>,
                        Checkpoint("aborted", checkpoint.review, FALSE))
      <4> DEFINE next == Checkpoint("aborted", checkpoint.review, FALSE)
                 types == <<"human_decision", "run_aborted">>
      <4>1. next.status = "aborted" /\ next.review = checkpoint.review
        BY DEF Checkpoint
      <4>2. NodeEnds(types, next) /\ types \in Seq(Types)
        BY <3>2, RowTypes
      <4>3. \E j \in 1..Len(types) : types[j] = "run_aborted"
        <5>1. 2 \in 1..Len(types) /\ types[2] = "run_aborted"
          OBVIOUS
        <5>2. QED
          BY <5>1
      <4> HIDE DEF next, types
      <4>4. QED
        BY <4>1, <4>2, <4>3, NodeExplained
    <3>3. QED
      BY <2>5, <3>1, <3>2 DEF ApplyDecision
  <2>6. CASE Pause
    <3>1. /\ UNCHANGED <<rows, storing>>
          /\ checkpoint'.status = checkpoint.status /\ checkpoint'.review = checkpoint.review
      BY <1>1, <2>6 DEF Pause, Stored
    <3>2. QED
      BY <1>3, <3>1 DEF Grows
  <2>7. CASE Store \/ Resume
    BY <1>3, <2>7 DEF Store, Resume, Grows
  <2>8. CASE Raise
    <3>1. UNCHANGED <<checkpoint, storing>> /\ (Appends(<<"run_failed">>) \/ UNCHANGED rows)
      BY <2>8 DEF Raise
    <3>2. Grows
      BY <1>4, <3>1, RowTypes DEF Grows
    <3>3. QED
      BY <1>1, <1>3, <3>1, <3>2, GrowsExplained
  <2>9. QED
    BY <2>1, <2>2, <2>3, <2>4, <2>5, <2>6, <2>7, <2>8 DEF TaskStep
<1>6. QED
  BY <1>2, <1>5, ServerKeepsExplained

LEMMA PageExplained ==
  ASSUME LiveInv, ExplainInv, PageStep \/ StreamBreaks \/ PollBreaks
  PROVE  ExplainInv'
<1>1. /\ LiveTypeOK /\ rows \in Seq(RowSet) /\ Len(rows) \in Nat /\ read \in [state : States, id : Nat]
  BY DEF LiveInv, LiveTypeOK
<1>2. UNCHANGED <<rows, checkpoint, storing>>
  BY PageSteps DEF server, run, decisions
<1>3. CASE Open \/ NotFound \/ StreamBreaks \/ PollBreaks
  BY <1>2, <1>3 DEF Open, NotFound, StreamBreaks, PollBreaks, ExplainInv
<1>4. CASE ReadId \/ ReadRowsFirst
  <2>1. read'.state = read.state /\ view' = view
    BY <1>1, <1>4 DEF ReadId, ReadRowsFirst
  <2>2. QED
    BY <1>2, <2>1 DEF ExplainInv
<1>5. CASE ReadState
  <2>1. read'.state = StateNow /\ view' = view
    BY <1>5 DEF ReadState
  <2>2. Explained(rows, StateNow.status, StateNow.pending)
    <3>1. Cardinality(Typed(rows, "escalation")) \in Nat
      BY <1>1, TypedFacts
    <3>2. StateNow.pending = checkpoint.review \/ StateNow.pending = 0
      BY DEF StateNow, View!NoState, View!NoPending
    <3>3. \/ StateNow.status \in {"none", "running", "blocked_for_human"}
          \/ StateNow.status = checkpoint.status
      BY DEF StateNow, View!NoState
    <3>4. StateNow.pending <= Cardinality(Typed(rows, "escalation"))
      BY <3>1, <3>2 DEF ExplainInv, Explained
    <3>5. QED
      BY <3>3, <3>4 DEF ExplainInv, Explained
  <2>3. QED
    BY <1>2, <2>1, <2>2 DEF ExplainInv
<1>6. CASE ReadRows
  <2>1. /\ view'.state = read.state /\ view'.n = Len(rows) /\ read' = read
    BY <1>6 DEF ReadRows, Deliver
  <2>2. SubSeq(rows, 1, Len(rows)) = rows
    BY <1>1
  <2>3. QED
    BY <1>2, <2>1, <2>2 DEF ExplainInv
<1>7. CASE Reload
  <2>1. view'.reloaded = TRUE /\ read' = read
    BY <1>7 DEF Reload, Deliver
  <2>2. QED
    BY <1>2, <2>1 DEF ExplainInv
<1>8. QED
  BY <1>3, <1>4, <1>5, <1>6, <1>7 DEF PageStep

LEMMA ExplainStep == LiveInv /\ ExplainInv /\ [Next]_vars => ExplainInv'
<1> SUFFICES ASSUME LiveInv, ExplainInv, [Next]_vars
             PROVE  ExplainInv'
  OBVIOUS
<1>1. CASE Submission \/ StartRun
  <2>1. UNCHANGED <<read, view, checkpoint, storing>>
        /\ (rows' = rows \/ \E types \in Seq(Types) : Appends(types))
    <3>1. CASE Triage \/ Reject \/ Validate \/ Plan
      BY <3>1, RowTypes DEF Triage, Reject, Validate, Plan, run, client
    <3>2. CASE TriageUnavailable \/ Dispatch \/ StartRun
      BY <3>2 DEF TriageUnavailable, Dispatch, StartRun, run, client
    <3>3. QED
      BY <1>1, <3>1, <3>2 DEF Submission
  <2>2. Grows
    BY <2>1, AppendsRows DEF Grows
  <2>3. LiveTypeOK /\ checkpoint.review \in Nat /\ storing.review \in Nat
    BY DEF LiveInv, LiveTypeOK, Stored
  <2>4. /\ Explained(rows', checkpoint.status, checkpoint.review)
        /\ Explained(rows', storing.status, storing.review)
    BY <2>2, <2>3, GrowsExplained DEF ExplainInv
  <2>5. QED
    BY <2>1, <2>2, <2>4, ServerKeepsExplained
<1>2. CASE TaskStep
  BY <1>2, TaskExplained
<1>3. CASE PageStep \/ StreamBreaks \/ PollBreaks
  BY <1>3, PageExplained
<1>4. CASE Decide \/ Crash
  BY <1>4 DEF Decide, Crash, ExplainInv
<1>5. CASE UNCHANGED vars
  BY <1>5 DEF vars, server, client, run, decisions, ExplainInv
<1>6. QED
  BY <1>1, <1>2, <1>3, <1>4, <1>5 DEF Next

LEMMA ExplainInvariant == Spec => [](LiveInv /\ ExplainInv)
<1>1. LiveInv /\ ExplainInv /\ [Next]_vars => (LiveInv /\ ExplainInv)'
  BY LiveStep, ExplainStep
<1>2. Init => LiveInv /\ ExplainInv
  BY LiveInit, ExplainInit
<1>3. QED
  BY <1>1, <1>2, PTL DEF Spec

------------------------------------------------------------------------------
(* Theorems.                                                               *)

\* Without a restart an orchestrated demo run has its script before anything
\* executes it, and until it ends (MasterOrchestrator.submit).
THEOREM ScriptSafety == Spec => []ScriptAssigned
<1>1. LiveInv => ScriptAssigned
  BY DEF LiveInv, TaskInv, ScriptInv, ScriptAssigned
<1>2. QED
  BY <1>1, LiveInvariant, PTL

\* However rows and checkpoints overtake the page's requests, "unchanged" is
\* only answered to a page with every row and the status just read
\* (view_version, stream_events, get_view).
THEOREM UnchangedSafety == Spec => UnchangedIsCurrent
<1> DEFINE Current == ReadId /\ page' = "state" =>
                        /\ view.n = Len(rows)
                        /\ view.state.status = read.state.status
<1>1. LiveInv => Current
  <2> SUFFICES ASSUME LiveInv, ReadId, page' = "state"
               PROVE  view.n = Len(rows) /\ view.state.status = read.state.status
    OBVIOUS
  <2>1. LiveTypeOK /\ PageInv
    BY DEF LiveInv
  <2>2. Len(rows) \in Nat /\ view.n \in Nat /\ view.n <= Len(rows)
    BY <2>1 DEF LiveTypeOK, PageInv
  <2>3. page = "id" /\ Since = View!Version(Len(rows), read.state)
    BY DEF ReadId
  <2>4. View!Version(Len(rows), read.state) # NoVersion
    BY DEF View!Version, NoVersion
  <2>5. ASSUME NEW id \in Nat, NEW state \in States,
               View!Version(id, state) = View!Version(Len(rows), read.state)
        PROVE  id = Len(rows) /\ state.status = read.state.status
    BY <2>5 DEF View!Version
  <2>6. CASE channel = "stream"
    <3>1. SinceOf(since, view) /\ since = View!Version(Len(rows), read.state)
      BY <2>1, <2>3, <2>4, <2>6 DEF Since, PageInv
    <3>2. PICK id \in Nat, state \in States :
            /\ since = View!Version(id, state) /\ id <= view.n
            /\ state = view.state \/ state = View!NoState
      BY <3>1 DEF SinceOf
    <3>3. id = Len(rows) /\ state.status = read.state.status
      BY <2>5, <3>1, <3>2
    <3>4. state = View!NoState => view.state = View!NoState
      <4>1. state = View!NoState => read.state.status = "none"
        BY <3>3 DEF View!NoState
      <4>2. QED
        BY <2>1, <2>3, <4>1 DEF PageInv
    <3>5. QED
      BY <2>2, <3>2, <3>3, <3>4
  <2>7. CASE channel # "stream"
    <3>1. ViewOf(view).version = View!Version(Len(SubSeq(rows, 1, view.n)), view.state)
      BY DEF ViewOf, View!BuildView
    <3>2. Len(SubSeq(rows, 1, view.n)) = view.n
      BY <2>1, <2>2 DEF LiveTypeOK
    <3>3. View!Version(view.n, view.state) = View!Version(Len(rows), read.state)
      BY <2>3, <2>4, <2>7, <3>1, <3>2 DEF Since
    <3>4. QED
      BY <2>1, <2>2, <2>5, <3>3 DEF LiveTypeOK
  <2>8. QED
    BY <2>6, <2>7
<1>2. QED
  BY <1>1, LiveInvariant, PTL DEF Spec, UnchangedIsCurrent

\* The rows a page shows explain the state it shows: the end of a run by its
\* ending row, a pending review by as many escalations (persona and gate nodes
\* in graph/nodes.py append before LangGraph stores; build_view reads after).
THEOREM ExplainedSafety == Spec => []RowsExplainState
<1>1. LiveInv /\ ExplainInv => RowsExplainState
  <2> SUFFICES ASSUME LiveInv, ExplainInv, ~view.reloaded
               PROVE  LET shown == SubSeq(rows, 1, view.n)
                          Count(event_type) ==
                            View!Total(shown, LAMBDA r : r.event_type = event_type)
                      IN  /\ view.state.status = "complete" => Count("run_completed") >= 1
                          /\ view.state.status = "aborted" => Count("run_aborted") >= 1
                          /\ Count("escalation") >= view.state.pending
    BY DEF RowsExplainState
  <2> DEFINE shown == SubSeq(rows, 1, view.n)
  <2>1. rows \in Seq(RowSet) /\ view.n \in Nat /\ view.n <= Len(rows) /\ view.state.pending \in Nat
    BY DEF LiveInv, LiveTypeOK, PageInv, States
  <2>2. shown \in Seq(RowSet)
    BY <2>1
  <2>3. Explained(shown, view.state.status, view.state.pending)
    BY DEF ExplainInv
  <2> HIDE DEF shown
  <2>4. ASSUME NEW type
        PROVE  View!Total(shown, LAMBDA r : r.event_type = type) = Cardinality(Typed(shown, type))
    BY DEF View!Total, View!Positions, View!Cardinality, Cardinality, Typed
  <2>5. Cardinality(Typed(shown, "escalation")) \in Nat
    BY <2>2, TypedFacts
  <2>6. Cardinality(Typed(shown, "escalation")) >= view.state.pending
    BY <2>1, <2>3, <2>5 DEF Explained
  <2>7. /\ view.state.status = "complete" => Cardinality(Typed(shown, "run_completed")) >= 1
        /\ view.state.status = "aborted" => Cardinality(Typed(shown, "run_aborted")) >= 1
    BY <2>2, <2>3, TypedFacts DEF Explained
  <2>8. QED
    BY <2>4, <2>6, <2>7 DEF shown
<1>2. QED
  BY <1>1, ExplainInvariant, PTL
=============================================================================
