------------------------------- MODULE LiveRun --------------------------------
(***************************************************************************)
(* A requirement from its submission to the last view of its run in the    *)
(* browser: the master orchestrator and POST /runs (orchestrator/master.py,*)
(* api/app.py), the background task that appends audit rows and stores     *)
(* checkpoints, the event stream and its polling fallback, and the page    *)
(* that follows them (web/static/app.js). The graph is reduced to nodes    *)
(* that append rows before their checkpoint is stored; overlapping         *)
(* invocations are in RunService.                                          *)
(***************************************************************************)
EXTENDS Naturals, Sequences

CONSTANTS
  Modes,       \* of the orchestrator: "live", "offline" (demo)
  Kinds,       \* routes a run is submitted by: "orchestrate", "runs"
  MaxReviews,  \* bound: escalations of the run
  MaxWork,     \* bound: rows of nodes that neither escalate nor end the run
  MaxCrashes   \* bound: restarts of the process

ASSUME LiveAssumption ==
  /\ Modes \subseteq {"live", "offline"} /\ Kinds \subseteq {"orchestrate", "runs"}
  /\ MaxReviews \in Nat /\ MaxWork \in Nat /\ MaxCrashes \in Nat

View == INSTANCE RunView WITH N <- 1

VARIABLES
  mode,        \* in demo mode calls are answered from the run's assigned script
  kind,        \* the route of this run
  request,     \* how far the submission has come
  assigned,    \* the demo client's script of the run, in memory
  rows,        \* event types of the run's audit rows
  checkpoint,  \* stored: status, escalations so far, whether a review is pending
  storing,     \* the update of the node that has appended its rows
  task,        \* the run's background task
  inHand,      \* a decision is on its way to the review node
  posted,      \* decisions answered 202
  answered,    \* the latest review one was for
  crashes,
  page,        \* where the page's current request is
  channel,     \* "stream" or "poll"
  read,        \* what that request has read: state and last row id
  since,       \* the stream's latest version
  view         \* the view on the page: its state, its rows, read in this order

route     == <<mode, kind>>
run       == <<checkpoint, storing, task>>
decisions == <<inHand, posted, answered>>
server    == <<route, request, assigned, rows, run, decisions, crashes>>
client    == <<page, channel, read, since, view>>
vars      == <<server, client>>

Checkpoint(status, review, pending) ==
  [status |-> status, review |-> review, pending |-> pending]
NoCheckpoint == Checkpoint("none", 0, FALSE)

Demo == mode = "offline"

NoVersion == <<>>
NoView    == [state |-> View!NoState, n |-> 0, reloaded |-> FALSE]
NothingRead == [state |-> View!NoState, id |-> 0]

Init ==
  /\ mode \in Modes /\ kind \in Kinds
  /\ request = "new" /\ assigned = FALSE
  /\ rows = <<>>
  /\ checkpoint = NoCheckpoint /\ storing = NoCheckpoint
  /\ task = "none" /\ inHand = FALSE /\ posted = 0 /\ answered = 0 /\ crashes = 0
  /\ page = "idle" /\ channel = "stream" /\ read = NothingRead
  /\ since = NoVersion /\ view = NoView

Appends(event_types) ==
  rows' = rows \o [i \in 1..Len(event_types) |-> View!Row(event_types[i], 0, 0, "none")]

------------------------------------------------------------------------------
(* Submission.                                                             *)

\* In live mode a model assesses the requirement, at the cost of one row.
Triage ==
  /\ kind = "orchestrate" /\ request = "new" /\ ~Demo
  /\ request' = "triaged"
  /\ Appends(<<"persona_call">>)
  /\ UNCHANGED <<route, assigned, run, decisions, crashes, client>>

\* A triage that raises is answered 503, without a row.
TriageUnavailable ==
  /\ kind = "orchestrate" /\ request = "new" /\ ~Demo
  /\ request' = "unavailable"
  /\ UNCHANGED <<route, assigned, rows, run, decisions, crashes, client>>

Assessed == kind = "orchestrate" /\ request = IF Demo THEN "new" ELSE "triaged"

\* The rule checks need no model; 422.
Reject ==
  /\ Assessed \/ (kind = "orchestrate" /\ request = "new")
  /\ request' = "rejected"
  /\ Appends(<<"requirement_rejected">>)
  /\ UNCHANGED <<route, assigned, run, decisions, crashes, client>>

Validate ==
  /\ Assessed
  /\ request' = "validated"
  /\ Appends(<<"requirement_validated">>)
  /\ UNCHANGED <<route, assigned, run, decisions, crashes, client>>

Plan ==
  /\ request = "validated"
  /\ request' = "planned"
  /\ Appends(<<"workflow_planned">>)
  /\ UNCHANGED <<route, assigned, run, decisions, crashes, client>>

ExamplesOnly == FALSE

\* submit ends by assigning the run a script, a curated one or the simulator,
\* before anything can execute it.
Assignment == Demo

AnsweredOnly == "none"

Background == "queued"

\* 202, with the execution as a background task.
Dispatch ==
  /\ request = "planned"
  /\ request' = "accepted" /\ assigned' = Assignment
  /\ task' = Background
  /\ UNCHANGED <<route, rows, checkpoint, storing, decisions, crashes, client>>

\* POST /runs answers 202 at once and assigns no script.
StartRun ==
  /\ kind = "runs" /\ request = "new"
  /\ request' = "accepted"
  /\ task' = "queued"
  /\ UNCHANGED <<route, assigned, rows, checkpoint, storing, decisions, crashes, client>>

------------------------------------------------------------------------------
(* The background task.                                                    *)

Begin ==
  /\ task = "queued"
  /\ Appends(<<"run_started">>)
  /\ storing' = Checkpoint("running", 0, FALSE) /\ task' = "storing"
  /\ UNCHANGED <<route, request, assigned, checkpoint, decisions, crashes, client>>

EndsUnaudited(event_types, next) ==
  /\ UNCHANGED <<rows, checkpoint>>
  /\ storing' = next /\ task' = "storing"

\* A node appends its rows, and then LangGraph stores its update.
NodeEnds(event_types, next) ==
  /\ Appends(event_types)
  /\ storing' = next /\ task' = "storing"
  /\ UNCHANGED checkpoint

\* A node that calls a model, with a script to answer it.
Working ==
  /\ task = "running" /\ checkpoint.status = "running"
  /\ Demo => assigned

Work ==
  /\ Working
  /\ Len(rows) < MaxWork   \* bound
  /\ NodeEnds(<<"evaluation">>, checkpoint)
  /\ UNCHANGED <<route, request, assigned, decisions, crashes, client>>

Escalate ==
  /\ Working
  /\ checkpoint.review < MaxReviews   \* bound
  /\ NodeEnds(<<"evaluation", "escalation">>,
              Checkpoint("blocked_for_human", checkpoint.review + 1, FALSE))
  /\ UNCHANGED <<route, request, assigned, decisions, crashes, client>>

Complete ==
  /\ Working
  /\ NodeEnds(<<"run_completed">>, Checkpoint("complete", checkpoint.review, FALSE))
  /\ UNCHANGED <<route, request, assigned, decisions, crashes, client>>

\* The review node pauses the graph, which appends no row.
Pause ==
  /\ task = "running" /\ checkpoint.status = "blocked_for_human" /\ ~inHand
  /\ checkpoint' = [checkpoint EXCEPT !.pending = TRUE]
  /\ task' = "none"
  /\ UNCHANGED <<route, request, assigned, rows, storing, decisions, crashes, client>>

ApplyDecision ==
  /\ task = "running" /\ checkpoint.status = "blocked_for_human" /\ inHand
  /\ \/ NodeEnds(<<"human_decision">>, Checkpoint("running", checkpoint.review, FALSE))
     \/ NodeEnds(<<"human_decision", "run_aborted">>,
                 Checkpoint("aborted", checkpoint.review, FALSE))
  /\ inHand' = FALSE
  /\ UNCHANGED <<route, request, assigned, posted, answered, crashes, client>>

Store ==
  /\ task = "storing"
  /\ checkpoint' = storing
  /\ task' = IF storing.status \in View!Terminal THEN "none" ELSE "running"
  /\ UNCHANGED <<route, request, assigned, rows, storing, decisions, crashes, client>>

\* A model, the demo client without a script, or a store raises; the failure is
\* audited unless that append raises as well. A pending review stays pending.
Raise ==
  /\ task \in {"running", "storing"}
  /\ task' = "none" /\ inHand' = FALSE
  /\ Appends(<<"run_failed">>) \/ UNCHANGED rows
  /\ UNCHANGED <<route, request, assigned, checkpoint, storing, posted, answered, crashes, client>>

\* The background task of an accepted decision resumes the run.
Resume ==
  /\ task = "resuming"
  /\ task' = "running"
  /\ UNCHANGED <<route, request, assigned, rows, checkpoint, storing, decisions, crashes, client>>

\* The process stops and starts again, and its memory is lost. The page's
\* stream breaks, and a request for the view may find no server.
Crash ==
  /\ crashes < MaxCrashes   \* bound
  /\ crashes' = crashes + 1
  /\ assigned' = FALSE /\ task' = "none" /\ inHand' = FALSE
  /\ request' = IF request \in {"new", "triaged", "validated", "planned"} THEN "lost"
                ELSE request
  /\ page' \in IF page \in {"state", "id", "rows", "reload"}
                THEN {"state", "disconnected"} ELSE {page}
  /\ channel' = "poll"
  /\ UNCHANGED <<route, rows, checkpoint, storing, posted, answered, read, since, view>>

------------------------------------------------------------------------------
(* The page.                                                               *)

\* RunService.state, of an execution that is under way or at rest.
StateNow ==
  IF checkpoint = NoCheckpoint THEN View!NoState
  ELSE [status  |-> IF checkpoint.pending THEN "blocked_for_human"
                    ELSE IF checkpoint.status = "blocked_for_human" THEN "running"
                    ELSE checkpoint.status,
        pending |-> IF checkpoint.pending THEN checkpoint.review ELSE View!NoPending]

ViewOf(v) == View!BuildView(SubSeq(rows, 1, v.n), v.state)

\* What the page believes: once its view is settled it stops asking.
Settled(v) == v # NoView /\ View!IsSettled(ViewOf(v))

\* openRun, on a 202.
Open ==
  /\ page = "idle" /\ request = "accepted"
  /\ page' = "state" /\ channel' = "stream" /\ since' = NoVersion
  /\ UNCHANGED <<server, read, view>>

\* 404: there is no row yet. The stream falls back to polling, a poll is
\* repeated.
NotFound ==
  /\ page = "state" /\ rows = <<>> /\ channel = "stream"
  /\ channel' = "poll"
  /\ UNCHANGED <<server, page, read, since, view>>

ReadState ==
  /\ page = "state" /\ rows # <<>>
  /\ read' = [state |-> StateNow, id |-> 0]
  /\ page' = "id"
  /\ UNCHANGED <<server, channel, since, view>>

\* The version the page has: the stream remembers it on the server, a poll sends
\* that of its view.
Since == IF channel = "stream" THEN since
         ELSE IF view = NoView THEN NoVersion ELSE ViewOf(view).version

\* Nothing has changed (204, or no event), or the rows are read.
ReadId ==
  /\ page = "id"
  /\ read' = [read EXCEPT !.id = Len(rows)]
  /\ page' = IF Since = View!Version(Len(rows), read.state) THEN "state" ELSE "rows"
  /\ UNCHANGED <<server, channel, since, view>>

\* The view arrives, and the page stops asking if it is settled.
Deliver(v) ==
  /\ view' = v
  /\ since' = View!Version(read.id, read.state)
  /\ page' = IF Settled(v) THEN "stopped" ELSE "state"
  /\ UNCHANGED <<server, channel, read>>

ReadRows ==
  /\ page = "rows" /\ read.state # View!NoState
  /\ Deliver([state |-> read.state, n |-> Len(rows), reloaded |-> FALSE])

\* build_view loads the state itself when there was none, after the rows: the
\* view has this newer state.
ReadRowsFirst ==
  /\ page = "rows" /\ read.state = View!NoState
  /\ read' = [read EXCEPT !.id = Len(rows)]
  /\ page' = "reload"
  /\ UNCHANGED <<server, channel, since, view>>

Reload ==
  /\ page = "reload"
  /\ Deliver([state |-> StateNow, n |-> read.id, reloaded |-> TRUE])

\* The stream breaks; the page polls unless the view it has is settled. A poll
\* that fails is not repeated.
StreamBreaks ==
  /\ page \in {"state", "id", "rows", "reload"} /\ channel = "stream"
  /\ channel' = "poll"
  /\ page' = IF Settled(view) THEN "stopped" ELSE "state"
  /\ UNCHANGED <<server, read, since, view>>

PollBreaks ==
  /\ page \in {"state", "id", "rows", "reload"} /\ channel = "poll"
  /\ page' = "disconnected"
  /\ UNCHANGED <<server, channel, read, since, view>>

\* The reviewer decides on the review the page shows: 202 if one is pending, and
\* the page follows the run again.
Decide ==
  /\ page = "stopped" /\ view.state.pending # View!NoPending
  /\ checkpoint.pending /\ task = "none" /\ posted < MaxReviews   \* bound
  /\ task' = "resuming" /\ inHand' = TRUE /\ posted' = posted + 1
  /\ answered' = checkpoint.review
  /\ page' = "state" /\ channel' = "stream" /\ since' = NoVersion
  /\ UNCHANGED <<route, request, assigned, rows, checkpoint, storing, crashes, read, view>>

------------------------------------------------------------------------------
Submission == Triage \/ TriageUnavailable \/ Reject \/ Validate \/ Plan \/ Dispatch

TaskStep ==
  \/ Begin \/ Store \/ Work \/ Escalate \/ Complete \/ Pause
  \/ ApplyDecision \/ Resume \/ Raise

PageStep == Open \/ NotFound \/ ReadState \/ ReadId \/ ReadRows \/ ReadRowsFirst \/ Reload

Next ==
  \/ Submission \/ StartRun \/ TaskStep \/ PageStep
  \/ StreamBreaks \/ PollBreaks \/ Decide \/ Crash

Spec == Init /\ [][Next]_vars

\* The server handles the requests and tasks it has, the page's loops go on.
\* Nobody has to submit or decide, and nothing has to break.
FairSpec ==
  /\ Spec
  /\ WF_vars(Submission) /\ WF_vars(TaskStep) /\ WF_vars(PageStep)

------------------------------------------------------------------------------
(* Correctness.                                                            *)

\* Every view shows the rows that explain its state: a run shown ended has its
\* ending row, a pending review its escalations. The nodes append before they
\* are stored and the state is read before the rows; only a state that build_view
\* loads itself, after the rows, may run ahead of them.
RowsExplainState ==
  ~view.reloaded =>
    LET shown == SubSeq(rows, 1, view.n)
        Count(event_type) == View!Total(shown, LAMBDA r : r.event_type = event_type)
    IN  /\ view.state.status = "complete" => Count("run_completed") >= 1
        /\ view.state.status = "aborted" => Count("run_aborted") >= 1
        /\ Count("escalation") >= view.state.pending

\* "Unchanged" is answered only to a page whose view has every row and the status
\* of the state just read (view_version).
UnchangedIsCurrent ==
  [][ReadId /\ page' = "state" =>
       /\ view.n = Len(rows)
       /\ view.state.status = read.state.status]_vars

\* Without a restart an orchestrated run finds its demo script, whenever its
\* nodes call a model.
ScriptAssigned ==
  Demo /\ kind = "orchestrate" /\ crashes = 0 /\ task # "none" => assigned

\* A planned requirement is dispatched to the pipeline, unless the process
\* stops in between.
PlannedIsDispatched ==
  View!HasRow(rows, "workflow_planned") ~>
    (View!HasRow(rows, "run_started") \/ crashes > 0)

\* The page ends up with the latest rows and state. It stops short only after a
\* poll that found no server, on a review it has already posted a decision for (the
\* first view after the 202 may be the old one), on a view with a run_failed
\* row (it is final for the page, though a review may be decided after it),
\* and on a view whose state was loaded after its rows.
PageCatchesUp ==
  <>[](page # "idle" =>
         \/ view.state = StateNow /\ view.n = Len(rows)
         \/ page = "disconnected"
         \/ view.state.pending \in 1..answered
         \/ ViewOf(view).status = "failed"
         \/ view.reloaded)
=============================================================================
