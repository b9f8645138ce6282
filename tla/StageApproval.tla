--------------------------- MODULE StageApproval ------------------------------
(***************************************************************************)
(* What one run promises, without retries, judges, tiers or checkpoints:   *)
(* the stages are approved in order, each on one artifact that never       *)
(* changes afterwards; a run held for a reviewer moves only when the       *)
(* reviewer decides; it completes only with every stage approved and       *)
(* nothing moves after it ended. Pipeline implements this specification.   *)
(***************************************************************************)
EXTENDS Naturals, Sequences

CONSTANTS
  N,          \* number of stages; all but the last one have a gate
  Artifacts   \* the artifacts a stage can be approved on

VARIABLES
  approved,   \* the approved artifacts in stage order
  held,       \* the run waits for a reviewer
  outcome     \* "open", "complete" or "aborted"

vars == <<approved, held, outcome>>

Init == approved = <<>> /\ held = FALSE /\ outcome = "open"

Open == outcome = "open" /\ Len(approved) < N

\* The next stage is approved on some artifact that exists. Only a reviewer
\* approves while the run is held.
Approve ==
  /\ Open
  /\ \E artifact \in Artifacts : approved' = Append(approved, artifact)
  /\ held' = FALSE
  /\ UNCHANGED outcome

\* A gated stage is handed to a reviewer.
Hold ==
  /\ Open /\ ~held
  /\ Len(approved) < N - 1
  /\ held' = TRUE
  /\ UNCHANGED <<approved, outcome>>

\* The reviewer asks for another attempt.
Redo ==
  /\ Open /\ held
  /\ held' = FALSE
  /\ UNCHANGED <<approved, outcome>>

Abort ==
  /\ Open /\ held
  /\ outcome' = "aborted"
  /\ held' = FALSE
  /\ UNCHANGED approved

Complete ==
  /\ outcome = "open"
  /\ Len(approved) = N /\ ~held
  /\ outcome' = "complete"
  /\ UNCHANGED <<approved, held>>

Next == Approve \/ Hold \/ Redo \/ Abort \/ Complete

Spec == Init /\ [][Next]_vars
=============================================================================
