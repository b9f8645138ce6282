------------------------------ MODULE MCRouting ------------------------------
(* The routing rules explored alone, and then under the demo runs. *)
EXTENDS RoutingProperties, DemoRun

MCInit == Init /\ DemoInit

MCNext ==
  \/ Next /\ DemoInit /\ UNCHANGED demoVars
  \/ DemoNext /\ Init /\ retries = 0 /\ ~criticalUsed /\ UNCHANGED vars

MCSpec == MCInit /\ [][MCNext]_<<vars, demoVars>>
==============================================================================
