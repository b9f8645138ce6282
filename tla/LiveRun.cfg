CONSTANTS
  Modes = {"live", "offline"}
  Kinds = {"orchestrate", "runs"}
  MaxReviews = 2
  MaxWork = 5
  MaxCrashes = 1
SPECIFICATION FairSpec
INVARIANTS
  RowsExplainState
  ScriptAssigned
PROPERTIES
  UnchangedIsCurrent
  PlannedIsDispatched
  PageCatchesUp
CHECK_DEADLOCK FALSE
