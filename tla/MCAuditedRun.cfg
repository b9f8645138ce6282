CONSTANTS
  N = 2
  HighRisk = {2}
  ScoreSet <- MCScoreSet
  MaxRedos = 1
  RecursionLimit = 10
  PassThreshold = 400
  BorderlineLow = 300
  MinDimension = 3
  MaxRetries = 1
  FastTrack = TRUE
  AllTier2 = FALSE
  TieredEvaluator = FALSE
  Pregate = TRUE
  NoOutput = NoOutput
  MaxFailures = 1
SPECIFICATION AuditedSpec
INVARIANTS
  ViewFollowsRun
  AttemptsFollowRun
  LastDecisionApplied
  OutcomeReported
  MetricsFollowRun
PROPERTIES
  InvokeSettles
CHECK_DEADLOCK FALSE
