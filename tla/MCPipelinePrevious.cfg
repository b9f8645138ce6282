CONSTANTS
  N = 2
  HighRisk = {2}
  ScoreSet <- MCScoreSet
  MaxRedos = 1
  RecursionLimit = 10
  PassThreshold = 400
  BorderlineLow = 300
  MinDimension = 3
  MaxRetries = 2
  FastTrack = TRUE
  AllTier2 = FALSE
  TieredEvaluator = TRUE
  Pregate = TRUE
  NoOutput = NoOutput
SPECIFICATION Spec
INVARIANTS
  RetrySeesPreviousAttempt
CHECK_DEADLOCK FALSE
