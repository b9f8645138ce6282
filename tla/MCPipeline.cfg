CONSTANTS
  N = 3
  HighRisk = {2}
  ScoreSet <- MCScoreSet
  MaxRedos = 1
  RecursionLimit = 16
  PassThreshold = 400
  BorderlineLow = 300
  MinDimension = 3
  MaxRetries = 2
  FastTrack = TRUE
  AllTier2 = FALSE
  TieredEvaluator = TRUE
  Pregate = TRUE
  NoOutput = NoOutput
SPECIFICATION Spec
INVARIANTS
  TypeOK
  DownstreamOnlyAfterApproval
  EscalatesOnlyAfterTier2
  FeedbackAligned
  StepsBelowLimit
PROPERTIES
  SurvivingCriticalEscalates
  ImplementsApproval
CHECK_DEADLOCK FALSE
