CONSTANTS
  PassThreshold = 400
  BorderlineLow = 300
  MinDimension = 3
  MaxRetries = 2
  FastTrack = TRUE
  AllTier2 = FALSE
  TieredEvaluator = TRUE
  Pregate = TRUE
  NoOutput = NoOutput
  Runs = {r1, r2}
  Faulted = {r1}
  Repairs = 1
  Execute = TRUE
  Garbage = Garbage
SPECIFICATION MCSpec
INVARIANTS
  CheapJudgeNeverSettlesDoubt
  SpentBudgetStopsRetries
  RunsTellTheirStory
  NoDefectSurvives
  AnsweredCallsAudited
PROPERTIES
  VerdictMonotone
CHECK_DEADLOCK FALSE
