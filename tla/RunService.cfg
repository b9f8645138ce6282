CONSTANTS
  Reviewers = {r1, r2}
  Start = Start
  NoThread = NoThread
  EmptyReviews = {2}
  MaxReviews = 2
  MaxCrashes = 1
SPECIFICATION FairSpec
INVARIANTS
  TypeOK
  DecisionsComplete
  ActiveDrains
  DroppedWasSuperseded
PROPERTIES
  DecisionsStand
  ReviewSurvives
  TasksEnd
CHECK_DEADLOCK FALSE
