CONSTANTS
  Reviewers = {r1, r2}
  Start = Start
  NoThread = NoThread
  EmptyReviews = {2}
  MaxReviews = 2
  MaxCrashes = 1
SPECIFICATION Spec
INVARIANTS
  StoppedRunIsReported
CHECK_DEADLOCK FALSE
