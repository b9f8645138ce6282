CONSTANTS
  Jobs = {j1, j2, j3}
  MaxCalls = 2
  Unexpected = TRUE
SPECIFICATION FairSpec
INVARIANTS
  TypeOK
  EachCallInOnePlace
PROPERTIES
  BatchWhenAllWait
  CallsAnswered
  HarnessEnds
CHECK_DEADLOCK FALSE
