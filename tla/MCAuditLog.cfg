CONSTANTS
  p1 = p1
  p2 = p2
  l1 = l1
  l2 = l2
  Processes = {p1, p2}
  Lanes = {l1, l2}
  NoLane = NoLane
  Writers <- MCWriters
  Runs = {m1}
  MaxRows = 2
  MaxCalls = 2
SPECIFICATION FairSpec
INVARIANTS
  TypeOK
  VerifyReportsFirstEdit
  ForkedRowsOfTwoProcesses
PROPERTIES
  LockComesFree
