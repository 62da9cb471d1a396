SPECIFICATION PairSpec
CONSTANTS
  r1 = r1
  r2 = r2
  Requests = {r1, r2}
  Scenarios <- MCClosing
  NoConnection = 0
INVARIANTS
  ClosedAnswersWhole
CHECK_DEADLOCK FALSE
