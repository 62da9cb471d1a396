SPECIFICATION WebSpec
CONSTANTS
  DOWN_NUM = 2
  COMP_NUM = 1
  GROUP_NUM = 1
  MaxSeg = 3
  MaxWindow = 2
  Faults = {}
  Hung = {}
INVARIANTS
  AssertHolds
CHECK_DEADLOCK FALSE
