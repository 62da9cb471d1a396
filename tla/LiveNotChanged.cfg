SPECIFICATION Spec
CONSTANTS
  DOWN_NUM = 2
  COMP_NUM = 1
  GROUP_NUM = 2
  MaxSeg = 3
  MaxWindow = 2
  Faults = {"index"}
  Hung = {}
INVARIANTS
  UnchangedMeansPublished
CHECK_DEADLOCK FALSE
