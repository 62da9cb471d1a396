SPECIFICATION Spec
CONSTANTS
  DOWN_NUM = 2
  COMP_NUM = 1
  GROUP_NUM = 2
  MaxSeg = 4
  MaxWindow = 3
  Faults = {}
  Hung = {}
INVARIANTS
  EvictedIsDeleted
CHECK_DEADLOCK FALSE
