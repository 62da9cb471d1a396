SPECIFICATION Spec
CONSTANTS
  DOWN_NUM = 2
  COMP_NUM = 1
  GROUP_NUM = 2
  MaxSeg = 3
  MaxWindow = 3
  Faults = {}
  Hung = {}
PROPERTIES
  NewItemIsAdded
CHECK_DEADLOCK FALSE
