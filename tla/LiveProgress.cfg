SPECIFICATION FairSpec
CONSTANTS
  DOWN_NUM = 2
  COMP_NUM = 1
  GROUP_NUM = 2
  MaxSeg = 3
  MaxWindow = 2
  Faults = {}
  Hung = {0}
PROPERTIES
  TakenIsWritten
  IndexCatchesUp
CHECK_DEADLOCK FALSE
