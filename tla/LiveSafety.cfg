SPECIFICATION Spec
CONSTANTS
  DOWN_NUM = 2
  COMP_NUM = 1
  GROUP_NUM = 2
  MaxSeg = 4
  MaxWindow = 2
  Faults = {"index", "transfer"}
  Hung = {}
INVARIANTS
  TypeOK
  HandoffExclusion
  PeekedIsPopped
  PipelineOrdered
  OneJobPerSegment
  QueuesBounded
  CompletedIsOnDisk
  BodyNotOlderThanStamp
PROPERTIES
  IndexNeverGoesBack
  NewBodyNewStamp
  ImplementsJobPool
CHECK_DEADLOCK FALSE
