SPECIFICATION FairSpec
CONSTANTS
  Handlers = {h1, h2, h3}
  Stoppers = {s1, s2}
INVARIANTS
  CountsLocks
  NoHandlerAfterStop
  RefusedOnlyWhenStopping
PROPERTIES
  ShutForGood
  StopReturns
CHECK_DEADLOCK FALSE
