SPECIFICATION PairSpec
CONSTANTS
  r1 = r1
  r2 = r2
  Requests = {r1, r2}
  Scenarios <- MCScenarios
  NoConnection = 0
INVARIANTS
  PairTypeOK
  AtMostOneIdle
  OneRequestPerConnection
  NoConnectionLeaks
  ConnectionsBounded
  NothingReadAhead
  AnswersInOrder
  AnswersWhole
  StopReachesAllButOne
CHECK_DEADLOCK FALSE
PROPERTIES
  RequestsAnswered
  ConnectionsReleased
