CONSTANTS
  Requests <- InARow
  MaxRequests = 3
  Workers = {w1, w2}
  MaxHeader = 3
  MaxBody = 2
  Step = 2
  ResponseLength = 2
  ReceiveBuffer = 4
  SendBuffer = 3
  Pipelining = TRUE
  MaxTroubled = 2
SPECIFICATION Spec
SYMMETRY Symmetry
INVARIANT NothingForgotten
INVARIANT ClosedIsQuiet
INVARIANT AnsweredOnce
PROPERTY KeepsItsPromise
CHECK_DEADLOCK FALSE
