CONSTANTS
  Requests <- Plain
  MaxRequests = 2
  Workers = {w1, w2}
  MaxHeader = 3
  MaxBody = 2
  Step = 2
  ResponseLength = 2
  ReceiveBuffer = 4
  SendBuffer = 1
  Pipelining = TRUE
  MaxTroubled = 0
SPECIFICATION FairSpec
PROPERTY SendableIsCalled
CHECK_DEADLOCK FALSE
