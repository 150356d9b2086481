CONSTANTS
  Requests <- OneByOne
  MaxRequests = 2
  Workers = {w1, w2}
  MaxHeader = 4
  MaxBody = 2
  Step = 3
  ResponseLength = 2
  ReceiveBuffer = 4
  SendBuffer = 1
  Pipelining = FALSE
  MaxTroubled = 0
SPECIFICATION FairSpec
PROPERTY KeepsItsPromise
PROPERTY RequestIsAnswered
CHECK_DEADLOCK FALSE
