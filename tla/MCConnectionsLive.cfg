CONSTANTS
  Clients = {c1, c2}
  Fds = {f1, f2}
  Workers = {w1}
  MaxEvents = 2
  Handshakes = FALSE
  Nascent = Nascent
  Lost = Lost
  None = None
SPECIFICATION FairSpec
PROPERTY BacklogIsServed
PROPERTY StopEnds
PROPERTY DeadIsReclaimed
CHECK_DEADLOCK FALSE
