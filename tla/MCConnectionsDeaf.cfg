CONSTANTS
  Clients = {c1, c2}
  Fds = {f1, f2}
  Workers = {w1, w2}
  MaxEvents = 2
  Handshakes = FALSE
  Nascent = Nascent
  Lost = Lost
  None = None
SPECIFICATION Spec
SYMMETRY Symmetry
INVARIANT ListedIsWaitedFor
CHECK_DEADLOCK FALSE
