CONSTANTS
  Clients = {c1, c2, c3}
  Fds = {f1, f2}
  Workers = {w1, w2}
  MaxEvents = 2
  Handshakes = TRUE
  Nascent = Nascent
  Lost = Lost
  None = None
SPECIFICATION Spec
SYMMETRY Symmetry
INVARIANT ListsAgree
INVARIANT NoLeakedSocket
PROPERTY ImplementsIdleTable
CHECK_DEADLOCK FALSE
