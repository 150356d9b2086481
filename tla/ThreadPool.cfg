CONSTANTS
  Workers = {w1, w2}
  Callers = {c1, c2}
  MaxThreads = 2
  Nobody = Nobody
SPECIFICATION FairSpec
INVARIANT StopsOnlyOnRequest
PROPERTY CallsReturn
INVARIANT WorkersAreKnown
CHECK_DEADLOCK FALSE
