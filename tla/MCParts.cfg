CONSTANTS
  Data = {d1, d2, d3, d4}
  Timers = {t1, t2, t3, t4}
  Durations = {1, 2}
  MaxDue = 3
  Null = Null
  Names = {n1, n2}
  Depth = 2
  Targets = {x1, x2}
  None = None
  MaxLine = 3
  MaxSignal = 1
  Chunk = 2
  Long = {3}
  Objects = {o1, o2}
  Types = {Interrupt, Terminate}
  Threads = {h1, h2}
  MaxSignals = 2
  Nobody = Nobody
SPECIFICATION Spec
PROPERTY ImplementsIdleTable
PROPERTY ImplementsTimerQueue
PROPERTY ImplementsRegistry
PROPERTY CommandLineServes
PROPERTY SignalsReachTargets
CHECK_DEADLOCK FALSE
