CONSTANTS
  Names = {1, 2}
  Versions = 2
  MaxTime = 4
  Timeout = 2
SPECIFICATION Spec
INVARIANT BisectionFinds
INVARIANT FreshEnough
