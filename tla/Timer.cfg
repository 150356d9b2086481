CONSTANTS
  Timers = {t1, t2}
  Durations = {1, 2}
  MaxTime = 3
  Nobody = Nobody
SPECIFICATION FairSpec
INVARIANT TypeOK
INVARIANT CallbackOnlyWhileRegistered
INVARIANT ListSorted
INVARIANT NoLostWakeup
INVARIANT ThreadIffTimers
PROPERTY DueTimerFires
PROPERTY CallsReturn
PROPERTY ImplementsTimerService
CHECK_DEADLOCK FALSE
