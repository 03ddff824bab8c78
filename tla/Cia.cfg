CONSTANTS
  Task = {t1, t2}
  Nobody = Nobody
  MaxWaits = 2
  MaxKeys = 2
SPECIFICATION CiaFairSpec
INVARIANTS TimersSound
PROPERTIES FullDelay Wakes
CHECK_DEADLOCK FALSE
CONSTRAINT NoStray
