CONSTANTS
  Task = {t1, t2}
  Nobody = Nobody
  MaxWaits = 2
  MaxKeys = 2
SPECIFICATION CiaFairSpec
PROPERTY AlwaysFullDelay
CHECK_DEADLOCK FALSE
