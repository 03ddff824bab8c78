CONSTANTS
  TickMax = 15
  Timeouts = {0, 1, 3}
  Masks = {{"NB_MSGPORT"}, {"NB_MSGPORT", "NB_EVENT"}}
  MaxElapsed = 7

SPECIFICATION WaitSpec

INVARIANTS
  DeadlineKept
  NoSleepOnBit

PROPERTIES
  ZeroOnlyAfterTimeout
  BitsConsumedOnce
