CONSTANTS
  TickMax = 15
  Timeouts = {15}
  Masks = {{"NB_MSGPORT"}}
  MaxElapsed = 7

SPECIFICATION WaitSpec

PROPERTIES
  ZeroOnlyAfterTimeout
