CONSTANTS
  NTRACKS = 4
  NSECTORS = 2
  SECTOR_SIZE = 2
  Clients = {c1, c2}
  Requests <- MCRequests
  MaxCalls = 3
  None = None
SPECIFICATION Spec
INVARIANTS HeadsKnown NoStrayWakeup WrittenThrough
PROPERTIES ImplementsDrive Served

CONSTRAINT NoneMissed
