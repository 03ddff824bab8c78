CONSTANTS
  NTRACKS = 4
  NSECTORS = 2
  SECTOR_SIZE = 2
  Clients = {c1, c2}
  Requests <- MCRequests
  MaxCalls = 1
  None = None
SPECIFICATION Spec
PROPERTY TransferFinished
