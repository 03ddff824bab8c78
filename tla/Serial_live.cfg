CONSTANTS
  None = None
  Readers = {}
  Writers = {w}
  ReadLens = {1, 2}
  WriteLens = {3}
  Noisy = {w}
  BufLen = 2
  Bytes = 2
  Lossy = TRUE

SPECIFICATION FairSpec

PROPERTIES
  Transmitted
