CONSTANTS
  None = None
  Readers = {r}
  Writers = {w}
  ReadLens = {1, 2}
  WriteLens = {3}
  Noisy = {}
  BufLen = 2
  Bytes = 2
  Lossy = TRUE

SPECIFICATION Spec

INVARIANTS
  WriteComplete
  NobodyStranded

PROPERTIES
  InOrder
