CONSTANTS
  None = None
  BufSiz = 3
  SizeT = 8
  Keys = {"char", "cr"}
  TypeAhead = 2
  ReadLens = {1, 3}
  Texts <- MCTexts
  ConsoleRoom = 2

SPECIFICATION Spec

INVARIANTS
  OutputFits

CHECK_DEADLOCK FALSE
