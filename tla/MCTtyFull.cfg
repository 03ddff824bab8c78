CONSTANTS
  None = None
  BufSiz = 3
  SizeT = 8
  Keys = {"char", "cr"}
  TypeAhead = 3
  ReadLens = {1, 3}
  Texts <- MCTexts
  ConsoleRoom = 2

SPECIFICATION Spec

PROPERTIES
  RemovedOnlyProcessed

CHECK_DEADLOCK FALSE
