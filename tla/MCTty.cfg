CONSTANTS
  None = None
  BufSiz = 3
  SizeT = 8
  Keys = {"char", "cr"}
  TypeAhead = 2
  ReadLens = {1, 3}
  Texts <- MCTexts
  ConsoleRoom = 2

SPECIFICATION FairSpec

INVARIANTS
  NoStall
  EolMarksLine

PROPERTIES
  RemovedOnlyProcessed
  CallsAnswered
  ImplementsTerminal

CHECK_DEADLOCK FALSE
