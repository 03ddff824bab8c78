CONSTANTS
  t1 = t1
  t2 = t2
  chipmem = chipmem
  fastmem = fastmem
  None = None
  Junk = Junk
  Canary = Canary
  Tasks = {t1, t2}
  ChipUnits = 4
  FastUnits = 1
  Regions <- MCRegions
  Size <- MCSize
  Chip = {chipmem}
  Requests = {1, 2, 3}
  EndWordUsed = TRUE

SYMMETRY TaskSymmetry

SPECIFICATION Spec

\* the system stops when it panics
CHECK_DEADLOCK FALSE

INVARIANTS
  WellTagged
  Accounted

PROPERTIES
  ImplementsHeap
