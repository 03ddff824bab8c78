SPECIFICATION Spec
CONSTANTS
  high = high
  middle = middle
  upper = upper
  low = low
  bottom = bottom
  idle = idle
  a = a
  b = b
  k = k
  Created <- MCFour
  BasePriority <- MCPriority
  Lock = {a}
  EventList = {a}
  Program <- MCTimeout
  MaxCalls <- MCTimeoutCalls
  ListEnd = ListEnd
  NoTask = NoTask
  NoLock = NoLock
  TickMax = 5
  MaxTicks = 5
  Nesting = {}
INVARIANTS Restored Inherited NoMutexStranded NoTimeLeftNoInheritance
CHECK_DEADLOCK FALSE
