SPECIFICATION Spec
CONSTANTS
  high = high
  middle = middle
  upper = upper
  low = low
  bottom = bottom
  idle = idle
  a = a
  b = b
  k = k
  Created <- MCCreated
  BasePriority <- MCPriority
  Lock = {a, b, k}
  EventList = {a, b, k}
  Program <- MCProgram
  MaxCalls <- MCMaxCalls
  ListEnd = ListEnd
  NoTask = NoTask
  NoLock = NoLock
  TickMax = 4
  MaxTicks = 5
  Nesting <- MCOrdered
INVARIANTS Restored Inherited NoMutexStranded
CHECK_DEADLOCK FALSE
