SPECIFICATION Spec
CONSTANTS
  high = high
  middle = middle
  upper = upper
  low = low
  bottom = bottom
  idle = idle
  a = a
  b = b
  k = k
  Created <- MCCreated
  BasePriority <- MCPriority
  Lock = {a, b}
  EventList = {a, b}
  Program <- MCOvertake
  MaxCalls <- MCOvertakeCalls
  ListEnd = ListEnd
  NoTask = NoTask
  NoLock = NoLock
  TickMax = 5
  MaxTicks = 5
  Nesting = {}
INVARIANT AlwaysInherited
CHECK_DEADLOCK FALSE
