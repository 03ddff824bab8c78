SPECIFICATION Spec
CONSTANTS
  high = high
  middle = middle
  upper = upper
  low = low
  bottom = bottom
  idle = idle
  a = a
  b = b
  k = k
  Created <- MCFour
  BasePriority <- MCPriority
  Lock = {a, b}
  EventList = {a, b}
  Program <- MCCorner
  MaxCalls <- MCCornerCalls
  ListEnd = ListEnd
  NoTask = NoTask
  NoLock = NoLock
  TickMax = 3
  MaxTicks = 5
  Nesting <- MCNested
PROPERTY SwitchAfterLastGive
CHECK_DEADLOCK FALSE
