SPECIFICATION Spec
CONSTANTS
  high = high
  low = low
  writer = writer
  idle = idle
  Created <- MCCreated
  BasePriority <- MCPriority
  EventList <- MCEventList
  Program <- MCProgram
  ListEnd = ListEnd
  NoItem = NoItem
  TickMax = 3
  MaxTicks = 4
  MaxCalls = 3
  EventQueueSize = 2
  MaxGroup = 2
  MaxItems = 4
INVARIANTS Scheduled Punctual NoLostWakeup GroupsWhole
PROPERTIES NeverEarly DeliversInOrder
CHECK_DEADLOCK FALSE
