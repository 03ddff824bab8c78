CONSTANTS
  Nil = Nil
  Users = {u, v}
  Listeners = {l, m}
  QueueSize = 3
  Group = {1, 2}
  MaxQueues = 2

SPECIFICATION DevicesSpec

CONSTRAINT
  Unraced

INVARIANTS
  SetUpWhileUsed
  NothingOverlooked

\* the model ends when no further queue may be created
CHECK_DEADLOCK FALSE
