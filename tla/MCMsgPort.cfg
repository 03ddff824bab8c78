CONSTANTS
  c1 = c1
  c2 = c2
  c3 = c3
  tty = tty
  floppy = floppy
  rd = rd
  wr = wr
  io = io
  None = None
  Clients = {c1, c3}
  Owners = {tty, floppy}
  Ports = {rd, io}
  Deferred = {rd}
  Timed = {floppy}
  Noisy = {floppy}
  Owner <- MCOwner
  Prio <- MCPrio

SPECIFICATION FairSpec

INVARIANTS
  AnsweredOnReturn
  MessageLive
  NoEmptyWakeup

PROPERTIES
  ImplementsRemoteCall
  Answered
