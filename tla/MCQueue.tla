------------------------------- MODULE MCQueue -------------------------------
(* Two readers of different priority, a writer, and the idle task             *)
EXTENDS Queue

CONSTANTS high, low, writer, idle

MCCreated == <<high, low, writer, idle>>
MCPriority == (high :> 2) @@ (low :> 1) @@ (writer :> 1) @@ (idle :> 0)
MCEventList == {Senders, Receivers}

A(kind, ticks, n) == [kind |-> kind, ticks |-> ticks, n |-> n]

MCProgram ==
  (high :> {A("receive", portMAX_DELAY, 2), A("delay", 1, 1)}) @@
  (low :> {A("receive", 2, 1), A("send", 1, 1)}) @@
  (writer :> {A("send", portMAX_DELAY, 1), A("receive", 0, 1)}) @@
  (idle :> {})
=============================================================================
