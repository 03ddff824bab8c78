----------------------------- MODULE MCMsgPort -----------------------------
(* A terminal task with a read port whose requests wait for input and a write *)
(* port, a floppy i/o task with one port, and clients below and above them.   *)
EXTENDS MsgPort

CONSTANTS c1, c2, c3, tty, floppy, rd, wr, io

MCOwner == [p \in Ports |-> IF p = io THEN floppy ELSE tty]

MCPrio == [t \in Clients \cup Owners |->
             CASE t = floppy -> 3 [] t = tty -> 2 [] t = c3 -> 3 [] OTHER -> 1]
=============================================================================
