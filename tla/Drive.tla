-------------------------------- MODULE Drive --------------------------------
(* What a disk drive promises its clients: a request moves bytes between its  *)
(* buffer and consecutive places of the disk, a read finds what the last      *)
(* write to each place has left there, and a write puts its bytes nowhere     *)
(* else.  Only when the disk has refused to be written may data be lost.      *)
(* When the drive breaks it promises nothing any more.                        *)
EXTENDS Integers, Sequences

CONSTANTS
  Size,     \* the number of bytes on the disk
  Clients,
  Byte,
  None      \* not a request

VARIABLES
  content,  \* the bytes a reader finds
  call,     \* the request of each client, or None
  refused,  \* whether the disk has refused a write
  broken    \* whether the drive has broken

vars == <<content, call, refused, broken>>

Place == 0 .. Size - 1

Request ==
  [offset : Place, left : 1 .. Size, write : BOOLEAN, value : Byte,
   buf : {<<>>}]

Init ==
  /\ content = [p \in Place |-> 0]
  /\ call = [c \in Clients |-> None]
  /\ refused = FALSE /\ broken = FALSE

Ask(c) ==
  /\ call[c] = None
  /\ call'[c] \in Request
  /\ call'[c].offset + call'[c].left <= Size
  /\ call' = [call EXCEPT ![c] = call'[c]]
  /\ UNCHANGED <<content, refused>>

(* The request's next n bytes go one way or the other                         *)
Transfer(c, n) ==
  LET r == call[c]
      first == r.offset + Len(r.buf)
      here == first .. first + n - 1
  IN  /\ content' = [p \in Place |->
            IF r.write /\ p \in here THEN r.value ELSE content[p]]
      /\ call' = [call EXCEPT
            ![c].left = r.left - n,
            ![c].buf = r.buf \o [i \in 1 .. n |-> content'[first + i - 1]]]
      /\ UNCHANGED refused

Answer(c) ==
  /\ call[c] # None /\ call[c].left = 0
  /\ call' = [call EXCEPT ![c] = None]
  /\ UNCHANGED <<content, refused>>

Refuse == refused' = TRUE /\ UNCHANGED <<content, call>>

Lose == refused /\ content' \in [Place -> Byte] /\ UNCHANGED <<call, refused>>

Works ==
  \/ \E c \in Clients : Ask(c) \/ Answer(c)
  \/ \E c \in Clients :
       /\ call[c] # None
       /\ \E n \in 1 .. call[c].left : Transfer(c, n)
  \/ Refuse
  \/ Lose

Next ==
  \/ ~ broken /\ UNCHANGED broken /\ Works
  \/ broken'   \* and nothing is said of the rest

Spec == Init /\ [][Next]_vars
=============================================================================
