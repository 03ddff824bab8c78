----------------------------- MODULE ByteStream -----------------------------
(* What a direction of a serial line promises: bytes come out in the order    *)
(* they went in, each once, and no more than the line can hold are under way. *)
EXTENDS Naturals, Sequences

CONSTANTS
  Byte,
  Capacity  \* the most bytes that can be under way

VARIABLES
  pending,  \* the bytes under way, oldest first
  out       \* the bytes that came out last

vars == <<pending, out>>

Init == pending = <<>> /\ out = <<>>

Put ==
  \E k \in 1 .. Capacity : \E new \in [1 .. k -> Byte] :
    /\ pending' = pending \o new
    /\ Len(pending') <= Capacity
    /\ UNCHANGED out

Take ==
  \E n \in 1 .. Len(pending) :
    /\ out' = SubSeq(pending, 1, n)
    /\ pending' = SubSeq(pending, n + 1, Len(pending))

Spec == Init /\ [][Put \/ Take]_vars
=============================================================================
