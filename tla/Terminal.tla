------------------------------ MODULE Terminal ------------------------------
(* What a terminal promises those who read from it: the characters typed      *)
(* reach them in order and each once, a carriage return as a line feed, and a *)
(* read that does not fill its request ends with a line.  Closing the         *)
(* terminal ends a read that is under way and forgets what was typed.         *)
EXTENDS Naturals, Sequences

CONSTANTS
  Text,      \* the characters a reader can see
  LineFeed,  \* the one of them that ends a line
  ReadLens,  \* the lengths of requests
  None

VARIABLES
  open,
  typed,     \* the characters not read yet, oldest first
  request,   \* the length of the read under way, or None
  reply      \* what the read under way, or else the last one, has returned

vars == <<open, typed, request, reply>>

Init ==
  /\ open = TRUE
  /\ typed = <<>>
  /\ request = None
  /\ reply = <<>>

Type(c) ==
  /\ typed' = Append(typed, c)
  /\ UNCHANGED <<open, request, reply>>

Ask(n) ==
  /\ open = TRUE
  /\ request = None
  /\ request' = n
  /\ reply' = <<>>
  /\ UNCHANGED <<open, typed>>

Read(n) ==
  /\ request # None
  /\ n = request \/ (n < request /\ typed[n] = LineFeed)
  /\ reply' = SubSeq(typed, 1, n)
  /\ typed' = SubSeq(typed, n + 1, Len(typed))
  /\ request' = None
  /\ UNCHANGED open

Close == open /\ open' = FALSE /\ UNCHANGED <<typed, request, reply>>

HangUp ==
  /\ ~open
  /\ typed' = <<>>
  /\ request' = None
  /\ UNCHANGED <<open, reply>>

Next ==
  \/ \E c \in Text : Type(c)
  \/ \E n \in ReadLens : Ask(n)
  \/ \E n \in 1 .. Len(typed) : Read(n)
  \/ Close
  \/ HangUp

Spec == Init /\ [][Next]_vars
=============================================================================
