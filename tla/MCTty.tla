------------------------------- MODULE MCTty -------------------------------
(* Instances of Tty for TLC: the text does not fit into the output buffer.   *)
EXTENDS Tty

MCTexts == {<<"char", "lf", "char">>}
=============================================================================
