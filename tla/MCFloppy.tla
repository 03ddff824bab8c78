------------------------------ MODULE MCFloppy ------------------------------
(* A disk of two cylinders; requests that begin and end within a sector, and  *)
(* go over the end of a track, of a cylinder and of the disk; some begin on   *)
(* the track that others leave in the cache.                                  *)
EXTENDS Floppy

MCRequests ==
  {[offset |-> 3, left |-> 6, write |-> TRUE],
   [offset |-> 13, left |-> 1, write |-> TRUE],
   [offset |-> 10, left |-> 9, write |-> FALSE]}
=============================================================================
