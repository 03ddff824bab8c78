------------------------------ MODULE MCMemory ------------------------------
(* Two regions, the first of them chip memory, and two tasks *)
EXTENDS Memory, TLC

CONSTANTS t1, t2, chipmem, fastmem, ChipUnits, FastUnits

MCRegions == IF FastUnits = 0 THEN <<chipmem>> ELSE <<chipmem, fastmem>>
MCSize == [r \in RegionSet |-> IF r = chipmem THEN ChipUnits ELSE FastUnits]

TaskSymmetry == Permutations(Tasks)
=============================================================================
