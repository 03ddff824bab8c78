-------------------------------- MODULE Heap --------------------------------
(* What the allocator promises its callers: blocks that lie inside a memory   *)
(* region and overlap no other block that is in use, until they are freed;    *)
(* resizing in place keeps the start of a block.                              *)
EXTENDS Naturals

CONSTANTS
  Regions,
  Size      \* [Regions -> Nat], units of memory in a region

VARIABLE used \* the blocks in use, as [region, start, size]

Block == [region: Regions, start: Nat, size: Nat \ {0}]

Units(b) == {<<b.region, i>> : i \in b.start .. b.start + b.size - 1}

Fits(b, others) ==
  /\ b.start + b.size <= Size[b.region]
  /\ \A o \in others : Units(b) \cap Units(o) = {}

Init == used = {}

Allocate(b) == Fits(b, used) /\ used' = used \cup {b}

Free(b) == b \in used /\ used' = used \ {b}

Resize(b, n) ==
  LET c == [b EXCEPT !.size = n] IN
  /\ b \in used
  /\ Fits(c, used \ {b})
  /\ used' = (used \ {b}) \cup {c}

Next ==
  \/ \E r \in Regions : \E s \in 0 .. Size[r] : \E n \in 1 .. Size[r] :
       Allocate([region |-> r, start |-> s, size |-> n])
  \/ \E b \in used : Free(b) \/ \E n \in 1 .. Size[b.region] : Resize(b, n)

Spec == Init /\ [][Next]_used
=============================================================================
