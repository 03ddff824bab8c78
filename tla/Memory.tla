------------------------------- MODULE Memory -------------------------------
(* The boundary tag allocator of kernel/memory.c.  Memory is counted in units *)
(* of ALIGNMENT bytes: the first word of a block's first unit is its tag, the *)
(* last word of its last unit its footer, which repeats the tag of a free     *)
(* block and holds a canary in a used one.  A word that is neither the tag    *)
(* nor the footer of a block belongs to its user and is Junk here.  The free  *)
(* list, linked through the free blocks, is a sequence of their addresses.    *)
(*                                                                            *)
(* The operators on an arena are the static functions of the file, each run   *)
(* with the scheduler suspended; the actions are the steps of the tasks that  *)
(* call MemAlloc, MemFree and MemRealloc.                                     *)
EXTENDS Integers, FiniteSets, Sequences

CONSTANTS
  Tasks,
  Regions,      \* sequence of memory regions in the order of MemRegions
  Size,         \* [region -> units in its arena]
  Chip,         \* the regions below MEM_CHIP
  Requests,     \* the sizes tasks ask for, in units, overhead included
  EndWordUsed,  \* whether the word behind the arenas has the USED bit; no
                \* code initialises it
  None, Junk, Canary

RegionSet == {Regions[i] : i \in DOMAIN Regions}

Tags == [size: Nat, used: BOOLEAN, prevfree: BOOLEAN, last: BOOLEAN]

ASSUME MemoryAssumption ==
  /\ Regions \in Seq(RegionSet)
  /\ Size \in [RegionSet -> Nat \ {0}]
  /\ Chip \subseteq RegionSet /\ Chip # {}
  /\ Requests \subseteq Nat \ {0}
  /\ EndWordUsed \in BOOLEAN
  /\ None \notin Nat /\ None \notin RegionSet \X Nat
  /\ Junk \notin Tags /\ Canary \notin Tags

VARIABLES
  arena,  \* per region: [hdr, ftr, free, totalFree]
  owned,  \* per task: the blocks it got and has not freed, as <<region, bt>>
  pc,     \* per task: "idle", "malloc", "realloc" or "free"
  call    \* per task: the arguments and locals of its call, or None

vars == <<arena, owned, pc, call>>

ALIGNMENT == 16
USEDBLK_SZ == 8
Bytes(units) == units * ALIGNMENT

Tag(size, used, prevfree, last) ==
  [size |-> size, used |-> used, prevfree |-> prevfree, last |-> last]

----------------------------------------------------------------------------
(* Boundary tags and the free list of one arena *)

(* bt_make: write the tag and the footer; what lies between is no tag         *)
Make(ar, bt, tag) ==
  LET last == bt + tag.size - 1
  IN  [ar EXCEPT
        !.hdr = [i \in DOMAIN @ |->
                   IF i = bt THEN tag ELSE IF i \in bt + 1 .. last THEN Junk ELSE @[i]],
        !.ftr = [i \in DOMAIN @ |->
                   IF i = last THEN IF tag.used THEN Canary ELSE tag
                   ELSE IF i \in bt .. last - 1 THEN Junk ELSE @[i]]]

bt_next(ar, bt) == bt + ar.hdr[bt].size
bt_prev(ar, bt) == bt - ar.ftr[bt - 1].size

(* Definitions named Fault... are plausible slips in the code they stand      *)
(* beside.  No specification uses them.                                       *)

(* Fault: nobody tells the next block that this one is in use now             *)
FaultStaleFlag(ar, bt, flag) ==
  IF flag THEN [ar EXCEPT !.hdr[bt].prevfree = TRUE] ELSE ar

(* bt_set_prevfree, bt_clr_prevfree *)
SetPrevfree(ar, bt, flag) == [ar EXCEPT !.hdr[bt].prevfree = flag]
n_insert(ar, bt) == [ar EXCEPT !.free = Append(@, bt)]

(* takes an item out of the list, if it is in it                              *)
Unlinked(q, x) ==
  LET i == CHOOSE j \in DOMAIN q : q[j] = x
  IN  IF \E j \in DOMAIN q : q[j] = x
      THEN SubSeq(q, 1, i - 1) \o SubSeq(q, i + 1, Len(q)) ELSE q

n_remove(ar, bt) == [ar EXCEPT !.free = Unlinked(@, bt)]

(* the low-water mark the file keeps beside totalFree decides nothing         *)
ar_dec_free(ar, bytes) == [ar EXCEPT !.totalFree = @ - bytes]

ar_init(size) ==
  LET endWord == Tag(0, EndWordUsed, FALSE, FALSE)
      empty == [hdr |-> [i \in 0 .. size |-> IF i = size THEN endWord ELSE Junk],
                ftr |-> [i \in 0 .. size - 1 |-> Junk],
                free |-> <<>>,
                totalFree |-> Bytes(size) - USEDBLK_SZ]
  IN  n_insert(Make(empty, 0, Tag(size, FALSE, FALSE, TRUE)), 0)

First(positions) == CHOOSE i \in positions : \A j \in positions : i <= j

(* Fault: the search counts the overhead of the block it finds as room        *)
FaultLooseFit(ar, n) ==
  LET fits == {i \in DOMAIN ar.free : ar.hdr[ar.free[i]].size + 1 >= n}
  IN  IF fits = {} THEN None ELSE ar.free[First(fits)]

(* find_fit: first fit, None if no free block is large enough                 *)
find_fit(ar, n) ==
  LET fits == {i \in DOMAIN ar.free : ar.hdr[ar.free[i]].size >= n}
  IN  IF fits = {} THEN None ELSE ar.free[First(fits)]

(* ar_malloc once find_fit has found bt: the arena it leaves                  *)
ar_malloc(ar, bt, n) ==
  LET old == ar.hdr[bt]
      taken == Make(n_remove(ar, bt), bt, Tag(n, TRUE, FALSE, old.last))
      next == bt + n
  IN  IF old.size > n
        THEN LET split == Make(taken, next, Tag(old.size - n, FALSE, FALSE, old.last))
             IN  ar_dec_free(n_insert([split EXCEPT !.hdr[bt].last = FALSE], next),
                             Bytes(n))
        ELSE ar_dec_free(IF old.last THEN taken ELSE SetPrevfree(taken, next, FALSE),
                         Bytes(n) - USEDBLK_SZ)

(* what freeing a block adds to totalFree                                     *)
Gain(size, joined, prevfree) ==
  Bytes(size) - USEDBLK_SZ
  + (IF joined THEN USEDBLK_SZ ELSE 0) + (IF prevfree THEN USEDBLK_SZ ELSE 0)

(* ar_free: merge with the next block, then with the previous one.  Nothing   *)
(* stops it from taking the word behind the arena for the next block's tag    *)
ar_free(ar, bt) ==
  LET tag == ar.hdr[bt]
      next == bt + tag.size
      freed == Make(ar, bt, [tag EXCEPT !.used = FALSE])
      joined == ~ar.hdr[next].used
      size1 == IF joined THEN tag.size + ar.hdr[next].size ELSE tag.size
      ar1 == IF joined
               THEN Make(n_remove(freed, next), bt,
                         Tag(size1, FALSE, tag.prevfree, ar.hdr[next].last))
               ELSE SetPrevfree(freed, next, TRUE)
      prev == bt_prev(ar, bt)
      size2 == size1 + ar.hdr[prev].size
      ar2 == Make(n_remove(ar1, prev), prev,
                  Tag(size2, FALSE, FALSE, ar1.hdr[bt].last))
      done == IF tag.prevfree THEN n_insert(ar2, prev) ELSE n_insert(ar1, bt)
  IN  [done EXCEPT !.totalFree = @ + Gain(tag.size, joined, tag.prevfree)]

(* ar_realloc to a smaller block: the rest becomes a used block and is freed  *)
Shrink(ar, bt, sz, n) ==
  LET tag == ar.hdr[bt]
      kept == Make(ar, bt, Tag(n, TRUE, tag.prevfree, FALSE))
      rest == bt + n
  IN  ar_free(Make(kept, rest, Tag(sz - n, TRUE, FALSE, tag.last)), rest)

(* ar_realloc to a larger block: take what is missing from the next one, if   *)
(* that is free and large enough                                              *)
CanGrow(ar, bt, sz, n) ==
  LET next == bt_next(ar, bt)
  IN  ~ar.hdr[next].used /\ sz + ar.hdr[next].size >= n

Grow(ar, bt, sz, n) ==
  LET next == bt_next(ar, bt)
      both == sz + ar.hdr[next].size
      grown == Make(n_remove(ar, next), bt,
                    Tag(n, TRUE, ar.hdr[bt].prevfree, FALSE))
      rest == bt + n
  IN  IF both > n
        THEN ar_dec_free(
               n_insert(Make(grown, rest, Tag(both - n, FALSE, FALSE, ar.hdr[next].last)),
                        rest),
               Bytes(n - sz))
        ELSE ar_dec_free(SetPrevfree(grown, rest, FALSE),
                         Bytes(ar.hdr[next].size) - USEDBLK_SZ)

----------------------------------------------------------------------------
(* Tasks *)

Init ==
  /\ arena = [r \in RegionSet |-> ar_init(Size[r])]
  /\ owned = [t \in Tasks |-> {}]
  /\ pc = [t \in Tasks |-> "idle"]
  /\ call = [t \in Tasks |-> None]

Goto(t, label, locals) ==
  /\ pc' = [pc EXCEPT ![t] = label]
  /\ call' = [call EXCEPT ![t] = locals]

(* no task gets any further once one of them is in the panic handler          *)
At(t, label) == pc[t] = label /\ \A u \in Tasks : pc[u] # "panic"

(* _pvPortMallocBelow visits the regions in order, MEM_CHIP ruling some out.  *)
(* The call holds the places of those it has yet to visit                     *)
RegionsBelow(chip) == {i \in DOMAIN Regions : chip => Regions[i] \in Chip}

(* MemAlloc and pvPortMalloc, up to that loop                                 *)
MemAlloc(t, n, chip) ==
  /\ At(t, "idle")
  /\ Goto(t, "malloc", [want |-> n, todo |-> RegionsBelow(chip), old |-> None])
  /\ UNCHANGED <<arena, owned>>

(* one iteration that finds room                                              *)
MallocBelow(t) ==
  LET r == Regions[First(call[t].todo)]
      bt == find_fit(arena[r], call[t].want)
  IN  /\ At(t, "malloc")
      /\ bt # None
      /\ arena' = [arena EXCEPT ![r] = ar_malloc(@, bt, call[t].want)]
      /\ owned' = [owned EXCEPT ![t] = @ \cup {<<r, bt>>}]
      /\ IF call[t].old = None THEN Goto(t, "idle", None)
         ELSE Goto(t, "free", call[t])

(* one that does not: on to the next region.  After the last one              *)
(* vApplicationMallocFailedHook panics, and nobody runs any more              *)
MallocFails(t) ==
  LET todo == call[t].todo
  IN  /\ At(t, "malloc")
      /\ find_fit(arena[Regions[First(todo)]], call[t].want) = None
      /\ IF todo = {First(todo)} THEN Goto(t, "panic", None)
         ELSE Goto(t, "malloc", [call[t] EXCEPT !.todo = @ \ {First(@)}])
      /\ UNCHANGED <<arena, owned>>

(* vPortFree, and MemRealloc to size 0                                        *)
MemFree(t, r, bt) ==
  /\ At(t, "idle")
  /\ <<r, bt>> \in owned[t]
  /\ arena' = [arena EXCEPT ![r] = ar_free(@, bt)]
  /\ owned' = [owned EXCEPT ![t] = @ \ {<<r, bt>>}]
  /\ UNCHANGED <<pc, call>>

(* ar_realloc reads the size of the block before it suspends the scheduler    *)
MemRealloc(t, r, bt, n) ==
  /\ At(t, "idle")
  /\ <<r, bt>> \in owned[t]
  /\ n # arena[r].hdr[bt].size
  /\ Goto(t, "realloc",
          [want |-> n, old |-> <<r, bt>>, size |-> arena[r].hdr[bt].size])
  /\ UNCHANGED <<arena, owned>>

(* the rest of ar_realloc; if it fails MemRealloc looks for another block     *)
ReallocInPlace(t) ==
  LET n == call[t].want
      sz == call[t].size
      r == call[t].old[1]
      bt == call[t].old[2]
  IN  /\ At(t, "realloc")
      /\ \/ /\ n < sz
            /\ arena' = [arena EXCEPT ![r] = Shrink(@, bt, sz, n)]
            /\ Goto(t, "idle", None)
         \/ /\ n > sz
            /\ CanGrow(arena[r], bt, sz, n)
            /\ arena' = [arena EXCEPT ![r] = Grow(@, bt, sz, n)]
            /\ Goto(t, "idle", None)
         \/ /\ n > sz
            /\ ~CanGrow(arena[r], bt, sz, n)
            /\ Goto(t, "malloc", [want |-> n, todo |-> RegionsBelow(FALSE),
                                  old |-> call[t].old])
            /\ UNCHANGED arena
      /\ UNCHANGED owned

(* Fault: the old block is forgotten                                          *)
FaultLeakOld(t) ==
  /\ At(t, "free")
  /\ owned' = [owned EXCEPT ![t] = @ \ {call[t].old}]
  /\ Goto(t, "idle", None)
  /\ UNCHANGED arena

(* MemRealloc copies the contents and frees the old block                     *)
FreeOld(t) ==
  LET r == call[t].old[1]
      bt == call[t].old[2]
  IN  /\ At(t, "free")
      /\ arena' = [arena EXCEPT ![r] = ar_free(@, bt)]
      /\ owned' = [owned EXCEPT ![t] = @ \ {call[t].old}]
      /\ Goto(t, "idle", None)

Next ==
  \E t \in Tasks :
    \/ \E n \in Requests, chip \in BOOLEAN : MemAlloc(t, n, chip)
    \/ \E b \in owned[t] :
         \/ MemFree(t, b[1], b[2])
         \/ \E n \in Requests : MemRealloc(t, b[1], b[2], n)
    \/ MallocBelow(t) \/ MallocFails(t) \/ ReallocInPlace(t) \/ FreeOld(t)

Spec == Init /\ [][Next]_vars

----------------------------------------------------------------------------
(* Properties: ar_check after every step, and what it does not look at *)

Blocks == UNION {{r} \X (0 .. Size[r] - 1) : r \in RegionSet}

Arenas(n) ==
  [hdr: [0 .. n -> Tags \cup {Junk}],
   ftr: [0 .. n - 1 -> Tags \cup {Junk, Canary}],
   free: Seq(0 .. n - 1),
   totalFree: Nat]

TypeOK ==
  /\ \A r \in RegionSet : arena[r] \in Arenas(Size[r])
  /\ owned \in [Tasks -> SUBSET Blocks]
  /\ pc \in [Tasks -> {"idle", "malloc", "realloc", "free", "panic"}]

BlocksOf(ar) == {i \in DOMAIN ar.ftr : ar.hdr[i] # Junk}
FreeBlocksOf(ar) == {i \in BlocksOf(ar) : ~ar.hdr[i].used}

(* The blocks tile the arena.  A used block ends with a canary and a free one *)
(* with a copy of its tag, a block's PREVFREE flag tells whether the one      *)
(* before it is free, no two free blocks touch (ar_check), and only the last  *)
(* block says it is the last                                                  *)
BlockTagged(ar, i, size) ==
  LET next == bt_next(ar, i)
  IN  /\ ar.hdr[i].size > 0
      /\ next \in BlocksOf(ar) \cup {size}
      /\ BlocksOf(ar) \cap (i + 1 .. next - 1) = {}
      /\ ar.ftr[next - 1] = IF ar.hdr[i].used THEN Canary ELSE ar.hdr[i]
      /\ next # size =>
           /\ ar.hdr[next].prevfree = ~ar.hdr[i].used
           /\ ar.hdr[i].used \/ ar.hdr[next].used
           /\ ~ar.hdr[i].last

ArenaTagged(ar, size) ==
  /\ 0 \in BlocksOf(ar) /\ ~ar.hdr[0].prevfree
  /\ \A i \in BlocksOf(ar) : BlockTagged(ar, i, size)

WellTagged == TypeOK /\ \A r \in RegionSet : ArenaTagged(arena[r], Size[r])

(* The free list holds every free block once and nothing else                 *)
ListExact(ar) ==
  /\ \A i, j \in DOMAIN ar.free : ar.free[i] = ar.free[j] => i = j
  /\ {ar.free[i] : i \in DOMAIN ar.free} = FreeBlocksOf(ar)

(* What allocating the free blocks among the first n units as they are would  *)
(* hand out                                                                   *)
Available(ar, n) ==
  LET sum[i \in 0 .. n] ==
        IF i = 0 THEN 0
        ELSE sum[i - 1] + (IF i - 1 \in FreeBlocksOf(ar)
                           THEN Bytes(ar.hdr[i - 1].size) - USEDBLK_SZ ELSE 0)
  IN  sum[n]

FreeListExact == \A r \in RegionSet : ListExact(arena[r])

(* ar_check: totalFree is what is available                                   *)
TotalFreeExact ==
  \A r \in RegionSet : arena[r].totalFree = Available(arena[r], Size[r])

(* Every used block belongs to one task: none leaks when a block moves or     *)
(* tasks' calls interleave, and none has two owners                           *)
OwnedOnce ==
  \A r \in RegionSet : \A i \in BlocksOf(arena[r]) \ FreeBlocksOf(arena[r]) :
    Cardinality({t \in Tasks : <<r, i>> \in owned[t]}) = 1

(* Every block is accounted for, whatever splits, merges, moves and           *)
(* interleavings it has been through: as free memory or by the task it        *)
(* belongs to (ar_check)                                                      *)
Accounted == FreeListExact /\ TotalFreeExact /\ OwnedOnce

(* ar_check: the last block of an arena says that it is the last              *)
LastMarked ==
  \A r \in RegionSet : \A i \in BlocksOf(arena[r]) :
    bt_next(arena[r], i) = Size[r] => arena[r].hdr[i].last

(* The tasks' blocks are a heap: no two overlap, whatever the tasks' calls    *)
(* interleave to                                                              *)
H == INSTANCE Heap WITH
  Regions <- RegionSet,
  used <- {[region |-> b[1], start |-> b[2], size |-> arena[b[1]].hdr[b[2]].size] :
             b \in UNION {owned[t] : t \in Tasks}}

ImplementsHeap == H!Spec
=============================================================================
