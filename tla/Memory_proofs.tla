----------------------------- MODULE Memory_proofs -----------------------------
(* Proofs about the allocator: what each function of kernel/memory.c does to  *)
(* an arena, and from that the invariant of the tasks' calls.  An arena whose *)
(* blocks are well tagged, whose free list is exact and whose totalFree is    *)
(* the sum over its free blocks (ArenaInv) remains one under every function   *)
(* once a used word lies behind it, which is what the theorems assume.        *)
EXTENDS Memory, FiniteSetTheorems, SequenceTheorems, WellFoundedInduction, TLAPS

(* Least elements, and induction over the numbers as a set                    *)

LEMMA LeastExists ==
  ASSUME NEW S, S \subseteq Nat, S # {}
  PROVE  First(S) \in S /\ \A y \in S : First(S) <= y
<1> DEFINE Less == OpToRel(<, Nat)
<1>1. \A x, y \in Nat : x < y => <<x, y>> \in Less
  BY DEF OpToRel
<1>2. IsWellFoundedOn(Less, Nat)
  BY NatLessThanWellFounded
<1> HIDE DEF Less
<1>3. PICK x \in S : \A y \in S : ~ <<y, x>> \in Less
  BY <1>2, WFMin
<1>4. ASSUME NEW y \in S PROVE x <= y
  <2>1. x \in Nat /\ y \in Nat
    OBVIOUS
  <2>2. ~ (y < x)
    BY <1>1, <1>3, <2>1, Zenon
  <2> QED BY <2>1, <2>2
<1> QED BY <1>3, <1>4 DEF First

LEMMA SetInduction ==
  ASSUME NEW Good, 0 \in Good, \A n \in Nat : n \in Good => n + 1 \in Good
  PROVE  \A n \in Nat : n \in Good
<1> DEFINE Bad == {n \in Nat : n \notin Good}
<1> SUFFICES ASSUME Bad # {} PROVE FALSE
  OBVIOUS
<1>1. First(Bad) \in Bad /\ \A y \in Bad : First(Bad) <= y
  BY LeastExists
<1> DEFINE m == First(Bad)
<1>2. m \in Nat /\ m \notin Good /\ m # 0
  BY <1>1
<1> HIDE DEF m
<1>3. m - 1 \in Nat /\ m - 1 \notin Bad
  <2>1. m - 1 \in Nat
    BY <1>2
  <2>2. ~ (m <= m - 1)
    BY <1>2
  <2> QED BY <1>1, <2>1, <2>2 DEF m
<1>4. m - 1 \in Good /\ (m - 1) + 1 = m
  BY <1>2, <1>3
<1> QED BY <1>2, <1>3, <1>4

------------------------------------------------------------------------------
(* Sums of a number per unit                                                  *)

IsSum(f, w, n) ==
  /\ f \in [0 .. n -> Int] /\ f[0] = 0
  /\ \A i \in 1 .. n : f[i] = f[i - 1] + w[i - 1]

Sum(w, n) == (CHOOSE f : IsSum(f, w, n))[n]

LEMMA SumExists ==
  ASSUME NEW n \in Nat, NEW w \in [0 .. n - 1 -> Int]
  PROVE  \E f : IsSum(f, w, n)
<1> DEFINE Good == {k \in Nat : k <= n => \E f : IsSum(f, w, k)}
<1>1. 0 \in Good
  <2>1. IsSum([i \in 0 .. 0 |-> 0], w, 0)
    BY DEF IsSum
  <2> QED BY <2>1
<1>2. ASSUME NEW k \in Nat, k \in Good PROVE k + 1 \in Good
  <2> SUFFICES ASSUME k + 1 <= n PROVE \E f : IsSum(f, w, k + 1)
    OBVIOUS
  <2>1. PICK f : IsSum(f, w, k)
    BY <1>2
  <2> DEFINE g == [i \in 0 .. k + 1 |-> IF i = k + 1 THEN f[k] + w[k] ELSE f[i]]
  <2>2. w[k] \in Int /\ f[k] \in Int
    BY <2>1 DEF IsSum
  <2>3. g \in [0 .. k + 1 -> Int]
    BY <2>1, <2>2 DEF IsSum
  <2>4. \A i \in 1 .. k + 1 : g[i] = g[i - 1] + w[i - 1]
    BY <2>1 DEF IsSum
  <2>5. g[0] = 0
    BY <2>1 DEF IsSum
  <2> QED BY <2>3, <2>4, <2>5 DEF IsSum
<1>3. n \in Good
  <2> HIDE DEF Good
  <2> QED BY <1>1, <1>2, SetInduction
<1> QED BY <1>3

(* What is true of the partial sums of one function is true of them all       *)
LEMMA SumsDiffer ==
  ASSUME NEW n \in Nat, NEW w \in [0 .. n - 1 -> Int], NEW v \in [0 .. n - 1 -> Int],
         NEW a \in 0 .. n - 1, \A i \in 0 .. n - 1 : i # a => v[i] = w[i]
  PROVE  \A f, g : IsSum(f, w, n) /\ IsSum(g, v, n) =>
           \A k \in 0 .. n : g[k] = f[k] + (IF k > a THEN v[a] - w[a] ELSE 0)
<1> TAKE f, g
<1> HAVE IsSum(f, w, n) /\ IsSum(g, v, n)
<1> DEFINE Good == {k \in Nat : k <= n =>
                      g[k] = f[k] + (IF k > a THEN v[a] - w[a] ELSE 0)}
<1>1. 0 \in Good
  BY DEF IsSum
<1>2. ASSUME NEW k \in Nat, k \in Good PROVE k + 1 \in Good
  <2> SUFFICES ASSUME k + 1 <= n
               PROVE  g[k + 1] = f[k + 1] + (IF k + 1 > a THEN v[a] - w[a] ELSE 0)
    OBVIOUS
  <2>1. g[k] = f[k] + (IF k > a THEN v[a] - w[a] ELSE 0)
    BY <1>2
  <2>2. k + 1 \in 1 .. n /\ (k + 1) - 1 = k /\ k \in 0 .. n - 1
    OBVIOUS
  <2>3. g[k + 1] = g[k] + v[k] /\ f[k + 1] = f[k] + w[k]
    BY <2>2 DEF IsSum
  <2>4. f[k] \in Int /\ w[k] \in Int /\ v[k] \in Int /\ v[a] \in Int /\ w[a] \in Int
    BY <2>2 DEF IsSum
  <2>5. CASE k = a
    BY <2>1, <2>3, <2>4, <2>5
  <2>6. CASE k # a
    <3>1. v[k] = w[k]
      BY <2>2, <2>6
    <3>2. k + 1 > a <=> k > a
      BY <2>2, <2>6
    <3> QED BY <2>1, <2>3, <2>4, <3>1, <3>2
  <2> QED BY <2>5, <2>6
<1>3. \A k \in Nat : k \in Good
  <2> HIDE DEF Good
  <2> QED BY <1>1, <1>2, SetInduction
<1> QED BY <1>3

LEMMA SumIs ==
  ASSUME NEW n \in Nat, NEW w \in [0 .. n - 1 -> Int]
  PROVE  \E f : IsSum(f, w, n) /\ Sum(w, n) = f[n]
BY SumExists DEF Sum

LEMMA SumChanges ==
  ASSUME NEW n \in Nat, NEW w \in [0 .. n - 1 -> Int], NEW v \in [0 .. n - 1 -> Int],
         NEW a \in 0 .. n - 1, \A i \in 0 .. n - 1 : i # a => v[i] = w[i]
  PROVE  Sum(v, n) = Sum(w, n) + v[a] - w[a] /\ Sum(w, n) \in Int
<1>1. PICK f : IsSum(f, w, n) /\ Sum(w, n) = f[n]
  BY SumIs
<1>2. PICK g : IsSum(g, v, n) /\ Sum(v, n) = g[n]
  BY SumIs
<1>3. \A k \in 0 .. n : g[k] = f[k] + (IF k > a THEN v[a] - w[a] ELSE 0)
  <2>1. \A p, q : IsSum(p, w, n) /\ IsSum(q, v, n) =>
           \A k \in 0 .. n : q[k] = p[k] + (IF k > a THEN v[a] - w[a] ELSE 0)
    BY SumsDiffer
  <2> QED BY <1>1, <1>2, <2>1, Zenon
<1>4. n \in 0 .. n /\ n > a
  OBVIOUS
<1>5. g[n] = f[n] + (v[a] - w[a])
  BY <1>3, <1>4
<1>6. f[n] \in Int /\ v[a] \in Int /\ w[a] \in Int
  BY <1>1, <1>4 DEF IsSum
<1> QED BY <1>1, <1>2, <1>5, <1>6

LEMMA SumTwoChange ==
  ASSUME NEW n \in Nat, NEW w \in [0 .. n - 1 -> Int], NEW v \in [0 .. n - 1 -> Int],
         NEW a \in 0 .. n - 1, NEW b \in 0 .. n - 1, a # b,
         \A i \in 0 .. n - 1 : i \notin {a, b} => v[i] = w[i]
  PROVE  Sum(v, n) = Sum(w, n) + (v[a] - w[a]) + (v[b] - w[b]) /\ Sum(w, n) \in Int
<1> DEFINE u == [w EXCEPT ![a] = v[a]]
<1>1. u \in [0 .. n - 1 -> Int] /\ u[a] = v[a] /\ u[b] = w[b]
  OBVIOUS
<1>2. \A i \in 0 .. n - 1 : i # a => u[i] = w[i]
  OBVIOUS
<1>3. \A i \in 0 .. n - 1 : i # b => v[i] = u[i]
  OBVIOUS
<1> HIDE DEF u
<1>4. Sum(u, n) = Sum(w, n) + u[a] - w[a] /\ Sum(w, n) \in Int
  BY <1>1, <1>2, SumChanges
<1>5. Sum(v, n) = Sum(u, n) + v[b] - u[b] /\ Sum(u, n) \in Int
  BY <1>1, <1>3, SumChanges
<1> QED BY <1>1, <1>4, <1>5

LEMMA SumOfNats ==
  ASSUME NEW n \in Nat, NEW w \in [0 .. n - 1 -> Nat]
  PROVE  Sum(w, n) \in Nat
<1>0. w \in [0 .. n - 1 -> Int]
  OBVIOUS
<1>1. PICK f : IsSum(f, w, n) /\ Sum(w, n) = f[n]
  BY <1>0, SumIs
<1> DEFINE Good == {k \in Nat : k <= n => f[k] \in Nat}
<1>2. 0 \in Good
  BY <1>1 DEF IsSum
<1>3. ASSUME NEW k \in Nat, k \in Good PROVE k + 1 \in Good
  <2> SUFFICES ASSUME k + 1 <= n PROVE f[k + 1] \in Nat
    OBVIOUS
  <2>1. k + 1 \in 1 .. n /\ (k + 1) - 1 = k /\ k \in 0 .. n - 1 /\ f[k] \in Nat
    BY <1>3
  <2>2. f[k + 1] = f[k] + w[k] /\ w[k] \in Nat
    BY <1>1, <2>1 DEF IsSum
  <2> QED BY <2>1, <2>2
<1>4. n \in Good
  <2> HIDE DEF Good
  <2> QED BY <1>2, <1>3, SetInduction
<1> QED BY <1>1, <1>4

(* What is available in an arena is a sum of weights                          *)

Weight(ar, i) ==
  IF i \in FreeBlocksOf(ar) THEN Bytes(ar.hdr[i].size) - USEDBLK_SZ ELSE 0

Weights(ar, n) == [i \in 0 .. n - 1 |-> Weight(ar, i)]

(* An arena in the middle of an operation                                     *)
Shapes(n) ==
  [hdr: [0 .. n -> Tags \cup {Junk}],
   ftr: [0 .. n - 1 -> Tags \cup {Junk, Canary}],
   free: Seq(0 .. n - 1),
   totalFree: Int]

LEMMA ArenaFields ==
  ASSUME NEW n \in Nat, NEW ar \in Shapes(n)
  PROVE  /\ ar.hdr \in [0 .. n -> Tags \cup {Junk}]
         /\ ar.ftr \in [0 .. n - 1 -> Tags \cup {Junk, Canary}]
         /\ ar.free \in Seq(0 .. n - 1) /\ ar.totalFree \in Int
         /\ DOMAIN ar.ftr = 0 .. n - 1
         /\ ar = [hdr |-> ar.hdr, ftr |-> ar.ftr, free |-> ar.free,
                  totalFree |-> ar.totalFree]
BY DEF Shapes

LEMMA WeightType ==
  ASSUME NEW n \in Nat, NEW ar \in Shapes(n)
  PROVE  Weights(ar, n) \in [0 .. n - 1 -> Int]
<1>1. ASSUME NEW i \in 0 .. n - 1 PROVE Weight(ar, i) \in Int
  <2>1. CASE i \in FreeBlocksOf(ar)
    <3>1. ar.hdr[i] \in Tags
      BY <2>1, ArenaFields DEF FreeBlocksOf, BlocksOf
    <3>2. ar.hdr[i].size \in Nat
      BY <3>1 DEF Tags
    <3> QED BY <2>1, <3>2 DEF Weight, Bytes, ALIGNMENT, USEDBLK_SZ
  <2>2. CASE i \notin FreeBlocksOf(ar)
    BY <2>2 DEF Weight
  <2> QED BY <2>1, <2>2
<1> QED BY <1>1 DEF Weights

LEMMA AvailableSum ==
  ASSUME NEW n \in Nat, NEW ar \in Shapes(n)
  PROVE  Available(ar, n) = Sum(Weights(ar, n), n)
<1> DEFINE w == Weights(ar, n)
           F(s) == [i \in 0 .. n |->
                      IF i = 0 THEN 0
                      ELSE s[i - 1] + (IF i - 1 \in FreeBlocksOf(ar)
                           THEN Bytes(ar.hdr[i - 1].size) - USEDBLK_SZ ELSE 0)]
           s == CHOOSE r : r = F(r)
<1>1. w \in [0 .. n - 1 -> Int] /\ \A i \in 0 .. n - 1 : w[i] = Weight(ar, i)
  BY WeightType DEF Weights
<1>2. PICK f : IsSum(f, w, n) /\ Sum(w, n) = f[n]
  BY <1>1, SumIs
<1>3. \A i \in 1 .. n : i - 1 \in 0 .. n - 1
  OBVIOUS
<1>4. f = F(f)
  <2>1. \A i \in 0 .. n : f[i] = F(f)[i]
    <3>1. \A i \in 1 .. n : f[i] = f[i - 1] + Weight(ar, i - 1)
      BY <1>1, <1>2, <1>3 DEF IsSum
    <3> QED BY <1>2, <3>1 DEF IsSum, Weight
  <2> QED BY <1>2, <2>1 DEF IsSum
<1>5. s = F(s)
  BY <1>4
<1>6. Available(ar, n) = s[n]
  BY DEF Available
<1> HIDE DEF s
<1>7. s[0] = 0 /\ \A i \in 1 .. n : s[i] = s[i - 1] + w[i - 1]
  <2>1. \A i \in 0 .. n : s[i] = F(s)[i]
    BY <1>5
  <2>2. \A i \in 1 .. n : s[i] = s[i - 1] + Weight(ar, i - 1)
    BY <2>1 DEF Weight
  <2>3. 0 \in 0 .. n /\ F(s)[0] = 0
    OBVIOUS
  <2>4. \A i \in 1 .. n : w[i - 1] = Weight(ar, i - 1)
    BY <1>1, <1>3
  <2> QED BY <2>1, <2>2, <2>3, <2>4
<1> HIDE DEF F, w
<1> DEFINE Good == {k \in Nat : k <= n => s[k] = f[k]}
<1>8. 0 \in Good
  <2>1. f[0] = 0 /\ s[0] = 0
    BY <1>2, <1>7 DEF IsSum
  <2> QED BY <2>1
<1>9. ASSUME NEW k \in Nat, k \in Good PROVE k + 1 \in Good
  <2> SUFFICES ASSUME k + 1 <= n PROVE s[k + 1] = f[k + 1]
    OBVIOUS
  <2>1. k + 1 \in 1 .. n /\ (k + 1) - 1 = k /\ s[k] = f[k]
    BY <1>9
  <2> QED BY <1>2, <1>7, <2>1 DEF IsSum
<1>10. n \in Good
  <2> HIDE DEF Good
  <2> QED BY <1>8, <1>9, SetInduction
<1> QED BY <1>2, <1>6, <1>10 DEF w

(* Only the free blocks matter for what is available                          *)
LEMMA WeightAt ==
  ASSUME NEW n \in Nat, NEW ar \in Shapes(n), NEW i \in 0 .. n - 1
  PROVE  /\ Weights(ar, n)[i] = Weight(ar, i)
         /\ ar.hdr[i] = Junk => Weight(ar, i) = 0
         /\ ar.hdr[i] # Junk =>
              /\ ar.hdr[i].size \in Nat
              /\ ar.hdr[i].used => Weight(ar, i) = 0
              /\ ~ar.hdr[i].used => Weight(ar, i) = 16 * ar.hdr[i].size - 8
<1>1. i \in FreeBlocksOf(ar) <=> ar.hdr[i] # Junk /\ ~ar.hdr[i].used
  BY ArenaFields DEF FreeBlocksOf, BlocksOf
<1>2. ar.hdr[i] # Junk => ar.hdr[i] \in Tags
  BY ArenaFields
<1>3. ar.hdr[i] # Junk => ar.hdr[i].size \in Nat
  BY <1>2 DEF Tags
<1>4. ar.hdr[i] # Junk => ar.hdr[i].size * 16 - 8 = 16 * ar.hdr[i].size - 8
  BY <1>3
<1> QED BY <1>1, <1>3, <1>4 DEF Weight, Weights, Bytes, ALIGNMENT, USEDBLK_SZ

LEMMA AvailableNat ==
  ASSUME NEW n \in Nat, NEW ar \in Shapes(n), \A i \in BlocksOf(ar) : ar.hdr[i].size > 0
  PROVE  Available(ar, n) \in Nat
<1>1. ASSUME NEW i \in 0 .. n - 1 PROVE Weight(ar, i) \in Nat
  <2>1. ar.hdr[i] # Junk => ar.hdr[i].size > 0
    BY ArenaFields DEF BlocksOf
  <2>2. ar.hdr[i] # Junk => ar.hdr[i].used \/ ~ar.hdr[i].used
    OBVIOUS
  <2> QED BY <2>1, <2>2, WeightAt
<1>2. Weights(ar, n) \in [0 .. n - 1 -> Nat]
  BY <1>1 DEF Weights
<1> QED BY <1>2, AvailableSum, SumOfNats

------------------------------------------------------------------------------
(* The free list                                                              *)

Injective(q) == \A i, j \in DOMAIN q : q[i] = q[j] => i = j
Items(q) == {q[i] : i \in DOMAIN q}

LEMMA UnlinkedList ==
  ASSUME NEW S, NEW q \in Seq(S), Injective(q), NEW x \in Items(q)
  PROVE  /\ Unlinked(q, x) \in Seq(S) /\ Injective(Unlinked(q, x))
         /\ Items(Unlinked(q, x)) = Items(q) \ {x}
<1> DEFINE k == CHOOSE j \in DOMAIN q : q[j] = x
           a == SubSeq(q, 1, k - 1)
           b == SubSeq(q, k + 1, Len(q))
<1>1. k \in DOMAIN q /\ q[k] = x
  BY DEF Items
<1>2. Unlinked(q, x) = a \o b
  BY <1>1 DEF Unlinked
<1>3. /\ Len(q) \in Nat /\ DOMAIN q = 1 .. Len(q) /\ k \in 1 .. Len(q)
      /\ k \in Int /\ k - 1 \in Int /\ k + 1 \in Int
  BY <1>1
<1> HIDE DEF k
<1>4. /\ a \in Seq(S) /\ Len(a) = k - 1
      /\ \A j \in 1 .. k - 1 : a[j] = q[j]
  <2>1. \A i \in 1 .. k - 1 : q[i] \in S
    BY <1>3
  <2> QED BY <1>3, <2>1, SubSeqProperties
<1>5. /\ b \in Seq(S) /\ Len(b) = Len(q) - k
      /\ \A j \in 1 .. Len(q) - k : b[j] = q[k + j]
  <2>1. \A i \in k + 1 .. Len(q) : q[i] \in S
    BY <1>3
  <2>2. /\ Len(b) = IF k + 1 <= Len(q) THEN Len(q) - (k + 1) + 1 ELSE 0
        /\ b \in Seq(S)
        /\ \A i \in 1 .. Len(q) - (k + 1) + 1 : b[i] = q[(k + 1) + i - 1]
    BY <1>3, <2>1, SubSeqProperties
  <2>3. \A j \in 1 .. Len(q) - k : j \in 1 .. Len(q) - (k + 1) + 1 /\ (k + 1) + j - 1 = k + j
    BY <1>3
  <2> HIDE DEF b
  <2>4. Len(b) = Len(q) - k
    <3>1. Len(b) = IF k + 1 <= Len(q) THEN Len(q) - (k + 1) + 1 ELSE 0
      BY <2>2
    <3>2. Len(q) \in Nat /\ k \in Int /\ k <= Len(q)
      BY <1>3
    <3> QED BY <3>1, <3>2
  <2>5. ASSUME NEW j \in 1 .. Len(q) - k PROVE b[j] = q[k + j]
    <3>1. j \in 1 .. Len(q) - (k + 1) + 1 /\ (k + 1) + j - 1 = k + j
      BY <2>3
    <3>2. b[j] = q[(k + 1) + j - 1]
      BY <2>2, <3>1, Zenon
    <3> QED BY <3>1, <3>2
  <2> QED BY <2>2, <2>4, <2>5
<1> HIDE DEF a, b
<1> DEFINE r == a \o b
<1>6. /\ r \in Seq(S) /\ Len(r) = Len(q) - 1
      /\ \A i \in 1 .. Len(q) - 1 : r[i] = IF i < k THEN q[i] ELSE q[i + 1]
  <2>1. /\ r \in Seq(S) /\ Len(r) = Len(a) + Len(b)
        /\ \A i \in 1 .. Len(a) + Len(b) :
             r[i] = IF i <= Len(a) THEN a[i] ELSE b[i - Len(a)]
    BY <1>4, <1>5, ConcatProperties
  <2>2. Len(a) + Len(b) = Len(q) - 1
    BY <1>3, <1>4, <1>5
  <2>3. ASSUME NEW i \in 1 .. Len(q) - 1 PROVE r[i] = IF i < k THEN q[i] ELSE q[i + 1]
    <3>1. CASE i < k
      <4>1. i <= Len(a) /\ i \in 1 .. k - 1
        BY <1>3, <1>4, <3>1
      <4> QED BY <1>4, <2>1, <2>2, <3>1, <4>1
    <3>2. CASE ~ (i < k)
      <4>1. ~ (i <= Len(a)) /\ i - Len(a) \in 1 .. Len(q) - k /\ k + (i - Len(a)) = i + 1
        BY <1>3, <1>4, <3>2
      <4> QED BY <1>5, <2>1, <2>2, <3>2, <4>1
    <3> QED BY <3>1, <3>2
  <2> QED BY <2>1, <2>2, <2>3
<1> HIDE DEF r
<1>7. DOMAIN r = 1 .. Len(q) - 1
  BY <1>3, <1>6
<1>8. Injective(r)
  <2> SUFFICES ASSUME NEW i \in 1 .. Len(q) - 1, NEW j \in 1 .. Len(q) - 1, r[i] = r[j]
               PROVE  i = j
    BY <1>7 DEF Injective
  <2>1. i \in DOMAIN q /\ i + 1 \in DOMAIN q /\ j \in DOMAIN q /\ j + 1 \in DOMAIN q
    BY <1>3
  <2> QED BY <1>3, <1>6, <2>1 DEF Injective
<1>9. Items(r) = Items(q) \ {x}
  <2>1. ASSUME NEW y \in Items(r) PROVE y \in Items(q) \ {x}
    <3>1. PICK i \in 1 .. Len(q) - 1 : y = r[i]
      BY <1>7, <2>1 DEF Items
    <3>2. i \in DOMAIN q /\ i + 1 \in DOMAIN q
      BY <1>3
    <3>3. PICK j \in DOMAIN q : y = q[j] /\ j # k
      BY <1>3, <1>6, <3>1, <3>2
    <3> QED BY <1>1, <3>3 DEF Items, Injective
  <2>2. ASSUME NEW y \in Items(q) \ {x} PROVE y \in Items(r)
    <3>1. PICK j \in DOMAIN q : y = q[j]
      BY <2>2 DEF Items
    <3>2. j # k
      BY <1>1, <2>2, <3>1
    <3>3. CASE j < k
      <4>1. j \in 1 .. Len(q) - 1 /\ r[j] = q[j]
        BY <1>3, <1>6, <3>1, <3>3
      <4> QED BY <1>7, <3>1, <4>1 DEF Items
    <3>4. CASE j > k
      <4>1. j - 1 \in 1 .. Len(q) - 1 /\ ~ (j - 1 < k) /\ (j - 1) + 1 = j
        BY <1>3, <3>1, <3>4
      <4>2. r[j - 1] = q[j]
        BY <1>6, <4>1
      <4> QED BY <1>7, <3>1, <4>1, <4>2 DEF Items
    <3> QED BY <1>3, <3>2, <3>3, <3>4
  <2> QED BY <2>1, <2>2
<1> QED BY <1>2, <1>6, <1>8, <1>9 DEF r

LEMMA AppendedList ==
  ASSUME NEW S, NEW q \in Seq(S), Injective(q), NEW x \in S, x \notin Items(q)
  PROVE  /\ Append(q, x) \in Seq(S) /\ Injective(Append(q, x))
         /\ Items(Append(q, x)) = Items(q) \cup {x}
<1> DEFINE r == Append(q, x)
<1>1. /\ r \in Seq(S) /\ Len(r) = Len(q) + 1 /\ Len(q) \in Nat
      /\ \A i \in 1 .. Len(q) : r[i] = q[i]
      /\ r[Len(q) + 1] = x
      /\ DOMAIN q = 1 .. Len(q) /\ DOMAIN r = 1 .. Len(q) + 1
  OBVIOUS
<1> HIDE DEF r
<1>2. Injective(r)
  <2> SUFFICES ASSUME NEW i \in 1 .. Len(q) + 1, NEW j \in 1 .. Len(q) + 1, r[i] = r[j]
               PROVE  i = j
    BY <1>1 DEF Injective
  <2>1. \A k \in 1 .. Len(q) : q[k] # x
    BY <1>1 DEF Items
  <2> QED BY <1>1, <2>1 DEF Injective
<1>3. Items(r) = Items(q) \cup {x}
  <2>1. ASSUME NEW y \in Items(r) PROVE y \in Items(q) \cup {x}
    <3>1. PICK i \in 1 .. Len(q) + 1 : y = r[i]
      BY <1>1, <2>1 DEF Items
    <3> QED BY <1>1, <3>1 DEF Items
  <2>2. ASSUME NEW y \in Items(q) PROVE y \in Items(r)
    <3>1. PICK i \in 1 .. Len(q) : y = q[i]
      BY <1>1, <2>2 DEF Items
    <3>2. i \in DOMAIN r /\ y = r[i]
      BY <1>1, <3>1
    <3> QED BY <3>2 DEF Items
  <2>3. x \in Items(r)
    <3>1. Len(q) + 1 \in DOMAIN r
      BY <1>1
    <3> QED BY <1>1, <3>1 DEF Items
  <2> QED BY <2>1, <2>2, <2>3
<1> QED BY <1>1, <1>2, <1>3 DEF r

LEMMA ListExactIs ==
  ASSUME NEW ar
  PROVE  ListExact(ar) <=> Injective(ar.free) /\ Items(ar.free) = FreeBlocksOf(ar)
BY DEF ListExact, Injective, Items

Shaped(ar, n) == ar \in Shapes(n) /\ ArenaTagged(ar, n)

LEMMA BlockFacts ==
  ASSUME NEW n \in Nat, NEW ar, Shaped(ar, n), NEW i \in BlocksOf(ar)
  PROVE  /\ i \in 0 .. n - 1 /\ ar.hdr[i] \in Tags /\ ar.hdr[i] # Junk
         /\ ar.hdr[i].size \in Nat /\ ar.hdr[i].size > 0
         /\ ar.hdr[i].used \in BOOLEAN /\ ar.hdr[i].prevfree \in BOOLEAN
         /\ ar.hdr[i].last \in BOOLEAN
         /\ i + ar.hdr[i].size \in BlocksOf(ar) \cup {n}
         /\ i + ar.hdr[i].size <= n
         /\ \A j \in i + 1 .. i + ar.hdr[i].size - 1 : j \in 0 .. n - 1 /\ ar.hdr[j] = Junk
         /\ BlockTagged(ar, i, n)
<1>1. BlocksOf(ar) \subseteq 0 .. n - 1 /\ \A j \in 0 .. n - 1 : j \notin BlocksOf(ar) => ar.hdr[j] = Junk
  BY ArenaFields DEF Shaped, BlocksOf
<1>2. i \in 0 .. n - 1 /\ ar.hdr[i] \in Tags /\ ar.hdr[i] # Junk
  BY <1>1, ArenaFields DEF Shaped, BlocksOf
<1>3. /\ ar.hdr[i].size \in Nat /\ ar.hdr[i].used \in BOOLEAN
      /\ ar.hdr[i].prevfree \in BOOLEAN /\ ar.hdr[i].last \in BOOLEAN
  BY <1>2 DEF Tags
<1>4. BlockTagged(ar, i, n)
  BY DEF Shaped, ArenaTagged
<1>5. /\ ar.hdr[i].size > 0 /\ i + ar.hdr[i].size \in BlocksOf(ar) \cup {n}
      /\ BlocksOf(ar) \cap (i + 1 .. i + ar.hdr[i].size - 1) = {}
  <2>1. bt_next(ar, i) = i + ar.hdr[i].size
    BY DEF bt_next
  <2>2. /\ ar.hdr[i].size > 0 /\ bt_next(ar, i) \in BlocksOf(ar) \cup {n}
        /\ BlocksOf(ar) \cap (i + 1 .. bt_next(ar, i) - 1) = {}
    BY <1>4 DEF BlockTagged
  <2>3. i + ar.hdr[i].size \in BlocksOf(ar) \cup {n}
    BY <2>1, <2>2
  <2>4. BlocksOf(ar) \cap (i + 1 .. i + ar.hdr[i].size - 1) = {}
    BY <1>2, <1>3, <2>1, <2>2
  <2>5. ar.hdr[i].size > 0
    BY <2>2
  <2> QED BY <2>3, <2>4, <2>5
<1>6. i + ar.hdr[i].size <= n
  <2>1. i + ar.hdr[i].size \in 0 .. n
    BY <1>1, <1>5
  <2> QED BY <2>1
<1>7. \A j \in i + 1 .. i + ar.hdr[i].size - 1 : j \in 0 .. n - 1 /\ j \notin BlocksOf(ar)
  BY <1>2, <1>3, <1>5, <1>6
<1> QED BY <1>1, <1>2, <1>3, <1>4, <1>5, <1>6, <1>7

LEMMA Separate ==
  ASSUME NEW n \in Nat, NEW ar, Shaped(ar, n),
         NEW i \in BlocksOf(ar), NEW j \in BlocksOf(ar), i < j
  PROVE  i + ar.hdr[i].size <= j
<1>1. i \in Nat /\ j \in Nat /\ ar.hdr[i].size \in Nat /\ ar.hdr[j] # Junk
  BY BlockFacts
<1>2. j \notin i + 1 .. i + ar.hdr[i].size - 1
  BY <1>1, BlockFacts
<1> QED BY <1>1, <1>2

(* Every block but the first one begins where another one ends                *)
LEMMA PredecessorExists ==
  ASSUME NEW n \in Nat, NEW ar, Shaped(ar, n), NEW i \in BlocksOf(ar), i # 0
  PROVE  \E j \in BlocksOf(ar) : j + ar.hdr[j].size = i
<1> DEFINE S == {k \in Nat : k >= 1 /\ i - k \in BlocksOf(ar)}
<1>1. i \in Nat /\ i >= 1 /\ 0 \in BlocksOf(ar)
  BY BlockFacts DEF Shaped, ArenaTagged
<1>2. i \in S
  BY <1>1
<1>3. First(S) \in S /\ \A k \in S : First(S) <= k
  BY <1>2, LeastExists
<1> DEFINE k == First(S)
           j == i - k
<1>4. k \in Nat /\ k >= 1 /\ j \in BlocksOf(ar) /\ j \in Nat /\ j < i
  <2>1. k \in Nat /\ k >= 1 /\ j \in BlocksOf(ar)
    BY <1>3
  <2> QED BY <2>1, <1>1, BlockFacts
<1>5. \A q \in Nat : q >= 1 /\ i - q \in BlocksOf(ar) => k <= q
  BY <1>3
<1> HIDE DEF k, j, S
<1>6. j = i - k
  BY DEF j
<1> DEFINE e == j + ar.hdr[j].size
<1>7. e <= i /\ e > j /\ e \in Nat /\ e \in BlocksOf(ar) \cup {n}
  <2>1. ar.hdr[j].size \in Nat /\ ar.hdr[j].size > 0 /\ e \in BlocksOf(ar) \cup {n}
    BY <1>4, BlockFacts
  <2>2. j + ar.hdr[j].size <= i
    <3> HIDE DEF e
    <3> QED BY <1>4, Separate
  <2> QED BY <1>4, <2>1, <2>2
<1>8. i < n
  <2>1. i \in 0 .. n - 1
    BY BlockFacts
  <2> QED BY <2>1
<1>9. CASE e < i
  <2>1. e \in BlocksOf(ar)
    BY <1>1, <1>7, <1>8, <1>9
  <2>2. i - e \in Nat /\ i - e >= 1 /\ i - (i - e) = e
    BY <1>1, <1>7, <1>9
  <2>3. k <= i - e
    BY <1>5, <2>1, <2>2
  <2> QED BY <1>1, <1>4, <1>6, <1>7, <2>3
<1> QED BY <1>1, <1>4, <1>7, <1>9

LEMMA PreviousBlock ==
  ASSUME NEW n \in Nat, NEW ar, Shaped(ar, n), NEW i \in BlocksOf(ar), ar.hdr[i].prevfree
  PROVE  /\ bt_prev(ar, i) \in BlocksOf(ar) /\ bt_prev(ar, i) < i
         /\ bt_prev(ar, i) + ar.hdr[bt_prev(ar, i)].size = i
         /\ ~ ar.hdr[bt_prev(ar, i)].used
         /\ ar.ftr[i - 1] = ar.hdr[bt_prev(ar, i)]
<1>1. i # 0
  BY DEF Shaped, ArenaTagged
<1>2. PICK j \in BlocksOf(ar) : j + ar.hdr[j].size = i
  BY <1>1, PredecessorExists
<1>3. i \in 0 .. n - 1 /\ j \in Nat /\ ar.hdr[j].size \in Nat /\ ar.hdr[j].size > 0
  BY BlockFacts
<1>4. BlockTagged(ar, j, n)
  BY BlockFacts
<1>5. i # n /\ bt_next(ar, j) = i
  BY <1>2, <1>3 DEF bt_next
<1>6. ~ ar.hdr[j].used /\ ar.ftr[i - 1] = ar.hdr[j]
  BY <1>4, <1>5, BlockFacts DEF BlockTagged
<1>7. bt_prev(ar, i) = j
  BY <1>2, <1>3, <1>6 DEF bt_prev
<1> QED BY <1>2, <1>3, <1>6, <1>7

(* The units from a to c, which blocks of ar fill, hold a block of m units in *)
(* br and, if that does not fill them, a second one.  Outside both arenas are *)
(* the same, but for what the block at c knows of the one before it           *)
Retiled(ar, br, n, a, m, c) ==
  LET l == IF a + m < c THEN a + m ELSE a
  IN  /\ \A i \in 0 .. n : i < a \/ i > c => br.hdr[i] = ar.hdr[i]
      /\ \A i \in a + 1 .. c - 1 : i # a + m => br.hdr[i] = Junk
      /\ \A i \in 0 .. n - 1 : i < a \/ i >= c => br.ftr[i] = ar.ftr[i]
      /\ br.hdr[a] # Junk /\ br.hdr[a].size = m
      /\ br.hdr[a].prevfree = ar.hdr[a].prevfree
      /\ ar.hdr[a].prevfree => br.hdr[a].used
      /\ br.ftr[a + m - 1] = IF br.hdr[a].used THEN Canary ELSE br.hdr[a]
      /\ a + m < c =>
           /\ br.hdr[l] # Junk /\ br.hdr[l].size = c - (a + m)
           /\ br.hdr[l].prevfree = ~ br.hdr[a].used
           /\ br.hdr[a].used \/ br.hdr[l].used
           /\ ~ br.hdr[a].last
           /\ br.ftr[c - 1] = IF br.hdr[l].used THEN Canary ELSE br.hdr[l]
      /\ c < n =>
           /\ br.hdr[c] # Junk /\ br.hdr[c].size = ar.hdr[c].size
           /\ br.hdr[c].used = ar.hdr[c].used /\ br.hdr[c].last = ar.hdr[c].last
           /\ br.hdr[c].prevfree = ~ br.hdr[l].used
           /\ br.hdr[l].used \/ br.hdr[c].used
           /\ ~ br.hdr[l].last
           /\ ~ ar.hdr[c].used => br.hdr[c] = ar.hdr[c]

LEMMA RetiledBlocks ==
  ASSUME NEW n \in Nat, NEW ar, Shaped(ar, n), NEW br \in Shapes(n),
         NEW a \in 0 .. n - 1, a \in BlocksOf(ar), NEW c \in 0 .. n, c \in BlocksOf(ar) \cup {n},
         NEW m \in Nat, m > 0, a + m <= c, Retiled(ar, br, n, a, m, c)
  PROVE  \A i : i \in BlocksOf(br) <=>
           \/ i \in BlocksOf(ar) /\ (i < a \/ i >= c)
           \/ i = a \/ (i = a + m /\ a + m < c)
<1>1. /\ \A i : i \in BlocksOf(br) <=> i \in 0 .. n - 1 /\ br.hdr[i] # Junk
      /\ \A i : i \in BlocksOf(ar) <=> i \in 0 .. n - 1 /\ ar.hdr[i] # Junk
  BY ArenaFields DEF BlocksOf, Shaped
<1>2. a \in 0 .. n - 1 /\ c \in 0 .. n
  BY BlockFacts
<1>3. ASSUME NEW i \in 0 .. n - 1, i < a \/ i > c
      PROVE  i \in BlocksOf(br) <=> i \in BlocksOf(ar)
  BY <1>1, <1>3 DEF Retiled
<1>4. ASSUME NEW i \in 0 .. n - 1, i = c
      PROVE  i \in BlocksOf(br) /\ i \in BlocksOf(ar)
  <2>1. c < n
    BY <1>2, <1>4
  <2> QED BY <1>1, <1>4, <2>1 DEF Retiled
<1>5. a \in BlocksOf(br) /\ (a + m < c => a + m \in BlocksOf(br))
  <2>1. br.hdr[a] # Junk /\ (a + m < c => br.hdr[a + m] # Junk)
    BY DEF Retiled
  <2>2. a + m < c => a + m \in 0 .. n - 1
    BY <1>2
  <2> QED BY <1>1, <1>2, <2>1, <2>2
<1>6. ASSUME NEW i \in 0 .. n - 1, i > a, i < c, i # a + m
      PROVE  i \notin BlocksOf(br)
  <2>1. i \in a + 1 .. c - 1
    BY <1>2, <1>6
  <2> QED BY <1>1, <1>6, <2>1 DEF Retiled
<1> TAKE i
<1>7. CASE i \notin 0 .. n - 1
  BY <1>1, <1>2, <1>7
<1>8. CASE i \in 0 .. n - 1
  <2>1. i < a \/ i > c \/ i = c \/ i = a \/ (i > a /\ i < c)
    BY <1>2, <1>8
  <2>2. CASE i > a /\ i < c
    BY <1>2, <1>5, <1>6, <1>8, <2>2
  <2>3. CASE i < a \/ i > c
    BY <1>2, <1>3, <1>8, <2>3
  <2>4. CASE i = c
    BY <1>2, <1>4, <1>8, <2>4
  <2>5. CASE i = a
    BY <1>5, <2>5
  <2> QED BY <2>1, <2>2, <2>3, <2>4, <2>5
<1> QED BY <1>7, <1>8

LEMMA RetiledTagged ==
  ASSUME NEW n \in Nat, NEW ar, Shaped(ar, n), NEW br \in Shapes(n),
         NEW a \in 0 .. n - 1, a \in BlocksOf(ar), NEW c \in 0 .. n, c \in BlocksOf(ar) \cup {n},
         NEW m \in Nat, m > 0, a + m <= c, Retiled(ar, br, n, a, m, c)
  PROVE  Shaped(br, n)
<1>1. \A i : i \in BlocksOf(br) <=>
           \/ i \in BlocksOf(ar) /\ (i < a \/ i >= c)
           \/ i = a \/ (i = a + m /\ a + m < c)
  BY RetiledBlocks
<1>2. a \in 0 .. n - 1 /\ c \in 0 .. n
  BY BlockFacts
<1>3. 0 \in BlocksOf(br) /\ ~ br.hdr[0].prevfree
  <2>1. 0 \in BlocksOf(ar) /\ ~ ar.hdr[0].prevfree
    BY DEF Shaped, ArenaTagged
  <2>2. CASE a = 0
    BY <1>1, <2>1, <2>2 DEF Retiled
  <2>3. CASE a > 0
    BY <1>1, <1>2, <2>1, <2>3 DEF Retiled
  <2> QED BY <1>2, <2>2, <2>3
<1>4. ASSUME NEW i \in BlocksOf(br) PROVE BlockTagged(br, i, n)
  <2>1. CASE i \in BlocksOf(ar) /\ i < a
    <3>1. br.hdr[i] = ar.hdr[i] /\ i \in 0 .. n - 1 /\ ar.hdr[i].size \in Nat /\ ar.hdr[i].size > 0
      BY <1>2, <2>1, BlockFacts DEF Retiled
    <3> DEFINE e == i + ar.hdr[i].size
    <3>2. e <= a /\ bt_next(br, i) = e /\ bt_next(ar, i) = e /\ e # n
      BY <1>2, <2>1, <3>1, Separate DEF bt_next
    <3>3. BlockTagged(ar, i, n)
      BY <2>1, BlockFacts
    <3>4. /\ e \in BlocksOf(ar)
          /\ BlocksOf(ar) \cap (i + 1 .. e - 1) = {}
          /\ ar.ftr[e - 1] = IF ar.hdr[i].used THEN Canary ELSE ar.hdr[i]
          /\ ar.hdr[e].prevfree = ~ar.hdr[i].used
          /\ ar.hdr[i].used \/ ar.hdr[e].used
          /\ ~ar.hdr[i].last
      BY <3>2, <3>3 DEF BlockTagged
    <3>5. e \in BlocksOf(br) /\ e \in Nat
      BY <1>1, <1>2, <2>1, <3>1, <3>2, <3>4
    <3>6. BlocksOf(br) \cap (i + 1 .. e - 1) = {}
      BY <1>1, <1>2, <3>1, <3>2, <3>4
    <3>7. br.ftr[e - 1] = ar.ftr[e - 1]
      <4>1. e - 1 \in 0 .. n - 1 /\ e - 1 < a
        BY <1>2, <3>1, <3>2
      <4> QED BY <4>1 DEF Retiled
    <3>8. /\ br.hdr[e].prevfree = ~ar.hdr[i].used
          /\ ar.hdr[i].used \/ br.hdr[e].used
      <4>1. CASE e = a
        BY <3>4, <4>1, BlockFacts DEF Retiled
      <4>2. CASE e < a
        BY <1>2, <3>4, <3>5, <4>2 DEF Retiled
      <4> QED BY <1>2, <3>1, <3>2, <4>1, <4>2
    <3> HIDE DEF e
    <3> QED BY <3>1, <3>2, <3>4, <3>5, <3>6, <3>7, <3>8 DEF BlockTagged
  <2>2. CASE i = a
    <3>1. br.hdr[a].size = m /\ bt_next(br, i) = a + m
      BY <2>2 DEF Retiled, bt_next
    <3>2. BlocksOf(br) \cap (a + 1 .. a + m - 1) = {}
      BY <1>1, <1>2
    <3>3. br.ftr[a + m - 1] = IF br.hdr[a].used THEN Canary ELSE br.hdr[a]
      BY DEF Retiled
    <3>4. a + m \in BlocksOf(br) \cup {n}
      BY <1>1, <1>2
    <3>5. a + m # n => /\ br.hdr[a + m].prevfree = ~br.hdr[a].used
                       /\ br.hdr[a].used \/ br.hdr[a + m].used
                       /\ ~br.hdr[a].last
      <4>1. CASE a + m < c
        BY <4>1 DEF Retiled
      <4>2. CASE a + m = c /\ c < n
        BY <1>2, <4>2 DEF Retiled
      <4> QED BY <1>2, <4>1, <4>2
    <3> DEFINE e == a + m
    <3>6. /\ br.hdr[i].size > 0 /\ bt_next(br, i) = e
          /\ BlocksOf(br) \cap (i + 1 .. e - 1) = {}
          /\ br.ftr[e - 1] = IF br.hdr[i].used THEN Canary ELSE br.hdr[i]
          /\ e \in BlocksOf(br) \cup {n}
          /\ e # n => /\ br.hdr[e].prevfree = ~br.hdr[i].used
                      /\ br.hdr[i].used \/ br.hdr[e].used
                      /\ ~br.hdr[i].last
      BY <1>2, <2>2, <3>1, <3>2, <3>3, <3>4, <3>5
    <3> HIDE DEF e
    <3> QED BY <3>6 DEF BlockTagged
  <2>3. CASE i = a + m /\ a + m < c
    <3>1. br.hdr[i].size = c - (a + m) /\ bt_next(br, i) = c
      <4>1. br.hdr[i].size = c - (a + m)
        BY <2>3 DEF Retiled
      <4> QED BY <1>2, <2>3, <4>1 DEF bt_next
    <3>2. BlocksOf(br) \cap (i + 1 .. c - 1) = {}
      BY <1>1, <1>2, <2>3
    <3>3. br.ftr[c - 1] = IF br.hdr[i].used THEN Canary ELSE br.hdr[i]
      BY <2>3 DEF Retiled
    <3>4. c \in BlocksOf(br) \cup {n}
      BY <1>1, <1>2
    <3>5. c # n => /\ br.hdr[c].prevfree = ~br.hdr[i].used
                   /\ br.hdr[i].used \/ br.hdr[c].used
                   /\ ~br.hdr[i].last
      BY <1>2, <2>3 DEF Retiled
    <3>6. br.hdr[i].size > 0
      BY <1>2, <2>3, <3>1
    <3> QED BY <3>1, <3>2, <3>3, <3>4, <3>5, <3>6 DEF BlockTagged
  <2>4. CASE i \in BlocksOf(ar) /\ i >= c
    <3>1. /\ i \in 0 .. n - 1 /\ ar.hdr[i].size \in Nat /\ ar.hdr[i].size > 0
          /\ i + ar.hdr[i].size <= n
      BY <2>4, BlockFacts
    <3> DEFINE e == i + ar.hdr[i].size
    <3>2. /\ br.hdr[i].size = ar.hdr[i].size /\ br.hdr[i].used = ar.hdr[i].used
          /\ br.hdr[i].last = ar.hdr[i].last
          /\ ~ ar.hdr[i].used => br.hdr[i] = ar.hdr[i]
      <4>1. CASE i = c
        BY <3>1, <4>1 DEF Retiled
      <4>2. CASE i > c
        BY <3>1, <4>2 DEF Retiled
      <4> QED BY <1>2, <2>4, <3>1, <4>1, <4>2
    <3>3. BlockTagged(ar, i, n) /\ bt_next(ar, i) = e /\ bt_next(br, i) = e
      BY <2>4, <3>2, BlockFacts DEF bt_next
    <3>4. e > c /\ e \in Nat
      BY <1>2, <2>4, <3>1
    <3>5. /\ e \in BlocksOf(ar) \cup {n}
          /\ BlocksOf(ar) \cap (i + 1 .. e - 1) = {}
          /\ ar.ftr[e - 1] = IF ar.hdr[i].used THEN Canary ELSE ar.hdr[i]
          /\ e # n => /\ ar.hdr[e].prevfree = ~ar.hdr[i].used
                      /\ ar.hdr[i].used \/ ar.hdr[e].used
                      /\ ~ar.hdr[i].last
      BY <3>3 DEF BlockTagged
    <3>6. e \in BlocksOf(br) \cup {n}
      BY <1>1, <1>2, <3>4, <3>5
    <3>7. BlocksOf(br) \cap (i + 1 .. e - 1) = {}
      BY <1>1, <1>2, <2>4, <3>1, <3>4, <3>5
    <3>8. br.ftr[e - 1] = ar.ftr[e - 1]
      <4>1. e - 1 \in 0 .. n - 1 /\ e - 1 >= c
        BY <1>2, <3>1, <3>4
      <4> QED BY <4>1 DEF Retiled
    <3>9. br.hdr[e] = ar.hdr[e]
      <4>1. e \in 0 .. n
        BY <3>1
      <4> QED BY <3>4, <4>1 DEF Retiled
    <3> HIDE DEF e
    <3> QED BY <3>1, <3>2, <3>3, <3>5, <3>6, <3>7, <3>8, <3>9 DEF BlockTagged
  <2> QED BY <1>1, <1>4, <2>1, <2>2, <2>3, <2>4
<1> QED BY <1>3, <1>4 DEF Shaped, ArenaTagged

Used(ar, i) == i \in BlocksOf(ar) /\ ar.hdr[i].used

ArenaInv(ar, n) ==
  /\ Shaped(ar, n) /\ ListExact(ar)
  /\ ar.totalFree = Available(ar, n)
  /\ ar.hdr[n] # Junk /\ ar.hdr[n].used

(* What each of the file's small functions does to an arena                   *)

LEMMA TagType ==
  ASSUME NEW s \in Nat, NEW u \in BOOLEAN, NEW p \in BOOLEAN, NEW l \in BOOLEAN
  PROVE  /\ Tag(s, u, p, l) \in Tags /\ Tag(s, u, p, l) # Junk
         /\ Tag(s, u, p, l).size = s /\ Tag(s, u, p, l).used = u
         /\ Tag(s, u, p, l).prevfree = p /\ Tag(s, u, p, l).last = l
BY MemoryAssumption DEF Tag, Tags

LEMMA MakeAt ==
  ASSUME NEW n \in Nat, NEW ar \in Shapes(n), NEW bt \in 0 .. n - 1,
         NEW tag \in Tags, tag.size > 0, bt + tag.size <= n
  PROVE  /\ Make(ar, bt, tag) \in Shapes(n)
         /\ \A i \in 0 .. n : Make(ar, bt, tag).hdr[i] =
              IF i = bt THEN tag ELSE IF i > bt /\ i < bt + tag.size THEN Junk ELSE ar.hdr[i]
         /\ \A i \in 0 .. n - 1 : Make(ar, bt, tag).ftr[i] =
              IF i = bt + tag.size - 1 THEN IF tag.used THEN Canary ELSE tag
              ELSE IF i >= bt /\ i < bt + tag.size THEN Junk ELSE ar.ftr[i]
         /\ Make(ar, bt, tag).free = ar.free
         /\ Make(ar, bt, tag).totalFree = ar.totalFree
<1> DEFINE last == bt + tag.size - 1
           h == [i \in 0 .. n |->
                   IF i = bt THEN tag ELSE IF i \in bt + 1 .. last THEN Junk ELSE ar.hdr[i]]
           g == [i \in 0 .. n - 1 |->
                   IF i = last THEN IF tag.used THEN Canary ELSE tag
                   ELSE IF i \in bt .. last - 1 THEN Junk ELSE ar.ftr[i]]
<1>1. tag.size \in Nat /\ last \in bt .. n - 1
  BY DEF Tags
<1>2. /\ ar.hdr \in [0 .. n -> Tags \cup {Junk}]
      /\ ar.ftr \in [0 .. n - 1 -> Tags \cup {Junk, Canary}]
      /\ DOMAIN ar.hdr = 0 .. n /\ DOMAIN ar.ftr = 0 .. n - 1
  BY ArenaFields
<1>3. Make(ar, bt, tag) = [ar EXCEPT !.hdr = h, !.ftr = g]
  BY <1>2 DEF Make
<1>4. h \in [0 .. n -> Tags \cup {Junk}] /\ g \in [0 .. n - 1 -> Tags \cup {Junk, Canary}]
  BY <1>2
<1>5. \A i \in 0 .. n : h[i] =
        IF i = bt THEN tag ELSE IF i > bt /\ i < bt + tag.size THEN Junk ELSE ar.hdr[i]
  BY <1>1
<1>6. \A i \in 0 .. n - 1 : g[i] =
        IF i = bt + tag.size - 1 THEN IF tag.used THEN Canary ELSE tag
        ELSE IF i >= bt /\ i < bt + tag.size THEN Junk ELSE ar.ftr[i]
  BY <1>1
<1> HIDE DEF h, g
<1>7. /\ Make(ar, bt, tag) \in Shapes(n)
      /\ Make(ar, bt, tag).hdr = h /\ Make(ar, bt, tag).ftr = g
      /\ Make(ar, bt, tag).free = ar.free
      /\ Make(ar, bt, tag).totalFree = ar.totalFree
  BY <1>3, <1>4 DEF Shapes
<1> QED BY <1>5, <1>6, <1>7

LEMMA FlagAt ==
  ASSUME NEW n \in Nat, NEW ar \in Shapes(n), NEW bt \in 0 .. n, ar.hdr[bt] # Junk,
         NEW p \in BOOLEAN
  PROVE  LET r == SetPrevfree(ar, bt, p)
         IN  /\ r \in Shapes(n)
             /\ \A i \in 0 .. n : i # bt => r.hdr[i] = ar.hdr[i]
             /\ r.hdr[bt] # Junk /\ r.hdr[bt].prevfree = p
             /\ r.hdr[bt].size = ar.hdr[bt].size /\ r.hdr[bt].used = ar.hdr[bt].used
             /\ r.hdr[bt].last = ar.hdr[bt].last
             /\ ar.hdr[bt].prevfree = p => r = ar
             /\ r.ftr = ar.ftr /\ r.free = ar.free /\ r.totalFree = ar.totalFree
<1> DEFINE g == [ar.hdr[bt] EXCEPT !.prevfree = p]
           h == [ar.hdr EXCEPT ![bt] = g]
           r == SetPrevfree(ar, bt, p)
<1>1. ar.hdr[bt] \in Tags
  BY ArenaFields
<1>2. /\ g \in Tags /\ g # Junk /\ g.prevfree = p /\ g.size = ar.hdr[bt].size
      /\ g.used = ar.hdr[bt].used /\ g.last = ar.hdr[bt].last
      /\ ar.hdr[bt].prevfree = p => g = ar.hdr[bt]
  BY <1>1, MemoryAssumption DEF Tags
<1>3. r = [ar EXCEPT !.hdr = h]
  BY DEF SetPrevfree
<1> HIDE DEF g
<1>4. /\ h \in [0 .. n -> Tags \cup {Junk}] /\ h[bt] = g
      /\ \A i \in 0 .. n : i # bt => h[i] = ar.hdr[i]
      /\ ar.hdr[bt] = g => h = ar.hdr
  BY <1>2, ArenaFields
<1> HIDE DEF h
<1>5. /\ r \in Shapes(n) /\ r.hdr = h /\ r.ftr = ar.ftr /\ r.free = ar.free
      /\ r.totalFree = ar.totalFree /\ (h = ar.hdr => r = ar)
  BY <1>3, <1>4 DEF Shapes
<1> HIDE DEF r
<1> QED BY <1>2, <1>4, <1>5 DEF r

LEMMA LastAt ==
  ASSUME NEW n \in Nat, NEW ar \in Shapes(n), NEW bt \in 0 .. n, ar.hdr[bt] # Junk
  PROVE  LET r == [ar EXCEPT !.hdr[bt].last = FALSE]
         IN  /\ r \in Shapes(n)
             /\ \A i \in 0 .. n : i # bt => r.hdr[i] = ar.hdr[i]
             /\ r.hdr[bt] # Junk /\ r.hdr[bt].prevfree = ar.hdr[bt].prevfree
             /\ r.hdr[bt].size = ar.hdr[bt].size /\ r.hdr[bt].used = ar.hdr[bt].used
             /\ ~ r.hdr[bt].last
             /\ r.ftr = ar.ftr /\ r.free = ar.free /\ r.totalFree = ar.totalFree
<1> DEFINE g == [ar.hdr[bt] EXCEPT !.last = FALSE]
           h == [ar.hdr EXCEPT ![bt] = g]
           r == [ar EXCEPT !.hdr[bt].last = FALSE]
<1>1. ar.hdr[bt] \in Tags
  BY ArenaFields
<1>2. /\ g \in Tags /\ g # Junk /\ g.prevfree = ar.hdr[bt].prevfree
      /\ g.size = ar.hdr[bt].size /\ g.used = ar.hdr[bt].used /\ g.last = FALSE
  BY <1>1, MemoryAssumption DEF Tags
<1>3. r = [ar EXCEPT !.hdr = h]
  OBVIOUS
<1> HIDE DEF g
<1>4. /\ h \in [0 .. n -> Tags \cup {Junk}] /\ h[bt] = g
      /\ \A i \in 0 .. n : i # bt => h[i] = ar.hdr[i]
  BY <1>2, ArenaFields
<1> HIDE DEF h
<1>5. /\ r \in Shapes(n) /\ r.hdr = h /\ r.ftr = ar.ftr /\ r.free = ar.free
      /\ r.totalFree = ar.totalFree
  BY <1>3, <1>4 DEF Shapes
<1> HIDE DEF r
<1> QED BY <1>2, <1>4, <1>5 DEF r

LEMMA ListAt ==
  ASSUME NEW n \in Nat, NEW ar \in Shapes(n), NEW q \in Seq(0 .. n - 1)
  PROVE  LET r == [ar EXCEPT !.free = q]
         IN  /\ r \in Shapes(n) /\ r.free = q
             /\ r.hdr = ar.hdr /\ r.ftr = ar.ftr /\ r.totalFree = ar.totalFree
BY DEF Shapes

LEMMA CountAt ==
  ASSUME NEW n \in Nat, NEW ar \in Shapes(n), NEW k \in Int
  PROVE  LET r == [ar EXCEPT !.totalFree = k]
         IN  /\ r \in Shapes(n) /\ r.totalFree = k
             /\ r.hdr = ar.hdr /\ r.ftr = ar.ftr /\ r.free = ar.free
BY DEF Shapes

LEMMA FreeAfterUsed ==
  ASSUME NEW n \in Nat, NEW ar, Shaped(ar, n), NEW i \in FreeBlocksOf(ar)
  PROVE  /\ i \in BlocksOf(ar) /\ ~ ar.hdr[i].used /\ ~ ar.hdr[i].prevfree
         /\ i + ar.hdr[i].size < n =>
              LET c == i + ar.hdr[i].size
              IN  c \in BlocksOf(ar) /\ ar.hdr[c].used /\ ar.hdr[c].prevfree /\ ~ ar.hdr[i].last
<1>1. i \in BlocksOf(ar) /\ ~ ar.hdr[i].used
  BY DEF FreeBlocksOf
<1> DEFINE c == i + ar.hdr[i].size
<1>2. /\ i \in 0 .. n - 1 /\ BlockTagged(ar, i, n) /\ bt_next(ar, i) = c
      /\ c \in BlocksOf(ar) \cup {n}
  BY <1>1, BlockFacts DEF bt_next
<1>3. ASSUME c < n
      PROVE  c \in BlocksOf(ar) /\ ar.hdr[c].used /\ ar.hdr[c].prevfree /\ ~ ar.hdr[i].last
  <2>1. c \in BlocksOf(ar) /\ c # n
    BY <1>2, <1>3
  <2>2. /\ ar.hdr[c].prevfree = ~ar.hdr[i].used
        /\ ar.hdr[i].used \/ ar.hdr[c].used
        /\ ~ar.hdr[i].last
    <3> HIDE DEF c
    <3> QED BY <1>2, <2>1 DEF BlockTagged
  <2> QED BY <1>1, <2>1, <2>2
<1>4. ASSUME ar.hdr[i].prevfree PROVE FALSE
  <2> DEFINE j == bt_prev(ar, i)
  <2>1. j \in BlocksOf(ar) /\ j < i /\ j + ar.hdr[j].size = i /\ ~ ar.hdr[j].used
    BY <1>1, <1>4, PreviousBlock
  <2>2. BlockTagged(ar, j, n) /\ bt_next(ar, j) = i /\ i # n
    BY <1>2, <2>1, BlockFacts DEF bt_next
  <2> HIDE DEF j
  <2> QED BY <1>1, <2>1, <2>2 DEF BlockTagged
<1> QED BY <1>1, <1>3, <1>4

LEMMA RetiledWeights ==
  ASSUME NEW n \in Nat, NEW ar, Shaped(ar, n), NEW br \in Shapes(n),
         NEW a \in 0 .. n - 1, a \in BlocksOf(ar), NEW c \in 0 .. n, c \in BlocksOf(ar) \cup {n},
         NEW m \in Nat, m > 0, a + m <= c, Retiled(ar, br, n, a, m, c)
  PROVE  /\ \A i : i \in FreeBlocksOf(br) <=>
              \/ i \in FreeBlocksOf(ar) /\ (i < a \/ i >= c)
              \/ i = a /\ ~ br.hdr[a].used
              \/ i = a + m /\ a + m < c /\ ~ br.hdr[i].used
         /\ \A i : Used(br, i) <=>
              \/ Used(ar, i) /\ (i < a \/ i >= c)
              \/ i = a /\ br.hdr[a].used
              \/ i = a + m /\ a + m < c /\ br.hdr[i].used
         /\ \A i \in BlocksOf(ar) : i < a \/ i >= c => br.hdr[i].size = ar.hdr[i].size
         /\ \A i \in 0 .. n - 1 : i < a \/ i >= c => Weight(br, i) = Weight(ar, i)
         /\ \A i \in a + 1 .. c - 1 : i # a + m => Weight(br, i) = 0
<1>1. a \in 0 .. n - 1 /\ c \in 0 .. n
  BY BlockFacts
<1>2. \A i : i \in BlocksOf(br) <=>
           \/ i \in BlocksOf(ar) /\ (i < a \/ i >= c)
           \/ i = a \/ (i = a + m /\ a + m < c)
  BY RetiledBlocks
<1>3. \A i \in BlocksOf(ar) : i \in 0 .. n - 1
  BY BlockFacts
<1>4. ASSUME NEW i \in BlocksOf(ar), i < a \/ i >= c
      PROVE  br.hdr[i].size = ar.hdr[i].size /\ br.hdr[i].used = ar.hdr[i].used
  <2>1. i \in 0 .. n - 1
    BY <1>3
  <2>2. CASE i = c
    BY <2>1, <2>2 DEF Retiled
  <2>3. CASE i # c
    BY <1>1, <1>4, <2>1, <2>3 DEF Retiled
  <2> QED BY <2>2, <2>3
<1>5. \A i : i \in FreeBlocksOf(br) <=>
              \/ i \in FreeBlocksOf(ar) /\ (i < a \/ i >= c)
              \/ i = a /\ ~ br.hdr[a].used
              \/ i = a + m /\ a + m < c /\ ~ br.hdr[i].used
  BY <1>2, <1>4 DEF FreeBlocksOf
<1>6. \A i : Used(br, i) <=>
              \/ Used(ar, i) /\ (i < a \/ i >= c)
              \/ i = a /\ br.hdr[a].used
              \/ i = a + m /\ a + m < c /\ br.hdr[i].used
  BY <1>2, <1>4 DEF Used
<1>7. ASSUME NEW i \in 0 .. n - 1, i < a \/ i >= c PROVE Weight(br, i) = Weight(ar, i)
  <2>1. i \in FreeBlocksOf(br) <=> i \in FreeBlocksOf(ar)
    BY <1>1, <1>5, <1>7
  <2>2. CASE i \in FreeBlocksOf(ar)
    <3>1. i \in BlocksOf(ar)
      BY <2>2 DEF FreeBlocksOf
    <3> QED BY <1>4, <1>7, <2>1, <2>2, <3>1 DEF Weight
  <2>3. CASE i \notin FreeBlocksOf(ar)
    BY <2>1, <2>3 DEF Weight
  <2> QED BY <2>2, <2>3
<1>8. ASSUME NEW i \in a + 1 .. c - 1, i # a + m PROVE Weight(br, i) = 0
  <2>1. i \notin FreeBlocksOf(br)
    BY <1>1, <1>5, <1>8
  <2> QED BY <2>1 DEF Weight
<1> QED BY <1>4, <1>5, <1>6, <1>7, <1>8

(* What one operation leaves, given the blocks it leaves                      *)
LEMMA RetiledInv ==
  ASSUME NEW n \in Nat, NEW ar, ArenaInv(ar, n), NEW br \in Shapes(n),
         NEW a \in 0 .. n - 1, a \in BlocksOf(ar), NEW c \in 0 .. n, c \in BlocksOf(ar) \cup {n},
         NEW m \in Nat, m > 0, a + m <= c, Retiled(ar, br, n, a, m, c),
         Injective(br.free), Items(br.free) = FreeBlocksOf(br),
         br.totalFree = Available(br, n), br.hdr[n] # Junk, br.hdr[n].used
  PROVE  ArenaInv(br, n)
<1>1. Shaped(ar, n)
  BY DEF ArenaInv
<1>2. Shaped(br, n)
  BY <1>1, RetiledTagged
<1> QED BY <1>2, ListExactIs DEF ArenaInv

(* One block instead of those from a to c                                     *)
LEMMA RetiledOne ==
  ASSUME NEW n \in Nat, NEW ar \in Shapes(n), NEW br \in Shapes(n),
         NEW a \in 0 .. n - 1, NEW c \in 0 .. n, NEW m \in Nat,
         a + m = c, ar.hdr[a] # Junk, c < n => ar.hdr[c] # Junk,
         \A i \in 0 .. n : i < a \/ i > c => br.hdr[i] = ar.hdr[i],
         \A i \in a + 1 .. c - 1 : br.hdr[i] = Junk,
         \A i \in 0 .. n - 1 : i < a \/ i >= c => br.ftr[i] = ar.ftr[i],
         br.hdr[a] # Junk, br.hdr[a].size = m,
         br.hdr[a].prevfree <=> ar.hdr[a].prevfree,
         ar.hdr[a].prevfree => br.hdr[a].used,
         br.ftr[c - 1] = IF br.hdr[a].used THEN Canary ELSE br.hdr[a],
         c < n =>
           /\ br.hdr[c] # Junk /\ br.hdr[c].size = ar.hdr[c].size
           /\ br.hdr[c].used = ar.hdr[c].used /\ br.hdr[c].last = ar.hdr[c].last
           /\ br.hdr[c].prevfree <=> ~ br.hdr[a].used
           /\ br.hdr[a].used \/ br.hdr[c].used
           /\ ~ br.hdr[a].last
           /\ ~ ar.hdr[c].used => br.hdr[c] = ar.hdr[c]
  PROVE  Retiled(ar, br, n, a, m, c)
<1>1. ~ (a + m < c) /\ a + m - 1 = c - 1
  OBVIOUS
<1>2. /\ br.hdr[a].prevfree \in BOOLEAN /\ ar.hdr[a].prevfree \in BOOLEAN
      /\ br.hdr[a].used \in BOOLEAN
      /\ c < n => br.hdr[c].prevfree \in BOOLEAN
  BY DEF Shapes, Tags
<1>3. br.hdr[a].prevfree = ar.hdr[a].prevfree
  BY <1>2
<1>4. c < n => br.hdr[c].prevfree = ~ br.hdr[a].used
  BY <1>2
<1> QED BY <1>1, <1>3, <1>4 DEF Retiled

(* Two blocks instead of those from a to c                                    *)
LEMMA RetiledTwo ==
  ASSUME NEW n \in Nat, NEW ar \in Shapes(n), NEW br \in Shapes(n),
         NEW a \in 0 .. n - 1, NEW c \in 0 .. n, NEW m \in Nat, NEW l \in 0 .. n - 1,
         l = a + m, l < c, ar.hdr[a] # Junk, c < n => ar.hdr[c] # Junk,
         \A i \in 0 .. n : i < a \/ i > c => br.hdr[i] = ar.hdr[i],
         \A i \in a + 1 .. c - 1 : i # l => br.hdr[i] = Junk,
         \A i \in 0 .. n - 1 : i < a \/ i >= c => br.ftr[i] = ar.ftr[i],
         br.hdr[a] # Junk, br.hdr[a].size = m,
         br.hdr[a].prevfree <=> ar.hdr[a].prevfree, br.hdr[a].used, ~ br.hdr[a].last,
         br.ftr[l - 1] = Canary,
         br.hdr[l] # Junk, br.hdr[l].size = c - l, ~ br.hdr[l].prevfree,
         br.ftr[c - 1] = IF br.hdr[l].used THEN Canary ELSE br.hdr[l],
         c < n =>
           /\ br.hdr[c] # Junk /\ br.hdr[c].size = ar.hdr[c].size
           /\ br.hdr[c].used = ar.hdr[c].used /\ br.hdr[c].last = ar.hdr[c].last
           /\ br.hdr[c].prevfree <=> ~ br.hdr[l].used
           /\ br.hdr[l].used \/ br.hdr[c].used
           /\ ~ br.hdr[l].last
           /\ ~ ar.hdr[c].used => br.hdr[c] = ar.hdr[c]
  PROVE  Retiled(ar, br, n, a, m, c)
<1>1. a + m < c /\ (IF a + m < c THEN a + m ELSE a) = l
  OBVIOUS
<1>2. (IF br.hdr[a].used THEN Canary ELSE br.hdr[a]) = Canary
  OBVIOUS
<1>3. /\ br.hdr[a].prevfree \in BOOLEAN /\ ar.hdr[a].prevfree \in BOOLEAN
      /\ br.hdr[a].used \in BOOLEAN /\ br.hdr[l].used \in BOOLEAN
      /\ br.hdr[l].prevfree \in BOOLEAN
      /\ c < n => br.hdr[c].prevfree \in BOOLEAN
  BY DEF Shapes, Tags
<1>4. br.hdr[l].prevfree = ~ br.hdr[a].used
  BY <1>3
<1>5. br.hdr[a].prevfree = ar.hdr[a].prevfree
  BY <1>3
<1>6. c < n => br.hdr[c].prevfree = ~ br.hdr[l].used
  BY <1>3
<1> QED BY <1>1, <1>2, <1>4, <1>5, <1>6 DEF Retiled

(* Taking a block out of the list of an arena and putting one into it         *)
LEMMA RemoveAt ==
  ASSUME NEW n \in Nat, NEW ar \in Shapes(n), Injective(ar.free),
         NEW x \in 0 .. n - 1, x \in Items(ar.free)
  PROVE  LET r == n_remove(ar, x)
         IN  /\ r \in Shapes(n) /\ Injective(r.free) /\ Items(r.free) = Items(ar.free) \ {x}
             /\ r.hdr = ar.hdr /\ r.ftr = ar.ftr /\ r.totalFree = ar.totalFree
<1>1. ar.free \in Seq(0 .. n - 1)
  BY DEF Shapes
<1>2. /\ Unlinked(ar.free, x) \in Seq(0 .. n - 1) /\ Injective(Unlinked(ar.free, x))
      /\ Items(Unlinked(ar.free, x)) = Items(ar.free) \ {x}
  BY <1>1, UnlinkedList
<1>3. n_remove(ar, x) = [ar EXCEPT !.free = Unlinked(ar.free, x)]
  BY DEF n_remove
<1> QED BY <1>2, <1>3, ListAt

LEMMA InsertAt ==
  ASSUME NEW n \in Nat, NEW ar \in Shapes(n), Injective(ar.free),
         NEW x \in 0 .. n - 1, x \notin Items(ar.free)
  PROVE  LET r == n_insert(ar, x)
         IN  /\ r \in Shapes(n) /\ Injective(r.free) /\ Items(r.free) = Items(ar.free) \cup {x}
             /\ r.hdr = ar.hdr /\ r.ftr = ar.ftr /\ r.totalFree = ar.totalFree
<1>1. ar.free \in Seq(0 .. n - 1)
  BY DEF Shapes
<1> DEFINE q == Append(ar.free, x)
<1>2. /\ q \in Seq(0 .. n - 1) /\ Injective(q)
      /\ Items(q) = Items(ar.free) \cup {x}
  BY <1>1, AppendedList
<1>3. n_insert(ar, x) = [ar EXCEPT !.free = q]
  BY DEF n_insert
<1> HIDE DEF q
<1> QED BY <1>2, <1>3, ListAt

LEMMA DecAt ==
  ASSUME NEW n \in Nat, NEW ar \in Shapes(n), NEW k \in Int
  PROVE  LET r == ar_dec_free(ar, k)
         IN  /\ r \in Shapes(n) /\ r.totalFree = ar.totalFree - k
             /\ r.hdr = ar.hdr /\ r.ftr = ar.ftr /\ r.free = ar.free
<1>1. ar.totalFree - k \in Int
  BY DEF Shapes
<1>2. ar_dec_free(ar, k) = [ar EXCEPT !.totalFree = ar.totalFree - k]
  BY DEF ar_dec_free
<1> QED BY <1>1, <1>2, CountAt

(* Facts of an arena that satisfies the invariant                             *)
LEMMA InvFacts ==
  ASSUME NEW n \in Nat, NEW ar, ArenaInv(ar, n)
  PROVE  /\ Shaped(ar, n) /\ ar \in Shapes(n)
         /\ Injective(ar.free) /\ Items(ar.free) = FreeBlocksOf(ar)
         /\ ar.totalFree = Sum(Weights(ar, n), n) /\ ar.totalFree \in Int
         /\ ar.hdr[n] # Junk /\ ar.hdr[n].used
         /\ Weights(ar, n) \in [0 .. n - 1 -> Int]
<1>1. Shaped(ar, n) /\ ar \in Shapes(n)
  BY DEF ArenaInv, Shaped
<1>2. ar.totalFree \in Int
  BY <1>1 DEF Shapes
<1> QED BY <1>1, <1>2, ListExactIs, AvailableSum, WeightType DEF ArenaInv

LEMMA WeightIs ==
  ASSUME NEW n \in Nat, NEW ar \in Shapes(n), NEW i \in 0 .. n - 1
  PROVE  /\ ar.hdr[i] = Junk => Weight(ar, i) = 0
         /\ ar.hdr[i] # Junk /\ ar.hdr[i].used => Weight(ar, i) = 0
         /\ ar.hdr[i] # Junk /\ ~ ar.hdr[i].used => Weight(ar, i) = 16 * ar.hdr[i].size - 8
         /\ Weight(ar, i) \in Int
<1>1. Weights(ar, n)[i] = Weight(ar, i) /\ Weights(ar, n)[i] \in Int
  BY WeightAt, WeightType
<1> QED BY <1>1, WeightAt

LEMMA TotalOne ==
  ASSUME NEW n \in Nat, NEW ar \in Shapes(n), NEW br \in Shapes(n), NEW p \in 0 .. n - 1,
         \A i \in 0 .. n - 1 : i # p => Weight(br, i) = Weight(ar, i)
  PROVE  /\ Available(br, n) = Available(ar, n) + Weight(br, p) - Weight(ar, p)
         /\ Available(ar, n) \in Int
<1> DEFINE w == Weights(ar, n)
           v == Weights(br, n)
<1>1. w \in [0 .. n - 1 -> Int] /\ v \in [0 .. n - 1 -> Int]
  BY WeightType
<1>2. \A i \in 0 .. n - 1 : w[i] = Weight(ar, i) /\ v[i] = Weight(br, i)
  BY WeightAt
<1>3. Available(ar, n) = Sum(w, n) /\ Available(br, n) = Sum(v, n)
  BY AvailableSum
<1> HIDE DEF w, v
<1>4. \A i \in 0 .. n - 1 : i # p => v[i] = w[i]
  BY <1>2
<1>5. Sum(v, n) = Sum(w, n) + v[p] - w[p] /\ Sum(w, n) \in Int
  BY <1>1, <1>4, SumChanges
<1> QED BY <1>2, <1>3, <1>5

LEMMA TotalTwo ==
  ASSUME NEW n \in Nat, NEW ar \in Shapes(n), NEW br \in Shapes(n),
         NEW p \in 0 .. n - 1, NEW q \in 0 .. n - 1, p # q,
         \A i \in 0 .. n - 1 : i # p /\ i # q => Weight(br, i) = Weight(ar, i)
  PROVE  /\ Available(br, n) = Available(ar, n) + (Weight(br, p) - Weight(ar, p))
                                                + (Weight(br, q) - Weight(ar, q))
         /\ Available(ar, n) \in Int
<1> DEFINE w == Weights(ar, n)
           v == Weights(br, n)
<1>1. w \in [0 .. n - 1 -> Int] /\ v \in [0 .. n - 1 -> Int]
  BY WeightType
<1>2. \A i \in 0 .. n - 1 : w[i] = Weight(ar, i) /\ v[i] = Weight(br, i)
  BY WeightAt
<1>3. Available(ar, n) = Sum(w, n) /\ Available(br, n) = Sum(v, n)
  BY AvailableSum
<1> HIDE DEF w, v
<1>4. \A i \in 0 .. n - 1 : i \notin {p, q} => v[i] = w[i]
  BY <1>2
<1>5. Sum(v, n) = Sum(w, n) + (v[p] - w[p]) + (v[q] - w[q]) /\ Sum(w, n) \in Int
  BY <1>1, <1>4, SumTwoChange
<1> QED BY <1>2, <1>3, <1>5

LEMMA BlockIn ==
  ASSUME NEW n \in Nat, NEW ar \in Shapes(n)
  PROVE  \A i : i \in BlocksOf(ar) <=> i \in 0 .. n - 1 /\ ar.hdr[i] # Junk
<1>1. DOMAIN ar.ftr = 0 .. n - 1
  BY ArenaFields
<1> QED BY <1>1 DEF BlocksOf

(* A free block of an arena, its end c and what is behind it                  *)
LEMMA FreeBlock ==
  ASSUME NEW n \in Nat, NEW ar, ArenaInv(ar, n), NEW a \in 0 .. n - 1, a \in FreeBlocksOf(ar)
  PROVE  LET k == ar.hdr[a].size
             c == a + k
         IN  /\ k \in Nat /\ k > 0 /\ a \in 0 .. n - 1 /\ c \in 0 .. n /\ a \in BlocksOf(ar)
             /\ c \in BlocksOf(ar) \cup {n}
             /\ ar.hdr[a] \in Tags /\ ar.hdr[a] # Junk /\ ~ ar.hdr[a].used
             /\ ~ ar.hdr[a].prevfree /\ ar.hdr[a].last \in BOOLEAN
             /\ \A j \in a + 1 .. c - 1 : j \in 0 .. n - 1 /\ ar.hdr[j] = Junk
             /\ ar.hdr[c] # Junk /\ ar.hdr[c].used
             /\ c < n => c \in BlocksOf(ar) /\ ar.hdr[c].prevfree /\ ~ ar.hdr[a].last
             /\ ar.hdr[c] \in Tags
<1> DEFINE k == ar.hdr[a].size
           c == a + k
<1>1. Shaped(ar, n) /\ ar.hdr[n] # Junk /\ ar.hdr[n].used
  BY InvFacts
<1>2. a \in BlocksOf(ar) /\ ~ ar.hdr[a].used /\ ~ ar.hdr[a].prevfree
  BY <1>1, FreeAfterUsed
<1>3. /\ a \in 0 .. n - 1 /\ ar.hdr[a] \in Tags /\ ar.hdr[a] # Junk
      /\ ar.hdr[a].size \in Nat /\ ar.hdr[a].size > 0
      /\ ar.hdr[a].used \in BOOLEAN /\ ar.hdr[a].prevfree \in BOOLEAN
      /\ ar.hdr[a].last \in BOOLEAN
      /\ a + ar.hdr[a].size \in BlocksOf(ar) \cup {n}
      /\ a + ar.hdr[a].size <= n
  BY <1>1, <1>2, BlockFacts
<1>4. \A j \in a + 1 .. a + ar.hdr[a].size - 1 : j \in 0 .. n - 1 /\ ar.hdr[j] = Junk
  BY <1>1, <1>2, BlockFacts
<1>5. c \in BlocksOf(ar) => c \in 0 .. n - 1 /\ ar.hdr[c] # Junk
  BY <1>1, BlockIn DEF Shaped
<1>6. c < n => c \in BlocksOf(ar) /\ ar.hdr[c].used /\ ar.hdr[c].prevfree /\ ~ ar.hdr[a].last
  BY <1>1, FreeAfterUsed
<1>8. c <= n /\ c \in 0 .. n
  BY <1>3
<1>9. ar.hdr[c] \in Tags \cup {Junk}
  BY <1>1, <1>8 DEF Shaped, Shapes
<1>10. ar.hdr[c] # Junk /\ ar.hdr[c].used
  BY <1>1, <1>3, <1>5, <1>6, <1>8
<1>13. k \in Nat /\ k > 0
  BY <1>3
<1>14. c \in BlocksOf(ar) \cup {n}
  BY <1>3
<1>15. \A j \in a + 1 .. c - 1 : j \in 0 .. n - 1 /\ ar.hdr[j] = Junk
  <2>1. a + ar.hdr[a].size = c
    OBVIOUS
  <2> QED BY <1>3, <1>4, <1>8, <1>13, <2>1
<1> QED BY <1>2, <1>3, <1>6, <1>8, <1>9, <1>10, <1>13, <1>14, <1>15

(* The next block learns that the one before it is free, or used              *)
LEMMA FlagSet ==
  ASSUME NEW n \in Nat, NEW ar \in Shapes(n), NEW bt \in 0 .. n, ar.hdr[bt] # Junk
  PROVE  LET r == SetPrevfree(ar, bt, TRUE)
         IN  /\ r \in Shapes(n)
             /\ \A i \in 0 .. n : i # bt => r.hdr[i] = ar.hdr[i]
             /\ r.hdr[bt] # Junk /\ r.hdr[bt].prevfree
             /\ r.hdr[bt].size = ar.hdr[bt].size /\ r.hdr[bt].used = ar.hdr[bt].used
             /\ r.hdr[bt].last = ar.hdr[bt].last
             /\ r.ftr = ar.ftr /\ r.free = ar.free /\ r.totalFree = ar.totalFree
<1>1. \A p \in BOOLEAN :
        LET r == SetPrevfree(ar, bt, p)
         IN  /\ r \in Shapes(n)
             /\ \A i \in 0 .. n : i # bt => r.hdr[i] = ar.hdr[i]
             /\ r.hdr[bt] # Junk /\ r.hdr[bt].prevfree = p
             /\ r.hdr[bt].size = ar.hdr[bt].size /\ r.hdr[bt].used = ar.hdr[bt].used
             /\ r.hdr[bt].last = ar.hdr[bt].last
             /\ r.ftr = ar.ftr /\ r.free = ar.free /\ r.totalFree = ar.totalFree
  BY FlagAt
<1> QED BY <1>1, Zenon

LEMMA FlagClear ==
  ASSUME NEW n \in Nat, NEW ar \in Shapes(n), NEW bt \in 0 .. n, ar.hdr[bt] # Junk
  PROVE  LET r == SetPrevfree(ar, bt, FALSE)
         IN  /\ r \in Shapes(n)
             /\ \A i \in 0 .. n : i # bt => r.hdr[i] = ar.hdr[i]
             /\ r.hdr[bt] # Junk /\ ~ r.hdr[bt].prevfree
             /\ r.hdr[bt].size = ar.hdr[bt].size /\ r.hdr[bt].used = ar.hdr[bt].used
             /\ r.hdr[bt].last = ar.hdr[bt].last
             /\ r.ftr = ar.ftr /\ r.free = ar.free /\ r.totalFree = ar.totalFree
<1>1. \A p \in BOOLEAN :
        LET r == SetPrevfree(ar, bt, p)
         IN  /\ r \in Shapes(n)
             /\ \A i \in 0 .. n : i # bt => r.hdr[i] = ar.hdr[i]
             /\ r.hdr[bt] # Junk /\ r.hdr[bt].prevfree = p
             /\ r.hdr[bt].size = ar.hdr[bt].size /\ r.hdr[bt].used = ar.hdr[bt].used
             /\ r.hdr[bt].last = ar.hdr[bt].last
             /\ r.ftr = ar.ftr /\ r.free = ar.free /\ r.totalFree = ar.totalFree
  BY FlagAt
<1> QED BY <1>1, Zenon

LEMMA TagTaken ==
  ASSUME NEW s \in Nat, NEW l \in BOOLEAN
  PROVE  LET t == Tag(s, TRUE, FALSE, l)
         IN  t \in Tags /\ t # Junk /\ t.size = s /\ t.used /\ ~ t.prevfree /\ t.last = l
<1>1. \A u, p0, l0 \in BOOLEAN :
        LET t == Tag(s, u, p0, l0)
        IN  /\ t \in Tags /\ t # Junk /\ t.size = s
            /\ t.used = u /\ t.prevfree = p0 /\ t.last = l0
  BY TagType
<1> QED BY <1>1, Zenon

LEMMA TagLoose ==
  ASSUME NEW s \in Nat, NEW l \in BOOLEAN
  PROVE  LET t == Tag(s, FALSE, FALSE, l)
         IN  t \in Tags /\ t # Junk /\ t.size = s /\ ~ t.used /\ ~ t.prevfree /\ t.last = l
<1>1. \A u, p0, l0 \in BOOLEAN :
        LET t == Tag(s, u, p0, l0)
        IN  /\ t \in Tags /\ t # Junk /\ t.size = s
            /\ t.used = u /\ t.prevfree = p0 /\ t.last = l0
  BY TagType
<1> QED BY <1>1, Zenon

(* What the file's small functions do, as relations between two arenas        *)

Spans(n, a, c, tag) ==
  /\ a \in 0 .. n - 1 /\ c \in 0 .. n /\ a < c
  /\ tag \in Tags /\ tag.size = c - a

Made(ar, br, n, a, c, tag) ==
  /\ br \in Shapes(n)
  /\ \A i \in 0 .. n : br.hdr[i] =
       IF i = a THEN tag ELSE IF i > a /\ i < c THEN Junk ELSE ar.hdr[i]
  /\ \A i \in 0 .. n - 1 : br.ftr[i] =
       IF i = c - 1 THEN IF tag.used THEN Canary ELSE tag
       ELSE IF i >= a /\ i < c THEN Junk ELSE ar.ftr[i]
  /\ br.free = ar.free /\ br.totalFree = ar.totalFree

LEMMA Making ==
  ASSUME NEW n \in Nat, NEW ar \in Shapes(n), NEW a, NEW c, NEW tag, Spans(n, a, c, tag)
  PROVE  Made(ar, Make(ar, a, tag), n, a, c, tag)
<1> SUFFICES ASSUME NEW x \in 0 .. n - 1, NEW y \in 0 .. n, NEW t \in Tags, x < y, t.size = y - x
             PROVE  Made(ar, Make(ar, x, t), n, x, y, t)
  BY DEF Spans
<1> DEFINE r == Make(ar, x, t)
<1>1. x + t.size <= n /\ t.size > 0 /\ x + t.size = y /\ t.size \in Nat
  BY DEF Tags
<1>2. /\ r \in Shapes(n)
      /\ \A i \in 0 .. n : r.hdr[i] =
           IF i = x THEN t ELSE IF i > x /\ i < x + t.size THEN Junk ELSE ar.hdr[i]
      /\ \A i \in 0 .. n - 1 : r.ftr[i] =
           IF i = x + t.size - 1 THEN IF t.used THEN Canary ELSE t
           ELSE IF i >= x /\ i < x + t.size THEN Junk ELSE ar.ftr[i]
      /\ r.free = ar.free /\ r.totalFree = ar.totalFree
  BY <1>1, MakeAt
<1> HIDE DEF r
<1>3. \A i \in 0 .. n : r.hdr[i] =
           IF i = x THEN t ELSE IF i > x /\ i < y THEN Junk ELSE ar.hdr[i]
  BY <1>1, <1>2
<1>4. x + t.size - 1 = y - 1
  BY <1>1
<1>5. \A i \in 0 .. n - 1 : r.ftr[i] =
           IF i = y - 1 THEN IF t.used THEN Canary ELSE t
           ELSE IF i >= x /\ i < y THEN Junk ELSE ar.ftr[i]
  BY <1>1, <1>2, <1>4
<1>6. Made(ar, r, n, x, y, t)
  BY <1>2, <1>3, <1>5 DEF Made
<1> QED BY <1>6 DEF r

LEMMA MallocExact ==
  ASSUME NEW n \in Nat, NEW ar, ArenaInv(ar, n), NEW bt \in 0 .. n - 1, bt \in FreeBlocksOf(ar),
         NEW k \in Nat, k = ar.hdr[bt].size, NEW c \in 0 .. n, c = bt + k
  PROVE  LET br == ar_malloc(ar, bt, k)
         IN  /\ ArenaInv(br, n) /\ br.hdr[bt].size = k
             /\ \A i : Used(br, i) <=> Used(ar, i) \/ i = bt
             /\ \A i : Used(ar, i) => br.hdr[i].size = ar.hdr[i].size
<1> DEFINE last == ar.hdr[bt].last
           removed == n_remove(ar, bt)
           tag == Tag(k, TRUE, FALSE, last)
           taken == Make(removed, bt, tag)
           flagged == IF last THEN taken ELSE SetPrevfree(taken, c, FALSE)
           br == ar_dec_free(flagged, Bytes(k) - USEDBLK_SZ)
<1>1. /\ k \in Nat /\ k > 0 /\ bt \in 0 .. n - 1 /\ c \in 0 .. n /\ bt \in BlocksOf(ar)
      /\ c \in BlocksOf(ar) \cup {n}
      /\ ~ ar.hdr[bt].used /\ ~ ar.hdr[bt].prevfree /\ ar.hdr[bt] # Junk /\ last \in BOOLEAN
      /\ ar.hdr[c] # Junk /\ ar.hdr[c].used
      /\ c < n => c \in BlocksOf(ar) /\ ar.hdr[c].prevfree /\ ~ last
      /\ ar.hdr[c] \in Tags
  BY FreeBlock
<1>2. \A j \in bt + 1 .. c - 1 : j \in 0 .. n - 1 /\ ar.hdr[j] = Junk
  BY FreeBlock
<1>3. br = ar_malloc(ar, bt, k)
  <2>1. ~ (ar.hdr[bt].size > k)
    BY <1>1
  <2> QED BY <2>1, Zenon DEF ar_malloc
<1>4. Shaped(ar, n) /\ ar \in Shapes(n) /\ Injective(ar.free) /\ bt \in Items(ar.free)
      /\ Items(ar.free) = FreeBlocksOf(ar) /\ ar.totalFree = Available(ar, n)
  BY InvFacts DEF ArenaInv
<1>5. /\ tag \in Tags /\ tag # Junk /\ tag.size = k /\ tag.used
      /\ ~ tag.prevfree /\ tag.last = last
  BY <1>1, TagTaken
<1>6. /\ removed \in Shapes(n) /\ Injective(removed.free)
      /\ Items(removed.free) = Items(ar.free) \ {bt}
      /\ removed.hdr = ar.hdr /\ removed.ftr = ar.ftr /\ removed.totalFree = ar.totalFree
  BY <1>4, RemoveAt
<1> HIDE DEF removed, tag
<1>7. bt + tag.size <= n /\ tag.size > 0 /\ bt + tag.size = c
  BY <1>1, <1>5
<1>8. /\ taken \in Shapes(n)
      /\ \A i \in 0 .. n : taken.hdr[i] =
              IF i = bt THEN tag ELSE IF i > bt /\ i < c THEN Junk ELSE ar.hdr[i]
      /\ \A i \in 0 .. n - 1 : taken.ftr[i] =
              IF i = c - 1 THEN IF tag.used THEN Canary ELSE tag
              ELSE IF i >= bt /\ i < c THEN Junk ELSE ar.ftr[i]
      /\ taken.free = removed.free /\ taken.totalFree = ar.totalFree
  <2>1. /\ removed \in Shapes(n) /\ bt \in 0 .. n - 1 /\ c \in 0 .. n
        /\ tag \in Tags /\ tag.size = c - bt /\ bt < c
    BY <1>1, <1>5, <1>6, <1>7
  <2>2. /\ taken \in Shapes(n)
        /\ \A i \in 0 .. n : taken.hdr[i] =
              IF i = bt THEN tag ELSE IF i > bt /\ i < c THEN Junk ELSE removed.hdr[i]
        /\ \A i \in 0 .. n - 1 : taken.ftr[i] =
              IF i = c - 1 THEN IF tag.used THEN Canary ELSE tag
              ELSE IF i >= bt /\ i < c THEN Junk ELSE removed.ftr[i]
        /\ taken.free = removed.free /\ taken.totalFree = removed.totalFree
    <3>1. Spans(n, bt, c, tag)
      BY <2>1 DEF Spans
    <3>2. Made(removed, Make(removed, bt, tag), n, bt, c, tag)
      BY <2>1, <3>1, Making
    <3> QED BY <3>2, Zenon DEF Made
  <2> QED BY <1>6, <2>2
<1> HIDE DEF taken
<1>9. taken.hdr[c] = ar.hdr[c] /\ taken.hdr[bt] = tag /\ bt # c
  BY <1>1, <1>8
<1>10. /\ flagged \in Shapes(n)
       /\ \A i \in 0 .. n : i # c => flagged.hdr[i] = taken.hdr[i]
       /\ flagged.ftr = taken.ftr /\ flagged.free = taken.free
       /\ flagged.totalFree = taken.totalFree
       /\ flagged.hdr[c] # Junk /\ flagged.hdr[c].size = ar.hdr[c].size
       /\ flagged.hdr[c].used = ar.hdr[c].used /\ flagged.hdr[c].last = ar.hdr[c].last
       /\ c < n => ~ flagged.hdr[c].prevfree
  <2>1. CASE last
    <3>1. ~ (c < n) /\ flagged = taken
      BY <1>1, <2>1
    <3> HIDE DEF flagged
    <3> QED BY <1>1, <1>8, <1>9, <3>1
  <2>2. CASE ~ last
    <3>1. taken.hdr[c] # Junk
      BY <1>1, <1>9
    <3>2. flagged = SetPrevfree(taken, c, FALSE)
      BY <2>2
    <3> HIDE DEF flagged, last
    <3>3. /\ flagged \in Shapes(n)
          /\ \A i \in 0 .. n : i # c => flagged.hdr[i] = taken.hdr[i]
          /\ flagged.hdr[c] # Junk /\ ~ flagged.hdr[c].prevfree
          /\ flagged.hdr[c].size = taken.hdr[c].size
          /\ flagged.hdr[c].used = taken.hdr[c].used
          /\ flagged.hdr[c].last = taken.hdr[c].last
          /\ flagged.ftr = taken.ftr /\ flagged.free = taken.free
          /\ flagged.totalFree = taken.totalFree
      <4>1. taken \in Shapes(n) /\ c \in 0 .. n
        BY <1>1, <1>8
      <4> QED BY <3>1, <3>2, <4>1, FlagClear
    <3> QED BY <1>9, <3>3
  <2> QED BY <2>1, <2>2
<1> HIDE DEF flagged
<1>11. Bytes(k) - USEDBLK_SZ = 16 * k - 8 /\ 16 * k - 8 \in Int
  BY <1>1 DEF Bytes, USEDBLK_SZ, ALIGNMENT
<1>12. /\ br \in Shapes(n) /\ br.totalFree = flagged.totalFree - (16 * k - 8)
       /\ br.hdr = flagged.hdr /\ br.ftr = flagged.ftr /\ br.free = flagged.free
  <2>1. flagged \in Shapes(n)
    BY <1>10
  <2>2. br = ar_dec_free(flagged, 16 * k - 8)
    BY <1>11
  <2> HIDE DEF br
  <2> QED BY <1>11, <2>1, <2>2, DecAt
<1> HIDE DEF br
<1>13. br.hdr[bt] = tag
  BY <1>1, <1>9, <1>10, <1>12
<1>14. \A i \in 0 .. n : i < bt \/ i > c => br.hdr[i] = ar.hdr[i]
  BY <1>1, <1>8, <1>10, <1>12
<1>15. \A i \in bt + 1 .. c - 1 : br.hdr[i] = Junk
  <2> SUFFICES ASSUME NEW i \in bt + 1 .. c - 1 PROVE br.hdr[i] = Junk
    OBVIOUS
  <2>1. i \in 0 .. n /\ i # c /\ i > bt /\ i < c /\ i # bt
    BY <1>1
  <2> QED BY <1>8, <1>10, <1>12, <2>1
<1>16. \A i \in 0 .. n - 1 : i < bt \/ i >= c => br.ftr[i] = ar.ftr[i]
  BY <1>1, <1>8, <1>10, <1>12
<1>17. br.ftr[c - 1] = Canary
  BY <1>1, <1>5, <1>8, <1>10, <1>12
<1>18. /\ br.hdr[c] # Junk /\ br.hdr[c].size = ar.hdr[c].size
       /\ br.hdr[c].used = ar.hdr[c].used /\ br.hdr[c].last = ar.hdr[c].last
       /\ c < n => ~ br.hdr[c].prevfree
  BY <1>10, <1>12
<1>19. Retiled(ar, br, n, bt, k, c)
  <2>2. bt + k = c
    OBVIOUS
  <2>3. br.hdr[bt] # Junk /\ br.hdr[bt].size = k /\ br.hdr[bt].used
        /\ ~ br.hdr[bt].prevfree /\ br.hdr[bt].last = last
    BY <1>5, <1>13
  <2> HIDE DEF last
  <2> QED BY <1>1, <1>14, <1>15, <1>16, <1>4, <1>12, <1>17, <1>18, <2>2, <2>3, RetiledOne
<1>20. bt + k <= c /\ ~ (bt + k < c)
  BY <1>1
<1>21. /\ \A i : i \in FreeBlocksOf(br) <=>
              \/ i \in FreeBlocksOf(ar) /\ (i < bt \/ i >= c)
              \/ i = bt /\ ~ br.hdr[bt].used
              \/ i = bt + k /\ bt + k < c /\ ~ br.hdr[i].used
       /\ \A i : Used(br, i) <=>
              \/ Used(ar, i) /\ (i < bt \/ i >= c)
              \/ i = bt /\ br.hdr[bt].used
              \/ i = bt + k /\ bt + k < c /\ br.hdr[i].used
       /\ \A i \in BlocksOf(ar) : i < bt \/ i >= c => br.hdr[i].size = ar.hdr[i].size
       /\ \A i \in 0 .. n - 1 : i < bt \/ i >= c => Weight(br, i) = Weight(ar, i)
       /\ \A i \in bt + 1 .. c - 1 : i # bt + k => Weight(br, i) = 0
  <2>1. /\ Shaped(ar, n) /\ br \in Shapes(n) /\ bt \in BlocksOf(ar)
        /\ c \in BlocksOf(ar) \cup {n} /\ k \in Nat /\ k > 0 /\ bt + k <= c
    BY <1>1, <1>4, <1>12, <1>20
  <2> QED BY <1>19, <2>1, RetiledWeights
<1>22. \A i \in BlocksOf(ar) : i # bt => i < bt \/ i >= c
  <2> SUFFICES ASSUME NEW i \in BlocksOf(ar), i # bt, ~ (i < bt), ~ (i >= c) PROVE FALSE
    OBVIOUS
  <2>1. i \in 0 .. n - 1 /\ ar.hdr[i] # Junk
    BY <1>4, BlockIn
  <2> QED BY <1>1, <1>2, <2>1
<1>23. br.hdr[bt].used /\ ~ (bt < bt) /\ ~ (bt >= c)
  BY <1>1, <1>5, <1>13
<1>24. \A i : i \in FreeBlocksOf(ar) => i \in BlocksOf(ar)
  BY DEF FreeBlocksOf
<1>25. FreeBlocksOf(br) = FreeBlocksOf(ar) \ {bt}
  <2> QED BY <1>20, <1>21, <1>22, <1>23, <1>24, Zenon
<1>26. Items(br.free) = FreeBlocksOf(br) /\ Injective(br.free)
  BY <1>4, <1>6, <1>8, <1>10, <1>12, <1>25
<1>27. \A i \in 0 .. n - 1 : i # bt => Weight(br, i) = Weight(ar, i)
  <2> SUFFICES ASSUME NEW i \in 0 .. n - 1, i # bt PROVE Weight(br, i) = Weight(ar, i)
    OBVIOUS
  <2>1. CASE i < bt \/ i >= c
    BY <1>21, <2>1
  <2>2. CASE ~ (i < bt \/ i >= c)
    <3>1. i \in bt + 1 .. c - 1 /\ i # bt + k
      BY <1>1, <2>2
    <3>2. ar.hdr[i] = Junk
      BY <1>2, <3>1
    <3>3. Weight(ar, i) = 0
      BY <1>4, <3>2, WeightIs
    <3> QED BY <1>21, <3>1, <3>3
  <2> QED BY <2>1, <2>2
<1>28. Weight(br, bt) = 0 /\ Weight(ar, bt) = 16 * k - 8
  <2>1. ar.hdr[bt] # Junk
    BY <1>1 DEF BlocksOf
  <2> QED BY <1>1, <1>4, <1>5, <1>12, <1>13, <2>1, WeightIs
<1>29. Available(br, n) = Available(ar, n) + Weight(br, bt) - Weight(ar, bt)
       /\ Available(ar, n) \in Int
  BY <1>1, <1>4, <1>12, <1>27, TotalOne
<1>30. br.totalFree = Available(br, n)
  BY <1>4, <1>8, <1>10, <1>11, <1>12, <1>28, <1>29
<1>31. br.hdr[n] # Junk /\ br.hdr[n].used
  <2>1. ar.hdr[n] # Junk /\ ar.hdr[n].used /\ n \in 0 .. n
    BY InvFacts
  <2>2. CASE c = n
    BY <1>1, <1>18, <2>2
  <2>3. CASE c # n
    BY <1>1, <1>14, <2>1, <2>3
  <2> QED BY <2>2, <2>3
<1>32. ArenaInv(br, n)
  <2> QED BY <1>1, <1>12, <1>19, <1>20, <1>26, <1>30, <1>31, RetiledInv
<1>33. \A i : Used(br, i) <=> Used(ar, i) \/ i = bt
  <2>1. \A i : Used(ar, i) => i \in BlocksOf(ar) /\ i # bt
    BY <1>1 DEF Used
  <2> QED BY <1>20, <1>21, <1>22, <1>23, <2>1, Zenon
<1>34. \A i : Used(ar, i) => br.hdr[i].size = ar.hdr[i].size
  <2>1. \A i : Used(ar, i) => i \in BlocksOf(ar) /\ i # bt
    BY <1>1 DEF Used
  <2> QED BY <1>21, <1>22, <2>1, Zenon
<1>35. br.hdr[bt].size = k
  BY <1>5, <1>13
<1> QED BY <1>3, <1>32, <1>33, <1>34, <1>35

Delisted(ar, br, n, x) ==
  /\ br \in Shapes(n) /\ Injective(br.free) /\ Items(br.free) = Items(ar.free) \ {x}
  /\ br.hdr = ar.hdr /\ br.ftr = ar.ftr /\ br.totalFree = ar.totalFree

LEMMA Removing ==
  ASSUME NEW n \in Nat, NEW ar \in Shapes(n), Injective(ar.free), NEW x,
         x \in 0 .. n - 1 /\ x \in Items(ar.free)
  PROVE  Delisted(ar, n_remove(ar, x), n, x)
BY RemoveAt DEF Delisted

Listed(ar, br, n, x) ==
  /\ br \in Shapes(n) /\ Injective(br.free) /\ Items(br.free) = Items(ar.free) \cup {x}
  /\ br.hdr = ar.hdr /\ br.ftr = ar.ftr /\ br.totalFree = ar.totalFree

LEMMA Inserting ==
  ASSUME NEW n \in Nat, NEW ar \in Shapes(n), Injective(ar.free), NEW x,
         x \in 0 .. n - 1 /\ x \notin Items(ar.free)
  PROVE  Listed(ar, n_insert(ar, x), n, x)
BY InsertAt DEF Listed

(* Only what the tag at x says of the block before it, or of its own place,   *)
(* changes                                                                    *)
Retagged(ar, br, n, x) ==
  /\ br \in Shapes(n)
  /\ \A i \in 0 .. n : i # x => br.hdr[i] = ar.hdr[i]
  /\ br.hdr[x] # Junk /\ br.hdr[x].size = ar.hdr[x].size
  /\ br.hdr[x].used = ar.hdr[x].used
  /\ br.ftr = ar.ftr /\ br.free = ar.free /\ br.totalFree = ar.totalFree

LEMMA Flagging ==
  ASSUME NEW n \in Nat, NEW ar \in Shapes(n), NEW x, x \in 0 .. n /\ ar.hdr[x] # Junk
  PROVE  /\ Retagged(ar, SetPrevfree(ar, x, TRUE), n, x)
         /\ Retagged(ar, SetPrevfree(ar, x, FALSE), n, x)
         /\ SetPrevfree(ar, x, TRUE).hdr[x].prevfree
         /\ ~ SetPrevfree(ar, x, FALSE).hdr[x].prevfree
         /\ SetPrevfree(ar, x, TRUE).hdr[x].last = ar.hdr[x].last
         /\ SetPrevfree(ar, x, FALSE).hdr[x].last = ar.hdr[x].last
<1>1. /\ Retagged(ar, SetPrevfree(ar, x, TRUE), n, x)
      /\ SetPrevfree(ar, x, TRUE).hdr[x].prevfree
      /\ SetPrevfree(ar, x, TRUE).hdr[x].last = ar.hdr[x].last
  BY FlagSet DEF Retagged
<1>2. /\ Retagged(ar, SetPrevfree(ar, x, FALSE), n, x)
      /\ ~ SetPrevfree(ar, x, FALSE).hdr[x].prevfree
      /\ SetPrevfree(ar, x, FALSE).hdr[x].last = ar.hdr[x].last
  BY FlagClear DEF Retagged
<1> QED BY <1>1, <1>2

Unmark(ar, x) == [ar EXCEPT !.hdr[x].last = FALSE]

LEMMA Unmarking ==
  ASSUME NEW n \in Nat, NEW ar \in Shapes(n), NEW x, x \in 0 .. n /\ ar.hdr[x] # Junk
  PROVE  /\ Retagged(ar, Unmark(ar, x), n, x) /\ ~ Unmark(ar, x).hdr[x].last
         /\ Unmark(ar, x).hdr[x].prevfree = ar.hdr[x].prevfree
BY LastAt DEF Retagged, Unmark

Counted(ar, br, n, k) ==
  /\ br \in Shapes(n) /\ br.totalFree = k
  /\ br.hdr = ar.hdr /\ br.ftr = ar.ftr /\ br.free = ar.free

LEMMA Counting ==
  ASSUME NEW n \in Nat, NEW ar \in Shapes(n), NEW k \in Int
  PROVE  Counted(ar, ar_dec_free(ar, k), n, ar.totalFree - k)
BY DecAt DEF Counted

(* Blocks from a to c give way to one or two others                           *)
Retiling(ar, br, n, a, m, c) ==
  /\ Shaped(ar, n) /\ br \in Shapes(n)
  /\ a \in 0 .. n - 1 /\ a \in BlocksOf(ar)
  /\ c \in 0 .. n /\ c \in BlocksOf(ar) \cup {n}
  /\ m \in Nat /\ m > 0 /\ a + m <= c /\ Retiled(ar, br, n, a, m, c)

(* One block from a to c                                                      *)
OneBlock(ar, br, n, a, c) ==
  /\ \A i \in 0 .. n : i < a \/ i > c => br.hdr[i] = ar.hdr[i]
  /\ \A i \in a + 1 .. c - 1 : br.hdr[i] = Junk
  /\ \A i \in 0 .. n - 1 : i < a \/ i >= c => br.ftr[i] = ar.ftr[i]
  /\ br.hdr[a] # Junk /\ br.hdr[a].size = c - a
  /\ br.hdr[a].prevfree <=> ar.hdr[a].prevfree
  /\ ar.hdr[a].prevfree => br.hdr[a].used
  /\ br.ftr[c - 1] = IF br.hdr[a].used THEN Canary ELSE br.hdr[a]
  /\ c < n =>
       /\ br.hdr[c] # Junk /\ br.hdr[c].size = ar.hdr[c].size
       /\ br.hdr[c].used = ar.hdr[c].used /\ br.hdr[c].last = ar.hdr[c].last
       /\ br.hdr[c].prevfree <=> ~ br.hdr[a].used
       /\ br.hdr[a].used \/ br.hdr[c].used
       /\ ~ br.hdr[a].last
       /\ ~ ar.hdr[c].used => br.hdr[c] = ar.hdr[c]

LEMMA One ==
  ASSUME NEW n \in Nat, NEW ar, NEW br \in Shapes(n), Shaped(ar, n),
         NEW a \in 0 .. n - 1, a \in BlocksOf(ar), NEW c \in 0 .. n, c \in BlocksOf(ar) \cup {n},
         a < c, OneBlock(ar, br, n, a, c)
  PROVE  Retiling(ar, br, n, a, c - a, c)
<1>1. ar \in Shapes(n)
  BY DEF Shaped
<1>2. ar.hdr[a] # Junk /\ (c < n => ar.hdr[c] # Junk)
  BY <1>1, BlockIn
<1>3. c - a \in Nat /\ c - a > 0 /\ a + (c - a) = c /\ a + (c - a) <= c
  OBVIOUS
<1> DEFINE m == c - a
<1>4. m \in Nat /\ m > 0 /\ a + m = c /\ a + m <= c
  BY <1>3
<1>5. br.hdr[a].size = m
  BY DEF OneBlock
<1> HIDE DEF m
<1>6. Retiled(ar, br, n, a, m, c)
  <2>1. \A i \in 0 .. n : i < a \/ i > c => br.hdr[i] = ar.hdr[i]
    BY DEF OneBlock
  <2>2. \A i \in a + 1 .. c - 1 : br.hdr[i] = Junk
    BY DEF OneBlock
  <2>3. \A i \in 0 .. n - 1 : i < a \/ i >= c => br.ftr[i] = ar.ftr[i]
    BY DEF OneBlock
  <2>4. /\ br.hdr[a] # Junk
        /\ br.hdr[a].prevfree <=> ar.hdr[a].prevfree
    BY DEF OneBlock
  <2>5. br.ftr[c - 1] = IF br.hdr[a].used THEN Canary ELSE br.hdr[a]
    BY DEF OneBlock
  <2>6. c < n =>
       /\ br.hdr[c] # Junk /\ br.hdr[c].size = ar.hdr[c].size
       /\ br.hdr[c].used = ar.hdr[c].used /\ br.hdr[c].last = ar.hdr[c].last
       /\ br.hdr[c].prevfree <=> ~ br.hdr[a].used
       /\ br.hdr[a].used \/ br.hdr[c].used
       /\ ~ br.hdr[a].last
       /\ ~ ar.hdr[c].used => br.hdr[c] = ar.hdr[c]
    BY DEF OneBlock
  <2>7. /\ br.hdr[a].prevfree \in BOOLEAN /\ ar.hdr[a].prevfree \in BOOLEAN
        /\ br.hdr[a].used \in BOOLEAN
    BY <1>1, <1>2, <2>4 DEF Shapes, Tags
  <2>8. c < n => br.hdr[c].prevfree \in BOOLEAN
    BY <1>1, <2>6 DEF Shapes, Tags
  <2>9. br.hdr[a].prevfree = ar.hdr[a].prevfree
    BY <2>4, <2>7
  <2>10. c < n => br.hdr[c].prevfree = ~ br.hdr[a].used
    BY <2>6, <2>7, <2>8
  <2>11. ~ (a + m < c) /\ a + m - 1 = c - 1
    BY <1>4
  <2>12. ar.hdr[a].prevfree => br.hdr[a].used
    BY DEF OneBlock
  <2>13. (IF a + m < c THEN a + m ELSE a) = a
    BY <2>11
  <2>14. br.ftr[a + m - 1] = IF br.hdr[a].used THEN Canary ELSE br.hdr[a]
    BY <2>5, <2>11
  <2>15. \A i \in a + 1 .. c - 1 : i # a + m => br.hdr[i] = Junk
    BY <2>2
  <2> QED BY <1>5, <2>1, <2>3, <2>4, <2>6, <2>9, <2>10, <2>11, <2>12, <2>13, <2>14, <2>15
          DEF Retiled
<1>7. Retiling(ar, br, n, a, m, c)
  BY <1>4, <1>6 DEF Retiling
<1> QED BY <1>7 DEF m

(* Two blocks from a to c, of which the second one begins at l                *)
TwoBlocks(ar, br, n, a, l, c) ==
  /\ \A i \in 0 .. n : i < a \/ i > c => br.hdr[i] = ar.hdr[i]
  /\ \A i \in a + 1 .. c - 1 : i # l => br.hdr[i] = Junk
  /\ \A i \in 0 .. n - 1 : i < a \/ i >= c => br.ftr[i] = ar.ftr[i]
  /\ br.hdr[a] # Junk /\ br.hdr[a].size = l - a
  /\ br.hdr[a].prevfree <=> ar.hdr[a].prevfree
  /\ br.hdr[a].used /\ ~ br.hdr[a].last /\ br.ftr[l - 1] = Canary
  /\ br.hdr[l] # Junk /\ br.hdr[l].size = c - l /\ ~ br.hdr[l].prevfree
  /\ br.ftr[c - 1] = IF br.hdr[l].used THEN Canary ELSE br.hdr[l]
  /\ c < n =>
       /\ br.hdr[c] # Junk /\ br.hdr[c].size = ar.hdr[c].size
       /\ br.hdr[c].used = ar.hdr[c].used /\ br.hdr[c].last = ar.hdr[c].last
       /\ br.hdr[c].prevfree <=> ~ br.hdr[l].used
       /\ br.hdr[l].used \/ br.hdr[c].used
       /\ ~ br.hdr[l].last
       /\ ~ ar.hdr[c].used => br.hdr[c] = ar.hdr[c]

LEMMA Two ==
  ASSUME NEW n \in Nat, NEW ar, NEW br \in Shapes(n), Shaped(ar, n),
         NEW a \in 0 .. n - 1, a \in BlocksOf(ar), NEW c \in 0 .. n, c \in BlocksOf(ar) \cup {n},
         NEW l \in 0 .. n - 1, a < l, l < c, TwoBlocks(ar, br, n, a, l, c)
  PROVE  Retiling(ar, br, n, a, l - a, c)
<1>1. ar \in Shapes(n)
  BY DEF Shaped
<1>2. ar.hdr[a] # Junk /\ (c < n => ar.hdr[c] # Junk)
  BY <1>1, BlockIn
<1> DEFINE m == l - a
<1>3. m \in Nat /\ m > 0 /\ a + m = l /\ a + m <= c /\ a + m < c
  OBVIOUS
<1>4. br.hdr[a].size = m
  BY DEF TwoBlocks
<1> HIDE DEF m
<1>5. Retiled(ar, br, n, a, m, c)
  <2>1. \A i \in 0 .. n : i < a \/ i > c => br.hdr[i] = ar.hdr[i]
    BY DEF TwoBlocks
  <2>2. \A i \in a + 1 .. c - 1 : i # l => br.hdr[i] = Junk
    BY DEF TwoBlocks
  <2>3. \A i \in 0 .. n - 1 : i < a \/ i >= c => br.ftr[i] = ar.ftr[i]
    BY DEF TwoBlocks
  <2>4. /\ br.hdr[a] # Junk /\ br.hdr[a].used /\ ~ br.hdr[a].last
        /\ br.ftr[l - 1] = Canary /\ br.hdr[l] # Junk /\ br.hdr[l].size = c - l
        /\ ~ br.hdr[l].prevfree
    BY DEF TwoBlocks
  <2>5. br.ftr[c - 1] = IF br.hdr[l].used THEN Canary ELSE br.hdr[l]
    BY DEF TwoBlocks
  <2>6. c < n =>
       /\ br.hdr[c] # Junk /\ br.hdr[c].size = ar.hdr[c].size
       /\ br.hdr[c].used = ar.hdr[c].used /\ br.hdr[c].last = ar.hdr[c].last
       /\ br.hdr[c].prevfree <=> ~ br.hdr[l].used
       /\ br.hdr[l].used \/ br.hdr[c].used
       /\ ~ br.hdr[l].last
       /\ ~ ar.hdr[c].used => br.hdr[c] = ar.hdr[c]
    BY DEF TwoBlocks
  <2>7. br.hdr[a].prevfree <=> ar.hdr[a].prevfree
    BY DEF TwoBlocks
  <2> QED BY <1>1, <1>2, <1>3, <1>4, <2>1, <2>2, <2>3, <2>4, <2>5, <2>6, <2>7, RetiledTwo
<1>6. Retiling(ar, br, n, a, m, c)
  BY <1>3, <1>5 DEF Retiling
<1> QED BY <1>6 DEF m

Kept(ar, br, n, a, m, c) ==
  /\ \A i : i \in FreeBlocksOf(br) <=>
       \/ i \in FreeBlocksOf(ar) /\ (i < a \/ i >= c)
       \/ i = a /\ ~ br.hdr[a].used
       \/ i = a + m /\ a + m < c /\ ~ br.hdr[i].used
  /\ \A i : Used(br, i) <=>
       \/ Used(ar, i) /\ (i < a \/ i >= c)
       \/ i = a /\ br.hdr[a].used
       \/ i = a + m /\ a + m < c /\ br.hdr[i].used
  /\ \A i \in BlocksOf(ar) : i < a \/ i >= c => br.hdr[i].size = ar.hdr[i].size
  /\ \A i \in 0 .. n - 1 : i < a \/ i >= c => Weight(br, i) = Weight(ar, i)
  /\ \A i \in a + 1 .. c - 1 : i # a + m => Weight(br, i) = 0

LEMMA Keeping ==
  ASSUME NEW n \in Nat, NEW ar, NEW br, NEW a, NEW m, NEW c, Retiling(ar, br, n, a, m, c)
  PROVE  Kept(ar, br, n, a, m, c)
<1>1. /\ Shaped(ar, n) /\ br \in Shapes(n)
      /\ a \in 0 .. n - 1 /\ a \in BlocksOf(ar)
      /\ c \in 0 .. n /\ c \in BlocksOf(ar) \cup {n}
      /\ m \in Nat /\ m > 0 /\ a + m <= c /\ Retiled(ar, br, n, a, m, c)
  BY DEF Retiling
<1> QED BY <1>1, RetiledWeights DEF Kept

(* Where the new blocks meet the old ones                                     *)
LEMMA OutsideBlocks ==
  ASSUME NEW n \in Nat, NEW ar \in Shapes(n), NEW a \in 0 .. n - 1, NEW c \in 0 .. n,
         \A j \in a + 1 .. c - 1 : ar.hdr[j] = Junk
  PROVE  \A i \in BlocksOf(ar) : i # a => i < a \/ i >= c
<1> SUFFICES ASSUME NEW i \in BlocksOf(ar), i # a, ~ (i < a), ~ (i >= c) PROVE FALSE
  OBVIOUS
<1>1. i \in 0 .. n - 1 /\ ar.hdr[i] # Junk
  BY BlockIn
<1>2. i \in a + 1 .. c - 1
  BY <1>1
<1> QED BY <1>1, <1>2

LEMMA RetiledTotal ==
  ASSUME NEW n \in Nat, NEW ar, Shaped(ar, n), NEW br \in Shapes(n),
         NEW a \in 0 .. n - 1, a \in BlocksOf(ar), NEW c \in 0 .. n, c \in BlocksOf(ar) \cup {n},
         NEW m \in Nat, m > 0, a + m <= c, Retiled(ar, br, n, a, m, c),
         NEW p \in 0 .. n - 1, NEW q \in 0 .. n - 1, p # q,
         \A i \in a .. c - 1 : i # p /\ i # q => Weight(ar, i) = 0 /\ Weight(br, i) = 0
  PROVE  /\ Available(br, n) = Available(ar, n) + (Weight(br, p) - Weight(ar, p))
                                                + (Weight(br, q) - Weight(ar, q))
         /\ Available(ar, n) \in Int
<1>1. ar \in Shapes(n)
  BY DEF Shaped
<1>2. \A i \in 0 .. n - 1 : i < a \/ i >= c => Weight(br, i) = Weight(ar, i)
  BY RetiledWeights
<1>3. ASSUME NEW i \in 0 .. n - 1, i # p, i # q
      PROVE  Weight(br, i) = Weight(ar, i)
  <2>1. CASE i < a \/ i >= c
    BY <1>2, <2>1
  <2>2. CASE ~ (i < a \/ i >= c)
    <3>1. i \in a .. c - 1
      BY <2>2
    <3> QED BY <1>3, <3>1
  <2> QED BY <2>1, <2>2
<1> QED BY <1>1, <1>3, TotalTwo

Quiet(ar, br, a, c, p, q) ==
  \A i \in a .. c - 1 : i # p /\ i # q => Weight(ar, i) = 0 /\ Weight(br, i) = 0

Apart(n, p, q) == p \in 0 .. n - 1 /\ q \in 0 .. n - 1 /\ p # q

Totals(ar, br, n, p, q) ==
  /\ Available(br, n) = Available(ar, n) + (Weight(br, p) - Weight(ar, p))
                                         + (Weight(br, q) - Weight(ar, q))
  /\ Available(ar, n) \in Int

LEMMA Totalling ==
  ASSUME NEW n \in Nat, NEW ar, NEW br, NEW a, NEW m, NEW c, Retiling(ar, br, n, a, m, c),
         NEW p, NEW q, Apart(n, p, q), Quiet(ar, br, a, c, p, q)
  PROVE  Totals(ar, br, n, p, q)
BY RetiledTotal DEF Retiling, Quiet, Totals, Apart

LEMMA Ending ==
  ASSUME NEW n \in Nat, NEW ar, NEW br, NEW a, NEW m, NEW c, Retiling(ar, br, n, a, m, c),
         ArenaInv(ar, n), Injective(br.free), Items(br.free) = FreeBlocksOf(br),
         br.totalFree = Available(br, n), br.hdr[n] # Junk, br.hdr[n].used
  PROVE  ArenaInv(br, n)
BY RetiledInv DEF Retiling

LEMMA MallocSplit ==
  ASSUME NEW n \in Nat, NEW ar, ArenaInv(ar, n), NEW bt \in 0 .. n - 1, bt \in FreeBlocksOf(ar),
         NEW k \in Nat, k > 0, k < ar.hdr[bt].size, NEW l \in 0 .. n - 1, l = bt + k
  PROVE  LET br == ar_malloc(ar, bt, k)
         IN  /\ ArenaInv(br, n) /\ br.hdr[bt].size = k
             /\ \A i : Used(br, i) <=> Used(ar, i) \/ i = bt
             /\ \A i : Used(ar, i) => br.hdr[i].size = ar.hdr[i].size
<1> DEFINE sz == ar.hdr[bt].size
           c == bt + sz
           last == ar.hdr[bt].last
           removed == n_remove(ar, bt)
           tag == Tag(k, TRUE, FALSE, last)
           taken == Make(removed, bt, tag)
           rest == Tag(sz - k, FALSE, FALSE, last)
           split == Make(taken, l, rest)
           unmarked == Unmark(split, bt)
           linked == n_insert(unmarked, l)
           br == ar_dec_free(linked, Bytes(k))
<1>1. /\ sz \in Nat /\ sz > 0 /\ bt \in 0 .. n - 1 /\ c \in 0 .. n /\ bt \in BlocksOf(ar)
      /\ c \in BlocksOf(ar) \cup {n}
      /\ ~ ar.hdr[bt].used /\ ~ ar.hdr[bt].prevfree /\ ar.hdr[bt] # Junk /\ last \in BOOLEAN
      /\ ar.hdr[c] # Junk /\ ar.hdr[c].used
      /\ c < n => c \in BlocksOf(ar) /\ ar.hdr[c].prevfree /\ ~ last
      /\ ar.hdr[c] \in Tags
  BY FreeBlock
<1>2. \A j \in bt + 1 .. c - 1 : j \in 0 .. n - 1 /\ ar.hdr[j] = Junk
  BY FreeBlock
<1>3. br = ar_malloc(ar, bt, k)
  BY Zenon DEF ar_malloc, Unmark
<1>4. Shaped(ar, n) /\ ar \in Shapes(n) /\ Injective(ar.free) /\ bt \in Items(ar.free)
      /\ Items(ar.free) = FreeBlocksOf(ar) /\ ar.totalFree = Available(ar, n)
  BY InvFacts DEF ArenaInv
<1> HIDE DEF sz, last
<1>5. sz - k \in Nat /\ sz - k > 0 /\ l < c /\ bt < l /\ k = l - bt /\ sz - k = c - l
  BY <1>1 DEF sz
<1>6. /\ tag \in Tags /\ tag # Junk /\ tag.size = k /\ tag.used /\ ~ tag.prevfree
  BY <1>1, TagTaken
<1>7. /\ rest \in Tags /\ rest # Junk /\ rest.size = sz - k /\ ~ rest.used
      /\ ~ rest.prevfree /\ rest.last = last
  BY <1>1, <1>5, TagLoose
<1>8. /\ removed \in Shapes(n) /\ Injective(removed.free)
      /\ Items(removed.free) = Items(ar.free) \ {bt}
      /\ removed.hdr = ar.hdr /\ removed.ftr = ar.ftr /\ removed.totalFree = ar.totalFree
  BY <1>4, RemoveAt
<1> HIDE DEF removed, tag, rest, c
<1>9. /\ taken \in Shapes(n)
      /\ \A i \in 0 .. n : taken.hdr[i] =
              IF i = bt THEN tag ELSE IF i > bt /\ i < l THEN Junk ELSE ar.hdr[i]
      /\ \A i \in 0 .. n - 1 : taken.ftr[i] =
              IF i = l - 1 THEN IF tag.used THEN Canary ELSE tag
              ELSE IF i >= bt /\ i < l THEN Junk ELSE ar.ftr[i]
      /\ taken.free = removed.free /\ taken.totalFree = removed.totalFree
  <2>1. Spans(n, bt, l, tag)
    BY <1>1, <1>5, <1>6 DEF Spans
  <2>2. Made(removed, taken, n, bt, l, tag)
    BY <1>8, <2>1, Making
  <2> QED BY <1>8, <2>2 DEF Made
<1> HIDE DEF taken
<1>10. /\ split \in Shapes(n)
       /\ \A i \in 0 .. n : split.hdr[i] =
              IF i = l THEN rest ELSE IF i > l /\ i < c THEN Junk ELSE taken.hdr[i]
       /\ \A i \in 0 .. n - 1 : split.ftr[i] =
              IF i = c - 1 THEN IF rest.used THEN Canary ELSE rest
              ELSE IF i >= l /\ i < c THEN Junk ELSE taken.ftr[i]
       /\ split.free = taken.free /\ split.totalFree = taken.totalFree
  <2>1. Spans(n, l, c, rest)
    BY <1>1, <1>5, <1>7 DEF Spans
  <2>2. Made(taken, split, n, l, c, rest)
    BY <1>9, <2>1, Making
  <2> QED BY <2>2 DEF Made
<1> HIDE DEF split
<1>11. split.hdr[bt] = tag /\ bt \in 0 .. n
  BY <1>1, <1>5, <1>9, <1>10
<1>12. /\ unmarked \in Shapes(n)
       /\ \A i \in 0 .. n : i # bt => unmarked.hdr[i] = split.hdr[i]
       /\ unmarked.hdr[bt] # Junk /\ unmarked.hdr[bt].prevfree = tag.prevfree
       /\ unmarked.hdr[bt].size = k /\ unmarked.hdr[bt].used = tag.used
       /\ ~ unmarked.hdr[bt].last
       /\ unmarked.ftr = split.ftr /\ unmarked.free = split.free
       /\ unmarked.totalFree = split.totalFree
  <2>1. split \in Shapes(n) /\ split.hdr[bt] # Junk
    BY <1>6, <1>10, <1>11
  <2>2. Retagged(split, unmarked, n, bt) /\ ~ unmarked.hdr[bt].last
        /\ unmarked.hdr[bt].prevfree = split.hdr[bt].prevfree
    BY <1>11, <2>1, Unmarking
  <2> HIDE DEF unmarked
  <2> QED BY <1>6, <1>11, <2>2 DEF Retagged
<1> HIDE DEF unmarked
<1>13. \A i \in BlocksOf(ar) : i # bt => i < bt \/ i >= c
  BY <1>1, <1>2, <1>4, OutsideBlocks
<1>14. l \notin Items(ar.free)
  <2>1. l \in bt + 1 .. c - 1
    BY <1>1, <1>5
  <2>2. ar.hdr[l] = Junk
    BY <1>2, <2>1
  <2>3. l \notin BlocksOf(ar)
    BY <1>4, <2>2, BlockIn
  <2> QED BY <1>4, <2>3 DEF FreeBlocksOf
<1>15. /\ linked \in Shapes(n) /\ Injective(linked.free)
       /\ Items(linked.free) = (Items(ar.free) \ {bt}) \cup {l}
       /\ linked.hdr = unmarked.hdr /\ linked.ftr = unmarked.ftr
       /\ linked.totalFree = unmarked.totalFree
  <2>1. /\ unmarked \in Shapes(n) /\ unmarked.free = removed.free
        /\ Injective(unmarked.free) /\ l \notin Items(unmarked.free)
    BY <1>8, <1>9, <1>10, <1>12, <1>14
  <2>2. Listed(unmarked, linked, n, l)
    BY <2>1, Inserting
  <2> QED BY <1>8, <2>1, <2>2 DEF Listed
<1> HIDE DEF linked
<1>16. /\ br \in Shapes(n) /\ br.totalFree = ar.totalFree - 16 * k
       /\ br.hdr = unmarked.hdr /\ br.ftr = split.ftr /\ br.free = linked.free
  <2>1. linked \in Shapes(n) /\ linked.totalFree = ar.totalFree
    BY <1>8, <1>9, <1>10, <1>12, <1>15
  <2>2. Bytes(k) = 16 * k
    BY DEF Bytes, ALIGNMENT
  <2>3. br = ar_dec_free(linked, 16 * k) /\ 16 * k \in Int
    BY <2>2
  <2> HIDE DEF br
  <2>4. Counted(linked, br, n, linked.totalFree - 16 * k)
    BY <2>1, <2>3, Counting
  <2> QED BY <1>12, <1>15, <2>1, <2>4 DEF Counted
<1> HIDE DEF br
<1>17. \A i \in 0 .. n : i < bt \/ i >= c => br.hdr[i] = ar.hdr[i]
  BY <1>1, <1>5, <1>9, <1>10, <1>12, <1>16
<1>18. \A i \in bt + 1 .. c - 1 : i # l => br.hdr[i] = Junk
  <2> SUFFICES ASSUME NEW i \in bt + 1 .. c - 1, i # l PROVE br.hdr[i] = Junk
    OBVIOUS
  <2>1. i \in 0 .. n /\ i > bt /\ i < c /\ i # bt /\ bt \in Int /\ c \in Int
    BY <1>1
  <2>2. br.hdr[i] = split.hdr[i]
    BY <1>12, <1>16, <2>1
  <2>3. CASE i > l
    BY <1>10, <2>1, <2>2, <2>3
  <2>4. CASE i < l
    BY <1>9, <1>10, <2>1, <2>2, <2>4
  <2> QED BY <2>1, <2>3, <2>4
<1>19. \A i \in 0 .. n - 1 : i < bt \/ i >= c => br.ftr[i] = ar.ftr[i]
  BY <1>1, <1>5, <1>9, <1>10, <1>16
<1>20. br.ftr[l - 1] = Canary
  <2>1. l - 1 \in 0 .. n - 1 /\ l - 1 < l /\ l - 1 # c - 1
    BY <1>1, <1>5
  <2> QED BY <1>1, <1>5, <1>6, <1>9, <1>10, <1>16, <2>1
<1>21. br.ftr[c - 1] = rest
  <2>1. c - 1 \in 0 .. n - 1
    BY <1>1, <1>5
  <2> QED BY <1>7, <1>10, <1>16, <2>1
<1>22. br.hdr[l] = rest
  BY <1>1, <1>5, <1>10, <1>12, <1>16
<1>23. br.hdr[c] = ar.hdr[c]
  BY <1>1, <1>17
<1>24. /\ br.hdr[bt] # Junk /\ br.hdr[bt].size = k /\ br.hdr[bt].used
       /\ ~ br.hdr[bt].prevfree /\ ~ br.hdr[bt].last
  BY <1>6, <1>12, <1>16
<1>25. TwoBlocks(ar, br, n, bt, l, c)
  <2>1. \A i \in 0 .. n : i < bt \/ i > c => br.hdr[i] = ar.hdr[i]
    BY <1>1, <1>17
  <2>2. br.hdr[l] # Junk /\ br.hdr[l].size = c - l /\ ~ br.hdr[l].prevfree
        /\ ~ br.hdr[l].used /\ br.hdr[l].last = last
    BY <1>5, <1>7, <1>22
  <2>3. br.hdr[bt].size = l - bt
    BY <1>5, <1>24
  <2> QED BY <1>1, <1>18, <1>19, <1>20, <1>21, <1>22, <1>23, <1>24, <2>1, <2>2, <2>3
          DEF TwoBlocks
<1>26. bt + k <= c /\ bt + k < c /\ bt + k = l
  <2>1. l < c /\ l \in Int /\ c \in Int
    BY <1>1, <1>5
  <2> QED BY <2>1
<1>38. Retiling(ar, br, n, bt, k, c)
  <2>1. Retiling(ar, br, n, bt, l - bt, c)
    BY <1>1, <1>4, <1>5, <1>16, <1>25, Two
  <2> QED BY <1>5, <2>1
<1>27. Kept(ar, br, n, bt, k, c)
  BY <1>38, Keeping
<1>28. ~ (bt < bt) /\ ~ (bt >= c) /\ ~ rest.used
  BY <1>1, <1>5, <1>7
<1>29. \A i : i \in FreeBlocksOf(ar) => i \in BlocksOf(ar)
  BY DEF FreeBlocksOf
<1>30. FreeBlocksOf(br) = (FreeBlocksOf(ar) \ {bt}) \cup {l}
  BY <1>13, <1>22, <1>24, <1>26, <1>27, <1>28, <1>29, Zenon DEF Kept
<1>31. Items(br.free) = FreeBlocksOf(br) /\ Injective(br.free)
  BY <1>4, <1>15, <1>16, <1>30
<1>32. br.totalFree = Available(br, n)
  <2>1. ASSUME NEW i \in bt .. c - 1, i # bt, i # l
        PROVE  Weight(ar, i) = 0 /\ Weight(br, i) = 0
    <3>1. i \in bt + 1 .. c - 1 /\ i # bt + k
      BY <1>1, <1>26, <2>1
    <3>2. i \in 0 .. n - 1 /\ ar.hdr[i] = Junk
      BY <1>2, <3>1
    <3>3. Weight(ar, i) = 0
      BY <1>4, <3>2, WeightIs
    <3> QED BY <1>27, <3>1, <3>3 DEF Kept
  <2>2. bt # l
    BY <1>1, <1>5
  <2>3. /\ Available(br, n) = Available(ar, n) + (Weight(br, bt) - Weight(ar, bt))
                                               + (Weight(br, l) - Weight(ar, l))
        /\ Available(ar, n) \in Int
    <3>1. Quiet(ar, br, bt, c, bt, l)
      BY <2>1 DEF Quiet
    <3>2. Apart(n, bt, l)
      BY <2>2 DEF Apart
    <3>3. Totals(ar, br, n, bt, l)
      BY <1>38, <3>1, <3>2, Totalling
    <3> QED BY <3>3, Zenon DEF Totals
  <2>4. Weight(ar, bt) = 16 * sz - 8
    BY <1>1, <1>4, WeightIs DEF sz
  <2>5. Weight(br, bt) = 0
    BY <1>16, <1>24, WeightIs
  <2>6. Weight(ar, l) = 0
    <3>1. l \in bt + 1 .. c - 1
      BY <1>1, <1>5
    <3>2. ar.hdr[l] = Junk
      BY <1>2, <3>1
    <3> QED BY <1>4, <3>2, WeightIs
  <2>7. Weight(br, l) = 16 * (sz - k) - 8
    <3>1. br.hdr[l] # Junk /\ ~ br.hdr[l].used /\ br.hdr[l].size = sz - k
      BY <1>7, <1>22
    <3> QED BY <1>16, <3>1, WeightIs
  <2> QED BY <1>1, <1>4, <1>16, <2>3, <2>4, <2>5, <2>6, <2>7
<1>33. br.hdr[n] # Junk /\ br.hdr[n].used
  <2>1. ar.hdr[n] # Junk /\ ar.hdr[n].used /\ n \in 0 .. n
    BY InvFacts
  <2> QED BY <1>1, <1>17, <2>1
<1>34. ArenaInv(br, n)
  BY <1>31, <1>32, <1>33, <1>38, Ending
<1>35. \A i : Used(ar, i) => i \in BlocksOf(ar) /\ i # bt
  BY <1>1 DEF Used
<1>36. \A i : Used(br, i) <=> Used(ar, i) \/ i = bt
  <2>1. ~ br.hdr[bt + k].used
    BY <1>7, <1>22, <1>26
  <2> QED BY <1>13, <1>24, <1>27, <1>28, <1>35, <2>1, Zenon DEF Kept
<1>37. \A i : Used(ar, i) => br.hdr[i].size = ar.hdr[i].size
  BY <1>13, <1>27, <1>35, Zenon DEF Kept
<1> QED BY <1>3, <1>24, <1>34, <1>36, <1>37

(* The effects of the operations on the used blocks                           *)
SameSizes(ar, br, except) == \A i : Used(ar, i) /\ i # except => br.hdr[i].size = ar.hdr[i].size

Taken(ar, br, n, bt, k) ==
  /\ ArenaInv(br, n) /\ br.hdr[bt].size = k
  /\ \A i : Used(br, i) <=> Used(ar, i) \/ i = bt
  /\ \A i : Used(ar, i) => br.hdr[i].size = ar.hdr[i].size

Given(ar, br, n, bt) ==
  /\ ArenaInv(br, n)
  /\ \A i : Used(br, i) <=> Used(ar, i) /\ i # bt
  /\ \A i : Used(br, i) => br.hdr[i].size = ar.hdr[i].size

Resized(ar, br, n, bt, k) ==
  /\ ArenaInv(br, n) /\ br.hdr[bt].size = k
  /\ \A i : Used(br, i) <=> Used(ar, i)
  /\ \A i : Used(ar, i) /\ i # bt => br.hdr[i].size = ar.hdr[i].size

LEMMA Mallocs ==
  ASSUME NEW n \in Nat, NEW ar, ArenaInv(ar, n), NEW bt, bt \in FreeBlocksOf(ar),
         NEW k, k \in Nat /\ k > 0 /\ k <= ar.hdr[bt].size
  PROVE  Taken(ar, ar_malloc(ar, bt, k), n, bt, k)
<1>1. Shaped(ar, n) /\ bt \in BlocksOf(ar)
  BY InvFacts DEF FreeBlocksOf
<1>2. /\ bt \in 0 .. n - 1 /\ ar.hdr[bt].size \in Nat
      /\ bt + ar.hdr[bt].size \in 0 .. n
  BY <1>1, BlockFacts
<1>3. CASE k = ar.hdr[bt].size
  <2>1. \A x \in 0 .. n - 1, y \in Nat, z \in 0 .. n :
          x \in FreeBlocksOf(ar) /\ y = ar.hdr[x].size /\ z = x + y =>
            Taken(ar, ar_malloc(ar, x, y), n, x, y)
    BY MallocExact DEF Taken
  <2> QED BY <1>2, <1>3, <2>1
<1>4. CASE k < ar.hdr[bt].size
  <2>1. \A x \in 0 .. n - 1, y \in Nat, z \in 0 .. n - 1 :
          x \in FreeBlocksOf(ar) /\ y > 0 /\ y < ar.hdr[x].size /\ z = x + y =>
            Taken(ar, ar_malloc(ar, x, y), n, x, y)
    BY MallocSplit DEF Taken
  <2>2. bt + k \in 0 .. n - 1
    BY <1>2, <1>4
  <2> QED BY <1>2, <1>4, <2>1, <2>2
<1> QED BY <1>2, <1>3, <1>4

(* A used block of an arena, its end c and what is behind it                  *)
LEMMA UsedBlock ==
  ASSUME NEW n \in Nat, NEW ar, ArenaInv(ar, n), NEW a \in 0 .. n - 1, Used(ar, a)
  PROVE  LET k == ar.hdr[a].size
             c == a + k
         IN  /\ k \in Nat /\ k > 0 /\ c \in 0 .. n /\ a < c /\ a \in BlocksOf(ar)
             /\ c \in BlocksOf(ar) \cup {n}
             /\ ar.hdr[a] \in Tags /\ ar.hdr[a] # Junk /\ ar.hdr[a].used
             /\ ar.hdr[a].prevfree \in BOOLEAN /\ ar.hdr[a].last \in BOOLEAN
             /\ \A j \in a + 1 .. c - 1 : j \in 0 .. n - 1 /\ ar.hdr[j] = Junk
             /\ ar.hdr[c] # Junk /\ ar.hdr[c] \in Tags
             /\ ~ ar.hdr[c].used => c < n
             /\ c < n => c \in BlocksOf(ar) /\ ~ ar.hdr[c].prevfree /\ ~ ar.hdr[a].last
             /\ ar.ftr[c - 1] = Canary
<1> DEFINE k == ar.hdr[a].size
           c == a + k
<1>1. Shaped(ar, n) /\ ar \in Shapes(n) /\ ar.hdr[n] # Junk /\ ar.hdr[n].used
  BY InvFacts
<1>2. a \in BlocksOf(ar) /\ ar.hdr[a].used
  BY DEF Used
<1>3. /\ ar.hdr[a] \in Tags /\ ar.hdr[a] # Junk
      /\ ar.hdr[a].size \in Nat /\ ar.hdr[a].size > 0
      /\ ar.hdr[a].prevfree \in BOOLEAN
      /\ ar.hdr[a].last \in BOOLEAN
      /\ a + ar.hdr[a].size \in BlocksOf(ar) \cup {n}
      /\ a + ar.hdr[a].size <= n
  BY <1>1, <1>2, BlockFacts
<1>4. \A j \in a + 1 .. a + ar.hdr[a].size - 1 : j \in 0 .. n - 1 /\ ar.hdr[j] = Junk
  BY <1>1, <1>2, BlockFacts
<1>5. c \in BlocksOf(ar) => c \in 0 .. n - 1 /\ ar.hdr[c] # Junk
  BY <1>1, BlockIn
<1>6. c <= n /\ c \in 0 .. n /\ a < c /\ c \in Int
  BY <1>3
<1>7. ar.hdr[c] \in Tags \cup {Junk}
  BY <1>1, <1>6 DEF Shapes
<1>8. bt_next(ar, a) = c
  BY DEF bt_next
<1>9. BlockTagged(ar, a, n)
  BY <1>1, <1>2, BlockFacts
<1>10. c \in BlocksOf(ar) \cup {n}
  BY <1>3
<1> HIDE DEF c
<1>11. /\ ar.ftr[c - 1] = IF ar.hdr[a].used THEN Canary ELSE ar.hdr[a]
       /\ c # n => ar.hdr[c].prevfree = ~ar.hdr[a].used /\ ~ ar.hdr[a].last
  BY <1>8, <1>9 DEF BlockTagged
<1>12. ar.ftr[c - 1] = Canary
  BY <1>2, <1>11
<1>13. c < n => c \in BlocksOf(ar)
  BY <1>6, <1>10
<1>14. c < n => ~ ar.hdr[c].prevfree /\ ~ ar.hdr[a].last
  <2> SUFFICES ASSUME c < n PROVE ~ ar.hdr[c].prevfree /\ ~ ar.hdr[a].last
    OBVIOUS
  <2>1. c # n
    BY <1>6
  <2>2. (ar.hdr[c].prevfree = ~ar.hdr[a].used) /\ ~ ar.hdr[a].last
    BY <1>11, <2>1
  <2> QED BY <1>2, <2>2
<1>15. ar.hdr[c] # Junk /\ ar.hdr[c] \in Tags
  BY <1>1, <1>5, <1>7, <1>10
<1>16. ~ ar.hdr[c].used => c < n
  BY <1>1, <1>6
<1>17. \A j \in a + 1 .. c - 1 : j \in 0 .. n - 1 /\ ar.hdr[j] = Junk
  BY <1>3, <1>4 DEF c
<1> QED BY <1>2, <1>3, <1>6, <1>10, <1>12, <1>13, <1>14, <1>15, <1>16, <1>17 DEF c

(* The tag of a free block, and of a used one                                 *)
FreeTag(t, s, p, l) ==
  t \in Tags /\ t # Junk /\ t.size = s /\ ~ t.used /\ t.prevfree = p /\ t.last = l
LEMMA FreeTagIs ==
  ASSUME NEW s, NEW p, NEW l, s \in Nat, p \in BOOLEAN, l \in BOOLEAN
  PROVE FreeTag(Tag(s, FALSE, p, l), s, p, l)
<1>1. Tag(s, FALSE, p, l) \in Tags
  BY Zenon DEF Tag, Tags
<1>2. Tag(s, FALSE, p, l).size = s /\ Tag(s, FALSE, p, l).prevfree = p /\ Tag(s, FALSE, p, l).last = l
  BY Zenon DEF Tag
<1>3. ~ Tag(s, FALSE, p, l).used
  BY Zenon DEF Tag
<1> QED BY <1>1, <1>2, <1>3, MemoryAssumption, Zenon DEF FreeTag

(* A free block from a to c, made of a used block at a and of what follows it *)
Merged(ar, br, n, a, c) ==
  /\ br \in Shapes(n) /\ br.totalFree = ar.totalFree
  /\ \A i \in 0 .. n : i < a \/ i > c => br.hdr[i] = ar.hdr[i]
  /\ \A i \in a + 1 .. c - 1 : br.hdr[i] = Junk
  /\ \A i \in 0 .. n - 1 : i < a \/ i >= c => br.ftr[i] = ar.ftr[i]
  /\ br.hdr[a] # Junk /\ br.hdr[a].size = c - a /\ ~ br.hdr[a].used
  /\ br.hdr[a].prevfree <=> ar.hdr[a].prevfree
  /\ br.ftr[c - 1] = br.hdr[a]
  /\ br.hdr[c] # Junk /\ br.hdr[c].size = ar.hdr[c].size /\ br.hdr[c].used
  /\ br.hdr[c].used = ar.hdr[c].used /\ ar.hdr[c].used
  /\ c < n => br.hdr[c].last = ar.hdr[c].last /\ br.hdr[c].prevfree /\ ~ br.hdr[a].last

(* The free blocks it swallowed                                               *)
Swallowed(ar, br, n, a, c, gone) ==
  /\ Injective(br.free) /\ Items(br.free) = FreeBlocksOf(ar) \ gone
  /\ gone \subseteq a + 1 .. c - 1
  /\ \A i \in BlocksOf(ar) : i # a /\ i \notin gone => i < a \/ i >= c

Freed(ar, bt) == Make(ar, bt, [ar.hdr[bt] EXCEPT !.used = FALSE])

LEMMA FreedTag ==
  ASSUME NEW tag \in Tags
  PROVE  LET t == [tag EXCEPT !.used = FALSE]
         IN  /\ t \in Tags /\ t # Junk /\ t.size = tag.size /\ ~ t.used
             /\ t.prevfree = tag.prevfree /\ t.last = tag.last
<1> DEFINE t == [tag EXCEPT !.used = FALSE]
<1>1. t \in Tags
  BY DEF Tags
<1>2. ~ t.used
  BY Zenon DEF Tags
<1>3. t.size = tag.size /\ t.prevfree = tag.prevfree /\ t.last = tag.last
  BY DEF Tags
<1> QED BY <1>1, <1>2, <1>3, MemoryAssumption

LEMMA FreeAlone ==
  ASSUME NEW n \in Nat, NEW ar, ArenaInv(ar, n), NEW bt \in 0 .. n - 1, Used(ar, bt),
         NEW c \in 0 .. n, c = bt + ar.hdr[bt].size, ar.hdr[c].used
  PROVE  LET br == SetPrevfree(Freed(ar, bt), c, TRUE)
         IN  Merged(ar, br, n, bt, c) /\ Swallowed(ar, br, n, bt, c, {})
<1> DEFINE t == [ar.hdr[bt] EXCEPT !.used = FALSE]
           freed == Freed(ar, bt)
           br == SetPrevfree(freed, c, TRUE)
<1>1. /\ bt < c /\ bt \in BlocksOf(ar) /\ ar.hdr[bt] \in Tags
      /\ ar.hdr[c] # Junk /\ (c < n => ~ ar.hdr[bt].last) /\ ar.hdr[bt].size = c - bt
  BY UsedBlock
<1>2. \A j \in bt + 1 .. c - 1 : j \in 0 .. n - 1 /\ ar.hdr[j] = Junk
  BY UsedBlock
<1>3. ar \in Shapes(n) /\ Injective(ar.free) /\ Items(ar.free) = FreeBlocksOf(ar)
  BY InvFacts
<1>4. /\ t \in Tags /\ t # Junk /\ t.size = c - bt /\ ~ t.used
      /\ t.prevfree = ar.hdr[bt].prevfree /\ t.last = ar.hdr[bt].last
  BY <1>1, FreedTag
<1> HIDE DEF t
<1>5. Spans(n, bt, c, t)
  BY <1>1, <1>4 DEF Spans
<1>6. Made(ar, freed, n, bt, c, t)
  BY <1>3, <1>5, Making DEF Freed, t
<1> HIDE DEF freed
<1>7. freed \in Shapes(n) /\ freed.hdr[c] = ar.hdr[c] /\ freed.hdr[bt] = t
  BY <1>1, <1>6 DEF Made
<1>8. /\ Retagged(freed, br, n, c) /\ br.hdr[c].prevfree
      /\ br.hdr[c].last = freed.hdr[c].last
  BY <1>1, <1>7, Flagging
<1> HIDE DEF br
<1>9. br.hdr[bt] = t
  BY <1>1, <1>7, <1>8 DEF Retagged
<1>10. Merged(ar, br, n, bt, c)
  <2>1. br \in Shapes(n) /\ br.totalFree = ar.totalFree
    BY <1>6, <1>8 DEF Made, Retagged
  <2>2. \A i \in 0 .. n : i < bt \/ i > c => br.hdr[i] = ar.hdr[i]
    <3> SUFFICES ASSUME NEW i \in 0 .. n, i < bt \/ i > c PROVE br.hdr[i] = ar.hdr[i]
      OBVIOUS
    <3>1. i # c /\ i # bt /\ ~ (i > bt /\ i < c)
      BY <1>1
    <3> QED BY <1>6, <1>8, <3>1 DEF Made, Retagged
  <2>3. \A i \in bt + 1 .. c - 1 : br.hdr[i] = Junk
    <3> SUFFICES ASSUME NEW i \in bt + 1 .. c - 1 PROVE br.hdr[i] = Junk
      OBVIOUS
    <3>1. i \in 0 .. n /\ i # c /\ i > bt /\ i < c /\ i # bt
      BY <1>1
    <3> QED BY <1>6, <1>8, <3>1 DEF Made, Retagged
  <2>4. \A i \in 0 .. n - 1 : i < bt \/ i >= c => br.ftr[i] = ar.ftr[i]
    <3> SUFFICES ASSUME NEW i \in 0 .. n - 1, i < bt \/ i >= c PROVE br.ftr[i] = ar.ftr[i]
      OBVIOUS
    <3>1. i # c - 1 /\ ~ (i >= bt /\ i < c)
      BY <1>1
    <3> QED BY <1>6, <1>8, <3>1 DEF Made, Retagged
  <2>5. br.ftr[c - 1] = t
    <3>1. c - 1 \in 0 .. n - 1
      BY <1>1
    <3> QED BY <1>4, <1>6, <1>8, <3>1 DEF Made, Retagged
  <2>6. /\ br.hdr[c] # Junk /\ br.hdr[c].size = ar.hdr[c].size
        /\ br.hdr[c].used = ar.hdr[c].used /\ br.hdr[c].last = ar.hdr[c].last
    BY <1>7, <1>8 DEF Retagged
  <2> QED BY <1>1, <1>4, <1>8, <1>9, <2>1, <2>2, <2>3, <2>4, <2>5, <2>6 DEF Merged
<1>11. br.free = ar.free
  BY <1>6, <1>8 DEF Made, Retagged
<1>12. \A i \in BlocksOf(ar) : i # bt => i < bt \/ i >= c
  BY <1>1, <1>2, <1>3, OutsideBlocks
<1>13. Swallowed(ar, br, n, bt, c, {})
  BY <1>3, <1>11, <1>12 DEF Swallowed
<1> QED BY <1>10, <1>13 DEF br, freed

LEMMA FreeJoined ==
  ASSUME NEW n \in Nat, NEW ar, ArenaInv(ar, n), NEW bt \in 0 .. n - 1, Used(ar, bt),
         NEW next \in 0 .. n - 1, next = bt + ar.hdr[bt].size, ~ ar.hdr[next].used,
         NEW c \in 0 .. n, c = next + ar.hdr[next].size
  PROVE  LET br == Make(n_remove(Freed(ar, bt), next), bt,
                        Tag(ar.hdr[bt].size + ar.hdr[next].size, FALSE,
                            ar.hdr[bt].prevfree, ar.hdr[next].last))
         IN  Merged(ar, br, n, bt, c) /\ Swallowed(ar, br, n, bt, c, {next})
<1> DEFINE t == [ar.hdr[bt] EXCEPT !.used = FALSE]
           freed == Freed(ar, bt)
           alone == n_remove(freed, next)
           s == ar.hdr[bt].size + ar.hdr[next].size
           u == Tag(s, FALSE, ar.hdr[bt].prevfree, ar.hdr[next].last)
           br == Make(alone, bt, u)
<1>1. /\ bt < next /\ bt \in BlocksOf(ar) /\ ar.hdr[bt] \in Tags
      /\ ar.hdr[next] # Junk /\ ar.hdr[bt].size = next - bt
      /\ ar.hdr[bt].prevfree \in BOOLEAN
  BY UsedBlock
<1>2. \A j \in bt + 1 .. next - 1 : j \in 0 .. n - 1 /\ ar.hdr[j] = Junk
  BY UsedBlock
<1>3. ar \in Shapes(n) /\ Injective(ar.free) /\ Items(ar.free) = FreeBlocksOf(ar)
  BY InvFacts
<1>4. next \in FreeBlocksOf(ar)
  BY <1>1, <1>3, BlockIn DEF FreeBlocksOf
<1>5. /\ next < c /\ ar.hdr[next].last \in BOOLEAN /\ ar.hdr[next].size = c - next
      /\ ar.hdr[c] # Junk /\ ar.hdr[c].used
      /\ (c < n => ar.hdr[c].prevfree /\ ~ ar.hdr[next].last)
  <2> DEFINE d == next + ar.hdr[next].size
  <2>1. /\ ar.hdr[next].size \in Nat /\ ar.hdr[next].size > 0 /\ ar.hdr[next].last \in BOOLEAN
        /\ ar.hdr[d] # Junk /\ ar.hdr[d].used
        /\ (d < n => ar.hdr[d].prevfree /\ ~ ar.hdr[next].last)
    BY <1>4, FreeBlock, SMTT(30)
  <2>2. d = c
    OBVIOUS
  <2> HIDE DEF d
  <2>3. c = next + ar.hdr[next].size
    OBVIOUS
  <2> QED BY <2>1, <2>2, <2>3
<1>6. \A j \in next + 1 .. c - 1 : j \in 0 .. n - 1 /\ ar.hdr[j] = Junk
  <2>1. \A j \in next + 1 .. (next + ar.hdr[next].size) - 1 : j \in 0 .. n - 1 /\ ar.hdr[j] = Junk
    BY <1>4, FreeBlock, SMTT(30)
  <2>2. next + ar.hdr[next].size = c
    OBVIOUS
  <2> QED BY <2>1, <2>2
<1>7. t \in Tags /\ t.size = next - bt
  BY <1>1, FreedTag
<1> HIDE DEF t
<1>8. Spans(n, bt, next, t)
  BY <1>1, <1>7 DEF Spans
<1>9. Made(ar, freed, n, bt, next, t)
  BY <1>3, <1>8, Making DEF Freed, t
<1> HIDE DEF freed
<1>10. /\ freed \in Shapes(n) /\ Injective(freed.free) /\ freed.free = ar.free
       /\ freed.totalFree = ar.totalFree
  BY <1>3, <1>9 DEF Made
<1>11. Delisted(freed, alone, n, next)
  BY <1>3, <1>4, <1>10, Removing
<1> HIDE DEF alone
<1>12. /\ ar.hdr[bt].size + ar.hdr[next].size = c - bt
       /\ c - bt \in Nat /\ bt < c
  BY <1>1, <1>5
<1>13. /\ u \in Tags /\ u # Junk /\ u.size = c - bt /\ ~ u.used
       /\ u.prevfree = ar.hdr[bt].prevfree /\ u.last = ar.hdr[next].last
  <2>1. s = c - bt /\ s \in Nat
    BY <1>12
  <2> HIDE DEF s
  <2>2. ar.hdr[bt].prevfree \in BOOLEAN /\ ar.hdr[next].last \in BOOLEAN /\ s \in Nat
    BY <1>1, <1>5, <2>1
  <2>3. u = Tag(s, FALSE, ar.hdr[bt].prevfree, ar.hdr[next].last)
    OBVIOUS
  <2> HIDE DEF u, br
  <2>4. FreeTag(u, s, ar.hdr[bt].prevfree, ar.hdr[next].last)
    BY <2>2, <2>3, FreeTagIs, Zenon
  <2>5. /\ u \in Tags /\ u # Junk /\ u.size = s /\ ~ u.used
        /\ u.prevfree = ar.hdr[bt].prevfree /\ u.last = ar.hdr[next].last
    BY <2>4, Zenon DEF FreeTag
  <2> QED BY <2>1, <2>5, Zenon
<1> HIDE DEF u
<1>14. Spans(n, bt, c, u)
  BY <1>12, <1>13 DEF Spans
<1>15. alone \in Shapes(n)
  BY <1>11 DEF Delisted
<1>16. Made(alone, br, n, bt, c, u)
  BY <1>14, <1>15, Making
<1> HIDE DEF br
<1>17. br.hdr[bt] = u /\ bt \in 0 .. n
  BY <1>16 DEF Made
<1>18. Merged(ar, br, n, bt, c)
  <2>1. br \in Shapes(n) /\ br.totalFree = ar.totalFree
    BY <1>10, <1>11, <1>16 DEF Made, Delisted
  <2>2. \A i \in 0 .. n : i < bt \/ i >= c => br.hdr[i] = ar.hdr[i]
    <3> SUFFICES ASSUME NEW i \in 0 .. n, i < bt \/ i >= c PROVE br.hdr[i] = ar.hdr[i]
      OBVIOUS
    <3>1. i # bt /\ ~ (i > bt /\ i < c) /\ ~ (i > bt /\ i < next)
      BY <1>1, <1>5, <1>12
    <3>2. br.hdr[i] = alone.hdr[i] /\ alone.hdr[i] = freed.hdr[i]
      BY <1>11, <1>16, <3>1 DEF Made, Delisted
    <3>3. freed.hdr[i] = ar.hdr[i]
      BY <1>9, <3>1 DEF Made
    <3> QED BY <3>2, <3>3
  <2>3. \A i \in bt + 1 .. c - 1 : br.hdr[i] = Junk
    <3> SUFFICES ASSUME NEW i \in bt + 1 .. c - 1 PROVE br.hdr[i] = Junk
      OBVIOUS
    <3>1. i \in 0 .. n /\ i # c /\ i > bt /\ i < c /\ i # bt
      BY <1>12
    <3> QED BY <1>16, <3>1 DEF Made
  <2>4. \A i \in 0 .. n - 1 : i < bt \/ i >= c => br.ftr[i] = ar.ftr[i]
    <3> SUFFICES ASSUME NEW i \in 0 .. n - 1, i < bt \/ i >= c PROVE br.ftr[i] = ar.ftr[i]
      OBVIOUS
    <3>1. i # c - 1 /\ ~ (i >= bt /\ i < c) /\ ~ (i >= bt /\ i < next) /\ i # next - 1
      BY <1>1, <1>5, <1>12
    <3>2. br.ftr[i] = alone.ftr[i] /\ alone.ftr[i] = freed.ftr[i]
      BY <1>11, <1>16, <3>1 DEF Made, Delisted
    <3>3. freed.ftr[i] = ar.ftr[i]
      BY <1>9, <3>1 DEF Made
    <3> QED BY <3>2, <3>3
  <2>5. br.ftr[c - 1] = u
    <3>1. c - 1 \in 0 .. n - 1
      BY <1>12
    <3> QED BY <1>13, <1>16, <3>1 DEF Made
  <2>6. br.hdr[c] = ar.hdr[c]
    BY <1>12, <2>2
  <2>7. \A i \in 0 .. n : i < bt \/ i > c => br.hdr[i] = ar.hdr[i]
    BY <2>2
  <2> QED BY <1>5, <1>13, <1>17, <2>1, <2>7, <2>3, <2>4, <2>5, <2>6 DEF Merged
<1>19. Swallowed(ar, br, n, bt, c, {next})
  <2>1. Injective(br.free) /\ Items(br.free) = FreeBlocksOf(ar) \ {next}
    BY <1>3, <1>10, <1>11, <1>16 DEF Made, Delisted
  <2>2. {next} \subseteq bt + 1 .. c - 1
    BY <1>1, <1>5
  <2>3. \A i \in BlocksOf(ar) : i # bt => i < bt \/ i >= next
    BY <1>1, <1>2, <1>3, OutsideBlocks
  <2>4. \A i \in BlocksOf(ar) : i # next => i < next \/ i >= c
    BY <1>3, <1>6, OutsideBlocks
  <2>5. \A i \in BlocksOf(ar) : i \in 0 .. n - 1
    BY <1>3, BlockIn
  <2>6. \A i \in BlocksOf(ar) : i # bt /\ i \notin {next} => i < bt \/ i >= c
    BY <2>3, <2>4, <2>5
  <2> QED BY <2>1, <2>2, <2>6 DEF Swallowed
<1> QED BY <1>18, <1>19 DEF br, alone, freed, u

(* One free block from a to c takes the place of the used block at bt and of  *)
(* the free blocks S beside it                                                *)
Pooled(ar, br, n, a, c, bt, S) ==
  /\ Retiling(ar, br, n, a, c - a, c) /\ ArenaInv(ar, n) /\ ~ br.hdr[a].used
  /\ Used(ar, bt) /\ S \subseteq FreeBlocksOf(ar)
  /\ \A i \in BlocksOf(ar) : i = bt \/ i \in S <=> ~ (i < a \/ i >= c)

LEMMA PooledBlocks ==
  ASSUME NEW n \in Nat, NEW ar, NEW br, NEW a, NEW c, NEW bt, NEW S,
         Pooled(ar, br, n, a, c, bt, S)
  PROVE  /\ ar \in Shapes(n) /\ br \in Shapes(n) /\ a \in 0 .. n - 1 /\ c \in 0 .. n /\ a < c
         /\ FreeBlocksOf(br) = (FreeBlocksOf(ar) \ S) \cup {a}
         /\ \A i : Used(br, i) <=> Used(ar, i) /\ i # bt
         /\ \A i : Used(br, i) => br.hdr[i].size = ar.hdr[i].size
         /\ \A i \in 0 .. n - 1 : i < a \/ i >= c => Weight(br, i) = Weight(ar, i)
         /\ \A i \in 0 .. n - 1 : i # a /\ i \notin S /\ ~ (i < a \/ i >= c) =>
              Weight(br, i) = 0 /\ Weight(ar, i) = 0
         /\ \A i \in 0 .. n - 1 : i # a /\ ~ (i < a \/ i >= c) => Weight(br, i) = 0
<1> DEFINE m == c - a
<1>1. Retiling(ar, br, n, a, m, c) /\ ArenaInv(ar, n)
  BY DEF Pooled
<1>2. /\ Shaped(ar, n) /\ br \in Shapes(n) /\ ar \in Shapes(n)
      /\ a \in 0 .. n - 1 /\ a \in BlocksOf(ar) /\ c \in 0 .. n
      /\ m \in Nat /\ m > 0 /\ a + m <= c
  BY <1>1 DEF Retiling, Shaped
<1>3. a < c /\ ~ (a + m < c)
  BY <1>2
<1>4. Kept(ar, br, n, a, m, c)
  BY <1>1, Keeping
<1> HIDE DEF m
<1>5. ~ br.hdr[a].used /\ Used(ar, bt) /\ S \subseteq FreeBlocksOf(ar)
  BY DEF Pooled
<1>6. \A i \in BlocksOf(ar) : i = bt \/ i \in S <=> ~ (i < a \/ i >= c)
  BY DEF Pooled
<1>7. \A i : i \in FreeBlocksOf(ar) <=> i \in BlocksOf(ar) /\ ~ ar.hdr[i].used
  BY DEF FreeBlocksOf
<1>8. \A i : Used(ar, i) <=> i \in BlocksOf(ar) /\ ar.hdr[i].used
  BY DEF Used
<1>9. \A i : i \in FreeBlocksOf(br) <=> (i \in FreeBlocksOf(ar) /\ i \notin S) \/ i = a
  <2>1. \A i : i \in FreeBlocksOf(br) <=> (i \in FreeBlocksOf(ar) /\ (i < a \/ i >= c)) \/ i = a
    BY <1>3, <1>4, <1>5, Zenon DEF Kept
  <2>2. \A i : i \in FreeBlocksOf(ar) => (i \notin S <=> (i < a \/ i >= c))
    BY <1>5, <1>6, <1>7, <1>8, Zenon
  <2> QED BY <2>1, <2>2, Zenon
<1>10. FreeBlocksOf(br) = (FreeBlocksOf(ar) \ S) \cup {a}
  BY <1>9, Zenon
<1>11. \A i : Used(br, i) <=> Used(ar, i) /\ (i < a \/ i >= c)
  BY <1>3, <1>4, <1>5, Zenon DEF Kept
<1>12. \A i : Used(br, i) <=> Used(ar, i) /\ i # bt
  <2>1. \A i : Used(ar, i) => (i # bt <=> (i < a \/ i >= c))
    BY <1>5, <1>6, <1>7, <1>8, Zenon
  <2> QED BY <1>11, <2>1, Zenon
<1>13. \A i : Used(br, i) => br.hdr[i].size = ar.hdr[i].size
  BY <1>4, <1>8, <1>11, Zenon DEF Kept
<1>14. \A i \in 0 .. n - 1 : i < a \/ i >= c => Weight(br, i) = Weight(ar, i)
  BY <1>4, Zenon DEF Kept
<1>15. \A i \in 0 .. n - 1 : i # a /\ ~ (i < a \/ i >= c) => Weight(br, i) = 0
  <2>1. \A i \in 0 .. n - 1 : i # a /\ ~ (i < a \/ i >= c) => i \in a + 1 .. c - 1 /\ i # a + m
    BY <1>2, <1>3
  <2> QED BY <1>4, <2>1, Zenon DEF Kept
<1>16. \A i \in 0 .. n - 1 : i \notin S /\ ~ (i < a \/ i >= c) => Weight(ar, i) = 0
  <2> SUFFICES ASSUME NEW i \in 0 .. n - 1, i \notin S, ~ (i < a \/ i >= c)
               PROVE  Weight(ar, i) = 0
    OBVIOUS
  <2>1. CASE i \in BlocksOf(ar)
    <3>1. ar.hdr[i] # Junk /\ ar.hdr[i].used
      BY <1>2, <1>5, <1>6, <1>8, <2>1, BlockIn
    <3> QED BY <1>2, <3>1, WeightIs
  <2>2. CASE i \notin BlocksOf(ar)
    <3>1. ar.hdr[i] = Junk
      BY <1>2, <2>2, BlockIn
    <3> QED BY <1>2, <3>1, WeightIs
  <2> QED BY <2>1, <2>2
<1> QED BY <1>2, <1>3, <1>10, <1>12, <1>13, <1>14, <1>15, <1>16

(* What the free blocks of the arena add up to, after bt alone has become     *)
(* free or joined the block a before it                                       *)
LEMMA PooledOne ==
  ASSUME NEW n \in Nat, NEW ar, NEW br, NEW a, NEW c, NEW bt, NEW S,
         Pooled(ar, br, n, a, c, bt, S), S \subseteq {a}
  PROVE  /\ Available(br, n) = Available(ar, n) + Weight(br, a) - Weight(ar, a)
         /\ Available(ar, n) \in Int
<1>1. /\ ar \in Shapes(n) /\ br \in Shapes(n) /\ a \in 0 .. n - 1
      /\ \A i \in 0 .. n - 1 : i < a \/ i >= c => Weight(br, i) = Weight(ar, i)
      /\ \A i \in 0 .. n - 1 : i # a /\ i \notin S /\ ~ (i < a \/ i >= c) =>
           Weight(br, i) = 0 /\ Weight(ar, i) = 0
  BY PooledBlocks
<1>2. \A i \in 0 .. n - 1 : i # a => Weight(br, i) = Weight(ar, i)
  BY <1>1, Zenon
<1> QED BY <1>1, <1>2, TotalOne

(* The same when it has joined the block q behind it                          *)
LEMMA PooledTwo ==
  ASSUME NEW n \in Nat, NEW ar, NEW br, NEW a, NEW c, NEW bt, NEW S, NEW q,
         Pooled(ar, br, n, a, c, bt, S), q \in S, q # a, S \subseteq {a, q}
  PROVE  /\ Available(br, n) = Available(ar, n) + Weight(br, a) - Weight(ar, a)
                                                - Weight(ar, q)
         /\ Available(ar, n) \in Int
<1>1. /\ ar \in Shapes(n) /\ br \in Shapes(n) /\ a \in 0 .. n - 1
      /\ \A i \in 0 .. n - 1 : i < a \/ i >= c => Weight(br, i) = Weight(ar, i)
      /\ \A i \in 0 .. n - 1 : i # a /\ i \notin S /\ ~ (i < a \/ i >= c) =>
           Weight(br, i) = 0 /\ Weight(ar, i) = 0
      /\ \A i \in 0 .. n - 1 : i # a /\ ~ (i < a \/ i >= c) => Weight(br, i) = 0
  BY PooledBlocks
<1>2. \A i \in 0 .. n - 1 : i # a /\ i # q => Weight(br, i) = Weight(ar, i)
  BY <1>1, Zenon
<1>3. q \in 0 .. n - 1 /\ ~ (q < a \/ q >= c)
  <2>1. q \in BlocksOf(ar)
    BY DEF Pooled, FreeBlocksOf
  <2> QED BY <1>1, <2>1, BlockIn DEF Pooled
<1>4. Weight(br, q) = 0
  BY <1>1, <1>3
<1>5. /\ Available(br, n) = Available(ar, n) + (Weight(br, a) - Weight(ar, a))
                                             + (Weight(br, q) - Weight(ar, q))
      /\ Available(ar, n) \in Int
  BY <1>1, <1>2, <1>3, TotalTwo
<1>6. Weight(br, a) \in Int /\ Weight(ar, a) \in Int /\ Weight(ar, q) \in Int
  BY <1>1, <1>3, WeightIs
<1> QED BY <1>4, <1>5, <1>6

LEMMA Pooling ==
  ASSUME NEW n \in Nat, NEW ar, NEW br, NEW a, NEW c, NEW bt, NEW S,
         Pooled(ar, br, n, a, c, bt, S),
         Injective(br.free), Items(br.free) = (FreeBlocksOf(ar) \ S) \cup {a},
         br.totalFree = Available(br, n), br.hdr[n] # Junk, br.hdr[n].used
  PROVE  Given(ar, br, n, bt)
<1>1. /\ FreeBlocksOf(br) = (FreeBlocksOf(ar) \ S) \cup {a}
      /\ \A i : Used(br, i) <=> Used(ar, i) /\ i # bt
      /\ \A i : Used(br, i) => br.hdr[i].size = ar.hdr[i].size
  BY PooledBlocks
<1>2. Retiling(ar, br, n, a, c - a, c) /\ ArenaInv(ar, n)
  BY DEF Pooled
<1>3. ArenaInv(br, n)
  BY <1>1, <1>2, Ending
<1> QED BY <1>1, <1>3, Zenon DEF Given

Relisted(ar, br, n, x) ==
  /\ br \in Shapes(n) /\ Injective(br.free) /\ Items(br.free) = Items(ar.free) \cup {x}
  /\ br.hdr = ar.hdr /\ br.ftr = ar.ftr

(* The used block at bt, its end c after the merge, and what it merges with   *)
Freeing(ar, n, bt, c, S) ==
  /\ ArenaInv(ar, n) /\ bt \in 0 .. n - 1 /\ Used(ar, bt)
  /\ c \in 0 .. n /\ c \in BlocksOf(ar) \cup {n} /\ bt < c
  /\ S \subseteq FreeBlocksOf(ar)

(* The arena it leaves, but for its count of free memory                      *)
Ready(ar, br, n, a, c, bt, S) ==
  /\ Pooled(ar, br, n, a, c, bt, S)
  /\ Injective(br.free) /\ Items(br.free) = (FreeBlocksOf(ar) \ S) \cup {a}
  /\ br.hdr[n] # Junk /\ br.hdr[n].used
  /\ br.hdr[a] # Junk /\ br.hdr[a].size = c - a /\ ~ br.hdr[a].used

LEMMA FreeHere ==
  ASSUME NEW n \in Nat, NEW ar, NEW ar1, NEW br, NEW bt, NEW c, NEW S,
         Freeing(ar, n, bt, c, S), Merged(ar, ar1, n, bt, c), Swallowed(ar, ar1, n, bt, c, S),
         ~ ar.hdr[bt].prevfree, Relisted(ar1, br, n, bt)
  PROVE  Ready(ar, br, n, bt, c, bt, S)
<1>1. /\ ArenaInv(ar, n) /\ bt \in 0 .. n - 1 /\ Used(ar, bt)
      /\ c \in 0 .. n /\ c \in BlocksOf(ar) \cup {n} /\ bt < c /\ S \subseteq FreeBlocksOf(ar)
  BY DEF Freeing
<1>2. br \in Shapes(n) /\ br.hdr = ar1.hdr /\ br.ftr = ar1.ftr
  BY DEF Relisted
<1>3. /\ Shaped(ar, n) /\ ar \in Shapes(n) /\ bt \in BlocksOf(ar)
      /\ ar.hdr[n] # Junk /\ ar.hdr[n].used /\ n \in 0 .. n
  BY <1>1, InvFacts DEF ArenaInv, Used
<1>4. /\ \A i \in 0 .. n : i < bt \/ i > c => br.hdr[i] = ar.hdr[i]
      /\ \A i \in bt + 1 .. c - 1 : br.hdr[i] = Junk
      /\ \A i \in 0 .. n - 1 : i < bt \/ i >= c => br.ftr[i] = ar.ftr[i]
      /\ br.hdr[bt] # Junk /\ br.hdr[bt].size = c - bt /\ ~ br.hdr[bt].used
      /\ br.hdr[bt].prevfree <=> ar.hdr[bt].prevfree
      /\ br.ftr[c - 1] = br.hdr[bt]
      /\ br.hdr[c] # Junk /\ br.hdr[c].size = ar.hdr[c].size /\ br.hdr[c].used
      /\ br.hdr[c].used = ar.hdr[c].used /\ ar.hdr[c].used
      /\ c < n => br.hdr[c].last = ar.hdr[c].last /\ br.hdr[c].prevfree /\ ~ br.hdr[bt].last
  BY <1>2 DEF Merged
<1>5. OneBlock(ar, br, n, bt, c)
  BY <1>4 DEF OneBlock
<1>6. Retiling(ar, br, n, bt, c - bt, c)
  BY <1>1, <1>2, <1>3, <1>5, One
<1>7. S \subseteq bt + 1 .. c - 1 /\ \A i \in BlocksOf(ar) : i # bt /\ i \notin S => i < bt \/ i >= c
  BY DEF Swallowed
<1>8. \A i \in BlocksOf(ar) : i = bt \/ i \in S <=> ~ (i < bt \/ i >= c)
  BY <1>1, <1>7
<1>9. Pooled(ar, br, n, bt, c, bt, S)
  BY <1>1, <1>4, <1>6, <1>8, Zenon DEF Pooled
<1>10. Injective(br.free) /\ Items(br.free) = (FreeBlocksOf(ar) \ S) \cup {bt}
  BY DEF Relisted, Swallowed
<1>11. br.hdr[n] # Junk /\ br.hdr[n].used
  <2>1. CASE c = n
    BY <1>4, <2>1
  <2>2. CASE c # n
    <3>1. n > c
      BY <1>1, <2>2
    <3> QED BY <1>3, <1>4, <3>1
  <2> QED BY <2>1, <2>2
<1> QED BY <1>4, <1>9, <1>10, <1>11, Zenon DEF Ready

LEMMA FreeBack ==
  ASSUME NEW n \in Nat, NEW ar, NEW ar1, NEW br, NEW bt, NEW c, NEW S, NEW p,
         Freeing(ar, n, bt, c, S), Merged(ar, ar1, n, bt, c), Swallowed(ar, ar1, n, bt, c, S),
         p \in FreeBlocksOf(ar) /\ p + ar.hdr[p].size = bt /\ p < bt,
         Relisted(Make(n_remove(ar1, p), p, Tag(c - p, FALSE, FALSE, ar1.hdr[bt].last)), br, n, p)
  PROVE  Ready(ar, br, n, p, c, bt, S \cup {p})
<1> DEFINE last == ar1.hdr[bt].last
           alone == n_remove(ar1, p)
           s == c - p
           t == Tag(s, FALSE, FALSE, last)
           ar2 == Make(alone, p, t)
<1>1. /\ ArenaInv(ar, n) /\ bt \in 0 .. n - 1 /\ Used(ar, bt)
      /\ c \in 0 .. n /\ c \in BlocksOf(ar) \cup {n} /\ bt < c /\ S \subseteq FreeBlocksOf(ar)
  BY DEF Freeing
<1>2. Relisted(ar2, br, n, p)
  OBVIOUS
<1>3. /\ Shaped(ar, n) /\ ar \in Shapes(n) /\ bt \in BlocksOf(ar)
      /\ ar.hdr[n] # Junk /\ ar.hdr[n].used /\ n \in 0 .. n
  BY <1>1, InvFacts DEF ArenaInv, Used
<1>4. /\ p \in BlocksOf(ar) /\ p \in 0 .. n - 1 /\ p < bt /\ p < c /\ p \in FreeBlocksOf(ar)
      /\ ~ ar.hdr[p].prevfree
  <2>1. p \in BlocksOf(ar)
    BY DEF FreeBlocksOf
  <2>2. p \in 0 .. n - 1
    BY <1>3, <2>1, BlockIn
  <2>3. ~ ar.hdr[p].prevfree
    BY <1>3, FreeAfterUsed
  <2> QED BY <1>1, <2>1, <2>2, <2>3
<1>5. \A j \in p + 1 .. bt - 1 : j \in 0 .. n - 1 /\ ar.hdr[j] = Junk
  <2>1. \A j \in p + 1 .. p + ar.hdr[p].size - 1 : j \in 0 .. n - 1 /\ ar.hdr[j] = Junk
    BY <1>3, <1>4, BlockFacts
  <2>2. p + ar.hdr[p].size - 1 = bt - 1
    <3>1. p + ar.hdr[p].size = bt /\ p \in Int /\ ar.hdr[p].size \in Int
      BY <1>3, <1>4, BlockFacts
    <3> QED BY ONLY <3>1
  <2> QED BY <2>1, <2>2, Zenon
<1>6. /\ ar1 \in Shapes(n) /\ Injective(ar1.free) /\ Items(ar1.free) = FreeBlocksOf(ar) \ S
      /\ S \subseteq bt + 1 .. c - 1
  BY DEF Merged, Swallowed
<1>7. p \notin S
  BY <1>1, <1>4, <1>6
<1>8. p \in Items(ar1.free)
  BY <1>4, <1>6, <1>7
<1>9. Delisted(ar1, alone, n, p)
  BY <1>4, <1>6, <1>8, Removing
<1> HIDE DEF alone
<1>10. ar1.hdr[bt] # Junk /\ last \in BOOLEAN
  <2>1. ar1.hdr[bt] # Junk
    BY DEF Merged
  <2>2. ar1.hdr[bt] \in Tags \cup {Junk}
    BY <1>1, <1>6, ArenaFields
  <2>3. ar1.hdr[bt] \in Tags
    BY <2>1, <2>2
  <2> QED BY <2>1, <2>3 DEF Tags
<1>11. s \in Nat /\ s > 0 /\ s = c - p
  BY <1>1, <1>4
<1> HIDE DEF s, last
<1>12. FreeTag(t, s, FALSE, last)
  BY <1>10, <1>11, FreeTagIs, Zenon
<1>13. t \in Tags /\ t # Junk /\ t.size = s /\ ~ t.used /\ ~ t.prevfree /\ t.last = last
  BY <1>12, Zenon DEF FreeTag
<1> HIDE DEF t
<1>14. Spans(n, p, c, t)
  BY <1>1, <1>4, <1>11, <1>13 DEF Spans
<1>15. alone \in Shapes(n)
  BY <1>9 DEF Delisted
<1>16. Made(alone, ar2, n, p, c, t)
  BY <1>14, <1>15, Making
<1> HIDE DEF ar2
<1>17. br \in Shapes(n) /\ br.hdr = ar2.hdr /\ br.ftr = ar2.ftr
  BY <1>2 DEF Relisted
<1>18. br.hdr[p] = t
  <2>1. p \in 0 .. n
    BY <1>4
  <2> QED BY <1>16, <1>17, <2>1 DEF Made
<1>19. /\ \A i \in 0 .. n : i < bt \/ i > c => ar1.hdr[i] = ar.hdr[i]
       /\ \A i \in 0 .. n - 1 : i < bt \/ i >= c => ar1.ftr[i] = ar.ftr[i]
       /\ ar1.hdr[c] # Junk /\ ar1.hdr[c].size = ar.hdr[c].size /\ ar1.hdr[c].used
       /\ ar1.hdr[c].used = ar.hdr[c].used /\ ar.hdr[c].used
       /\ c < n => ar1.hdr[c].last = ar.hdr[c].last /\ ar1.hdr[c].prevfree /\ ~ last
  BY DEF Merged, last
<1>20. \A i \in 0 .. n : i < p \/ i >= c => br.hdr[i] = ar1.hdr[i]
  <2> SUFFICES ASSUME NEW i \in 0 .. n, i < p \/ i >= c PROVE br.hdr[i] = ar1.hdr[i]
    OBVIOUS
  <2>1. i # p /\ ~ (i > p /\ i < c)
    BY <1>1, <1>4
  <2> QED BY <1>9, <1>16, <1>17, <2>1 DEF Made, Delisted
<1>21. \A i \in 0 .. n : i < p \/ i > c => br.hdr[i] = ar.hdr[i]
  <2> SUFFICES ASSUME NEW i \in 0 .. n, i < p \/ i > c PROVE br.hdr[i] = ar.hdr[i]
    OBVIOUS
  <2>1. (i < p \/ i >= c) /\ (i < bt \/ i > c)
    BY <1>1, <1>4
  <2> QED BY <1>19, <1>20, <2>1
<1>22. \A i \in p + 1 .. c - 1 : br.hdr[i] = Junk
  <2> SUFFICES ASSUME NEW i \in p + 1 .. c - 1 PROVE br.hdr[i] = Junk
    OBVIOUS
  <2>1. i \in 0 .. n /\ i # p /\ i > p /\ i < c
    BY <1>1, <1>4
  <2> QED BY <1>16, <1>17, <2>1 DEF Made
<1>23. \A i \in 0 .. n - 1 : i < p \/ i >= c => br.ftr[i] = ar.ftr[i]
  <2> SUFFICES ASSUME NEW i \in 0 .. n - 1, i < p \/ i >= c PROVE br.ftr[i] = ar.ftr[i]
    OBVIOUS
  <2>1. i # c - 1 /\ ~ (i >= p /\ i < c) /\ (i < bt \/ i >= c)
    BY <1>1, <1>4
  <2>2. br.ftr[i] = ar1.ftr[i]
    BY <1>9, <1>16, <1>17, <2>1 DEF Made, Delisted
  <2> QED BY <1>19, <2>1, <2>2
<1>24. br.ftr[c - 1] = t
  <2>1. c - 1 \in 0 .. n - 1
    BY <1>1, <1>4
  <2> QED BY <1>13, <1>16, <1>17, <2>1 DEF Made
<1>25. br.hdr[c] = ar1.hdr[c]
  BY <1>1, <1>20
<1>26. OneBlock(ar, br, n, p, c)
  BY <1>4, <1>11, <1>13, <1>18, <1>19, <1>21, <1>22, <1>23, <1>24, <1>25 DEF OneBlock
<1>27. Retiling(ar, br, n, p, c - p, c)
  BY <1>1, <1>3, <1>4, <1>17, <1>26, One
<1>28. \A i \in BlocksOf(ar) : i # bt /\ i \notin S => i < bt \/ i >= c
  BY DEF Swallowed
<1>29. \A i \in BlocksOf(ar) : i # p => i < p \/ i >= bt
  <2>1. bt \in 0 .. n
    BY <1>1
  <2> QED BY <1>3, <1>4, <1>5, <2>1, OutsideBlocks
<1>30. \A i \in BlocksOf(ar) : i = bt \/ i \in S \cup {p} <=> ~ (i < p \/ i >= c)
  <2> SUFFICES ASSUME NEW i \in BlocksOf(ar)
               PROVE  i = bt \/ i \in S \cup {p} <=> ~ (i < p \/ i >= c)
    OBVIOUS
  <2>1. i \in 0 .. n - 1
    BY <1>3, BlockIn
  <2>2. p \in Int /\ bt \in Int /\ c \in Int /\ i \in Int /\ p < bt /\ bt < c
    BY <1>1, <1>4, <2>1
  <2>3. i \in S => i > bt /\ i < c
    BY <1>6, <2>2
  <2>4. (i = bt \/ i = p \/ i \in S) => ~ (i < p \/ i >= c)
    BY <2>2, <2>3
  <2>5. i # bt /\ i \notin S => i < bt \/ i >= c
    BY <1>28
  <2>6. i # p => i < p \/ i >= bt
    BY <1>29
  <2>7. ~ (i < p \/ i >= c) => (i = bt \/ i = p \/ i \in S)
    BY <2>2, <2>5, <2>6
  <2> QED BY <2>4, <2>7
<1>31. S \cup {p} \subseteq FreeBlocksOf(ar)
  BY <1>1, <1>4
<1>32. Pooled(ar, br, n, p, c, bt, S \cup {p})
  BY <1>1, <1>13, <1>18, <1>27, <1>30, <1>31, Zenon DEF Pooled
<1>33. Injective(br.free) /\ Items(br.free) = (FreeBlocksOf(ar) \ (S \cup {p})) \cup {p}
  <2>1. Injective(br.free) /\ Items(br.free) = Items(ar2.free) \cup {p}
    BY <1>2 DEF Relisted
  <2>2. Items(ar2.free) = Items(alone.free)
    BY <1>16 DEF Made
  <2>3. Items(alone.free) = Items(ar1.free) \ {p}
    BY <1>9 DEF Delisted
  <2>4. (FreeBlocksOf(ar) \ S) \ {p} = FreeBlocksOf(ar) \ (S \cup {p})
    BY Zenon
  <2> QED BY <1>6, <2>1, <2>2, <2>3, <2>4
<1>34. br.hdr[n] # Junk /\ br.hdr[n].used
  <2>1. CASE c = n
    BY <1>19, <1>25, <2>1
  <2>2. CASE c # n
    <3>1. n > c
      BY <1>1, <2>2
    <3> QED BY <1>3, <1>21, <3>1
  <2> QED BY <2>1, <2>2
<1> QED BY <1>11, <1>13, <1>18, <1>32, <1>33, <1>34, Zenon DEF Ready

Tally(ar, x, g) == [n_insert(ar, x) EXCEPT !.totalFree = @ + g]

LEMMA Tallied ==
  ASSUME NEW n \in Nat, NEW ar \in Shapes(n), Injective(ar.free), NEW x,
         x \in 0 .. n - 1 /\ x \notin Items(ar.free), NEW g, g \in Int
  PROVE  Relisted(ar, Tally(ar, x, g), n, x) /\ Tally(ar, x, g).totalFree = ar.totalFree + g
<1> DEFINE b == n_insert(ar, x)
           k == ar.totalFree + g
           br == [b EXCEPT !.totalFree = k]
<1>1. Listed(ar, b, n, x)
  BY Inserting
<1>2. b \in Shapes(n) /\ b.totalFree = ar.totalFree
  BY <1>1 DEF Listed
<1>3. Tally(ar, x, g) = br
  BY <1>2 DEF Tally
<1>4. k \in Int
  BY ArenaFields
<1> HIDE DEF b, k
<1>5. br \in Shapes(n) /\ br.totalFree = k /\ br.hdr = b.hdr /\ br.ftr = b.ftr /\ br.free = b.free
  BY <1>2, <1>4, CountAt
<1> HIDE DEF br
<1>6. Relisted(ar, br, n, x)
  BY <1>1, <1>5 DEF Listed, Relisted
<1> QED BY <1>3, <1>5, <1>6 DEF k

(* What a block of k units adds to the free memory                            *)
LEMMA BlockWeight ==
  ASSUME NEW n \in Nat, NEW ar, ar \in Shapes(n), NEW i, i \in 0 .. n - 1 /\ ar.hdr[i] # Junk
  PROVE  /\ ar.hdr[i].used => Weight(ar, i) = 0
         /\ ~ ar.hdr[i].used => Weight(ar, i) = 16 * ar.hdr[i].size - 8
BY WeightIs

LEMMA FreeWeight ==
  ASSUME NEW n \in Nat, NEW ar, ar \in Shapes(n), NEW i, i \in FreeBlocksOf(ar)
  PROVE  Weight(ar, i) = 16 * ar.hdr[i].size - 8 /\ i \in 0 .. n - 1 /\ ar.hdr[i].size \in Nat
<1>1. i \in 0 .. n - 1 /\ ar.hdr[i] # Junk /\ ~ ar.hdr[i].used
  BY BlockIn DEF FreeBlocksOf
<1> QED BY <1>1, BlockWeight, WeightAt

(* What freeing the block at bt adds, if it merges with S behind it           *)
GainHere(ar, bt, c, S, g) ==
  \/ S = {} /\ g = 16 * (c - bt) - 8
  \/ \E q \in S : S = {q} /\ q + ar.hdr[q].size = c /\ g = 16 * (q - bt)

LEMMA FreesHere ==
  ASSUME NEW n \in Nat, NEW ar, NEW ar1, NEW bt, NEW c, NEW S, NEW g,
         Freeing(ar, n, bt, c, S), Merged(ar, ar1, n, bt, c), Swallowed(ar, ar1, n, bt, c, S),
         ~ ar.hdr[bt].prevfree, GainHere(ar, bt, c, S, g)
  PROVE  Given(ar, Tally(ar1, bt, g), n, bt)
<1> DEFINE br == Tally(ar1, bt, g)
<1>1. /\ ArenaInv(ar, n) /\ bt \in 0 .. n - 1 /\ Used(ar, bt) /\ c \in 0 .. n
      /\ S \subseteq FreeBlocksOf(ar) /\ ar \in Shapes(n)
      /\ ar.totalFree = Available(ar, n)
  BY DEF Freeing, ArenaInv, Shaped
<1>2. /\ ar1 \in Shapes(n) /\ ar1.totalFree = ar.totalFree
      /\ Injective(ar1.free) /\ Items(ar1.free) = FreeBlocksOf(ar) \ S
      /\ S \subseteq bt + 1 .. c - 1
  BY DEF Merged, Swallowed
<1>3. bt \notin Items(ar1.free) /\ bt \in BlocksOf(ar) /\ ar.hdr[bt].used
  BY <1>1, <1>2 DEF Used, FreeBlocksOf
<1>4. \A q \in S : q \in 0 .. n - 1 /\ q # bt /\ ar.hdr[q].size \in Nat
                   /\ Weight(ar, q) = 16 * ar.hdr[q].size - 8
  <2> SUFFICES ASSUME NEW q \in S
               PROVE  q \in 0 .. n - 1 /\ q # bt /\ ar.hdr[q].size \in Nat
                      /\ Weight(ar, q) = 16 * ar.hdr[q].size - 8
    OBVIOUS
  <2>1. q \in FreeBlocksOf(ar) /\ q > bt
    BY <1>1, <1>2
  <2>2. q # bt
    BY <1>1, <2>1
  <2> QED BY <1>1, <2>1, <2>2, FreeWeight
<1>5. g \in Int
  BY <1>1, <1>4 DEF GainHere
<1>6. Relisted(ar1, br, n, bt) /\ br.totalFree = ar1.totalFree + g
  BY <1>1, <1>2, <1>3, <1>5, Tallied
<1> HIDE DEF br
<1>7. /\ Pooled(ar, br, n, bt, c, bt, S)
      /\ Injective(br.free) /\ Items(br.free) = (FreeBlocksOf(ar) \ S) \cup {bt}
      /\ br.hdr[n] # Junk /\ br.hdr[n].used
      /\ br.hdr[bt] # Junk /\ br.hdr[bt].size = c - bt /\ ~ br.hdr[bt].used
  <2>1. Ready(ar, br, n, bt, c, bt, S)
    BY <1>6, FreeHere
  <2> QED BY <2>1, Zenon DEF Ready
<1>8. br \in Shapes(n)
  BY <1>6 DEF Relisted
<1>9. Weight(br, bt) = 16 * (c - bt) - 8
  BY <1>1, <1>7, <1>8, BlockWeight
<1>10. Weight(ar, bt) = 0
  BY <1>1, <1>3, BlockIn, BlockWeight
<1>11. Available(br, n) = Available(ar, n) + g
  <2>1. CASE S = {} /\ g = 16 * (c - bt) - 8
    <3>1. S \subseteq {bt}
      BY <2>1
    <3>2. /\ Available(br, n) = Available(ar, n) + Weight(br, bt) - Weight(ar, bt)
          /\ Available(ar, n) \in Int
      BY <1>7, <3>1, PooledOne
    <3> QED BY <1>1, <1>9, <1>10, <2>1, <3>2
  <2>2. ASSUME NEW q \in S, S = {q}, q + ar.hdr[q].size = c, g = 16 * (q - bt)
        PROVE  Available(br, n) = Available(ar, n) + g
    <3>1. q # bt /\ S \subseteq {bt, q} /\ q \in 0 .. n - 1 /\ ar.hdr[q].size \in Nat
      BY <1>4, <2>2
    <3>2. /\ Available(br, n) = Available(ar, n) + Weight(br, bt) - Weight(ar, bt)
                                                 - Weight(ar, q)
          /\ Available(ar, n) \in Int
      BY <1>7, <3>1, PooledTwo
    <3>3. Weight(ar, q) = 16 * ar.hdr[q].size - 8
      BY <1>4
    <3>5. bt \in Int /\ c \in Int /\ q \in Int
      BY <1>1, <3>1
    <3>4. ar.hdr[q].size = c - q
      BY <2>2, <3>1, <3>5
    <3> QED BY <1>9, <1>10, <2>2, <3>2, <3>3, <3>4, <3>5
  <2> QED BY <2>1, <2>2 DEF GainHere
<1>12. br.totalFree = Available(br, n)
  BY <1>1, <1>2, <1>6, <1>11
<1>13. Given(ar, br, n, bt)
  BY <1>7, <1>12, Pooling
<1> QED BY <1>13 DEF br

GainBack(ar, bt, c, S, g) ==
  \/ S = {} /\ g = 16 * (c - bt)
  \/ \E q \in S : S = {q} /\ q + ar.hdr[q].size = c /\ g = 16 * (q - bt) + 8

LEMMA FreesBack ==
  ASSUME NEW n \in Nat, NEW ar, NEW ar1, NEW bt, NEW c, NEW S, NEW g, NEW p,
         Freeing(ar, n, bt, c, S), Merged(ar, ar1, n, bt, c), Swallowed(ar, ar1, n, bt, c, S),
         p \in FreeBlocksOf(ar) /\ p + ar.hdr[p].size = bt /\ p < bt, GainBack(ar, bt, c, S, g)
  PROVE  LET ar2 == Make(n_remove(ar1, p), p, Tag(c - p, FALSE, FALSE, ar1.hdr[bt].last))
         IN  ar2 \in Shapes(n) /\ Given(ar, Tally(ar2, p, g), n, bt)
<1> DEFINE ar2 == Make(n_remove(ar1, p), p, Tag(c - p, FALSE, FALSE, ar1.hdr[bt].last))
           br == Tally(ar2, p, g)
<1>1. /\ ArenaInv(ar, n) /\ bt \in 0 .. n - 1 /\ Used(ar, bt) /\ c \in 0 .. n /\ bt < c
      /\ S \subseteq FreeBlocksOf(ar) /\ ar \in Shapes(n)
      /\ ar.totalFree = Available(ar, n)
  BY DEF Freeing, ArenaInv, Shaped
<1>2. /\ ar1 \in Shapes(n) /\ ar1.totalFree = ar.totalFree
      /\ Injective(ar1.free) /\ Items(ar1.free) = FreeBlocksOf(ar) \ S
      /\ S \subseteq bt + 1 .. c - 1 /\ ar1.hdr[bt] # Junk
  BY DEF Merged, Swallowed
<1>3. p \in 0 .. n - 1 /\ ar.hdr[p].size \in Nat /\ Weight(ar, p) = 16 * ar.hdr[p].size - 8
  BY <1>1, FreeWeight
<1>4. \A q \in S : q \in 0 .. n - 1 /\ q # p /\ ar.hdr[q].size \in Nat
                   /\ Weight(ar, q) = 16 * ar.hdr[q].size - 8
  <2> SUFFICES ASSUME NEW q \in S
               PROVE  q \in 0 .. n - 1 /\ q # p /\ ar.hdr[q].size \in Nat
                      /\ Weight(ar, q) = 16 * ar.hdr[q].size - 8
    OBVIOUS
  <2>1. q \in FreeBlocksOf(ar) /\ q > bt
    BY <1>1, <1>2
  <2>2. q # p
    BY <1>1, <1>3, <2>1
  <2> QED BY <1>1, <2>1, <2>2, FreeWeight
<1>5. g \in Int
  BY <1>1, <1>4 DEF GainBack
<1>6. /\ ar2 \in Shapes(n) /\ ar2.totalFree = ar1.totalFree
      /\ Injective(ar2.free) /\ Items(ar2.free) = Items(ar1.free) \ {p}
  <2> DEFINE alone == n_remove(ar1, p)
             last == ar1.hdr[bt].last
             s == c - p
             t == Tag(s, FALSE, FALSE, last)
  <2>1. p \notin S
    BY <1>1, <1>2, <1>3
  <2>2. p \in Items(ar1.free)
    BY <1>2, <2>1
  <2>3. Delisted(ar1, alone, n, p)
    BY <1>2, <1>3, <2>2, Removing
  <2>4. last \in BOOLEAN
    <3>1. ar1.hdr[bt] \in Tags \cup {Junk}
      BY <1>1, <1>2, ArenaFields
    <3>2. ar1.hdr[bt] \in Tags
      BY <1>2, <3>1
    <3> QED BY <3>2 DEF Tags
  <2>5. s \in Nat /\ p < c /\ s = c - p
    BY <1>1, <1>3
  <2>6. ar2 = Make(alone, p, t)
    OBVIOUS
  <2> HIDE DEF ar2, br, alone, last, s
  <2>7. FreeTag(t, s, FALSE, last)
    BY <2>4, <2>5, FreeTagIs, Zenon
  <2>8. t \in Tags /\ t.size = s
    BY <2>7, Zenon DEF FreeTag
  <2> HIDE DEF t
  <2>9. Spans(n, p, c, t)
    BY <1>1, <1>3, <2>5, <2>8 DEF Spans
  <2>10. Made(alone, ar2, n, p, c, t)
    BY <2>3, <2>6, <2>9, Making DEF Delisted
  <2> QED BY <2>3, <2>10 DEF Delisted, Made
<1>7. p \notin Items(ar2.free)
  BY <1>6
<1>8. Relisted(ar2, br, n, p) /\ br.totalFree = ar2.totalFree + g
  <2> HIDE DEF ar2
  <2> QED BY <1>3, <1>5, <1>6, <1>7, Tallied
<1> HIDE DEF br
<1>9. /\ Pooled(ar, br, n, p, c, bt, S \cup {p})
      /\ Injective(br.free) /\ Items(br.free) = (FreeBlocksOf(ar) \ (S \cup {p})) \cup {p}
      /\ br.hdr[n] # Junk /\ br.hdr[n].used
      /\ br.hdr[p] # Junk /\ br.hdr[p].size = c - p /\ ~ br.hdr[p].used
  <2>1. Relisted(Make(n_remove(ar1, p), p, Tag(c - p, FALSE, FALSE, ar1.hdr[bt].last)), br, n, p)
    BY <1>8
  <2>2. Ready(ar, br, n, p, c, bt, S \cup {p})
    BY <2>1, FreeBack
  <2> QED BY <2>2, Zenon DEF Ready
<1>10. br \in Shapes(n)
  BY <1>8 DEF Relisted
<1> HIDE DEF ar2
<1>11. Weight(br, p) = 16 * (c - p) - 8
  BY <1>3, <1>9, <1>10, BlockWeight
<1>12. ar.hdr[p].size = bt - p /\ bt \in Int /\ c \in Int /\ p \in Int
  BY <1>1, <1>3
<1>13. Available(br, n) = Available(ar, n) + g
  <2>1. CASE S = {} /\ g = 16 * (c - bt)
    <3>1. S \cup {p} \subseteq {p}
      BY <2>1
    <3>2. /\ Available(br, n) = Available(ar, n) + Weight(br, p) - Weight(ar, p)
          /\ Available(ar, n) \in Int
      BY <1>9, <3>1, PooledOne
    <3> QED BY <1>3, <1>11, <1>12, <2>1, <3>2
  <2>2. ASSUME NEW q \in S, S = {q}, q + ar.hdr[q].size = c, g = 16 * (q - bt) + 8
        PROVE  Available(br, n) = Available(ar, n) + g
    <3>1. q # p /\ S \cup {p} \subseteq {p, q} /\ q \in 0 .. n - 1 /\ ar.hdr[q].size \in Nat
          /\ q \in S \cup {p}
      BY <1>4, <2>2
    <3>2. /\ Available(br, n) = Available(ar, n) + Weight(br, p) - Weight(ar, p)
                                                 - Weight(ar, q)
          /\ Available(ar, n) \in Int
      BY <1>9, <3>1, PooledTwo
    <3>3. Weight(ar, q) = 16 * ar.hdr[q].size - 8
      BY <1>4
    <3>4. ar.hdr[q].size = c - q /\ q \in Int
      BY <1>12, <2>2, <3>1
    <3> QED BY <1>3, <1>11, <1>12, <2>2, <3>2, <3>3, <3>4
  <2> QED BY <2>1, <2>2 DEF GainBack
<1>14. br.totalFree = Available(br, n)
  BY <1>1, <1>2, <1>6, <1>8, <1>13
<1>15. Given(ar, br, n, bt)
  BY <1>9, <1>14, Pooling
<1> QED BY <1>6, <1>15 DEF br, ar2

(* The four ways of ar_free                                                   *)
Joined(ar, bt, next) ==
  Make(n_remove(Freed(ar, bt), next), bt,
       Tag(ar.hdr[bt].size + ar.hdr[next].size, FALSE, ar.hdr[bt].prevfree, ar.hdr[next].last))
Backwards(ar, ar1, bt, p, size) ==
  Make(n_remove(ar1, p), p, Tag(size + ar.hdr[p].size, FALSE, FALSE, ar1.hdr[bt].last))
FreeGain(ar, bt) ==
  Gain(ar.hdr[bt].size, ~ar.hdr[bt_next(ar, bt)].used, ar.hdr[bt].prevfree)

LEMMA FreeWays ==
  ASSUME NEW ar, NEW bt
  PROVE  LET size == ar.hdr[bt].size
             next == bt_next(ar, bt)
             p == bt_prev(ar, bt)
             g == FreeGain(ar, bt)
             alone == SetPrevfree(Freed(ar, bt), next, TRUE)
             joined == Joined(ar, bt, next)
         IN  /\ ar.hdr[next].used /\ ~ ar.hdr[bt].prevfree =>
                  ar_free(ar, bt) = Tally(alone, bt, g)
             /\ ~ ar.hdr[next].used /\ ~ ar.hdr[bt].prevfree =>
                  ar_free(ar, bt) = Tally(joined, bt, g)
             /\ ar.hdr[next].used /\ ar.hdr[bt].prevfree =>
                  ar_free(ar, bt) = Tally(Backwards(ar, alone, bt, p, size), p, g)
             /\ ~ ar.hdr[next].used /\ ar.hdr[bt].prevfree =>
                  ar_free(ar, bt) =
                    Tally(Backwards(ar, joined, bt, p, size + ar.hdr[next].size), p, g)
<1>1. ar.hdr[bt_next(ar, bt)].used /\ ~ ar.hdr[bt].prevfree =>
         ar_free(ar, bt) = Tally(SetPrevfree(Freed(ar, bt), bt_next(ar, bt), TRUE), bt, FreeGain(ar, bt))
  BY Zenon DEF ar_free, Tally, Freed, bt_next, FreeGain
<1>2. ~ ar.hdr[bt_next(ar, bt)].used /\ ~ ar.hdr[bt].prevfree =>
         ar_free(ar, bt) = Tally(Joined(ar, bt, bt_next(ar, bt)), bt, FreeGain(ar, bt))
  BY Zenon DEF ar_free, Tally, Freed, bt_next, FreeGain, Joined
<1>3. ar.hdr[bt_next(ar, bt)].used /\ ar.hdr[bt].prevfree =>
         ar_free(ar, bt) =
           Tally(Backwards(ar, SetPrevfree(Freed(ar, bt), bt_next(ar, bt), TRUE), bt,
                           bt_prev(ar, bt), ar.hdr[bt].size), bt_prev(ar, bt), FreeGain(ar, bt))
  BY Zenon DEF ar_free, Tally, Freed, bt_next, FreeGain, Backwards
<1>4. ~ ar.hdr[bt_next(ar, bt)].used /\ ar.hdr[bt].prevfree =>
         ar_free(ar, bt) =
           Tally(Backwards(ar, Joined(ar, bt, bt_next(ar, bt)), bt, bt_prev(ar, bt),
                           ar.hdr[bt].size + ar.hdr[bt_next(ar, bt)].size),
                 bt_prev(ar, bt), FreeGain(ar, bt))
  BY Zenon DEF ar_free, Tally, Freed, bt_next, FreeGain, Backwards, Joined
<1> QED BY <1>1, <1>2, <1>3, <1>4

(* After the merge with the next block, if that is free                       *)
Gone(ar, next) == IF ar.hdr[next].used THEN {} ELSE {next}
End(ar, next) == IF ar.hdr[next].used THEN next ELSE next + ar.hdr[next].size
Forward(ar, bt, next) ==
  IF ar.hdr[next].used THEN SetPrevfree(Freed(ar, bt), next, TRUE) ELSE Joined(ar, bt, next)

LEMMA Forwards ==
  ASSUME NEW n \in Nat, NEW ar, ArenaInv(ar, n), NEW bt \in 0 .. n - 1, Used(ar, bt),
         NEW next, next = bt + ar.hdr[bt].size
  PROVE  LET c == End(ar, next)
             S == Gone(ar, next)
             br == Forward(ar, bt, next)
         IN  /\ Freeing(ar, n, bt, c, S) /\ Merged(ar, br, n, bt, c)
             /\ Swallowed(ar, br, n, bt, c, S)
<1>1. /\ next \in 0 .. n /\ bt < next /\ next \in BlocksOf(ar) \cup {n}
      /\ ar.hdr[next] # Junk /\ (~ ar.hdr[next].used => next < n) /\ bt \in BlocksOf(ar)
      /\ (next < n => next \in BlocksOf(ar))
  <2> DEFINE k == ar.hdr[bt].size
             d == bt + k
  <2>1. /\ d \in 0 .. n /\ bt < d /\ d \in BlocksOf(ar) \cup {n}
        /\ ar.hdr[d] # Junk /\ (~ ar.hdr[d].used => d < n) /\ bt \in BlocksOf(ar)
        /\ (d < n => d \in BlocksOf(ar))
    BY UsedBlock
  <2>2. next = d
    OBVIOUS
  <2> HIDE DEF d
  <2> QED BY ONLY <2>1, <2>2
<1>2. CASE ar.hdr[next].used
  <2> DEFINE br == SetPrevfree(Freed(ar, bt), next, TRUE)
  <2>1. Merged(ar, br, n, bt, next) /\ Swallowed(ar, br, n, bt, next, {})
    BY <1>1, <1>2, FreeAlone
  <2>2. Freeing(ar, n, bt, next, {})
    BY <1>1 DEF Freeing
  <2>3. End(ar, next) = next /\ Gone(ar, next) = {} /\ Forward(ar, bt, next) = br
    BY <1>2 DEF End, Gone, Forward
  <2> HIDE DEF br
  <2> QED BY <2>1, <2>2, <2>3, Zenon
<1>3. CASE ~ ar.hdr[next].used
  <2> DEFINE c == next + ar.hdr[next].size
             br == Joined(ar, bt, next)
  <2>1. next \in 0 .. n - 1 /\ next \in FreeBlocksOf(ar)
    BY <1>1, <1>3 DEF FreeBlocksOf
  <2>2. c \in 0 .. n /\ c \in BlocksOf(ar) \cup {n} /\ next < c
    <3>1. /\ ar.hdr[next].size \in Nat /\ ar.hdr[next].size > 0
          /\ c \in 0 .. n /\ c \in BlocksOf(ar) \cup {n}
      BY <2>1, FreeBlock, SMTT(30)
    <3> QED BY <2>1, <3>1
  <2>3. c = next + ar.hdr[next].size
    OBVIOUS
  <2> HIDE DEF c
  <2>4. Merged(ar, br, n, bt, c) /\ Swallowed(ar, br, n, bt, c, {next})
    BY <1>3, <2>1, <2>2, <2>3, FreeJoined DEF Joined
  <2>5. bt < c
    BY <1>1, <2>1, <2>2
  <2>6. {next} \subseteq FreeBlocksOf(ar)
    BY <2>1
  <2>7. Freeing(ar, n, bt, c, {next})
    BY <2>2, <2>5, <2>6 DEF Freeing
  <2>8. End(ar, next) = c /\ Gone(ar, next) = {next} /\ Forward(ar, bt, next) = br
    BY <1>3, <2>3, Zenon DEF End, Gone, Forward
  <2> HIDE DEF br
  <2> QED BY <2>4, <2>7, <2>8, Zenon
<1> QED BY <1>2, <1>3

LEMMA GainIs ==
  ASSUME NEW n \in Nat, NEW ar, ArenaInv(ar, n), NEW bt \in 0 .. n - 1, Used(ar, bt),
         NEW next, next = bt_next(ar, bt)
  PROVE  LET c == End(ar, next)
             S == Gone(ar, next)
         IN  /\ ~ ar.hdr[bt].prevfree => GainHere(ar, bt, c, S, FreeGain(ar, bt))
             /\ ar.hdr[bt].prevfree => GainBack(ar, bt, c, S, FreeGain(ar, bt))
<1> DEFINE g == FreeGain(ar, bt)
           size == ar.hdr[bt].size
<1>1. size \in Nat /\ next = bt + size /\ bt \in Int
  BY UsedBlock DEF bt_next
<1>2. /\ ar.hdr[next].used /\ ~ ar.hdr[bt].prevfree => g = 16 * size - 8
      /\ ~ ar.hdr[next].used /\ ~ ar.hdr[bt].prevfree => g = 16 * size
      /\ ar.hdr[next].used /\ ar.hdr[bt].prevfree => g = 16 * size
      /\ ~ ar.hdr[next].used /\ ar.hdr[bt].prevfree => g = 16 * size + 8
  BY <1>1 DEF FreeGain, Gain, Bytes, ALIGNMENT, USEDBLK_SZ
<1>3. next \in Int /\ size = next - bt
  BY <1>1
<1> HIDE DEF g, size
<1>4. CASE ar.hdr[next].used
  <2>1. End(ar, next) = next /\ Gone(ar, next) = {}
    BY <1>4 DEF End, Gone
  <2>2. ~ ar.hdr[bt].prevfree => GainHere(ar, bt, next, {}, g)
    BY <1>2, <1>3, <1>4 DEF GainHere
  <2>3. ar.hdr[bt].prevfree => GainBack(ar, bt, next, {}, g)
    BY <1>2, <1>3, <1>4 DEF GainBack
  <2> QED BY <2>1, <2>2, <2>3 DEF g
<1>5. CASE ~ ar.hdr[next].used
  <2> DEFINE c == next + ar.hdr[next].size
  <2>1. End(ar, next) = c /\ Gone(ar, next) = {next}
    BY <1>5 DEF End, Gone
  <2>2. ~ ar.hdr[bt].prevfree => GainHere(ar, bt, c, {next}, g)
    BY <1>2, <1>3, <1>5 DEF GainHere
  <2>3. ar.hdr[bt].prevfree => GainBack(ar, bt, c, {next}, g)
    BY <1>2, <1>3, <1>5 DEF GainBack
  <2> HIDE DEF c
  <2> QED BY <2>1, <2>2, <2>3 DEF g
<1> QED BY <1>4, <1>5

LEMMA Frees ==
  ASSUME NEW n \in Nat, NEW ar, ArenaInv(ar, n), NEW bt, bt \in 0 .. n - 1, Used(ar, bt)
  PROVE  Given(ar, ar_free(ar, bt), n, bt)
<1> DEFINE next == bt_next(ar, bt)
           c == End(ar, next)
           S == Gone(ar, next)
           g == FreeGain(ar, bt)
           ar1 == Forward(ar, bt, next)
           p == bt_prev(ar, bt)
           size == ar.hdr[bt].size
<1>1. next = bt + size
  BY DEF bt_next
<1>2. Freeing(ar, n, bt, c, S) /\ Merged(ar, ar1, n, bt, c) /\ Swallowed(ar, ar1, n, bt, c, S)
  <2>1. \A d : d = bt + ar.hdr[bt].size =>
          Freeing(ar, n, bt, End(ar, d), Gone(ar, d))
          /\ Merged(ar, Forward(ar, bt, d), n, bt, End(ar, d))
          /\ Swallowed(ar, Forward(ar, bt, d), n, bt, End(ar, d), Gone(ar, d))
    BY Forwards
  <2> QED BY <1>1, <2>1, Zenon
<1>3. /\ ~ ar.hdr[bt].prevfree => GainHere(ar, bt, c, S, g)
      /\ ar.hdr[bt].prevfree => GainBack(ar, bt, c, S, g)
  BY GainIs
<1>4. CASE ~ ar.hdr[bt].prevfree
  <2>1. ar_free(ar, bt) = Tally(ar1, bt, g)
    BY <1>4, FreeWays DEF Forward
  <2> HIDE DEF c, S, g, ar1
  <2>2. Given(ar, Tally(ar1, bt, g), n, bt)
    BY <1>2, <1>3, <1>4, FreesHere
  <2> QED BY <2>1, <2>2
<1>5. CASE ar.hdr[bt].prevfree
  <2>1. bt \in BlocksOf(ar) /\ Shaped(ar, n) /\ ar \in Shapes(n)
    BY DEF Used, ArenaInv, Shaped
  <2>2. p \in FreeBlocksOf(ar) /\ p + ar.hdr[p].size = bt /\ p < bt
    BY <1>5, <2>1, PreviousBlock DEF FreeBlocksOf
  <2> DEFINE s1 == IF ar.hdr[next].used THEN size ELSE size + ar.hdr[next].size
  <2>3. ar_free(ar, bt) = Tally(Backwards(ar, ar1, bt, p, s1), p, g)
    BY <1>5, FreeWays, Zenon DEF Forward
  <2>4. s1 + ar.hdr[p].size = c - p
    <3>1. size \in Nat /\ bt \in Int
      BY UsedBlock
    <3>2. p \in Int /\ ar.hdr[p].size \in Nat
      BY <2>1, <2>2, FreeWeight
    <3>3. s1 = c - bt
      <4>1. CASE ar.hdr[next].used
        BY <1>1, <3>1, <4>1 DEF End
      <4>2. CASE ~ ar.hdr[next].used
        <5>1. c = next + ar.hdr[next].size
          BY <4>2 DEF End
        <5>2. c \in Int
          BY <1>2 DEF Freeing
        <5>3. next \in FreeBlocksOf(ar)
          BY <1>2, <4>2 DEF Freeing, Gone
        <5>4. ar.hdr[next].size \in Nat
          BY <2>1, <5>3, FreeWeight
        <5> HIDE DEF c
        <5> QED BY <1>1, <3>1, <4>2, <5>1, <5>2, <5>4
      <4> QED BY <4>1, <4>2
    <3>4. c \in Int
      BY <1>2 DEF Freeing
    <3> HIDE DEF s1, c, p
    <3> QED BY <2>2, <3>1, <3>2, <3>3, <3>4
  <2> HIDE DEF c, S, g, ar1, p, s1
  <2>5. Backwards(ar, ar1, bt, p, s1) =
          Make(n_remove(ar1, p), p, Tag(c - p, FALSE, FALSE, ar1.hdr[bt].last))
    BY <2>4, Zenon DEF Backwards
  <2>6. Given(ar, Tally(Make(n_remove(ar1, p), p,
                             Tag(c - p, FALSE, FALSE, ar1.hdr[bt].last)), p, g), n, bt)
    BY <1>2, <1>3, <1>5, <2>2, FreesBack
  <2> QED BY <2>3, <2>5, <2>6, Zenon
<1> QED BY <1>4, <1>5

UsedTag(t, s, p, l) ==
  t \in Tags /\ t # Junk /\ t.size = s /\ t.used /\ t.prevfree = p /\ t.last = l

LEMMA UsedTagIs ==
  ASSUME NEW s, NEW p, NEW l, s \in Nat, p \in BOOLEAN, l \in BOOLEAN
  PROVE  UsedTag(Tag(s, TRUE, p, l), s, p, l)
<1>1. Tag(s, TRUE, p, l) \in Tags
  BY Zenon DEF Tag, Tags
<1>2. /\ Tag(s, TRUE, p, l).size = s /\ Tag(s, TRUE, p, l).prevfree = p
      /\ Tag(s, TRUE, p, l).last = l /\ Tag(s, TRUE, p, l).used
  BY Zenon DEF Tag
<1> QED BY <1>1, <1>2, MemoryAssumption, Zenon DEF UsedTag

(* The block at bt cut in two used ones                                       *)
CutAt(ar, br, n, bt, k, l) ==
  /\ ArenaInv(br, n) /\ br.hdr[bt].size = k
  /\ \A i : Used(br, i) <=> Used(ar, i) \/ i = l
  /\ ~ Used(ar, l)
  /\ \A i : Used(ar, i) /\ i # bt => br.hdr[i].size = ar.hdr[i].size

LEMMA Cut ==
  ASSUME NEW n \in Nat, NEW ar, ArenaInv(ar, n), NEW bt \in 0 .. n - 1, Used(ar, bt),
         NEW k \in Nat, k > 0, k < ar.hdr[bt].size, NEW l \in 0 .. n - 1, l = bt + k,
         NEW sz, sz = ar.hdr[bt].size
  PROVE  LET br == Make(Make(ar, bt, Tag(k, TRUE, ar.hdr[bt].prevfree, FALSE)), l,
                        Tag(sz - k, TRUE, FALSE, ar.hdr[bt].last))
         IN  CutAt(ar, br, n, bt, k, l)
<1> DEFINE c == bt + sz
           last == ar.hdr[bt].last
           prevfree == ar.hdr[bt].prevfree
           tag == Tag(k, TRUE, prevfree, FALSE)
           kept == Make(ar, bt, tag)
           s == sz - k
           rest == Tag(s, TRUE, FALSE, last)
           br == Make(kept, l, rest)
<1>1. /\ sz \in Nat /\ sz > 0 /\ bt \in 0 .. n - 1 /\ c \in 0 .. n /\ bt \in BlocksOf(ar)
      /\ c \in BlocksOf(ar) \cup {n}
      /\ ar.hdr[bt].used /\ prevfree \in BOOLEAN /\ ar.hdr[bt] # Junk /\ last \in BOOLEAN
      /\ ar.hdr[c] # Junk
      /\ c < n => ~ ar.hdr[c].prevfree /\ ~ last
  <2> DEFINE z == ar.hdr[bt].size
             d == bt + z
  <2>1. /\ z \in Nat /\ z > 0 /\ bt \in 0 .. n - 1 /\ d \in 0 .. n /\ bt \in BlocksOf(ar)
        /\ d \in BlocksOf(ar) \cup {n}
        /\ ar.hdr[bt].used /\ prevfree \in BOOLEAN /\ ar.hdr[bt] # Junk /\ last \in BOOLEAN
        /\ ar.hdr[d] # Junk
        /\ d < n => ~ ar.hdr[d].prevfree /\ ~ last
    BY UsedBlock
  <2>2. sz = z /\ c = d
    OBVIOUS
  <2> HIDE DEF z, d, c, last, prevfree
  <2> QED BY ONLY <2>1, <2>2
<1>2. \A j \in bt + 1 .. c - 1 : j \in 0 .. n - 1 /\ ar.hdr[j] = Junk
  <2>1. \A j \in bt + 1 .. bt + ar.hdr[bt].size - 1 : j \in 0 .. n - 1 /\ ar.hdr[j] = Junk
    BY <1>1, BlockFacts DEF ArenaInv
  <2>2. bt + ar.hdr[bt].size - 1 = c - 1
    BY <1>1
  <2> QED BY <2>1, <2>2, Zenon
<1>4. Shaped(ar, n) /\ ar \in Shapes(n) /\ Injective(ar.free)
      /\ Items(ar.free) = FreeBlocksOf(ar) /\ ar.totalFree = Available(ar, n)
  BY InvFacts DEF ArenaInv
<1>5. s \in Nat /\ s > 0 /\ l < c /\ bt < l /\ k = l - bt /\ s = c - l
  BY <1>1
<1> HIDE DEF last, prevfree, c, s
<1>6. UsedTag(tag, k, prevfree, FALSE) /\ UsedTag(rest, s, FALSE, last)
  BY <1>1, <1>5, UsedTagIs, Zenon
<1>7. /\ tag \in Tags /\ tag # Junk /\ tag.size = k /\ tag.used
      /\ tag.prevfree = prevfree /\ ~ tag.last
  BY <1>6, Zenon DEF UsedTag
<1>8. /\ rest \in Tags /\ rest # Junk /\ rest.size = s /\ rest.used
      /\ ~ rest.prevfree /\ rest.last = last
  BY <1>6, Zenon DEF UsedTag
<1> HIDE DEF tag, rest
<1>9. Spans(n, bt, l, tag) /\ Spans(n, l, c, rest)
  BY <1>1, <1>5, <1>7, <1>8 DEF Spans
<1>10. Made(ar, kept, n, bt, l, tag)
  BY <1>4, <1>9, Making
<1>11. kept \in Shapes(n)
  BY <1>10 DEF Made
<1> HIDE DEF kept
<1>12. Made(kept, br, n, l, c, rest)
  BY <1>9, <1>11, Making
<1> HIDE DEF br
<1>13. br \in Shapes(n) /\ br.free = ar.free /\ br.totalFree = ar.totalFree
  BY <1>10, <1>12 DEF Made
<1>14. br.hdr[bt] = tag /\ br.hdr[l] = rest
  <2>1. bt \in 0 .. n /\ l \in 0 .. n /\ bt # l /\ ~ (bt > l)
    BY <1>1, <1>5
  <2> QED BY <1>10, <1>12, <2>1 DEF Made
<1>15. \A i \in 0 .. n : i < bt \/ i >= c => br.hdr[i] = ar.hdr[i]
  <2> SUFFICES ASSUME NEW i \in 0 .. n, i < bt \/ i >= c PROVE br.hdr[i] = ar.hdr[i]
    OBVIOUS
  <2>1. i # bt /\ i # l /\ ~ (i > bt /\ i < l) /\ ~ (i > l /\ i < c)
    BY <1>1, <1>5
  <2> QED BY <1>10, <1>12, <2>1 DEF Made
<1>16. \A i \in bt + 1 .. c - 1 : i # l => br.hdr[i] = Junk
  <2> SUFFICES ASSUME NEW i \in bt + 1 .. c - 1, i # l PROVE br.hdr[i] = Junk
    OBVIOUS
  <2>1. i \in 0 .. n /\ i > bt /\ i < c /\ i # bt /\ bt \in Int /\ c \in Int
    BY <1>1
  <2>3. CASE i > l
    BY <1>12, <2>1, <2>3 DEF Made
  <2>4. CASE i < l
    <3>1. ~ (i > l)
      BY <2>1, <2>4
    <3> QED BY <1>10, <1>12, <2>1, <2>4, <3>1 DEF Made
  <2> QED BY <2>1, <2>3, <2>4
<1>17. \A i \in 0 .. n - 1 : i < bt \/ i >= c => br.ftr[i] = ar.ftr[i]
  <2> SUFFICES ASSUME NEW i \in 0 .. n - 1, i < bt \/ i >= c PROVE br.ftr[i] = ar.ftr[i]
    OBVIOUS
  <2>1. i # l - 1 /\ i # c - 1 /\ ~ (i >= bt /\ i < l) /\ ~ (i >= l /\ i < c)
    BY <1>1, <1>5
  <2> QED BY <1>10, <1>12, <2>1 DEF Made
<1>18. br.ftr[l - 1] = Canary /\ br.ftr[c - 1] = Canary
  <2>1. l - 1 \in 0 .. n - 1 /\ c - 1 \in 0 .. n - 1 /\ l - 1 # c - 1 /\ ~ (l - 1 >= l)
    BY <1>1, <1>5
  <2>2. br.ftr[c - 1] = Canary
    BY <1>8, <1>12, <2>1 DEF Made
  <2>3. kept.ftr[l - 1] = Canary
    BY <1>7, <1>10, <2>1 DEF Made
  <2>4. br.ftr[l - 1] = kept.ftr[l - 1]
    BY <1>12, <2>1 DEF Made
  <2> QED BY <2>2, <2>3, <2>4
<1>19. br.hdr[c] = ar.hdr[c]
  BY <1>1, <1>15
<1>20. \A i \in 0 .. n : i < bt \/ i > c => br.hdr[i] = ar.hdr[i]
  BY <1>1, <1>15
<1>21. TwoBlocks(ar, br, n, bt, l, c)
  BY <1>1, <1>5, <1>7, <1>8, <1>14, <1>16, <1>17, <1>18, <1>19, <1>20 DEF TwoBlocks, prevfree
<1>22. Retiling(ar, br, n, bt, l - bt, c)
  BY <1>1, <1>4, <1>5, <1>13, <1>21, Two
<1>23. Retiling(ar, br, n, bt, k, c)
  BY <1>5, <1>22
<1>24. Kept(ar, br, n, bt, k, c)
  BY <1>23, Keeping
<1>25. bt + k = l /\ l < c /\ ~ (bt < bt) /\ ~ (bt >= c)
  BY <1>1, <1>5
<1>26. ar.hdr[l] = Junk
  <2>1. l \in bt + 1 .. c - 1
    BY <1>1, <1>5
  <2> QED BY <1>2, <2>1
<1>27. l \notin BlocksOf(ar)
  BY <1>4, <1>26, BlockIn
<1>28. \A i \in BlocksOf(ar) : i # bt => i < bt \/ i >= c
  BY <1>1, <1>2, <1>4, OutsideBlocks
<1>29. \A i : i \in FreeBlocksOf(ar) => i \in BlocksOf(ar) /\ i # bt
  BY <1>1 DEF FreeBlocksOf
<1>30. br.hdr[bt].used /\ br.hdr[l].used
  BY <1>7, <1>8, <1>14
<1>31. \A i : i \in FreeBlocksOf(br) <=> i \in FreeBlocksOf(ar)
  BY <1>24, <1>25, <1>28, <1>29, <1>30, Zenon DEF Kept
<1>32. FreeBlocksOf(br) = FreeBlocksOf(ar)
  BY <1>31, Zenon
<1>33. \A i : Used(ar, i) => i \in BlocksOf(ar)
  BY DEF Used
<1>34. \A i : Used(br, i) <=> Used(ar, i) \/ i = l
  BY <1>24, <1>25, <1>28, <1>30, <1>33, Zenon DEF Kept
<1>35. \A i : Used(ar, i) /\ i # bt => br.hdr[i].size = ar.hdr[i].size
  BY <1>24, <1>28, <1>33, Zenon DEF Kept
<1>36. br.totalFree = Available(br, n)
  <2>1. ASSUME NEW i \in bt .. c - 1, i # bt, i # l
        PROVE  Weight(ar, i) = 0 /\ Weight(br, i) = 0
    <3>1. i \in bt + 1 .. c - 1 /\ i # bt + k
      BY <1>1, <1>25, <2>1
    <3>2. i \in 0 .. n - 1 /\ ar.hdr[i] = Junk
      BY <1>2, <3>1
    <3>3. Weight(ar, i) = 0
      BY <1>4, <3>2, WeightIs
    <3> QED BY <1>24, <3>1, <3>3 DEF Kept
  <2>2. bt # l
    BY <1>1, <1>5
  <2>3. /\ Available(br, n) = Available(ar, n) + (Weight(br, bt) - Weight(ar, bt))
                                               + (Weight(br, l) - Weight(ar, l))
        /\ Available(ar, n) \in Int
    <3>1. Quiet(ar, br, bt, c, bt, l)
      BY <2>1 DEF Quiet
    <3>2. Apart(n, bt, l)
      BY <2>2 DEF Apart
    <3>3. Totals(ar, br, n, bt, l)
      BY <1>23, <3>1, <3>2, Totalling
    <3> QED BY <3>3, Zenon DEF Totals
  <2>4. Weight(ar, bt) = 0
    BY <1>1, <1>4, WeightIs
  <2>5. Weight(br, bt) = 0
    BY <1>7, <1>13, <1>14, WeightIs
  <2>6. Weight(ar, l) = 0
    BY <1>4, <1>26, WeightIs
  <2>7. Weight(br, l) = 0
    BY <1>8, <1>13, <1>14, WeightIs
  <2> QED BY <1>4, <1>13, <2>3, <2>4, <2>5, <2>6, <2>7
<1>37. br.hdr[n] # Junk /\ br.hdr[n].used
  <2>1. ar.hdr[n] # Junk /\ ar.hdr[n].used /\ n \in 0 .. n /\ n >= c
    BY <1>1, InvFacts
  <2> QED BY <1>15, <2>1
<1>38. Injective(br.free) /\ Items(br.free) = FreeBlocksOf(br)
  BY <1>4, <1>13, <1>32
<1>39. ArenaInv(br, n)
  BY <1>23, <1>36, <1>37, <1>38, Ending
<1>40. ~ Used(ar, l)
  BY <1>27, <1>33
<1>41. br.hdr[bt].size = k
  BY <1>7, <1>14
<1>42. CutAt(ar, br, n, bt, k, l)
  BY <1>34, <1>35, <1>39, <1>40, <1>41, Zenon DEF CutAt
<1> QED BY <1>42 DEF br, kept, tag, rest, s, last, prevfree

LEMMA Shrinks ==
  ASSUME NEW n \in Nat, NEW ar, ArenaInv(ar, n), NEW bt, bt \in 0 .. n - 1, Used(ar, bt),
         NEW k, k \in Nat /\ k > 0 /\ k < ar.hdr[bt].size, NEW sz, sz = ar.hdr[bt].size
  PROVE  Resized(ar, Shrink(ar, bt, sz, k), n, bt, k)
<1> DEFINE l == bt + k
           br == Make(Make(ar, bt, Tag(k, TRUE, ar.hdr[bt].prevfree, FALSE)), l,
                      Tag(sz - k, TRUE, FALSE, ar.hdr[bt].last))
<1>1. l \in 0 .. n - 1 /\ bt # l
  <2>1. /\ ar.hdr[bt].size \in Nat /\ bt + ar.hdr[bt].size \in 0 .. n
    BY UsedBlock
  <2> QED BY <2>1
<1>2. /\ ArenaInv(br, n) /\ br.hdr[bt].size = k
      /\ \A i : Used(br, i) <=> Used(ar, i) \/ i = l
      /\ ~ Used(ar, l)
      /\ \A i : Used(ar, i) /\ i # bt => br.hdr[i].size = ar.hdr[i].size
  <2>1. \A l0 \in 0 .. n - 1 : l0 = bt + k =>
          CutAt(ar, Make(Make(ar, bt, Tag(k, TRUE, ar.hdr[bt].prevfree, FALSE)), l0,
                         Tag(sz - k, TRUE, FALSE, ar.hdr[bt].last)), n, bt, k, l0)
    BY Cut
  <2>2. CutAt(ar, br, n, bt, k, l)
    BY <1>1, <2>1, Zenon
  <2> QED BY <2>2, Zenon DEF CutAt
<1>3. Shrink(ar, bt, sz, k) = ar_free(br, l)
  BY Zenon DEF Shrink
<1> HIDE DEF br, l
<1>4. Used(br, l)
  BY <1>2
<1>5. Given(br, ar_free(br, l), n, l)
  BY <1>1, <1>2, <1>4, Frees
<1>6. Resized(ar, ar_free(br, l), n, bt, k)
  <2> DEFINE cr == ar_free(br, l)
  <2>1. /\ ArenaInv(cr, n) /\ \A i : Used(cr, i) <=> Used(br, i) /\ i # l
        /\ \A i : Used(cr, i) => cr.hdr[i].size = br.hdr[i].size
    BY <1>5, Zenon DEF Given
  <2> HIDE DEF cr
  <2>2. \A i : Used(cr, i) <=> Used(ar, i)
    BY <1>2, <2>1, Zenon
  <2>3. Used(cr, bt)
    BY <2>2
  <2>4. cr.hdr[bt].size = k
    BY <1>2, <2>1, <2>3, Zenon
  <2>5. \A i : Used(ar, i) /\ i # bt => cr.hdr[i].size = ar.hdr[i].size
    BY <1>2, <2>1, <2>2, Zenon
  <2> QED BY <2>1, <2>2, <2>4, <2>5, Zenon DEF Resized, cr
<1> QED BY <1>3, <1>6

(* A used block at bt, the free one at next behind it, and its end c          *)
Growing(ar, n, bt, next, c) ==
  /\ ArenaInv(ar, n) /\ bt \in 0 .. n - 1 /\ next \in 0 .. n - 1 /\ c \in 0 .. n
  /\ Used(ar, bt) /\ next = bt + ar.hdr[bt].size
  /\ ~ ar.hdr[next].used /\ c = next + ar.hdr[next].size

GrowingFacts(ar, n, bt, next, c) ==
  /\ Shaped(ar, n) /\ ar \in Shapes(n) /\ Injective(ar.free) /\ ArenaInv(ar, n)
  /\ Items(ar.free) = FreeBlocksOf(ar) /\ ar.totalFree = Available(ar, n)
  /\ bt \in 0 .. n - 1 /\ next \in 0 .. n - 1 /\ c \in 0 .. n /\ bt < next /\ next < c
  /\ bt \in BlocksOf(ar) /\ ar.hdr[bt] # Junk /\ ar.hdr[bt].used
  /\ ar.hdr[bt].prevfree \in BOOLEAN /\ ar.hdr[bt].size = next - bt
  /\ next \in FreeBlocksOf(ar) /\ ar.hdr[next] # Junk /\ ~ ar.hdr[next].used
  /\ ar.hdr[next].last \in BOOLEAN /\ ar.hdr[next].size = c - next
  /\ c \in BlocksOf(ar) \cup {n} /\ ar.hdr[c] # Junk /\ ar.hdr[c].used
  /\ c < n => ar.hdr[c].prevfree /\ ~ ar.hdr[next].last
  /\ \A j \in bt + 1 .. c - 1 : j # next => j \in 0 .. n - 1 /\ ar.hdr[j] = Junk
  /\ \A i \in BlocksOf(ar) : i # bt /\ i # next => i < bt \/ i >= c

LEMMA GrowingIs ==
  ASSUME NEW n \in Nat, NEW ar, NEW bt, NEW next, NEW c, Growing(ar, n, bt, next, c)
  PROVE  GrowingFacts(ar, n, bt, next, c)
<1>1. /\ ArenaInv(ar, n) /\ bt \in 0 .. n - 1 /\ next \in 0 .. n - 1 /\ c \in 0 .. n
      /\ Used(ar, bt) /\ next = bt + ar.hdr[bt].size
      /\ ~ ar.hdr[next].used /\ c = next + ar.hdr[next].size
  BY DEF Growing
<1>2. /\ Shaped(ar, n) /\ ar \in Shapes(n) /\ Injective(ar.free)
      /\ Items(ar.free) = FreeBlocksOf(ar) /\ ar.totalFree = Available(ar, n)
  BY <1>1, InvFacts DEF ArenaInv
<1>3. /\ ar.hdr[bt].size \in Nat /\ ar.hdr[bt].size > 0 /\ bt \in BlocksOf(ar)
      /\ ar.hdr[bt] # Junk /\ ar.hdr[bt].used /\ ar.hdr[bt].prevfree \in BOOLEAN
      /\ bt + ar.hdr[bt].size \in BlocksOf(ar) \cup {n}
      /\ \A j \in bt + 1 .. bt + ar.hdr[bt].size - 1 : j \in 0 .. n - 1 /\ ar.hdr[j] = Junk
  BY <1>1, UsedBlock
<1>4. bt < next /\ ar.hdr[bt].size = next - bt /\ bt + ar.hdr[bt].size - 1 = next - 1
  BY <1>1, <1>3
<1>5. \A j \in bt + 1 .. next - 1 : j \in 0 .. n - 1 /\ ar.hdr[j] = Junk
  BY <1>3, <1>4, Zenon
<1>6. next \in BlocksOf(ar)
  BY <1>1, <1>3
<1>7. next \in FreeBlocksOf(ar)
  BY <1>1, <1>6 DEF FreeBlocksOf
<1>8. /\ ar.hdr[next].size \in Nat /\ ar.hdr[next].size > 0 /\ ar.hdr[next].last \in BOOLEAN
      /\ ar.hdr[next] # Junk
      /\ \A j \in next + 1 .. next + ar.hdr[next].size - 1 : j \in 0 .. n - 1 /\ ar.hdr[j] = Junk
  BY <1>1, <1>7, FreeBlock
<1>9. next < c /\ ar.hdr[next].size = c - next /\ next + ar.hdr[next].size - 1 = c - 1
  BY <1>1, <1>8
<1>10. \A j \in next + 1 .. c - 1 : j \in 0 .. n - 1 /\ ar.hdr[j] = Junk
  BY <1>8, <1>9, Zenon
<1>11. /\ c \in BlocksOf(ar) \cup {n} /\ ar.hdr[c] # Junk /\ ar.hdr[c].used
       /\ c < n => ar.hdr[c].prevfree /\ ~ ar.hdr[next].last
  <2> DEFINE d == next + ar.hdr[next].size
  <2>1. /\ d \in BlocksOf(ar) \cup {n} /\ ar.hdr[d] # Junk /\ ar.hdr[d].used
        /\ d < n => ar.hdr[d].prevfree /\ ~ ar.hdr[next].last
    <3>1. next \in 0 .. n - 1 /\ ArenaInv(ar, n)
      BY <1>1
    <3> QED BY <1>7, <3>1, FreeBlock, SMTT(30)
  <2>2. d = c
    BY <1>1
  <2> HIDE DEF d
  <2> QED BY <2>1, <2>2
<1>12. \A j \in bt + 1 .. c - 1 : j # next => j \in 0 .. n - 1 /\ ar.hdr[j] = Junk
  <2> SUFFICES ASSUME NEW j \in bt + 1 .. c - 1, j # next
               PROVE  j \in 0 .. n - 1 /\ ar.hdr[j] = Junk
    OBVIOUS
  <2>1. j \in bt + 1 .. next - 1 \/ j \in next + 1 .. c - 1
    BY <1>1
  <2> QED BY <1>5, <1>10, <2>1
<1>13. \A i \in BlocksOf(ar) : i # bt /\ i # next => i < bt \/ i >= c
  <2> SUFFICES ASSUME NEW i \in BlocksOf(ar), i # bt, i # next, ~ (i < bt), ~ (i >= c)
               PROVE  FALSE
    OBVIOUS
  <2>1. i \in 0 .. n - 1 /\ ar.hdr[i] # Junk
    BY <1>2, BlockIn
  <2>2. i \in bt + 1 .. c - 1
    BY <1>1, <2>1
  <2> QED BY <1>12, <2>1, <2>2
<1> QED BY <1>1, <1>2, <1>3, <1>4, <1>7, <1>8, <1>9, <1>11, <1>12, <1>13, Zenon
        DEF GrowingFacts

(* The block has grown, and the arena up to its end l is as it is to be       *)
Grown(ar, br, n, bt, l, c) ==
  /\ br \in Shapes(n) /\ br.totalFree = ar.totalFree
  /\ \A i \in 0 .. n : i < bt \/ i >= c => br.hdr[i] = ar.hdr[i]
  /\ \A i \in bt + 1 .. c - 1 : br.hdr[i] = Junk
  /\ \A i \in 0 .. n - 1 : i < bt \/ i >= c => br.ftr[i] = ar.ftr[i]
  /\ br.ftr[l - 1] = Canary
  /\ br.hdr[bt] # Junk /\ br.hdr[bt].size = l - bt /\ br.hdr[bt].used /\ ~ br.hdr[bt].last
  /\ br.hdr[bt].prevfree <=> ar.hdr[bt].prevfree

GrownFrom(ar, br, n, bt, next, l, c) ==
  /\ Grown(ar, br, n, bt, l, c) /\ Injective(br.free)
  /\ Items(br.free) = FreeBlocksOf(ar) \ {next}

LEMMA GrownIs ==
  ASSUME NEW n \in Nat, NEW ar, NEW bt, NEW next, NEW c, GrowingFacts(ar, n, bt, next, c),
         NEW l, l \in 0 .. n /\ next < l /\ l <= c
  PROVE  LET br == Make(n_remove(ar, next), bt, Tag(l - bt, TRUE, ar.hdr[bt].prevfree, FALSE))
         IN  GrownFrom(ar, br, n, bt, next, l, c)
<1> DEFINE prevfree == ar.hdr[bt].prevfree
           s == l - bt
           alone == n_remove(ar, next)
           tag == Tag(s, TRUE, prevfree, FALSE)
           br == Make(alone, bt, tag)
<1>1. /\ ar \in Shapes(n) /\ Injective(ar.free) /\ Items(ar.free) = FreeBlocksOf(ar)
      /\ bt \in 0 .. n - 1 /\ next \in 0 .. n - 1 /\ c \in 0 .. n /\ bt < next /\ next < c
      /\ prevfree \in BOOLEAN /\ next \in FreeBlocksOf(ar)
  BY DEF GrowingFacts
<1>2. \A j \in bt + 1 .. c - 1 : j # next => j \in 0 .. n - 1 /\ ar.hdr[j] = Junk
  BY DEF GrowingFacts
<1>3. s \in Nat /\ bt < l /\ s = l - bt
  BY <1>1
<1>4. prevfree = ar.hdr[bt].prevfree
  OBVIOUS
<1> HIDE DEF prevfree, s
<1>5. UsedTag(tag, s, prevfree, FALSE)
  BY <1>1, <1>3, UsedTagIs, Zenon
<1>6. /\ tag \in Tags /\ tag # Junk /\ tag.size = s /\ tag.used
      /\ tag.prevfree = prevfree /\ ~ tag.last
  BY <1>5, Zenon DEF UsedTag
<1> HIDE DEF tag
<1>7. Delisted(ar, alone, n, next)
  BY <1>1, Removing
<1>8. alone \in Shapes(n)
  BY <1>7 DEF Delisted
<1> HIDE DEF alone
<1>9. Spans(n, bt, l, tag)
  BY <1>1, <1>3, <1>6 DEF Spans
<1>10. Made(alone, br, n, bt, l, tag)
  BY <1>8, <1>9, Making
<1> HIDE DEF br
<1>11. /\ br \in Shapes(n) /\ br.totalFree = ar.totalFree /\ Injective(br.free)
       /\ Items(br.free) = FreeBlocksOf(ar) \ {next}
  BY <1>1, <1>7, <1>10 DEF Delisted, Made
<1>12. \A i \in 0 .. n : i < bt \/ i >= c => br.hdr[i] = ar.hdr[i]
  <2> SUFFICES ASSUME NEW i \in 0 .. n, i < bt \/ i >= c PROVE br.hdr[i] = ar.hdr[i]
    OBVIOUS
  <2>1. i # bt /\ ~ (i > bt /\ i < l)
    BY <1>1
  <2> QED BY <1>7, <1>10, <2>1 DEF Delisted, Made
<1>13. \A i \in bt + 1 .. c - 1 : br.hdr[i] = Junk
  <2> SUFFICES ASSUME NEW i \in bt + 1 .. c - 1 PROVE br.hdr[i] = Junk
    OBVIOUS
  <2>1. i \in 0 .. n /\ i > bt /\ i # bt /\ i \in Int /\ l \in Int /\ next \in Int
    BY <1>1
  <2>2. CASE i < l
    BY <1>10, <2>1, <2>2 DEF Made
  <2>3. CASE ~ (i < l)
    <3>1. i # next
      BY <2>1, <2>3
    <3>2. br.hdr[i] = ar.hdr[i]
      BY <1>7, <1>10, <2>1, <2>3 DEF Delisted, Made
    <3> QED BY <1>2, <3>1, <3>2
  <2> QED BY <2>2, <2>3
<1>14. \A i \in 0 .. n - 1 : i < bt \/ i >= c => br.ftr[i] = ar.ftr[i]
  <2> SUFFICES ASSUME NEW i \in 0 .. n - 1, i < bt \/ i >= c PROVE br.ftr[i] = ar.ftr[i]
    OBVIOUS
  <2>1. i # l - 1 /\ ~ (i >= bt /\ i < l)
    BY <1>1, <1>3
  <2> QED BY <1>7, <1>10, <2>1 DEF Delisted, Made
<1>15. br.ftr[l - 1] = Canary
  <2>1. l - 1 \in 0 .. n - 1
    BY <1>1, <1>3
  <2> QED BY <1>6, <1>10, <2>1 DEF Made
<1>16. br.hdr[bt] = tag
  <2>1. bt \in 0 .. n
    BY <1>1
  <2> QED BY <1>10, <2>1 DEF Made
<1>17. Grown(ar, br, n, bt, l, c)
  BY <1>3, <1>4, <1>6, <1>11, <1>12, <1>13, <1>14, <1>15, <1>16, Zenon DEF Grown
<1>18. GrownFrom(ar, br, n, bt, next, l, c)
  BY <1>11, <1>17 DEF GrownFrom
<1> QED BY <1>18 DEF br, tag, alone, s, prevfree

LEMMA GrowSplit ==
  ASSUME NEW n \in Nat, NEW ar, NEW bt, NEW next, NEW c, Growing(ar, n, bt, next, c),
         NEW k, k \in Nat, NEW l, l \in 0 .. n /\ l = bt + k /\ next < l /\ l < c,
         NEW sz, sz = ar.hdr[bt].size
  PROVE  LET grown == Make(n_remove(ar, next), bt, Tag(k, TRUE, ar.hdr[bt].prevfree, FALSE))
             rest == Tag((sz + ar.hdr[next].size) - k, FALSE, FALSE, ar.hdr[next].last)
         IN  Resized(ar, ar_dec_free(n_insert(Make(grown, l, rest), l), Bytes(k - sz)), n, bt, k)
<1> DEFINE grown == Make(n_remove(ar, next), bt, Tag(k, TRUE, ar.hdr[bt].prevfree, FALSE))
           last == ar.hdr[next].last
           s == (sz + ar.hdr[next].size) - k
           rest == Tag(s, FALSE, FALSE, last)
           split == Make(grown, l, rest)
           linked == n_insert(split, l)
           d == Bytes(k - sz)
           br == ar_dec_free(linked, d)
<1>1. GrowingFacts(ar, n, bt, next, c)
  BY GrowingIs
<1>2. /\ Shaped(ar, n) /\ ar \in Shapes(n) /\ Injective(ar.free) /\ ArenaInv(ar, n)
      /\ Items(ar.free) = FreeBlocksOf(ar) /\ ar.totalFree = Available(ar, n)
      /\ bt \in 0 .. n - 1 /\ next \in 0 .. n - 1 /\ c \in 0 .. n /\ bt < next /\ next < c
      /\ bt \in BlocksOf(ar) /\ ar.hdr[bt] # Junk /\ ar.hdr[bt].used
      /\ ar.hdr[bt].prevfree \in BOOLEAN /\ ar.hdr[bt].size = next - bt
      /\ next \in FreeBlocksOf(ar) /\ ar.hdr[next] # Junk /\ ~ ar.hdr[next].used
      /\ ar.hdr[next].last \in BOOLEAN /\ ar.hdr[next].size = c - next
      /\ c \in BlocksOf(ar) \cup {n} /\ ar.hdr[c] # Junk /\ ar.hdr[c].used
      /\ c < n => ar.hdr[c].prevfree /\ ~ ar.hdr[next].last
  BY <1>1, Zenon DEF GrowingFacts
<1>3. /\ \A j \in bt + 1 .. c - 1 : j # next => j \in 0 .. n - 1 /\ ar.hdr[j] = Junk
      /\ \A i \in BlocksOf(ar) : i # bt /\ i # next => i < bt \/ i >= c
  BY <1>1, Zenon DEF GrowingFacts
<1>4. s \in Nat /\ s = c - l /\ bt < l /\ k = l - bt /\ l \in 0 .. n - 1 /\ sz = next - bt
  BY <1>2
<1>5. d = 16 * (l - next) /\ d \in Int
  BY <1>2, <1>4 DEF Bytes, ALIGNMENT
<1>6. Grown(ar, grown, n, bt, l, c) /\ Injective(grown.free)
      /\ Items(grown.free) = FreeBlocksOf(ar) \ {next}
  <2>1. l <= c /\ k = l - bt
    BY <1>2, <1>4
  <2>2. GrownFrom(ar, Make(n_remove(ar, next), bt, Tag(l - bt, TRUE, ar.hdr[bt].prevfree, FALSE)),
                  n, bt, next, l, c)
    BY <1>1, <2>1, GrownIs
  <2>3. GrownFrom(ar, grown, n, bt, next, l, c)
    BY <2>1, <2>2, Zenon
  <2> HIDE DEF grown
  <2> QED BY <2>3, Zenon DEF GrownFrom
<1> HIDE DEF grown, last, s, d
<1>7. /\ grown \in Shapes(n) /\ grown.totalFree = ar.totalFree
      /\ \A i \in 0 .. n : i < bt \/ i >= c => grown.hdr[i] = ar.hdr[i]
      /\ \A i \in bt + 1 .. c - 1 : grown.hdr[i] = Junk
      /\ \A i \in 0 .. n - 1 : i < bt \/ i >= c => grown.ftr[i] = ar.ftr[i]
      /\ grown.ftr[l - 1] = Canary
      /\ grown.hdr[bt] # Junk /\ grown.hdr[bt].size = k /\ grown.hdr[bt].used
      /\ ~ grown.hdr[bt].last
      /\ grown.hdr[bt].prevfree <=> ar.hdr[bt].prevfree
  <2>1. k = l - bt
    BY <1>4
  <2> QED BY <1>6, <2>1, Zenon DEF Grown
<1>8. /\ rest \in Tags /\ rest # Junk /\ rest.size = s /\ ~ rest.used
      /\ ~ rest.prevfree /\ rest.last = last
  <2>1. last \in BOOLEAN
    BY <1>2 DEF last
  <2>2. FreeTag(rest, s, FALSE, last)
    BY <1>4, <2>1, FreeTagIs, Zenon
  <2> QED BY <2>2, Zenon DEF FreeTag
<1> HIDE DEF rest
<1>9. Spans(n, l, c, rest)
  BY <1>2, <1>4, <1>8 DEF Spans
<1>10. Made(grown, split, n, l, c, rest)
  BY <1>7, <1>9, Making
<1> HIDE DEF split
<1>11. l \notin FreeBlocksOf(ar) /\ ar.hdr[l] = Junk
  <2>1. l \in bt + 1 .. c - 1 /\ l # next
    BY <1>2, <1>4
  <2>2. ar.hdr[l] = Junk
    BY <1>3, <2>1
  <2> QED BY <1>2, <2>2, BlockIn DEF FreeBlocksOf
<1>12. Listed(split, linked, n, l)
  <2>1. split \in Shapes(n) /\ Injective(split.free) /\ l \notin Items(split.free)
    BY <1>6, <1>10, <1>11 DEF Made
  <2> QED BY <1>4, <2>1, Inserting
<1> HIDE DEF linked
<1>13. Counted(linked, br, n, linked.totalFree - d)
  <2>1. linked \in Shapes(n)
    BY <1>12 DEF Listed
  <2> QED BY <1>5, <2>1, Counting
<1> HIDE DEF br
<1>14. /\ br \in Shapes(n) /\ br.totalFree = ar.totalFree - d
       /\ br.hdr = split.hdr /\ br.ftr = split.ftr
       /\ Injective(br.free) /\ Items(br.free) = (FreeBlocksOf(ar) \ {next}) \cup {l}
  BY <1>6, <1>7, <1>10, <1>12, <1>13 DEF Made, Listed, Counted
<1>15. /\ br.hdr[l] = rest /\ br.hdr[bt] = grown.hdr[bt]
  <2>1. bt \in 0 .. n /\ l \in 0 .. n /\ bt # l /\ ~ (bt > l)
    BY <1>2, <1>4
  <2> QED BY <1>10, <1>14, <2>1 DEF Made
<1>16. \A i \in 0 .. n : i < bt \/ i >= c => br.hdr[i] = ar.hdr[i]
  <2> SUFFICES ASSUME NEW i \in 0 .. n, i < bt \/ i >= c PROVE br.hdr[i] = ar.hdr[i]
    OBVIOUS
  <2>1. i # l /\ ~ (i > l /\ i < c)
    BY <1>2, <1>4
  <2> QED BY <1>7, <1>10, <1>14, <2>1 DEF Made
<1>17. \A i \in bt + 1 .. c - 1 : i # l => br.hdr[i] = Junk
  <2> SUFFICES ASSUME NEW i \in bt + 1 .. c - 1, i # l PROVE br.hdr[i] = Junk
    OBVIOUS
  <2>1. i \in 0 .. n /\ i < c
    BY <1>2
  <2> QED BY <1>7, <1>10, <1>14, <2>1 DEF Made
<1>18. \A i \in 0 .. n - 1 : i < bt \/ i >= c => br.ftr[i] = ar.ftr[i]
  <2> SUFFICES ASSUME NEW i \in 0 .. n - 1, i < bt \/ i >= c PROVE br.ftr[i] = ar.ftr[i]
    OBVIOUS
  <2>1. i # c - 1 /\ ~ (i >= l /\ i < c)
    BY <1>2, <1>4
  <2> QED BY <1>7, <1>10, <1>14, <2>1 DEF Made
<1>19. br.ftr[l - 1] = Canary /\ br.ftr[c - 1] = rest
  <2>1. l - 1 \in 0 .. n - 1 /\ c - 1 \in 0 .. n - 1 /\ l - 1 # c - 1 /\ ~ (l - 1 >= l)
    BY <1>2, <1>4
  <2>2. br.ftr[c - 1] = rest
    BY <1>8, <1>10, <1>14, <2>1 DEF Made
  <2>3. br.ftr[l - 1] = grown.ftr[l - 1]
    BY <1>10, <1>14, <2>1 DEF Made
  <2> QED BY <1>7, <2>2, <2>3
<1>20. br.hdr[c] = ar.hdr[c]
  BY <1>2, <1>16
<1>21. \A i \in 0 .. n : i < bt \/ i > c => br.hdr[i] = ar.hdr[i]
  BY <1>2, <1>16
<1>22. TwoBlocks(ar, br, n, bt, l, c)
  <2>1. br.hdr[bt] # Junk /\ br.hdr[bt].size = l - bt
    BY <1>4, <1>7, <1>15
  <2>2. br.hdr[bt].prevfree <=> ar.hdr[bt].prevfree
    BY <1>7, <1>15
  <2>3. br.hdr[bt].used /\ ~ br.hdr[bt].last
    BY <1>7, <1>15
  <2>4. br.hdr[l] # Junk /\ br.hdr[l].size = c - l /\ ~ br.hdr[l].prevfree /\ ~ br.hdr[l].used
    BY <1>4, <1>8, <1>15
  <2>5. br.ftr[c - 1] = IF br.hdr[l].used THEN Canary ELSE br.hdr[l]
    BY <1>15, <1>19, <2>4
  <2>6. c < n => ~ br.hdr[l].last
    BY <1>2, <1>8, <1>15 DEF last
  <2>7. c < n =>
          /\ br.hdr[c] # Junk /\ br.hdr[c].size = ar.hdr[c].size
          /\ br.hdr[c].used = ar.hdr[c].used /\ br.hdr[c].last = ar.hdr[c].last
          /\ br.hdr[c].prevfree <=> ~ br.hdr[l].used
          /\ br.hdr[l].used \/ br.hdr[c].used
          /\ ~ br.hdr[l].last
          /\ ~ ar.hdr[c].used => br.hdr[c] = ar.hdr[c]
    BY <1>2, <1>20, <2>4, <2>6, Zenon
  <2> QED BY <1>17, <1>18, <1>19, <1>21, <2>1, <2>2, <2>3, <2>4, <2>5, <2>7, Zenon DEF TwoBlocks
<1>23. Retiling(ar, br, n, bt, l - bt, c)
  <2>1. bt < l /\ l < c
    BY <1>4
  <2> QED BY <1>2, <1>4, <1>14, <1>22, <2>1, Two
<1>24. Retiling(ar, br, n, bt, k, c)
  BY <1>4, <1>23
<1>25. Kept(ar, br, n, bt, k, c)
  BY <1>24, Keeping
<1>26. bt + k = l /\ l < c /\ ~ (bt < bt) /\ ~ (bt >= c) /\ ~ (next < bt) /\ ~ (next >= c)
       /\ next # l /\ bt # l /\ next # bt
  BY <1>2, <1>4
<1>27. \A i : i \in FreeBlocksOf(ar) => i \in BlocksOf(ar) /\ i # bt
  BY <1>2 DEF FreeBlocksOf
<1>28. br.hdr[bt].used /\ ~ br.hdr[l].used
  BY <1>7, <1>8, <1>15
<1>29. \A i : i \in FreeBlocksOf(br) <=> (i \in FreeBlocksOf(ar) /\ i # next) \/ i = l
  BY <1>3, <1>25, <1>26, <1>27, <1>28, Zenon DEF Kept
<1>30. FreeBlocksOf(br) = (FreeBlocksOf(ar) \ {next}) \cup {l}
  BY <1>29, Zenon
<1>31. \A i : Used(ar, i) => i \in BlocksOf(ar) /\ i # next
  BY <1>2 DEF Used
<1>32. Used(ar, bt)
  BY <1>2 DEF Used
<1>33. \A i : Used(br, i) <=> Used(ar, i)
  BY <1>3, <1>25, <1>26, <1>28, <1>31, <1>32, Zenon DEF Kept
<1>34. \A i : Used(ar, i) /\ i # bt => br.hdr[i].size = ar.hdr[i].size
  BY <1>3, <1>25, <1>31, Zenon DEF Kept
<1>35. br.totalFree = Available(br, n)
  <2>1. ASSUME NEW i \in bt .. c - 1, i # next, i # l
        PROVE  Weight(ar, i) = 0 /\ Weight(br, i) = 0
    <3>1. CASE i = bt
      <4>1. Weight(ar, bt) = 0
        BY <1>2, WeightIs
      <4>2. Weight(br, bt) = 0
        BY <1>2, <1>7, <1>14, <1>15, WeightIs
      <4> QED BY <3>1, <4>1, <4>2
    <3>2. CASE i # bt
      <4>1. i \in bt + 1 .. c - 1 /\ i # bt + k
        BY <1>2, <1>26, <2>1, <3>2
      <4>2. i \in 0 .. n - 1 /\ ar.hdr[i] = Junk
        BY <1>3, <2>1, <4>1
      <4>3. Weight(ar, i) = 0
        BY <1>2, <4>2, WeightIs
      <4> QED BY <1>25, <4>1, <4>3 DEF Kept
    <3> QED BY <3>1, <3>2
  <2>2. /\ Available(br, n) = Available(ar, n) + (Weight(br, next) - Weight(ar, next))
                                               + (Weight(br, l) - Weight(ar, l))
        /\ Available(ar, n) \in Int
    <3>1. next \in 0 .. n - 1 /\ l \in 0 .. n - 1 /\ next # l
      BY <1>2, <1>4, <1>26
    <3>2. Quiet(ar, br, bt, c, next, l)
      BY <2>1 DEF Quiet
    <3>3. Apart(n, next, l)
      BY <3>1, Zenon DEF Apart
    <3>4. Totals(ar, br, n, next, l)
      BY <1>24, <3>2, <3>3, Totalling
    <3> QED BY <3>4, Zenon DEF Totals
  <2>3. Weight(ar, next) = 16 * (c - next) - 8
    BY <1>2, WeightIs
  <2>4. Weight(br, next) = 0
    <3>1. next \in bt + 1 .. c - 1 /\ next # bt + k
      BY <1>2, <1>26
    <3> QED BY <1>25, <3>1 DEF Kept
  <2>5. Weight(ar, l) = 0
    BY <1>2, <1>4, <1>11, WeightIs
  <2>6. Weight(br, l) = 16 * (c - l) - 8
    <3>1. br.hdr[l] # Junk /\ ~ br.hdr[l].used /\ br.hdr[l].size = c - l
      BY <1>4, <1>8, <1>15
    <3> QED BY <1>4, <1>14, <3>1, WeightIs
  <2>7. l \in Int /\ c \in Int /\ next \in Int
    BY <1>2, <1>4
  <2> QED BY <1>2, <1>5, <1>14, <2>2, <2>3, <2>4, <2>5, <2>6, <2>7
<1>36. br.hdr[n] # Junk /\ br.hdr[n].used
  <2>1. ar.hdr[n] # Junk /\ ar.hdr[n].used /\ n \in 0 .. n /\ n >= c
    BY <1>2, InvFacts
  <2> QED BY <1>16, <2>1
<1>37. Injective(br.free) /\ Items(br.free) = FreeBlocksOf(br)
  BY <1>14, <1>30
<1>38. ArenaInv(br, n)
  BY <1>2, <1>24, <1>35, <1>36, <1>37, Ending
<1>39. br.hdr[bt].size = k
  BY <1>7, <1>15
<1>40. Resized(ar, br, n, bt, k)
  BY <1>33, <1>34, <1>38, <1>39, Zenon DEF Resized
<1> QED BY <1>40 DEF br, linked, split, rest, grown, s, last, d

LEMMA GrowExact ==
  ASSUME NEW n \in Nat, NEW ar, NEW bt, NEW next, NEW c, Growing(ar, n, bt, next, c),
         NEW k, k \in Nat /\ bt + k = c
  PROVE  LET grown == Make(n_remove(ar, next), bt, Tag(k, TRUE, ar.hdr[bt].prevfree, FALSE))
         IN  Resized(ar, ar_dec_free(SetPrevfree(grown, c, FALSE),
                                     Bytes(ar.hdr[next].size) - USEDBLK_SZ), n, bt, k)
<1> DEFINE grown == Make(n_remove(ar, next), bt, Tag(k, TRUE, ar.hdr[bt].prevfree, FALSE))
           told == SetPrevfree(grown, c, FALSE)
           d == Bytes(ar.hdr[next].size) - USEDBLK_SZ
           br == ar_dec_free(told, d)
<1>1. GrowingFacts(ar, n, bt, next, c)
  BY GrowingIs
<1>2. /\ Shaped(ar, n) /\ ar \in Shapes(n) /\ Injective(ar.free) /\ ArenaInv(ar, n)
      /\ Items(ar.free) = FreeBlocksOf(ar) /\ ar.totalFree = Available(ar, n)
      /\ bt \in 0 .. n - 1 /\ next \in 0 .. n - 1 /\ c \in 0 .. n /\ bt < next /\ next < c
      /\ bt \in BlocksOf(ar) /\ ar.hdr[bt] # Junk /\ ar.hdr[bt].used
      /\ ar.hdr[bt].prevfree \in BOOLEAN /\ ar.hdr[bt].size = next - bt
      /\ next \in FreeBlocksOf(ar) /\ ar.hdr[next] # Junk /\ ~ ar.hdr[next].used
      /\ ar.hdr[next].last \in BOOLEAN /\ ar.hdr[next].size = c - next
      /\ c \in BlocksOf(ar) \cup {n} /\ ar.hdr[c] # Junk /\ ar.hdr[c].used
      /\ c < n => ar.hdr[c].prevfree /\ ~ ar.hdr[next].last
  BY <1>1, Zenon DEF GrowingFacts
<1>3. /\ \A j \in bt + 1 .. c - 1 : j # next => j \in 0 .. n - 1 /\ ar.hdr[j] = Junk
      /\ \A i \in BlocksOf(ar) : i # bt /\ i # next => i < bt \/ i >= c
  BY <1>1, Zenon DEF GrowingFacts
<1>4. k = c - bt /\ bt < c
  BY <1>2
<1>5. d = 16 * (c - next) - 8 /\ d \in Int
  BY <1>2 DEF Bytes, ALIGNMENT, USEDBLK_SZ
<1>6. Grown(ar, grown, n, bt, c, c) /\ Injective(grown.free)
      /\ Items(grown.free) = FreeBlocksOf(ar) \ {next}
  <2>1. c \in 0 .. n /\ next < c /\ c <= c
    BY <1>2
  <2>2. GrownFrom(ar, Make(n_remove(ar, next), bt, Tag(c - bt, TRUE, ar.hdr[bt].prevfree, FALSE)),
                  n, bt, next, c, c)
    BY <1>1, <2>1, GrownIs
  <2>3. GrownFrom(ar, grown, n, bt, next, c, c)
    BY <1>4, <2>2, Zenon
  <2> HIDE DEF grown
  <2> QED BY <2>3, Zenon DEF GrownFrom
<1> HIDE DEF grown, d
<1>7. /\ grown \in Shapes(n) /\ grown.totalFree = ar.totalFree
      /\ \A i \in 0 .. n : i < bt \/ i >= c => grown.hdr[i] = ar.hdr[i]
      /\ \A i \in bt + 1 .. c - 1 : grown.hdr[i] = Junk
      /\ \A i \in 0 .. n - 1 : i < bt \/ i >= c => grown.ftr[i] = ar.ftr[i]
      /\ grown.ftr[c - 1] = Canary
      /\ grown.hdr[bt] # Junk /\ grown.hdr[bt].size = c - bt /\ grown.hdr[bt].used
      /\ ~ grown.hdr[bt].last
      /\ grown.hdr[bt].prevfree <=> ar.hdr[bt].prevfree
  BY <1>6, Zenon DEF Grown
<1>8. grown.hdr[c] = ar.hdr[c] /\ c \in 0 .. n /\ grown.hdr[c] # Junk
  BY <1>2, <1>7
<1>9. Retagged(grown, told, n, c) /\ ~ told.hdr[c].prevfree /\ told.hdr[c].last = grown.hdr[c].last
  BY <1>7, <1>8, Flagging
<1> HIDE DEF told
<1>10. Counted(told, br, n, told.totalFree - d)
  <2>1. told \in Shapes(n)
    BY <1>9 DEF Retagged
  <2> QED BY <1>5, <2>1, Counting
<1> HIDE DEF br
<1>11. /\ br \in Shapes(n) /\ br.totalFree = ar.totalFree - d
       /\ br.hdr = told.hdr /\ br.ftr = grown.ftr
       /\ Injective(br.free) /\ Items(br.free) = FreeBlocksOf(ar) \ {next}
  BY <1>6, <1>7, <1>9, <1>10 DEF Retagged, Counted
<1>12. br.hdr[bt] = grown.hdr[bt]
  <2>1. bt \in 0 .. n /\ bt # c
    BY <1>2
  <2> QED BY <1>9, <1>11, <2>1 DEF Retagged
<1>13. \A i \in 0 .. n : i < bt \/ i > c => br.hdr[i] = ar.hdr[i]
  <2> SUFFICES ASSUME NEW i \in 0 .. n, i < bt \/ i > c PROVE br.hdr[i] = ar.hdr[i]
    OBVIOUS
  <2>1. i # c /\ (i < bt \/ i >= c)
    BY <1>2
  <2> QED BY <1>7, <1>9, <1>11, <2>1 DEF Retagged
<1>14. \A i \in bt + 1 .. c - 1 : br.hdr[i] = Junk
  <2> SUFFICES ASSUME NEW i \in bt + 1 .. c - 1 PROVE br.hdr[i] = Junk
    OBVIOUS
  <2>1. i \in 0 .. n /\ i # c
    BY <1>2
  <2> QED BY <1>7, <1>9, <1>11, <2>1 DEF Retagged
<1>15. /\ br.hdr[c] # Junk /\ br.hdr[c].size = ar.hdr[c].size /\ br.hdr[c].used
       /\ br.hdr[c].used = ar.hdr[c].used /\ br.hdr[c].last = ar.hdr[c].last
       /\ ~ br.hdr[c].prevfree /\ ar.hdr[c].used
  BY <1>2, <1>8, <1>9, <1>11 DEF Retagged
<1>16. OneBlock(ar, br, n, bt, c)
  <2>1. br.hdr[bt] # Junk /\ br.hdr[bt].size = c - bt /\ br.hdr[bt].used /\ ~ br.hdr[bt].last
    BY <1>7, <1>12
  <2>2. br.hdr[bt].prevfree <=> ar.hdr[bt].prevfree
    BY <1>7, <1>12
  <2>3. br.ftr[c - 1] = IF br.hdr[bt].used THEN Canary ELSE br.hdr[bt]
    BY <1>7, <1>11, <2>1
  <2>4. \A i \in 0 .. n - 1 : i < bt \/ i >= c => br.ftr[i] = ar.ftr[i]
    BY <1>7, <1>11
  <2> QED BY <1>13, <1>14, <1>15, <2>1, <2>2, <2>3, <2>4, Zenon DEF OneBlock
<1>17. Retiling(ar, br, n, bt, c - bt, c)
  BY <1>2, <1>4, <1>11, <1>16, One
<1>18. Kept(ar, br, n, bt, c - bt, c)
  BY <1>17, Keeping
<1>19. bt + (c - bt) = c /\ ~ (c < c) /\ ~ (bt < bt) /\ ~ (bt >= c)
       /\ ~ (next < bt) /\ ~ (next >= c) /\ next # bt
  BY <1>2, <1>4
<1>20. \A i : i \in FreeBlocksOf(ar) => i \in BlocksOf(ar) /\ i # bt
  BY <1>2 DEF FreeBlocksOf
<1>21. br.hdr[bt].used
  BY <1>7, <1>12
<1>22. \A i : i \in FreeBlocksOf(br) <=> i \in FreeBlocksOf(ar) /\ i # next
  BY <1>3, <1>18, <1>19, <1>20, <1>21, Zenon DEF Kept
<1>23. FreeBlocksOf(br) = FreeBlocksOf(ar) \ {next}
  BY <1>22, Zenon
<1>24. \A i : Used(ar, i) => i \in BlocksOf(ar) /\ i # next
  BY <1>2 DEF Used
<1>25. Used(ar, bt)
  BY <1>2 DEF Used
<1>26. \A i : Used(br, i) <=> Used(ar, i)
  BY <1>3, <1>18, <1>19, <1>21, <1>24, <1>25, Zenon DEF Kept
<1>27. \A i : Used(ar, i) /\ i # bt => br.hdr[i].size = ar.hdr[i].size
  BY <1>3, <1>18, <1>24, Zenon DEF Kept
<1>28. br.totalFree = Available(br, n)
  <2>1. ASSUME NEW i \in bt .. c - 1, i # next, i # bt
        PROVE  Weight(ar, i) = 0 /\ Weight(br, i) = 0
    <3>1. i \in bt + 1 .. c - 1 /\ i # bt + (c - bt)
      BY <1>2, <1>19, <2>1
    <3>2. i \in 0 .. n - 1 /\ ar.hdr[i] = Junk
      BY <1>3, <2>1, <3>1
    <3>3. Weight(ar, i) = 0
      BY <1>2, <3>2, WeightIs
    <3> QED BY <1>18, <3>1, <3>3 DEF Kept
  <2>2. /\ Available(br, n) = Available(ar, n) + (Weight(br, next) - Weight(ar, next))
                                               + (Weight(br, bt) - Weight(ar, bt))
        /\ Available(ar, n) \in Int
    <3>1. next \in 0 .. n - 1 /\ bt \in 0 .. n - 1 /\ next # bt
      BY <1>2, <1>19
    <3>2. Quiet(ar, br, bt, c, next, bt)
      BY <2>1 DEF Quiet
    <3>3. Apart(n, next, bt)
      BY <3>1, Zenon DEF Apart
    <3>4. Totals(ar, br, n, next, bt)
      BY <1>17, <3>2, <3>3, Totalling
    <3> QED BY <3>4, Zenon DEF Totals
  <2>3. Weight(ar, next) = 16 * (c - next) - 8
    BY <1>2, WeightIs
  <2>4. Weight(br, next) = 0
    <3>1. next \in bt + 1 .. c - 1 /\ next # bt + (c - bt)
      BY <1>2, <1>19
    <3> QED BY <1>18, <3>1 DEF Kept
  <2>5. Weight(ar, bt) = 0
    BY <1>2, WeightIs
  <2>6. Weight(br, bt) = 0
    BY <1>2, <1>7, <1>11, <1>12, WeightIs
  <2>7. c \in Int /\ next \in Int
    BY <1>2
  <2> QED BY <1>2, <1>5, <1>11, <2>2, <2>3, <2>4, <2>5, <2>6, <2>7
<1>29. br.hdr[n] # Junk /\ br.hdr[n].used
  <2>1. CASE c = n
    BY <1>15, <2>1
  <2>2. CASE c # n
    <3>1. ar.hdr[n] # Junk /\ ar.hdr[n].used /\ n \in 0 .. n /\ n > c
      BY <1>2, <2>2, InvFacts
    <3> QED BY <1>13, <3>1
  <2> QED BY <2>1, <2>2
<1>30. Injective(br.free) /\ Items(br.free) = FreeBlocksOf(br)
  BY <1>11, <1>23
<1>31. ArenaInv(br, n)
  BY <1>2, <1>17, <1>28, <1>29, <1>30, Ending
<1>32. br.hdr[bt].size = k
  BY <1>4, <1>7, <1>12
<1>33. Resized(ar, br, n, bt, k)
  BY <1>26, <1>27, <1>31, <1>32, Zenon DEF Resized
<1> QED BY <1>33 DEF br, told, grown, d

LEMMA Grows ==
  ASSUME NEW n \in Nat, NEW ar, ArenaInv(ar, n), NEW bt, bt \in 0 .. n - 1, Used(ar, bt),
         NEW sz, sz = ar.hdr[bt].size, NEW k, k \in Nat /\ k > sz, CanGrow(ar, bt, sz, k)
  PROVE  Resized(ar, Grow(ar, bt, sz, k), n, bt, k)
<1> DEFINE next == bt_next(ar, bt)
           c == next + ar.hdr[next].size
           l == bt + k
<1>1. next = bt + ar.hdr[bt].size /\ ar.hdr[bt].size \in Nat /\ next \in 0 .. n
      /\ next \in BlocksOf(ar) \cup {n} /\ (~ ar.hdr[next].used => next < n)
      /\ ar.hdr[next] # Junk
  BY UsedBlock DEF bt_next
<1>2. ~ ar.hdr[next].used /\ sz + ar.hdr[next].size >= k
  BY DEF CanGrow
<1>3. next \in FreeBlocksOf(ar) /\ next \in 0 .. n - 1
  BY <1>1, <1>2 DEF FreeBlocksOf
<1> HIDE DEF next
<1>4. ar.hdr[next].size \in Nat /\ c \in 0 .. n
  BY <1>3, FreeBlock
<1>5. Growing(ar, n, bt, next, c)
  <2>1. c = next + ar.hdr[next].size
    OBVIOUS
  <2> HIDE DEF c
  <2> QED BY <1>1, <1>2, <1>3, <1>4, <2>1 DEF Growing
<1>6. l \in 0 .. n /\ next < l /\ l <= c
  BY <1>1, <1>2, <1>3, <1>4
<1>7. sz + ar.hdr[next].size > k <=> l < c
  BY <1>1, <1>2, <1>3, <1>4
<1> DEFINE grown == Make(n_remove(ar, next), bt, Tag(k, TRUE, ar.hdr[bt].prevfree, FALSE))
<1>8. CASE sz + ar.hdr[next].size > k
  <2> DEFINE rest == Tag((sz + ar.hdr[next].size) - k, FALSE, FALSE, ar.hdr[next].last)
  <2>1. Grow(ar, bt, sz, k) = ar_dec_free(n_insert(Make(grown, l, rest), l), Bytes(k - sz))
    <3>1. Grow(ar, bt, sz, k) =
            IF sz + ar.hdr[next].size > k
              THEN ar_dec_free(n_insert(Make(grown, l, rest), l), Bytes(k - sz))
              ELSE ar_dec_free(SetPrevfree(grown, l, FALSE), Bytes(ar.hdr[next].size) - USEDBLK_SZ)
      BY Zenon DEF Grow, next, bt_next
    <3> HIDE DEF grown, l, rest
    <3> QED BY <1>8, <3>1
  <2>2. Resized(ar, ar_dec_free(n_insert(Make(grown, l, rest), l), Bytes(k - sz)), n, bt, k)
    <3>1. k \in Nat /\ l = bt + k /\ l \in 0 .. n /\ next < l /\ l < c
      BY <1>6, <1>7, <1>8
    <3> HIDE DEF l, c
    <3> QED BY <1>5, <3>1, GrowSplit
  <2> QED BY <2>1, <2>2
<1>9. CASE ~ (sz + ar.hdr[next].size > k)
  <2>1. l = c
    BY <1>4, <1>6, <1>7, <1>9
  <2>2. Grow(ar, bt, sz, k) = ar_dec_free(SetPrevfree(grown, c, FALSE),
                                          Bytes(ar.hdr[next].size) - USEDBLK_SZ)
    BY <1>9, <2>1, Zenon DEF Grow, next
  <2>3. k \in Nat /\ bt + k = c
    BY <2>1
  <2> HIDE DEF c, l
  <2>4. Resized(ar, ar_dec_free(SetPrevfree(grown, c, FALSE),
                                Bytes(ar.hdr[next].size) - USEDBLK_SZ), n, bt, k)
    BY <1>5, <2>3, GrowExact
  <2> QED BY <2>2, <2>4
<1> QED BY <1>8, <1>9

LEMMA Fits ==
  ASSUME NEW n \in Nat, NEW ar, ArenaInv(ar, n), NEW k, k \in Nat, NEW bt, bt = find_fit(ar, k),
         bt # None
  PROVE  bt \in FreeBlocksOf(ar) /\ k <= ar.hdr[bt].size
<1> DEFINE fits == {i \in DOMAIN ar.free : ar.hdr[ar.free[i]].size >= k}
<1>1. fits # {} /\ bt = ar.free[First(fits)]
  BY DEF find_fit
<1>2. ar.free \in Seq(0 .. n - 1) /\ Items(ar.free) = FreeBlocksOf(ar) /\ ar \in Shapes(n)
  BY InvFacts, ArenaFields
<1>3. DOMAIN ar.free \subseteq Nat
  BY <1>2
<1>4. fits \subseteq Nat
  BY <1>3
<1>5. First(fits) \in fits
  <2> HIDE DEF fits
  <2> QED BY <1>1, <1>4, LeastExists
<1>6. First(fits) \in DOMAIN ar.free /\ ar.hdr[bt].size >= k
  BY <1>1, <1>5
<1>7. bt \in FreeBlocksOf(ar)
  <2> HIDE DEF fits
  <2> QED BY <1>1, <1>2, <1>6 DEF Items
<1>8. ar.hdr[bt].size \in Nat
  BY <1>2, <1>7, FreeWeight
<1> QED BY <1>6, <1>7, <1>8

LEMMA SumOfZeros ==
  ASSUME NEW n \in Nat, NEW w \in [0 .. n - 1 -> Int], \A i \in 0 .. n - 1 : w[i] = 0
  PROVE  Sum(w, n) = 0
<1>1. PICK f : IsSum(f, w, n) /\ Sum(w, n) = f[n]
  BY SumIs
<1>2. /\ f \in [0 .. n -> Int] /\ f[0] = 0
      /\ \A i \in 1 .. n : f[i] = f[i - 1] + w[i - 1]
  BY <1>1 DEF IsSum
<1> DEFINE Good == {i \in Nat : i <= n => f[i] = 0}
<1>3. 0 \in Good
  BY <1>2
<1>4. ASSUME NEW i \in Nat, i \in Good PROVE i + 1 \in Good
  <2> SUFFICES ASSUME i + 1 <= n PROVE f[i + 1] = 0
    OBVIOUS
  <2>1. i + 1 \in 1 .. n /\ (i + 1) - 1 = i /\ i \in 0 .. n - 1
    OBVIOUS
  <2>2. f[i + 1] = f[i] + w[i]
    BY <1>2, <2>1
  <2>3. f[i] = 0 /\ w[i] = 0
    BY <1>4, <2>1
  <2> QED BY <2>2, <2>3
<1>5. n \in Good
  <2> HIDE DEF Good
  <2> QED BY <1>3, <1>4, SetInduction
<1> QED BY <1>1, <1>5

LEMMA ArenaFresh ==
  ASSUME NEW n \in Nat, n > 0, EndWordUsed
  PROVE  /\ ArenaInv(ar_init(n), n)
         /\ \A i : ~ Used(ar_init(n), i)
<1> DEFINE endWord == Tag(0, EndWordUsed, FALSE, FALSE)
           empty == [hdr |-> [i \in 0 .. n |-> IF i = n THEN endWord ELSE Junk],
                     ftr |-> [i \in 0 .. n - 1 |-> Junk],
                     free |-> <<>>,
                     totalFree |-> Bytes(n) - USEDBLK_SZ]
           tag == Tag(n, FALSE, FALSE, TRUE)
           made == Make(empty, 0, tag)
           ar == n_insert(made, 0)
<1>1. ar_init(n) = ar
  BY Zenon DEF ar_init
<1>2. UsedTag(endWord, 0, FALSE, FALSE)
  <2>1. EndWordUsed = TRUE
    BY MemoryAssumption
  <2>2. endWord = Tag(0, TRUE, FALSE, FALSE)
    BY <2>1
  <2>3. FALSE \in BOOLEAN /\ 0 \in Nat
    OBVIOUS
  <2> HIDE DEF endWord
  <2> QED BY <2>2, <2>3, UsedTagIs
<1>3. endWord \in Tags /\ endWord # Junk /\ endWord.used
  BY <1>2, Zenon DEF UsedTag
<1>4. FreeTag(tag, n, FALSE, TRUE)
  <2>1. FALSE \in BOOLEAN /\ TRUE \in BOOLEAN
    OBVIOUS
  <2> QED BY <2>1, FreeTagIs
<1>5. tag \in Tags /\ tag # Junk /\ tag.size = n /\ ~ tag.used /\ ~ tag.prevfree
  BY <1>4, Zenon DEF FreeTag
<1> HIDE DEF endWord, tag
<1>6. /\ empty \in Shapes(n) /\ empty.free = <<>> /\ empty.totalFree = 16 * n - 8
      /\ \A i \in 0 .. n : empty.hdr[i] = IF i = n THEN endWord ELSE Junk
  <2>1. [i \in 0 .. n |-> IF i = n THEN endWord ELSE Junk] \in [0 .. n -> Tags \cup {Junk}]
    BY <1>3
  <2>2. [i \in 0 .. n - 1 |-> Junk] \in [0 .. n - 1 -> Tags \cup {Junk, Canary}]
    OBVIOUS
  <2>3. Bytes(n) - USEDBLK_SZ = 16 * n - 8 /\ Bytes(n) - USEDBLK_SZ \in Int
    BY DEF Bytes, ALIGNMENT, USEDBLK_SZ
  <2>4. <<>> \in Seq(0 .. n - 1)
    OBVIOUS
  <2> QED BY <2>1, <2>2, <2>3, <2>4 DEF Shapes
<1> HIDE DEF empty
<1>7. Spans(n, 0, n, tag)
  BY <1>5 DEF Spans
<1>8. Made(empty, made, n, 0, n, tag)
  BY <1>6, <1>7, Making
<1> HIDE DEF made
<1>9. made \in Shapes(n) /\ made.free = <<>>
  BY <1>6, <1>8 DEF Made
<1>10. Injective(made.free) /\ 0 \notin Items(made.free) /\ Items(made.free) = {}
  BY <1>9 DEF Injective, Items
<1>11. Listed(made, ar, n, 0)
  BY <1>9, <1>10, Inserting
<1> HIDE DEF ar
<1>12. /\ ar \in Shapes(n) /\ Injective(ar.free) /\ Items(ar.free) = {0}
       /\ ar.totalFree = 16 * n - 8
  BY <1>6, <1>8, <1>10, <1>11 DEF Listed, Made
<1>13. /\ ar.hdr[0] = tag /\ ar.hdr[n] = endWord
       /\ \A i \in 1 .. n - 1 : ar.hdr[i] = Junk
       /\ ar.ftr[n - 1] = tag
  <2>1. \A i \in 0 .. n : ar.hdr[i] = IF i = 0 THEN tag ELSE IF i > 0 /\ i < n THEN Junk ELSE empty.hdr[i]
    BY <1>8, <1>11 DEF Made, Listed
  <2>2. \A i \in 0 .. n - 1 : ar.ftr[i] =
          IF i = n - 1 THEN IF tag.used THEN Canary ELSE tag
          ELSE IF i >= 0 /\ i < n THEN Junk ELSE empty.ftr[i]
    BY <1>8, <1>11 DEF Made, Listed
  <2>3. ar.hdr[0] = tag
    BY <2>1
  <2>4. ar.hdr[n] = endWord
    BY <1>6, <2>1
  <2>5. \A i \in 1 .. n - 1 : ar.hdr[i] = Junk
    BY <2>1
  <2>6. ar.ftr[n - 1] = tag
    BY <1>5, <2>2
  <2> QED BY <2>3, <2>4, <2>5, <2>6
<1>14. \A i : i \in BlocksOf(ar) <=> i = 0
  <2>1. \A i : i \in BlocksOf(ar) <=> i \in 0 .. n - 1 /\ ar.hdr[i] # Junk
    BY <1>12, BlockIn
  <2>2. \A i \in 0 .. n - 1 : i # 0 => i \in 1 .. n - 1
    OBVIOUS
  <2> QED BY <1>5, <1>13, <2>1, <2>2
<1>15. BlocksOf(ar) = {0}
  BY <1>14
<1>16. FreeBlocksOf(ar) = {0}
  BY <1>5, <1>13, <1>15 DEF FreeBlocksOf
<1>17. ArenaTagged(ar, n)
  <2>1. bt_next(ar, 0) = n
    BY <1>5, <1>13 DEF bt_next
  <2>2. BlocksOf(ar) \cap (0 + 1 .. n - 1) = {}
    BY <1>15
  <2>3. BlockTagged(ar, 0, n)
    BY <1>5, <1>13, <2>1, <2>2 DEF BlockTagged
  <2> QED BY <1>5, <1>13, <1>15, <2>3 DEF ArenaTagged
<1>18. ListExact(ar)
  BY <1>12, <1>16, ListExactIs
<1>19. ar.totalFree = Available(ar, n)
  <2> DEFINE w == Weights(ar, n)
             z == [i \in 0 .. n - 1 |-> 0]
  <2>1. w \in [0 .. n - 1 -> Int] /\ z \in [0 .. n - 1 -> Int]
    BY <1>12, WeightType
  <2>2. \A i \in 0 .. n - 1 : i # 0 => w[i] = z[i]
    <3> SUFFICES ASSUME NEW i \in 0 .. n - 1, i # 0 PROVE w[i] = z[i]
      OBVIOUS
    <3>1. ar.hdr[i] = Junk
      BY <1>13
    <3> QED BY <1>12, <3>1, WeightAt
  <2>3. w[0] = 16 * n - 8
    <3>1. ar.hdr[0] # Junk /\ ~ ar.hdr[0].used /\ ar.hdr[0].size = n
      BY <1>5, <1>13
    <3> QED BY <1>12, <3>1, WeightAt
  <2>4. z[0] = 0 /\ \A i \in 0 .. n - 1 : z[i] = 0
    OBVIOUS
  <2> HIDE DEF w, z
  <2>5. Sum(z, n) = 0
    BY <2>1, <2>4, SumOfZeros
  <2>6. Sum(w, n) = Sum(z, n) + w[0] - z[0]
    <3>1. 0 \in 0 .. n - 1
      OBVIOUS
    <3> QED BY <2>1, <2>2, <3>1, SumChanges
  <2>7. Available(ar, n) = Sum(w, n)
    BY <1>12, AvailableSum DEF w
  <2> QED BY <1>12, <2>3, <2>4, <2>5, <2>6, <2>7
<1>20. ArenaInv(ar, n)
  BY <1>3, <1>12, <1>13, <1>17, <1>18, <1>19 DEF ArenaInv, Shaped
<1>21. \A i : ~ Used(ar, i)
  BY <1>5, <1>13, <1>14 DEF Used
<1> QED BY <1>1, <1>20, <1>21

(* The blocks of the tasks ow are the used blocks of the arenas as, each of   *)
(* one task                                                                   *)
HeapInv(as, ow) ==
  /\ as = [r \in RegionSet |-> as[r]]
  /\ \A r \in RegionSet : ArenaInv(as[r], Size[r])
  /\ ow \in [Tasks -> SUBSET Blocks]
  /\ \A t \in Tasks : \A b \in ow[t] : Used(as[b[1]], b[2])
  /\ \A r \in RegionSet : \A i \in BlocksOf(as[r]) :
       as[r].hdr[i].used => \E t \in Tasks : <<r, i>> \in ow[t]
  /\ \A t, u \in Tasks : t # u => ow[t] \cap ow[u] = {}

Positions == (SUBSET (DOMAIN Regions)) \ {{}}

Mallocing == [want: Requests, todo: Positions, old: Blocks \cup {None}]
Reallocing == [want: Requests, old: Blocks, size: Nat]

CallOK(t) ==
  /\ pc[t] = "malloc" =>
       call[t] \in Mallocing /\ (call[t].old # None => call[t].old \in owned[t])
  /\ pc[t] = "realloc" =>
       /\ call[t] \in Reallocing /\ call[t].old \in owned[t]
       /\ call[t].size = arena[call[t].old[1]].hdr[call[t].old[2]].size
       /\ call[t].want # call[t].size
  /\ pc[t] = "free" => call[t] \in Mallocing /\ call[t].old \in owned[t]

CallsInv ==
  /\ pc \in [Tasks -> {"idle", "malloc", "realloc", "free", "panic"}]
  /\ call = [t \in Tasks |-> call[t]]
  /\ \A t \in Tasks : CallOK(t)

IInv == HeapInv(arena, owned) /\ CallsInv

LEMMA BlockPair ==
  /\ \A b \in Blocks : b[1] \in RegionSet /\ b[2] \in 0 .. Size[b[1]] - 1 /\ b = <<b[1], b[2]>>
  /\ \A r \in RegionSet : \A i \in 0 .. Size[r] - 1 : <<r, i>> \in Blocks
  /\ \A r, i : <<r, i>> \in Blocks => r \in RegionSet /\ i \in 0 .. Size[r] - 1
<1>1. \A b \in Blocks : b[1] \in RegionSet /\ b[2] \in 0 .. Size[b[1]] - 1 /\ b = <<b[1], b[2]>>
  <2> SUFFICES ASSUME NEW b \in Blocks
               PROVE  b[1] \in RegionSet /\ b[2] \in 0 .. Size[b[1]] - 1 /\ b = <<b[1], b[2]>>
    OBVIOUS
  <2>1. PICK r \in RegionSet : b \in {r} \X (0 .. Size[r] - 1)
    BY DEF Blocks
  <2> QED BY <2>1
<1>2. \A r \in RegionSet : \A i \in 0 .. Size[r] - 1 : <<r, i>> \in Blocks
  BY DEF Blocks
<1>3. \A r, i : <<r, i>> \in Blocks => r \in RegionSet /\ i \in 0 .. Size[r] - 1
  BY <1>1
<1> QED BY <1>1, <1>2, <1>3

LEMMA SizeNat ==
  \A r \in RegionSet : Size[r] \in Nat /\ Size[r] > 0
BY MemoryAssumption

(* The same with the blocks as pairs                                          *)
HeapPairs(as, ow) ==
  /\ as = [r \in RegionSet |-> as[r]]
  /\ \A r \in RegionSet : ArenaInv(as[r], Size[r])
  /\ ow = [t \in Tasks |-> ow[t]]
  /\ \A t \in Tasks : \A b \in ow[t] : b = <<b[1], b[2]>>
  /\ \A t \in Tasks : \A r, i : <<r, i>> \in ow[t] => r \in RegionSet /\ Used(as[r], i)
  /\ \A r \in RegionSet : \A i : Used(as[r], i) => \E t \in Tasks : <<r, i>> \in ow[t]
  /\ \A t, u \in Tasks : \A r, i : <<r, i>> \in ow[t] /\ <<r, i>> \in ow[u] => t = u

LEMMA UsedWithin ==
  ASSUME NEW n \in Nat, NEW ar, ArenaInv(ar, n)
  PROVE  \A i : Used(ar, i) => i \in 0 .. n - 1
BY InvFacts, BlockIn DEF Used

LEMMA PairsOfHeap ==
  ASSUME NEW as, NEW ow, HeapInv(as, ow)
  PROVE  HeapPairs(as, ow)
<1>1. /\ as = [r \in RegionSet |-> as[r]]
      /\ \A r \in RegionSet : ArenaInv(as[r], Size[r])
      /\ ow \in [Tasks -> SUBSET Blocks]
      /\ \A t \in Tasks : \A b \in ow[t] : Used(as[b[1]], b[2])
      /\ \A r \in RegionSet : \A i \in BlocksOf(as[r]) :
           as[r].hdr[i].used => \E t \in Tasks : <<r, i>> \in ow[t]
      /\ \A t, u \in Tasks : t # u => ow[t] \cap ow[u] = {}
  BY DEF HeapInv
<1>2. \A t \in Tasks : \A b \in ow[t] : b \in Blocks
  BY <1>1
<1>3. \A t \in Tasks : \A r, i : <<r, i>> \in ow[t] => r \in RegionSet /\ Used(as[r], i)
  <2> SUFFICES ASSUME NEW t \in Tasks, NEW r, NEW i, <<r, i>> \in ow[t]
               PROVE  r \in RegionSet /\ Used(as[r], i)
    OBVIOUS
  <2>1. <<r, i>>[1] = r /\ <<r, i>>[2] = i
    OBVIOUS
  <2>2. Used(as[<<r, i>>[1]], <<r, i>>[2])
    BY <1>1
  <2>3. r \in RegionSet
    BY <1>2, BlockPair
  <2> QED BY <2>1, <2>2, <2>3
<1>4. \A t \in Tasks : \A b \in ow[t] : b = <<b[1], b[2]>>
  BY <1>2, BlockPair
<1>5. ow = [t \in Tasks |-> ow[t]]
  BY <1>1
<1>6. \A r \in RegionSet : \A i : Used(as[r], i) => \E t \in Tasks : <<r, i>> \in ow[t]
  BY <1>1 DEF Used
<1>7. \A t, u \in Tasks : \A r, i : <<r, i>> \in ow[t] /\ <<r, i>> \in ow[u] => t = u
  BY <1>1
<1> QED BY <1>1, <1>3, <1>4, <1>5, <1>6, <1>7 DEF HeapPairs

LEMMA HeapOfPairs ==
  ASSUME NEW as, NEW ow, HeapPairs(as, ow)
  PROVE  HeapInv(as, ow)
<1>1. /\ as = [r \in RegionSet |-> as[r]]
      /\ \A r \in RegionSet : ArenaInv(as[r], Size[r])
      /\ ow = [t \in Tasks |-> ow[t]]
      /\ \A t \in Tasks : \A b \in ow[t] : b = <<b[1], b[2]>>
      /\ \A t \in Tasks : \A r, i : <<r, i>> \in ow[t] => r \in RegionSet /\ Used(as[r], i)
      /\ \A r \in RegionSet : \A i : Used(as[r], i) => \E t \in Tasks : <<r, i>> \in ow[t]
      /\ \A t, u \in Tasks : \A r, i : <<r, i>> \in ow[t] /\ <<r, i>> \in ow[u] => t = u
  BY DEF HeapPairs
<1>2. \A t \in Tasks : \A b \in ow[t] : Used(as[b[1]], b[2]) /\ b \in Blocks
  <2> SUFFICES ASSUME NEW t \in Tasks, NEW b \in ow[t]
               PROVE  Used(as[b[1]], b[2]) /\ b \in Blocks
    OBVIOUS
  <2>1. b = <<b[1], b[2]>> /\ <<b[1], b[2]>> \in ow[t]
    BY <1>1
  <2>2. b[1] \in RegionSet /\ Used(as[b[1]], b[2])
    BY <1>1, <2>1
  <2>3. b[2] \in 0 .. Size[b[1]] - 1
    BY <1>1, <2>2, SizeNat, UsedWithin
  <2> QED BY <2>1, <2>2, <2>3, BlockPair
<1>3. ow \in [Tasks -> SUBSET Blocks]
  BY <1>1, <1>2
<1>4. \A t, u \in Tasks : t # u => ow[t] \cap ow[u] = {}
  <2> SUFFICES ASSUME NEW t \in Tasks, NEW u \in Tasks, t # u, NEW b \in ow[t], b \in ow[u]
               PROVE  FALSE
    OBVIOUS
  <2>1. b = <<b[1], b[2]>>
    BY <1>1
  <2> QED BY <1>1, <2>1
<1>5. \A r \in RegionSet : \A i \in BlocksOf(as[r]) :
        as[r].hdr[i].used => \E t \in Tasks : <<r, i>> \in ow[t]
  BY <1>1 DEF Used
<1> QED BY <1>1, <1>2, <1>3, <1>4, <1>5 DEF HeapInv

------------------------------------------------------------------------------
(* One arena changes and with it the blocks of one task                       *)
LEMMA HeapTaken ==
  ASSUME NEW as, NEW ow, HeapPairs(as, ow), NEW t \in Tasks, NEW r \in RegionSet,
         NEW br, NEW bt, NEW k, Taken(as[r], br, Size[r], bt, k), ~ Used(as[r], bt),
         NEW bs, bs = [as EXCEPT ![r] = br],
         NEW ox, ox = [ow EXCEPT ![t] = @ \cup {<<r, bt>>}]
  PROVE  HeapPairs(bs, ox)
<1>1. /\ as = [q \in RegionSet |-> as[q]]
      /\ \A q \in RegionSet : ArenaInv(as[q], Size[q])
      /\ ow = [u \in Tasks |-> ow[u]]
      /\ \A u \in Tasks : \A b \in ow[u] : b = <<b[1], b[2]>>
      /\ \A u \in Tasks : \A q, i : <<q, i>> \in ow[u] => q \in RegionSet /\ Used(as[q], i)
      /\ \A q \in RegionSet : \A i : Used(as[q], i) => \E u \in Tasks : <<q, i>> \in ow[u]
      /\ \A u, v \in Tasks : \A q, i : <<q, i>> \in ow[u] /\ <<q, i>> \in ow[v] => u = v
  BY DEF HeapPairs
<1>2. /\ ArenaInv(br, Size[r]) /\ \A i : Used(br, i) <=> Used(as[r], i) \/ i = bt
  BY DEF Taken
<1>3. bs = [q \in RegionSet |-> bs[q]] /\ bs[r] = br /\ \A q \in RegionSet : q # r => bs[q] = as[q]
  BY <1>1
<1>4. ox = [u \in Tasks |-> ox[u]] /\ ox[t] = ow[t] \cup {<<r, bt>>}
      /\ \A u \in Tasks : u # t => ox[u] = ow[u]
  BY <1>1
<1>5. \A u \in Tasks : \A q, i : <<q, i>> \in ox[u] <=>
        <<q, i>> \in ow[u] \/ (u = t /\ q = r /\ i = bt)
  BY <1>4
<1>6. \A q \in RegionSet : \A i : Used(bs[q], i) <=> Used(as[q], i) \/ (q = r /\ i = bt)
  BY <1>2, <1>3
<1>7. \A q \in RegionSet : ArenaInv(bs[q], Size[q])
  BY <1>1, <1>2, <1>3
<1>8. \A u \in Tasks : \A b \in ox[u] : b = <<b[1], b[2]>>
  BY <1>1, <1>4
<1>9. \A u \in Tasks : \A q, i : <<q, i>> \in ox[u] => q \in RegionSet /\ Used(bs[q], i)
  BY <1>1, <1>5, <1>6, Zenon
<1>10. \A q \in RegionSet : \A i : Used(bs[q], i) => \E u \in Tasks : <<q, i>> \in ox[u]
  BY <1>1, <1>5, <1>6, Zenon
<1>11. \A u, v \in Tasks : \A q, i : <<q, i>> \in ox[u] /\ <<q, i>> \in ox[v] => u = v
  <2>1. \A u \in Tasks : <<r, bt>> \notin ow[u]
    BY <1>1, Zenon
  <2> QED BY <1>1, <1>5, <2>1, Zenon
<1> QED BY <1>3, <1>4, <1>7, <1>8, <1>9, <1>10, <1>11 DEF HeapPairs

LEMMA HeapGiven ==
  ASSUME NEW as, NEW ow, HeapPairs(as, ow), NEW t \in Tasks, NEW r \in RegionSet,
         NEW br, NEW bt, Given(as[r], br, Size[r], bt), <<r, bt>> \in ow[t],
         NEW bs, bs = [as EXCEPT ![r] = br],
         NEW ox, ox = [ow EXCEPT ![t] = @ \ {<<r, bt>>}]
  PROVE  HeapPairs(bs, ox)
<1>1. /\ as = [q \in RegionSet |-> as[q]]
      /\ \A q \in RegionSet : ArenaInv(as[q], Size[q])
      /\ ow = [u \in Tasks |-> ow[u]]
      /\ \A u \in Tasks : \A b \in ow[u] : b = <<b[1], b[2]>>
      /\ \A u \in Tasks : \A q, i : <<q, i>> \in ow[u] => q \in RegionSet /\ Used(as[q], i)
      /\ \A q \in RegionSet : \A i : Used(as[q], i) => \E u \in Tasks : <<q, i>> \in ow[u]
      /\ \A u, v \in Tasks : \A q, i : <<q, i>> \in ow[u] /\ <<q, i>> \in ow[v] => u = v
  BY DEF HeapPairs
<1>2. /\ ArenaInv(br, Size[r]) /\ \A i : Used(br, i) <=> Used(as[r], i) /\ i # bt
  BY DEF Given
<1>3. bs = [q \in RegionSet |-> bs[q]] /\ bs[r] = br /\ \A q \in RegionSet : q # r => bs[q] = as[q]
  BY <1>1
<1>4. ox = [u \in Tasks |-> ox[u]] /\ ox[t] = ow[t] \ {<<r, bt>>}
      /\ \A u \in Tasks : u # t => ox[u] = ow[u]
  BY <1>1
<1>5. \A u \in Tasks : \A q, i : <<q, i>> \in ox[u] <=>
        <<q, i>> \in ow[u] /\ ~ (q = r /\ i = bt)
  <2>1. \A u \in Tasks : <<r, bt>> \in ow[u] => u = t
    BY <1>1
  <2>2. \A q, i : <<q, i>> \in ox[t] <=> <<q, i>> \in ow[t] /\ ~ (q = r /\ i = bt)
    BY <1>4
  <2> QED BY <1>4, <2>1, <2>2
<1>6. \A q \in RegionSet : \A i : Used(bs[q], i) <=> Used(as[q], i) /\ ~ (q = r /\ i = bt)
  BY <1>2, <1>3
<1>7. \A q \in RegionSet : ArenaInv(bs[q], Size[q])
  BY <1>1, <1>2, <1>3
<1>8. \A u \in Tasks : \A b \in ox[u] : b = <<b[1], b[2]>>
  BY <1>1, <1>4
<1>9. \A u \in Tasks : \A q, i : <<q, i>> \in ox[u] => q \in RegionSet /\ Used(bs[q], i)
  BY <1>1, <1>5, <1>6, Zenon
<1>10. \A q \in RegionSet : \A i : Used(bs[q], i) => \E u \in Tasks : <<q, i>> \in ox[u]
  <2> SUFFICES ASSUME NEW q \in RegionSet, NEW i, Used(bs[q], i)
               PROVE  \E u \in Tasks : <<q, i>> \in ox[u]
    OBVIOUS
  <2>1. Used(as[q], i) /\ ~ (q = r /\ i = bt)
    BY <1>6
  <2>2. PICK u \in Tasks : <<q, i>> \in ow[u]
    BY <1>1, <2>1
  <2> QED BY <1>5, <2>1, <2>2
<1>11. \A u, v \in Tasks : \A q, i : <<q, i>> \in ox[u] /\ <<q, i>> \in ox[v] => u = v
  BY <1>1, <1>5, Zenon
<1> QED BY <1>3, <1>4, <1>7, <1>8, <1>9, <1>10, <1>11 DEF HeapPairs

LEMMA HeapResized ==
  ASSUME NEW as, NEW ow, HeapPairs(as, ow), NEW r \in RegionSet,
         NEW br, NEW bt, NEW k, Resized(as[r], br, Size[r], bt, k),
         NEW bs, bs = [as EXCEPT ![r] = br]
  PROVE  HeapPairs(bs, ow)
<1>1. /\ as = [q \in RegionSet |-> as[q]]
      /\ \A q \in RegionSet : ArenaInv(as[q], Size[q])
      /\ ow = [u \in Tasks |-> ow[u]]
      /\ \A u \in Tasks : \A b \in ow[u] : b = <<b[1], b[2]>>
      /\ \A u \in Tasks : \A q, i : <<q, i>> \in ow[u] => q \in RegionSet /\ Used(as[q], i)
      /\ \A q \in RegionSet : \A i : Used(as[q], i) => \E u \in Tasks : <<q, i>> \in ow[u]
      /\ \A u, v \in Tasks : \A q, i : <<q, i>> \in ow[u] /\ <<q, i>> \in ow[v] => u = v
  BY DEF HeapPairs
<1>2. /\ ArenaInv(br, Size[r]) /\ \A i : Used(br, i) <=> Used(as[r], i)
  BY DEF Resized
<1>3. bs = [q \in RegionSet |-> bs[q]] /\ bs[r] = br /\ \A q \in RegionSet : q # r => bs[q] = as[q]
  BY <1>1
<1>6. \A q \in RegionSet : \A i : Used(bs[q], i) <=> Used(as[q], i)
  BY <1>2, <1>3
<1>7. \A q \in RegionSet : ArenaInv(bs[q], Size[q])
  BY <1>1, <1>2, <1>3
<1>9. \A u \in Tasks : \A q, i : <<q, i>> \in ow[u] => q \in RegionSet /\ Used(bs[q], i)
  BY <1>1, <1>6, Zenon
<1>10. \A q \in RegionSet : \A i : Used(bs[q], i) => \E u \in Tasks : <<q, i>> \in ow[u]
  BY <1>1, <1>6, Zenon
<1> QED BY <1>1, <1>3, <1>7, <1>9, <1>10 DEF HeapPairs

SizeOf(as, b) == as[b[1]].hdr[b[2]].size

OnlyOwner(ow, t, r, bt) == \A u \in Tasks : u # t => <<r, bt>> \notin ow[u]

OthersKeep(as, bs, ow, t) ==
  \A u \in Tasks : u # t => \A b \in ow[u] : SizeOf(bs, b) = SizeOf(as, b)

(* The blocks of the other tasks keep their sizes                             *)
LEMMA SizesKept ==
  ASSUME NEW as, NEW ow, HeapPairs(as, ow), NEW t \in Tasks, NEW r \in RegionSet,
         NEW br, NEW bt, SameSizes(as[r], br, bt), OnlyOwner(ow, t, r, bt),
         NEW bs, bs = [as EXCEPT ![r] = br]
  PROVE  OthersKeep(as, bs, ow, t)
<1> SUFFICES ASSUME NEW u \in Tasks, u # t, NEW b \in ow[u]
             PROVE  SizeOf(bs, b) = SizeOf(as, b)
  BY DEF OthersKeep
<1>1. /\ as = [q \in RegionSet |-> as[q]]
      /\ b = <<b[1], b[2]>>
      /\ \A q, i : <<q, i>> \in ow[u] => q \in RegionSet /\ Used(as[q], i)
  BY DEF HeapPairs
<1>2. b[1] \in RegionSet /\ Used(as[b[1]], b[2]) /\ ~ (b[1] = r /\ b[2] = bt)
  BY <1>1 DEF OnlyOwner
<1>3. bs[r] = br /\ \A q \in RegionSet : q # r => bs[q] = as[q]
  BY <1>1
<1>4. CASE b[1] = r
  <2>1. Used(as[r], b[2]) /\ b[2] # bt
    BY <1>2, <1>4
  <2>2. br.hdr[b[2]].size = as[r].hdr[b[2]].size
    BY <2>1 DEF SameSizes
  <2>3. bs[b[1]] = br /\ as[b[1]] = as[r]
    BY <1>3, <1>4
  <2> QED BY <2>2, <2>3 DEF SizeOf
<1>5. CASE b[1] # r
  BY <1>2, <1>3, <1>5 DEF SizeOf
<1> QED BY <1>4, <1>5

Labels == {"idle", "malloc", "realloc", "free", "panic"}

(* What a step of task t leaves of the calls of the others                    *)
LEMMA OtherCalls ==
  ASSUME CallsInv, NEW t \in Tasks,
         pc' \in [Tasks -> Labels], call' = [u \in Tasks |-> call'[u]],
         \A u \in Tasks : u # t => pc'[u] = pc[u] /\ call'[u] = call[u] /\ owned'[u] = owned[u],
         \A u \in Tasks : u # t => \A b \in owned[u] : SizeOf(arena', b) = SizeOf(arena, b),
         CallOK(t)'
  PROVE  CallsInv'
<1>1. ASSUME NEW u \in Tasks, u # t PROVE CallOK(u)'
  <2>1. CallOK(u)
    BY DEF CallsInv
  <2>2. pc'[u] = pc[u] /\ call'[u] = call[u] /\ owned'[u] = owned[u]
    BY <1>1
  <2>3. \A b \in owned[u] : SizeOf(arena', b) = SizeOf(arena, b)
    BY <1>1
  <2>4. pc'[u] = "malloc" =>
          call'[u] \in Mallocing /\ (call'[u].old # None => call'[u].old \in owned'[u])
    BY <2>1, <2>2, Zenon DEF CallOK
  <2>5. pc'[u] = "free" => call'[u] \in Mallocing /\ call'[u].old \in owned'[u]
    BY <2>1, <2>2, Zenon DEF CallOK
  <2>6. pc'[u] = "realloc" =>
          /\ call'[u] \in Reallocing /\ call'[u].old \in owned'[u]
          /\ call'[u].size = arena'[call'[u].old[1]].hdr[call'[u].old[2]].size
          /\ call'[u].want # call'[u].size
    <3> SUFFICES ASSUME pc[u] = "realloc"
                 PROVE  /\ call[u] \in Reallocing /\ call[u].old \in owned[u]
                        /\ call[u].size = SizeOf(arena', call[u].old)
                        /\ call[u].want # call[u].size
      BY <2>2, Zenon DEF SizeOf
    <3>1. /\ call[u] \in Reallocing /\ call[u].old \in owned[u]
          /\ call[u].size = SizeOf(arena, call[u].old)
          /\ call[u].want # call[u].size
      BY <2>1, Zenon DEF CallOK, SizeOf
    <3> QED BY <2>3, <3>1
  <2> QED BY <2>4, <2>5, <2>6, Zenon DEF CallOK
<1>2. \A u \in Tasks : CallOK(u)'
  BY <1>1
<1> QED BY <1>2 DEF CallsInv, Labels

LEMMA CallTypes ==
  ASSUME CallsInv
  PROVE  /\ pc \in [Tasks -> Labels] /\ call = [u \in Tasks |-> call[u]]
         /\ \A u \in Tasks : CallOK(u)
BY DEF CallsInv, Labels

LEMMA GoesTo ==
  ASSUME CallsInv, NEW t \in Tasks, NEW label \in Labels, NEW locals, Goto(t, label, locals)
  PROVE  /\ pc' \in [Tasks -> Labels] /\ call' = [u \in Tasks |-> call'[u]]
         /\ pc'[t] = label /\ call'[t] = locals
         /\ \A u \in Tasks : u # t => pc'[u] = pc[u] /\ call'[u] = call[u]
<1>1. pc \in [Tasks -> Labels] /\ call = [u \in Tasks |-> call[u]]
  BY CallTypes
<1>2. pc' = [pc EXCEPT ![t] = label] /\ call' = [call EXCEPT ![t] = locals]
  BY DEF Goto
<1> QED BY <1>1, <1>2

LEMMA RegionsBelowNonempty ==
  \A chip \in BOOLEAN : RegionsBelow(chip) \in Positions
<1> SUFFICES ASSUME NEW chip \in BOOLEAN PROVE RegionsBelow(chip) \in Positions
  OBVIOUS
<1>1. PICK r : r \in Chip
  BY MemoryAssumption
<1>2. r \in RegionSet
  BY <1>1, MemoryAssumption
<1>3. PICK i \in DOMAIN Regions : Regions[i] = r
  BY <1>2 DEF RegionSet
<1>4. i \in RegionsBelow(chip)
  BY <1>1, <1>3 DEF RegionsBelow
<1>5. RegionsBelow(chip) \subseteq DOMAIN Regions
  BY DEF RegionsBelow
<1> QED BY <1>4, <1>5 DEF Positions

LEMMA AllocStep ==
  ASSUME IInv, NEW t \in Tasks, NEW n \in Requests, NEW chip \in BOOLEAN, MemAlloc(t, n, chip)
  PROVE  IInv'
<1> DEFINE locals == [want |-> n, todo |-> RegionsBelow(chip), old |-> None]
<1>1. HeapInv(arena, owned) /\ CallsInv
  BY DEF IInv
<1>2. Goto(t, "malloc", locals) /\ arena' = arena /\ owned' = owned
  BY DEF MemAlloc
<1>3. locals \in Mallocing /\ locals.old = None
  <2>1. RegionsBelow(chip) \in Positions
    BY RegionsBelowNonempty
  <2> QED BY <2>1 DEF Mallocing
<1> HIDE DEF locals
<1>4. "malloc" \in Labels
  BY DEF Labels
<1>5. /\ pc' \in [Tasks -> Labels] /\ call' = [u \in Tasks |-> call'[u]]
      /\ pc'[t] = "malloc" /\ call'[t] = locals
      /\ \A u \in Tasks : u # t => pc'[u] = pc[u] /\ call'[u] = call[u]
  BY <1>1, <1>2, <1>4, GoesTo
<1>6. CallOK(t)'
  BY <1>3, <1>5 DEF CallOK
<1>7. CallsInv'
  BY <1>1, <1>2, <1>5, <1>6, OtherCalls
<1> QED BY <1>1, <1>2, <1>7 DEF IInv

LEMMA MallocFailsStep ==
  ASSUME IInv, NEW t \in Tasks, MallocFails(t)
  PROVE  IInv'
<1> DEFINE todo == call[t].todo
           rest == [call[t] EXCEPT !.todo = @ \ {First(@)}]
<1>1. HeapInv(arena, owned) /\ CallsInv
  BY DEF IInv
<1>2. arena' = arena /\ owned' = owned
  BY DEF MallocFails
<1>3. CASE Goto(t, "panic", None)
  <2>1. "panic" \in Labels
    BY DEF Labels
  <2>2. /\ pc' \in [Tasks -> Labels] /\ call' = [u \in Tasks |-> call'[u]]
        /\ pc'[t] = "panic"
        /\ \A u \in Tasks : u # t => pc'[u] = pc[u] /\ call'[u] = call[u]
    BY <1>1, <1>3, <2>1, GoesTo
  <2>3. CallOK(t)'
    BY <2>2 DEF CallOK
  <2>4. CallsInv'
    BY <1>1, <1>2, <2>2, <2>3, OtherCalls
  <2> QED BY <1>1, <1>2, <2>4 DEF IInv
<1>4. CASE todo # {First(todo)} /\ Goto(t, "malloc", rest)
  <2>1. "malloc" \in Labels /\ pc[t] = "malloc" /\ CallOK(t)
    BY <1>1 DEF Labels, MallocFails, At, CallsInv
  <2>2. call[t] \in Mallocing /\ (call[t].old # None => call[t].old \in owned[t])
    BY <2>1 DEF CallOK
  <2>3. todo \ {First(todo)} # {} /\ todo \ {First(todo)} \subseteq DOMAIN Regions
    <3>1. todo \subseteq DOMAIN Regions /\ todo # {}
      BY <2>2 DEF Mallocing, Positions
    <3>2. todo \ {First(todo)} # {}
      BY <1>4, <3>1
    <3> QED BY <3>1, <3>2
  <2>4. rest \in Mallocing /\ rest.old = call[t].old
    BY <2>2, <2>3 DEF Mallocing, Positions
  <2> HIDE DEF rest
  <2>5. /\ pc' \in [Tasks -> Labels] /\ call' = [u \in Tasks |-> call'[u]]
        /\ pc'[t] = "malloc" /\ call'[t] = rest
        /\ \A u \in Tasks : u # t => pc'[u] = pc[u] /\ call'[u] = call[u]
    BY <1>1, <1>4, <2>1, GoesTo
  <2>6. CallOK(t)'
    BY <1>2, <2>2, <2>4, <2>5 DEF CallOK
  <2>7. CallsInv'
    BY <1>1, <1>2, <2>5, <2>6, OtherCalls
  <2> QED BY <1>1, <1>2, <2>7 DEF IInv
<1> QED BY <1>3, <1>4 DEF MallocFails

(* What the steps do to the arenas and to the blocks of task t                *)
Takes(t, r, br, bt, k) ==
  /\ r \in RegionSet /\ Taken(arena[r], br, Size[r], bt, k) /\ ~ Used(arena[r], bt)
  /\ arena' = [arena EXCEPT ![r] = br]
  /\ owned' = [owned EXCEPT ![t] = @ \cup {<<r, bt>>}]

Gives(t, r, br, bt) ==
  /\ r \in RegionSet /\ Given(arena[r], br, Size[r], bt) /\ <<r, bt>> \in owned[t]
  /\ arena' = [arena EXCEPT ![r] = br]
  /\ owned' = [owned EXCEPT ![t] = @ \ {<<r, bt>>}]

Resizes(t, r, br, bt, k) ==
  /\ r \in RegionSet /\ Resized(arena[r], br, Size[r], bt, k) /\ <<r, bt>> \in owned[t]
  /\ arena' = [arena EXCEPT ![r] = br]
  /\ owned' = owned

LEMMA OwnedBlock ==
  ASSUME HeapInv(arena, owned), NEW t \in Tasks, NEW r, NEW bt, <<r, bt>> \in owned[t]
  PROVE  /\ r \in RegionSet /\ bt \in 0 .. Size[r] - 1 /\ Used(arena[r], bt)
         /\ ArenaInv(arena[r], Size[r]) /\ Size[r] \in Nat
         /\ \A u \in Tasks : u # t => <<r, bt>> \notin owned[u]
<1>1. HeapPairs(arena, owned)
  BY PairsOfHeap
<1>2. r \in RegionSet /\ Used(arena[r], bt) /\ ArenaInv(arena[r], Size[r])
  BY <1>1 DEF HeapPairs
<1>3. \A u \in Tasks : u # t => <<r, bt>> \notin owned[u]
  BY <1>1 DEF HeapPairs
<1>4. Size[r] \in Nat
  BY <1>2, SizeNat
<1> QED BY <1>2, <1>3, <1>4, UsedWithin

LEMMA Unowned ==
  ASSUME HeapInv(arena, owned), NEW r, NEW bt, ~ Used(arena[r], bt)
  PROVE  \A u \in Tasks : <<r, bt>> \notin owned[u]
BY PairsOfHeap DEF HeapPairs

LEMMA OwnedIs ==
  ASSUME HeapInv(arena, owned)
  PROVE  owned = [u \in Tasks |-> owned[u]]
BY DEF HeapInv

LEMMA TakesKeeps ==
  ASSUME HeapInv(arena, owned), NEW t \in Tasks, NEW r, NEW br, NEW bt, NEW k, Takes(t, r, br, bt, k)
  PROVE  /\ HeapInv(arena', owned')
         /\ \A u \in Tasks : u # t => owned'[u] = owned[u]
         /\ \A u \in Tasks : u # t => \A b \in owned[u] : SizeOf(arena', b) = SizeOf(arena, b)
         /\ \A b \in owned[t] : b \in owned'[t]
<1>1. /\ r \in RegionSet /\ Taken(arena[r], br, Size[r], bt, k) /\ ~ Used(arena[r], bt)
      /\ arena' = [arena EXCEPT ![r] = br]
      /\ owned' = [owned EXCEPT ![t] = @ \cup {<<r, bt>>}]
  BY DEF Takes
<1>2. HeapPairs(arena, owned)
  BY PairsOfHeap
<1>3. HeapPairs(arena', owned')
  BY <1>1, <1>2, HeapTaken
<1>4. OnlyOwner(owned, t, r, bt)
  BY <1>1, Unowned DEF OnlyOwner
<1>5. SameSizes(arena[r], br, bt)
  BY <1>1 DEF Taken, SameSizes
<1>6. \A u \in Tasks : u # t => \A b \in owned[u] : SizeOf(arena', b) = SizeOf(arena, b)
  <2>1. \A bs : bs = [arena EXCEPT ![r] = br] =>
          OthersKeep(arena, bs, owned, t)
    BY <1>1, <1>2, <1>4, <1>5, SizesKept
  <2> QED BY <1>1, <2>1, Zenon DEF OthersKeep
<1>7. \A u \in Tasks : u # t => owned'[u] = owned[u]
  BY <1>1, OwnedIs
<1>8. \A b \in owned[t] : b \in owned'[t]
  BY <1>1, OwnedIs
<1> QED BY <1>3, <1>6, <1>7, <1>8, HeapOfPairs

LEMMA GivesKeeps ==
  ASSUME HeapInv(arena, owned), NEW t \in Tasks, NEW r, NEW br, NEW bt, Gives(t, r, br, bt)
  PROVE  /\ HeapInv(arena', owned')
         /\ \A u \in Tasks : u # t => owned'[u] = owned[u]
         /\ \A u \in Tasks : u # t => \A b \in owned[u] : SizeOf(arena', b) = SizeOf(arena, b)
<1>1. /\ r \in RegionSet /\ Given(arena[r], br, Size[r], bt) /\ <<r, bt>> \in owned[t]
      /\ arena' = [arena EXCEPT ![r] = br]
      /\ owned' = [owned EXCEPT ![t] = @ \ {<<r, bt>>}]
  BY DEF Gives
<1>2. HeapPairs(arena, owned)
  BY PairsOfHeap
<1>3. HeapPairs(arena', owned')
  BY <1>1, <1>2, HeapGiven
<1>4. OnlyOwner(owned, t, r, bt)
  BY <1>1, OwnedBlock DEF OnlyOwner
<1>5. SameSizes(arena[r], br, bt)
  BY <1>1 DEF Given, SameSizes
<1>6. \A u \in Tasks : u # t => \A b \in owned[u] : SizeOf(arena', b) = SizeOf(arena, b)
  <2>1. \A bs : bs = [arena EXCEPT ![r] = br] =>
          OthersKeep(arena, bs, owned, t)
    BY <1>1, <1>2, <1>4, <1>5, SizesKept
  <2> QED BY <1>1, <2>1, Zenon DEF OthersKeep
<1>7. \A u \in Tasks : u # t => owned'[u] = owned[u]
  BY <1>1, OwnedIs
<1> QED BY <1>3, <1>6, <1>7, HeapOfPairs

LEMMA ResizesKeeps ==
  ASSUME HeapInv(arena, owned), NEW t \in Tasks, NEW r, NEW br, NEW bt, NEW k, Resizes(t, r, br, bt, k)
  PROVE  /\ HeapInv(arena', owned')
         /\ \A u \in Tasks : u # t => \A b \in owned[u] : SizeOf(arena', b) = SizeOf(arena, b)
<1>1. /\ r \in RegionSet /\ Resized(arena[r], br, Size[r], bt, k) /\ <<r, bt>> \in owned[t]
      /\ arena' = [arena EXCEPT ![r] = br]
      /\ owned' = owned
  BY DEF Resizes
<1>2. HeapPairs(arena, owned)
  BY PairsOfHeap
<1>3. HeapPairs(arena', owned)
  BY <1>1, <1>2, HeapResized
<1>4. OnlyOwner(owned, t, r, bt)
  BY <1>1, OwnedBlock DEF OnlyOwner
<1>5. SameSizes(arena[r], br, bt)
  BY <1>1 DEF Resized, SameSizes
<1>6. \A u \in Tasks : u # t => \A b \in owned[u] : SizeOf(arena', b) = SizeOf(arena, b)
  <2>1. \A bs : bs = [arena EXCEPT ![r] = br] =>
          OthersKeep(arena, bs, owned, t)
    BY <1>1, <1>2, <1>4, <1>5, SizesKept
  <2> QED BY <1>1, <2>1, Zenon DEF OthersKeep
<1> QED BY <1>1, <1>3, <1>6, HeapOfPairs

------------------------------------------------------------------------------
(* The actions                                                                *)
LEMMA FirstRegion ==
  ASSUME NEW todo \in Positions
  PROVE  First(todo) \in todo /\ Regions[First(todo)] \in RegionSet
<1>1. todo \subseteq DOMAIN Regions /\ todo # {}
  BY DEF Positions
<1>2. DOMAIN Regions = 1 .. Len(Regions)
  BY MemoryAssumption
<1>3. todo \subseteq Nat
  BY <1>1, <1>2
<1>4. First(todo) \in todo
  BY <1>1, <1>3, LeastExists
<1> QED BY <1>1, <1>4 DEF RegionSet

LEMMA MallocTakes ==
  ASSUME IInv, NEW t \in Tasks, MallocBelow(t)
  PROVE  \E r, br, bt, k : Takes(t, r, br, bt, k)
<1> DEFINE r == Regions[First(call[t].todo)]
           k == call[t].want
           bt == find_fit(arena[r], k)
           br == ar_malloc(arena[r], bt, k)
<1>1. HeapInv(arena, owned) /\ CallsInv
  BY DEF IInv
<1>2. /\ pc[t] = "malloc" /\ bt # None
      /\ arena' = [arena EXCEPT ![r] = br]
      /\ owned' = [owned EXCEPT ![t] = @ \cup {<<r, bt>>}]
  BY <1>1 DEF MallocBelow, At, HeapInv
<1>3. call[t] \in Mallocing
  BY <1>1, <1>2 DEF CallsInv, CallOK
<1>4. k \in Nat /\ k > 0 /\ call[t].todo \in Positions
  <2>1. k \in Requests /\ call[t].todo \in Positions
    BY <1>3 DEF Mallocing
  <2>2. \A x \in Requests : x \in Nat /\ x > 0
    BY MemoryAssumption
  <2> QED BY <2>1, <2>2
<1>5. r \in RegionSet
  BY <1>4, FirstRegion
<1>6. ArenaInv(arena[r], Size[r]) /\ Size[r] \in Nat
  BY <1>1, <1>5, SizeNat DEF HeapInv
<1> HIDE DEF r, k
<1>7. bt \in FreeBlocksOf(arena[r]) /\ k <= arena[r].hdr[bt].size
  BY <1>2, <1>4, <1>6, Fits
<1> HIDE DEF bt
<1>8. Taken(arena[r], br, Size[r], bt, k)
  BY <1>4, <1>6, <1>7, Mallocs
<1>9. ~ Used(arena[r], bt)
  BY <1>7 DEF Used, FreeBlocksOf
<1>10. Takes(t, r, br, bt, k)
  BY <1>2, <1>5, <1>8, <1>9 DEF Takes
<1> QED BY <1>10

LEMMA FreeGives ==
  ASSUME HeapInv(arena, owned), NEW t \in Tasks, NEW r, NEW bt, <<r, bt>> \in owned[t],
         arena' = [arena EXCEPT ![r] = ar_free(@, bt)],
         owned' = [owned EXCEPT ![t] = @ \ {<<r, bt>>}]
  PROVE  Gives(t, r, ar_free(arena[r], bt), bt)
<1>1. /\ r \in RegionSet /\ bt \in 0 .. Size[r] - 1 /\ Used(arena[r], bt)
      /\ ArenaInv(arena[r], Size[r]) /\ Size[r] \in Nat
  BY OwnedBlock
<1>2. Given(arena[r], ar_free(arena[r], bt), Size[r], bt)
  BY <1>1, Frees
<1>3. arena' = [arena EXCEPT ![r] = ar_free(arena[r], bt)]
  BY <1>1 DEF HeapInv
<1> QED BY <1>1, <1>2, <1>3 DEF Gives

LEMMA MallocBelowStep ==
  ASSUME IInv, NEW t \in Tasks, MallocBelow(t)
  PROVE  IInv'
<1>1. HeapInv(arena, owned) /\ CallsInv
  BY DEF IInv
<1>2. PICK r, br, bt, k : Takes(t, r, br, bt, k)
  BY MallocTakes
<1>3. /\ HeapInv(arena', owned')
      /\ \A u \in Tasks : u # t => owned'[u] = owned[u]
      /\ \A u \in Tasks : u # t => \A b \in owned[u] : SizeOf(arena', b) = SizeOf(arena, b)
      /\ \A b \in owned[t] : b \in owned'[t]
  BY <1>1, <1>2, TakesKeeps
<1>4. pc[t] = "malloc" /\ CallOK(t)
  BY <1>1 DEF MallocBelow, At, CallsInv
<1>5. call[t] \in Mallocing /\ (call[t].old # None => call[t].old \in owned[t])
  BY <1>4 DEF CallOK
<1>6. CASE Goto(t, "idle", None)
  <2>1. "idle" \in Labels
    BY DEF Labels
  <2>2. /\ pc' \in [Tasks -> Labels] /\ call' = [u \in Tasks |-> call'[u]]
        /\ pc'[t] = "idle"
        /\ \A u \in Tasks : u # t => pc'[u] = pc[u] /\ call'[u] = call[u]
    BY <1>1, <1>6, <2>1, GoesTo
  <2>3. CallOK(t)'
    BY <2>2 DEF CallOK
  <2>4. CallsInv'
    BY <1>1, <1>3, <2>2, <2>3, OtherCalls
  <2> QED BY <1>3, <2>4 DEF IInv
<1>7. CASE call[t].old # None /\ Goto(t, "free", call[t])
  <2>1. "free" \in Labels
    BY DEF Labels
  <2>2. /\ pc' \in [Tasks -> Labels] /\ call' = [u \in Tasks |-> call'[u]]
        /\ pc'[t] = "free" /\ call'[t] = call[t]
        /\ \A u \in Tasks : u # t => pc'[u] = pc[u] /\ call'[u] = call[u]
    BY <1>1, <1>7, <2>1, GoesTo
  <2>3. CallOK(t)'
    BY <1>3, <1>5, <1>7, <2>2 DEF CallOK
  <2>4. CallsInv'
    BY <1>1, <1>3, <2>2, <2>3, OtherCalls
  <2> QED BY <1>3, <2>4 DEF IInv
<1> QED BY <1>6, <1>7 DEF MallocBelow

LEMMA MemFreeStep ==
  ASSUME IInv, NEW t \in Tasks, NEW b \in owned[t], MemFree(t, b[1], b[2])
  PROVE  IInv' /\ Gives(t, b[1], ar_free(arena[b[1]], b[2]), b[2])
<1>1. HeapInv(arena, owned) /\ CallsInv
  BY DEF IInv
<1>2. /\ pc[t] = "idle" /\ <<b[1], b[2]>> \in owned[t] /\ pc' = pc /\ call' = call
      /\ arena' = [arena EXCEPT ![b[1]] = ar_free(@, b[2])]
      /\ owned' = [owned EXCEPT ![t] = @ \ {<<b[1], b[2]>>}]
  BY DEF MemFree, At
<1>3. Gives(t, b[1], ar_free(arena[b[1]], b[2]), b[2])
  BY <1>1, <1>2, FreeGives
<1>4. /\ HeapInv(arena', owned')
      /\ \A u \in Tasks : u # t => owned'[u] = owned[u]
      /\ \A u \in Tasks : u # t => \A c \in owned[u] : SizeOf(arena', c) = SizeOf(arena, c)
  BY <1>1, <1>3, GivesKeeps
<1>5. pc \in [Tasks -> Labels] /\ call = [u \in Tasks |-> call[u]]
  BY <1>1, CallTypes
<1>6. CallOK(t)'
  BY <1>2 DEF CallOK
<1>7. CallsInv'
  BY <1>1, <1>2, <1>4, <1>5, <1>6, OtherCalls
<1> QED BY <1>3, <1>4, <1>7 DEF IInv

LEMMA FreeOldStep ==
  ASSUME IInv, NEW t \in Tasks, FreeOld(t)
  PROVE  IInv' /\ \E r, br, bt : Gives(t, r, br, bt)
<1> DEFINE b == call[t].old
<1>1. HeapInv(arena, owned) /\ CallsInv
  BY DEF IInv
<1>2. /\ pc[t] = "free" /\ Goto(t, "idle", None)
      /\ arena' = [arena EXCEPT ![b[1]] = ar_free(@, b[2])]
      /\ owned' = [owned EXCEPT ![t] = @ \ {b}]
  BY DEF FreeOld, At
<1>3. b \in owned[t]
  BY <1>1, <1>2 DEF CallsInv, CallOK
<1> HIDE DEF b
<1>4. b = <<b[1], b[2]>>
  BY <1>1, <1>3, PairsOfHeap DEF HeapPairs
<1>5. Gives(t, b[1], ar_free(arena[b[1]], b[2]), b[2])
  <2>1. /\ <<b[1], b[2]>> \in owned[t]
        /\ owned' = [owned EXCEPT ![t] = @ \ {<<b[1], b[2]>>}]
    BY <1>2, <1>3, <1>4, Zenon
  <2> QED BY <1>1, <1>2, <2>1, FreeGives
<1>6. /\ HeapInv(arena', owned')
      /\ \A u \in Tasks : u # t => owned'[u] = owned[u]
      /\ \A u \in Tasks : u # t => \A c \in owned[u] : SizeOf(arena', c) = SizeOf(arena, c)
  BY <1>1, <1>5, GivesKeeps
<1>7. "idle" \in Labels
  BY DEF Labels
<1>8. /\ pc' \in [Tasks -> Labels] /\ call' = [u \in Tasks |-> call'[u]]
      /\ pc'[t] = "idle"
      /\ \A u \in Tasks : u # t => pc'[u] = pc[u] /\ call'[u] = call[u]
  BY <1>1, <1>2, <1>7, GoesTo
<1>9. CallOK(t)'
  BY <1>8 DEF CallOK
<1>10. CallsInv'
  BY <1>1, <1>6, <1>8, <1>9, OtherCalls
<1> QED BY <1>5, <1>6, <1>10 DEF IInv

LEMMA MemReallocStep ==
  ASSUME IInv, NEW t \in Tasks, NEW b \in owned[t], NEW n \in Requests,
         MemRealloc(t, b[1], b[2], n)
  PROVE  IInv'
<1> DEFINE locals == [want |-> n, old |-> <<b[1], b[2]>>, size |-> arena[b[1]].hdr[b[2]].size]
<1>1. HeapInv(arena, owned) /\ CallsInv
  BY DEF IInv
<1>2. /\ Goto(t, "realloc", locals) /\ arena' = arena /\ owned' = owned
      /\ <<b[1], b[2]>> \in owned[t] /\ n # arena[b[1]].hdr[b[2]].size
  BY DEF MemRealloc
<1>3. /\ b[1] \in RegionSet /\ b[2] \in 0 .. Size[b[1]] - 1 /\ Used(arena[b[1]], b[2])
      /\ ArenaInv(arena[b[1]], Size[b[1]]) /\ Size[b[1]] \in Nat
  BY <1>1, <1>2, OwnedBlock
<1>4. arena[b[1]].hdr[b[2]].size \in Nat
  BY <1>3, UsedBlock
<1>5. <<b[1], b[2]>> \in Blocks
  BY <1>3, BlockPair
<1>6. locals \in Reallocing /\ locals.old = <<b[1], b[2]>> /\ locals.want = n
      /\ locals.size = arena[b[1]].hdr[b[2]].size
  BY <1>4, <1>5 DEF Reallocing
<1>7. locals.old[1] = b[1] /\ locals.old[2] = b[2]
  BY <1>6
<1> HIDE DEF locals
<1>8. "realloc" \in Labels
  BY DEF Labels
<1>9. /\ pc' \in [Tasks -> Labels] /\ call' = [u \in Tasks |-> call'[u]]
      /\ pc'[t] = "realloc" /\ call'[t] = locals
      /\ \A u \in Tasks : u # t => pc'[u] = pc[u] /\ call'[u] = call[u]
  BY <1>1, <1>2, <1>8, GoesTo
<1>10. CallOK(t)'
  BY <1>2, <1>6, <1>7, <1>9, Zenon DEF CallOK
<1>11. CallsInv'
  BY <1>1, <1>2, <1>9, <1>10, OtherCalls
<1> QED BY <1>1, <1>2, <1>11 DEF IInv

LEMMA ReallocInPlaceStep ==
  ASSUME IInv, NEW t \in Tasks, ReallocInPlace(t)
  PROVE  /\ IInv'
         /\ \/ \E r, br, bt, k : Resizes(t, r, br, bt, k)
            \/ arena' = arena /\ owned' = owned
<1> DEFINE k == call[t].want
           sz == call[t].size
           r == call[t].old[1]
           bt == call[t].old[2]
<1>1. HeapInv(arena, owned) /\ CallsInv
  BY DEF IInv
<1>2. pc[t] = "realloc" /\ CallOK(t)
  BY <1>1 DEF ReallocInPlace, At, CallsInv
<1>3. /\ call[t] \in Reallocing /\ call[t].old \in owned[t]
      /\ sz = arena[r].hdr[bt].size
  BY <1>2 DEF CallOK
<1>4. k \in Nat /\ k > 0 /\ k \in Requests
  <2>1. k \in Requests
    BY <1>3 DEF Reallocing
  <2>2. \A x \in Requests : x \in Nat /\ x > 0
    BY MemoryAssumption
  <2> QED BY <2>1, <2>2
<1>5. call[t].old = <<r, bt>> /\ <<r, bt>> \in owned[t]
  BY <1>1, <1>3, PairsOfHeap DEF HeapPairs
<1>6. /\ r \in RegionSet /\ bt \in 0 .. Size[r] - 1 /\ Used(arena[r], bt)
      /\ ArenaInv(arena[r], Size[r]) /\ Size[r] \in Nat
  BY <1>1, <1>5, OwnedBlock
<1>7. owned' = owned
  BY DEF ReallocInPlace
<1>8. ASSUME NEW br, Resized(arena[r], br, Size[r], bt, k), arena' = [arena EXCEPT ![r] = br],
             Goto(t, "idle", None)
      PROVE  IInv' /\ Resizes(t, r, br, bt, k)
  <2> HIDE DEF k, r, bt
  <2>1. Resizes(t, r, br, bt, k)
    BY <1>5, <1>6, <1>7, <1>8 DEF Resizes
  <2>2. /\ HeapInv(arena', owned')
        /\ \A u \in Tasks : u # t => \A b \in owned[u] : SizeOf(arena', b) = SizeOf(arena, b)
    BY <1>1, <2>1, ResizesKeeps
  <2>3. "idle" \in Labels
    BY DEF Labels
  <2>4. /\ pc' \in [Tasks -> Labels] /\ call' = [u \in Tasks |-> call'[u]]
        /\ pc'[t] = "idle"
        /\ \A u \in Tasks : u # t => pc'[u] = pc[u] /\ call'[u] = call[u]
    BY <1>1, <1>8, <2>3, GoesTo
  <2>5. CallOK(t)'
    BY <2>4 DEF CallOK
  <2>6. CallsInv'
    BY <1>1, <1>7, <2>2, <2>4, <2>5, OtherCalls
  <2> QED BY <2>1, <2>2, <2>6 DEF IInv
<1>9. CASE /\ k < sz
           /\ arena' = [arena EXCEPT ![r] = Shrink(@, bt, sz, k)]
           /\ Goto(t, "idle", None)
  <2> HIDE DEF k, r, bt, sz
  <2>1. Resized(arena[r], Shrink(arena[r], bt, sz, k), Size[r], bt, k)
    BY <1>3, <1>4, <1>6, <1>9, Shrinks
  <2>2. arena' = [arena EXCEPT ![r] = Shrink(arena[r], bt, sz, k)]
    BY <1>1, <1>6, <1>9 DEF HeapInv
  <2> QED BY <1>8, <1>9, <2>1, <2>2
<1>10. CASE /\ k > sz /\ CanGrow(arena[r], bt, sz, k)
            /\ arena' = [arena EXCEPT ![r] = Grow(@, bt, sz, k)]
            /\ Goto(t, "idle", None)
  <2> HIDE DEF k, r, bt, sz
  <2>1. Resized(arena[r], Grow(arena[r], bt, sz, k), Size[r], bt, k)
    BY <1>3, <1>4, <1>6, <1>10, Grows
  <2>2. arena' = [arena EXCEPT ![r] = Grow(arena[r], bt, sz, k)]
    BY <1>1, <1>6, <1>10 DEF HeapInv
  <2> QED BY <1>8, <1>10, <2>1, <2>2
<1>11. CASE /\ Goto(t, "malloc", [want |-> k, todo |-> RegionsBelow(FALSE), old |-> call[t].old])
            /\ arena' = arena
  <2> DEFINE locals == [want |-> k, todo |-> RegionsBelow(FALSE), old |-> call[t].old]
  <2>1. RegionsBelow(FALSE) \in Positions
    BY RegionsBelowNonempty
  <2>2. call[t].old \in Blocks
    BY <1>3 DEF Reallocing
  <2>3. locals \in Mallocing /\ locals.old = call[t].old
    BY <1>4, <2>1, <2>2 DEF Mallocing
  <2> HIDE DEF locals
  <2>4. "malloc" \in Labels
    BY DEF Labels
  <2>5. Goto(t, "malloc", locals)
    BY <1>11 DEF locals
  <2> HIDE DEF k, r, bt, sz
  <2>6. /\ pc' \in [Tasks -> Labels] /\ call' = [u \in Tasks |-> call'[u]]
        /\ pc'[t] = "malloc" /\ call'[t] = locals
        /\ \A u \in Tasks : u # t => pc'[u] = pc[u] /\ call'[u] = call[u]
    BY <1>1, <2>4, <2>5, GoesTo
  <2>7. CallOK(t)'
    BY <1>3, <1>7, <2>3, <2>6 DEF CallOK
  <2>8. CallsInv'
    BY <1>1, <1>7, <1>11, <2>6, <2>7, OtherCalls
  <2> QED BY <1>1, <1>7, <1>11, <2>8 DEF IInv
<1>12. ReallocInPlace(t) =>
         \/ /\ k < sz
            /\ arena' = [arena EXCEPT ![r] = Shrink(@, bt, sz, k)]
            /\ Goto(t, "idle", None)
         \/ /\ k > sz /\ CanGrow(arena[r], bt, sz, k)
            /\ arena' = [arena EXCEPT ![r] = Grow(@, bt, sz, k)]
            /\ Goto(t, "idle", None)
         \/ /\ Goto(t, "malloc", [want |-> k, todo |-> RegionsBelow(FALSE), old |-> call[t].old])
            /\ arena' = arena
  BY Zenon DEF ReallocInPlace
<1> QED BY <1>9, <1>10, <1>11, <1>12, Zenon

------------------------------------------------------------------------------
LEMMA Start ==
  ASSUME EndWordUsed, Init
  PROVE  IInv
<1>1. /\ arena = [r \in RegionSet |-> ar_init(Size[r])]
      /\ owned = [t \in Tasks |-> {}]
      /\ pc = [t \in Tasks |-> "idle"]
      /\ call = [t \in Tasks |-> None]
  BY DEF Init
<1>2. ASSUME NEW r \in RegionSet
      PROVE  ArenaInv(arena[r], Size[r]) /\ \A i : ~ Used(arena[r], i)
  <2>1. Size[r] \in Nat /\ Size[r] > 0
    BY SizeNat
  <2>2. ArenaInv(ar_init(Size[r]), Size[r]) /\ \A i : ~ Used(ar_init(Size[r]), i)
    BY <2>1, ArenaFresh
  <2>3. arena[r] = ar_init(Size[r])
    BY <1>1
  <2> QED BY <2>2, <2>3
<1>3. HeapPairs(arena, owned)
  BY <1>1, <1>2 DEF HeapPairs
<1>4. CallsInv
  BY <1>1 DEF CallsInv, CallOK
<1> QED BY <1>3, <1>4, HeapOfPairs DEF IInv

LEMMA Stutter ==
  ASSUME IInv, UNCHANGED vars
  PROVE  IInv'
<1>1. arena' = arena /\ owned' = owned /\ pc' = pc /\ call' = call
  BY DEF vars
<1> QED BY <1>1 DEF IInv, CallsInv, CallOK

LEMMA Step ==
  ASSUME IInv, [Next]_vars
  PROVE  IInv'
<1>1. CASE Next
  <2>1. PICK t \in Tasks :
          \/ \E n \in Requests, chip \in BOOLEAN : MemAlloc(t, n, chip)
          \/ \E b \in owned[t] :
               \/ MemFree(t, b[1], b[2])
               \/ \E n \in Requests : MemRealloc(t, b[1], b[2], n)
          \/ MallocBelow(t) \/ MallocFails(t) \/ ReallocInPlace(t) \/ FreeOld(t)
    BY <1>1 DEF Next
  <2> QED BY <2>1, AllocStep, MemFreeStep, MemReallocStep, MallocBelowStep, MallocFailsStep,
             ReallocInPlaceStep, FreeOldStep
<1>2. CASE UNCHANGED vars
  BY <1>2, Stutter
<1> QED BY <1>1, <1>2

LEMMA Inductive ==
  ASSUME EndWordUsed
  PROVE  Spec => []IInv
<1>1. Init => IInv
  BY Start
<1>2. IInv /\ [Next]_vars => IInv'
  BY Step
<1> QED BY <1>1, <1>2, PTL DEF Spec

(* The blocks in use, as the abstract heap sees them                          *)
Rec(r, i, k) == [region |-> r, start |-> i, size |-> k]

InUse(as, ow) ==
  {Rec(b[1], b[2], as[b[1]].hdr[b[2]].size) : b \in UNION {ow[t] : t \in Tasks}}

LEMMA RecIs ==
  /\ \A r, i, k : Rec(r, i, k).region = r /\ Rec(r, i, k).start = i /\ Rec(r, i, k).size = k
  /\ \A r, i, k, n : [Rec(r, i, k) EXCEPT !.size = n] = Rec(r, i, n)
BY DEF Rec

SizeIn(as, r, i) == as[r].hdr[i].size

HeapOf(as, used) ==
  \A x : x \in used <=> \E r \in RegionSet : \E i : Used(as[r], i) /\ x = Rec(r, i, SizeIn(as, r, i))

LEMMA InUseIs ==
  ASSUME NEW as, NEW ow, HeapPairs(as, ow)
  PROVE  HeapOf(as, InUse(as, ow))
<1>1. /\ \A t \in Tasks : \A b \in ow[t] : b = <<b[1], b[2]>>
      /\ \A t \in Tasks : \A r, i : <<r, i>> \in ow[t] => r \in RegionSet /\ Used(as[r], i)
      /\ \A r \in RegionSet : \A i : Used(as[r], i) => \E t \in Tasks : <<r, i>> \in ow[t]
  BY DEF HeapPairs
<1>2. ASSUME NEW x \in InUse(as, ow)
      PROVE  \E r \in RegionSet : \E i : Used(as[r], i) /\ x = Rec(r, i, as[r].hdr[i].size)
  <2>1. PICK b \in UNION {ow[t] : t \in Tasks} : x = Rec(b[1], b[2], as[b[1]].hdr[b[2]].size)
    BY <1>2 DEF InUse
  <2>4. PICK t \in Tasks : b \in ow[t]
    BY <2>1
  <2>2. <<b[1], b[2]>> \in ow[t]
    BY <1>1, <2>4
  <2>3. b[1] \in RegionSet /\ Used(as[b[1]], b[2])
    BY <1>1, <2>2, <2>4
  <2> QED BY <2>1, <2>3
<1>3. ASSUME NEW r \in RegionSet, NEW i, Used(as[r], i)
      PROVE  Rec(r, i, as[r].hdr[i].size) \in InUse(as, ow)
  <2>1. PICK t \in Tasks : <<r, i>> \in ow[t]
    BY <1>1, <1>3
  <2>2. <<r, i>>[1] = r /\ <<r, i>>[2] = i
    OBVIOUS
  <2>3. <<r, i>> \in UNION {ow[u] : u \in Tasks}
    BY <2>1
  <2> QED BY <2>2, <2>3, Zenon DEF InUse
<1> QED BY <1>2, <1>3 DEF HeapOf, SizeIn

(* Two used blocks of an arena lie apart and inside it                        *)
LEMMA UsedApart ==
  ASSUME NEW n \in Nat, NEW ar, ArenaInv(ar, n), NEW i, Used(ar, i), NEW j, Used(ar, j), i # j
  PROVE  /\ i \in Nat /\ j \in Nat /\ ar.hdr[i].size \in Nat /\ ar.hdr[j].size \in Nat
         /\ i + ar.hdr[i].size <= j \/ j + ar.hdr[j].size <= i
<1>1. Shaped(ar, n) /\ i \in BlocksOf(ar) /\ j \in BlocksOf(ar)
  BY InvFacts DEF Used
<1>2. i \in Nat /\ j \in Nat /\ ar.hdr[i].size \in Nat /\ ar.hdr[j].size \in Nat
  BY <1>1, BlockFacts
<1>3. CASE i < j
  BY <1>1, <1>2, <1>3, Separate
<1>4. CASE j < i
  BY <1>1, <1>2, <1>4, Separate
<1> QED BY <1>2, <1>3, <1>4

LEMMA UsedInside ==
  ASSUME NEW n \in Nat, NEW ar, ArenaInv(ar, n), NEW i, Used(ar, i)
  PROVE  /\ i \in 0 .. n /\ ar.hdr[i].size \in 1 .. n /\ i + ar.hdr[i].size <= n
<1>1. Shaped(ar, n) /\ i \in BlocksOf(ar)
  BY InvFacts DEF Used
<1>2. i \in 0 .. n - 1 /\ ar.hdr[i].size \in Nat /\ ar.hdr[i].size > 0
      /\ i + ar.hdr[i].size <= n
  BY <1>1, BlockFacts
<1> QED BY <1>2

LEMMA IntervalsApart ==
  ASSUME NEW i \in Nat, NEW k \in Nat, NEW j \in Nat, NEW m \in Nat, i + k <= j \/ j + m <= i
  PROVE  (i .. i + k - 1) \cap (j .. j + m - 1) = {}
OBVIOUS

LEMMA UnitsIs ==
  \A r, i, k : H!Units(Rec(r, i, k)) = {<<r, x>> : x \in i .. i + k - 1}
<1> SUFFICES ASSUME NEW r, NEW i, NEW k
             PROVE  H!Units(Rec(r, i, k)) = {<<r, x>> : x \in i .. i + k - 1}
  OBVIOUS
<1> DEFINE b == Rec(r, i, k)
<1>1. H!Units(b) = {<<b.region, x>> : x \in b.start .. b.start + b.size - 1}
  BY DEF H!Units
<1>2. b.region = r /\ b.start = i /\ b.size = k
  BY RecIs
<1> HIDE DEF b
<1> QED BY <1>1, <1>2, Zenon DEF b

Beside(as, others, r, i) ==
  \A o \in others : \E q \in RegionSet : \E j :
    Used(as[q], j) /\ o = Rec(q, j, as[q].hdr[j].size) /\ ~ (q = r /\ j = i)

(* so a used block fits beside the others                                     *)
LEMMA FitsBeside ==
  ASSUME NEW as, NEW ow, HeapPairs(as, ow), NEW r \in RegionSet, NEW i, Used(as[r], i),
         NEW others, Beside(as, others, r, i)
  PROVE  H!Fits(Rec(r, i, as[r].hdr[i].size), others)
<1> DEFINE k == as[r].hdr[i].size
<1>1. /\ \A q \in RegionSet : ArenaInv(as[q], Size[q])
      /\ \A q \in RegionSet : Size[q] \in Nat
  BY SizeNat DEF HeapPairs
<1>2. i + k <= Size[r] /\ i \in Nat /\ k \in Nat
  <2>1. ArenaInv(as[r], Size[r]) /\ Size[r] \in Nat
    BY <1>1
  <2>2. i \in 0 .. Size[r] /\ k \in 1 .. Size[r] /\ i + k <= Size[r]
    BY <2>1, UsedInside
  <2> HIDE DEF k
  <2> QED BY <2>1, <2>2
<1>3. ASSUME NEW o \in others PROVE H!Units(Rec(r, i, k)) \cap H!Units(o) = {}
  <2>1. PICK q, j :
           q \in RegionSet /\ Used(as[q], j) /\ o = Rec(q, j, as[q].hdr[j].size) /\ ~ (q = r /\ j = i)
    BY DEF Beside
  <2> DEFINE m == as[q].hdr[j].size
  <2>2. j \in Nat /\ m \in Nat
    <3>1. ArenaInv(as[q], Size[q]) /\ Size[q] \in Nat
      BY <1>1, <2>1
    <3>2. j \in 0 .. Size[q] /\ m \in 1 .. Size[q]
      BY <2>1, <3>1, UsedInside
    <3> HIDE DEF m
    <3> QED BY <3>1, <3>2
  <2>3. q = r => i + k <= j \/ j + m <= i
    <3> SUFFICES ASSUME q = r PROVE i + k <= j \/ j + m <= i
      OBVIOUS
    <3>1. Used(as[r], j) /\ i # j /\ m = as[r].hdr[j].size
      BY <2>1
    <3> QED BY <1>1, <3>1, UsedApart
  <2>4. o = Rec(q, j, m)
    BY <2>1
  <2> HIDE DEF m, k
  <2>5. H!Units(Rec(r, i, k)) = {<<r, x>> : x \in i .. i + k - 1}
        /\ H!Units(o) = {<<q, x>> : x \in j .. j + m - 1}
    BY <2>4, UnitsIs
  <2>6. q = r => (i .. i + k - 1) \cap (j .. j + m - 1) = {}
    BY <1>2, <2>2, <2>3, IntervalsApart
  <2> QED BY <2>5, <2>6
<1>4. Rec(r, i, k).start + Rec(r, i, k).size <= Size[Rec(r, i, k).region]
  <2> HIDE DEF k
  <2>1. Rec(r, i, k).region = r /\ Rec(r, i, k).start = i /\ Rec(r, i, k).size = k
    BY RecIs
  <2> QED BY <1>2, <2>1, Zenon
<1> QED BY <1>3, <1>4, Zenon DEF H!Fits

InUseChanges(as, ow, bs, ox, b, c) ==
  /\ b \in InUse(as, ow) /\ H!Fits(c, InUse(as, ow) \ {b})
  /\ InUse(bs, ox) = (InUse(as, ow) \ {b}) \cup {c}

(* a step from the arenas as to the arenas bs                                 *)
UsedGains(as, bs, r, bt) ==
  \A q \in RegionSet : \A i : Used(bs[q], i) <=> Used(as[q], i) \/ (q = r /\ i = bt)
UsedLoses(as, bs, r, bt) ==
  \A q \in RegionSet : \A i : Used(bs[q], i) <=> Used(as[q], i) /\ ~ (q = r /\ i = bt)
UsedStays(as, bs) ==
  \A q \in RegionSet : \A i : Used(bs[q], i) <=> Used(as[q], i)
Others(as, bs, r, bt) ==
  \A q \in RegionSet : \A i : Used(as[q], i) /\ ~ (q = r /\ i = bt) =>
    SizeIn(bs, q, i) = SizeIn(as, q, i)

(* The steps as the abstract heap sees them                                   *)
LEMMA InUseTaken ==
  ASSUME NEW as, NEW ow, HeapPairs(as, ow), NEW bs, NEW ox, HeapPairs(bs, ox),
         NEW r \in RegionSet, NEW bt, NEW k,
         UsedGains(as, bs, r, bt), Others(as, bs, r, bt),
         ~ Used(as[r], bt), SizeIn(bs, r, bt) = k
  PROVE  /\ InUse(bs, ox) = InUse(as, ow) \cup {Rec(r, bt, k)}
         /\ H!Fits(Rec(r, bt, k), InUse(as, ow))
<1>0. /\ \A q \in RegionSet : \A i : Used(bs[q], i) <=> Used(as[q], i) \/ (q = r /\ i = bt)
      /\ \A q \in RegionSet : \A i : Used(as[q], i) => SizeIn(bs, q, i) = SizeIn(as, q, i)
  <2>1. \A q \in RegionSet : \A i : Used(as[q], i) => ~ (q = r /\ i = bt)
    OBVIOUS
  <2> QED BY <2>1 DEF UsedGains, Others
<1>1. \A x : x \in InUse(as, ow) <=>
        \E q \in RegionSet : \E i : Used(as[q], i) /\ x = Rec(q, i, SizeIn(as, q, i))
  <2>1. HeapOf(as, InUse(as, ow))
    BY InUseIs
  <2> QED BY <2>1 DEF HeapOf
<1>2. \A x : x \in InUse(bs, ox) <=>
        \E q \in RegionSet : \E i : Used(bs[q], i) /\ x = Rec(q, i, SizeIn(bs, q, i))
  <2>1. HeapOf(bs, InUse(bs, ox))
    BY InUseIs
  <2> QED BY <2>1 DEF HeapOf
<1>3. \A x : x \in InUse(bs, ox) => x \in InUse(as, ow) \cup {Rec(r, bt, k)}
  <2> SUFFICES ASSUME NEW x \in InUse(bs, ox), x # Rec(r, bt, k) PROVE x \in InUse(as, ow)
    OBVIOUS
  <2>1. PICK q, i : q \in RegionSet /\ Used(bs[q], i) /\ x = Rec(q, i, SizeIn(bs, q, i))
    BY <1>2
  <2>2. Used(as[q], i)
    BY <1>0, <2>1
  <2> QED BY <1>0, <1>1, <2>1, <2>2
<1>4. \A x : x \in InUse(as, ow) => x \in InUse(bs, ox)
  <2> SUFFICES ASSUME NEW x \in InUse(as, ow) PROVE x \in InUse(bs, ox)
    OBVIOUS
  <2>1. PICK q, i : q \in RegionSet /\ Used(as[q], i) /\ x = Rec(q, i, SizeIn(as, q, i))
    BY <1>1
  <2>2. Used(bs[q], i) /\ x = Rec(q, i, SizeIn(bs, q, i))
    BY <1>0, <2>1
  <2> QED BY <2>1, <1>2, <2>2
<1>5. Used(bs[r], bt)
  BY <1>0
<1>6. Rec(r, bt, k) \in InUse(bs, ox)
  BY <1>2, <1>5
<1>7. Beside(bs, InUse(as, ow), r, bt)
  <2> SUFFICES ASSUME NEW o \in InUse(as, ow)
               PROVE  \E q \in RegionSet : \E j :
                        Used(bs[q], j) /\ o = Rec(q, j, SizeIn(bs, q, j)) /\ ~ (q = r /\ j = bt)
    BY DEF Beside, SizeIn
  <2>1. PICK q, j : q \in RegionSet /\ Used(as[q], j) /\ o = Rec(q, j, SizeIn(as, q, j))
    BY <1>1
  <2>2. Used(bs[q], j) /\ o = Rec(q, j, SizeIn(bs, q, j)) /\ ~ (q = r /\ j = bt)
    BY <1>0, <2>1
  <2> QED BY <2>1, <2>2
<1>8. H!Fits(Rec(r, bt, SizeIn(bs, r, bt)), InUse(as, ow))
  BY <1>5, <1>7, FitsBeside DEF SizeIn
<1> QED BY <1>3, <1>4, <1>6, <1>8

LEMMA InUseGiven ==
  ASSUME NEW as, NEW ow, HeapPairs(as, ow), NEW bs, NEW ox, HeapPairs(bs, ox),
         NEW r \in RegionSet, NEW bt, Used(as[r], bt),
         UsedLoses(as, bs, r, bt), Others(as, bs, r, bt)
  PROVE  \E b \in InUse(as, ow) : InUse(bs, ox) = InUse(as, ow) \ {b}
<1> DEFINE b == Rec(r, bt, SizeIn(as, r, bt))
<1>0. /\ \A q \in RegionSet : \A i : Used(bs[q], i) <=> Used(as[q], i) /\ ~ (q = r /\ i = bt)
      /\ \A q \in RegionSet : \A i : Used(bs[q], i) => SizeIn(bs, q, i) = SizeIn(as, q, i)
  BY DEF UsedLoses, Others
<1>1. \A x : x \in InUse(as, ow) <=>
        \E q \in RegionSet : \E i : Used(as[q], i) /\ x = Rec(q, i, SizeIn(as, q, i))
  <2>1. HeapOf(as, InUse(as, ow))
    BY InUseIs
  <2> QED BY <2>1 DEF HeapOf
<1>2. \A x : x \in InUse(bs, ox) <=>
        \E q \in RegionSet : \E i : Used(bs[q], i) /\ x = Rec(q, i, SizeIn(bs, q, i))
  <2>1. HeapOf(bs, InUse(bs, ox))
    BY InUseIs
  <2> QED BY <2>1 DEF HeapOf
<1>3. b \in InUse(as, ow)
  BY <1>1
<1>4. ASSUME NEW x \in InUse(bs, ox) PROVE x \in InUse(as, ow) /\ x # b
  <2>1. PICK q, i : q \in RegionSet /\ Used(bs[q], i) /\ x = Rec(q, i, SizeIn(bs, q, i))
    BY <1>2
  <2>2. Used(as[q], i) /\ ~ (q = r /\ i = bt) /\ x = Rec(q, i, SizeIn(as, q, i))
    BY <1>0, <2>1
  <2>3. x # b
    <3>1. x.region = q /\ x.start = i
      BY <2>2 DEF Rec
    <3>2. b.region = r /\ b.start = bt
      BY DEF Rec
    <3> QED BY <2>2, <3>1, <3>2, Zenon
  <2> QED BY <2>1, <1>1, <2>2, <2>3
<1>5. ASSUME NEW x \in InUse(as, ow), x # b PROVE x \in InUse(bs, ox)
  <2>1. PICK q, i : q \in RegionSet /\ Used(as[q], i) /\ x = Rec(q, i, SizeIn(as, q, i))
    BY <1>1
  <2>2. Used(bs[q], i) /\ x = Rec(q, i, SizeIn(bs, q, i))
    BY <1>0, <1>5, <2>1
  <2> QED BY <2>1, <1>2, <2>2
<1>6. InUse(bs, ox) = InUse(as, ow) \ {b}
  BY <1>4, <1>5
<1> QED BY <1>3, <1>6

LEMMA InUseResized ==
  ASSUME NEW as, NEW ow, HeapPairs(as, ow), NEW bs, NEW ox, HeapPairs(bs, ox),
         NEW r \in RegionSet, NEW bt, NEW k, Used(as[r], bt),
         UsedStays(as, bs), Others(as, bs, r, bt),
         SizeIn(bs, r, bt) = k
  PROVE  InUseChanges(as, ow, bs, ox, Rec(r, bt, SizeIn(as, r, bt)), Rec(r, bt, k))
<1> DEFINE b == Rec(r, bt, SizeIn(as, r, bt))
           c == Rec(r, bt, k)
<1>0. /\ \A q \in RegionSet : \A i : Used(bs[q], i) <=> Used(as[q], i)
      /\ \A q \in RegionSet : \A i : Used(as[q], i) /\ ~ (q = r /\ i = bt) =>
           SizeIn(bs, q, i) = SizeIn(as, q, i)
  BY DEF UsedStays, Others
<1>1. \A x : x \in InUse(as, ow) <=>
        \E q \in RegionSet : \E i : Used(as[q], i) /\ x = Rec(q, i, SizeIn(as, q, i))
  <2>1. HeapOf(as, InUse(as, ow))
    BY InUseIs
  <2> QED BY <2>1 DEF HeapOf
<1>2. \A x : x \in InUse(bs, ox) <=>
        \E q \in RegionSet : \E i : Used(bs[q], i) /\ x = Rec(q, i, SizeIn(bs, q, i))
  <2>1. HeapOf(bs, InUse(bs, ox))
    BY InUseIs
  <2> QED BY <2>1 DEF HeapOf
<1>3. b \in InUse(as, ow) /\ c \in InUse(bs, ox)
  BY <1>0, <1>1, <1>2
<1>4. ASSUME NEW x \in InUse(bs, ox), x # c PROVE x \in InUse(as, ow) /\ x # b
  <2>1. PICK q, i : q \in RegionSet /\ Used(bs[q], i) /\ x = Rec(q, i, SizeIn(bs, q, i))
    BY <1>2
  <2>2. Used(as[q], i) /\ ~ (q = r /\ i = bt) /\ x = Rec(q, i, SizeIn(as, q, i))
    BY <1>0, <1>4, <2>1
  <2>3. x # b
    <3>1. x.region = q /\ x.start = i
      BY <2>2 DEF Rec
    <3>2. b.region = r /\ b.start = bt
      BY DEF Rec
    <3> QED BY <2>2, <3>1, <3>2, Zenon
  <2> QED BY <2>1, <1>1, <2>2, <2>3
<1>5. ASSUME NEW x \in InUse(as, ow), x # b
      PROVE  \E q \in RegionSet : \E j :
               Used(bs[q], j) /\ x = Rec(q, j, SizeIn(bs, q, j)) /\ ~ (q = r /\ j = bt)
  <2>1. PICK q, i : q \in RegionSet /\ Used(as[q], i) /\ x = Rec(q, i, SizeIn(as, q, i))
    BY <1>1
  <2>2. ~ (q = r /\ i = bt)
    BY <1>0, <1>5, <2>1
  <2>3. Used(bs[q], i) /\ x = Rec(q, i, SizeIn(bs, q, i))
    BY <1>0, <2>1, <2>2
  <2> QED BY <2>1, <2>2, <2>3
<1>6. ASSUME NEW x \in InUse(as, ow), x # b PROVE x \in InUse(bs, ox)
  <2>1. \E q \in RegionSet : \E j : Used(bs[q], j) /\ x = Rec(q, j, SizeIn(bs, q, j))
    BY <1>5, <1>6
  <2> QED BY <1>2, <2>1, Zenon
<1>7. InUse(bs, ox) = (InUse(as, ow) \ {b}) \cup {c}
  BY <1>3, <1>4, <1>6
<1>8. Beside(bs, InUse(as, ow) \ {b}, r, bt)
  BY <1>5 DEF Beside, SizeIn
<1>9. Used(bs[r], bt)
  BY <1>0
<1>10. H!Fits(Rec(r, bt, SizeIn(bs, r, bt)), InUse(as, ow) \ {b})
  BY <1>8, <1>9, FitsBeside DEF SizeIn
<1> QED BY <1>3, <1>7, <1>10 DEF InUseChanges

LEMMA TakesIsAllocate ==
  ASSUME HeapInv(arena, owned), NEW t \in Tasks, NEW r, NEW br, NEW bt, NEW k, Takes(t, r, br, bt, k)
  PROVE  \E x \in RegionSet : \E s \in 0 .. Size[x] : \E n \in 1 .. Size[x] :
           /\ H!Fits(Rec(x, s, n), InUse(arena, owned))
           /\ InUse(arena', owned') = InUse(arena, owned) \cup {Rec(x, s, n)}
<1>1. HeapPairs(arena, owned) /\ HeapPairs(arena', owned')
  BY TakesKeeps, PairsOfHeap
<1>2. /\ r \in RegionSet /\ Taken(arena[r], br, Size[r], bt, k) /\ ~ Used(arena[r], bt)
      /\ arena' = [arena EXCEPT ![r] = br]
  BY DEF Takes
<1>3. arena'[r] = br /\ \A q \in RegionSet : q # r => arena'[q] = arena[q]
  BY <1>2 DEF HeapInv
<1>4. /\ ArenaInv(br, Size[r]) /\ br.hdr[bt].size = k
      /\ \A i : Used(br, i) <=> Used(arena[r], i) \/ i = bt
      /\ \A i : Used(arena[r], i) => SizeIn(arena', r, i) = SizeIn(arena, r, i)
  BY <1>2, <1>3 DEF Taken, SizeIn
<1>5. UsedGains(arena, arena', r, bt)
  BY <1>3, <1>4 DEF UsedGains
<1>6. Others(arena, arena', r, bt)
  <2>1. \A q \in RegionSet : q # r => \A i : SizeIn(arena', q, i) = SizeIn(arena, q, i)
    BY <1>3 DEF SizeIn
  <2> QED BY <1>4, <2>1 DEF Others
<1>7. SizeIn(arena', r, bt) = k
  BY <1>3, <1>4 DEF SizeIn
<1>8. /\ InUse(arena', owned') = InUse(arena, owned) \cup {Rec(r, bt, k)}
      /\ H!Fits(Rec(r, bt, k), InUse(arena, owned))
  BY <1>1, <1>2, <1>5, <1>6, <1>7, InUseTaken
<1>9. bt \in 0 .. Size[r] /\ k \in 1 .. Size[r]
  <2>1. Used(br, bt) /\ Size[r] \in Nat
    BY <1>2, <1>4, SizeNat
  <2> QED BY <1>4, <2>1, UsedInside
<1> QED BY <1>2, <1>8, <1>9

LEMMA GivesIsFree ==
  ASSUME HeapInv(arena, owned), NEW t \in Tasks, NEW r, NEW br, NEW bt, Gives(t, r, br, bt)
  PROVE  \E b \in InUse(arena, owned) : InUse(arena', owned') = InUse(arena, owned) \ {b}
<1>1. HeapPairs(arena, owned) /\ HeapPairs(arena', owned')
  BY GivesKeeps, PairsOfHeap
<1>2. /\ r \in RegionSet /\ Given(arena[r], br, Size[r], bt) /\ <<r, bt>> \in owned[t]
      /\ arena' = [arena EXCEPT ![r] = br]
  BY DEF Gives
<1>3. arena'[r] = br /\ \A q \in RegionSet : q # r => arena'[q] = arena[q]
  BY <1>2 DEF HeapInv
<1>4. /\ \A i : Used(br, i) <=> Used(arena[r], i) /\ i # bt
      /\ \A i : Used(br, i) => SizeIn(arena', r, i) = SizeIn(arena, r, i)
  BY <1>2, <1>3 DEF Given, SizeIn
<1>5. UsedLoses(arena, arena', r, bt)
  BY <1>3, <1>4 DEF UsedLoses
<1>6. Others(arena, arena', r, bt)
  <2>1. \A q \in RegionSet : q # r => \A i : SizeIn(arena', q, i) = SizeIn(arena, q, i)
    BY <1>3 DEF SizeIn
  <2> QED BY <1>3, <1>4, <2>1 DEF Others
<1>7. Used(arena[r], bt)
  BY <1>2, OwnedBlock
<1> QED BY <1>1, <1>2, <1>5, <1>6, <1>7, InUseGiven

LEMMA ResizesIsResize ==
  ASSUME HeapInv(arena, owned), NEW t \in Tasks, NEW r, NEW br, NEW bt, NEW k, Resizes(t, r, br, bt, k)
  PROVE  \E b \in InUse(arena, owned) : \E n \in 1 .. Size[b.region] :
           /\ H!Fits([b EXCEPT !.size = n], InUse(arena, owned) \ {b})
           /\ InUse(arena', owned') = (InUse(arena, owned) \ {b}) \cup {[b EXCEPT !.size = n]}
<1>1. HeapPairs(arena, owned) /\ HeapPairs(arena', owned')
  BY ResizesKeeps, PairsOfHeap DEF Resizes
<1>2. /\ r \in RegionSet /\ Resized(arena[r], br, Size[r], bt, k) /\ <<r, bt>> \in owned[t]
      /\ arena' = [arena EXCEPT ![r] = br]
  BY DEF Resizes
<1>3. arena'[r] = br /\ \A q \in RegionSet : q # r => arena'[q] = arena[q]
  BY <1>2 DEF HeapInv
<1>4. /\ ArenaInv(br, Size[r]) /\ br.hdr[bt].size = k
      /\ \A i : Used(br, i) <=> Used(arena[r], i)
      /\ \A i : Used(arena[r], i) /\ i # bt => SizeIn(arena', r, i) = SizeIn(arena, r, i)
  BY <1>2, <1>3 DEF Resized, SizeIn
<1>5. UsedStays(arena, arena')
  BY <1>3, <1>4 DEF UsedStays
<1>6. Others(arena, arena', r, bt)
  <2>1. \A q \in RegionSet : q # r => \A i : SizeIn(arena', q, i) = SizeIn(arena, q, i)
    BY <1>3 DEF SizeIn
  <2> QED BY <1>4, <2>1 DEF Others
<1>7. SizeIn(arena', r, bt) = k
  BY <1>3, <1>4 DEF SizeIn
<1>8. Used(arena[r], bt) /\ Size[r] \in Nat
  BY <1>2, OwnedBlock, SizeNat
<1> DEFINE b == Rec(r, bt, SizeIn(arena, r, bt))
<1>9. /\ b \in InUse(arena, owned) /\ H!Fits(Rec(r, bt, k), InUse(arena, owned) \ {b})
      /\ InUse(arena', owned') = (InUse(arena, owned) \ {b}) \cup {Rec(r, bt, k)}
  <2>1. InUseChanges(arena, owned, arena', owned', b, Rec(r, bt, k))
    BY <1>1, <1>2, <1>5, <1>6, <1>7, <1>8, InUseResized
  <2> QED BY <2>1 DEF InUseChanges
<1>10. [b EXCEPT !.size = k] = Rec(r, bt, k) /\ b.region = r
  BY DEF Rec
<1>11. k \in 1 .. Size[r]
  BY <1>4, <1>8, UsedInside
<1> HIDE DEF b
<1> QED BY <1>9, <1>10, <1>11

LEMMA HeapStep ==
  ASSUME IInv, [Next]_vars
  PROVE  [H!Next]_(InUse(arena, owned))
<1>1. HeapInv(arena, owned)
  BY DEF IInv
<1>2. ASSUME NEW t \in Tasks, NEW r, NEW br, NEW bt, NEW k, Takes(t, r, br, bt, k)
      PROVE  H!Next
  <2>0. PICK x \in RegionSet : \E s \in 0 .. Size[x] : \E n \in 1 .. Size[x] :
          /\ H!Fits(Rec(x, s, n), InUse(arena, owned))
          /\ InUse(arena', owned') = InUse(arena, owned) \cup {Rec(x, s, n)}
    BY <1>1, <1>2, TakesIsAllocate
  <2>1. PICK s \in 0 .. Size[x], n \in 1 .. Size[x] :
          /\ H!Fits(Rec(x, s, n), InUse(arena, owned))
          /\ InUse(arena', owned') = InUse(arena, owned) \cup {Rec(x, s, n)}
    BY <2>0
  <2>2. H!Allocate([region |-> x, start |-> s, size |-> n])
    BY <2>1 DEF H!Allocate, Rec, InUse
  <2> QED BY <2>1, <2>2 DEF H!Next
<1>3. ASSUME NEW t \in Tasks, NEW r, NEW br, NEW bt, Gives(t, r, br, bt)
      PROVE  H!Next
  <2>1. PICK b \in InUse(arena, owned) : InUse(arena', owned') = InUse(arena, owned) \ {b}
    BY <1>1, <1>3, GivesIsFree
  <2> QED BY <2>1 DEF H!Free, H!Next, Rec, InUse
<1>4. ASSUME NEW t \in Tasks, NEW r, NEW br, NEW bt, NEW k, Resizes(t, r, br, bt, k)
      PROVE  H!Next
  <2>1. PICK b \in InUse(arena, owned) : \E n \in 1 .. Size[b.region] :
          /\ H!Fits([b EXCEPT !.size = n], InUse(arena, owned) \ {b})
          /\ InUse(arena', owned') = (InUse(arena, owned) \ {b}) \cup {[b EXCEPT !.size = n]}
    BY <1>1, <1>4, ResizesIsResize
  <2>2. \E n \in 1 .. Size[b.region] : H!Resize(b, n)
    BY <2>1 DEF H!Resize, Rec, InUse
  <2> QED BY <2>1, <2>2 DEF H!Next, Rec, InUse
<1>5. ASSUME arena' = arena, owned' = owned PROVE InUse(arena', owned') = InUse(arena, owned)
  BY <1>5
<1>6. CASE Next
  <2>1. PICK t \in Tasks :
          \/ \E n \in Requests, chip \in BOOLEAN : MemAlloc(t, n, chip)
          \/ \E b \in owned[t] :
               \/ MemFree(t, b[1], b[2])
               \/ \E n \in Requests : MemRealloc(t, b[1], b[2], n)
          \/ MallocBelow(t) \/ MallocFails(t) \/ ReallocInPlace(t) \/ FreeOld(t)
    BY <1>6 DEF Next
  <2>2. CASE \E b \in owned[t] : MemFree(t, b[1], b[2])
    BY <1>3, <2>2, MemFreeStep
  <2>3. CASE MallocBelow(t)
    BY <1>2, <2>3, MallocTakes
  <2>4. CASE FreeOld(t)
    BY <1>3, <2>4, FreeOldStep
  <2>5. CASE ReallocInPlace(t)
    BY <1>4, <1>5, <2>5, ReallocInPlaceStep
  <2>6. CASE \E n \in Requests, chip \in BOOLEAN : MemAlloc(t, n, chip)
    BY <1>5, <2>6 DEF MemAlloc
  <2>7. CASE \E b \in owned[t] : \E n \in Requests : MemRealloc(t, b[1], b[2], n)
    BY <1>5, <2>7 DEF MemRealloc
  <2>8. CASE MallocFails(t)
    BY <1>5, <2>8 DEF MallocFails
  <2> QED BY <2>1, <2>2, <2>3, <2>4, <2>5, <2>6, <2>7, <2>8
<1>7. CASE UNCHANGED vars
  BY <1>5, <1>7 DEF vars
<1> QED BY <1>6, <1>7

(* If the word behind the arenas has the bit, the allocator gives its callers *)
(* a heap: whatever the tasks' calls interleave to, every block handed out    *)
(* lies inside its region and overlaps no other one in use, a block resized   *)
(* in place keeps its start, and no other step touches the blocks in use      *)
THEOREM HeapImplemented ==
  ASSUME EndWordUsed
  PROVE  Spec => ImplementsHeap
<1>1. Init => InUse(arena, owned) = {}
  BY DEF Init, InUse
<1>2. IInv /\ [Next]_vars => [H!Next]_(InUse(arena, owned))
  BY HeapStep
<1>3. Init => H!Init
  BY <1>1 DEF H!Init, InUse, Rec
<1> QED BY <1>2, <1>3, Inductive, PTL DEF Spec, ImplementsHeap, H!Spec, InUse, Rec

LEMMA TaggedFollows ==
  ASSUME IInv
  PROVE  WellTagged
<1>1. HeapInv(arena, owned) /\ CallsInv
  BY DEF IInv
<1>2. ASSUME NEW r \in RegionSet
      PROVE  arena[r] \in Arenas(Size[r]) /\ ArenaTagged(arena[r], Size[r])
  <2> DEFINE ar == arena[r]
             n == Size[r]
  <2>1. ArenaInv(ar, n) /\ n \in Nat
    BY <1>1, SizeNat DEF HeapInv
  <2> HIDE DEF ar, n
  <2>2. Shaped(ar, n) /\ ar \in Shapes(n) /\ ar.totalFree = Available(ar, n)
    BY <2>1 DEF ArenaInv, Shaped
  <2>3. \A i \in BlocksOf(ar) : ar.hdr[i].size > 0
    BY <2>1, <2>2, BlockFacts
  <2>4. ar.totalFree \in Nat
    BY <2>1, <2>2, <2>3, AvailableNat
  <2>5. ar \in Arenas(n)
    BY <2>2, <2>4 DEF Shapes, Arenas
  <2>6. ArenaTagged(ar, n)
    BY <2>2 DEF Shaped
  <2> QED BY <2>5, <2>6 DEF ar, n
<1>3. TypeOK
  BY <1>1, <1>2 DEF TypeOK, HeapInv, CallsInv
<1> QED BY <1>2, <1>3 DEF WellTagged

LEMMA AccountedFollows ==
  ASSUME IInv
  PROVE  Accounted
<1>1. HeapInv(arena, owned)
  BY DEF IInv
<1>2. \A r \in RegionSet : ListExact(arena[r]) /\ arena[r].totalFree = Available(arena[r], Size[r])
  BY <1>1 DEF HeapInv, ArenaInv
<1>3. ASSUME NEW r \in RegionSet, NEW i \in BlocksOf(arena[r]) \ FreeBlocksOf(arena[r])
      PROVE  Cardinality({t \in Tasks : <<r, i>> \in owned[t]}) = 1
  <2>1. Used(arena[r], i)
    BY DEF FreeBlocksOf, Used
  <2>2. PICK t \in Tasks : <<r, i>> \in owned[t]
    BY <1>1, <2>1, PairsOfHeap DEF HeapPairs
  <2>3. \A u \in Tasks : u # t => <<r, i>> \notin owned[u]
    BY <1>1, <2>2, OwnedBlock
  <2>4. {u \in Tasks : <<r, i>> \in owned[u]} = {t}
    BY <2>2, <2>3
  <2> QED BY <2>4, FS_Singleton
<1>4. FreeListExact /\ TotalFreeExact
  BY <1>2 DEF FreeListExact, TotalFreeExact
<1>5. OwnedOnce
  BY <1>3 DEF OwnedOnce
<1> QED BY <1>4, <1>5 DEF Accounted

(* If the word behind the arenas has the bit, the blocks of every arena tile  *)
(* it whatever splits and merges the calls of the tasks interleave to: a used *)
(* block ends with a canary and a free one with a copy of its tag, PREVFREE   *)
(* tells whether the block before is free and no two free blocks touch        *)
THEOREM WellTaggedHolds ==
  ASSUME EndWordUsed
  PROVE  Spec => []WellTagged
<1>1. IInv => WellTagged
  BY TaggedFollows
<1> QED BY <1>1, Inductive, PTL

(* If the word behind the arenas has the bit, the free list of every arena    *)
(* holds its free blocks once each, totalFree is what allocating them would   *)
(* hand out, and each used block belongs to exactly one task, one on the way  *)
(* through MemRealloc to a larger place included                              *)
THEOREM AccountedHolds ==
  ASSUME EndWordUsed
  PROVE  Spec => []Accounted
<1>1. IInv => Accounted
  BY AccountedFollows
<1> QED BY <1>1, Inductive, PTL
==============================================================================
