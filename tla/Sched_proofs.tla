---------------------------- MODULE Sched_proofs ------------------------------
(* Proofs about the operators of the scheduler, for any tasks, priorities and *)
(* event lists: what each does to the lists, the clock and the choice of the  *)
(* task that runs.  Modules of proofs about what the tasks do build on it.    *)
EXTENDS Sched, SequenceTheorems, WellFoundedInduction, TLAPS

(* Lists                                                                      *)

LEMMA MinIs ==
  ASSUME NEW k \in Int PROVE Min({k}) = k
BY DEF Min

LEMMA InRange ==
  ASSUME NEW S, NEW q \in Seq(S)
  PROVE  /\ \A i \in 1 .. Len(q) : q[i] \in Range(q) /\ q[i] \in S
         /\ \A x \in Range(q) : x \in S /\ \E i \in 1 .. Len(q) : q[i] = x
BY DEF Range

LEMMA RemovedAt ==
  ASSUME NEW S, NEW q \in Seq(S), NEW k \in 1 .. Len(q)
  PROVE  LET r == RemoveAt(q, k)
         IN  /\ r \in Seq(S) /\ Len(r) = Len(q) - 1
             /\ \A i \in 1 .. Len(q) - 1 : r[i] = IF i < k THEN q[i] ELSE q[i + 1]
<1> DEFINE a == SubSeq(q, 1, k - 1)
           b == SubSeq(q, k + 1, Len(q))
           r == a \o b
<1>1. RemoveAt(q, k) = r
  BY DEF RemoveAt
<1>2. Len(q) \in Nat /\ k \in Int /\ k - 1 \in Int /\ k + 1 \in Int /\ 1 <= k /\ k <= Len(q)
  OBVIOUS
<1>3. /\ a \in Seq(S) /\ Len(a) = k - 1
      /\ \A j \in 1 .. k - 1 : a[j] = q[j]
  <2>1. \A i \in 1 .. k - 1 : q[i] \in S
    BY <1>2
  <2> QED BY <1>2, <2>1, SubSeqProperties
<1>4. /\ b \in Seq(S) /\ Len(b) = Len(q) - k
      /\ \A j \in 1 .. Len(q) - k : b[j] = q[k + j]
  <2>1. \A i \in k + 1 .. Len(q) : q[i] \in S
    BY <1>2
  <2>2. /\ Len(b) = IF k + 1 <= Len(q) THEN Len(q) - (k + 1) + 1 ELSE 0
        /\ b \in Seq(S)
        /\ \A i \in 1 .. Len(q) - (k + 1) + 1 : b[i] = q[(k + 1) + i - 1]
    BY <1>2, <2>1, SubSeqProperties
  <2>3. \A j \in 1 .. Len(q) - k : j \in 1 .. Len(q) - (k + 1) + 1 /\ (k + 1) + j - 1 = k + j
    BY <1>2
  <2> HIDE DEF b
  <2>4. Len(b) = Len(q) - k
    <3>1. Len(b) = IF k + 1 <= Len(q) THEN Len(q) - (k + 1) + 1 ELSE 0
      BY <2>2
    <3> QED BY <1>2, <3>1
  <2>5. ASSUME NEW j \in 1 .. Len(q) - k PROVE b[j] = q[k + j]
    <3>1. j \in 1 .. Len(q) - (k + 1) + 1 /\ (k + 1) + j - 1 = k + j
      BY <2>3
    <3>2. b[j] = q[(k + 1) + j - 1]
      BY <2>2, <3>1, Zenon
    <3> QED BY <3>1, <3>2
  <2> QED BY <2>2, <2>4, <2>5
<1> HIDE DEF a, b
<1>5. /\ r \in Seq(S) /\ Len(r) = Len(a) + Len(b)
      /\ \A i \in 1 .. Len(a) + Len(b) : r[i] = IF i <= Len(a) THEN a[i] ELSE b[i - Len(a)]
  BY <1>3, <1>4, ConcatProperties
<1>6. Len(a) + Len(b) = Len(q) - 1
  BY <1>2, <1>3, <1>4
<1> HIDE DEF r
<1>7. ASSUME NEW i \in 1 .. Len(q) - 1 PROVE r[i] = IF i < k THEN q[i] ELSE q[i + 1]
  <2>1. CASE i < k
    <3>1. i <= Len(a) /\ i \in 1 .. k - 1
      BY <1>2, <1>3, <2>1
    <3> QED BY <1>3, <1>5, <1>6, <2>1, <3>1
  <2>2. CASE ~ (i < k)
    <3>1. ~ (i <= Len(a)) /\ i - Len(a) \in 1 .. Len(q) - k /\ k + (i - Len(a)) = i + 1
      BY <1>2, <1>3, <2>2
    <3> QED BY <1>4, <1>5, <1>6, <2>2, <3>1
  <2> QED BY <2>1, <2>2
<1> QED BY <1>1, <1>5, <1>6, <1>7

LEMMA InsertedAt ==
  ASSUME NEW S, NEW q \in Seq(S), NEW k \in 1 .. Len(q) + 1, NEW x \in S
  PROVE  LET r == InsertAt(q, k, x)
         IN  /\ r \in Seq(S) /\ Len(r) = Len(q) + 1
             /\ \A i \in 1 .. Len(q) + 1 :
                  r[i] = IF i < k THEN q[i] ELSE IF i = k THEN x ELSE q[i - 1]
<1> DEFINE a == SubSeq(q, 1, k - 1)
           b == SubSeq(q, k, Len(q))
           c == a \o <<x>>
           r == c \o b
<1>1. InsertAt(q, k, x) = r
  BY DEF InsertAt
<1>2. Len(q) \in Nat /\ k \in Int /\ k - 1 \in Int /\ 1 <= k /\ k <= Len(q) + 1
  OBVIOUS
<1>3. /\ a \in Seq(S) /\ Len(a) = k - 1
      /\ \A j \in 1 .. k - 1 : a[j] = q[j]
  <2>1. \A i \in 1 .. k - 1 : q[i] \in S
    BY <1>2
  <2> QED BY <1>2, <2>1, SubSeqProperties
<1>4. /\ b \in Seq(S) /\ Len(b) = Len(q) - k + 1
      /\ \A j \in 1 .. Len(q) - k + 1 : b[j] = q[k + j - 1]
  <2>1. \A i \in k .. Len(q) : q[i] \in S
    BY <1>2
  <2>2. /\ Len(b) = IF k <= Len(q) THEN Len(q) - k + 1 ELSE 0
        /\ b \in Seq(S)
        /\ \A i \in 1 .. Len(q) - k + 1 : b[i] = q[k + i - 1]
    BY <1>2, <2>1, SubSeqProperties
  <2> HIDE DEF b
  <2>3. Len(b) = Len(q) - k + 1
    <3>1. Len(b) = IF k <= Len(q) THEN Len(q) - k + 1 ELSE 0
      BY <2>2
    <3> QED BY <1>2, <3>1
  <2> QED BY <2>2, <2>3
<1> HIDE DEF a, b
<1>5. /\ c \in Seq(S) /\ Len(c) = k
      /\ \A i \in 1 .. k : c[i] = IF i < k THEN q[i] ELSE x
  <2>1. <<x>> \in Seq(S) /\ Len(<<x>>) = 1 /\ <<x>>[1] = x
    OBVIOUS
  <2>2. /\ c \in Seq(S) /\ Len(c) = Len(a) + Len(<<x>>)
        /\ \A i \in 1 .. Len(a) + Len(<<x>>) : c[i] = IF i <= Len(a) THEN a[i] ELSE <<x>>[i - Len(a)]
    BY <1>3, <2>1, ConcatProperties
  <2> HIDE DEF c
  <2>3. Len(a) + Len(<<x>>) = k
    BY <1>2, <1>3, <2>1
  <2>4. ASSUME NEW i \in 1 .. k PROVE c[i] = IF i < k THEN q[i] ELSE x
    <3>1. CASE i < k
      <4>1. i <= Len(a) /\ i \in 1 .. k - 1
        BY <1>2, <1>3, <3>1
      <4> QED BY <1>3, <2>2, <2>3, <3>1, <4>1
    <3>2. CASE ~ (i < k)
      <4>1. ~ (i <= Len(a)) /\ i - Len(a) = 1
        BY <1>2, <1>3, <3>2
      <4> QED BY <2>1, <2>2, <2>3, <3>2, <4>1
    <3> QED BY <3>1, <3>2
  <2> QED BY <2>2, <2>3, <2>4
<1> HIDE DEF c
<1>6. /\ r \in Seq(S) /\ Len(r) = Len(c) + Len(b)
      /\ \A i \in 1 .. Len(c) + Len(b) : r[i] = IF i <= Len(c) THEN c[i] ELSE b[i - Len(c)]
  BY <1>4, <1>5, ConcatProperties
<1>7. Len(c) + Len(b) = Len(q) + 1
  BY <1>2, <1>4, <1>5
<1> HIDE DEF r
<1>8. ASSUME NEW i \in 1 .. Len(q) + 1
      PROVE  r[i] = IF i < k THEN q[i] ELSE IF i = k THEN x ELSE q[i - 1]
  <2>1. CASE i <= k
    <3>1. i <= Len(c) /\ i \in 1 .. k
      BY <1>2, <1>5, <2>1
    <3>2. r[i] = c[i]
      BY <1>6, <1>7, <3>1
    <3>3. c[i] = IF i < k THEN q[i] ELSE x
      BY <1>5, <3>1
    <3>4. i < k \/ i = k
      BY <1>2, <2>1
    <3> QED BY <3>2, <3>3, <3>4
  <2>2. CASE ~ (i <= k)
    <3>1. ~ (i <= Len(c)) /\ i - Len(c) \in 1 .. (Len(q) - k) + 1 /\ k + (i - Len(c)) - 1 = i - 1
      BY <1>2, <1>5, <2>2
    <3>2. r[i] = b[i - Len(c)]
      BY <1>6, <1>7, <3>1
    <3>3. b[i - Len(c)] = q[k + (i - Len(c)) - 1]
      BY <1>2, <1>4, <3>1
    <3>4. ~ (i < k) /\ i # k
      BY <1>2, <2>2
    <3> QED BY <3>1, <3>2, <3>3, <3>4
  <2> QED BY <2>1, <2>2
<1> QED BY <1>1, <1>6, <1>7, <1>8

----------------------------------------------------------------------------
LEMMA WithoutIs ==
  ASSUME NEW S, NEW q \in Seq(S), NEW k \in 1 .. Len(q)
  PROVE  Without(q, {k}) = RemoveAt(q, k)
<1>1. {k} # {} /\ Min({k}) = k
  BY MinIs
<1> QED BY <1>1 DEF Without

(* a list without repetitions, one item of it taken out or put in             *)
LEMMA UnlinkedIs ==
  ASSUME NEW S, NEW q \in Seq(S), IsInjective(q), NEW t
  PROVE  /\ Unlinked(q, t) \in Seq(S) /\ IsInjective(Unlinked(q, t))
         /\ Range(Unlinked(q, t)) = Range(q) \ {t}
<1> DEFINE at == {i \in DOMAIN q : q[i] = t}
<1>1. DOMAIN q = 1 .. Len(q) /\ Len(q) \in Nat
  OBVIOUS
<1>2. CASE t \notin Range(q)
  <2>1. at = {}
    BY <1>2 DEF Range
  <2>2. Unlinked(q, t) = q
    BY <2>1 DEF Unlinked, Without
  <2> QED BY <1>2, <2>2
<1>3. CASE t \in Range(q)
  <2>1. PICK k \in 1 .. Len(q) : q[k] = t
    BY <1>1, <1>3 DEF Range
  <2>2. at = {k}
    BY <1>1, <2>1 DEF IsInjective
  <2> DEFINE r == RemoveAt(q, k)
  <2>3. Unlinked(q, t) = r
    BY <2>2, WithoutIs, Zenon DEF Unlinked
  <2>4. /\ r \in Seq(S) /\ Len(r) = Len(q) - 1
        /\ \A i \in 1 .. Len(q) - 1 : r[i] = IF i < k THEN q[i] ELSE q[i + 1]
    BY RemovedAt
  <2> HIDE DEF r
  <2>5. DOMAIN r = 1 .. Len(q) - 1 /\ k \in Int
    BY <1>1, <2>4
  <2>6. IsInjective(r)
    <3> SUFFICES ASSUME NEW i \in 1 .. Len(q) - 1, NEW j \in 1 .. Len(q) - 1, r[i] = r[j]
                 PROVE  i = j
      BY <2>5 DEF IsInjective
    <3>1. i \in DOMAIN q /\ i + 1 \in DOMAIN q /\ j \in DOMAIN q /\ j + 1 \in DOMAIN q
      BY <1>1
    <3> QED BY <2>4, <2>5, <3>1 DEF IsInjective
  <2>7. ASSUME NEW y \in Range(r) PROVE y \in Range(q) \ {t}
    <3>1. PICK i \in 1 .. Len(q) - 1 : y = r[i]
      BY <2>5, <2>7 DEF Range
    <3>2. i \in DOMAIN q /\ i + 1 \in DOMAIN q
      BY <1>1
    <3>3. PICK j \in DOMAIN q : y = q[j] /\ j # k
      BY <2>4, <2>5, <3>1, <3>2
    <3> QED BY <1>1, <2>1, <3>3 DEF Range, IsInjective
  <2>8. ASSUME NEW y \in Range(q) \ {t} PROVE y \in Range(r)
    <3>1. PICK j \in 1 .. Len(q) : y = q[j]
      BY <1>1, <2>8 DEF Range
    <3>2. j # k
      BY <2>1, <2>8, <3>1
    <3>3. CASE j < k
      <4>1. j \in 1 .. Len(q) - 1 /\ r[j] = q[j]
        BY <1>1, <2>4, <3>3
      <4> QED BY <2>5, <3>1, <4>1 DEF Range
    <3>4. CASE j > k
      <4>1. j - 1 \in 1 .. Len(q) - 1 /\ ~ (j - 1 < k) /\ (j - 1) + 1 = j
        BY <1>1, <2>5, <3>4
      <4>2. r[j - 1] = q[j]
        BY <2>4, <4>1
      <4> QED BY <2>5, <3>1, <4>1, <4>2 DEF Range
    <3> QED BY <2>5, <3>2, <3>3, <3>4
  <2>9. Range(r) = Range(q) \ {t}
    BY <2>7, <2>8
  <2> QED BY <2>3, <2>4, <2>6, <2>9
<1> QED BY <1>2, <1>3

(* which items of a list come before which                                    *)
Pairs(q) ==
  {x \in Range(q) \X Range(q) :
     \E i, j \in DOMAIN q : i < j /\ x[1] = q[i] /\ x[2] = q[j]}

LEMMA PairsAre ==
  ASSUME NEW q, NEW i \in DOMAIN q, NEW j \in DOMAIN q, i < j
  PROVE  <<q[i], q[j]>> \in Pairs(q)
<1>1. q[i] \in Range(q) /\ q[j] \in Range(q)
  BY DEF Range
<1> QED BY <1>1 DEF Pairs

(* a list that has its items from another one, in the same order              *)
LEMMA PairsKept ==
  ASSUME NEW q, NEW r, NEW at, \A i \in DOMAIN r : at[i] \in DOMAIN q /\ r[i] = q[at[i]],
         \A i, j \in DOMAIN r : i < j => at[i] < at[j]
  PROVE  Pairs(r) \subseteq Pairs(q)
<1> SUFFICES ASSUME NEW x \in Pairs(r) PROVE x \in Pairs(q)
  OBVIOUS
<1>1. PICK i \in DOMAIN r, j \in DOMAIN r : i < j /\ x[1] = r[i] /\ x[2] = r[j]
  BY DEF Pairs
<1>2. x = <<r[i], r[j]>>
  BY <1>1 DEF Pairs
<1>3. <<q[at[i]], q[at[j]]>> \in Pairs(q)
  BY <1>1, PairsAre
<1> QED BY <1>1, <1>2, <1>3

LEMMA UnlinkedPairs ==
  ASSUME NEW S, NEW q \in Seq(S), IsInjective(q), NEW t
  PROVE  Pairs(Unlinked(q, t)) \subseteq Pairs(q)
<1> DEFINE at == {i \in DOMAIN q : q[i] = t}
<1>1. DOMAIN q = 1 .. Len(q) /\ Len(q) \in Nat
  OBVIOUS
<1>2. CASE t \notin Range(q)
  <2>1. at = {}
    BY <1>2 DEF Range
  <2> QED BY <2>1 DEF Unlinked, Without
<1>3. CASE t \in Range(q)
  <2>1. PICK k \in 1 .. Len(q) : q[k] = t
    BY <1>1, <1>3 DEF Range
  <2>2. at = {k}
    BY <1>1, <2>1 DEF IsInjective
  <2> DEFINE r == RemoveAt(q, k)
             f == [i \in 1 .. Len(q) - 1 |-> IF i < k THEN i ELSE i + 1]
  <2>3. Unlinked(q, t) = r
    BY <2>2, WithoutIs, Zenon DEF Unlinked
  <2>4. /\ r \in Seq(S) /\ Len(r) = Len(q) - 1
        /\ \A i \in 1 .. Len(q) - 1 : r[i] = IF i < k THEN q[i] ELSE q[i + 1]
    BY RemovedAt
  <2> HIDE DEF r
  <2>5. DOMAIN r = 1 .. Len(q) - 1 /\ k \in Int
    BY <1>1, <2>4
  <2>6. \A i \in DOMAIN r : f[i] \in DOMAIN q /\ r[i] = q[f[i]]
    BY <1>1, <2>4, <2>5
  <2>7. \A i, j \in DOMAIN r : i < j => f[i] < f[j]
    BY <1>1, <2>5
  <2> HIDE DEF f
  <2> QED BY <2>3, <2>6, <2>7, PairsKept
<1> QED BY <1>2, <1>3

LEMMA TailPairs ==
  ASSUME NEW S, NEW q \in Seq(S), q # <<>>
  PROVE  Pairs(Tail(q)) \subseteq Pairs(q)
<1> DEFINE r == Tail(q)
           f == [i \in 1 .. Len(q) - 1 |-> i + 1]
<1>1. /\ Len(q) \in Nat /\ r \in Seq(S) /\ Len(r) = Len(q) - 1
      /\ \A i \in 1 .. Len(q) - 1 : r[i] = q[i + 1]
  BY HeadTailProperties
<1> HIDE DEF r
<1>2. DOMAIN r = 1 .. Len(q) - 1 /\ DOMAIN q = 1 .. Len(q)
  BY <1>1
<1>3. \A i \in DOMAIN r : f[i] \in DOMAIN q /\ r[i] = q[f[i]]
  BY <1>1, <1>2
<1>4. \A i, j \in DOMAIN r : i < j => f[i] < f[j]
  BY <1>1, <1>2
<1> HIDE DEF f
<1>5. Pairs(r) \subseteq Pairs(q)
  BY <1>3, <1>4, PairsKept
<1> QED BY <1>5 DEF r

(* what an insertion does to the items of a list, whatever they are           *)
LEMMA InsertedRange ==
  ASSUME NEW S, NEW q \in Seq(S), NEW k \in 1 .. Len(q) + 1, NEW x \in S
  PROVE  Range(InsertAt(q, k, x)) = Range(q) \cup {x}
<1> DEFINE r == InsertAt(q, k, x)
<1>1. /\ r \in Seq(S) /\ Len(r) = Len(q) + 1
      /\ \A i \in 1 .. Len(q) + 1 : r[i] = IF i < k THEN q[i] ELSE IF i = k THEN x ELSE q[i - 1]
  BY InsertedAt
<1> HIDE DEF r
<1>2. DOMAIN r = 1 .. Len(q) + 1 /\ DOMAIN q = 1 .. Len(q) /\ Len(q) \in Nat /\ k \in Int
  BY <1>1
<1>3. ASSUME NEW y \in Range(r) PROVE y \in Range(q) \cup {x}
  <2>1. PICK i \in 1 .. Len(q) + 1 : y = r[i]
    BY <1>2, <1>3 DEF Range
  <2>2. i < k => i \in DOMAIN q
    BY <1>2
  <2>3. i > k => i - 1 \in DOMAIN q
    BY <1>2
  <2> QED BY <1>1, <1>2, <2>1, <2>2, <2>3 DEF Range
<1>4. ASSUME NEW y \in Range(q) PROVE y \in Range(r)
  <2>1. PICK j \in 1 .. Len(q) : y = q[j]
    BY <1>2, <1>4 DEF Range
  <2>2. CASE j < k
    <3>1. j \in 1 .. Len(q) + 1 /\ r[j] = q[j]
      BY <1>1, <1>2, <2>2
    <3> QED BY <1>2, <2>1, <3>1 DEF Range
  <2>3. CASE ~ (j < k)
    <3>1. j + 1 \in 1 .. Len(q) + 1 /\ ~ (j + 1 < k) /\ j + 1 # k /\ (j + 1) - 1 = j
      BY <1>2, <2>3
    <3>2. r[j + 1] = q[j]
      BY <1>1, <3>1
    <3> QED BY <1>2, <2>1, <3>1, <3>2 DEF Range
  <2> QED BY <2>2, <2>3
<1>5. x \in Range(r)
  <2>1. k \in 1 .. Len(q) + 1 /\ ~ (k < k) /\ r[k] = x
    BY <1>1, <1>2
  <2> QED BY <1>2, <2>1 DEF Range
<1>6. Range(r) = Range(q) \cup {x}
  BY <1>3, <1>4, <1>5
<1> QED BY <1>6 DEF r

LEMMA InsertedIs ==
  ASSUME NEW S, NEW q \in Seq(S), IsInjective(q), NEW k \in 1 .. Len(q) + 1,
         NEW x \in S, x \notin Range(q)
  PROVE  /\ InsertAt(q, k, x) \in Seq(S) /\ IsInjective(InsertAt(q, k, x))
         /\ Range(InsertAt(q, k, x)) = Range(q) \cup {x}
<1> DEFINE r == InsertAt(q, k, x)
<1>1. /\ r \in Seq(S) /\ Len(r) = Len(q) + 1
      /\ \A i \in 1 .. Len(q) + 1 : r[i] = IF i < k THEN q[i] ELSE IF i = k THEN x ELSE q[i - 1]
  BY InsertedAt
<1> HIDE DEF r
<1>2. DOMAIN r = 1 .. Len(q) + 1 /\ DOMAIN q = 1 .. Len(q) /\ Len(q) \in Nat /\ k \in Int
  BY <1>1
<1>3. ASSUME NEW i \in 1 .. Len(q) + 1, i # k
      PROVE  \E a \in 1 .. Len(q) : r[i] = q[a] /\ a = IF i < k THEN i ELSE i - 1
  <2>1. CASE i < k
    BY <1>1, <1>2, <2>1
  <2>2. CASE ~ (i < k)
    BY <1>1, <1>2, <1>3, <2>2
  <2> QED BY <2>1, <2>2
<1>4. \A a \in 1 .. Len(q) : q[a] # x
  BY <1>2 DEF Range
<1>5. r[k] = x
  BY <1>1, <1>2
<1>6. ASSUME NEW i \in 1 .. Len(q) + 1, NEW j \in 1 .. Len(q) + 1, r[i] = r[j], i # k, j # k
      PROVE  i = j
  <2>1. PICK a \in 1 .. Len(q) : r[i] = q[a] /\ a = IF i < k THEN i ELSE i - 1
    BY <1>3, <1>6
  <2>2. PICK b \in 1 .. Len(q) : r[j] = q[b] /\ b = IF j < k THEN j ELSE j - 1
    BY <1>3, <1>6
  <2>3. a = b
    BY <1>2, <1>6, <2>1, <2>2 DEF IsInjective
  <2> QED BY <1>2, <1>6, <2>1, <2>2, <2>3
<1>7. IsInjective(r)
  <2>1. \A i \in 1 .. Len(q) + 1 : i # k => r[i] # x
    BY <1>3, <1>4
  <2> QED BY <1>2, <1>5, <1>6, <2>1 DEF IsInjective
<1>8. Range(r) = Range(q) \cup {x}
  BY InsertedRange DEF r
<1> QED BY <1>1, <1>7, <1>8 DEF r

----------------------------------------------------------------------------
(* The delayed lists: tasks in the order of their wake times, each once       *)

LEMMA Ticks == TickMax \in Nat /\ TickMax > 0
BY SchedAssumption

Sleeper == [task : Task, wake : 0 .. TickMax, due : Nat]
Asleep(q) == {q[i].task : i \in DOMAIN q}
Ordered(q) ==
  \A i, j \in DOMAIN q : /\ q[i].task = q[j].task => i = j
                         /\ i < j => q[i].wake <= q[j].wake

LEMMA AwakeIs ==
  ASSUME NEW q \in Seq(Sleeper), Ordered(q), NEW t
  PROVE  /\ Awake(q, t) \in Seq(Sleeper) /\ Ordered(Awake(q, t))
         /\ Asleep(Awake(q, t)) = Asleep(q) \ {t}
         /\ Range(Awake(q, t)) \subseteq Range(q)
         /\ t \in Asleep(q) => Len(Awake(q, t)) = Len(q) - 1
<1> DEFINE at == {i \in DOMAIN q : q[i].task = t}
<1>1. DOMAIN q = 1 .. Len(q) /\ Len(q) \in Nat
  OBVIOUS
<1>2. CASE t \notin Asleep(q)
  <2>1. at = {}
    BY <1>2 DEF Asleep
  <2>2. Awake(q, t) = q
    BY <2>1 DEF Awake, Without
  <2> QED BY <1>2, <2>2
<1>3. CASE t \in Asleep(q)
  <2>1. PICK k \in 1 .. Len(q) : q[k].task = t
    BY <1>1, <1>3 DEF Asleep
  <2>2. at = {k}
    BY <1>1, <2>1 DEF Ordered
  <2> DEFINE r == RemoveAt(q, k)
  <2>3. Awake(q, t) = r
    BY <2>2, WithoutIs, Zenon DEF Awake
  <2>4. /\ r \in Seq(Sleeper) /\ Len(r) = Len(q) - 1
        /\ \A i \in 1 .. Len(q) - 1 : r[i] = IF i < k THEN q[i] ELSE q[i + 1]
    BY RemovedAt
  <2> HIDE DEF r
  <2>5. DOMAIN r = 1 .. Len(q) - 1 /\ k \in Int
    BY <1>1, <2>4
  <2>6. \A i \in 1 .. Len(q) - 1 : i \in DOMAIN q /\ i + 1 \in DOMAIN q
    BY <1>1
  <2>7. Ordered(r)
    <3> SUFFICES ASSUME NEW i \in 1 .. Len(q) - 1, NEW j \in 1 .. Len(q) - 1
                 PROVE  /\ r[i].task = r[j].task => i = j
                        /\ i < j => r[i].wake <= r[j].wake
      BY <2>5 DEF Ordered
    <3> DEFINE a == IF i < k THEN i ELSE i + 1
               b == IF j < k THEN j ELSE j + 1
    <3>1. a \in DOMAIN q /\ b \in DOMAIN q /\ r[i] = q[a] /\ r[j] = q[b]
      BY <2>4, <2>6
    <3>2. /\ a = b => i = j
          /\ i < j => a < b
      BY <1>1, <2>5
    <3> HIDE DEF a, b
    <3> QED BY <3>1, <3>2 DEF Ordered
  <2>8. ASSUME NEW i \in 1 .. Len(q) - 1
        PROVE  \E j \in DOMAIN q : r[i] = q[j] /\ j # k
    <3>1. CASE i < k
      <4>1. r[i] = q[i] /\ i \in DOMAIN q /\ i # k
        BY <2>4, <2>5, <2>6, <3>1
      <4> QED BY <4>1
    <3>2. CASE ~ (i < k)
      <4>1. r[i] = q[i + 1] /\ i + 1 \in DOMAIN q /\ i + 1 # k
        BY <2>4, <2>5, <2>6, <3>2
      <4> QED BY <4>1
    <3> QED BY <3>1, <3>2
  <2>9. ASSUME NEW j \in DOMAIN q, j # k
        PROVE  \E i \in 1 .. Len(q) - 1 : r[i] = q[j]
    <3>1. CASE j < k
      <4>1. j \in 1 .. Len(q) - 1 /\ r[j] = q[j]
        BY <1>1, <2>4, <3>1
      <4> QED BY <4>1
    <3>2. CASE j > k
      <4>1. j - 1 \in 1 .. Len(q) - 1 /\ ~ (j - 1 < k) /\ (j - 1) + 1 = j
        BY <1>1, <2>5, <3>2
      <4>2. r[j - 1] = q[j]
        BY <2>4, <4>1
      <4> QED BY <4>1, <4>2
    <3> QED BY <1>1, <2>5, <2>9, <3>1, <3>2
  <2>10. \A j \in DOMAIN q : j # k <=> q[j].task # t
    BY <1>1, <2>1 DEF Ordered
  <2>11. Range(r) \subseteq Range(q)
    BY <2>5, <2>8 DEF Range
  <2>12. ASSUME NEW y \in Asleep(r) PROVE y \in Asleep(q) \ {t}
    <3>1. PICK i \in 1 .. Len(q) - 1 : y = r[i].task
      BY <2>5, <2>12 DEF Asleep
    <3>2. PICK j \in DOMAIN q : r[i] = q[j] /\ j # k
      BY <2>8
    <3> QED BY <2>10, <3>1, <3>2 DEF Asleep
  <2>13. ASSUME NEW y \in Asleep(q) \ {t} PROVE y \in Asleep(r)
    <3>1. PICK j \in DOMAIN q : y = q[j].task
      BY <2>13 DEF Asleep
    <3>2. j # k
      BY <2>10, <2>13, <3>1
    <3>3. PICK i \in 1 .. Len(q) - 1 : r[i] = q[j]
      BY <2>9, <3>2
    <3> QED BY <2>5, <3>1, <3>3 DEF Asleep
  <2>14. Asleep(r) = Asleep(q) \ {t}
    BY <2>12, <2>13
  <2> QED BY <2>3, <2>4, <2>7, <2>11, <2>14
<1> QED BY <1>2, <1>3

LEMMA LeastIs ==
  ASSUME NEW S, S # {}, S \subseteq Nat
  PROVE  Min(S) \in S /\ \A i \in S : Min(S) <= i
<1> DEFINE Less == OpToRel(<, Nat)
<1>1. \A x, y \in Nat : x < y => <<x, y>> \in Less
  BY DEF OpToRel
<1>2. IsWellFoundedOn(Less, Nat)
  BY NatLessThanWellFounded, Zenon
<1> HIDE DEF Less
<1>4. PICK x \in S : \A y \in S : ~ <<y, x>> \in Less
  BY <1>2, WFMin
<1>5. ASSUME NEW y \in S PROVE x <= y
  <2>1. x \in Nat /\ y \in Nat
    OBVIOUS
  <2>2. ~ (y < x)
    BY <1>1, <1>4, <2>1, Zenon
  <2> QED BY <2>1, <2>2
<1> QED BY <1>4, <1>5 DEF Min

LEMMA SetInduction ==
  ASSUME NEW Good, 0 \in Good, \A n \in Nat : n \in Good => n + 1 \in Good
  PROVE  \A n \in Nat : n \in Good
<1> DEFINE Bad == {n \in Nat : n \notin Good}
<1> SUFFICES ASSUME Bad # {} PROVE FALSE
  OBVIOUS
<1> DEFINE m == Min(Bad)
<1>1. Bad \subseteq Nat
  OBVIOUS
<1>2. m \in Bad /\ \A y \in Bad : m <= y
  BY <1>1, LeastIs
<1> HIDE DEF m
<1>3. m \in Nat /\ m \notin Good /\ m # 0
  BY <1>2
<1>4. m - 1 \in Nat /\ ~ (m <= m - 1) /\ (m - 1) + 1 = m
  BY <1>3
<1>5. m - 1 \in Good
  BY <1>2, <1>4
<1> QED BY <1>3, <1>4, <1>5

LEMMA DelayedInsertIs ==
  ASSUME NEW q \in Seq(Sleeper), Ordered(q), NEW d \in Sleeper, d.task \notin Asleep(q)
  PROVE  /\ DelayedInsert(q, d) \in Seq(Sleeper) /\ Ordered(DelayedInsert(q, d))
         /\ Asleep(DelayedInsert(q, d)) = Asleep(q) \cup {d.task}
         /\ Range(DelayedInsert(q, d)) = Range(q) \cup {d}
<1> DEFINE larger == {i \in DOMAIN q : q[i].wake > d.wake}
           k == IF larger = {} THEN Len(q) + 1 ELSE Min(larger)
           r == InsertAt(q, k, d)
<1>1. DelayedInsert(q, d) = r
  BY DEF DelayedInsert, vListInsert
<1>2. DOMAIN q = 1 .. Len(q) /\ Len(q) \in Nat /\ d.wake \in Int
  <2>1. \A e \in Sleeper : e.wake \in Int
    BY Ticks DEF Sleeper
  <2> QED BY <2>1
<1>3. \A i \in 1 .. Len(q) : q[i] \in Sleeper /\ q[i].wake \in Int
  <2>1. \A e \in Sleeper : e.wake \in Int
    BY Ticks DEF Sleeper
  <2>2. \A i \in 1 .. Len(q) : q[i] \in Sleeper
    OBVIOUS
  <2> QED BY <2>1, <2>2
<1>4. /\ k \in 1 .. Len(q) + 1
      /\ \A i \in 1 .. Len(q) : i < k => q[i].wake <= d.wake
      /\ k <= Len(q) => q[k].wake > d.wake
  <2>1. CASE larger = {}
    <3>1. k = Len(q) + 1
      BY <2>1
    <3>2. \A i \in 1 .. Len(q) : ~ (q[i].wake > d.wake)
      BY <1>2, <2>1
    <3> QED BY <1>2, <1>3, <3>1, <3>2
  <2>2. CASE larger # {}
    <3>1. larger \subseteq 1 .. Len(q)
      BY <1>2
    <3>2. Min(larger) \in larger /\ \A i \in larger : Min(larger) <= i
      <4>1. larger \subseteq Nat
        BY <1>2
      <4> QED BY <2>2, <4>1, LeastIs
    <3>3. k = Min(larger)
      BY <2>2
    <3> HIDE DEF k
    <3>4. k \in 1 .. Len(q) /\ q[k].wake > d.wake
      BY <3>1, <3>2, <3>3
    <3>5. ASSUME NEW i \in 1 .. Len(q), i < k PROVE q[i].wake <= d.wake
      <4>1. i \notin larger
        <5> HIDE DEF larger
        <5>1. i \in larger => k <= i
          BY <3>2, <3>3
        <5> QED BY <3>4, <3>5, <5>1
      <4> QED BY <1>2, <1>3, <4>1
    <3> QED BY <1>2, <3>4, <3>5
  <2> QED BY <2>1, <2>2
<1> HIDE DEF k, larger
<1>15. k \in 1 .. Len(q) + 1
  BY <1>4
<1>5. /\ r \in Seq(Sleeper) /\ Len(r) = Len(q) + 1
      /\ \A i \in 1 .. Len(q) + 1 : r[i] = IF i < k THEN q[i] ELSE IF i = k THEN d ELSE q[i - 1]
  BY <1>15, InsertedAt
<1>6. Range(r) = Range(q) \cup {d}
  BY <1>15, InsertedRange
<1> HIDE DEF r
<1>7. DOMAIN r = 1 .. Len(q) + 1 /\ k \in Int
  BY <1>4, <1>5
<1>8. \A q2 \in Seq(Sleeper) : Asleep(q2) = {e.task : e \in Range(q2)}
  BY DEF Asleep, Range
<1>9. Asleep(r) = Asleep(q) \cup {d.task}
  BY <1>5, <1>6, <1>8
<1>10. ASSUME NEW i \in 1 .. Len(q) + 1, i # k
       PROVE  \E a \in 1 .. Len(q) : r[i] = q[a] /\ a = IF i < k THEN i ELSE i - 1
  <2>1. CASE i < k
    BY <1>2, <1>5, <1>7, <1>15, <2>1
  <2>2. CASE ~ (i < k)
    BY <1>2, <1>5, <1>7, <1>10, <1>15, <2>2
  <2> QED BY <2>1, <2>2
<1>11. k \in 1 .. Len(q) + 1 /\ r[k] = d
  BY <1>4, <1>5, <1>7
<1>12. \A i \in 1 .. Len(q) : i >= k => q[i].wake > d.wake
  <2> SUFFICES ASSUME NEW i \in 1 .. Len(q), i >= k PROVE q[i].wake > d.wake
    OBVIOUS
  <2>1. k \in DOMAIN q /\ i \in DOMAIN q /\ q[k].wake > d.wake
    BY <1>2, <1>4
  <2>2. q[k].wake <= q[i].wake
    BY <1>2, <1>3, <1>7, <2>1 DEF Ordered
  <2> QED BY <1>2, <1>3, <2>1, <2>2
<1>13. ASSUME NEW i \in 1 .. Len(q) + 1, NEW j \in 1 .. Len(q) + 1
       PROVE  /\ r[i].task = r[j].task => i = j
              /\ i < j => r[i].wake <= r[j].wake
  <2>1. CASE i # k /\ j # k
    <3>1. PICK a \in 1 .. Len(q) : r[i] = q[a] /\ a = IF i < k THEN i ELSE i - 1
      BY <1>10, <2>1
    <3>2. PICK b \in 1 .. Len(q) : r[j] = q[b] /\ b = IF j < k THEN j ELSE j - 1
      BY <1>10, <2>1
    <3>3. /\ a = b => i = j
          /\ i < j => a < b
      BY <1>7, <2>1, <3>1, <3>2
    <3> QED BY <1>2, <3>1, <3>2, <3>3 DEF Ordered
  <2>2. CASE i = k /\ j # k
    <3>1. PICK b \in 1 .. Len(q) : r[j] = q[b] /\ b = IF j < k THEN j ELSE j - 1
      BY <1>10, <2>2
    <3>2. q[b].task # d.task
      BY <1>2 DEF Asleep
    <3>3. i < j => b >= k
      BY <1>7, <2>2, <3>1
    <3>4. i < j => d.wake <= q[b].wake
      BY <1>2, <1>3, <1>12, <3>3
    <3> QED BY <1>11, <2>2, <3>1, <3>2, <3>4
  <2>3. CASE i # k /\ j = k
    <3>1. PICK a \in 1 .. Len(q) : r[i] = q[a] /\ a = IF i < k THEN i ELSE i - 1
      BY <1>10, <2>3
    <3>2. q[a].task # d.task
      BY <1>2 DEF Asleep
    <3>3. i < j => a < k
      BY <1>7, <2>3, <3>1
    <3>4. i < j => q[a].wake <= d.wake
      BY <1>4, <3>3
    <3> QED BY <1>11, <2>3, <3>1, <3>2, <3>4
  <2>4. CASE i = k /\ j = k
    BY <1>7, <2>4
  <2> QED BY <2>1, <2>2, <2>3, <2>4
<1>14. Ordered(r)
  BY <1>7, <1>13 DEF Ordered
<1> QED BY <1>1, <1>5, <1>6, <1>9, <1>14

----------------------------------------------------------------------------
(* Stepping through a circular list keeps its items                           *)
LEMMA StepIs ==
  ASSUME NEW S, NEW q \in Seq(S), Len(q) > 0
  PROVE  /\ Step(q) \in Seq(S) /\ Len(Step(q)) = Len(q)
         /\ \A i \in 1 .. Len(q) : Step(q)[i] = IF i = Len(q) THEN q[1] ELSE q[i + 1]
<1>1. /\ Len(q) \in Nat /\ q # <<>> /\ Head(q) = q[1] /\ q[1] \in S
      /\ Tail(q) \in Seq(S) /\ Len(Tail(q)) = Len(q) - 1
      /\ \A i \in 1 .. Len(q) - 1 : Tail(q)[i] = q[i + 1]
  BY HeadTailProperties
<1>7. Len(q) \in Nat /\ Len(q) >= 1
  OBVIOUS
<1> DEFINE a == Tail(q)
           r == Append(a, q[1])
<1>2. Step(q) = r
  BY <1>1 DEF Step
<1> HIDE DEF a
<1>3. a \in Seq(S) /\ Len(a) = Len(q) - 1 /\ \A i \in 1 .. Len(q) - 1 : a[i] = q[i + 1]
  BY <1>1 DEF a
<1>4. /\ r \in Seq(S) /\ Len(r) = Len(a) + 1
      /\ \A i \in 1 .. Len(a) : r[i] = a[i]
      /\ r[Len(a) + 1] = q[1]
  <2>1. q[1] \in S
    BY <1>1
  <2> QED BY <1>3, <2>1, AppendProperties
<1> HIDE DEF r
<1>5. Len(a) + 1 = Len(q)
  BY <1>3, <1>7
<1>6. ASSUME NEW i \in 1 .. Len(q) PROVE r[i] = IF i = Len(q) THEN q[1] ELSE q[i + 1]
  <2>1. CASE i = Len(q)
    BY <1>4, <1>5, <2>1
  <2>2. CASE i # Len(q)
    <3>1. i \in 1 .. Len(q) - 1 /\ i \in 1 .. Len(a)
      BY <1>3, <1>7, <2>2
    <3> QED BY <1>3, <1>4, <2>2, <3>1
  <2> QED BY <2>1, <2>2
<1> QED BY <1>2, <1>4, <1>5, <1>6

LEMMA StepKeeps ==
  ASSUME NEW S, NEW q \in Seq(S), Len(q) > 0
  PROVE  /\ Range(Step(q)) = Range(q)
         /\ IsInjective(q) => IsInjective(Step(q))
<1> DEFINE r == Step(q)
<1>1. /\ r \in Seq(S) /\ Len(r) = Len(q)
      /\ \A i \in 1 .. Len(q) : r[i] = IF i = Len(q) THEN q[1] ELSE q[i + 1]
  BY StepIs
<1> HIDE DEF r
<1>2. DOMAIN r = 1 .. Len(q) /\ DOMAIN q = 1 .. Len(q) /\ Len(q) \in Nat
  BY <1>1
<1>9. Len(q) \in Nat /\ Len(q) >= 1
  OBVIOUS
<1>3. \A i \in 1 .. Len(q) : IF i = Len(q) THEN 1 \in 1 .. Len(q) /\ r[i] = q[1]
                             ELSE i + 1 \in 1 .. Len(q) /\ r[i] = q[i + 1]
  <2> SUFFICES ASSUME NEW i \in 1 .. Len(q)
               PROVE  IF i = Len(q) THEN 1 \in 1 .. Len(q) /\ r[i] = q[1]
                                    ELSE i + 1 \in 1 .. Len(q) /\ r[i] = q[i + 1]
    OBVIOUS
  <2>1. 1 \in 1 .. Len(q) /\ (i # Len(q) => i + 1 \in 1 .. Len(q))
    BY <1>9
  <2> QED BY <1>1, <2>1
<1>4. ASSUME NEW y \in Range(r) PROVE y \in Range(q)
  <2>1. PICK i \in 1 .. Len(q) : y = r[i]
    BY <1>2, <1>4 DEF Range
  <2>2. \E j \in 1 .. Len(q) : y = q[j]
    <3>1. CASE i = Len(q)
      BY <1>3, <2>1, <3>1
    <3>2. CASE i # Len(q)
      BY <1>3, <2>1, <3>2
    <3> QED BY <3>1, <3>2
  <2> QED BY <1>2, <2>2 DEF Range
<1>5. ASSUME NEW y \in Range(q) PROVE y \in Range(r)
  <2>1. PICK j \in 1 .. Len(q) : y = q[j]
    BY <1>2, <1>5 DEF Range
  <2>2. CASE j = 1
    <3>1. Len(q) \in 1 .. Len(q) /\ r[Len(q)] = q[1]
      <4>1. Len(q) \in 1 .. Len(q)
        BY <1>9
      <4> QED BY <1>1, <4>1
    <3> QED BY <1>2, <2>1, <2>2, <3>1 DEF Range
  <2>3. CASE j # 1
    <3>1. j - 1 \in 1 .. Len(q) /\ j - 1 # Len(q) /\ (j - 1) + 1 = j
      BY <1>9, <2>3
    <3>2. r[j - 1] = q[j]
      BY <1>1, <3>1
    <3> QED BY <1>2, <2>1, <3>1, <3>2 DEF Range
  <2> QED BY <2>2, <2>3
<1>6. ASSUME IsInjective(q), NEW i \in 1 .. Len(q), NEW j \in 1 .. Len(q), r[i] = r[j]
      PROVE  i = j
  <2> DEFINE a == IF i = Len(q) THEN 1 ELSE i + 1
             b == IF j = Len(q) THEN 1 ELSE j + 1
  <2>1. a \in DOMAIN q /\ b \in DOMAIN q /\ r[i] = q[a] /\ r[j] = q[b]
    BY <1>2, <1>3
  <2>2. a = b
    BY <1>6, <2>1 DEF IsInjective
  <2>3. \A m, n \in 1 .. Len(q) :
           (IF m = Len(q) THEN 1 ELSE m + 1) = (IF n = Len(q) THEN 1 ELSE n + 1) => m = n
    BY <1>9
  <2> QED BY <2>2, <2>3
<1>7. IsInjective(q) => IsInjective(r)
  BY <1>2, <1>6 DEF IsInjective
<1>8. Range(r) = Range(q)
  BY <1>4, <1>5
<1> QED BY <1>7, <1>8 DEF r

LEMMA NextEntryIs ==
  ASSUME NEW S, NEW q \in Seq(S), IsInjective(q), Len(q) > 1
  PROVE  /\ NextEntry(q) \in Seq(S) /\ IsInjective(NextEntry(q))
         /\ Range(NextEntry(q)) = Range(q)
         /\ Last(NextEntry(q)) \in Range(q) /\ Last(NextEntry(q)) # ListEnd
<1>1. /\ Len(q) \in Nat /\ Len(q) > 0 /\ 1 \in DOMAIN q /\ 2 \in DOMAIN q /\ Head(q) = q[1]
      /\ Len(q) \in 1 .. Len(q) /\ Len(q) # 1 /\ Len(q) - 1 \in 1 .. Len(q)
  OBVIOUS
<1> DEFINE r == Step(q)
           u == Step(r)
<1>2. /\ r \in Seq(S) /\ Len(r) = Len(q) /\ Range(r) = Range(q) /\ IsInjective(r)
      /\ \A i \in 1 .. Len(q) : r[i] = IF i = Len(q) THEN q[1] ELSE q[i + 1]
  BY <1>1, StepIs, StepKeeps
<1> HIDE DEF r
<1>3. r[Len(q)] = q[1] /\ r[1] = q[2]
  BY <1>1, <1>2
<1>4. CASE q[1] # ListEnd
  <2>1. NextEntry(q) = r
    BY <1>1, <1>4 DEF NextEntry, r
  <2>2. Last(r) = q[1]
    BY <1>2, <1>3 DEF Last
  <2>3. q[1] \in Range(q)
    BY <1>1 DEF Range
  <2> QED BY <1>2, <1>4, <2>1, <2>2, <2>3
<1>5. CASE q[1] = ListEnd
  <2>1. NextEntry(q) = u
    BY <1>1, <1>5 DEF NextEntry, r
  <2>2. /\ u \in Seq(S) /\ Len(u) = Len(r) /\ Range(u) = Range(r) /\ IsInjective(u)
        /\ \A i \in 1 .. Len(r) : u[i] = IF i = Len(r) THEN r[1] ELSE r[i + 1]
    BY <1>1, <1>2, StepIs, StepKeeps
  <2> HIDE DEF u
  <2>3. Last(u) = q[2]
    BY <1>1, <1>2, <1>3, <2>2 DEF Last
  <2>4. q[2] \in Range(q) /\ q[2] # q[1]
    BY <1>1 DEF Range, IsInjective
  <2> QED BY <1>2, <1>5, <2>1, <2>2, <2>3, <2>4
<1> QED BY <1>4, <1>5

----------------------------------------------------------------------------
(* The states of the scheduler                                                *)

SchedStates ==
  [cur : Task, ready : [Priority -> Seq(Task \cup {ListEnd})], prio : [Task -> Priority],
   events : [EventList -> Seq(Task)], delayed : Seq(Sleeper), overflow : Seq(Sleeper),
   blocked : SUBSET Task, pending : Seq(Task), suspended : 0 .. 1, tick : 0 .. TickMax,
   overflows : Nat, pended : Nat, next : 0 .. TickMax, yield : BOOLEAN, need : BOOLEAN,
   isr : {"none", "running", "ticked"}]

(* its lists hold nothing twice                                               *)
Formed(s) ==
  /\ s \in SchedStates
  /\ \A p \in Priority : IsInjective(s.ready[p]) /\ ListEnd \in Range(s.ready[p])
  /\ Ordered(s.delayed) /\ Ordered(s.overflow)
  /\ \A l \in EventList : IsInjective(s.events[l])
  /\ IsInjective(s.pending)

Waiting(s, t) == \E l \in EventList : t \in Range(s.events[l])
Held(s, t) == t \in Range(s.pending)
Dormant(s, t) ==
  t \in Asleep(s.delayed) \/ t \in Asleep(s.overflow) \/ t \in s.blocked

(* a task is in one state list and, while it is not ready, in one event list  *)
(* at most                                                                    *)
Placed(s, t) ==
  /\ \A p \in Priority : t \in Range(s.ready[p]) => p = s.prio[t]
  /\ IsReady(s, t) <=> ~ Dormant(s, t)
  /\ ~ (t \in Asleep(s.delayed) /\ t \in Asleep(s.overflow))
  /\ t \in s.blocked => t \notin Asleep(s.delayed) /\ t \notin Asleep(s.overflow)
  /\ \A l, m \in EventList :
       t \in Range(s.events[l]) /\ t \in Range(s.events[m]) => l = m
  /\ Waiting(s, t) => ~ IsReady(s, t) /\ ~ Held(s, t)
  /\ Held(s, t) => ~ IsReady(s, t)
  /\ t \in s.blocked => Waiting(s, t) \/ Held(s, t)

Lists(s) == Formed(s) /\ \A t \in Task : Placed(s, t)

(* what two states have in common                                             *)
SameTask(s, r, t) ==
  /\ \A p \in Priority : t \in Range(r.ready[p]) <=> t \in Range(s.ready[p])
  /\ r.prio[t] = s.prio[t]
  /\ t \in Asleep(r.delayed) <=> t \in Asleep(s.delayed)
  /\ t \in Asleep(r.overflow) <=> t \in Asleep(s.overflow)
  /\ t \in r.blocked <=> t \in s.blocked
  /\ \A l \in EventList : t \in Range(r.events[l]) <=> t \in Range(s.events[l])
  /\ t \in Range(r.pending) <=> t \in Range(s.pending)

OthersSame(s, r, t) == \A u \in Task : u # t => SameTask(s, r, u)

SameClock(s, r) ==
  /\ r.tick = s.tick /\ r.overflows = s.overflows /\ r.pended = s.pended

SameFlags(s, r) ==
  /\ r.cur = s.cur /\ r.prio = s.prio /\ r.suspended = s.suspended
  /\ r.need = s.need /\ r.isr = s.isr

LEMMA SamePlaced ==
  ASSUME NEW s \in SchedStates, NEW r, NEW t \in Task, SameTask(s, r, t), Placed(s, t)
  PROVE  Placed(r, t)
<1>1. s.prio[t] \in Priority
  BY DEF SchedStates
<1>2. IsReady(r, t) <=> IsReady(s, t)
  BY <1>1 DEF IsReady, SameTask
<1>3. Waiting(r, t) <=> Waiting(s, t)
  BY DEF Waiting, SameTask
<1>4. Held(r, t) <=> Held(s, t)
  BY DEF Held, SameTask
<1>5. Dormant(r, t) <=> Dormant(s, t)
  BY DEF Dormant, SameTask
<1> QED BY <1>2, <1>3, <1>4, <1>5 DEF Placed, SameTask

LEMMA StateType ==
  ASSUME NEW s \in SchedStates
  PROVE  /\ s.cur \in Task /\ s.prio \in [Task -> Priority]
         /\ \A p \in Priority : s.ready[p] \in Seq(Task \cup {ListEnd})
         /\ \A l \in EventList : s.events[l] \in Seq(Task)
         /\ s.delayed \in Seq(Sleeper) /\ s.overflow \in Seq(Sleeper)
         /\ s.blocked \subseteq Task /\ s.pending \in Seq(Task)
         /\ s.suspended \in 0 .. 1 /\ s.tick \in 0 .. TickMax /\ s.overflows \in Nat
         /\ s.pended \in Nat /\ s.next \in 0 .. TickMax
         /\ s.yield \in BOOLEAN /\ s.need \in BOOLEAN /\ s.isr \in {"none", "running", "ticked"}
BY DEF SchedStates

LEMMA EndIsNoTask == ListEnd \notin Task
BY SchedAssumption

LEMMA StateRemovedFields ==
  ASSUME NEW s \in SchedStates, NEW t
  PROVE  LET r == StateRemoved(s, t)
         IN  /\ r.ready = [p \in Priority |-> Unlinked(s.ready[p], t)]
             /\ r.delayed = Awake(s.delayed, t) /\ r.overflow = Awake(s.overflow, t)
             /\ r.blocked = s.blocked \ {t} /\ r.events = s.events /\ r.pending = s.pending
             /\ SameClock(s, r) /\ SameFlags(s, r) /\ r.next = s.next /\ r.yield = s.yield
BY DEF SchedStates, StateRemoved, SameClock, SameFlags

LEMMA StateRemovedType ==
  ASSUME NEW s \in SchedStates, NEW t,
         \A p \in Priority : Unlinked(s.ready[p], t) \in Seq(Task \cup {ListEnd}),
         Awake(s.delayed, t) \in Seq(Sleeper), Awake(s.overflow, t) \in Seq(Sleeper)
  PROVE  StateRemoved(s, t) \in SchedStates
BY DEF SchedStates, StateRemoved

----------------------------------------------------------------------------
LEMMA StateRemovedIs ==
  ASSUME NEW s, Formed(s), NEW t \in Task
  PROVE  LET r == StateRemoved(s, t)
         IN  /\ Formed(r) /\ OthersSame(s, r, t)
             /\ SameClock(s, r) /\ SameFlags(s, r) /\ r.next = s.next /\ r.yield = s.yield
             /\ r.events = s.events /\ r.pending = s.pending
             /\ \A p \in Priority : t \notin Range(r.ready[p])
             /\ t \notin Asleep(r.delayed) /\ t \notin Asleep(r.overflow) /\ t \notin r.blocked
             /\ Range(r.delayed) \subseteq Range(s.delayed)
             /\ Range(r.overflow) \subseteq Range(s.overflow)
             /\ t \in Asleep(s.delayed) => Len(r.delayed) = Len(s.delayed) - 1
<1> DEFINE r == StateRemoved(s, t)
<1>1. s \in SchedStates
  BY DEF Formed
<1>2. /\ r.ready = [p \in Priority |-> Unlinked(s.ready[p], t)]
      /\ r.delayed = Awake(s.delayed, t) /\ r.overflow = Awake(s.overflow, t)
      /\ r.blocked = s.blocked \ {t} /\ r.events = s.events /\ r.pending = s.pending
      /\ SameClock(s, r) /\ SameFlags(s, r) /\ r.next = s.next /\ r.yield = s.yield
  BY <1>1, StateRemovedFields
<1>3. ASSUME NEW p \in Priority
      PROVE  /\ r.ready[p] \in Seq(Task \cup {ListEnd}) /\ IsInjective(r.ready[p])
             /\ Range(r.ready[p]) = Range(s.ready[p]) \ {t}
             /\ r.ready[p] = Unlinked(s.ready[p], t)
  <2>1. s.ready[p] \in Seq(Task \cup {ListEnd}) /\ IsInjective(s.ready[p])
    BY <1>1, StateType DEF Formed
  <2>2. r.ready[p] = Unlinked(s.ready[p], t)
    BY <1>2
  <2> QED BY <2>1, <2>2, UnlinkedIs
<1>4. /\ r.delayed \in Seq(Sleeper) /\ Ordered(r.delayed)
      /\ Asleep(r.delayed) = Asleep(s.delayed) \ {t}
      /\ Range(r.delayed) \subseteq Range(s.delayed)
      /\ t \in Asleep(s.delayed) => Len(r.delayed) = Len(s.delayed) - 1
  BY <1>1, <1>2, StateType, AwakeIs DEF Formed
<1>5. /\ r.overflow \in Seq(Sleeper) /\ Ordered(r.overflow)
      /\ Asleep(r.overflow) = Asleep(s.overflow) \ {t}
      /\ Range(r.overflow) \subseteq Range(s.overflow)
  BY <1>1, <1>2, StateType, AwakeIs DEF Formed
<1>6. r \in SchedStates
  BY <1>1, <1>2, <1>3, <1>4, <1>5, StateRemovedType
<1> HIDE DEF r
<1>7. Formed(r)
  <2>1. \A p \in Priority : IsInjective(r.ready[p]) /\ ListEnd \in Range(r.ready[p])
    BY <1>3, EndIsNoTask DEF Formed
  <2> QED BY <1>2, <1>4, <1>5, <1>6, <2>1 DEF Formed
<1>8. OthersSame(s, r, t)
  <2> SUFFICES ASSUME NEW u \in Task, u # t PROVE SameTask(s, r, u)
    BY DEF OthersSame
  <2>1. \A p \in Priority : u \in Range(r.ready[p]) <=> u \in Range(s.ready[p])
    BY <1>3
  <2>2. r.prio[u] = s.prio[u]
    BY <1>2 DEF SameFlags
  <2> QED BY <1>2, <1>4, <1>5, <2>1, <2>2 DEF SameTask
<1> QED BY <1>2, <1>3, <1>4, <1>5, <1>7, <1>8 DEF r

LEMMA EventRemovedFields ==
  ASSUME NEW s \in SchedStates, NEW t
  PROVE  LET r == EventRemoved(s, t)
         IN  /\ r.events = [l \in EventList |-> Unlinked(s.events[l], t)]
             /\ r.ready = s.ready /\ r.delayed = s.delayed /\ r.overflow = s.overflow
             /\ r.blocked = s.blocked /\ r.pending = s.pending
             /\ SameClock(s, r) /\ SameFlags(s, r) /\ r.next = s.next /\ r.yield = s.yield
BY DEF SchedStates, EventRemoved, SameClock, SameFlags

LEMMA EventRemovedType ==
  ASSUME NEW s \in SchedStates, NEW t,
         \A l \in EventList : Unlinked(s.events[l], t) \in Seq(Task)
  PROVE  EventRemoved(s, t) \in SchedStates
BY DEF SchedStates, EventRemoved

LEMMA EventRemovedIs ==
  ASSUME NEW s, Formed(s), NEW t \in Task
  PROVE  LET r == EventRemoved(s, t)
         IN  /\ Formed(r) /\ OthersSame(s, r, t)
             /\ SameClock(s, r) /\ SameFlags(s, r) /\ r.next = s.next /\ r.yield = s.yield
             /\ r.ready = s.ready /\ r.delayed = s.delayed /\ r.overflow = s.overflow
             /\ r.blocked = s.blocked /\ r.pending = s.pending
             /\ \A l \in EventList :
                  t \notin Range(r.events[l]) /\ Pairs(r.events[l]) \subseteq Pairs(s.events[l])
<1> DEFINE r == EventRemoved(s, t)
<1>1. s \in SchedStates
  BY DEF Formed
<1>2. /\ r.events = [l \in EventList |-> Unlinked(s.events[l], t)]
      /\ r.ready = s.ready /\ r.delayed = s.delayed /\ r.overflow = s.overflow
      /\ r.blocked = s.blocked /\ r.pending = s.pending
      /\ SameClock(s, r) /\ SameFlags(s, r) /\ r.next = s.next /\ r.yield = s.yield
  BY <1>1, EventRemovedFields
<1>3. ASSUME NEW l \in EventList
      PROVE  /\ r.events[l] \in Seq(Task) /\ IsInjective(r.events[l])
             /\ Range(r.events[l]) = Range(s.events[l]) \ {t}
             /\ r.events[l] = Unlinked(s.events[l], t)
             /\ Pairs(r.events[l]) \subseteq Pairs(s.events[l])
  <2>1. s.events[l] \in Seq(Task) /\ IsInjective(s.events[l])
    BY <1>1, StateType DEF Formed
  <2>2. r.events[l] = Unlinked(s.events[l], t)
    BY <1>2
  <2> QED BY <2>1, <2>2, UnlinkedIs, UnlinkedPairs
<1>4. r \in SchedStates
  BY <1>1, <1>2, <1>3, EventRemovedType
<1> HIDE DEF r
<1>5. Formed(r)
  BY <1>2, <1>3, <1>4 DEF Formed
<1>6. OthersSame(s, r, t)
  <2> SUFFICES ASSUME NEW u \in Task, u # t PROVE SameTask(s, r, u)
    BY DEF OthersSame
  <2>1. \A l \in EventList : u \in Range(r.events[l]) <=> u \in Range(s.events[l])
    BY <1>3
  <2>2. r.prio[u] = s.prio[u]
    BY <1>2 DEF SameFlags
  <2> QED BY <1>2, <2>1, <2>2 DEF SameTask
<1> QED BY <1>2, <1>3, <1>5, <1>6 DEF r

LEMMA AddedFields ==
  ASSUME NEW s \in SchedStates, NEW t \in Task
  PROVE  LET r == prvAddTaskToReadyList(s, t)
             p == s.prio[t]
         IN  /\ r.ready = [s.ready EXCEPT ![p] = vListInsertEnd(s.ready[p], t)]
             /\ r.events = s.events /\ r.delayed = s.delayed /\ r.overflow = s.overflow
             /\ r.blocked = s.blocked /\ r.pending = s.pending
             /\ SameClock(s, r) /\ SameFlags(s, r) /\ r.next = s.next /\ r.yield = s.yield
BY DEF SchedStates, prvAddTaskToReadyList, SameClock, SameFlags

LEMMA AddedType ==
  ASSUME NEW s \in SchedStates, NEW t \in Task,
         vListInsertEnd(s.ready[s.prio[t]], t) \in Seq(Task \cup {ListEnd})
  PROVE  prvAddTaskToReadyList(s, t) \in SchedStates
BY DEF SchedStates, prvAddTaskToReadyList

LEMMA InsertEndIs ==
  ASSUME NEW S, NEW q \in Seq(S), IsInjective(q), NEW e \in Range(q), NEW x \in S, x \notin Range(q)
  PROVE  /\ vListInsertEnd(q, x) \in Seq(S) /\ IsInjective(vListInsertEnd(q, x))
         /\ Range(vListInsertEnd(q, x)) = Range(q) \cup {x}
<1>1. Len(q) \in 1 .. Len(q) + 1
  <2>1. PICK i \in 1 .. Len(q) : q[i] = e
    BY InRange
  <2>2. Len(q) \in Nat
    OBVIOUS
  <2> QED BY <2>1, <2>2
<1> QED BY <1>1, InsertedIs DEF vListInsertEnd

LEMMA AddedIs ==
  ASSUME NEW s, Formed(s), NEW t \in Task, ~ IsReady(s, t)
  PROVE  LET r == prvAddTaskToReadyList(s, t)
         IN  /\ Formed(r) /\ OthersSame(s, r, t)
             /\ SameClock(s, r) /\ SameFlags(s, r) /\ r.next = s.next /\ r.yield = s.yield
             /\ r.events = s.events /\ r.delayed = s.delayed /\ r.overflow = s.overflow
             /\ r.blocked = s.blocked /\ r.pending = s.pending
             /\ IsReady(r, t)
             /\ \A p \in Priority : p # s.prio[t] => r.ready[p] = s.ready[p]
<1> DEFINE r == prvAddTaskToReadyList(s, t)
           top == s.prio[t]
           new == vListInsertEnd(s.ready[top], t)
<1>1. s \in SchedStates /\ top \in Priority
  BY StateType DEF Formed
<1>2. /\ r.ready = [s.ready EXCEPT ![top] = new]
      /\ r.events = s.events /\ r.delayed = s.delayed /\ r.overflow = s.overflow
      /\ r.blocked = s.blocked /\ r.pending = s.pending
      /\ SameClock(s, r) /\ SameFlags(s, r) /\ r.next = s.next /\ r.yield = s.yield
  BY <1>1, AddedFields
<1>3. /\ s.ready[top] \in Seq(Task \cup {ListEnd}) /\ IsInjective(s.ready[top])
      /\ ListEnd \in Range(s.ready[top]) /\ t \notin Range(s.ready[top])
  BY <1>1, StateType DEF Formed, IsReady
<1>4. /\ new \in Seq(Task \cup {ListEnd}) /\ IsInjective(new)
      /\ Range(new) = Range(s.ready[top]) \cup {t}
  BY <1>3, InsertEndIs
<1>5. r \in SchedStates
  BY <1>1, <1>4, AddedType
<1> HIDE DEF new
<1>6. /\ r.ready[top] = new
      /\ \A p \in Priority : p # top => r.ready[p] = s.ready[p]
  BY <1>1, <1>2 DEF SchedStates
<1> HIDE DEF r
<1>7. Formed(r)
  <2>1. ASSUME NEW p \in Priority PROVE IsInjective(r.ready[p]) /\ ListEnd \in Range(r.ready[p])
    BY <1>3, <1>4, <1>6 DEF Formed
  <2> QED BY <1>2, <1>5, <2>1 DEF Formed
<1>8. OthersSame(s, r, t)
  <2> SUFFICES ASSUME NEW u \in Task, u # t PROVE SameTask(s, r, u)
    BY DEF OthersSame
  <2>1. ASSUME NEW p \in Priority PROVE u \in Range(r.ready[p]) <=> u \in Range(s.ready[p])
    BY <1>4, <1>6
  <2>2. r.prio[u] = s.prio[u]
    BY <1>2 DEF SameFlags
  <2> QED BY <1>2, <2>1, <2>2 DEF SameTask
<1>9. IsReady(r, t)
  <2>1. r.prio[t] = top
    BY <1>2 DEF SameFlags
  <2> QED BY <1>4, <1>6, <2>1 DEF IsReady
<1> QED BY <1>2, <1>6, <1>7, <1>8, <1>9 DEF r

----------------------------------------------------------------------------
(* Tasks are woken: those that were ready still are, waiting lists shrink,    *)
(* and a task of a higher priority than the current one leaves a trace        *)
Woke(s, r) ==
  /\ SameFlags(s, r)
  /\ \A t \in Task : IsReady(s, t) => IsReady(r, t)
  /\ \A l \in EventList : Range(r.events[l]) \subseteq Range(s.events[l])
  /\ \A l \in EventList : Pairs(r.events[l]) \subseteq Pairs(s.events[l])
  /\ s.yield => r.yield
  /\ \A t \in Task : IsReady(r, t) /\ s.prio[t] > s.prio[s.cur] => IsReady(s, t) \/ r.yield

(* no time passes, and nobody falls asleep                                    *)
SameTime(s, r) ==
  /\ SameClock(s, r)
  /\ Range(r.delayed) \subseteq Range(s.delayed)
  /\ Range(r.overflow) \subseteq Range(s.overflow)

LEMMA WokeTrans ==
  ASSUME NEW s, NEW r, NEW u, Woke(s, r), Woke(r, u)
  PROVE  Woke(s, u)
<1>1. SameFlags(s, u)
  BY DEF Woke, SameFlags
<1>2. \A t \in Task : IsReady(s, t) => IsReady(u, t)
  BY DEF Woke
<1>3. /\ \A l \in EventList : Range(u.events[l]) \subseteq Range(s.events[l])
      /\ \A l \in EventList : Pairs(u.events[l]) \subseteq Pairs(s.events[l])
  BY DEF Woke
<1>4. s.yield => u.yield
  BY DEF Woke
<1>5. r.prio = s.prio /\ r.cur = s.cur
  BY DEF Woke, SameFlags
<1>6. ASSUME NEW t \in Task, IsReady(u, t), s.prio[t] > s.prio[s.cur]
      PROVE  IsReady(s, t) \/ u.yield
  <2>1. IsReady(r, t) \/ u.yield
    BY <1>5, <1>6 DEF Woke
  <2>2. IsReady(r, t) => IsReady(s, t) \/ r.yield
    BY <1>6 DEF Woke
  <2>3. r.yield => u.yield
    BY DEF Woke
  <2> QED BY <2>1, <2>2, <2>3
<1> QED BY <1>1, <1>2, <1>3, <1>4, <1>6 DEF Woke

LEMMA WokeRefl == ASSUME NEW s PROVE Woke(s, s) /\ SameTime(s, s)
BY DEF Woke, SameTime, SameFlags, SameClock

LEMMA SameTimeTrans ==
  ASSUME NEW s, NEW r, NEW u, SameTime(s, r), SameTime(r, u)
  PROVE  SameTime(s, u)
BY DEF SameTime, SameClock

LEMMA SameReady ==
  ASSUME NEW s \in SchedStates, NEW r, NEW t \in Task, SameTask(s, r, t)
  PROVE  IsReady(r, t) <=> IsReady(s, t)
<1>1. s.prio[t] \in Priority
  BY DEF SchedStates
<1> QED BY <1>1 DEF IsReady, SameTask

LEMMA SameTaskTrans ==
  ASSUME NEW s, NEW r, NEW u, NEW t \in Task, SameTask(s, r, t), SameTask(r, u, t)
  PROVE  SameTask(s, u, t)
<1>1. \A p \in Priority : t \in Range(u.ready[p]) <=> t \in Range(s.ready[p])
  BY DEF SameTask
<1>2. \A l \in EventList : t \in Range(u.events[l]) <=> t \in Range(s.events[l])
  BY DEF SameTask
<1> QED BY <1>1, <1>2 DEF SameTask

LEMMA OthersTrans ==
  ASSUME NEW s, NEW r, NEW u, NEW t \in Task, OthersSame(s, r, t), OthersSame(r, u, t)
  PROVE  OthersSame(s, u, t)
<1> SUFFICES ASSUME NEW v \in Task, v # t PROVE SameTask(s, u, v)
  BY DEF OthersSame
<1>1. SameTask(s, r, v) /\ SameTask(r, u, v)
  BY DEF OthersSame
<1> QED BY <1>1, SameTaskTrans

(* the flag of a pending context switch is no part of the lists               *)
LEMMA YieldFields ==
  ASSUME NEW s \in SchedStates, NEW y \in BOOLEAN
  PROVE  LET r == [s EXCEPT !.yield = y]
         IN  /\ r \in SchedStates /\ r.yield = y
             /\ r.ready = s.ready /\ r.events = s.events /\ r.delayed = s.delayed
             /\ r.overflow = s.overflow /\ r.blocked = s.blocked /\ r.pending = s.pending
             /\ SameClock(s, r) /\ SameFlags(s, r) /\ r.next = s.next
BY DEF SchedStates, SameClock, SameFlags

(* only the lists, the priorities and what they hold                          *)
SameLists(s, r) ==
  /\ r.ready = s.ready /\ r.events = s.events /\ r.delayed = s.delayed
  /\ r.overflow = s.overflow /\ r.blocked = s.blocked /\ r.pending = s.pending
  /\ r.prio = s.prio

LEMMA SameListsTask ==
  ASSUME NEW s, NEW r, NEW t \in Task, SameLists(s, r)
  PROVE  SameTask(s, r, t)
BY DEF SameLists, SameTask

LEMMA SameListsAre ==
  ASSUME NEW s, NEW r, SameLists(s, r), Lists(s), r \in SchedStates
  PROVE  Lists(r) /\ \A t \in Task : IsReady(r, t) <=> IsReady(s, t)
<1>1. s \in SchedStates
  BY DEF Lists, Formed
<1>2. Formed(r)
  BY DEF Lists, Formed, SameLists
<1>3. \A t \in Task : Placed(r, t)
  BY <1>1, SameListsTask, SamePlaced DEF Lists
<1>4. \A t \in Task : IsReady(r, t) <=> IsReady(s, t)
  BY <1>1, SameListsTask, SameReady
<1> QED BY <1>2, <1>3, <1>4 DEF Lists

LEMMA ReadyPlaced ==
  ASSUME NEW r, NEW t \in Task, IsReady(r, t),
         \A p \in Priority : p # r.prio[t] => t \notin Range(r.ready[p]),
         ~ Dormant(r, t), ~ Waiting(r, t), ~ Held(r, t)
  PROVE  Placed(r, t)
BY DEF Placed, Dormant, Waiting

LEMMA MakeReadyParts ==
  ASSUME NEW s \in SchedStates, NEW t \in Task
  PROVE  LET c == prvAddTaskToReadyList(EventRemoved(StateRemoved(s, t), t), t)
         IN  MakeReady(s, t) = [c EXCEPT !.yield = c.yield \/ s.prio[t] >= s.prio[s.cur]]
BY DEF MakeReady

LEMMA MakeReadyIs ==
  ASSUME NEW s, Formed(s), NEW t \in Task, \A u \in Task : u # t => Placed(s, u),
         ~ IsReady(s, t), ~ Held(s, t)
  PROVE  LET r == MakeReady(s, t)
         IN  /\ Lists(r) /\ Woke(s, r) /\ SameTime(s, r) /\ OthersSame(s, r, t)
             /\ r.next = s.next /\ r.pending = s.pending
             /\ t \in Asleep(s.delayed) => Len(r.delayed) = Len(s.delayed) - 1
             /\ IsReady(r, t)
<1> DEFINE a == StateRemoved(s, t)
           b == EventRemoved(a, t)
           c == prvAddTaskToReadyList(b, t)
           y == c.yield \/ s.prio[t] >= s.prio[s.cur]
           r == [c EXCEPT !.yield = y]
<1>1. s \in SchedStates
  BY DEF Formed
<1>2. MakeReady(s, t) = r
  BY <1>1, MakeReadyParts
<1>3. /\ Formed(a) /\ OthersSame(s, a, t)
      /\ SameClock(s, a) /\ SameFlags(s, a) /\ a.next = s.next /\ a.yield = s.yield
      /\ a.events = s.events /\ a.pending = s.pending
      /\ \A p \in Priority : t \notin Range(a.ready[p])
      /\ t \notin Asleep(a.delayed) /\ t \notin Asleep(a.overflow) /\ t \notin a.blocked
      /\ Range(a.delayed) \subseteq Range(s.delayed)
      /\ Range(a.overflow) \subseteq Range(s.overflow)
      /\ t \in Asleep(s.delayed) => Len(a.delayed) = Len(s.delayed) - 1
  BY <1>1, StateRemovedIs
<1> HIDE DEF a
<1>4. /\ Formed(b) /\ OthersSame(a, b, t)
      /\ SameClock(a, b) /\ SameFlags(a, b) /\ b.next = a.next /\ b.yield = a.yield
      /\ b.ready = a.ready /\ b.delayed = a.delayed /\ b.overflow = a.overflow
      /\ b.blocked = a.blocked /\ b.pending = a.pending
      /\ \A l \in EventList :
           t \notin Range(b.events[l]) /\ Pairs(b.events[l]) \subseteq Pairs(a.events[l])
  BY <1>3, EventRemovedIs
<1> HIDE DEF b
<1>5. b \in SchedStates /\ b.prio[t] \in Priority
  BY <1>4, StateType DEF Formed
<1>6. ~ IsReady(b, t)
  BY <1>3, <1>4, <1>5 DEF IsReady
<1>7. /\ Formed(c) /\ OthersSame(b, c, t)
      /\ SameClock(b, c) /\ SameFlags(b, c) /\ c.next = b.next /\ c.yield = b.yield
      /\ c.events = b.events /\ c.delayed = b.delayed /\ c.overflow = b.overflow
      /\ c.blocked = b.blocked /\ c.pending = b.pending
      /\ IsReady(c, t)
      /\ \A p \in Priority : p # b.prio[t] => c.ready[p] = b.ready[p]
  BY <1>4, <1>6, AddedIs
<1> HIDE DEF c
<1>8. c \in SchedStates /\ y \in BOOLEAN
  <2>1. c \in SchedStates
    BY <1>7 DEF Formed
  <2> QED BY <2>1, StateType
<1>9. /\ r \in SchedStates /\ r.yield = y
      /\ r.ready = c.ready /\ r.events = c.events /\ r.delayed = c.delayed
      /\ r.overflow = c.overflow /\ r.blocked = c.blocked /\ r.pending = c.pending
      /\ SameClock(c, r) /\ SameFlags(c, r) /\ r.next = c.next
  BY <1>8, YieldFields
<1> HIDE DEF r
<1>10. SameFlags(s, r)
  BY <1>3, <1>4, <1>7, <1>9 DEF SameFlags
<1>11. SameLists(c, r)
  BY <1>9 DEF SameLists, SameFlags
<1>12. OthersSame(c, r, t)
  BY <1>11, SameListsTask DEF OthersSame
<1>13. OthersSame(s, r, t)
  BY <1>3, <1>4, <1>7, <1>12, OthersTrans
<1>14. IsReady(r, t)
  BY <1>7, <1>9 DEF IsReady, SameFlags
<1>15. Formed(r)
  BY <1>7, <1>9 DEF Formed
<1>16. ~ Dormant(r, t)
  BY <1>3, <1>4, <1>7, <1>9 DEF Dormant
<1>17. \A l \in EventList : t \notin Range(r.events[l])
  BY <1>4, <1>7, <1>9
<1>18. r.pending = s.pending
  BY <1>3, <1>4, <1>7, <1>9
<1>19. \A p \in Priority : p # r.prio[t] => t \notin Range(r.ready[p])
  BY <1>3, <1>4, <1>7, <1>9 DEF SameFlags
<1>20. Placed(r, t)
  BY <1>14, <1>16, <1>17, <1>18, <1>19, ReadyPlaced DEF Waiting, Held
<1>21. Lists(r)
  <2>1. \A u \in Task : u # t => Placed(r, u)
    BY <1>1, <1>13, SamePlaced DEF OthersSame
  <2> QED BY <1>15, <1>20, <2>1 DEF Lists
<1>22. SameTime(s, r)
  BY <1>3, <1>4, <1>7, <1>9 DEF SameTime, SameClock
<1>23. Woke(s, r)
  <2>1. \A u \in Task : u # t => (IsReady(r, u) <=> IsReady(s, u))
    BY <1>1, <1>13, SameReady DEF OthersSame
  <2>2. \A u \in Task : IsReady(s, u) => IsReady(r, u)
    BY <1>14, <2>1
  <2>3. ASSUME NEW l \in EventList PROVE Range(r.events[l]) \subseteq Range(s.events[l])
    <3>1. r \in SchedStates
      BY <1>9
    <3>2. \A u \in Range(r.events[l]) : u \in Task /\ u # t
      BY <1>17, <3>1, StateType, InRange
    <3> QED BY <1>13, <3>2 DEF OthersSame, SameTask
  <2>4. s.yield => r.yield
    BY <1>3, <1>4, <1>7, <1>9
  <2>5. s.prio[t] > s.prio[s.cur] => r.yield
    <3>1. s.prio[t] \in Int /\ s.prio[s.cur] \in Int
      BY <1>1 DEF SchedStates, Priority, configMAX_PRIORITIES
    <3>2. s.prio[t] > s.prio[s.cur] => s.prio[t] >= s.prio[s.cur]
      BY <3>1
    <3>3. r.yield = y
      BY <1>9
    <3> QED BY <3>2, <3>3, Zenon
  <2>6. \A l \in EventList : Pairs(r.events[l]) \subseteq Pairs(s.events[l])
    BY <1>3, <1>4, <1>7, <1>9
  <2> QED BY <1>10, <2>1, <2>2, <2>3, <2>4, <2>5, <2>6 DEF Woke
<1>24. t \in Asleep(s.delayed) => Len(r.delayed) = Len(s.delayed) - 1
  BY <1>3, <1>4, <1>7, <1>9
<1>25. r.next = s.next
  BY <1>3, <1>4, <1>7, <1>9
<1> QED BY <1>2, <1>13, <1>14, <1>18, <1>21, <1>22, <1>23, <1>24, <1>25

----------------------------------------------------------------------------
(* Loops: n steps of a function from a set into itself exist                  *)

Steps(g, G, s, n) == g[0] = s /\ \A i \in 1 .. n : g[i] = G[i][g[i - 1]]

LEMMA LoopExists ==
  ASSUME NEW X, NEW G \in [Nat -> [X -> X]], NEW s \in X
  PROVE  \A n \in Nat : \E g \in [0 .. n -> X] : Steps(g, G, s, n)
<1> DEFINE Good == {n \in Nat : \E g \in [0 .. n -> X] : Steps(g, G, s, n)}
<1>1. 0 \in Good
  <2> DEFINE g == [i \in 0 .. 0 |-> s]
  <2>1. g \in [0 .. 0 -> X] /\ Steps(g, G, s, 0)
    BY DEF Steps
  <2> QED BY <2>1
<1>2. ASSUME NEW n \in Nat, n \in Good PROVE n + 1 \in Good
  <2>1. PICK f \in [0 .. n -> X] : Steps(f, G, s, n)
    BY <1>2
  <2> DEFINE g == [i \in 0 .. n + 1 |-> IF i = n + 1 THEN G[n + 1][f[n]] ELSE f[i]]
  <2>2. g \in [0 .. n + 1 -> X]
    <3>1. n \in 0 .. n /\ G[n + 1] \in [X -> X]
      OBVIOUS
    <3>2. G[n + 1][f[n]] \in X
      BY <3>1
    <3>3. \A i \in 0 .. n + 1 : i # n + 1 => i \in 0 .. n
      OBVIOUS
    <3> QED BY <3>2, <3>3
  <2>3. g[0] = s
    BY <2>1 DEF Steps
  <2>4. ASSUME NEW i \in 1 .. n + 1 PROVE g[i] = G[i][g[i - 1]]
    <3>1. CASE i = n + 1
      <4>1. i - 1 = n /\ n \in 0 .. n + 1 /\ n # n + 1
        BY <3>1
      <4> QED BY <3>1, <4>1
    <3>2. CASE i # n + 1
      <4>1. i \in 1 .. n /\ i - 1 \in 0 .. n + 1 /\ i - 1 # n + 1 /\ i \in 0 .. n + 1
        BY <3>2
      <4> QED BY <2>1, <3>2, <4>1 DEF Steps
    <3> QED BY <3>1, <3>2
  <2> HIDE DEF g
  <2>5. Steps(g, G, s, n + 1)
    BY <2>3, <2>4 DEF Steps
  <2> QED BY <2>2, <2>5
<1> HIDE DEF Good
<1>3. \A n \in Nat : n \in Good
  BY <1>1, <1>2, SetInduction
<1> QED BY <1>3 DEF Good

(* What the first step of a loop leaves true and every step keeps true        *)
LEMMA LoopKeeps ==
  ASSUME NEW X, NEW n \in Nat, NEW h,
         h[0] \in X, \A i \in 1 .. n : h[i - 1] \in X => h[i] \in X
  PROVE  \A i \in 0 .. n : h[i] \in X
<1> DEFINE Good == {i \in Nat : i \in 0 .. n => h[i] \in X}
<1>1. 0 \in Good
  OBVIOUS
<1>2. ASSUME NEW i \in Nat, i \in Good PROVE i + 1 \in Good
  <2> SUFFICES ASSUME i + 1 \in 0 .. n PROVE h[i + 1] \in X
    OBVIOUS
  <2>1. i + 1 \in 1 .. n /\ (i + 1) - 1 = i /\ i \in 0 .. n
    OBVIOUS
  <2>2. h[i] \in X
    BY <1>2, <2>1
  <2> QED BY <2>1, <2>2
<1> HIDE DEF Good
<1>3. \A i \in Nat : i \in Good
  BY <1>1, <1>2, SetInduction
<1> QED BY <1>3 DEF Good

-----------------------------------------------------------------------
(* The loop of xTaskIncrementTick                                             *)

WakesDue(g, s, n) == g = [i \in 0 .. n |-> IF i = 0 THEN s ELSE WakeDue(g[i - 1])]

LEMMA DueWokenLoop ==
  ASSUME NEW s, NEW f, WakesDue(f, s, Len(s.delayed))
  PROVE  \E g : WakesDue(g, s, Len(s.delayed)) /\ DueWoken(s) = g[Len(s.delayed)]
<1>1. DueWoken(s) = (CHOOSE g : WakesDue(g, s, Len(s.delayed)))[Len(s.delayed)]
  BY DEF DueWoken, WakesDue
<1>2. WakesDue((CHOOSE g : WakesDue(g, s, Len(s.delayed))), s, Len(s.delayed))
  BY Zenon
<1> QED BY <1>1, <1>2, Zenon

(* what is true of every state of that loop                                   *)
Awakening(s) ==
  {x \in SchedStates : /\ Lists(x) /\ Woke(s, x) /\ SameTime(s, x)
                       /\ x.next = s.next /\ x.pending = s.pending}

(* the first task on the list has to sleep on                                 *)
NoneDue(x) == x.delayed # <<>> => Head(x.delayed).wake > x.tick

LEMMA HeadSleeps ==
  ASSUME NEW x \in SchedStates, x.delayed # <<>>
  PROVE  /\ Head(x.delayed).task \in Task /\ Head(x.delayed).task \in Asleep(x.delayed)
         /\ Head(x.delayed).wake \in 0 .. TickMax /\ Head(x.delayed) \in Range(x.delayed)
         /\ Len(x.delayed) \in Nat /\ Len(x.delayed) > 0
<1>1. x.delayed \in Seq(Sleeper)
  BY StateType
<1>2. 1 \in DOMAIN x.delayed /\ Head(x.delayed) = x.delayed[1] /\ x.delayed[1] \in Sleeper
      /\ Len(x.delayed) \in Nat /\ Len(x.delayed) > 0
  BY <1>1
<1> QED BY <1>2 DEF Sleeper, Asleep, Range

LEMMA WakeDueIs ==
  ASSUME NEW s, s.pending = <<>>, NEW x \in Awakening(s)
  PROVE  /\ WakeDue(x) \in Awakening(s)
         /\ NoneDue(x) => WakeDue(x) = x
         /\ ~ NoneDue(x) => Len(WakeDue(x).delayed) = Len(x.delayed) - 1
<1>1. x \in SchedStates /\ Lists(x) /\ x.pending = <<>>
  BY DEF Awakening
<1>2. CASE x.delayed # <<>> /\ Head(x.delayed).wake <= x.tick
  <2> DEFINE t == Head(x.delayed).task
             r == MakeReady(x, t)
  <2>1. t \in Task /\ t \in Asleep(x.delayed)
    BY <1>1, <1>2, HeadSleeps
  <2>2. WakeDue(x) = r
    BY <1>2 DEF WakeDue
  <2>3. ~ IsReady(x, t)
    BY <1>1, <2>1 DEF Lists, Placed, Dormant
  <2>4. ~ Held(x, t)
    BY <1>1 DEF Held, Range
  <2> HIDE DEF t
  <2>5. /\ Lists(r) /\ Woke(x, r) /\ SameTime(x, r)
        /\ r.next = x.next /\ r.pending = x.pending
        /\ t \in Asleep(x.delayed) => Len(r.delayed) = Len(x.delayed) - 1
    BY <1>1, <2>1, <2>3, <2>4, MakeReadyIs DEF Lists
  <2> HIDE DEF r
  <2>6. Woke(s, r) /\ SameTime(s, r) /\ r.next = s.next /\ r.pending = s.pending
    BY <2>5, WokeTrans, SameTimeTrans DEF Awakening
  <2>7. r \in Awakening(s)
    BY <2>5, <2>6 DEF Awakening, Lists, Formed
  <2>8. ~ NoneDue(x)
    <3>1. Head(x.delayed).wake \in Int /\ x.tick \in Int
      BY <1>1, <1>2, HeadSleeps, StateType, Ticks
    <3> QED BY <1>2, <3>1 DEF NoneDue
  <2> QED BY <2>1, <2>2, <2>5, <2>7, <2>8
<1>3. CASE ~ (x.delayed # <<>> /\ Head(x.delayed).wake <= x.tick)
  <2>1. WakeDue(x) = x
    BY <1>3 DEF WakeDue
  <2>2. NoneDue(x)
    <3> SUFFICES ASSUME x.delayed # <<>> PROVE Head(x.delayed).wake > x.tick
      BY DEF NoneDue
    <3>1. Head(x.delayed).wake \in Int /\ x.tick \in Int
      BY <1>1, HeadSleeps, StateType, Ticks
    <3> QED BY <1>3, <3>1
  <2> QED BY <2>1, <2>2
<1> QED BY <1>2, <1>3

LEMMA DueWokenIs ==
  ASSUME NEW s, Lists(s), s.pending = <<>>
  PROVE  DueWoken(s) \in Awakening(s) /\ NoneDue(DueWoken(s))
<1> DEFINE X == Awakening(s)
           n == Len(s.delayed)
           G == [i \in Nat |-> [x \in X |-> WakeDue(x)]]
<1>1. s \in SchedStates /\ s \in X
  BY WokeRefl DEF Lists, Formed, Awakening
<1>2. s.delayed \in Seq(Sleeper) /\ n \in Nat
  BY <1>1, StateType
<1>3. G \in [Nat -> [X -> X]]
  BY WakeDueIs
<1>4. PICK g \in [0 .. n -> X] : Steps(g, G, s, n)
  BY <1>1, <1>2, <1>3, LoopExists
<1>5. WakesDue(g, s, n)
  <2> DEFINE f == [i \in 0 .. n |-> IF i = 0 THEN s ELSE WakeDue(g[i - 1])]
  <2> SUFFICES g = f
    BY DEF WakesDue
  <2> SUFFICES ASSUME NEW i \in 0 .. n PROVE g[i] = f[i]
    OBVIOUS
  <2>1. CASE i = 0
    BY <1>2, <1>4, <2>1 DEF Steps
  <2>2. CASE i # 0
    <3>1. i \in 1 .. n /\ i - 1 \in 0 .. n
      BY <1>2, <2>2
    <3>2. g[i - 1] \in X
      BY <3>1
    <3> HIDE DEF n, X
    <3>3. g[i] = G[i][g[i - 1]]
      BY <1>4, <3>1 DEF Steps
    <3> QED BY <2>2, <3>2, <3>3
  <2> QED BY <2>1, <2>2
<1> HIDE DEF G
<1>6. PICK h : WakesDue(h, s, n) /\ DueWoken(s) = h[n]
  BY <1>5, DueWokenLoop
<1> HIDE DEF n
<1>7. /\ h[0] = s
      /\ \A i \in 1 .. n : h[i] = WakeDue(h[i - 1])
  <2>1. h = [i \in 0 .. n |-> IF i = 0 THEN s ELSE WakeDue(h[i - 1])]
    BY <1>6 DEF WakesDue
  <2>2. \A i \in 0 .. n : h[i] = IF i = 0 THEN s ELSE WakeDue(h[i - 1])
    BY <2>1
  <2>3. \A i \in 1 .. n : i \in 0 .. n /\ i # 0
    BY <1>2
  <2> QED BY <1>2, <2>2, <2>3
<1> HIDE DEF X
<1>8. \A i \in 0 .. n : h[i] \in X
  <2>1. \A i \in 1 .. n : h[i - 1] \in X => h[i] \in X
    BY <1>7, WakeDueIs DEF X
  <2> QED BY <1>1, <1>2, <1>7, <2>1, LoopKeeps
<1>9. \A i \in 0 .. n : NoneDue(h[i]) \/ Len(h[i].delayed) = n - i
  <2> DEFINE Good == {i \in Nat : i \in 0 .. n => NoneDue(h[i]) \/ Len(h[i].delayed) = n - i}
  <2>1. 0 \in Good
    BY <1>2, <1>7 DEF n
  <2>2. ASSUME NEW i \in Nat, i \in Good PROVE i + 1 \in Good
    <3> SUFFICES ASSUME i + 1 \in 0 .. n
                 PROVE  NoneDue(h[i + 1]) \/ Len(h[i + 1].delayed) = n - (i + 1)
      OBVIOUS
    <3>1. i + 1 \in 1 .. n /\ (i + 1) - 1 = i /\ i \in 0 .. n /\ (n - i) - 1 = n - (i + 1)
      BY <1>2
    <3>2. h[i] \in Awakening(s) /\ h[i + 1] = WakeDue(h[i])
      BY <1>7, <1>8, <3>1 DEF X
    <3>3. NoneDue(h[i]) => h[i + 1] = h[i]
      BY <3>2, WakeDueIs
    <3>4. ~ NoneDue(h[i]) => Len(h[i + 1].delayed) = Len(h[i].delayed) - 1
      BY <3>2, WakeDueIs
    <3>5. NoneDue(h[i]) \/ Len(h[i].delayed) = n - i
      BY <2>2, <3>1
    <3> QED BY <3>1, <3>3, <3>4, <3>5
  <2> HIDE DEF Good
  <2>3. \A i \in Nat : i \in Good
    BY <2>1, <2>2, SetInduction
  <2> QED BY <2>3 DEF Good
<1>10. n \in 0 .. n /\ n - n = 0
  BY <1>2
<1>11. h[n] \in Awakening(s)
  BY <1>8, <1>10 DEF X
<1>12. NoneDue(h[n])
  <2>1. NoneDue(h[n]) \/ Len(h[n].delayed) = 0
    BY <1>9, <1>10
  <2>2. h[n].delayed \in Seq(Sleeper)
    BY <1>11, StateType DEF Awakening
  <2>3. Len(h[n].delayed) = 0 => h[n].delayed = <<>>
    BY <2>2
  <2> QED BY <2>1, <2>3 DEF NoneDue
<1> QED BY <1>6, <1>11, <1>12

----------------------------------------------------------------------------
(* Time: the wake times agree with the times that do not wrap around          *)

Dated(s) ==
  /\ \A d \in Range(s.delayed) : d.due = s.overflows * (TickMax + 1) + d.wake
  /\ \A d \in Range(s.overflow) : d.due = (s.overflows + 1) * (TickMax + 1) + d.wake
Expected(s) == \A d \in Range(s.delayed) : s.next <= d.wake
Timely(s) == \A d \in Range(s.delayed) : d.wake > s.tick
OnTime(s) == Dated(s) /\ Expected(s) /\ Timely(s)

LEMMA Rounds ==
  /\ \A k \in Nat : k * (TickMax + 1) \in Nat
  /\ \A k \in Nat : (k + 1) * (TickMax + 1) = k * (TickMax + 1) + (TickMax + 1)
<1>1. TickMax + 1 \in Nat
  BY Ticks
<1>2. \A k, m \in Nat : k * m \in Nat /\ (k + 1) * m = k * m + m
  OBVIOUS
<1> QED BY <1>1, <1>2

LEMMA NowType == ASSUME NEW s \in SchedStates PROVE Now(s) \in Nat
<1>1. s.overflows \in Nat /\ s.tick \in 0 .. TickMax
  BY StateType
<1> QED BY <1>1, Rounds, Ticks DEF Now

LEMMA SameTimeDated ==
  ASSUME NEW s, NEW r, SameTime(s, r)
  PROVE  /\ Dated(s) => Dated(r)
         /\ Timely(s) => Timely(r)
         /\ Expected(s) /\ r.next = s.next => Expected(r)
         /\ Now(r) = Now(s)
BY DEF SameTime, SameClock, Dated, Timely, Expected, Now

LEMMA FirstWakes ==
  ASSUME NEW q \in Seq(Sleeper), Ordered(q)
  PROVE  /\ NextUnblockTime(q) \in 0 .. TickMax
         /\ \A d \in Range(q) : NextUnblockTime(q) <= d.wake
<1>1. CASE q = <<>>
  <2>1. NextUnblockTime(q) = TickMax /\ Range(q) = {}
    BY <1>1 DEF NextUnblockTime, portMAX_DELAY, Range
  <2> QED BY <2>1, Ticks
<1>2. CASE q # <<>>
  <2>1. 1 \in DOMAIN q /\ Head(q) = q[1] /\ q[1] \in Sleeper
    BY <1>2
  <2>2. NextUnblockTime(q) = q[1].wake /\ q[1].wake \in 0 .. TickMax
    BY <1>2, <2>1 DEF NextUnblockTime, Sleeper
  <2>3. ASSUME NEW d \in Range(q) PROVE q[1].wake <= d.wake
    <3>1. PICK i \in 1 .. Len(q) : d = q[i]
      BY <2>3, InRange
    <3>2. i \in DOMAIN q /\ (i = 1 \/ 1 < i) /\ q[1].wake \in Int
      BY <2>2, Ticks
    <3> QED BY <2>1, <3>1, <3>2 DEF Ordered
  <2> QED BY <2>2, <2>3
<1> QED BY <1>1, <1>2

LEMMA NoneDueTimely ==
  ASSUME NEW x \in SchedStates, Ordered(x.delayed), NoneDue(x)
  PROVE  Timely(x)
<1> SUFFICES ASSUME NEW d \in Range(x.delayed) PROVE d.wake > x.tick
  BY DEF Timely
<1> DEFINE q == x.delayed
<1>1. q \in Seq(Sleeper) /\ x.tick \in Int
  BY StateType, Ticks
<1>2. PICK i \in 1 .. Len(q) : d = q[i]
  BY <1>1, InRange
<1>3. q # <<>>
  BY <1>1, <1>2
<1>4. Head(q).wake > x.tick /\ NextUnblockTime(q) = Head(q).wake
  BY <1>3 DEF NoneDue, NextUnblockTime
<1>5. Head(q).wake <= d.wake
  BY <1>1, <1>4, FirstWakes
<1>6. Head(q).wake \in Int /\ d.wake \in Int
  <2>1. d \in Sleeper /\ q[1] \in Sleeper /\ Head(q) = q[1]
    BY <1>1, <1>2, <1>3
  <2> QED BY <2>1, Ticks DEF Sleeper
<1> QED BY <1>1, <1>4, <1>5, <1>6

-----------------------------------------------------------------------
(* A tick of the counter                                                      *)

LEMMA TickedFields ==
  ASSUME NEW s \in SchedStates, s.tick < TickMax
  PROVE  LET r == Ticked(s)
         IN  /\ r \in SchedStates /\ SameLists(s, r) /\ SameFlags(s, r)
             /\ r.tick = s.tick + 1 /\ r.overflows = s.overflows /\ r.pended = s.pended
             /\ r.next = s.next /\ r.yield = s.yield
<1>1. s.tick + 1 \in 0 .. TickMax
  BY StateType, Ticks
<1> QED BY <1>1 DEF SchedStates, Ticked, SameLists, SameFlags

LEMMA WrappedFields ==
  ASSUME NEW s \in SchedStates, ~ (s.tick < TickMax), NextUnblockTime(s.overflow) \in 0 .. TickMax
  PROVE  LET r == Ticked(s)
         IN  /\ r \in SchedStates /\ SameFlags(s, r)
             /\ r.ready = s.ready /\ r.events = s.events /\ r.delayed = s.overflow
             /\ r.overflow = s.delayed /\ r.blocked = s.blocked /\ r.pending = s.pending
             /\ r.tick = 0 /\ r.overflows = s.overflows + 1 /\ r.pended = s.pended
             /\ r.next = NextUnblockTime(s.overflow) /\ r.yield = s.yield
<1>1. 0 \in 0 .. TickMax /\ s.overflows + 1 \in Nat
  BY StateType, Ticks
<1> QED BY <1>1 DEF SchedStates, Ticked, SameFlags

LEMMA SwappedPlaced ==
  ASSUME NEW s, NEW r, NEW t \in Task, r.prio = s.prio, r.ready = s.ready,
         r.events = s.events, r.delayed = s.overflow, r.overflow = s.delayed,
         r.blocked = s.blocked, r.pending = s.pending, Placed(s, t)
  PROVE  Placed(r, t)
<1>1. IsReady(r, t) <=> IsReady(s, t)
  BY DEF IsReady
<1>2. Waiting(r, t) <=> Waiting(s, t)
  BY DEF Waiting
<1>3. Held(r, t) <=> Held(s, t)
  BY DEF Held
<1>4. Dormant(r, t) <=> Dormant(s, t)
  BY DEF Dormant
<1> QED BY <1>1, <1>2, <1>3, <1>4 DEF Placed

LEMMA TickedIs ==
  ASSUME NEW s, Lists(s), OnTime(s)
  PROVE  LET r == Ticked(s)
         IN  /\ Lists(r) /\ Woke(s, r) /\ Dated(r) /\ Expected(r)
             /\ Now(r) = Now(s) + 1 /\ r.pending = s.pending /\ r.pended = s.pended
<1> DEFINE r == Ticked(s)
<1>1. s \in SchedStates /\ Formed(s)
  BY DEF Lists, Formed
<1>2. s.overflows \in Nat /\ s.tick \in 0 .. TickMax
  BY <1>1, StateType
<1>3. CASE s.tick < TickMax
  <2>1. /\ r \in SchedStates /\ SameLists(s, r) /\ SameFlags(s, r)
        /\ r.tick = s.tick + 1 /\ r.overflows = s.overflows /\ r.pended = s.pended
        /\ r.next = s.next /\ r.yield = s.yield
    BY <1>1, <1>3, TickedFields
  <2> HIDE DEF r
  <2>2. Lists(r) /\ \A t \in Task : IsReady(r, t) <=> IsReady(s, t)
    BY <2>1, SameListsAre
  <2>3. Woke(s, r)
    BY <2>1, <2>2 DEF Woke, SameLists
  <2>4. Dated(r) /\ Expected(r)
    BY <2>1 DEF OnTime, Dated, Expected, SameLists
  <2>5. Now(r) = Now(s) + 1
    <3>1. Now(r) = s.overflows * (TickMax + 1) + (s.tick + 1)
      BY <2>1 DEF Now
    <3>2. Now(s) = s.overflows * (TickMax + 1) + s.tick
      BY DEF Now
    <3>3. s.overflows * (TickMax + 1) \in Nat /\ s.tick \in Int
      BY <1>2, Rounds, Ticks
    <3> QED BY <3>1, <3>2, <3>3
  <2> QED BY <2>1, <2>2, <2>3, <2>4, <2>5 DEF SameLists, r
<1>4. CASE ~ (s.tick < TickMax)
  <2>1. s.tick = TickMax
    BY <1>2, <1>4, Ticks
  <2>2. s.delayed \in Seq(Sleeper) /\ s.overflow \in Seq(Sleeper) /\ Ordered(s.overflow)
    BY <1>1, StateType DEF Formed
  <2>3. Range(s.delayed) = {}
    <3> SUFFICES ASSUME NEW d \in Range(s.delayed) PROVE FALSE
      OBVIOUS
    <3>1. d \in Sleeper
      BY <2>2, InRange
    <3>2. d.wake \in 0 .. TickMax
      BY <3>1 DEF Sleeper
    <3>3. d.wake > TickMax
      BY <2>1 DEF OnTime, Timely
    <3> QED BY <3>2, <3>3, Ticks
  <2>4. /\ NextUnblockTime(s.overflow) \in 0 .. TickMax
        /\ \A d \in Range(s.overflow) : NextUnblockTime(s.overflow) <= d.wake
    BY <2>2, FirstWakes
  <2>5. /\ r \in SchedStates /\ SameFlags(s, r)
        /\ r.ready = s.ready /\ r.events = s.events /\ r.delayed = s.overflow
        /\ r.overflow = s.delayed /\ r.blocked = s.blocked /\ r.pending = s.pending
        /\ r.tick = 0 /\ r.overflows = s.overflows + 1 /\ r.pended = s.pended
        /\ r.next = NextUnblockTime(s.overflow) /\ r.yield = s.yield
    BY <1>1, <1>4, <2>4, WrappedFields
  <2> HIDE DEF r
  <2>6. Formed(r)
    BY <1>1, <2>5 DEF Formed
  <2>7. r.prio = s.prio
    BY <2>5 DEF SameFlags
  <2>8. ASSUME NEW t \in Task PROVE Placed(r, t) /\ (IsReady(r, t) <=> IsReady(s, t))
    <3>1. Placed(r, t)
      BY <2>5, <2>7, SwappedPlaced DEF Lists
    <3>2. IsReady(r, t) <=> IsReady(s, t)
      BY <2>5, <2>7 DEF IsReady
    <3> QED BY <3>1, <3>2
  <2>9. Lists(r)
    BY <2>6, <2>8 DEF Lists
  <2>10. Woke(s, r)
    BY <2>5, <2>8 DEF Woke
  <2>11. Dated(r)
    BY <2>3, <2>5 DEF OnTime, Dated
  <2>12. Expected(r)
    BY <2>4, <2>5 DEF Expected
  <2>13. Now(r) = Now(s) + 1
    <3>1. Now(r) = (s.overflows + 1) * (TickMax + 1) + 0
      BY <2>5 DEF Now
    <3>2. Now(s) = s.overflows * (TickMax + 1) + TickMax
      BY <2>1 DEF Now
    <3> QED BY <1>2, <3>1, <3>2, Rounds, Ticks
  <2> QED BY <2>5, <2>9, <2>10, <2>11, <2>12, <2>13 DEF r
<1> QED BY <1>3, <1>4

LEMMA NextFields ==
  ASSUME NEW s \in SchedStates, NEW n \in 0 .. TickMax
  PROVE  LET r == [s EXCEPT !.next = n]
         IN  /\ r \in SchedStates /\ r.next = n /\ r.yield = s.yield
             /\ SameLists(s, r) /\ SameFlags(s, r) /\ SameClock(s, r)
BY DEF SchedStates, SameFlags, SameClock, SameLists

LEMMA IncrementTickIs ==
  ASSUME NEW s, Lists(s), OnTime(s), s.pending = <<>>
  PROVE  LET r == IncrementTick(s)
         IN  /\ Lists(r) /\ Woke(s, r) /\ OnTime(r)
             /\ Now(r) = Now(s) + 1 /\ r.pending = <<>> /\ r.pended = s.pended
<1> DEFINE now == Ticked(s)
           woken == DueWoken(now)
           first == NextUnblockTime(woken.delayed)
           late == [woken EXCEPT !.next = first]
           after == IF now.tick < now.next THEN now ELSE late
           y == after.yield \/ Len(after.ready[s.prio[s.cur]]) > 2
           r == [after EXCEPT !.yield = y]
<1>1. IncrementTick(s) = r
  BY DEF IncrementTick
<1>2. /\ Lists(now) /\ Woke(s, now) /\ Dated(now) /\ Expected(now)
      /\ Now(now) = Now(s) + 1 /\ now.pending = <<>> /\ now.pended = s.pended
  BY TickedIs
<1> HIDE DEF now
<1>3. /\ Lists(after) /\ Woke(s, after) /\ OnTime(after)
      /\ Now(after) = Now(s) + 1 /\ after.pending = <<>> /\ after.pended = s.pended
  <2>1. CASE now.tick < now.next
    <3>1. after = now
      BY <2>1
    <3>2. Timely(now)
      <4> SUFFICES ASSUME NEW d \in Range(now.delayed) PROVE d.wake > now.tick
        BY DEF Timely
      <4>1. now \in SchedStates
        BY <1>2 DEF Lists, Formed
      <4>2. now.delayed \in Seq(Sleeper) /\ now.tick \in Int /\ now.next \in Int
        BY <4>1, StateType, Ticks
      <4>3. d \in Sleeper
        BY <4>2, InRange
      <4>4. d.wake \in Int
        BY <4>3, Ticks DEF Sleeper
      <4>5. now.next <= d.wake
        BY <1>2 DEF Expected
      <4> QED BY <2>1, <4>2, <4>4, <4>5
    <3> QED BY <1>2, <3>1, <3>2 DEF OnTime
  <2>2. CASE ~ (now.tick < now.next)
    <3>1. after = late
      BY <2>2
    <3>2. woken \in Awakening(now) /\ NoneDue(woken)
      BY <1>2, DueWokenIs
    <3> HIDE DEF woken
    <3>3. /\ woken \in SchedStates /\ Lists(woken) /\ Woke(now, woken) /\ SameTime(now, woken)
          /\ woken.pending = now.pending /\ Ordered(woken.delayed)
      BY <3>2 DEF Awakening, Lists, Formed
    <3>4. first \in 0 .. TickMax /\ \A d \in Range(woken.delayed) : first <= d.wake
      BY <3>3, StateType, FirstWakes
    <3> HIDE DEF first
    <3>5. /\ late \in SchedStates /\ late.next = first /\ late.yield = woken.yield
          /\ SameLists(woken, late) /\ SameFlags(woken, late) /\ SameClock(woken, late)
      BY <3>3, <3>4, NextFields
    <3> HIDE DEF late
    <3>6. Lists(late) /\ \A t \in Task : IsReady(late, t) <=> IsReady(woken, t)
      BY <3>3, <3>5, SameListsAre
    <3>7. Woke(woken, late)
      BY <3>5, <3>6 DEF Woke, SameLists
    <3>8. Woke(s, late)
      BY <1>2, <3>3, <3>7, WokeTrans
    <3>9. SameTime(woken, late)
      BY <3>5 DEF SameTime, SameLists
    <3>10. Dated(late) /\ Now(late) = Now(s) + 1
      BY <1>2, <3>3, <3>9, SameTimeDated
    <3>11. Timely(late)
      BY <3>2, <3>3, <3>9, NoneDueTimely, SameTimeDated
    <3>12. Expected(late)
      BY <3>4, <3>5 DEF Expected, SameLists
    <3>13. late.pending = <<>> /\ late.pended = s.pended
      BY <1>2, <3>3, <3>5 DEF SameTime, SameLists, SameClock
    <3> QED BY <3>1, <3>6, <3>8, <3>10, <3>11, <3>12, <3>13 DEF OnTime
  <2> QED BY <2>1, <2>2
<1> HIDE DEF after
<1>4. after \in SchedStates /\ y \in BOOLEAN
  <2>1. after \in SchedStates
    BY <1>3 DEF Lists, Formed
  <2> QED BY <2>1, StateType
<1>5. /\ r \in SchedStates /\ r.yield = y
      /\ r.ready = after.ready /\ r.events = after.events /\ r.delayed = after.delayed
      /\ r.overflow = after.overflow /\ r.blocked = after.blocked /\ r.pending = after.pending
      /\ SameClock(after, r) /\ SameFlags(after, r) /\ r.next = after.next
  BY <1>4, YieldFields
<1>6. after.yield => r.yield
  BY <1>5, Zenon
<1> HIDE DEF r
<1>7. SameLists(after, r)
  BY <1>5 DEF SameLists, SameFlags
<1>8. Lists(r) /\ \A t \in Task : IsReady(r, t) <=> IsReady(after, t)
  BY <1>3, <1>5, <1>7, SameListsAre
<1>9. Woke(after, r)
  BY <1>5, <1>6, <1>8 DEF Woke
<1>10. Woke(s, r)
  BY <1>3, <1>9, WokeTrans
<1>11. SameTime(after, r)
  BY <1>5 DEF SameTime
<1>12. OnTime(r) /\ Now(r) = Now(s) + 1
  BY <1>3, <1>5, <1>11, SameTimeDated DEF OnTime
<1> QED BY <1>1, <1>3, <1>5, <1>8, <1>10, <1>12 DEF SameClock

----------------------------------------------------------------------------
LEMMA TailIs ==
  ASSUME NEW S, NEW q \in Seq(S), q # <<>>
  PROVE  /\ Tail(q) \in Seq(S) /\ Len(Tail(q)) = Len(q) - 1 /\ Head(q) \in S
         /\ Range(Tail(q)) \subseteq Range(q) /\ Head(q) \in Range(q)
         /\ \A x \in Range(q) : x = Head(q) \/ x \in Range(Tail(q))
         /\ IsInjective(q) => IsInjective(Tail(q)) /\ Head(q) \notin Range(Tail(q))
<1> DEFINE r == Tail(q)
<1>1. /\ Len(q) \in Nat /\ Len(q) > 0 /\ Head(q) = q[1] /\ q[1] \in S
      /\ r \in Seq(S) /\ Len(r) = Len(q) - 1
      /\ \A i \in 1 .. Len(q) - 1 : r[i] = q[i + 1]
  BY HeadTailProperties
<1> HIDE DEF r
<1>2. DOMAIN r = 1 .. Len(q) - 1 /\ DOMAIN q = 1 .. Len(q) /\ 1 \in DOMAIN q
  BY <1>1
<1>3. \A i \in 1 .. Len(q) - 1 : i + 1 \in DOMAIN q /\ i + 1 # 1
  BY <1>1, <1>2
<1>4. \A x \in Range(r) : x \in Range(q)
  BY <1>1, <1>2, <1>3 DEF Range
<1>5. Head(q) \in Range(q)
  BY <1>1, <1>2 DEF Range
<1>6. ASSUME NEW x \in Range(q), x # Head(q) PROVE x \in Range(r)
  <2>1. PICK j \in 1 .. Len(q) : x = q[j]
    BY <1>2 DEF Range
  <2>2. j - 1 \in 1 .. Len(q) - 1 /\ (j - 1) + 1 = j
    BY <1>1, <1>6, <2>1
  <2>3. x = r[j - 1]
    BY <1>1, <2>1, <2>2
  <2> QED BY <1>2, <2>2, <2>3 DEF Range
<1>7. ASSUME IsInjective(q) PROVE IsInjective(r)
  <2> SUFFICES ASSUME NEW i \in 1 .. Len(q) - 1, NEW j \in 1 .. Len(q) - 1, r[i] = r[j]
               PROVE  i = j
    BY <1>2 DEF IsInjective
  <2>1. q[i + 1] = q[j + 1]
    BY <1>1
  <2>2. i + 1 \in DOMAIN q /\ j + 1 \in DOMAIN q
    BY <1>3
  <2>3. i + 1 = j + 1
    BY <1>7, <2>1, <2>2 DEF IsInjective
  <2> QED BY <2>3
<1>8. ASSUME IsInjective(q), Head(q) \in Range(r) PROVE FALSE
  <2>1. PICK i \in 1 .. Len(q) - 1 : Head(q) = r[i]
    BY <1>2, <1>8 DEF Range
  <2>2. q[1] = q[i + 1] /\ i + 1 # 1 /\ i + 1 \in DOMAIN q
    BY <1>1, <1>3, <2>1
  <2> QED BY <1>2, <1>8, <2>2 DEF IsInjective
<1> QED BY <1>1, <1>4, <1>5, <1>6, <1>7, <1>8 DEF r

-----------------------------------------------------------------------
(* The tasks that were woken while the scheduler was suspended                *)

MovesPending(g, s, n) == g = [i \in 0 .. n |-> IF i = 0 THEN s ELSE MovePending(g[i - 1])]

LEMMA PendingMovedLoop ==
  ASSUME NEW s, NEW f, MovesPending(f, s, Len(s.pending))
  PROVE  \E g : MovesPending(g, s, Len(s.pending)) /\ PendingMoved(s) = g[Len(s.pending)]
<1>1. PendingMoved(s) = (CHOOSE g : MovesPending(g, s, Len(s.pending)))[Len(s.pending)]
  BY DEF PendingMoved, MovesPending
<1>2. MovesPending((CHOOSE g : MovesPending(g, s, Len(s.pending))), s, Len(s.pending))
  BY Zenon
<1> QED BY <1>1, <1>2, Zenon

Moving(s) ==
  {x \in SchedStates : Lists(x) /\ Woke(s, x) /\ SameTime(s, x) /\ x.next = s.next}

LEMMA PendingFields ==
  ASSUME NEW s \in SchedStates, NEW q \in Seq(Task)
  PROVE  LET r == [s EXCEPT !.pending = q]
         IN  /\ r \in SchedStates /\ r.pending = q
             /\ r.ready = s.ready /\ r.events = s.events /\ r.delayed = s.delayed
             /\ r.overflow = s.overflow /\ r.blocked = s.blocked /\ r.yield = s.yield
             /\ SameClock(s, r) /\ SameFlags(s, r) /\ r.next = s.next
BY DEF SchedStates, SameClock, SameFlags

LEMMA MovePendingIs ==
  ASSUME NEW s, NEW x \in Moving(s)
  PROVE  /\ MovePending(x) \in Moving(s)
         /\ x.pending = <<>> => MovePending(x) = x
         /\ x.pending # <<>> => Len(MovePending(x).pending) = Len(x.pending) - 1
<1>1. x \in SchedStates /\ Lists(x) /\ Formed(x) /\ x.pending \in Seq(Task)
  BY StateType DEF Moving, Lists
<1>2. CASE x.pending = <<>>
  BY <1>2 DEF MovePending
<1>3. CASE x.pending # <<>>
  <2> DEFINE t == Head(x.pending)
             q == Tail(x.pending)
             y == [x EXCEPT !.pending = q]
             r == MakeReady(y, t)
  <2>1. MovePending(x) = r
    BY <1>3 DEF MovePending
  <2>2. IsInjective(x.pending)
    BY <1>1 DEF Formed
  <2>3. /\ q \in Seq(Task) /\ Len(q) = Len(x.pending) - 1 /\ t \in Task
        /\ t \in Range(x.pending) /\ t \notin Range(q) /\ IsInjective(q)
        /\ Range(q) \subseteq Range(x.pending)
        /\ \A u \in Range(x.pending) : u = t \/ u \in Range(q)
    BY <1>1, <1>3, <2>2, TailIs
  <2> HIDE DEF t, q
  <2>4. /\ y \in SchedStates /\ y.pending = q
        /\ y.ready = x.ready /\ y.events = x.events /\ y.delayed = x.delayed
        /\ y.overflow = x.overflow /\ y.blocked = x.blocked /\ y.yield = x.yield
        /\ SameClock(x, y) /\ SameFlags(x, y) /\ y.next = x.next
    BY <1>1, <2>3, PendingFields
  <2> HIDE DEF y
  <2>5. Formed(y)
    BY <1>1, <2>3, <2>4 DEF Formed
  <2>6. OthersSame(x, y, t)
    <3> SUFFICES ASSUME NEW u \in Task, u # t PROVE SameTask(x, y, u)
      BY DEF OthersSame
    <3>1. u \in Range(q) <=> u \in Range(x.pending)
      BY <2>3
    <3>2. y.prio = x.prio
      BY <2>4 DEF SameFlags
    <3> QED BY <2>4, <3>1, <3>2 DEF SameTask
  <2>7. \A u \in Task : u # t => Placed(y, u)
    BY <1>1, <2>6, SamePlaced DEF OthersSame, Lists
  <2>8. ~ IsReady(y, t)
    <3>1. ~ IsReady(x, t)
      BY <1>1, <2>3 DEF Lists, Placed, Held
    <3> QED BY <2>4, <3>1 DEF IsReady, SameFlags
  <2>9. ~ Held(y, t)
    BY <2>3, <2>4 DEF Held
  <2>10. /\ Lists(r) /\ Woke(y, r) /\ SameTime(y, r) /\ r.next = y.next /\ r.pending = y.pending
    BY <2>3, <2>5, <2>7, <2>8, <2>9, MakeReadyIs
  <2> HIDE DEF r
  <2>11. Woke(x, y) /\ SameTime(x, y)
    <3>1. \A u \in Task : IsReady(x, u) <=> IsReady(y, u)
      BY <2>4 DEF IsReady, SameFlags
    <3>2. Woke(x, y)
      BY <2>4, <3>1 DEF Woke
    <3> QED BY <2>4, <3>2 DEF SameTime
  <2>12. Woke(s, r) /\ SameTime(s, r) /\ r.next = s.next
    BY <2>4, <2>10, <2>11, WokeTrans, SameTimeTrans DEF Moving
  <2>13. r \in Moving(s)
    BY <2>10, <2>12 DEF Moving, Lists, Formed
  <2> QED BY <1>3, <2>1, <2>3, <2>4, <2>10, <2>13
<1> QED BY <1>2, <1>3

LEMMA PendingMovedIs ==
  ASSUME NEW s, Lists(s)
  PROVE  PendingMoved(s) \in Moving(s) /\ PendingMoved(s).pending = <<>>
<1> DEFINE X == Moving(s)
           n == Len(s.pending)
           G == [i \in Nat |-> [x \in X |-> MovePending(x)]]
<1>1. s \in SchedStates /\ s \in X
  BY WokeRefl DEF Lists, Formed, Moving
<1>2. s.pending \in Seq(Task) /\ n \in Nat
  BY <1>1, StateType
<1>3. G \in [Nat -> [X -> X]]
  BY MovePendingIs
<1>4. PICK g \in [0 .. n -> X] : Steps(g, G, s, n)
  BY <1>1, <1>2, <1>3, LoopExists
<1>5. MovesPending(g, s, n)
  <2> DEFINE f == [i \in 0 .. n |-> IF i = 0 THEN s ELSE MovePending(g[i - 1])]
  <2> SUFFICES g = f
    BY DEF MovesPending
  <2> SUFFICES ASSUME NEW i \in 0 .. n PROVE g[i] = f[i]
    OBVIOUS
  <2>1. CASE i = 0
    BY <1>2, <1>4, <2>1 DEF Steps
  <2>2. CASE i # 0
    <3>1. i \in 1 .. n /\ i - 1 \in 0 .. n
      BY <1>2, <2>2
    <3>2. g[i - 1] \in X
      BY <3>1
    <3> HIDE DEF n, X
    <3>3. g[i] = G[i][g[i - 1]]
      BY <1>4, <3>1 DEF Steps
    <3> QED BY <2>2, <3>2, <3>3
  <2> QED BY <2>1, <2>2
<1> HIDE DEF G
<1>6. PICK h : MovesPending(h, s, n) /\ PendingMoved(s) = h[n]
  BY <1>5, PendingMovedLoop
<1> HIDE DEF n
<1>7. /\ h[0] = s
      /\ \A i \in 1 .. n : h[i] = MovePending(h[i - 1])
  <2>1. h = [i \in 0 .. n |-> IF i = 0 THEN s ELSE MovePending(h[i - 1])]
    BY <1>6 DEF MovesPending
  <2>2. \A i \in 0 .. n : h[i] = IF i = 0 THEN s ELSE MovePending(h[i - 1])
    BY <2>1
  <2>3. \A i \in 1 .. n : i \in 0 .. n /\ i # 0
    BY <1>2
  <2> QED BY <1>2, <2>2, <2>3
<1> HIDE DEF X
<1>8. \A i \in 0 .. n : h[i] \in X
  <2>1. \A i \in 1 .. n : h[i - 1] \in X => h[i] \in X
    BY <1>7, MovePendingIs DEF X
  <2> QED BY <1>1, <1>2, <1>7, <2>1, LoopKeeps
<1>9. \A i \in 0 .. n : Len(h[i].pending) = n - i
  <2> DEFINE Good == {i \in Nat : i \in 0 .. n => Len(h[i].pending) = n - i}
  <2>1. 0 \in Good
    BY <1>2, <1>7 DEF n
  <2>2. ASSUME NEW i \in Nat, i \in Good PROVE i + 1 \in Good
    <3> SUFFICES ASSUME i + 1 \in 0 .. n PROVE Len(h[i + 1].pending) = n - (i + 1)
      OBVIOUS
    <3>1. i + 1 \in 1 .. n /\ (i + 1) - 1 = i /\ i \in 0 .. n /\ n - i > 0
          /\ (n - i) - 1 = n - (i + 1)
      BY <1>2
    <3>2. h[i] \in Moving(s) /\ h[i + 1] = MovePending(h[i])
      BY <1>7, <1>8, <3>1 DEF X
    <3>3. h[i].pending # <<>> => Len(h[i + 1].pending) = Len(h[i].pending) - 1
      BY <3>2, MovePendingIs
    <3>4. Len(h[i].pending) = n - i
      BY <2>2, <3>1
    <3>5. h[i].pending # <<>>
      BY <3>1, <3>4
    <3> QED BY <3>1, <3>3, <3>4, <3>5
  <2> HIDE DEF Good
  <2>3. \A i \in Nat : i \in Good
    BY <2>1, <2>2, SetInduction
  <2> QED BY <2>3 DEF Good
<1>10. n \in 0 .. n /\ n - n = 0
  BY <1>2
<1>11. h[n] \in Moving(s)
  BY <1>8, <1>10 DEF X
<1>12. h[n].pending = <<>>
  <2>1. Len(h[n].pending) = 0
    BY <1>9, <1>10
  <2>2. h[n].pending \in Seq(Task)
    BY <1>11, StateType DEF Moving
  <2> QED BY <2>1, <2>2
<1> QED BY <1>6, <1>11, <1>12

-----------------------------------------------------------------------
(* The ticks that were held back                                              *)

CountsTicks(g, s, n) == g = [i \in 0 .. n |-> IF i = 0 THEN s ELSE IncrementTick(g[i - 1])]

LEMMA TicksCountedLoop ==
  ASSUME NEW s, NEW n, NEW f, CountsTicks(f, s, n)
  PROVE  \E g : CountsTicks(g, s, n) /\ TicksCounted(s, n) = g[n]
<1>1. TicksCounted(s, n) = (CHOOSE g : CountsTicks(g, s, n))[n]
  BY DEF TicksCounted, CountsTicks
<1>2. CountsTicks((CHOOSE g : CountsTicks(g, s, n)), s, n)
  BY Zenon
<1> QED BY <1>1, <1>2, Zenon

Counting(s) ==
  {x \in SchedStates : /\ Lists(x) /\ Woke(s, x) /\ OnTime(x) /\ Now(x) >= Now(s)
                       /\ x.pending = <<>> /\ x.pended = s.pended}

LEMMA CountingOn ==
  ASSUME NEW s \in SchedStates, NEW x \in Counting(s)
  PROVE  IncrementTick(x) \in Counting(s)
<1> DEFINE r == IncrementTick(x)
<1>1. /\ Lists(r) /\ Woke(x, r) /\ OnTime(r)
      /\ Now(r) = Now(x) + 1 /\ r.pending = <<>> /\ r.pended = x.pended
  BY IncrementTickIs DEF Counting
<1> HIDE DEF r
<1>2. Woke(s, r) /\ r.pended = s.pended
  BY <1>1, WokeTrans DEF Counting
<1>3. Now(r) >= Now(s)
  <2>1. Now(x) \in Nat /\ Now(s) \in Nat /\ Now(x) >= Now(s)
    BY NowType DEF Counting
  <2> QED BY <1>1, <2>1
<1> QED BY <1>1, <1>2, <1>3 DEF Counting, r, Lists, Formed

LEMMA TicksCountedIs ==
  ASSUME NEW s, Lists(s), OnTime(s), s.pending = <<>>, NEW n \in Nat
  PROVE  TicksCounted(s, n) \in Counting(s)
<1> DEFINE X == Counting(s)
           G == [i \in Nat |-> [x \in X |-> IncrementTick(x)]]
<1>1. s \in SchedStates /\ s \in X
  <2>1. s \in SchedStates
    BY DEF Lists, Formed
  <2>2. Now(s) >= Now(s)
    BY <2>1, NowType
  <2> QED BY <2>1, <2>2, WokeRefl DEF Counting
<1>3. G \in [Nat -> [X -> X]]
  BY <1>1, CountingOn
<1>4. PICK g \in [0 .. n -> X] : Steps(g, G, s, n)
  BY <1>1, <1>3, LoopExists
<1>5. CountsTicks(g, s, n)
  <2> DEFINE f == [i \in 0 .. n |-> IF i = 0 THEN s ELSE IncrementTick(g[i - 1])]
  <2> SUFFICES g = f
    BY DEF CountsTicks
  <2> SUFFICES ASSUME NEW i \in 0 .. n PROVE g[i] = f[i]
    OBVIOUS
  <2>1. CASE i = 0
    BY <1>4, <2>1 DEF Steps
  <2>2. CASE i # 0
    <3>1. i \in 1 .. n /\ i - 1 \in 0 .. n
      BY <2>2
    <3>2. g[i - 1] \in X
      BY <3>1
    <3> HIDE DEF X
    <3>3. g[i] = G[i][g[i - 1]]
      BY <1>4, <3>1 DEF Steps
    <3> QED BY <2>2, <3>2, <3>3
  <2> QED BY <2>1, <2>2
<1> HIDE DEF G
<1>6. PICK h : CountsTicks(h, s, n) /\ TicksCounted(s, n) = h[n]
  BY <1>5, TicksCountedLoop
<1>7. /\ h[0] = s
      /\ \A i \in 1 .. n : h[i] = IncrementTick(h[i - 1])
  <2>1. h = [i \in 0 .. n |-> IF i = 0 THEN s ELSE IncrementTick(h[i - 1])]
    BY <1>6 DEF CountsTicks
  <2>2. \A i \in 0 .. n : h[i] = IF i = 0 THEN s ELSE IncrementTick(h[i - 1])
    BY <2>1
  <2>3. \A i \in 1 .. n : i \in 0 .. n /\ i # 0
    OBVIOUS
  <2> QED BY <2>2, <2>3
<1> HIDE DEF X
<1>8. \A i \in 0 .. n : h[i] \in X
  <2>1. \A i \in 1 .. n : h[i - 1] \in X => h[i] \in X
    BY <1>1, <1>7, CountingOn DEF X
  <2> QED BY <1>1, <1>7, <2>1, LoopKeeps
<1>9. n \in 0 .. n
  OBVIOUS
<1> QED BY <1>6, <1>8, <1>9 DEF X

----------------------------------------------------------------------------
(* The choice of the next task                                                *)

LEMMA MaxIs ==
  ASSUME NEW S, S # {}, S \subseteq Priority
  PROVE  Max(S) \in S /\ \A p \in S : p <= Max(S)
<1>1. \A p \in S : p \in 0 .. 3
  BY DEF Priority, configMAX_PRIORITIES
<1>2. \E p \in S : \A k \in S : p >= k
  <2>1. CASE 3 \in S
    BY <1>1, <2>1
  <2>2. CASE 3 \notin S /\ 2 \in S
    BY <1>1, <2>2
  <2>3. CASE 3 \notin S /\ 2 \notin S /\ 1 \in S
    BY <1>1, <2>3
  <2>4. CASE 3 \notin S /\ 2 \notin S /\ 1 \notin S
    <3>1. \A p \in S : p = 0
      BY <1>1, <2>4
    <3> QED BY <3>1
  <2> QED BY <2>1, <2>2, <2>3, <2>4
<1>3. Max(S) \in S /\ \A k \in S : Max(S) >= k
  BY <1>2 DEF Max
<1> QED BY <1>1, <1>3

Higher(s) == \E t \in Task : IsReady(s, t) /\ s.prio[t] > s.prio[s.cur]

(* what goes on while no task blocks                                          *)
Goes(s, r) ==
  /\ r.prio = s.prio
  /\ \A t \in Task : IsReady(s, t) => IsReady(r, t)
  /\ \A l \in EventList : Range(r.events[l]) \subseteq Range(s.events[l])
  /\ \A l \in EventList : Pairs(r.events[l]) \subseteq Pairs(s.events[l])

LEMMA GoesTrans ==
  ASSUME NEW s, NEW r, NEW u, Goes(s, r), Goes(r, u) PROVE Goes(s, u)
<1>1. /\ \A l \in EventList : Range(u.events[l]) \subseteq Range(s.events[l])
      /\ \A l \in EventList : Pairs(u.events[l]) \subseteq Pairs(s.events[l])
  BY DEF Goes
<1> QED BY <1>1 DEF Goes

LEMMA WokeGoes == ASSUME NEW s, NEW r, Woke(s, r) PROVE Goes(s, r)
BY DEF Woke, Goes, SameFlags

LEMMA Occupied ==
  ASSUME NEW s, Lists(s), NEW p \in Priority
  PROVE  Len(s.ready[p]) > 1 <=> \E t \in Task : t \in Range(s.ready[p])
<1> DEFINE q == s.ready[p]
<1>1. s \in SchedStates /\ Formed(s)
  BY DEF Lists, Formed
<1>2. q \in Seq(Task \cup {ListEnd}) /\ IsInjective(q) /\ ListEnd \in Range(q)
  BY <1>1, StateType DEF Formed
<1> HIDE DEF q
<1>3. ASSUME Len(q) > 1 PROVE \E t \in Task : t \in Range(q)
  <2>1. Last(NextEntry(q)) \in Range(q) /\ Last(NextEntry(q)) # ListEnd
    BY <1>2, <1>3, NextEntryIs
  <2>2. Last(NextEntry(q)) \in Task
    BY <1>2, <2>1, InRange
  <2> QED BY <2>1, <2>2
<1>4. ASSUME NEW t \in Task, t \in Range(q) PROVE Len(q) > 1
  <2>1. PICK i \in 1 .. Len(q) : q[i] = t
    BY <1>2, <1>4, InRange
  <2>2. PICK j \in 1 .. Len(q) : q[j] = ListEnd
    BY <1>2, InRange
  <2>3. i # j /\ Len(q) \in Nat
    BY <1>2, <2>1, <2>2, EndIsNoTask
  <2> QED BY <2>3
<1> QED BY <1>3, <1>4 DEF q

SwitchedTo(s, p, q, t) == [s EXCEPT !.ready[p] = q, !.cur = t, !.yield = FALSE]

SwitchesTo(s, r, p, q, t) ==
  /\ r \in SchedStates /\ r.ready[p] = q /\ r.cur = t /\ r.yield = FALSE
  /\ \A k \in Priority : k # p => r.ready[k] = s.ready[k]
  /\ r.prio = s.prio /\ r.suspended = s.suspended
  /\ r.need = s.need /\ r.isr = s.isr
  /\ r.events = s.events /\ r.delayed = s.delayed
  /\ r.overflow = s.overflow /\ r.blocked = s.blocked /\ r.pending = s.pending
  /\ SameClock(s, r) /\ r.next = s.next

LEMMA SwitchFields ==
  ASSUME NEW s \in SchedStates, NEW p \in Priority,
         NEW q \in Seq(Task \cup {ListEnd}), NEW t \in Task
  PROVE  SwitchesTo(s, SwitchedTo(s, p, q, t), p, q, t)
BY DEF SchedStates, SameClock, SwitchedTo, SwitchesTo

(* A switch: the lists keep their items, and the task that runs next is ready *)
(* and has the highest priority of all that are                               *)
Switched(s, r) ==
  /\ Lists(r) /\ Goes(s, r) /\ SameTime(s, r)
  /\ r.next = s.next /\ r.pending = s.pending /\ r.suspended = s.suspended
  /\ r.need = s.need /\ r.isr = s.isr
  /\ r.events = s.events /\ r.yield = FALSE
  /\ IsReady(r, r.cur) /\ r.cur \in Task /\ ~ Higher(r)

LEMMA SwitchIs ==
  ASSUME NEW s, Lists(s), s.suspended = 0, NEW u \in Task, IsReady(s, u)
  PROVE  Switched(s, vTaskSwitchContext(s))
<1> DEFINE S == {p \in Priority : Len(s.ready[p]) > 1}
           top == Max(S)
           q == NextEntry(s.ready[top])
           t == Last(q)
           r == SwitchedTo(s, top, q, t)
<1>1. s \in SchedStates /\ Formed(s)
  BY DEF Lists, Formed
<1>2. vTaskSwitchContext(s) = r
  BY DEF vTaskSwitchContext, SwitchedTo
<1>3. top \in S /\ \A p \in S : p <= top
  <2>1. s.prio[u] \in Priority
    BY <1>1 DEF SchedStates
  <2>2. s.prio[u] \in S
    BY <2>1, Occupied DEF IsReady
  <2>3. S # {} /\ S \subseteq Priority
    BY <2>2
  <2> HIDE DEF S
  <2> QED BY <2>3, MaxIs
<1>4. top \in Priority /\ Len(s.ready[top]) > 1
  BY <1>3
<1> HIDE DEF top
<1>5. s.ready[top] \in Seq(Task \cup {ListEnd}) /\ IsInjective(s.ready[top])
  BY <1>1, <1>4, StateType DEF Formed
<1>6. /\ q \in Seq(Task \cup {ListEnd}) /\ IsInjective(q) /\ Range(q) = Range(s.ready[top])
      /\ t \in Range(s.ready[top]) /\ t # ListEnd
  BY <1>4, <1>5, NextEntryIs
<1>7. t \in Task
  BY <1>5, <1>6, InRange
<1>21. q \in Seq(Task \cup {ListEnd})
  BY <1>6
<1> HIDE DEF S, q, t
<1>22. SwitchesTo(s, r, top, q, t)
  BY <1>1, <1>4, <1>7, <1>21, SwitchFields
<1>8. /\ r \in SchedStates /\ r.ready[top] = q /\ r.cur = t /\ r.yield = FALSE
      /\ \A k \in Priority : k # top => r.ready[k] = s.ready[k]
      /\ r.prio = s.prio /\ r.suspended = s.suspended
      /\ r.need = s.need /\ r.isr = s.isr
      /\ r.events = s.events /\ r.delayed = s.delayed
      /\ r.overflow = s.overflow /\ r.blocked = s.blocked /\ r.pending = s.pending
      /\ SameClock(s, r) /\ r.next = s.next
  BY <1>22 DEF SwitchesTo
<1> HIDE DEF r
<1>9. \A k \in Priority : Range(r.ready[k]) = Range(s.ready[k])
  BY <1>6, <1>8
<1>10. ASSUME NEW v \in Task PROVE SameTask(s, r, v)
  BY <1>8, <1>9 DEF SameTask
<1>11. \A v \in Task : IsReady(r, v) <=> IsReady(s, v)
  BY <1>1, <1>10, SameReady
<1>12. Formed(r)
  <2>1. \A k \in Priority : IsInjective(r.ready[k]) /\ ListEnd \in Range(r.ready[k])
    BY <1>1, <1>6, <1>8, <1>9 DEF Formed
  <2> QED BY <1>1, <1>8, <2>1 DEF Formed
<1>13. Lists(r)
  <2>1. \A v \in Task : Placed(r, v)
    BY <1>1, <1>10, SamePlaced DEF Lists
  <2> QED BY <1>12, <2>1 DEF Lists
<1>14. Goes(s, r) /\ SameTime(s, r)
  BY <1>8, <1>11 DEF Goes, SameTime
<1>15. r.prio[t] = top
  BY <1>4, <1>6, <1>7, <1>8 DEF Lists, Placed
<1>16. IsReady(r, r.cur)
  BY <1>4, <1>6, <1>8, <1>9, <1>15 DEF IsReady
<1>17. ~ Higher(r)
  <2> SUFFICES ASSUME NEW v \in Task, IsReady(r, v), r.prio[v] > top PROVE FALSE
    BY <1>8, <1>15 DEF Higher
  <2>1. s.prio[v] \in Priority /\ v \in Range(s.ready[s.prio[v]])
    BY <1>1, <1>11 DEF SchedStates, IsReady
  <2>2. s.prio[v] \in S
    BY <2>1, Occupied DEF S
  <2>3. s.prio[v] <= top
    BY <1>3, <2>2
  <2> QED BY <1>4, <1>8, <2>1, <2>3 DEF Priority, configMAX_PRIORITIES
<1> QED BY <1>2, <1>7, <1>8, <1>13, <1>14, <1>16, <1>17 DEF Switched

(* while the scheduler is suspended the switch is only remembered             *)
LEMMA DeferIs ==
  ASSUME NEW s \in SchedStates, s.suspended > 0
  PROVE  LET r == vTaskSwitchContext(s)
         IN  /\ r \in SchedStates /\ SameLists(s, r) /\ SameClock(s, r)
             /\ SameFlags(s, r) /\ r.next = s.next /\ r.yield = TRUE
<1>1. vTaskSwitchContext(s) = [s EXCEPT !.yield = TRUE]
  BY DEF vTaskSwitchContext
<1> DEFINE r == [s EXCEPT !.yield = TRUE]
<1>2. /\ r \in SchedStates /\ r.yield = TRUE
      /\ r.ready = s.ready /\ r.events = s.events /\ r.delayed = s.delayed
      /\ r.overflow = s.overflow /\ r.blocked = s.blocked /\ r.pending = s.pending
      /\ SameClock(s, r) /\ SameFlags(s, r) /\ r.next = s.next
  BY YieldFields
<1> HIDE DEF r
<1>3. SameLists(s, r)
  BY <1>2 DEF SameLists, SameFlags
<1> QED BY <1>1, <1>2, <1>3 DEF r

-----------------------------------------------------------------------
(* xTaskResumeAll                                                             *)

LEMMA FreeFields ==
  ASSUME NEW s \in SchedStates
  PROVE  LET r == [s EXCEPT !.suspended = 0]
         IN  /\ r \in SchedStates /\ SameLists(s, r) /\ SameClock(s, r)
             /\ r.next = s.next /\ r.yield = s.yield /\ r.suspended = 0
             /\ r.cur = s.cur /\ r.need = s.need /\ r.isr = s.isr
<1>1. 0 \in 0 .. 1
  OBVIOUS
<1> QED BY <1>1 DEF SchedStates, SameLists, SameClock

LEMMA EarlyFields ==
  ASSUME NEW s \in SchedStates, NEW n \in 0 .. TickMax
  PROVE  LET r == [s EXCEPT !.next = n, !.pended = 0]
         IN  /\ r \in SchedStates /\ r.next = n /\ r.yield = s.yield
             /\ SameLists(s, r) /\ SameFlags(s, r)
             /\ r.tick = s.tick /\ r.overflows = s.overflows
BY DEF SchedStates, SameFlags, SameLists

LEMMA SameListsTime ==
  ASSUME NEW s, NEW r, SameLists(s, r), r.tick = s.tick, r.overflows = s.overflows
  PROVE  /\ Dated(s) => Dated(r)
         /\ Timely(s) => Timely(r)
         /\ Expected(s) /\ r.next = s.next => Expected(r)
         /\ Now(r) = Now(s)
BY DEF SameLists, Dated, Timely, Expected, Now

LEMMA ResumedIs ==
  ASSUME NEW s, Lists(s), OnTime(s), s.suspended = 1
  PROVE  LET z == [s EXCEPT !.suspended = 0]
             r == Resumed(s)
         IN  /\ Lists(r) /\ OnTime(r) /\ r.pending = <<>> /\ Now(r) >= Now(s)
             /\ Woke(z, r)
<1> DEFINE z == [s EXCEPT !.suspended = 0]
           moved == PendingMoved(z)
           n == IF s.pending = <<>> THEN moved.next ELSE NextUnblockTime(moved.delayed)
           early == [moved EXCEPT !.next = n, !.pended = 0]
           r == TicksCounted(early, s.pended)
<1>1. s \in SchedStates
  BY DEF Lists, Formed
<1>2. Resumed(s) = r
  BY DEF Resumed
<1>3. /\ z \in SchedStates /\ SameLists(s, z) /\ SameClock(s, z)
      /\ z.next = s.next /\ z.suspended = 0
  BY <1>1, FreeFields
<1> HIDE DEF z
<1>4. Lists(z) /\ OnTime(z) /\ Now(z) = Now(s)
  BY <1>3, SameListsAre, SameListsTime DEF SameClock, OnTime
<1>5. moved \in Moving(z) /\ moved.pending = <<>>
  BY <1>4, PendingMovedIs
<1> HIDE DEF moved
<1>6. /\ moved \in SchedStates /\ Lists(moved) /\ Woke(z, moved) /\ SameTime(z, moved)
      /\ moved.next = z.next /\ Ordered(moved.delayed)
  BY <1>5 DEF Moving, Lists, Formed
<1>7. Dated(moved) /\ Timely(moved) /\ Expected(moved) /\ Now(moved) = Now(s)
  BY <1>4, <1>6, SameTimeDated DEF OnTime
<1>8. n \in 0 .. TickMax /\ \A d \in Range(moved.delayed) : n <= d.wake
  BY <1>6, <1>7, StateType, FirstWakes DEF Expected
<1> HIDE DEF n
<1>9. /\ early \in SchedStates /\ early.next = n /\ early.yield = moved.yield
      /\ SameLists(moved, early) /\ SameFlags(moved, early)
      /\ early.tick = moved.tick /\ early.overflows = moved.overflows
  BY <1>6, <1>8, EarlyFields
<1> HIDE DEF early
<1>10. Lists(early) /\ \A t \in Task : IsReady(early, t) <=> IsReady(moved, t)
  BY <1>6, <1>9, SameListsAre
<1>11. OnTime(early) /\ Now(early) = Now(s)
  <2>1. Expected(early)
    BY <1>8, <1>9 DEF Expected, SameLists
  <2> QED BY <1>7, <1>9, <2>1, SameListsTime DEF OnTime
<1>12. Woke(moved, early)
  BY <1>9, <1>10 DEF Woke, SameLists
<1>13. early.pending = <<>> /\ s.pended \in Nat
  BY <1>1, <1>5, <1>9, StateType DEF SameLists
<1>14. r \in Counting(early)
  BY <1>10, <1>11, <1>13, TicksCountedIs
<1> HIDE DEF r
<1>15. Woke(z, r)
  BY <1>6, <1>12, <1>14, WokeTrans DEF Counting
<1>16. Lists(r) /\ OnTime(r) /\ r.pending = <<>> /\ Now(r) >= Now(s)
  BY <1>11, <1>13, <1>14 DEF Counting
<1> QED BY <1>2, <1>15, <1>16 DEF z

(* a task that is not outranked is not outranked by a task that is woken      *)
(* without a trace                                                            *)
LEMMA WokeHigher ==
  ASSUME NEW s, NEW r, Woke(s, r), Higher(r)
  PROVE  Higher(s) \/ r.yield
<1>1. PICK t \in Task : IsReady(r, t) /\ r.prio[t] > r.prio[r.cur]
  BY DEF Higher
<1>2. s.prio[t] > s.prio[s.cur]
  BY <1>1 DEF Woke, SameFlags
<1> QED BY <1>1, <1>2 DEF Woke, Higher

LEMMA ResumeAllIs ==
  ASSUME NEW s, Lists(s), OnTime(s), s.suspended = 1, ~ Higher(s),
         NEW u \in Task, IsReady(s, u)
  PROVE  LET r == xTaskResumeAll(s)
         IN  /\ Lists(r) /\ OnTime(r) /\ Goes(s, r) /\ ~ Higher(r) /\ Now(r) >= Now(s)
             /\ r.suspended = 0 /\ r.pending = <<>> /\ r.isr = s.isr /\ r.need = s.need
             /\ r.cur = s.cur \/ IsReady(r, r.cur)
             /\ Resumed(s).yield => IsReady(r, r.cur)
<1> DEFINE z == [s EXCEPT !.suspended = 0]
           m == Resumed(s)
           r == xTaskResumeAll(s)
<1>1. s \in SchedStates
  BY DEF Lists, Formed
<1>2. /\ z \in SchedStates /\ SameLists(s, z) /\ z.suspended = 0
      /\ z.cur = s.cur /\ z.need = s.need /\ z.isr = s.isr
  BY <1>1, FreeFields
<1>3. Lists(m) /\ OnTime(m) /\ m.pending = <<>> /\ Now(m) >= Now(s) /\ Woke(z, m)
  BY ResumedIs
<1>4. r = IF m.yield THEN vTaskSwitchContext(m) ELSE m
  BY DEF xTaskResumeAll
<1> HIDE DEF z, m, r
<1>5. \A t \in Task : IsReady(z, t) <=> IsReady(s, t)
  BY <1>2, SameListsAre
<1>6. Goes(s, z) /\ ~ Higher(z)
  BY <1>2, <1>5 DEF Goes, SameLists, Higher
<1>7. Goes(s, m)
  BY <1>3, <1>6, WokeGoes, GoesTrans
<1>8. m.suspended = 0 /\ m.cur = s.cur /\ m.need = s.need /\ m.isr = s.isr
  BY <1>2, <1>3 DEF Woke, SameFlags
<1>9. IsReady(m, u)
  BY <1>7 DEF Goes
<1>10. CASE m.yield
  <2>1. r = vTaskSwitchContext(m)
    BY <1>4, <1>10
  <2>2. Switched(m, r)
    BY <1>3, <1>8, <1>9, <2>1, SwitchIs
  <2>3. Goes(s, r)
    BY <1>7, <2>2, GoesTrans DEF Switched
  <2>4. OnTime(r) /\ Now(r) = Now(m)
    BY <1>3, <2>2, SameTimeDated DEF Switched, OnTime
  <2> QED BY <1>3, <1>8, <2>2, <2>3, <2>4 DEF Switched, r, m
<1>11. CASE ~ m.yield
  <2>1. r = m
    BY <1>4, <1>11
  <2>2. ~ Higher(m)
    BY <1>3, <1>6, <1>11, WokeHigher
  <2> QED BY <1>3, <1>7, <1>8, <1>11, <2>1, <2>2 DEF r, m
<1> QED BY <1>10, <1>11

----------------------------------------------------------------------------
(* Waking the first task of an event list                                     *)

LEMMA AppendIs ==
  ASSUME NEW S, NEW q \in Seq(S), NEW x \in S
  PROVE  /\ Append(q, x) \in Seq(S) /\ Range(Append(q, x)) = Range(q) \cup {x}
         /\ IsInjective(q) /\ x \notin Range(q) => IsInjective(Append(q, x))
<1> DEFINE r == Append(q, x)
<1>1. /\ r \in Seq(S) /\ Len(r) = Len(q) + 1
      /\ \A i \in 1 .. Len(q) : r[i] = q[i]
      /\ r[Len(q) + 1] = x
  BY AppendProperties
<1> HIDE DEF r
<1>2. DOMAIN r = 1 .. Len(q) + 1 /\ DOMAIN q = 1 .. Len(q) /\ Len(q) \in Nat
  BY <1>1
<1>3. \A i \in 1 .. Len(q) + 1 : i = Len(q) + 1 \/ i \in 1 .. Len(q)
  BY <1>2
<1>4. \A i \in 1 .. Len(q) : i \in 1 .. Len(q) + 1
  BY <1>2
<1>5. Len(q) + 1 \in 1 .. Len(q) + 1
  BY <1>2
<1>6. Range(r) = Range(q) \cup {x}
  <2>1. ASSUME NEW y \in Range(r) PROVE y \in Range(q) \cup {x}
    BY <1>1, <1>2, <1>3, <2>1 DEF Range
  <2>2. ASSUME NEW y \in Range(q) PROVE y \in Range(r)
    BY <1>1, <1>2, <1>4 DEF Range
  <2>3. x \in Range(r)
    BY <1>1, <1>2, <1>5 DEF Range
  <2> QED BY <2>1, <2>2, <2>3
<1>7. ASSUME IsInjective(q), x \notin Range(q) PROVE IsInjective(r)
  <2> SUFFICES ASSUME NEW i \in 1 .. Len(q) + 1, NEW j \in 1 .. Len(q) + 1, r[i] = r[j]
               PROVE  i = j
    BY <1>2 DEF IsInjective
  <2>1. \A k \in 1 .. Len(q) : r[k] # x
    BY <1>1, <1>2, <1>7 DEF Range
  <2>2. CASE i \in 1 .. Len(q) /\ j \in 1 .. Len(q)
    <3>1. q[i] = q[j]
      BY <1>1, <2>2
    <3> QED BY <1>2, <1>7, <2>2, <3>1 DEF IsInjective
  <2> QED BY <1>1, <1>3, <2>1, <2>2
<1> QED BY <1>1, <1>6, <1>7 DEF r

Taken(s, l) == [s EXCEPT !.events[l] = Tail(@), !.yield = @ \/ Outranks(s, l)]

TakenFrom(s, r, l) ==
  /\ r.events = [s.events EXCEPT ![l] = Tail(s.events[l])]
  /\ r.yield = (s.yield \/ Outranks(s, l))
  /\ r.ready = s.ready /\ r.delayed = s.delayed
  /\ r.overflow = s.overflow /\ r.blocked = s.blocked /\ r.pending = s.pending
  /\ SameClock(s, r) /\ SameFlags(s, r) /\ r.next = s.next

LEMMA TakenFields ==
  ASSUME NEW s \in SchedStates, NEW l \in EventList
  PROVE  TakenFrom(s, Taken(s, l), l)
BY DEF SchedStates, Taken, TakenFrom, SameClock, SameFlags

LEMMA TakenType ==
  ASSUME NEW s \in SchedStates, NEW l \in EventList, Tail(s.events[l]) \in Seq(Task),
         Outranks(s, l) \in BOOLEAN
  PROVE  Taken(s, l) \in SchedStates
BY DEF SchedStates, Taken

LEMMA TakenIs ==
  ASSUME NEW s, Lists(s), NEW l \in EventList, s.events[l] # <<>>
  PROVE  LET t == Head(s.events[l])
             r == Taken(s, l)
         IN  /\ t \in Task /\ Formed(r) /\ TakenFrom(s, r, l) /\ OthersSame(s, r, t)
             /\ \A m \in EventList : t \notin Range(r.events[m])
             /\ \A m \in EventList : Range(r.events[m]) \subseteq Range(s.events[m])
             /\ \A m \in EventList : Pairs(r.events[m]) \subseteq Pairs(s.events[m])
             /\ t \in Range(s.events[l]) /\ ~ IsReady(s, t) /\ ~ Held(s, t)
<1> DEFINE q == s.events[l]
           t == Head(q)
           r == Taken(s, l)
<1>1. s \in SchedStates /\ Formed(s)
  BY DEF Lists, Formed
<1>2. q \in Seq(Task) /\ IsInjective(q)
  BY <1>1, StateType DEF Formed
<1>3. /\ Tail(q) \in Seq(Task) /\ t \in Task
      /\ Range(Tail(q)) \subseteq Range(q) /\ t \in Range(q)
      /\ \A x \in Range(q) : x = t \/ x \in Range(Tail(q))
      /\ IsInjective(Tail(q)) /\ t \notin Range(Tail(q))
  BY <1>2, TailIs
<1>4. Outranks(s, l) \in BOOLEAN
  BY DEF Outranks
<1>5. r \in SchedStates
  BY <1>1, <1>3, <1>4, TakenType
<1>6. TakenFrom(s, r, l)
  BY <1>1, TakenFields
<1> HIDE DEF t, r
<1>7. /\ r.events[l] = Tail(q)
      /\ \A m \in EventList : m # l => r.events[m] = s.events[m]
  BY <1>1, <1>6 DEF TakenFrom, SchedStates
<1>8. Waiting(s, t)
  BY <1>3 DEF Waiting
<1>9. /\ ~ IsReady(s, t) /\ ~ Held(s, t)
      /\ \A m \in EventList : t \in Range(s.events[m]) => m = l
  BY <1>3, <1>8 DEF Lists, Placed
<1>10. \A m \in EventList : t \notin Range(r.events[m])
  BY <1>3, <1>7, <1>9
<1>11. /\ \A m \in EventList : Range(r.events[m]) \subseteq Range(s.events[m])
       /\ \A m \in EventList : Pairs(r.events[m]) \subseteq Pairs(s.events[m])
  BY <1>2, <1>3, <1>7, TailPairs
<1>12. Formed(r)
  <2>1. \A m \in EventList : IsInjective(r.events[m])
    BY <1>1, <1>3, <1>7 DEF Formed
  <2> QED BY <1>1, <1>5, <1>6, <2>1 DEF Formed, TakenFrom
<1>13. OthersSame(s, r, t)
  <2> SUFFICES ASSUME NEW u \in Task, u # t PROVE SameTask(s, r, u)
    BY DEF OthersSame
  <2>1. \A m \in EventList : u \in Range(r.events[m]) <=> u \in Range(s.events[m])
    BY <1>3, <1>7
  <2>2. r.prio = s.prio
    BY <1>6 DEF TakenFrom, SameFlags
  <2> QED BY <1>6, <2>1, <2>2 DEF SameTask, TakenFrom
<1> QED BY <1>3, <1>6, <1>9, <1>10, <1>11, <1>12, <1>13 DEF t, r

(* one task fewer waits on list l, and all others are where they were         *)
Freed(s, r, l) ==
  /\ Lists(r) /\ Woke(s, r) /\ SameTime(s, r) /\ r.next = s.next
  /\ r.events = [s.events EXCEPT ![l] = Tail(s.events[l])]
  /\ r.yield = (s.yield \/ Outranks(s, l))

LEMMA OutranksIs ==
  ASSUME NEW s \in SchedStates, NEW l \in EventList, NEW t, t = Head(s.events[l])
  PROVE  s.prio[t] > s.prio[s.cur] <=> Outranks(s, l)
BY DEF Outranks

LEMMA FreedIs ==
  ASSUME NEW s, Lists(s), s.suspended = 0, NEW l \in EventList, s.events[l] # <<>>
  PROVE  LET r == xTaskRemoveFromEventList(s, l)
         IN  /\ Freed(s, r, l) /\ r.pending = s.pending
             /\ IsReady(r, Head(s.events[l]))
             /\ \A u \in Task : u # Head(s.events[l]) => (IsReady(r, u) <=> IsReady(s, u))
<1> DEFINE t == Head(s.events[l])
           b == Taken(s, l)
           a == StateRemoved(b, t)
           r == prvAddTaskToReadyList(a, t)
<1>1. s \in SchedStates
  BY DEF Lists, Formed
<1>2. xTaskRemoveFromEventList(s, l) = r
  BY DEF xTaskRemoveFromEventList, Taken
<1>3. /\ t \in Task /\ Formed(b) /\ TakenFrom(s, b, l) /\ OthersSame(s, b, t)
      /\ \A m \in EventList : t \notin Range(b.events[m])
      /\ \A m \in EventList : Range(b.events[m]) \subseteq Range(s.events[m])
      /\ \A m \in EventList : Pairs(b.events[m]) \subseteq Pairs(s.events[m])
      /\ t \in Range(s.events[l]) /\ ~ IsReady(s, t) /\ ~ Held(s, t)
  BY TakenIs
<1>30. s.prio[t] > s.prio[s.cur] <=> Outranks(s, l)
  BY <1>1, OutranksIs
<1> HIDE DEF b, t
<1>4. /\ Formed(a) /\ OthersSame(b, a, t)
      /\ SameClock(b, a) /\ SameFlags(b, a) /\ a.next = b.next /\ a.yield = b.yield
      /\ a.events = b.events /\ a.pending = b.pending
      /\ \A p \in Priority : t \notin Range(a.ready[p])
      /\ t \notin Asleep(a.delayed) /\ t \notin Asleep(a.overflow) /\ t \notin a.blocked
      /\ Range(a.delayed) \subseteq Range(b.delayed)
      /\ Range(a.overflow) \subseteq Range(b.overflow)
  BY <1>3, StateRemovedIs
<1> HIDE DEF a
<1>5. a \in SchedStates /\ a.prio[t] \in Priority
  BY <1>3, <1>4, StateType DEF Formed
<1>6. ~ IsReady(a, t)
  BY <1>4, <1>5 DEF IsReady
<1>7. /\ Formed(r) /\ OthersSame(a, r, t)
      /\ SameClock(a, r) /\ SameFlags(a, r) /\ r.next = a.next /\ r.yield = a.yield
      /\ r.events = a.events /\ r.delayed = a.delayed /\ r.overflow = a.overflow
      /\ r.blocked = a.blocked /\ r.pending = a.pending
      /\ IsReady(r, t)
      /\ \A p \in Priority : p # a.prio[t] => r.ready[p] = a.ready[p]
  BY <1>3, <1>4, <1>6, AddedIs
<1> HIDE DEF r
<1>8. OthersSame(s, r, t)
  BY <1>3, <1>4, <1>7, OthersTrans
<1>9. SameFlags(s, r)
  BY <1>3, <1>4, <1>7 DEF SameFlags, TakenFrom
<1>10. ~ Dormant(r, t)
  BY <1>4, <1>7 DEF Dormant
<1>11. ~ Waiting(r, t)
  BY <1>3, <1>4, <1>7 DEF Waiting
<1>12. r.pending = s.pending
  BY <1>3, <1>4, <1>7 DEF TakenFrom
<1>13. ~ Held(r, t)
  BY <1>3, <1>12 DEF Held
<1>14. \A p \in Priority : p # r.prio[t] => t \notin Range(r.ready[p])
  BY <1>4, <1>7 DEF SameFlags
<1>15. Placed(r, t)
  BY <1>3, <1>7, <1>10, <1>11, <1>13, <1>14, ReadyPlaced
<1>16. Lists(r)
  <2>1. \A u \in Task : u # t => Placed(r, u)
    BY <1>1, <1>8, SamePlaced DEF OthersSame, Lists
  <2> QED BY <1>7, <1>15, <2>1 DEF Lists
<1>17. SameTime(s, r)
  BY <1>3, <1>4, <1>7 DEF SameTime, SameClock, TakenFrom
<1>18. r.events = [s.events EXCEPT ![l] = Tail(s.events[l])]
  BY <1>3, <1>4, <1>7 DEF TakenFrom
<1>19. r.yield = (s.yield \/ Outranks(s, l))
  <2>1. r.yield = b.yield
    BY <1>4, <1>7
  <2> QED BY <1>3, <2>1 DEF TakenFrom
<1>23. \A u \in Task : u # t => (IsReady(r, u) <=> IsReady(s, u))
  BY <1>1, <1>8, SameReady DEF OthersSame
<1>20. Woke(s, r)
  <2>2. \A u \in Task : IsReady(s, u) => IsReady(r, u)
    BY <1>7, <1>23
  <2>3. /\ \A m \in EventList : Range(r.events[m]) \subseteq Range(s.events[m])
        /\ \A m \in EventList : Pairs(r.events[m]) \subseteq Pairs(s.events[m])
    BY <1>3, <1>4, <1>7
  <2>4. s.yield => r.yield
    BY <1>19, Zenon
  <2>5. s.prio[t] > s.prio[s.cur] => r.yield
    BY <1>19, <1>30, Zenon
  <2>6. \A u \in Task : IsReady(r, u) /\ s.prio[u] > s.prio[s.cur] => IsReady(s, u) \/ r.yield
    BY <1>23, <2>5
  <2> QED BY <1>9, <2>2, <2>3, <2>4, <2>6 DEF Woke
<1>21. r.next = s.next
  BY <1>3, <1>4, <1>7 DEF TakenFrom
<1>22. Freed(s, r, l)
  BY <1>16, <1>17, <1>18, <1>19, <1>20, <1>21 DEF Freed
<1> QED BY <1>2, <1>7, <1>12, <1>22, <1>23 DEF t

(* while the scheduler is suspended the task is kept for xTaskResumeAll       *)
LEMMA KeptIs ==
  ASSUME NEW s, Lists(s), s.suspended = 1, NEW l \in EventList, s.events[l] # <<>>
  PROVE  LET r == xTaskRemoveFromEventList(s, l)
         IN  /\ Freed(s, r, l) /\ r.pending = Append(s.pending, Head(s.events[l]))
             /\ \A u \in Task : IsReady(r, u) <=> IsReady(s, u)
<1> DEFINE t == Head(s.events[l])
           b == Taken(s, l)
           q == Append(b.pending, t)
           r == [b EXCEPT !.pending = q]
<1>1. s \in SchedStates /\ Formed(s) /\ \A u \in Task : Placed(s, u)
  BY DEF Lists, Formed
<1>2. xTaskRemoveFromEventList(s, l) = r
  BY DEF xTaskRemoveFromEventList, Taken
<1>3. /\ t \in Task /\ Formed(b) /\ TakenFrom(s, b, l) /\ OthersSame(s, b, t)
      /\ \A m \in EventList : t \notin Range(b.events[m])
      /\ \A m \in EventList : Range(b.events[m]) \subseteq Range(s.events[m])
      /\ \A m \in EventList : Pairs(b.events[m]) \subseteq Pairs(s.events[m])
      /\ t \in Range(s.events[l]) /\ ~ IsReady(s, t) /\ ~ Held(s, t)
  BY TakenIs
<1> HIDE DEF b, t
<1>4. /\ b \in SchedStates /\ b.pending = s.pending /\ b.pending \in Seq(Task)
      /\ IsInjective(b.pending) /\ t \notin Range(b.pending)
  BY <1>3, StateType DEF TakenFrom, Formed, Held
<1>5. q \in Seq(Task) /\ Range(q) = Range(b.pending) \cup {t} /\ IsInjective(q)
  BY <1>3, <1>4, AppendIs
<1> HIDE DEF q
<1>6. /\ r \in SchedStates /\ r.pending = q
      /\ r.ready = b.ready /\ r.events = b.events /\ r.delayed = b.delayed
      /\ r.overflow = b.overflow /\ r.blocked = b.blocked /\ r.yield = b.yield
      /\ SameClock(b, r) /\ SameFlags(b, r) /\ r.next = b.next
  BY <1>4, <1>5, PendingFields
<1> HIDE DEF r
<1>7. Formed(r)
  BY <1>3, <1>5, <1>6 DEF Formed
<1>8. OthersSame(b, r, t)
  <2> SUFFICES ASSUME NEW u \in Task, u # t PROVE SameTask(b, r, u)
    BY DEF OthersSame
  <2>1. u \in Range(q) <=> u \in Range(b.pending)
    BY <1>5
  <2>2. r.prio = b.prio
    BY <1>6 DEF SameFlags
  <2> QED BY <1>6, <2>1, <2>2 DEF SameTask
<1>9. OthersSame(s, r, t)
  BY <1>3, <1>8, OthersTrans
<1>10. SameFlags(s, r) /\ r.ready = s.ready /\ r.delayed = s.delayed
       /\ r.overflow = s.overflow /\ r.blocked = s.blocked
  BY <1>3, <1>6 DEF SameFlags, TakenFrom
<1>11. \A u \in Task : IsReady(r, u) <=> IsReady(s, u)
  BY <1>10 DEF IsReady, SameFlags
<1>12. Placed(r, t)
  <2>1. Held(r, t) /\ ~ Waiting(r, t) /\ ~ IsReady(r, t)
    BY <1>3, <1>5, <1>6, <1>11 DEF Held, Waiting
  <2>2. Dormant(r, t) <=> Dormant(s, t)
    BY <1>10 DEF Dormant
  <2>3. Placed(s, t)
    BY <1>1, <1>3
  <2>4. r.prio = s.prio
    BY <1>10 DEF SameFlags
  <2>5. \A m \in EventList : t \notin Range(r.events[m])
    BY <1>3, <1>6
  <2> QED BY <1>3, <1>10, <1>11, <2>1, <2>2, <2>3, <2>4, <2>5 DEF Placed
<1>13. Lists(r)
  <2>1. \A u \in Task : u # t => Placed(r, u)
    BY <1>1, <1>9, SamePlaced DEF OthersSame
  <2> QED BY <1>7, <1>12, <2>1 DEF Lists
<1>14. SameTime(s, r) /\ r.next = s.next
  BY <1>3, <1>6, <1>10 DEF SameTime, SameClock, TakenFrom
<1>15. r.events = [s.events EXCEPT ![l] = Tail(s.events[l])]
  BY <1>3, <1>6 DEF TakenFrom
<1>16. r.yield = (s.yield \/ Outranks(s, l))
  <2>1. r.yield = b.yield
    BY <1>6
  <2> QED BY <1>3, <2>1 DEF TakenFrom
<1>17. Woke(s, r)
  <2>1. s.yield => r.yield
    BY <1>16, Zenon
  <2>2. /\ \A m \in EventList : Range(r.events[m]) \subseteq Range(s.events[m])
        /\ \A m \in EventList : Pairs(r.events[m]) \subseteq Pairs(s.events[m])
    BY <1>3, <1>6
  <2> QED BY <1>10, <1>11, <2>1, <2>2 DEF Woke
<1>18. Freed(s, r, l)
  BY <1>13, <1>14, <1>15, <1>16, <1>17 DEF Freed
<1> QED BY <1>2, <1>4, <1>6, <1>11, <1>18 DEF q, t

----------------------------------------------------------------------------
(* The task that runs is the right one, or a flag says that it is not         *)
Chosen(s) ==
  /\ s.isr = "none" \/ s.suspended > 0 => ~ Higher(s)
  /\ s.isr = "running" /\ Higher(s) => s.yield /\ s.need
  /\ s.isr = "ticked" /\ Higher(s) => s.need

Settled(s) == Lists(s) /\ OnTime(s) /\ Chosen(s)

(* an operation that puts no task to sleep                                    *)
Advances(s, r) ==
  /\ Goes(s, r) /\ Now(r) >= Now(s)
  /\ r.suspended = s.suspended /\ r.pending = s.pending
  /\ r.cur # s.cur => s.suspended = 0 /\ IsReady(r, r.cur)

LEMMA AdvancesTrans ==
  ASSUME NEW s \in SchedStates, NEW r \in SchedStates, NEW u \in SchedStates,
         Advances(s, r), Advances(r, u)
  PROVE  Advances(s, u)
<1>1. Goes(s, u)
  BY GoesTrans DEF Advances
<1>2. Now(u) >= Now(s)
  <2>1. Now(s) \in Nat /\ Now(r) \in Nat /\ Now(u) \in Nat
    BY NowType
  <2> QED BY <2>1 DEF Advances
<1>3. u.cur # s.cur => s.suspended = 0 /\ IsReady(u, u.cur)
  <2>1. CASE u.cur = r.cur
    <3>1. IsReady(r, r.cur) => IsReady(u, u.cur)
      <4>1. r.cur \in Task
        BY StateType
      <4> QED BY <2>1, <4>1 DEF Advances, Goes
    <3> QED BY <2>1, <3>1 DEF Advances
  <2>2. CASE u.cur # r.cur
    BY <2>2 DEF Advances
  <2> QED BY <2>1, <2>2
<1> QED BY <1>1, <1>2, <1>3 DEF Advances

LEMMA SettledState == ASSUME NEW s, Lists(s) PROVE s \in SchedStates
BY DEF Lists, Formed

LEMMA SwitchSettles ==
  ASSUME NEW s, Lists(s), OnTime(s), s.suspended = 0, NEW u \in Task, IsReady(s, u)
  PROVE  LET r == vTaskSwitchContext(s)
         IN  /\ Settled(r) /\ Advances(s, r) /\ r.isr = s.isr /\ r.need = s.need
             /\ r.events = s.events /\ IsReady(r, r.cur) /\ Now(r) = Now(s)
<1> DEFINE r == vTaskSwitchContext(s)
<1>1. Switched(s, r)
  BY SwitchIs
<1> HIDE DEF r
<1>2. OnTime(r) /\ Now(r) = Now(s)
  BY <1>1, SameTimeDated DEF Switched, OnTime
<1>3. Chosen(r)
  BY <1>1 DEF Switched, Chosen
<1>4. Now(s) \in Nat
  BY SettledState, NowType
<1>5. Now(r) >= Now(s)
  BY <1>2, <1>4
<1> QED BY <1>1, <1>2, <1>3, <1>5 DEF Switched, Settled, Advances, r

LEMMA WakeFirstIs ==
  ASSUME NEW s, Settled(s), s.suspended = 0, s.isr = "none",
         NEW l \in EventList, NEW u \in Task, IsReady(s, u)
  PROVE  LET r == WakeFirst(s, l)
         IN  /\ Settled(r) /\ Advances(s, r) /\ r.isr = s.isr /\ Now(r) = Now(s)
             /\ s.events[l] = <<>> => r = s
             /\ s.events[l] # <<>> => r.events = [s.events EXCEPT ![l] = Tail(s.events[l])]
<1> DEFINE m == xTaskRemoveFromEventList(s, l)
           r == WakeFirst(s, l)
<1>1. s \in SchedStates /\ Lists(s) /\ OnTime(s) /\ ~ Higher(s) /\ Now(s) \in Nat
  BY SettledState, NowType DEF Settled, Chosen
<1>2. CASE s.events[l] = <<>>
  <2>1. r = s
    BY <1>2 DEF WakeFirst
  <2>2. Advances(s, s)
    BY <1>1 DEF Advances, Goes
  <2> QED BY <1>2, <2>1, <2>2
<1>3. CASE s.events[l] # <<>>
  <2>1. r = IF Outranks(s, l) THEN vTaskSwitchContext(m) ELSE m
    BY <1>3 DEF WakeFirst
  <2>2. /\ Freed(s, m, l) /\ m.pending = s.pending
        /\ \A v \in Task : v # Head(s.events[l]) => (IsReady(m, v) <=> IsReady(s, v))
    BY <1>1, <1>3, FreedIs
  <2> HIDE DEF m, r
  <2>3. /\ Lists(m) /\ Woke(s, m) /\ SameTime(s, m) /\ m.next = s.next
        /\ m.events = [s.events EXCEPT ![l] = Tail(s.events[l])]
    BY <2>2 DEF Freed
  <2>4. OnTime(m) /\ Now(m) = Now(s) /\ Goes(s, m)
    BY <1>1, <2>3, SameTimeDated, WokeGoes DEF OnTime
  <2>5. m.suspended = 0 /\ m.isr = "none" /\ m.cur = s.cur /\ m \in SchedStates
    BY <2>3, SettledState DEF Woke, SameFlags
  <2>6. Advances(s, m)
    <3>1. Now(m) >= Now(s)
      BY <1>1, <2>4
    <3> QED BY <2>2, <2>4, <2>5, <3>1 DEF Advances
  <2>7. CASE Outranks(s, l)
    <3>1. r = vTaskSwitchContext(m)
      BY <2>1, <2>7
    <3>2. IsReady(m, u)
      BY <2>4 DEF Goes
    <3>3. /\ Settled(r) /\ Advances(m, r) /\ r.isr = m.isr
          /\ r.events = m.events /\ Now(r) = Now(m)
      BY <2>3, <2>4, <2>5, <3>1, <3>2, SwitchSettles
    <3>4. Advances(s, r)
      <4>1. r \in SchedStates
        BY <3>3, SettledState DEF Settled
      <4> QED BY <1>1, <2>5, <2>6, <3>3, <4>1, AdvancesTrans
    <3>5. r.events = [s.events EXCEPT ![l] = Tail(s.events[l])]
      BY <2>3, <3>3
    <3> QED BY <1>3, <2>4, <2>5, <3>3, <3>4, <3>5 DEF r
  <2>8. CASE ~ Outranks(s, l)
    <3>1. r = m
      BY <2>1, <2>8
    <3>2. ~ Higher(m)
      <4> SUFFICES ASSUME NEW v \in Task, IsReady(m, v), m.prio[v] > m.prio[m.cur]
                   PROVE  FALSE
        BY DEF Higher
      <4>1. s.prio[v] > s.prio[s.cur]
        BY <2>3 DEF Woke, SameFlags
      <4>2. ~ IsReady(s, v)
        BY <1>1, <4>1 DEF Higher
      <4>3. v = Head(s.events[l])
        BY <2>2, <4>2
      <4> QED BY <1>1, <2>8, <4>1, <4>3, OutranksIs
    <3>3. Chosen(m)
      BY <2>5, <3>2 DEF Chosen
    <3> QED BY <1>3, <2>3, <2>4, <2>5, <2>6, <3>1, <3>3 DEF Settled, r
  <2> QED BY <2>7, <2>8
<1> QED BY <1>2, <1>3


-----------------------------------------------------------------------
(* Interrupts                                                                 *)

FlagsOnly(s, r) ==
  /\ r \in SchedStates /\ SameLists(s, r) /\ SameClock(s, r) /\ r.next = s.next
  /\ r.cur = s.cur /\ r.suspended = s.suspended

LEMMA NeedFields ==
  ASSUME NEW s \in SchedStates, NEW b \in BOOLEAN
  PROVE  LET r == [s EXCEPT !.need = b]
         IN  FlagsOnly(s, r) /\ r.need = b /\ r.yield = s.yield /\ r.isr = s.isr
BY DEF SchedStates, SameLists, SameClock, FlagsOnly

LEMMA IsrFields ==
  ASSUME NEW s \in SchedStates, NEW i \in {"none", "running", "ticked"}
  PROVE  LET r == [s EXCEPT !.isr = i]
         IN  FlagsOnly(s, r) /\ r.need = s.need /\ r.yield = s.yield /\ r.isr = i
BY DEF SchedStates, SameLists, SameClock, FlagsOnly

LEMMA HeldBackFields ==
  ASSUME NEW s \in SchedStates
  PROVE  LET r == [s EXCEPT !.pended = @ + 1, !.need = FALSE]
         IN  /\ r \in SchedStates /\ SameLists(s, r) /\ r.tick = s.tick
             /\ r.overflows = s.overflows /\ r.next = s.next
             /\ r.cur = s.cur /\ r.suspended = s.suspended
             /\ r.need = FALSE /\ r.yield = s.yield /\ r.isr = s.isr
<1>1. s.pended + 1 \in Nat
  BY StateType
<1> QED BY <1>1 DEF SchedStates, SameLists

LEMMA TickFields ==
  ASSUME NEW r \in SchedStates, NEW b \in BOOLEAN, NEW y \in BOOLEAN
  PROVE  LET x == [r EXCEPT !.need = b, !.yield = y]
         IN  FlagsOnly(r, x) /\ x.need = b /\ x.yield = y /\ x.isr = r.isr
BY DEF SchedStates, SameLists, SameClock, FlagsOnly

(* the flags and the clock are no part of the lists                           *)
LEMMA FlagsAdvance ==
  ASSUME NEW s, NEW r, Lists(s), OnTime(s), r \in SchedStates, SameLists(s, r),
         r.tick = s.tick, r.overflows = s.overflows, r.next = s.next,
         r.cur = s.cur, r.suspended = s.suspended
  PROVE  /\ Lists(r) /\ OnTime(r) /\ Advances(s, r) /\ Now(r) = Now(s)
         /\ Higher(r) => Higher(s)
<1>1. Lists(r) /\ \A t \in Task : IsReady(r, t) <=> IsReady(s, t)
  BY SameListsAre
<1>2. OnTime(r) /\ Now(r) = Now(s)
  BY SameListsTime DEF OnTime
<1>3. Now(s) \in Nat
  BY SettledState, NowType
<1>4. Now(r) >= Now(s)
  BY <1>2, <1>3
<1>5. r.prio = s.prio /\ r.events = s.events /\ r.pending = s.pending
  BY DEF SameLists
<1>6. Goes(s, r)
  BY <1>1, <1>5 DEF Goes
<1>7. Advances(s, r)
  BY <1>4, <1>5, <1>6 DEF Advances
<1>8. Higher(r) => Higher(s)
  BY <1>1, <1>5 DEF Higher
<1> QED BY <1>1, <1>2, <1>7, <1>8

(* After LeaveIntr no flag is needed any more                                 *)
LEMMA LeaveIntrIs ==
  ASSUME NEW s, Lists(s), OnTime(s), s.isr = "none", NEW u \in Task, IsReady(s, u),
         Higher(s) => s.need /\ s.suspended = 0
  PROVE  LET r == LeaveIntr(s)
         IN  Settled(r) /\ Advances(s, r) /\ r.isr = "none"
<1> DEFINE c == [s EXCEPT !.need = FALSE]
           r == LeaveIntr(s)
<1>1. s \in SchedStates
  BY SettledState
<1>2. CASE ~ s.need
  <2>1. r = s
    BY <1>2 DEF LeaveIntr
  <2>2. Chosen(s)
    BY <1>2 DEF Chosen
  <2>3. Advances(s, s)
    BY <1>1, NowType DEF Advances, Goes
  <2> QED BY <2>1, <2>2, <2>3 DEF Settled
<1>3. CASE s.need
  <2>1. r = vTaskSwitchContext(c)
    BY <1>3 DEF LeaveIntr
  <2>2. FlagsOnly(s, c) /\ c.need = FALSE /\ c.isr = "none"
    BY <1>1, NeedFields
  <2> HIDE DEF c, r
  <2>3. /\ Lists(c) /\ OnTime(c) /\ Advances(s, c) /\ Now(c) = Now(s)
        /\ Higher(c) => Higher(s)
    BY <2>2, FlagsAdvance DEF FlagsOnly, SameClock
  <2>4. c.suspended = s.suspended /\ c \in SchedStates /\ c.suspended \in 0 .. 1
    BY <2>2, StateType DEF FlagsOnly
  <2>5. CASE s.suspended = 0
    <3>1. IsReady(c, u)
      BY <2>3 DEF Advances, Goes
    <3>2. Settled(r) /\ Advances(c, r) /\ r.isr = "none"
      BY <2>1, <2>2, <2>3, <2>4, <2>5, <3>1, SwitchSettles
    <3>3. r \in SchedStates
      BY <3>2, SettledState DEF Settled
    <3> QED BY <1>1, <2>3, <2>4, <3>2, <3>3, AdvancesTrans DEF r
  <2>6. CASE s.suspended # 0
    <3>1. c.suspended > 0
      BY <2>4, <2>6
    <3>2. /\ r \in SchedStates /\ SameLists(c, r) /\ SameClock(c, r)
          /\ SameFlags(c, r) /\ r.next = c.next
      BY <2>1, <2>4, <3>1, DeferIs
    <3>3. /\ Lists(r) /\ OnTime(r) /\ Advances(c, r)
          /\ Higher(r) => Higher(c)
      BY <2>3, <3>2, FlagsAdvance DEF SameClock, SameFlags
    <3>4. ~ Higher(r)
      BY <2>3, <2>6, <3>3
    <3>5. Chosen(r) /\ r.isr = "none"
      BY <2>2, <3>2, <3>4 DEF Chosen, SameFlags
    <3>6. Advances(s, r)
      BY <1>1, <2>3, <2>4, <3>2, <3>3, AdvancesTrans
    <3> QED BY <3>3, <3>5, <3>6 DEF Settled, r
  <2> QED BY <2>5, <2>6
<1> QED BY <1>2, <1>3

LEMMA SystemTickIs ==
  ASSUME NEW s, Settled(s), s.suspended = 0 => s.pending = <<>>, s.isr # "ticked"
  PROVE  LET r == SystemTick(s)
         IN  /\ Lists(r) /\ OnTime(r) /\ Advances(s, r) /\ r.isr = s.isr
             /\ Higher(r) => r.need /\ r.suspended = 0
<1> DEFINE r == SystemTick(s)
           h == [s EXCEPT !.pended = @ + 1, !.need = FALSE]
           i == IncrementTick(s)
           x == [i EXCEPT !.need = i.yield, !.yield = s.yield]
<1>1. s \in SchedStates /\ Lists(s) /\ OnTime(s) /\ Chosen(s) /\ s.suspended \in 0 .. 1
  BY SettledState, StateType DEF Settled
<1>2. CASE s.suspended > 0
  <2>1. r = h
    BY <1>2 DEF SystemTick
  <2>2. /\ h \in SchedStates /\ SameLists(s, h) /\ h.tick = s.tick
        /\ h.overflows = s.overflows /\ h.next = s.next
        /\ h.cur = s.cur /\ h.suspended = s.suspended /\ h.isr = s.isr
    BY <1>1, HeldBackFields
  <2> HIDE DEF h, r
  <2>3. /\ Lists(h) /\ OnTime(h) /\ Advances(s, h)
        /\ Higher(h) => Higher(s)
    BY <1>1, <2>2, FlagsAdvance
  <2>4. ~ Higher(h)
    BY <1>1, <1>2, <2>3 DEF Chosen
  <2> QED BY <2>1, <2>2, <2>3, <2>4 DEF r
<1>3. CASE ~ (s.suspended > 0)
  <2>1. r = x
    BY <1>3 DEF SystemTick
  <2>2. s.suspended = 0
    BY <1>1, <1>3
  <2>3. /\ Lists(i) /\ Woke(s, i) /\ OnTime(i)
        /\ Now(i) = Now(s) + 1 /\ i.pending = <<>>
    BY <1>1, <2>2, IncrementTickIs
  <2> HIDE DEF i, r
  <2>4. i \in SchedStates /\ i.yield \in BOOLEAN /\ s.yield \in BOOLEAN
    BY <1>1, <2>3, SettledState, StateType
  <2>5. FlagsOnly(i, x) /\ x.need = i.yield /\ x.isr = i.isr
    BY <2>4, TickFields
  <2> HIDE DEF x
  <2>6. /\ Lists(x) /\ OnTime(x) /\ Advances(i, x)
        /\ Higher(x) => Higher(i)
    BY <2>3, <2>5, FlagsAdvance DEF FlagsOnly, SameClock
  <2>7. i.suspended = 0 /\ i.isr = s.isr /\ i.cur = s.cur
    BY <2>2, <2>3 DEF Woke, SameFlags
  <2>8. Advances(s, i)
    <3>1. Now(s) \in Nat
      BY <1>1, NowType
    <3>2. Now(i) >= Now(s)
      BY <2>3, <3>1
    <3> QED BY <2>2, <2>3, <2>7, <3>2, WokeGoes DEF Advances
  <2>9. x \in SchedStates
    BY <2>5 DEF FlagsOnly
  <2>10. Advances(s, x)
    BY <1>1, <2>4, <2>6, <2>8, <2>9, AdvancesTrans
  <2>11. Higher(x) => x.need
    <3>1. Higher(x) => Higher(s) \/ i.yield
      BY <2>3, <2>6, WokeHigher
    <3>2. Higher(s) => s.yield
      <4>1. s.isr \in {"none", "running"}
        BY <1>1, StateType
      <4> QED BY <1>1, <4>1 DEF Chosen
    <3>3. s.yield => i.yield
      BY <2>3 DEF Woke
    <3> QED BY <2>5, <3>1, <3>2, <3>3
  <2>12. x.suspended = 0 /\ x.isr = s.isr
    BY <2>5, <2>7 DEF FlagsOnly
  <2> QED BY <2>1, <2>6, <2>10, <2>11, <2>12 DEF r
<1> QED BY <1>2, <1>3

(* The tick interrupt, in a task or in a handler                              *)
LEMMA TickInterruptIs ==
  ASSUME NEW s, Settled(s), s.suspended = 0 => s.pending = <<>>, s.isr # "ticked",
         NEW u \in Task, IsReady(s, u)
  PROVE  LET r == IF s.isr = "none" THEN LeaveIntr(SystemTick(s))
                  ELSE [SystemTick(s) EXCEPT !.isr = "ticked"]
         IN  Settled(r) /\ Advances(s, r) /\ r.isr = (IF s.isr = "none" THEN "none" ELSE "ticked")
<1> DEFINE m == SystemTick(s)
           e == LeaveIntr(m)
           x == [m EXCEPT !.isr = "ticked"]
           r == IF s.isr = "none" THEN e ELSE x
<1>1. s \in SchedStates
  BY SettledState DEF Settled
<1>2. /\ Lists(m) /\ OnTime(m) /\ Advances(s, m) /\ m.isr = s.isr
      /\ Higher(m) => m.need /\ m.suspended = 0
  BY SystemTickIs
<1> HIDE DEF m
<1>3. m \in SchedStates /\ IsReady(m, u)
  BY <1>2, SettledState DEF Advances, Goes
<1>4. ASSUME s.isr = "none"
      PROVE  Settled(r) /\ Advances(s, r) /\ r.isr = (IF s.isr = "none" THEN "none" ELSE "ticked")
  <2>1. Settled(e) /\ Advances(m, e) /\ e.isr = "none"
    BY <1>2, <1>3, <1>4, LeaveIntrIs
  <2>2. e \in SchedStates
    BY <2>1, SettledState DEF Settled
  <2>3. Advances(s, e)
    BY <1>1, <1>2, <1>3, <2>1, <2>2, AdvancesTrans
  <2>4. r = e
    BY <1>4
  <2> HIDE DEF r
  <2> QED BY <1>4, <2>1, <2>3, <2>4
<1>5. ASSUME s.isr # "none"
      PROVE  Settled(r) /\ Advances(s, r) /\ r.isr = (IF s.isr = "none" THEN "none" ELSE "ticked")
  <2>1. FlagsOnly(m, x) /\ x.need = m.need /\ x.isr = "ticked"
    BY <1>3, IsrFields
  <2>7. r = x
    BY <1>5
  <2> HIDE DEF x, r
  <2>2. /\ Lists(x) /\ OnTime(x) /\ Advances(m, x)
        /\ Higher(x) => Higher(m)
    BY <1>2, <2>1, FlagsAdvance DEF FlagsOnly, SameClock
  <2>3. x.suspended = m.suspended /\ x \in SchedStates
    BY <2>1 DEF FlagsOnly
  <2>4. x.suspended > 0 => ~ Higher(x)
    BY <1>2, <2>2, <2>3
  <2>5. Chosen(x)
    BY <1>2, <2>1, <2>2, <2>4 DEF Chosen
  <2>6. Advances(s, x)
    BY <1>1, <1>2, <1>3, <2>2, <2>3, AdvancesTrans
  <2> QED BY <1>5, <2>1, <2>2, <2>5, <2>6, <2>7 DEF Settled
<1> HIDE DEF r
<1>6. Settled(r) /\ Advances(s, r) /\ r.isr = (IF s.isr = "none" THEN "none" ELSE "ticked")
  BY <1>4, <1>5
<1> QED BY <1>6 DEF m, r

(* The end of a handler                                                       *)
LEMMA LeaveInterruptIs ==
  ASSUME NEW s, Settled(s), s.isr # "none", NEW u \in Task, IsReady(s, u)
  PROVE  LET r == LeaveIntr([s EXCEPT !.isr = "none"])
         IN  Settled(r) /\ Advances(s, r) /\ r.isr = "none"
<1> DEFINE m == [s EXCEPT !.isr = "none"]
           r == LeaveIntr(m)
<1>1. s \in SchedStates /\ s.suspended \in 0 .. 1 /\ s.isr \in {"running", "ticked"}
  BY SettledState, StateType DEF Settled
<1>2. FlagsOnly(s, m) /\ m.need = s.need /\ m.isr = "none"
  BY <1>1, IsrFields
<1> HIDE DEF m
<1>3. /\ Lists(m) /\ OnTime(m) /\ Advances(s, m)
      /\ Higher(m) => Higher(s)
  BY <1>2, FlagsAdvance DEF FlagsOnly, SameClock, Settled
<1>4. m \in SchedStates /\ m.suspended = s.suspended /\ IsReady(m, u)
  BY <1>2, <1>3 DEF FlagsOnly, Advances, Goes
<1>5. Higher(m) => m.need /\ m.suspended = 0
  <2>1. Higher(s) => s.need /\ ~ (s.suspended > 0)
    BY <1>1 DEF Settled, Chosen
  <2> QED BY <1>1, <1>2, <1>3, <1>4, <2>1
<1>6. Settled(r) /\ Advances(m, r) /\ r.isr = "none"
  BY <1>2, <1>3, <1>4, <1>5, LeaveIntrIs
<1>7. r \in SchedStates
  BY <1>6, SettledState DEF Settled
<1>8. Advances(s, r)
  BY <1>1, <1>3, <1>4, <1>6, <1>7, AdvancesTrans
<1> QED BY <1>6, <1>8 DEF m

----------------------------------------------------------------------------
(* The current task goes to sleep                                             *)

LEMMA ModIs ==
  ASSUME NEW m \in Nat, m > 0, NEW n \in Nat, n < m + m
  PROVE  n % m = IF n < m THEN n ELSE n - m
OBVIOUS

(* a wake time has wrapped around if and only if it is before the tick        *)
LEMMA WakeTime ==
  ASSUME NEW s \in SchedStates, NEW ticks \in 1 .. TickMax
  PROVE  LET w == TickType(s.tick + ticks)
             due == Now(s) + ticks
         IN  /\ w \in 0 .. TickMax /\ due \in Nat
             /\ w < s.tick => due = (s.overflows + 1) * (TickMax + 1) + w
             /\ ~ (w < s.tick) => w > s.tick /\ due = s.overflows * (TickMax + 1) + w
<1> DEFINE m == TickMax + 1
           n == s.tick + ticks
           w == TickType(n)
           base == s.overflows * m
<1>1. /\ s.tick \in Nat /\ s.tick < m /\ ticks \in Nat /\ ticks > 0 /\ ticks < m
      /\ m \in Nat /\ m > 0 /\ TickMax \in Nat
  BY StateType, Ticks
<1>2. s.overflows \in Nat /\ base \in Nat /\ (s.overflows + 1) * m = base + m
  BY StateType, Rounds
<1>3. n \in Nat /\ n < m + m
  BY <1>1
<1>4. w = IF n < m THEN n ELSE n - m
  <2> HIDE DEF n
  <2>1. n % m = IF n < m THEN n ELSE n - m
    BY <1>1, <1>3, ModIs
  <2> QED BY <2>1 DEF TickType
<1>5. Now(s) + ticks = base + n
  <2>1. Now(s) = base + s.tick
    BY DEF Now
  <2> HIDE DEF base
  <2> QED BY <1>1, <1>2, <2>1
<1> HIDE DEF w, base
<1>6. CASE n < m
  <2>1. w = n /\ w \in 0 .. TickMax /\ ~ (w < s.tick) /\ w > s.tick
    BY <1>1, <1>4, <1>6
  <2>2. base + n \in Nat
    BY <1>2, <1>3
  <2> QED BY <1>5, <2>1, <2>2 DEF w, base
<1>7. CASE ~ (n < m)
  <2>1. w = n - m /\ w \in 0 .. TickMax /\ w < s.tick
    BY <1>1, <1>4, <1>7
  <2>2. base + n \in Nat /\ base + n = (base + m) + w
    BY <1>1, <1>2, <1>3, <2>1
  <2> QED BY <1>2, <1>5, <2>1, <2>2 DEF w, base
<1> QED BY <1>6, <1>7

(* the ready list of a task without it                                        *)
Dequeued(s, t) == [s EXCEPT !.ready[s.prio[t]] = Unlinked(@, t)]

DequeuedTo(s, r, t) ==
  /\ r.ready[s.prio[t]] = Unlinked(s.ready[s.prio[t]], t)
  /\ \A p \in Priority : p # s.prio[t] => r.ready[p] = s.ready[p]
  /\ r.events = s.events /\ r.delayed = s.delayed
  /\ r.overflow = s.overflow /\ r.blocked = s.blocked /\ r.pending = s.pending
  /\ SameClock(s, r) /\ SameFlags(s, r) /\ r.next = s.next /\ r.yield = s.yield

LEMMA DequeuedFields ==
  ASSUME NEW s \in SchedStates, NEW t \in Task
  PROVE  DequeuedTo(s, Dequeued(s, t), t)
BY DEF SchedStates, Dequeued, DequeuedTo, SameClock, SameFlags

LEMMA DequeuedType ==
  ASSUME NEW s \in SchedStates, NEW t \in Task,
         Unlinked(s.ready[s.prio[t]], t) \in Seq(Task \cup {ListEnd})
  PROVE  Dequeued(s, t) \in SchedStates
BY DEF SchedStates, Dequeued

LEMMA DequeuedIs ==
  ASSUME NEW s, Formed(s), NEW t \in Task,
         \A p \in Priority : t \in Range(s.ready[p]) => p = s.prio[t]
  PROVE  LET r == Dequeued(s, t)
         IN  /\ Formed(r) /\ DequeuedTo(s, r, t) /\ OthersSame(s, r, t)
             /\ \A p \in Priority : t \notin Range(r.ready[p])
<1> DEFINE top == s.prio[t]
           q == s.ready[top]
           r == Dequeued(s, t)
<1>1. s \in SchedStates /\ top \in Priority
  BY StateType DEF Formed
<1>2. q \in Seq(Task \cup {ListEnd}) /\ IsInjective(q) /\ ListEnd \in Range(q)
  BY <1>1, StateType DEF Formed
<1>3. /\ Unlinked(q, t) \in Seq(Task \cup {ListEnd}) /\ IsInjective(Unlinked(q, t))
      /\ Range(Unlinked(q, t)) = Range(q) \ {t}
  BY <1>2, UnlinkedIs
<1>4. r \in SchedStates
  BY <1>1, <1>3, DequeuedType
<1>5. DequeuedTo(s, r, t)
  BY <1>1, DequeuedFields
<1> HIDE DEF r
<1>6. /\ r.ready[top] = Unlinked(q, t)
      /\ \A p \in Priority : p # top => r.ready[p] = s.ready[p]
  BY <1>5 DEF DequeuedTo
<1> HIDE DEF q
<1>7. ASSUME NEW p \in Priority
      PROVE  IsInjective(r.ready[p]) /\ Range(r.ready[p]) = Range(s.ready[p]) \ {t}
  <2>1. CASE p = top
    BY <1>3, <1>6, <2>1 DEF q
  <2>2. CASE p # top
    BY <1>6, <2>2 DEF Formed
  <2> QED BY <2>1, <2>2
<1>8. Formed(r)
  <2>1. \A p \in Priority : IsInjective(r.ready[p]) /\ ListEnd \in Range(r.ready[p])
    BY <1>7, EndIsNoTask DEF Formed
  <2> QED BY <1>4, <1>5, <2>1 DEF Formed, DequeuedTo
<1>9. OthersSame(s, r, t)
  <2> SUFFICES ASSUME NEW u \in Task, u # t PROVE SameTask(s, r, u)
    BY DEF OthersSame
  <2>1. \A p \in Priority : u \in Range(r.ready[p]) <=> u \in Range(s.ready[p])
    BY <1>7
  <2>2. r.prio = s.prio
    BY <1>5 DEF DequeuedTo, SameFlags
  <2> QED BY <1>5, <2>1, <2>2 DEF SameTask, DequeuedTo
<1>10. \A p \in Priority : t \notin Range(r.ready[p])
  BY <1>7
<1> QED BY <1>5, <1>8, <1>9, <1>10 DEF r

(* the three lists a task that is not ready can be put on                     *)
BlockedUpdate(s, t) == [s EXCEPT !.blocked = @ \cup {t}]
OverflowUpdate(s, d) == [s EXCEPT !.overflow = DelayedInsert(@, d)]
DelayedUpdate(s, d) ==
  [s EXCEPT !.delayed = DelayedInsert(@, d), !.next = Min({@, d.wake})]

(* all but the lists of tasks that sleep                                      *)
SleepsOnly(s, r) ==
  /\ r.ready = s.ready /\ r.events = s.events /\ r.pending = s.pending
  /\ SameClock(s, r) /\ SameFlags(s, r) /\ r.yield = s.yield

LEMMA BlockedFields ==
  ASSUME NEW s \in SchedStates, NEW t \in Task
  PROVE  LET r == BlockedUpdate(s, t)
         IN  /\ r \in SchedStates /\ SleepsOnly(s, r) /\ r.blocked = s.blocked \cup {t}
             /\ r.delayed = s.delayed /\ r.overflow = s.overflow /\ r.next = s.next
BY DEF SchedStates, BlockedUpdate, SleepsOnly, SameClock, SameFlags

LEMMA OverflowFields ==
  ASSUME NEW s \in SchedStates, NEW d, DelayedInsert(s.overflow, d) \in Seq(Sleeper)
  PROVE  LET r == OverflowUpdate(s, d)
         IN  /\ r \in SchedStates /\ SleepsOnly(s, r) /\ r.blocked = s.blocked
             /\ r.delayed = s.delayed /\ r.overflow = DelayedInsert(s.overflow, d)
             /\ r.next = s.next
BY DEF SchedStates, OverflowUpdate, SleepsOnly, SameClock, SameFlags

LEMMA DelayedFields ==
  ASSUME NEW s \in SchedStates, NEW d, DelayedInsert(s.delayed, d) \in Seq(Sleeper),
         Min({s.next, d.wake}) \in 0 .. TickMax
  PROVE  LET r == DelayedUpdate(s, d)
         IN  /\ r \in SchedStates /\ SleepsOnly(s, r) /\ r.blocked = s.blocked
             /\ r.delayed = DelayedInsert(s.delayed, d) /\ r.overflow = s.overflow
             /\ r.next = Min({s.next, d.wake})
BY DEF SchedStates, DelayedUpdate, SleepsOnly, SameClock, SameFlags

LEMMA LesserIs ==
  ASSUME NEW a \in Nat, NEW b \in Nat
  PROVE  Min({a, b}) \in {a, b} /\ Min({a, b}) <= a /\ Min({a, b}) <= b
<1>1. {a, b} # {} /\ {a, b} \subseteq Nat
  OBVIOUS
<1> QED BY <1>1, LeastIs

(* a task may go to sleep on an event list it has been put on                 *)
MaySleep(s, t, block) ==
  /\ Formed(s) /\ IsReady(s, t) /\ s.cur = t
  /\ \A u \in Task : u # t => Placed(s, u)
  /\ \A p \in Priority : t \in Range(s.ready[p]) => p = s.prio[t]
  /\ ~ Dormant(s, t) /\ ~ Held(s, t)
  /\ \A l, m \in EventList : t \in Range(s.events[l]) /\ t \in Range(s.events[m]) => l = m
  /\ block => Waiting(s, t)

(* and then it sleeps, and all others are as they were                        *)
FallsAsleep(s, r, t) ==
  /\ Lists(r) /\ OthersSame(s, r, t) /\ ~ IsReady(r, t)
  /\ SameFlags(s, r) /\ SameClock(s, r) /\ r.yield = s.yield
  /\ r.events = s.events /\ r.pending = s.pending

LEMMA SleepPlaced ==
  ASSUME NEW s, NEW t \in Task, NEW block \in BOOLEAN, MaySleep(s, t, block), NEW r, NEW x, Formed(r), DequeuedTo(s, x, t),
         \A p \in Priority : t \notin Range(x.ready[p]), SleepsOnly(x, r),
         \/ /\ t \in Asleep(r.delayed) /\ t \notin Asleep(r.overflow) /\ t \notin r.blocked
         \/ /\ t \notin Asleep(r.delayed) /\ t \in Asleep(r.overflow) /\ t \notin r.blocked
         \/ /\ t \notin Asleep(r.delayed) /\ t \notin Asleep(r.overflow) /\ t \in r.blocked
            /\ block
  PROVE  Placed(r, t) /\ ~ IsReady(r, t)
<1>1. \A p \in Priority : t \notin Range(r.ready[p])
  BY DEF SleepsOnly
<1>2. r.prio[t] \in Priority
  BY StateType DEF Formed
<1>3. ~ IsReady(r, t)
  BY <1>1, <1>2 DEF IsReady
<1>4. Dormant(r, t)
  BY DEF Dormant
<1>5. r.events = s.events /\ r.pending = s.pending
  BY DEF SleepsOnly, DequeuedTo
<1>6. ~ Held(r, t)
  BY <1>5 DEF Held, MaySleep
<1>7. t \in r.blocked => Waiting(r, t)
  BY <1>5 DEF MaySleep, Waiting
<1>8. \A l, m \in EventList : t \in Range(r.events[l]) /\ t \in Range(r.events[m]) => l = m
  BY <1>5 DEF MaySleep
<1> QED BY <1>1, <1>3, <1>4, <1>6, <1>7, <1>8 DEF Placed

LEMMA SleepIs ==
  ASSUME NEW s, NEW t \in Task, NEW block \in BOOLEAN, MaySleep(s, t, block),
         OnTime(s), NEW ticks \in 1 .. TickMax
  PROVE  LET r == AddCurrentTaskToDelayedList(s, ticks, block)
         IN  FallsAsleep(s, r, t) /\ OnTime(r)
<1> DEFINE d == [task |-> t, wake |-> TickType(s.tick + ticks), due |-> Now(s) + ticks]
           x == Dequeued(s, t)
           r == AddCurrentTaskToDelayedList(s, ticks, block)
<1>1. s \in SchedStates /\ Formed(s) /\ s.cur = t
  BY DEF MaySleep, Formed
<1>2. r = IF block /\ ticks = portMAX_DELAY THEN BlockedUpdate(x, t)
          ELSE IF d.wake < s.tick THEN OverflowUpdate(x, d) ELSE DelayedUpdate(x, d)
  BY <1>1 DEF AddCurrentTaskToDelayedList, Dequeued, BlockedUpdate, OverflowUpdate, DelayedUpdate
<1>3. /\ d.wake \in 0 .. TickMax /\ d.due \in Nat
      /\ d.wake < s.tick => d.due = (s.overflows + 1) * (TickMax + 1) + d.wake
      /\ ~ (d.wake < s.tick) => d.wake > s.tick /\ d.due = s.overflows * (TickMax + 1) + d.wake
  BY <1>1, WakeTime
<1>4. d \in Sleeper /\ d.task = t
  BY <1>3 DEF Sleeper
<1> HIDE DEF d
<1>5. /\ Formed(x) /\ DequeuedTo(s, x, t) /\ OthersSame(s, x, t)
      /\ \A p \in Priority : t \notin Range(x.ready[p])
  BY DequeuedIs DEF MaySleep
<1> HIDE DEF x, r
<1>6. x \in SchedStates /\ Ordered(x.delayed) /\ Ordered(x.overflow)
      /\ x.delayed \in Seq(Sleeper) /\ x.overflow \in Seq(Sleeper)
      /\ x.delayed = s.delayed /\ x.overflow = s.overflow /\ x.blocked = s.blocked
      /\ x.next = s.next /\ SameClock(s, x)
  BY <1>5, StateType DEF Formed, DequeuedTo
<1>7. t \notin Asleep(x.delayed) /\ t \notin Asleep(x.overflow) /\ t \notin x.blocked
  BY <1>6 DEF MaySleep, Dormant
<1>8. Dated(s) /\ Expected(s) /\ Timely(s)
  BY DEF OnTime
<1>9. \A u \in Task : u # t => SameTask(s, x, u)
  BY <1>5 DEF OthersSame
<1> DEFINE Sleeping == \/ /\ t \in Asleep(r.delayed) /\ t \notin Asleep(r.overflow) /\ t \notin r.blocked
                       \/ /\ t \notin Asleep(r.delayed) /\ t \in Asleep(r.overflow) /\ t \notin r.blocked
                       \/ /\ t \notin Asleep(r.delayed) /\ t \notin Asleep(r.overflow) /\ t \in r.blocked
                          /\ block
<1>10. /\ r \in SchedStates /\ SleepsOnly(x, r) /\ Ordered(r.delayed) /\ Ordered(r.overflow)
       /\ \A u \in Task : u # t => (u \in Asleep(r.delayed) <=> u \in Asleep(x.delayed))
       /\ \A u \in Task : u # t => (u \in Asleep(r.overflow) <=> u \in Asleep(x.overflow))
       /\ \A u \in Task : u # t => (u \in r.blocked <=> u \in x.blocked)
       /\ Sleeping
       /\ OnTime(r)
  <2>1. ASSUME block, ticks = portMAX_DELAY PROVE <1>10!:
    <3>1. r = BlockedUpdate(x, t)
      BY <1>2, <2>1
    <3>2. /\ r \in SchedStates /\ SleepsOnly(x, r) /\ r.blocked = x.blocked \cup {t}
          /\ r.delayed = x.delayed /\ r.overflow = x.overflow /\ r.next = x.next
      BY <1>6, <3>1, BlockedFields
    <3>3. OnTime(r)
      BY <1>6, <1>8, <3>2 DEF OnTime, Dated, Expected, Timely, SameClock, SleepsOnly
    <3> QED BY <1>6, <1>7, <2>1, <3>2, <3>3
  <2>2. ASSUME ~ (block /\ ticks = portMAX_DELAY), d.wake < s.tick PROVE <1>10!:
    <3>1. r = OverflowUpdate(x, d)
      BY <1>2, <2>2
    <3>2. /\ DelayedInsert(x.overflow, d) \in Seq(Sleeper) /\ Ordered(DelayedInsert(x.overflow, d))
          /\ Asleep(DelayedInsert(x.overflow, d)) = Asleep(x.overflow) \cup {t}
          /\ Range(DelayedInsert(x.overflow, d)) = Range(x.overflow) \cup {d}
      BY <1>4, <1>6, <1>7, DelayedInsertIs
    <3>3. /\ r \in SchedStates /\ SleepsOnly(x, r) /\ r.blocked = x.blocked
          /\ r.delayed = x.delayed /\ r.overflow = DelayedInsert(x.overflow, d)
          /\ r.next = x.next
      BY <1>6, <3>1, <3>2, OverflowFields
    <3>4. r.tick = s.tick /\ r.overflows = s.overflows
      BY <1>6, <3>3 DEF SameClock, SleepsOnly
    <3>5. Dated(r)
      BY <1>3, <1>6, <1>8, <2>2, <3>2, <3>3, <3>4 DEF Dated
    <3>6. Expected(r) /\ Timely(r)
      BY <1>6, <1>8, <3>3, <3>4 DEF Expected, Timely
    <3> QED BY <1>6, <1>7, <3>2, <3>3, <3>5, <3>6 DEF OnTime
  <2>3. ASSUME ~ (block /\ ticks = portMAX_DELAY), ~ (d.wake < s.tick) PROVE <1>10!:
    <3>1. r = DelayedUpdate(x, d)
      BY <1>2, <2>3
    <3>2. /\ DelayedInsert(x.delayed, d) \in Seq(Sleeper) /\ Ordered(DelayedInsert(x.delayed, d))
          /\ Asleep(DelayedInsert(x.delayed, d)) = Asleep(x.delayed) \cup {t}
          /\ Range(DelayedInsert(x.delayed, d)) = Range(x.delayed) \cup {d}
      BY <1>4, <1>6, <1>7, DelayedInsertIs
    <3> DEFINE n == Min({x.next, d.wake})
    <3>10. x.next \in 0 .. TickMax
      BY <1>6, StateType
    <3>11. x.next \in Nat /\ d.wake \in Nat
      BY <1>3, <3>10, Ticks
    <3>12. n \in {x.next, d.wake} /\ n <= x.next /\ n <= d.wake
      BY <3>11, LesserIs
    <3>13. n \in 0 .. TickMax
      BY <1>3, <3>10, <3>12
    <3>3. /\ r \in SchedStates /\ SleepsOnly(x, r) /\ r.blocked = x.blocked
          /\ r.delayed = DelayedInsert(x.delayed, d) /\ r.overflow = x.overflow
          /\ r.next = n
      BY <1>6, <3>1, <3>2, <3>13, DelayedFields
    <3> HIDE DEF n
    <3>4. r.tick = s.tick /\ r.overflows = s.overflows
      BY <1>6, <3>3 DEF SameClock, SleepsOnly
    <3>5. Dated(r)
      BY <1>3, <1>6, <1>8, <2>3, <3>2, <3>3, <3>4 DEF Dated
    <3>6. Timely(r)
      BY <1>3, <1>6, <1>8, <2>3, <3>2, <3>3, <3>4 DEF Timely
    <3>7. Expected(r)
      <4> SUFFICES ASSUME NEW e \in Range(r.delayed) PROVE n <= e.wake
        BY <3>3 DEF Expected
      <4>1. CASE e = d
        BY <3>12, <4>1
      <4>2. CASE e # d
        <5>1. e \in Range(s.delayed)
          BY <1>6, <3>2, <3>3, <4>2
        <5>2. x.next <= e.wake
          BY <1>6, <1>8, <5>1 DEF Expected
        <5>3. e \in Sleeper
          BY <1>1, <5>1, StateType, InRange
        <5>4. e.wake \in 0 .. TickMax
          BY <5>3 DEF Sleeper
        <5>5. e.wake \in Int /\ n \in Int /\ x.next \in Int
          BY <3>11, <3>12, <5>4, Ticks
        <5> QED BY <3>12, <5>2, <5>5
      <4> QED BY <4>1, <4>2
    <3> QED BY <1>6, <1>7, <3>2, <3>3, <3>5, <3>6, <3>7 DEF OnTime
  <2> QED BY <2>1, <2>2, <2>3
<1>11. Formed(r)
  BY <1>5, <1>10 DEF Formed, SleepsOnly
<1>12. Placed(r, t) /\ ~ IsReady(r, t)
  BY <1>5, <1>10, <1>11, SleepPlaced
<1> HIDE DEF Sleeping
<1>13. ASSUME NEW u \in Task, u # t PROVE SameTask(x, r, u)
  <2>1. r.ready = x.ready /\ r.events = x.events /\ r.pending = x.pending /\ r.prio = x.prio
    BY <1>10 DEF SleepsOnly, SameFlags
  <2> QED BY <1>10, <1>13, <2>1 DEF SameTask
<1>14. OthersSame(s, r, t)
  <2>1. OthersSame(x, r, t)
    BY <1>13 DEF OthersSame
  <2> QED BY <1>5, <2>1, OthersTrans
<1>15. Lists(r)
  <2>1. \A u \in Task : u # t => Placed(r, u)
    BY <1>1, <1>14, SamePlaced DEF OthersSame, MaySleep
  <2> QED BY <1>11, <1>12, <2>1 DEF Lists
<1>16. /\ SameFlags(s, r) /\ SameClock(s, r) /\ r.yield = s.yield
       /\ r.events = s.events /\ r.pending = s.pending
  BY <1>5, <1>10 DEF SleepsOnly, DequeuedTo, SameFlags, SameClock
<1> QED BY <1>10, <1>12, <1>14, <1>15, <1>16 DEF FallsAsleep, r

----------------------------------------------------------------------------
(* The current task waits for an event                                        *)

LEMMA PlaceFields ==
  ASSUME NEW s \in SchedStates, NEW l \in EventList, NEW q \in Seq(Task)
  PROVE  LET r == [s EXCEPT !.events[l] = q]
         IN  /\ r \in SchedStates /\ r.events = [s.events EXCEPT ![l] = q]
             /\ r.ready = s.ready /\ r.delayed = s.delayed /\ r.overflow = s.overflow
             /\ r.blocked = s.blocked /\ r.pending = s.pending
             /\ SameClock(s, r) /\ SameFlags(s, r) /\ r.next = s.next /\ r.yield = s.yield
BY DEF SchedStates, SameClock, SameFlags

(* a list in the order of some values, the highest first                      *)
Descends(q, v) == \A i, j \in DOMAIN q : i < j => v[q[i]] >= v[q[j]]

LEMMA PairsDescend ==
  ASSUME NEW q, NEW r, NEW v, Pairs(r) \subseteq Pairs(q), Descends(q, v)
  PROVE  Descends(r, v)
<1> SUFFICES ASSUME NEW i \in DOMAIN r, NEW j \in DOMAIN r, i < j
             PROVE  v[r[i]] >= v[r[j]]
  BY DEF Descends
<1>1. <<r[i], r[j]>> \in Pairs(q)
  BY PairsAre
<1>2. PICK a \in DOMAIN q, b \in DOMAIN q : a < b /\ r[i] = q[a] /\ r[j] = q[b]
  BY <1>1 DEF Pairs
<1> QED BY <1>2 DEF Descends

LEMMA ValuesAgree ==
  ASSUME NEW q, NEW v, NEW w, \A t \in Range(q) : v[t] = w[t], Descends(q, v)
  PROVE  Descends(q, w)
<1>1. \A i \in DOMAIN q : q[i] \in Range(q)
  BY DEF Range
<1> QED BY <1>1 DEF Descends

(* a task goes before the first one of a lower priority                       *)
LEMMA InsertDescends ==
  ASSUME NEW q \in Seq(Task), NEW v, \A u \in Task : v[u] \in Int, NEW t \in Task,
         Descends(q, v)
  PROVE  Descends(vListInsert(q, t, {i \in DOMAIN q : v[q[i]] < v[t]}), v)
<1> DEFINE lower == {i \in DOMAIN q : v[q[i]] < v[t]}
           k == IF lower = {} THEN Len(q) + 1 ELSE Min(lower)
           r == InsertAt(q, k, t)
<1>1. DOMAIN q = 1 .. Len(q) /\ Len(q) \in Nat
  OBVIOUS
<1>2. /\ v[t] \in Int
      /\ \A i \in 1 .. Len(q) : v[q[i]] \in Int
  OBVIOUS
<1>3. /\ k \in 1 .. Len(q) + 1
      /\ \A i \in 1 .. Len(q) : i < k => v[q[i]] >= v[t]
      /\ k <= Len(q) => v[q[k]] < v[t]
  <2>1. CASE lower = {}
    <3>1. k = Len(q) + 1
      BY <2>1
    <3>2. \A i \in 1 .. Len(q) : ~ (v[q[i]] < v[t])
      BY <1>1, <2>1
    <3> QED BY <1>1, <1>2, <3>1, <3>2
  <2>2. CASE lower # {}
    <3>1. lower \subseteq Nat
      BY <1>1
    <3>2. Min(lower) \in lower /\ \A i \in lower : Min(lower) <= i
      BY <2>2, <3>1, LeastIs
    <3>3. k = Min(lower)
      BY <2>2
    <3>4. \A i \in 1 .. Len(q) : i \in lower <=> v[q[i]] < v[t]
      BY <1>1
    <3>5. lower \subseteq 1 .. Len(q)
      BY <1>1
    <3> HIDE DEF k, lower
    <3>6. k \in 1 .. Len(q) /\ v[q[k]] < v[t]
      BY <3>2, <3>3, <3>4, <3>5
    <3>7. ASSUME NEW i \in 1 .. Len(q), i < k PROVE v[q[i]] >= v[t]
      <4>1. ~ (k <= i)
        BY <1>1, <3>6, <3>7
      <4>2. i \notin lower
        BY <3>2, <3>3, <4>1
      <4> QED BY <1>2, <3>4, <4>2
    <3> QED BY <1>1, <3>6, <3>7
  <2> QED BY <2>1, <2>2
<1>4. vListInsert(q, t, lower) = r
  BY DEF vListInsert
<1> HIDE DEF k, lower
<1>5. /\ r \in Seq(Task) /\ Len(r) = Len(q) + 1
      /\ \A i \in 1 .. Len(q) + 1 : r[i] = IF i < k THEN q[i] ELSE IF i = k THEN t ELSE q[i - 1]
  BY <1>3, InsertedAt
<1> HIDE DEF r
<1>6. DOMAIN r = 1 .. Len(q) + 1 /\ k \in Int
  BY <1>3, <1>5
<1>7. ASSUME NEW i \in 1 .. Len(q), k <= i PROVE v[q[i]] <= v[t]
  <2>1. k \in 1 .. Len(q) /\ v[q[k]] < v[t]
    BY <1>1, <1>3, <1>7
  <2>2. k = i \/ v[q[k]] >= v[q[i]]
    BY <1>1, <1>7, <2>1 DEF Descends
  <2> QED BY <1>2, <2>1, <2>2
<1>8. ASSUME NEW i \in DOMAIN r, NEW j \in DOMAIN r, i < j
      PROVE  v[r[i]] >= v[r[j]]
  <2>1. CASE j < k
    <3>1. r[i] = q[i] /\ r[j] = q[j] /\ i \in DOMAIN q /\ j \in DOMAIN q
      BY <1>1, <1>3, <1>5, <1>6, <1>8, <2>1
    <3> QED BY <1>8, <3>1 DEF Descends
  <2>2. CASE j = k
    <3>1. r[i] = q[i] /\ r[j] = t /\ i \in 1 .. Len(q) /\ i < k
      BY <1>1, <1>3, <1>5, <1>6, <1>8, <2>2
    <3> QED BY <1>3, <3>1
  <2>3. CASE j > k
    <3>1. r[j] = q[j - 1] /\ j - 1 \in 1 .. Len(q) /\ k <= j - 1
      BY <1>1, <1>3, <1>5, <1>6, <1>8, <2>3
    <3>2. CASE i = k
      BY <1>2, <1>5, <1>6, <1>7, <3>1, <3>2
    <3>3. CASE i < k
      <4>1. r[i] = q[i] /\ i \in 1 .. Len(q) /\ i < j - 1
        BY <1>1, <1>3, <1>5, <1>6, <2>3, <3>3
      <4> QED BY <1>1, <3>1, <4>1 DEF Descends
    <3>4. CASE i > k
      <4>1. r[i] = q[i - 1] /\ i - 1 \in 1 .. Len(q) /\ i - 1 < j - 1
        BY <1>1, <1>3, <1>5, <1>6, <1>8, <2>3, <3>4
      <4> QED BY <1>1, <3>1, <4>1 DEF Descends
    <3> QED BY <1>6, <3>2, <3>3, <3>4
  <2> QED BY <1>6, <2>1, <2>2, <2>3
<1> QED BY <1>4, <1>8 DEF Descends, lower

(* the current task sleeps on list l, in the place of its priority, and       *)
(* nothing else has happened                                                  *)
Waits(s, r, l) ==
  /\ Lists(r) /\ OnTime(r) /\ OthersSame(s, r, s.cur) /\ ~ IsReady(r, s.cur)
  /\ SameFlags(s, r) /\ SameClock(s, r) /\ r.yield = s.yield /\ r.pending = s.pending
  /\ Range(r.events[l]) = Range(s.events[l]) \cup {s.cur}
  /\ \A m \in EventList : m # l => r.events[m] = s.events[m]
  /\ Descends(s.events[l], s.prio) => Descends(r.events[l], s.prio)

LEMMA InsertPlace ==
  ASSUME NEW S, NEW q \in Seq(S), NEW larger, larger \subseteq DOMAIN q
  PROVE  (IF larger = {} THEN Len(q) + 1 ELSE Min(larger)) \in 1 .. Len(q) + 1
<1>1. larger \subseteq 1 .. Len(q) /\ Len(q) \in Nat
  OBVIOUS
<1>2. larger \subseteq Nat
  BY <1>1
<1>3. larger # {} => Min(larger) \in larger
  BY <1>2, LeastIs
<1> QED BY <1>1, <1>3

LEMMA PlaceIs ==
  ASSUME NEW s, Lists(s), OnTime(s), IsReady(s, s.cur), NEW l \in EventList,
         NEW ticks \in 1 .. TickMax
  PROVE  Waits(s, vTaskPlaceOnEventList(s, l, ticks), l)
<1> DEFINE t == s.cur
           q == s.events[l]
           larger == {i \in DOMAIN q : EventValue(s, q[i]) > EventValue(s, t)}
           k == IF larger = {} THEN Len(q) + 1 ELSE Min(larger)
           new == InsertAt(q, k, t)
           y == [s EXCEPT !.events[l] = new]
           r == AddCurrentTaskToDelayedList(y, ticks, TRUE)
<1>1. s \in SchedStates /\ Formed(s) /\ t \in Task /\ Placed(s, t)
  BY StateType DEF Lists, Formed
<1>2. vTaskPlaceOnEventList(s, l, ticks) = r
  BY DEF vTaskPlaceOnEventList, vListInsert
<1>3. q \in Seq(Task) /\ IsInjective(q)
  BY <1>1, StateType DEF Formed
<1>4. t \notin Range(q) /\ ~ Waiting(s, t) /\ ~ Dormant(s, t) /\ ~ Held(s, t)
  BY <1>1 DEF Placed, Waiting
<1> HIDE DEF q
<1>5. k \in 1 .. Len(q) + 1
  <2>1. larger \subseteq DOMAIN q
    OBVIOUS
  <2> HIDE DEF larger
  <2> QED BY <1>3, <2>1, InsertPlace
<1>17. new = vListInsert(q, t, larger)
  BY DEF vListInsert
<1>18. larger = {i \in DOMAIN q : s.prio[q[i]] < s.prio[t]}
  <2>1. ASSUME NEW i \in DOMAIN q
        PROVE  EventValue(s, q[i]) > EventValue(s, t) <=> s.prio[q[i]] < s.prio[t]
    <3>1. q[i] \in Task
      BY <1>3
    <3>2. s.prio[q[i]] \in Int /\ s.prio[t] \in Int
      BY <1>1, <3>1, StateType DEF Priority, configMAX_PRIORITIES
    <3> QED BY <3>2 DEF EventValue, configMAX_PRIORITIES
  <2> QED BY <2>1
<1> HIDE DEF k, larger
<1>19. Descends(q, s.prio) => Descends(new, s.prio)
  <2>1. \A u \in Task : s.prio[u] \in Int
    BY <1>1, StateType DEF Priority, configMAX_PRIORITIES
  <2> HIDE DEF new, t
  <2> QED BY <1>1, <1>3, <1>17, <1>18, <2>1, InsertDescends
<1>6. new \in Seq(Task) /\ IsInjective(new) /\ Range(new) = Range(q) \cup {t}
  <2> HIDE DEF t
  <2> QED BY <1>1, <1>3, <1>4, <1>5, InsertedIs
<1> HIDE DEF new
<1>7. /\ y \in SchedStates /\ y.events = [s.events EXCEPT ![l] = new]
      /\ y.ready = s.ready /\ y.delayed = s.delayed /\ y.overflow = s.overflow
      /\ y.blocked = s.blocked /\ y.pending = s.pending
      /\ SameClock(s, y) /\ SameFlags(s, y) /\ y.next = s.next /\ y.yield = s.yield
  BY <1>1, <1>6, PlaceFields
<1> HIDE DEF y
<1>8. y.events[l] = new /\ \A m \in EventList : m # l => y.events[m] = s.events[m]
  BY <1>1, <1>7 DEF SchedStates
<1>9. Formed(y)
  <2>1. \A m \in EventList : IsInjective(y.events[m])
    BY <1>1, <1>6, <1>8 DEF Formed
  <2> QED BY <1>1, <1>7, <2>1 DEF Formed
<1>10. OthersSame(s, y, t)
  <2> SUFFICES ASSUME NEW u \in Task, u # t PROVE SameTask(s, y, u)
    BY DEF OthersSame
  <2>1. \A m \in EventList : u \in Range(y.events[m]) <=> u \in Range(s.events[m])
    BY <1>6, <1>8 DEF q
  <2>2. y.prio = s.prio
    BY <1>7 DEF SameFlags
  <2> QED BY <1>7, <2>1, <2>2 DEF SameTask
<1>11. MaySleep(y, t, TRUE)
  <2>1. y.cur = t /\ y.prio = s.prio
    BY <1>7 DEF SameFlags
  <2>2. IsReady(y, t)
    BY <1>7, <2>1 DEF IsReady
  <2>3. \A u \in Task : u # t => Placed(y, u)
    BY <1>1, <1>10, SamePlaced DEF OthersSame, Lists
  <2>4. \A p \in Priority : t \in Range(y.ready[p]) => p = y.prio[t]
    BY <1>1, <1>7, <2>1 DEF Placed
  <2>5. ~ Dormant(y, t) /\ ~ Held(y, t)
    BY <1>4, <1>7 DEF Dormant, Held
  <2>6. \A m \in EventList : t \in Range(y.events[m]) => m = l
    BY <1>4, <1>8 DEF Waiting
  <2>7. Waiting(y, t)
    BY <1>6, <1>8 DEF Waiting
  <2>8. \A m, n \in EventList : t \in Range(y.events[m]) /\ t \in Range(y.events[n]) => m = n
    BY <2>6
  <2> QED BY <1>9, <2>1, <2>2, <2>3, <2>4, <2>5, <2>7, <2>8 DEF MaySleep
<1>12. OnTime(y)
  BY <1>7 DEF OnTime, Dated, Expected, Timely, SameClock
<1> HIDE DEF t
<1>13. FallsAsleep(y, r, t) /\ OnTime(r)
  BY <1>1, <1>11, <1>12, SleepIs
<1> HIDE DEF r
<1>14. OthersSame(s, r, t)
  BY <1>1, <1>10, <1>13, OthersTrans DEF FallsAsleep
<1>15. SameFlags(s, r) /\ SameClock(s, r) /\ r.yield = s.yield /\ r.pending = s.pending
  BY <1>7, <1>13 DEF FallsAsleep, SameFlags, SameClock
<1>16. r.events = y.events
  BY <1>13 DEF FallsAsleep
<1> QED BY <1>2, <1>6, <1>8, <1>13, <1>14, <1>15, <1>16, <1>19 DEF Waits, FallsAsleep, q, t

-----------------------------------------------------------------------
(* The start: the tasks are made one after the other                          *)

MakesTasks(g) ==
  g = [i \in 0 .. Len(Created) |-> IF i = 0 THEN NoTasks ELSE AddNewTask(g[i - 1], Created[i])]

LEMMA InitSchedLoop ==
  ASSUME NEW f, MakesTasks(f)
  PROVE  \E g : MakesTasks(g) /\ InitSched = g[Len(Created)]
<1>1. InitSched = (CHOOSE g : MakesTasks(g))[Len(Created)]
  BY DEF InitSched, MakesTasks
<1>2. MakesTasks((CHOOSE g : MakesTasks(g)))
  BY Zenon
<1> QED BY <1>1, <1>2, Zenon

(* the first n tasks have been made                                           *)
Made(n, t) == \E j \in 1 .. n : Created[j] = t
TasksMade(s, n) ==
  /\ Formed(s)
  /\ s.prio = BasePriority /\ s.blocked = {} /\ s.delayed = <<>> /\ s.overflow = <<>>
  /\ s.pending = <<>> /\ s.suspended = 0 /\ s.tick = 0 /\ s.overflows = 0 /\ s.pended = 0
  /\ s.yield = FALSE /\ s.need = FALSE /\ s.isr = "none"
  /\ \A l \in EventList : s.events[l] = <<>>
  /\ \A p \in Priority : \A t \in Task :
       t \in Range(s.ready[p]) <=> BasePriority[t] = p /\ Made(n, t)
  /\ n > 0 => \A t \in Task : Made(n, t) => BasePriority[t] <= BasePriority[s.cur]

LEMMA CreatedIs ==
  /\ Len(Created) \in Nat /\ Len(Created) > 0 /\ IsInjective(Created)
  /\ \A i \in 1 .. Len(Created) : Created[i] \in Task
  /\ Head(Created) \in Task /\ Idle \in Task
  /\ \A t \in Task : \E j \in 1 .. Len(Created) : Created[j] = t
<1>1. Created \in Seq(Task) /\ Created # <<>> /\ IsInjective(Created)
  BY SchedAssumption
<1>2. Len(Created) \in Nat /\ Len(Created) > 0 /\ Head(Created) = Created[1]
  BY <1>1
<1>3. 1 \in 1 .. Len(Created) /\ Len(Created) \in 1 .. Len(Created)
  BY <1>2
<1>4. \A i \in 1 .. Len(Created) : Created[i] \in Task
  BY <1>1
<1>5. \A t \in Task : \E j \in 1 .. Len(Created) : Created[j] = t
  BY <1>1, InRange DEF Task
<1>6. Idle \in Task
  BY <1>3, <1>4 DEF Idle, Last
<1> QED BY <1>1, <1>2, <1>3, <1>4, <1>5, <1>6

LEMMA PrioritiesAre ==
  /\ BasePriority \in [Task -> Priority] /\ 0 \in Priority /\ Priority \subseteq Int
  /\ BasePriority[Idle] = 0 /\ TickMax \in 0 .. TickMax
BY SchedAssumption DEF Priority, configMAX_PRIORITIES

LEMMA NoTasksAre == TasksMade(NoTasks, 0)
<1> DEFINE s == NoTasks
<1>1. /\ s.prio = BasePriority /\ s.blocked = {} /\ s.delayed = <<>> /\ s.overflow = <<>>
      /\ s.pending = <<>> /\ s.suspended = 0 /\ s.tick = 0 /\ s.overflows = 0 /\ s.pended = 0
      /\ s.yield = FALSE /\ s.need = FALSE /\ s.isr = "none"
      /\ \A l \in EventList : s.events[l] = <<>>
      /\ \A p \in Priority : s.ready[p] = <<ListEnd>>
  BY DEF NoTasks
<1>2. s \in SchedStates
  <2>1. <<ListEnd>> \in Seq(Task \cup {ListEnd}) /\ 0 \in 0 .. 1 /\ 0 \in 0 .. TickMax
    BY Ticks
  <2>2. Head(Created) \in Task /\ BasePriority \in [Task -> Priority] /\ TickMax \in 0 .. TickMax
    BY CreatedIs, PrioritiesAre
  <2>3. <<>> \in Seq(Task) /\ <<>> \in Seq(Sleeper) /\ {} \in SUBSET Task
    OBVIOUS
  <2> QED BY <2>1, <2>2, <2>3 DEF NoTasks, SchedStates, portMAX_DELAY
<1> HIDE DEF s
<1>3. Range(<<ListEnd>>) = {ListEnd} /\ IsInjective(<<ListEnd>>)
  BY DEF Range, IsInjective
<1>4. Ordered(<<>>) /\ IsInjective(<<>>)
  BY DEF Ordered, IsInjective
<1>5. Formed(s)
  BY <1>1, <1>2, <1>3, <1>4 DEF Formed
<1>6. \A t \in Task : ~ Made(0, t)
  BY DEF Made
<1>7. \A p \in Priority : \A t \in Task : t \notin Range(s.ready[p])
  BY <1>1, <1>3, EndIsNoTask
<1> QED BY <1>1, <1>5, <1>6, <1>7 DEF TasksMade, s

LEMMA CurFields ==
  ASSUME NEW s \in SchedStates, NEW t \in Task
  PROVE  LET r == [s EXCEPT !.cur = t]
         IN  /\ r \in SchedStates /\ SameLists(s, r) /\ SameClock(s, r) /\ r.cur = t
             /\ r.suspended = s.suspended /\ r.need = s.need /\ r.isr = s.isr
             /\ r.next = s.next /\ r.yield = s.yield
BY DEF SchedStates, SameLists, SameClock

LEMMA TaskMade ==
  ASSUME NEW n \in Nat, n + 1 <= Len(Created), NEW s, TasksMade(s, n)
  PROVE  TasksMade(AddNewTask(s, Created[n + 1]), n + 1)
<1> DEFINE t == Created[n + 1]
           a == prvAddTaskToReadyList(s, t)
           c == IF s.prio[a.cur] <= s.prio[t] THEN t ELSE a.cur
           r == [a EXCEPT !.cur = c]
<1>1. t \in Task /\ n + 1 \in 1 .. Len(Created)
  BY CreatedIs
<1>2. s \in SchedStates /\ Formed(s) /\ s.prio = BasePriority
  BY DEF TasksMade, Formed
<1>3. AddNewTask(s, t) = r
  BY DEF AddNewTask
<1>4. ~ Made(n, t)
  <2> SUFFICES ASSUME NEW j \in 1 .. n, Created[j] = Created[n + 1] PROVE FALSE
    BY DEF Made
  <2>1. j \in 1 .. Len(Created) /\ j # n + 1
    BY CreatedIs
  <2>2. DOMAIN Created = 1 .. Len(Created)
    BY SchedAssumption
  <2> QED BY <1>1, <2>1, <2>2, CreatedIs DEF IsInjective
<1>5. \A u \in Task : Made(n + 1, u) <=> Made(n, u) \/ u = t
  <2>1. \A j \in 1 .. n + 1 : j = n + 1 \/ j \in 1 .. n
    OBVIOUS
  <2>2. \A j \in 1 .. n : j \in 1 .. n + 1
    OBVIOUS
  <2>3. n + 1 \in 1 .. n + 1
    OBVIOUS
  <2> QED BY <2>1, <2>2, <2>3 DEF Made
<1> HIDE DEF t
<1>6. BasePriority[t] \in Priority /\ ~ IsReady(s, t)
  BY <1>1, <1>2, <1>4, PrioritiesAre DEF TasksMade, IsReady
<1>7. /\ Formed(a) /\ OthersSame(s, a, t)
      /\ SameClock(s, a) /\ SameFlags(s, a) /\ a.next = s.next /\ a.yield = s.yield
      /\ a.events = s.events /\ a.delayed = s.delayed /\ a.overflow = s.overflow
      /\ a.blocked = s.blocked /\ a.pending = s.pending
      /\ IsReady(a, t)
      /\ \A p \in Priority : p # s.prio[t] => a.ready[p] = s.ready[p]
  BY <1>1, <1>2, <1>6, AddedIs
<1> HIDE DEF a
<1>8. a \in SchedStates /\ a.cur = s.cur /\ a.prio = BasePriority
  BY <1>2, <1>7 DEF Formed, SameFlags
<1>9. c \in Task
  BY <1>1, <1>8, StateType
<1> HIDE DEF c
<1>10. /\ r \in SchedStates /\ SameLists(a, r) /\ SameClock(a, r) /\ r.cur = c
       /\ r.suspended = a.suspended /\ r.need = a.need /\ r.isr = a.isr
       /\ r.yield = a.yield
  BY <1>8, <1>9, CurFields
<1> HIDE DEF r
<1>11. Formed(r)
  BY <1>7, <1>10 DEF Formed, SameLists
<1>12. /\ r.prio = BasePriority /\ r.blocked = {} /\ r.delayed = <<>> /\ r.overflow = <<>>
       /\ r.pending = <<>> /\ \A l \in EventList : r.events[l] = <<>>
  BY <1>7, <1>8, <1>10 DEF SameLists, TasksMade
<1>13. /\ r.suspended = 0 /\ r.tick = 0 /\ r.overflows = 0 /\ r.pended = 0
       /\ r.yield = FALSE /\ r.need = FALSE /\ r.isr = "none"
  BY <1>7, <1>10 DEF SameClock, SameFlags, TasksMade
<1>14. ASSUME NEW p \in Priority, NEW u \in Task
       PROVE  u \in Range(r.ready[p]) <=> BasePriority[u] = p /\ Made(n + 1, u)
  <2>1. r.ready = a.ready
    BY <1>10 DEF SameLists
  <2>2. u \in Range(s.ready[p]) <=> BasePriority[u] = p /\ Made(n, u)
    BY DEF TasksMade
  <2>3. CASE u # t
    <3>1. u \in Range(a.ready[p]) <=> u \in Range(s.ready[p])
      BY <1>7, <2>3 DEF OthersSame, SameTask
    <3> QED BY <1>5, <2>1, <2>2, <2>3, <3>1
  <2>4. CASE u = t /\ p = BasePriority[t]
    <3>1. t \in Range(a.ready[p])
      BY <1>7, <1>8, <2>4 DEF IsReady
    <3> QED BY <1>5, <2>1, <2>4, <3>1
  <2>5. CASE u = t /\ p # BasePriority[t]
    <3>1. a.ready[p] = s.ready[p]
      BY <1>2, <1>7, <2>5
    <3> QED BY <2>1, <2>2, <2>5, <3>1
  <2> QED BY <2>3, <2>4, <2>5
<1>15. ASSUME NEW u \in Task, Made(n + 1, u) PROVE BasePriority[u] <= BasePriority[c]
  <2>1. /\ BasePriority[u] \in Int /\ BasePriority[t] \in Int /\ BasePriority[s.cur] \in Int
        /\ c = IF BasePriority[s.cur] <= BasePriority[t] THEN t ELSE s.cur
    <3>1. s.cur \in Task
      BY <1>2, StateType
    <3>2. \A v \in Task : BasePriority[v] \in Int
      BY PrioritiesAre
    <3> QED BY <1>1, <1>2, <1>8, <3>1, <3>2 DEF c
  <2>2. CASE u = t
    BY <2>1, <2>2
  <2>3. CASE u # t
    <3>1. Made(n, u)
      BY <1>5, <1>15, <2>3
    <3>2. n > 0
      BY <3>1 DEF Made
    <3>3. BasePriority[u] <= BasePriority[s.cur]
      BY <3>1, <3>2 DEF TasksMade
    <3> QED BY <2>1, <3>3
  <2> QED BY <2>2, <2>3
<1> QED BY <1>3, <1>10, <1>11, <1>12, <1>13, <1>14, <1>15 DEF TasksMade, t

(* all steps of the loop can be taken                                         *)
LEMMA AddNewTaskType ==
  ASSUME NEW s \in SchedStates, \A p \in Priority : ListEnd \in Range(s.ready[p]), NEW t \in Task
  PROVE  LET r == AddNewTask(s, t)
         IN  r \in SchedStates /\ \A p \in Priority : ListEnd \in Range(r.ready[p])
<1> DEFINE top == s.prio[t]
           q == s.ready[top]
           new == vListInsertEnd(q, t)
           a == prvAddTaskToReadyList(s, t)
           c == IF s.prio[a.cur] <= s.prio[t] THEN t ELSE a.cur
           r == [a EXCEPT !.cur = c]
<1>1. AddNewTask(s, t) = r
  BY DEF AddNewTask
<1>2. top \in Priority /\ q \in Seq(Task \cup {ListEnd}) /\ ListEnd \in Range(q)
  BY StateType
<1>3. new \in Seq(Task \cup {ListEnd}) /\ Range(new) = Range(q) \cup {t}
  <2> HIDE DEF q
  <2>1. PICK i \in 1 .. Len(q) : q[i] = ListEnd
    BY <1>2, InRange
  <2>2. Len(q) \in 1 .. Len(q) + 1
    BY <1>2, <2>1
  <2> QED BY <1>2, <2>2, InsertedAt, InsertedRange DEF vListInsertEnd
<1>4. a \in SchedStates /\ a.ready = [s.ready EXCEPT ![top] = new]
  BY <1>3, AddedType, AddedFields
<1> HIDE DEF a, new
<1>5. ASSUME NEW p \in Priority PROVE ListEnd \in Range(a.ready[p])
  <2>1. a.ready[p] = IF p = top THEN new ELSE s.ready[p]
    BY <1>4 DEF SchedStates
  <2> QED BY <1>2, <1>3, <2>1
<1>6. c \in Task
  BY <1>4, StateType
<1> HIDE DEF c
<1>7. r \in SchedStates /\ SameLists(a, r)
  BY <1>4, <1>6, CurFields
<1> HIDE DEF r
<1> QED BY <1>1, <1>5, <1>7 DEF SameLists

LEMMA InitSchedMade == TasksMade(InitSched, Len(Created))
<1> DEFINE X == {s \in SchedStates : \A p \in Priority : ListEnd \in Range(s.ready[p])}
           n == Len(Created)
           G == [i \in Nat |-> [x \in X |-> IF i \in 1 .. n THEN AddNewTask(x, Created[i]) ELSE x]]
<1>1. NoTasks \in X
  BY NoTasksAre DEF TasksMade, Formed
<1>2. n \in Nat /\ n > 0 /\ \A i \in 1 .. n : Created[i] \in Task
  BY CreatedIs
<1>3. G \in [Nat -> [X -> X]]
  <2>1. ASSUME NEW i \in Nat, NEW x \in X
        PROVE  (IF i \in 1 .. n THEN AddNewTask(x, Created[i]) ELSE x) \in X
    BY <1>2, AddNewTaskType
  <2> HIDE DEF X
  <2> QED BY <2>1
<1>4. PICK g \in [0 .. n -> X] : Steps(g, G, NoTasks, n)
  BY <1>1, <1>2, <1>3, LoopExists
<1>5. MakesTasks(g)
  <2> DEFINE f == [i \in 0 .. n |-> IF i = 0 THEN NoTasks ELSE AddNewTask(g[i - 1], Created[i])]
  <2> SUFFICES g = f
    BY DEF MakesTasks
  <2> SUFFICES ASSUME NEW i \in 0 .. n PROVE g[i] = f[i]
    OBVIOUS
  <2>1. CASE i = 0
    BY <1>2, <1>4, <2>1 DEF Steps
  <2>2. CASE i # 0
    <3>1. i \in 1 .. n /\ i - 1 \in 0 .. n /\ i \in Nat
      BY <1>2, <2>2
    <3>2. g[i - 1] \in X
      BY <3>1
    <3> HIDE DEF n, X
    <3>3. g[i] = G[i][g[i - 1]]
      BY <1>4, <3>1 DEF Steps
    <3> QED BY <2>2, <3>1, <3>2, <3>3
  <2> QED BY <2>1, <2>2
<1> HIDE DEF G
<1>6. PICK h : MakesTasks(h) /\ InitSched = h[n]
  BY <1>5, InitSchedLoop
<1> DEFINE Good == {i \in Nat : i \in 0 .. n => TasksMade(h[i], i)}
<1>7. \A i \in 0 .. n : h[i] = IF i = 0 THEN NoTasks ELSE AddNewTask(h[i - 1], Created[i])
  <2>1. h = [i \in 0 .. n |-> IF i = 0 THEN NoTasks ELSE AddNewTask(h[i - 1], Created[i])]
    BY <1>6 DEF MakesTasks
  <2> QED BY <2>1
<1>8. 0 \in Good
  BY <1>2, <1>7, NoTasksAre
<1>9. ASSUME NEW i \in Nat, i \in Good PROVE i + 1 \in Good
  <2> SUFFICES ASSUME i + 1 \in 0 .. n PROVE TasksMade(h[i + 1], i + 1)
    OBVIOUS
  <2>1. i \in 0 .. n /\ i + 1 # 0 /\ (i + 1) - 1 = i /\ i + 1 <= n
    BY <1>2
  <2>2. TasksMade(h[i], i)
    BY <1>9, <2>1
  <2>3. h[i + 1] = AddNewTask(h[i], Created[i + 1])
    BY <1>7, <2>1
  <2> QED BY <2>1, <2>2, <2>3, TaskMade
<1> HIDE DEF Good
<1>10. \A i \in Nat : i \in Good
  BY <1>8, <1>9, SetInduction
<1>11. n \in 0 .. n
  BY <1>2
<1> QED BY <1>2, <1>6, <1>10, <1>11 DEF Good

LEMMA InitSchedIs ==
  LET s == InitSched
  IN  /\ Settled(s) /\ s.prio = BasePriority /\ s.pending = <<>> /\ s.suspended = 0
      /\ s.isr = "none" /\ s.cur \in Task /\ \A t \in Task : IsReady(s, t)
      /\ \A l \in EventList : s.events[l] = <<>>
<1> DEFINE s == InitSched
           n == Len(Created)
<1>1. TasksMade(s, n)
  BY InitSchedMade
<1> HIDE DEF s
<1>2. /\ Formed(s) /\ s \in SchedStates /\ s.cur \in Task
      /\ s.prio = BasePriority /\ s.blocked = {} /\ s.delayed = <<>> /\ s.overflow = <<>>
      /\ s.pending = <<>> /\ s.suspended = 0 /\ s.isr = "none"
      /\ \A l \in EventList : s.events[l] = <<>>
  BY <1>1, StateType DEF TasksMade, Formed
<1>3. n > 0 /\ \A t \in Task : Made(n, t)
  BY CreatedIs DEF Made
<1>4. \A t \in Task : /\ \A p \in Priority : t \in Range(s.ready[p]) => p = s.prio[t]
                      /\ IsReady(s, t)
  <2>1. \A t \in Task : BasePriority[t] \in Priority
    BY PrioritiesAre
  <2> QED BY <1>1, <1>2, <1>3, <2>1 DEF TasksMade, IsReady
<1>5. Range(<<>>) = {} /\ Asleep(<<>>) = {}
  BY DEF Range, Asleep
<1>6. ASSUME NEW t \in Task PROVE Placed(s, t)
  <2>1. ~ Dormant(s, t) /\ ~ Waiting(s, t) /\ ~ Held(s, t)
    BY <1>2, <1>5 DEF Dormant, Waiting, Held
  <2> QED BY <1>4, <2>1, ReadyPlaced
<1>7. Lists(s)
  BY <1>2, <1>6 DEF Lists
<1>8. OnTime(s)
  BY <1>2, <1>5 DEF OnTime, Dated, Expected, Timely
<1>9. ~ Higher(s)
  <2> SUFFICES ASSUME NEW t \in Task, s.prio[t] > s.prio[s.cur] PROVE FALSE
    BY DEF Higher
  <2>1. BasePriority[t] <= BasePriority[s.cur]
    BY <1>1, <1>3 DEF TasksMade
  <2>2. BasePriority[t] \in Int /\ BasePriority[s.cur] \in Int
    BY <1>2, PrioritiesAre
  <2> QED BY <1>2, <2>1, <2>2
<1>10. Settled(s)
  BY <1>2, <1>7, <1>8, <1>9 DEF Settled, Chosen
<1> QED BY <1>2, <1>4, <1>10 DEF s

----------------------------------------------------------------------------
(* The properties that the lists imply                                        *)

LEMMA TypesHold == ASSUME sched \in SchedStates PROVE SchedTypeOK
<1>1. /\ sched.cur \in Task /\ sched.prio \in [Task -> Priority]
      /\ \A p \in Priority : sched.ready[p] \in Seq(Task \cup {ListEnd})
      /\ \A l \in EventList : sched.events[l] \in Seq(Task)
      /\ sched.suspended \in 0 .. 1 /\ sched.tick \in 0 .. TickMax /\ sched.next \in 0 .. TickMax
      /\ sched.yield \in BOOLEAN /\ sched.need \in BOOLEAN
      /\ sched.isr \in {"none", "running", "ticked"}
  BY StateType
<1>2. \A p \in Priority : Range(sched.ready[p]) \subseteq Task \cup {ListEnd}
  BY <1>1, InRange
<1>3. \A l \in EventList : Range(sched.events[l]) \subseteq Task
  BY <1>1, InRange
<1> QED BY <1>1, <1>2, <1>3 DEF SchedTypeOK

LEMMA SleepsIs ==
  ASSUME NEW s \in SchedStates, NEW t \in Task
  PROVE  (\E d \in Sleepers(s) : d.task = t) <=> t \in Asleep(s.delayed) \/ t \in Asleep(s.overflow)
BY DEF Sleepers, Range, Asleep

LEMMA ListsHold == ASSUME Lists(sched) PROVE OneListEach
<1> SUFFICES ASSUME NEW t \in Task
             PROVE  LET sleeps == \E d \in Sleepers(sched) : d.task = t
                        waits == \E l \in EventList : t \in Range(sched.events[l])
                    IN  /\ ~ (IsReady(sched, t) /\ sleeps)
                        /\ IsReady(sched, t) <=> ~ sleeps /\ t \notin sched.blocked
                        /\ t \in sched.blocked => waits \/ t \in Range(sched.pending)
                        /\ waits => ~ IsReady(sched, t) /\ t \notin Range(sched.pending)
  BY DEF OneListEach
<1>1. sched \in SchedStates /\ Placed(sched, t)
  BY SettledState DEF Lists
<1>2. (\E d \in Sleepers(sched) : d.task = t) <=> t \in Asleep(sched.delayed) \/ t \in Asleep(sched.overflow)
  BY <1>1, SleepsIs
<1>3. IsReady(sched, t) <=> ~ Dormant(sched, t)
  BY <1>1 DEF Placed
<1> DEFINE sleeps == \E d \in Sleepers(sched) : d.task = t
<1>4. Dormant(sched, t) <=> sleeps \/ t \in sched.blocked
  BY <1>2 DEF Dormant
<1> HIDE DEF sleeps
<1>5. ~ (IsReady(sched, t) /\ sleeps)
  BY <1>3, <1>4
<1>6. IsReady(sched, t) <=> ~ sleeps /\ t \notin sched.blocked
  BY <1>3, <1>4
<1>7. t \in sched.blocked => Waiting(sched, t) \/ Held(sched, t)
  BY <1>1 DEF Placed
<1>8. Waiting(sched, t) => ~ IsReady(sched, t) /\ ~ Held(sched, t)
  BY <1>1 DEF Placed
<1> QED BY <1>5, <1>6, <1>7, <1>8 DEF sleeps, Waiting, Held
==============================================================================
