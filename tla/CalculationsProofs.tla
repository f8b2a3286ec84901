------------------------- MODULE CalculationsProofs -------------------------
(***************************************************************************)
(* Theorems about Resources, BlockGraph, ImageLayout and Fat16, for every  *)
(* machine word, graph of devices, partition table and length of the files *)
(* that Calculations asks about.  What is computed by recursion is brought *)
(* under Recursion and IntervalInduction, which take sets and functions,   *)
(* not operators.                                                          *)
(***************************************************************************)
EXTENDS Calculations, FiniteSetTheorems, WellFoundedInduction, TLAPS

----------------------------------------------------------------------------
(* Induction and recursion along an interval *)

\* Some number of a set is the smallest.
LEMMA SmallestNumber ==
    ASSUME NEW T \in SUBSET Nat, T # {}
    PROVE  \E x \in T : \A y \in T : x <= y
  <1>1. PICK x \in T : \A y \in T : ~(<<y, x>> \in OpToRel(<, Nat))
    BY NatLessThanWellFounded, WFMin
  <1>2. ASSUME NEW y \in T PROVE x <= y
    <2>1. ~(<<y, x>> \in OpToRel(<, Nat))
      BY <1>1
    <2>2. y \in Nat /\ x \in Nat
      OBVIOUS
    <2>3. ~(y < x)
      BY <2>1, <2>2 DEF OpToRel
    <2> QED BY <2>2, <2>3
  <1> QED BY <1>2

\* Induction along an interval: a set of numbers that contains 0 and goes on, is all of it.
LEMMA IntervalInduction ==
    ASSUME NEW N \in Nat, NEW T, 0 \in T, \A k \in 0..N : k \in T /\ k < N => k + 1 \in T
    PROVE  \A k \in 0..N : k \in T
  <1> SUFFICES ASSUME NEW k \in 0..N, k \notin T PROVE FALSE
    OBVIOUS
  <1> DEFINE M == {n \in 0..N : n \notin T}
  <1>1. M \in SUBSET Nat /\ M # {}
    OBVIOUS
  <1>2. PICK m \in M : \A y \in M : m <= y
    BY <1>1, SmallestNumber
  <1>3. m \in 1..N /\ m - 1 \in 0..N /\ m - 1 < N
    BY <1>2
  <1>4. m - 1 \in T
    BY <1>2, <1>3
  <1>5. (m - 1) + 1 = m
    BY <1>3
  <1> QED BY <1>2, <1>3, <1>4, <1>5

\* f starts with first, and goes on with next.
Recurs(f, N, first, next) == f[0] = first /\ \A n \in 1..N : f[n] = next[n][f[n - 1]]

\* A function defined by recursion along an interval exists.
LEMMA Recursion ==
    ASSUME NEW N \in Nat, NEW V, NEW first \in V, NEW next \in [1..N -> [V -> V]]
    PROVE  \E f \in [0..N -> V] : Recurs(f, N, first, next)
  <1> DEFINE T == {k \in 0..N : \E f \in [0..k -> V] : Recurs(f, k, first, next)}
  <1>1. 0 \in T
    <2>1. [n \in 0..0 |-> first] \in [0..0 -> V]
      OBVIOUS
    <2>2. Recurs([n \in 0..0 |-> first], 0, first, next)
      BY DEF Recurs
    <2>3. \E f \in [0..0 -> V] : Recurs(f, 0, first, next)
      BY <2>1, <2>2
    <2> QED BY <2>3
  <1>2. ASSUME NEW k \in 0..N, k \in T, k < N PROVE k + 1 \in T
    <2>1. PICK f \in [0..k -> V] : Recurs(f, k, first, next)
      BY <1>2
    <2>2. k \in Nat /\ k + 1 \in 1..N /\ f[k] \in V
      BY <1>2
    <2> DEFINE v == next[k + 1][f[k]]
    <2>3. v \in V
      BY <2>2
    <2> HIDE DEF v
    <2>4. PICK g : g = [n \in 0..(k + 1) |-> IF n = k + 1 THEN v ELSE f[n]]
      OBVIOUS
    <2>5. g \in [0..(k + 1) -> V]
      BY <2>2, <2>3, <2>4
    <2>6. \A n \in 0..k : g[n] = f[n]
      BY <2>2, <2>4
    <2>7. g[k + 1] = v
      BY <2>2, <2>4
    <2>8. Recurs(g, k + 1, first, next)
      <3>1. g[0] = first
        BY <2>1, <2>2, <2>6 DEF Recurs
      <3>2. ASSUME NEW n \in 1..(k + 1) PROVE g[n] = next[n][g[n - 1]]
        <4>1. CASE n = k + 1
          <5>1. g[n - 1] = f[k]
            BY <2>2, <2>6, <4>1
          <5> QED BY <2>7, <4>1, <5>1 DEF v
        <4>2. CASE n \in 1..k
          <5>1. g[n] = f[n] /\ g[n - 1] = f[n - 1]
            BY <2>2, <2>6, <4>2
          <5> QED BY <2>1, <4>2, <5>1 DEF Recurs
        <4> QED BY <2>2, <4>1, <4>2
      <3> QED BY <3>1, <3>2 DEF Recurs
    <2> QED BY <2>2, <2>5, <2>8
  <1>3. N \in T
    <2> HIDE DEF T
    <2>1. \A k \in 0..N : k \in T
      BY <1>1, <1>2, IntervalInduction
    <2> QED BY <2>1
  <1> QED BY <1>3

----------------------------------------------------------------------------
(* Machine arithmetic: what does not wrap around is exact. *)

LEMMA DivMul ==
    ASSUME NEW a \in Nat, NEW b \in Nat, NEW m \in Nat, b > 0, a <= m \div b
    PROVE  a * b <= m
  OBVIOUS

\* Wrapping yields a word, and leaves a word alone.
LEMMA WrapWord ==
    ASSUME NEW n \in Nat, MaxWord \in Nat
    PROVE  Wrap(n) \in Words
  BY DEF Wrap, Words

LEMMA WrapSmall ==
    ASSUME NEW n \in Words, MaxWord \in Nat
    PROVE  Wrap(n) = n
  BY DEF Wrap, Words

\* Differences that are not negative, sums and products that are words.
LEMMA MinusIs ==
    ASSUME NEW a \in Words, NEW b \in 0..a, MaxWord \in Nat
    PROVE  Minus(a, b) = a - b
  BY DEF Minus, Wrap, Words

LEMMA MaxMinus ==
    ASSUME NEW b \in Nat, b <= MaxWord, MaxWord \in Nat
    PROVE  Minus(MaxWord, b) = MaxWord - b
  <1>1. PICK a \in Words : a = MaxWord
    BY DEF Words
  <1>2. b \in 0..a
    BY <1>1
  <1> QED BY <1>1, <1>2, MinusIs

LEMMA PlusIs ==
    ASSUME NEW a \in Nat, NEW b \in Nat, a + b <= MaxWord, MaxWord \in Nat
    PROVE  Plus(a, b) = a + b
  <1>1. PICK n \in Words : n = a + b
    BY DEF Words
  <1>2. Wrap(n) = n
    BY WrapSmall
  <1> QED BY <1>1, <1>2 DEF Plus

LEMMA TimesIs ==
    ASSUME NEW a \in Nat, NEW b \in Nat, NEW n \in Nat, n = a * b, n <= MaxWord, MaxWord \in Nat
    PROVE  Times(a, b) = n
  <1>1. n \in Words
    BY DEF Words
  <1>2. Wrap(n) = n
    BY <1>1, WrapSmall
  <1> QED BY <1>2 DEF Times

----------------------------------------------------------------------------
(* The sum of the initramfs listing *)

\* The functions that SumOf and ListingTotal choose exist.
LEMMA SumExists ==
    ASSUME NEW s \in Seq(Words), MaxWord \in Nat
    PROVE  \E f \in [0..Len(s) -> Nat] :
              f = [n \in 0..Len(s) |-> IF n = 0 THEN 0 ELSE f[n - 1] + s[n]]
  <1>1. PICK N \in Nat : N = Len(s)
    OBVIOUS
  <1>2. \A n \in 1..N : s[n] \in Nat
    BY <1>1 DEF Words
  <1>3. PICK next : next = [n \in 1..N |-> [v \in Nat |-> v + s[n]]]
    OBVIOUS
  <1>4. next \in [1..N -> [Nat -> Nat]]
    BY <1>2, <1>3, SMTT(30)
  <1>a. PICK zero \in Nat : zero = 0
    OBVIOUS
  <1>b. PICK f \in [0..N -> Nat] : Recurs(f, N, zero, next)
    BY <1>4, Recursion
  <1>5. f[0] = 0 /\ \A n \in 1..N : f[n] = next[n][f[n - 1]]
    BY <1>a, <1>b DEF Recurs
  <1>6. \A n \in 1..N : f[n] = f[n - 1] + s[n]
    BY <1>3, <1>5
  <1>7. f = [n \in 0..N |-> IF n = 0 THEN 0 ELSE f[n - 1] + s[n]]
    BY <1>5, <1>6
  <1> QED BY <1>1, <1>7

LEMMA TotalExists ==
    ASSUME NEW s \in Seq(Words), MaxWord \in Nat
    PROVE  \E f \in [0..Len(s) -> Nat] :
              f = [n \in 0..Len(s) |->
                     IF n = 0 THEN 0
                     ELSE IF f[n - 1] = Refused \/ f[n - 1] > Minus(MaxWord, s[n]) THEN Refused
                     ELSE Plus(f[n - 1], s[n])]
  <1>1. PICK N \in Nat : N = Len(s)
    OBVIOUS
  <1>2. \A n \in 1..N : s[n] \in Nat
    BY <1>1 DEF Words
  <1>3. PICK next : next = [n \in 1..N |-> [v \in Nat |->
                     IF v = Refused \/ v > Minus(MaxWord, s[n]) THEN Refused ELSE Plus(v, s[n])]]
    OBVIOUS
  <1>4. next \in [1..N -> [Nat -> Nat]]
    <2>1. ASSUME NEW a \in Nat, NEW b \in Nat PROVE Plus(a, b) \in Nat
      <3>1. a + b \in Nat
        OBVIOUS
      <3>2. Wrap(a + b) \in Words
        BY <3>1, WrapWord
      <3> QED BY <3>2 DEF Plus, Words
    <2>2. Refused \in Nat
      BY DEF Refused
    <2> QED BY <1>2, <1>3, <2>1, <2>2
  <1>a. PICK zero \in Nat : zero = 0
    OBVIOUS
  <1>b. PICK f \in [0..N -> Nat] : Recurs(f, N, zero, next)
    BY <1>4, Recursion
  <1>5. f[0] = 0 /\ \A n \in 1..N : f[n] = next[n][f[n - 1]]
    BY <1>a, <1>b DEF Recurs
  <1>6. \A n \in 1..N : f[n] = IF f[n - 1] = Refused \/ f[n - 1] > Minus(MaxWord, s[n]) THEN Refused
                               ELSE Plus(f[n - 1], s[n])
    <2>1. \A n \in 1..N : n - 1 \in 0..N
      OBVIOUS
    <2>2. \A n \in 1..N : f[n - 1] \in Nat
      BY <1>5, <2>1
    <2> QED BY <1>3, <1>5, <2>2
  <1>7. f = [n \in 0..N |->
                     IF n = 0 THEN 0
                     ELSE IF f[n - 1] = Refused \/ f[n - 1] > Minus(MaxWord, s[n]) THEN Refused
                     ELSE Plus(f[n - 1], s[n])]
    <2>1. \A n \in 0..N : f[n] = IF n = 0 THEN 0
                     ELSE IF f[n - 1] = Refused \/ f[n - 1] > Minus(MaxWord, s[n]) THEN Refused
                     ELSE Plus(f[n - 1], s[n])
      <3>1. \A n \in 0..N : n = 0 \/ n \in 1..N
        OBVIOUS
      <3> QED BY <1>5, <1>6, <3>1
    <2> QED BY <1>5, <2>1
  <1> QED BY <1>1, <1>7

\* A total that is not refused is the sum of the listing, and a word.
LEMMA TotalIsTheSum ==
    ASSUME NEW s \in Seq(Words), MaxWord \in Nat
    PROVE  /\ SumOf(s) \in Nat
           /\ ListingTotal(s) # Refused => ListingTotal(s) = SumOf(s) /\ SumOf(s) \in Words
  <1>1. PICK N \in Nat : N = Len(s)
    OBVIOUS
  <1> DEFINE sum == CHOOSE f : f = [n \in 0..Len(s) |-> IF n = 0 THEN 0 ELSE f[n - 1] + s[n]]
             total == CHOOSE f : f = [n \in 0..Len(s) |->
                     IF n = 0 THEN 0
                     ELSE IF f[n - 1] = Refused \/ f[n - 1] > Minus(MaxWord, s[n]) THEN Refused
                     ELSE Plus(f[n - 1], s[n])]
  <1>2. SumOf(s) = sum[Len(s)]
    BY DEF SumOf
  <1>3. ListingTotal(s) # Refused => ListingTotal(s) = total[Len(s)]
    BY DEF ListingTotal
  <1>4. sum = [n \in 0..N |-> IF n = 0 THEN 0 ELSE sum[n - 1] + s[n]]
    BY <1>1, SumExists
  <1>5. total = [n \in 0..N |->
                     IF n = 0 THEN 0
                     ELSE IF total[n - 1] = Refused \/ total[n - 1] > Minus(MaxWord, s[n]) THEN Refused
                     ELSE Plus(total[n - 1], s[n])]
    BY <1>1, TotalExists
  <1> HIDE DEF sum, total
  <1> DEFINE T == {k \in 0..N : /\ sum[k] \in Nat
                                /\ total[k] = Refused \/ (total[k] = sum[k] /\ sum[k] \in Words)}
  <1>6. 0 \in T
    BY <1>4, <1>5 DEF Words
  <1>7. ASSUME NEW k \in 0..N, k \in T, k < N PROVE k + 1 \in T
    <2>1. k + 1 \in 0..N /\ k + 1 # 0 /\ (k + 1) - 1 = k /\ k + 1 \in 1..N
      BY <1>7
    <2>2. s[k + 1] \in Words
      BY <1>1, <2>1
    <2>3. sum[k + 1] = sum[k] + s[k + 1]
      BY <1>4, <2>1
    <2>4. total[k + 1] = IF total[k] = Refused \/ total[k] > Minus(MaxWord, s[k + 1]) THEN Refused
                         ELSE Plus(total[k], s[k + 1])
      BY <1>5, <2>1
    <2>5. sum[k] \in Nat /\ (total[k] = Refused \/ (total[k] = sum[k] /\ sum[k] \in Words))
      BY <1>7
    <2>6. sum[k + 1] \in Nat
      BY <2>2, <2>3, <2>5 DEF Words
    <2>7. ASSUME total[k + 1] # Refused PROVE total[k + 1] = sum[k + 1] /\ sum[k + 1] \in Words
      <3>1. total[k] = sum[k] /\ sum[k] \in Words /\ ~(total[k] > Minus(MaxWord, s[k + 1]))
            /\ total[k + 1] = Plus(sum[k], s[k + 1])
        BY <2>4, <2>5, <2>7
      <3>2. Minus(MaxWord, s[k + 1]) = MaxWord - s[k + 1]
        <4>1. s[k + 1] \in Nat /\ s[k + 1] <= MaxWord
          BY <2>2 DEF Words
        <4> QED BY <4>1, MaxMinus, Zenon
      <3>3. sum[k] + s[k + 1] \in Words
        BY <2>2, <3>1, <3>2 DEF Words
      <3> QED BY <2>3, <3>1, <3>3, WrapSmall DEF Plus
    <2> HIDE DEF T
    <2> QED BY <2>1, <2>6, <2>7 DEF T
  <1>8. N \in T
    <2> HIDE DEF T
    <2>1. \A k \in 0..N : k \in T
      BY <1>6, <1>7, IntervalInduction
    <2> QED BY <2>1
  <1> QED BY <1>1, <1>2, <1>3, <1>8

----------------------------------------------------------------------------
(* The estimates of one staging *)

SizesInv ==
    /\ step \in {"space", "build", "measure", "accepted", "refused"}
    /\ image \in FileSizes /\ base \in FileSizes /\ blockSize \in FileSizes
    /\ blocks \in Words /\ memory \in Words /\ compressed \in FileSizes
    /\ listing \in Seq(Words)

EstimatesInv == SizesInv /\ BuildFits /\ WriterFits

\* The overflow check of the build estimate lets only exact sums through.
LEMMA BuildIsExact ==
    ASSUME NEW i \in FileSizes, NEW b \in FileSizes, BuildRequired(i, b) # Refused
    PROVE  BuildRequired(i, b) = i + 4 * b + BuildSpare
  <1>1. /\ MaxWord \in Nat /\ BuildSpare \in Nat /\ 2 * BuildSpare < MaxWord
        /\ i \in Nat /\ 2 * i < MaxWord /\ b \in Nat
    BY ResourcesAssumption DEF FileSizes, Words
  <1>2. Minus(MaxWord, i) = MaxWord - i
    <2>1. i <= MaxWord
      BY <1>1
    <2> QED BY <1>1, <2>1, MaxMinus, Zenon
  <1>3. Minus(MaxWord - i, BuildSpare) = (MaxWord - i) - BuildSpare
    <2>1. MaxWord - i \in Words /\ BuildSpare \in 0..(MaxWord - i)
      BY <1>1 DEF Words
    <2> QED BY <1>1, <2>1, MinusIs
  <1>4. ~(b > ((MaxWord - i) - BuildSpare) \div 4)
    BY <1>2, <1>3 DEF BuildRequired
  <1>5. i + 4 * b + BuildSpare <= MaxWord
    BY <1>1, <1>4
  <1>6. PICK m \in Nat : m = 4 * b /\ m <= MaxWord
    BY <1>1, <1>5
  <1>7. PICK n \in Nat : n = i + m
    BY <1>1
  <1>8. Times(4, b) = m
    <2>1. 4 \in Nat
      OBVIOUS
    <2> QED BY <1>1, <1>6, <2>1, TimesIs, Zenon
  <1>10. Plus(i, m) = n
    <2>1. i + m <= MaxWord
      BY <1>1, <1>5, <1>6
    <2> QED BY <1>1, <1>7, <2>1, PlusIs, Zenon
  <1>11. Plus(n, BuildSpare) = n + BuildSpare
    <2>1. n + BuildSpare <= MaxWord
      BY <1>1, <1>5, <1>6, <1>7
    <2> QED BY <1>1, <2>1, PlusIs, Zenon
  <1>9. BuildRequired(i, b) = Plus(Plus(i, Times(4, b)), BuildSpare)
    BY DEF BuildRequired
  <1> QED BY <1>1, <1>6, <1>7, <1>8, <1>9, <1>10, <1>11

\* The check of the free space compares the exact product.
LEMMA SpaceIsExact ==
    ASSUME NEW n \in Words, NEW size \in Words, NEW required, EnoughSpace(n, size, required)
    PROVE  n * size >= required
  <1>1. n \in Nat /\ size \in Nat /\ size > 0 /\ n <= MaxWord \div size /\ MaxWord \in Nat
    BY ResourcesAssumption DEF EnoughSpace, Words
  <1>2. n * size <= MaxWord
    BY <1>1, DivMul
  <1>3. PICK m \in Nat : m = n * size
    BY <1>1
  <1>4. Times(n, size) = m
    BY <1>1, <1>2, <1>3, TimesIs
  <1> QED BY <1>3, <1>4 DEF EnoughSpace

\* The two overflow checks of the memory estimate let only exact sums through.
LEMMA MemoryIsExact ==
    ASSUME NEW u \in Words, NEW c \in FileSizes, MemoryRequired(u, c) # Refused
    PROVE  MemoryRequired(u, c) = u + c + MemorySpare
  <1>1. /\ MaxWord \in Nat /\ MemorySpare \in Nat /\ 2 * MemorySpare < MaxWord
        /\ c \in Nat /\ 2 * c < MaxWord /\ u \in Nat /\ u <= MaxWord
    BY ResourcesAssumption DEF FileSizes, Words
  <1>2. Minus(MaxWord, c) = MaxWord - c
    <2>1. c <= MaxWord
      BY <1>1
    <2> QED BY <1>1, <2>1, MaxMinus, Zenon
  <1>3. Minus(MaxWord - c, MemorySpare) = (MaxWord - c) - MemorySpare
    <2>1. MaxWord - c \in Words /\ MemorySpare \in 0..(MaxWord - c)
      BY <1>1 DEF Words
    <2> QED BY <1>1, <2>1, MinusIs
  <1>4. ~(u > (MaxWord - c) - MemorySpare)
    BY <1>2, <1>3 DEF MemoryRequired
  <1>5. u + c + MemorySpare <= MaxWord
    BY <1>1, <1>4
  <1>6. PICK n \in Nat : n = u + c
    BY <1>1
  <1>7. Plus(u, c) = n
    <2>1. u + c <= MaxWord
      BY <1>1, <1>5
    <2> QED BY <1>1, <1>6, <2>1, PlusIs, Zenon
  <1>9. Plus(n, MemorySpare) = n + MemorySpare
    <2>1. n + MemorySpare <= MaxWord
      BY <1>1, <1>5, <1>6
    <2> QED BY <1>1, <2>1, PlusIs, Zenon
  <1>8. MemoryRequired(u, c) = Plus(Plus(u, c), MemorySpare)
    BY DEF MemoryRequired
  <1> QED BY <1>6, <1>7, <1>8, <1>9

\* EstimatesInv is inductive.
LEMMA EstimatesInit == Init => EstimatesInv
  <1> SUFFICES ASSUME Init PROVE EstimatesInv
    OBVIOUS
  <1>1. 0 \in FileSizes /\ 0 \in Words
    BY ResourcesAssumption DEF FileSizes, Words
  <1>2. step \in {"space", "refused"} /\ listing = <<>> /\ compressed = 0
    BY DEF Init, EstimateInit
  <1>3. /\ image \in FileSizes /\ base \in FileSizes /\ blockSize \in FileSizes
        /\ blocks \in Words /\ memory \in Words
    BY <1>1 DEF Init, EstimateInit
  <1>4. <<>> \in Seq(Words)
    OBVIOUS
  <1> QED BY <1>1, <1>2, <1>3, <1>4 DEF EstimatesInv, SizesInv, BuildFits, WriterFits

LEMMA EstimatesNext == EstimatesInv /\ [Next]_vars => EstimatesInv'
  <1> SUFFICES ASSUME EstimatesInv, [Next]_vars PROVE EstimatesInv'
    OBVIOUS
  <1>0. SizesInv /\ BuildFits /\ WriterFits
    BY DEF EstimatesInv
  <1>1. CASE UNCHANGED estimateVars
    BY <1>0, <1>1 DEF EstimatesInv, SizesInv, BuildFits, WriterFits, SumOf, estimateVars, estimateInputs
  <1>2. CASE CheckSpace
    <2>1. /\ UNCHANGED <<image, base, blocks, blockSize, memory, listing, compressed>>
          /\ step' \in {"build", "refused"}
      BY <1>2 DEF CheckSpace, estimateInputs
    <2>2. SizesInv' /\ WriterFits'
      BY <1>0, <2>1 DEF SizesInv, WriterFits
    <2>3. ASSUME step' = "build" PROVE image + 4 * base + BuildSpare <= blocks * blockSize
      <3>1. /\ BuildRequired(image, base) # Refused
            /\ EnoughSpace(blocks, blockSize, BuildRequired(image, base))
        BY <1>2, <2>3 DEF CheckSpace
      <3>2. blocks \in Words /\ blockSize \in Words /\ image \in FileSizes /\ base \in FileSizes
        BY <1>0 DEF SizesInv, FileSizes
      <3>3. BuildRequired(image, base) = image + 4 * base + BuildSpare
        BY <3>1, <3>2, BuildIsExact
      <3>4. blocks * blockSize >= BuildRequired(image, base)
        BY <3>1, <3>2, SpaceIsExact
      <3>5. image + 4 * base + BuildSpare \in Nat /\ blocks \in Nat /\ blockSize \in Nat
        BY <3>2, ResourcesAssumption DEF FileSizes, Words
      <3> QED BY <3>3, <3>4, <3>5
    <2> QED BY <2>1, <2>2, <2>3 DEF EstimatesInv, BuildFits
  <1>3. CASE Build
    <2>1. /\ UNCHANGED <<image, base, blocks, blockSize, memory>>
          /\ step = "build" /\ step' = "measure" /\ compressed' \in FileSizes
      BY <1>3 DEF Build, estimateInputs
    <2>2. listing' \in Seq(Words)
      <3>1. PICK n \in 0..Files : listing' \in [1..n -> Sizes \cap Words]
        BY <1>3 DEF Build
      <3>2. n \in Nat /\ listing' \in [1..n -> Words]
        BY <3>1, ResourcesAssumption
      <3> QED BY <3>2
    <2> QED BY <1>0, <2>1, <2>2 DEF EstimatesInv, SizesInv, BuildFits, WriterFits
  <1>4. CASE Measure
    <2>1. /\ UNCHANGED <<image, base, blocks, blockSize, memory, listing, compressed>>
          /\ step = "measure" /\ step' \in {"accepted", "refused"}
      BY <1>4 DEF Measure, estimateInputs
    <2>2. SizesInv' /\ BuildFits'
      BY <1>0, <2>1 DEF SizesInv, BuildFits
    <2>3. ASSUME step' = "accepted" PROVE SumOf(listing) + compressed + MemorySpare <= memory
      <3>1. MemoryAccepted(memory, ListingTotal(listing), compressed, image)
        BY <1>4, <2>3 DEF Measure
      <3>2. PICK u : u = ListingTotal(listing)
        OBVIOUS
      <3>3. u = SumOf(listing) /\ u \in Words
        BY <1>0, <3>1, <3>2, TotalIsTheSum, ResourcesAssumption DEF MemoryAccepted, SizesInv
      <3>4. MemoryRequired(u, compressed) # Refused /\ memory >= MemoryRequired(u, compressed)
        BY <3>1, <3>2 DEF MemoryAccepted
      <3>5. compressed \in FileSizes
        BY <1>0 DEF SizesInv
      <3>6. MemoryRequired(u, compressed) = u + compressed + MemorySpare
        BY <3>3, <3>4, <3>5, MemoryIsExact
      <3>7. u + compressed + MemorySpare \in Nat /\ memory \in Nat
        BY <1>0, <3>3, <3>5, ResourcesAssumption DEF SizesInv, FileSizes, Words
      <3> QED BY <3>3, <3>4, <3>6, <3>7
    <2>4. SumOf(listing)' = SumOf(listing)
      BY <2>1
    <2> QED BY <2>1, <2>2, <2>3, <2>4 DEF EstimatesInv, WriterFits
  <1>5. UNCHANGED estimateVars \/ CheckSpace \/ Build \/ Measure
    BY DEF Next, vars, Asked, FindTarget, PrepareEsp, Inspect, ValidateGPT, Estimate, EstimateNext
  <1> QED BY <1>1, <1>2, <1>3, <1>4, <1>5

\* resources.go, stage.go: a build that is started fits the file system it is made
\* on, for every width of the machine word and every size, blocks and block size.
THEOREM BuildFitsHolds == Spec => []BuildFits
  <1>1. EstimatesInv => BuildFits
    BY DEF EstimatesInv
  <1> QED BY <1>1, EstimatesInit, EstimatesNext, PTL DEF Spec

\* resources.go: the files of an accepted writer, its image and the reserve fit the
\* memory, for every listing: the sum that is compared has not wrapped around.
THEOREM WriterFitsHolds == Spec => []WriterFits
  <1>1. EstimatesInv => WriterFits
    BY DEF EstimatesInv
  <1> QED BY <1>1, EstimatesInit, EstimatesNext, PTL DEF Spec

----------------------------------------------------------------------------
(* The searches on the block devices *)

\* A search goes on in steps.
IsSearch(after, start, next) ==
    /\ after \in [0..Cardinality(Node) -> SUBSET Node]
    /\ after[0] = {start}
    /\ \A k \in 1..Cardinality(Node) :
          after[k] = after[k - 1] \cup UNION {next[n] : n \in after[k - 1]}

\* Visited is where such a search ends.
LEMMA VisitedIsSearch ==
    ASSUME NEW start \in Node, NEW next \in [Node -> SUBSET Node]
    PROVE  \E after : IsSearch(after, start, next) /\ Visited(start, next) = after[Cardinality(Node)]
  <1>1. PICK N \in Nat : N = Cardinality(Node)
    BY BlockGraphAssumption, FS_CardinalityType
  <1>2. PICK V : V = SUBSET Node
    OBVIOUS
  <1>3. PICK grow : grow = [k \in 1..N |-> [S \in V |-> S \cup UNION {next[n] : n \in S}]]
    OBVIOUS
  <1>4. grow \in [1..N -> [V -> V]]
    <2>1. ASSUME NEW S \in V PROVE S \cup UNION {next[n] : n \in S} \in V
      BY <1>2
    <2> QED BY <1>3, <2>1
  <1>5. PICK first \in V : first = {start}
    BY <1>2
  <1>6. PICK f \in [0..N -> V] : Recurs(f, N, first, grow)
    BY <1>4, Recursion
  <1>7. f[0] = {start} /\ \A k \in 1..N : f[k] = grow[k][f[k - 1]]
    BY <1>5, <1>6 DEF Recurs
  <1>8. \A k \in 1..N : f[k] = f[k - 1] \cup UNION {next[n] : n \in f[k - 1]}
    <2>1. \A k \in 1..N : k - 1 \in 0..N
      OBVIOUS
    <2>2. \A k \in 1..N : f[k - 1] \in V
      BY <1>6, <2>1
    <2> QED BY <1>3, <1>7, <2>2
  <1>9. \A k \in 0..N : f[k] = IF k = 0 THEN {start}
                               ELSE f[k - 1] \cup UNION {next[n] : n \in f[k - 1]}
    <2>1. \A k \in 0..N : k = 0 \/ k \in 1..N
      OBVIOUS
    <2> QED BY <1>7, <1>8, <2>1
  <1>10. f = [k \in 0..N |-> IF k = 0 THEN {start}
                             ELSE f[k - 1] \cup UNION {next[n] : n \in f[k - 1]}]
    BY <1>6, <1>9
  <1> DEFINE after == CHOOSE a : a = [k \in 0..Cardinality(Node) |->
                        IF k = 0 THEN {start} ELSE a[k - 1] \cup UNION {next[n] : n \in a[k - 1]}]
  <1>11. Visited(start, next) = after[Cardinality(Node)]
    BY DEF Visited
  <1>12. after = [k \in 0..N |-> IF k = 0 THEN {start}
                                 ELSE after[k - 1] \cup UNION {next[n] : n \in after[k - 1]}]
    BY <1>1, <1>10
  <1> HIDE DEF after
  <1>13. after[0] = {start} /\ \A k \in 1..N : after[k] = after[k - 1] \cup UNION {next[n] : n \in after[k - 1]}
    <2>1. 0 \in 0..N
      BY <1>1
    <2>2. after[0] = {start}
      BY <1>12, <2>1
    <2>3. ASSUME NEW k \in 1..N PROVE after[k] = after[k - 1] \cup UNION {next[n] : n \in after[k - 1]}
      <3>1. k \in 0..N /\ k # 0
        BY <1>1
      <3> QED BY <1>12, <3>1
    <2> QED BY <2>2, <2>3
  <1>14. \A k \in 0..N : after[k] \subseteq Node
    <2> DEFINE T == {k \in 0..N : after[k] \subseteq Node}
    <2>1. 0 \in T
      BY <1>13
    <2>2. ASSUME NEW k \in 0..N, k \in T, k < N PROVE k + 1 \in T
      <3>1. k + 1 \in 1..N /\ (k + 1) - 1 = k /\ k + 1 \in 0..N
        BY <2>2
      <3>2. after[k + 1] = after[k] \cup UNION {next[n] : n \in after[k]}
        BY <1>13, <3>1
      <3>3. after[k + 1] \subseteq Node
        BY <2>2, <3>2
      <3> QED BY <3>1, <3>3
    <2>3. \A k \in 0..N : k \in T
      <3> HIDE DEF T
      <3> QED BY <2>1, <2>2, IntervalInduction
    <2> QED BY <2>3
  <1>15. after \in [0..N -> SUBSET Node]
    BY <1>12, <1>14
  <1>16. IsSearch(after, start, next)
    BY <1>1, <1>13, <1>15 DEF IsSearch
  <1> QED BY <1>11, <1>16

\* What a search visits lies in every set that its start and its steps lie in.
LEMMA VisitedWithin ==
    ASSUME NEW start \in Node, NEW next \in [Node -> SUBSET Node],
           NEW C, start \in C, \A m \in C \cap Node : next[m] \subseteq C
    PROVE  Visited(start, next) \subseteq C
  <1>1. PICK after : IsSearch(after, start, next) /\ Visited(start, next) = after[Cardinality(Node)]
    BY VisitedIsSearch
  <1>2. PICK N \in Nat : N = Cardinality(Node)
    BY BlockGraphAssumption, FS_CardinalityType
  <1> DEFINE T == {k \in 0..N : after[k] \subseteq C}
  <1>3. 0 \in T
    BY <1>1 DEF IsSearch
  <1>4. ASSUME NEW k \in 0..N, k \in T, k < N PROVE k + 1 \in T
    <2>1. k + 1 \in 1..N /\ (k + 1) - 1 = k /\ k + 1 \in 0..N
      BY <1>4
    <2>2. after[k + 1] = after[k] \cup UNION {next[n] : n \in after[k]} /\ after[k] \subseteq Node
      BY <1>1, <1>2, <2>1 DEF IsSearch
    <2>3. after[k + 1] \subseteq C
      BY <1>4, <2>2
    <2> QED BY <2>1, <2>3
  <1>5. \A k \in 0..N : k \in T
    <2> HIDE DEF T
    <2> QED BY <1>3, <1>4, IntervalInduction
  <1> QED BY <1>1, <1>2, <1>5

\* A part of a finite set has fewer elements.
LEMMA SmallerPart ==
    ASSUME NEW A, NEW B, IsFiniteSet(B), A \subseteq B, A # B
    PROVE  Cardinality(A) < Cardinality(B)
  <1>1. IsFiniteSet(A) /\ Cardinality(A) <= Cardinality(B) /\ (Cardinality(A) = Cardinality(B) => A = B)
    BY FS_Subset
  <1>2. Cardinality(A) \in Nat /\ Cardinality(B) \in Nat
    BY <1>1, FS_CardinalityType
  <1> QED BY <1>1, <1>2

\* A search that has as many steps as there are devices has come to an end.
LEMMA VisitedIsClosed ==
    ASSUME NEW start \in Node, NEW next \in [Node -> SUBSET Node]
    PROVE  /\ Visited(start, next) \subseteq Node /\ start \in Visited(start, next)
           /\ \A m \in Visited(start, next) : next[m] \subseteq Visited(start, next)
  <1>1. PICK after : IsSearch(after, start, next) /\ Visited(start, next) = after[Cardinality(Node)]
    BY VisitedIsSearch
  <1>2. PICK N \in Nat : N = Cardinality(Node)
    BY BlockGraphAssumption, FS_CardinalityType
  <1>3. after[0] = {start} /\ \A k \in 0..N : after[k] \subseteq Node /\ IsFiniteSet(after[k])
    BY <1>1, <1>2, BlockGraphAssumption, FS_Subset DEF IsSearch
  <1> DEFINE Closed(S) == \A m \in S : next[m] \subseteq S
             T == {k \in 0..N : start \in after[k] /\ (Closed(after[k]) \/ Cardinality(after[k]) > k)}
  <1>4. 0 \in T
    <2>1. Cardinality(after[0]) = 1
      BY <1>3, FS_Singleton
    <2>2. Cardinality(after[0]) > 0 /\ start \in after[0] /\ 0 \in 0..N
      BY <1>2, <1>3, <2>1
    <2> HIDE DEF Closed
    <2> QED BY <2>2
  <1>5. ASSUME NEW k \in 0..N, k \in T, k < N PROVE k + 1 \in T
    <2>1. k + 1 \in 1..N /\ (k + 1) - 1 = k /\ k + 1 \in 0..N
      BY <1>5
    <2>2. after[k + 1] = after[k] \cup UNION {next[n] : n \in after[k]}
      BY <1>1, <1>2, <2>1 DEF IsSearch
    <2>3. start \in after[k + 1]
      BY <1>5, <2>2
    <2>4. CASE Closed(after[k])
      <3>1. after[k + 1] = after[k]
        BY <2>2, <2>4
      <3> QED BY <2>1, <2>3, <2>4, <3>1
    <2>5. CASE ~Closed(after[k])
      <3>1. Cardinality(after[k]) > k
        BY <1>5, <2>5
      <3>2. after[k] \subseteq after[k + 1] /\ after[k] # after[k + 1]
        BY <2>2, <2>5
      <3>3. IsFiniteSet(after[k + 1]) /\ IsFiniteSet(after[k])
        BY <1>3, <2>1
      <3>4. Cardinality(after[k]) < Cardinality(after[k + 1])
        <4>1. PICK A, B : A = after[k] /\ B = after[k + 1]
          OBVIOUS
        <4>2. IsFiniteSet(B) /\ A \subseteq B /\ A # B
          BY <3>2, <3>3, <4>1
        <4>3. Cardinality(A) < Cardinality(B)
          BY <4>2, SmallerPart
        <4> QED BY <4>1, <4>3
      <3>5. Cardinality(after[k + 1]) \in Nat /\ Cardinality(after[k]) \in Nat /\ k \in Nat
        BY <3>3, FS_CardinalityType
      <3>6. Cardinality(after[k + 1]) > k + 1
        BY <3>1, <3>4, <3>5
      <3> QED BY <2>1, <2>3, <3>6
    <2> QED BY <2>4, <2>5
  <1>6. N \in T
    <2> HIDE DEF T
    <2>1. \A k \in 0..N : k \in T
      BY <1>4, <1>5, IntervalInduction
    <2> QED BY <2>1
  <1>7. Cardinality(after[N]) <= N
    BY <1>2, <1>3, BlockGraphAssumption, FS_Subset
  <1>8. Cardinality(after[N]) \in Nat
    BY <1>3, FS_CardinalityType
  <1>9. Closed(after[N]) /\ start \in after[N]
    BY <1>6, <1>7, <1>8
  <1> QED BY <1>1, <1>2, <1>3, <1>9

----------------------------------------------------------------------------
(* What is answered *)

\* A partition that was built, whatever is read back of it, and what validation says.
EspAnswer ==
    IF Built(question.loader, question.map, question.efi)
    THEN \E esp \in {Layout(question.loader, question.map)}
                    \cup ReadBack(Layout(question.loader, question.map)) :
            answer = <<[built |-> TRUE, esp |-> esp,
                        valid |-> ValidEsp(esp, question.loader, question.map)]>>
    ELSE answer = <<[built |-> FALSE]>>

\* The answer is what the code computes for the question that was asked.
AnswersInv ==
    /\ task = "target" => question \in Graphs /\ (answer # <<>> => answer = <<DetectTarget(question)>>)
    /\ task = "layout" =>
        question \in Tables /\ (answer # <<>> => answer = <<Inspected(question.mbr, question.size)>>)
    /\ task = "gpt" => question \in Images /\ (answer # <<>> => answer = <<OfficialGPT(question)>>)
    /\ task = "esp" => question \in BootFiles /\ (answer # <<>> => EspAnswer)

\* AnswersInv is inductive.
LEMMA AnswersInit == Init => AnswersInv
  BY DEF Init, AnswersInv

LEMMA AnswersNext == AnswersInv /\ [Next]_vars => AnswersInv'
  <1> SUFFICES ASSUME AnswersInv, [Next]_vars PROVE AnswersInv'
    OBVIOUS
  <1>1. CASE UNCHANGED <<task, question, answer>>
    BY <1>1 DEF AnswersInv, EspAnswer
  <1>2. CASE FindTarget
    BY <1>2 DEF FindTarget, Asked, AnswersInv
  <1>3. CASE PrepareEsp
    <2>1. task = "esp" /\ UNCHANGED <<task, question>> /\ question \in BootFiles
      BY <1>3 DEF PrepareEsp, Asked, AnswersInv
    <2>2. EspAnswer'
      BY <1>3, <2>1 DEF PrepareEsp, EspAnswer
    <2> QED BY <2>1, <2>2 DEF AnswersInv
  <1>4. CASE Inspect
    BY <1>4 DEF Inspect, Asked, AnswersInv
  <1>5. CASE ValidateGPT
    BY <1>5 DEF ValidateGPT, Asked, AnswersInv
  <1> QED BY <1>1, <1>2, <1>3, <1>4, <1>5 DEF Next, Estimate, vars

LEMMA AnswersHold == Spec => []AnswersInv
  BY AnswersInit, AnswersNext, PTL DEF Spec

----------------------------------------------------------------------------
(* The target on an installed system *)

\* Without a blocker there is one candidate, which is the target and has a supported name.
LEMMA TargetIsCandidate ==
    ASSUME NEW g, GraphBlockers(g) = {}
    PROVE  /\ OnDevice(g) \/ g.live
           /\ \E t : /\ Candidates(g) = {t} /\ Target(g) = t
                     /\ t # NoNode => SupportedKernelName(g.kind[t])
  <1>1. /\ ~(g.btrfs \/ (OnDevice(g) /\ UnsafeTypes(g) # {})) /\ ~(~OnDevice(g) /\ ~g.live)
        /\ ~(Cardinality(Candidates(g)) # 1)
        /\ ~(Target(g) # NoNode /\ ~SupportedKernelName(g.kind[Target(g)]))
    BY DEF GraphBlockers
  <1>2. IsFiniteSet(Candidates(g))
    <2>1. Candidates(g) \subseteq Node
      BY DEF Candidates, BackingDisks, Disks
    <2> QED BY <2>1, BlockGraphAssumption, FS_Subset
  <1>3. PICK t : Candidates(g) = {t}
    BY <1>1, <1>2, FS_Singleton
  <1>4. Target(g) = t
    BY <1>1, <1>3 DEF Target
  <1> QED BY <1>1, <1>3, <1>4

\* The parents of what the search from / visits are visited too, except those of disks.
LEMMA RootStackIsClosed ==
    ASSUME NEW g \in GraphType, OnDevice(g)
    PROVE  /\ RootStack(g) \subseteq Node /\ Lookup(g) \in RootStack(g)
           /\ \A m \in RootStack(g) : ~IsDisk(g, m) => g.parents[m] \subseteq RootStack(g)
           /\ \A C : Lookup(g) \in C /\ (\A m \in C \cap Node : g.parents[m] \subseteq C)
                        => RootStack(g) \subseteq C
  <1>1. Lookup(g) \in Node /\ g.parents \in [Node -> SUBSET Node]
    BY DEF GraphType, OnDevice, Lookup
  <1>2. PICK next : next = [n \in Node |-> Below(g, n)]
    OBVIOUS
  <1>3. next \in [Node -> SUBSET Node]
    BY <1>1, <1>2 DEF Below
  <1>4. RootStack(g) = Visited(Lookup(g), next)
    BY <1>2 DEF RootStack
  <1>5. /\ RootStack(g) \subseteq Node /\ Lookup(g) \in RootStack(g)
        /\ \A m \in RootStack(g) : next[m] \subseteq RootStack(g)
    BY <1>1, <1>3, <1>4, VisitedIsClosed
  <1>6. \A m \in RootStack(g) : ~IsDisk(g, m) => g.parents[m] \subseteq RootStack(g)
    BY <1>2, <1>5 DEF Below
  <1>7. ASSUME NEW C, Lookup(g) \in C, \A m \in C \cap Node : g.parents[m] \subseteq C
        PROVE  RootStack(g) \subseteq C
    <2>1. \A m \in C \cap Node : next[m] \subseteq C
      BY <1>2, <1>7 DEF Below
    <2> QED BY <1>1, <1>3, <1>4, <1>7, <2>1, VisitedWithin
  <1> QED BY <1>5, <1>6, <1>7

\* Without a blocker nothing but the target carries the device found for /.
LEMMA RootTarget ==
    ASSUME NEW g \in GraphType, WellFormed(g), OnDevice(g), GraphBlockers(g) = {}
    PROVE  /\ ~g.btrfs
           /\ {n \in Physical(g) : Carries(g, n, {Lookup(g)})} = {Target(g)}
  <1>1. PICK d : Candidates(g) = {d} /\ Target(g) = d /\ (d # NoNode => SupportedKernelName(g.kind[d]))
    BY TargetIsCandidate
  <1>2. ~g.btrfs /\ UnsafeTypes(g) = {}
    BY DEF GraphBlockers
  <1>3. BackingDisks(g) = {d}
    BY <1>1 DEF Candidates
  <1>4. d \in Node /\ d \in RootStack(g) /\ g.kind[d] = "sd"
    BY <1>1, <1>3, BlockGraphAssumption DEF BackingDisks, Disks, SupportedKernelName
  <1>5. g.parents[d] = {} /\ d \in Physical(g)
    BY <1>4 DEF WellFormed, Physical
  <1>6. ASSUME NEW m \in RootStack(g) PROVE m = d \/ g.kind[m] \in {"part", "crypt", "lvm"}
    <2>1. m \in Node /\ g.kind[m] \in Kinds
      BY RootStackIsClosed DEF GraphType
    <2>2. CASE IsDisk(g, m)
      BY <1>3, <1>6, <2>1, <2>2 DEF BackingDisks, Disks
    <2>3. CASE ~IsDisk(g, m)
      <3>1. Type(g.kind[m]) \in {"disk", "part", "crypt", "lvm"}
        BY <1>2, <1>6 DEF UnsafeTypes
      <3>2. Type(g.kind[m]) # "disk"
        BY <2>3 DEF IsDisk
      <3> QED BY <3>1, <3>2 DEF Type
    <2> QED BY <2>2, <2>3
  <1>7. \A m \in RootStack(g) : g.parents[m] \subseteq RootStack(g)
    <2>1. ASSUME NEW m \in RootStack(g) PROVE g.parents[m] \subseteq RootStack(g)
      <3>1. CASE m = d
        BY <1>5, <3>1
      <3>2. CASE m # d
        <4>1. ~IsDisk(g, m)
          BY <1>6, <3>2 DEF IsDisk, Type
        <4> QED BY <4>1, RootStackIsClosed
      <3> QED BY <3>1, <3>2
    <2> QED BY <2>1
  <1>8. ASSUME NEW n \in Physical(g), Carries(g, n, {Lookup(g)}) PROVE n = d
    <2>1. RootStack(g) \in SUBSET Node /\ {Lookup(g)} \subseteq RootStack(g)
      BY RootStackIsClosed
    <2>2. n \in RootStack(g)
      BY <1>7, <1>8, <2>1 DEF Carries
    <2>3. n \in Node /\ g.parents[n] = {}
      BY DEF Physical
    <2>4. g.kind[n] \notin {"part", "crypt", "lvm"}
      BY <2>3 DEF WellFormed
    <2> QED BY <1>6, <2>2, <2>4
  <1>9. Carries(g, d, {Lookup(g)})
    <2>1. ASSUME NEW C \in SUBSET Node, {Lookup(g)} \subseteq C,
                 \A m \in C : g.parents[m] \subseteq C
          PROVE  d \in C
      <3>1. Lookup(g) \in C /\ \A m \in C \cap Node : g.parents[m] \subseteq C
        BY <2>1
      <3>2. RootStack(g) \subseteq C
        BY <3>1, RootStackIsClosed
      <3> QED BY <1>4, <3>2
    <2> QED BY <2>1 DEF Carries
  <1> QED BY <1>1, <1>2, <1>5, <1>8, <1>9

\* detect.go: a target that is accepted on an installed system is the one physical disk
\* under the device found for /, and under the file system of / if that lies on this
\* device alone or is a btrfs, for every finite graph of devices.
THEOREM RootTargetIsWholeStackHolds == Spec => []RootTargetIsWholeStack
  <1>1. ASSUME AnswersInv PROVE RootTargetIsWholeStack
    <2> DEFINE under(S) == {n \in Physical(question) : Carries(question, n, S)}
    <2> SUFFICES ASSUME Answered("target"), answer[1].blockers = {}, OnDevice(question)
                 PROVE  /\ under({Lookup(question)}) = {answer[1].target}
                        /\ OnOtherDevices(question) \/ under(question.holds) = {answer[1].target}
      BY DEF RootTargetIsWholeStack
    <2>1. question \in Graphs /\ answer = <<DetectTarget(question)>>
      BY <1>1 DEF AnswersInv, Answered
    <2>2. PICK g \in Graphs : g = question
      BY <2>1
    <2>3. answer[1].target = Target(g) /\ answer[1].blockers = GraphBlockers(g)
      BY <2>1, <2>2 DEF DetectTarget
    <2>4. g \in GraphType /\ WellFormed(g)
      BY CalculationsAssumption
    <2>5. ~g.btrfs /\ {n \in Physical(g) : Carries(g, n, {Lookup(g)})} = {Target(g)}
      BY <2>2, <2>3, <2>4, RootTarget
    <2>6. under({Lookup(question)}) = {answer[1].target}
      BY <2>2, <2>3, <2>5
    <2>7. ASSUME ~OnOtherDevices(question) PROVE under(question.holds) = {answer[1].target}
      <3>1. question.holds = {Lookup(question)}
        BY <2>2, <2>5, <2>7 DEF OnOtherDevices
      <3> QED BY <2>6, <3>1
    <2> QED BY <2>6, <2>7
  <1> QED BY <1>1, AnswersHold, PTL

----------------------------------------------------------------------------
(* The target in a rescue system *)

\* Searching upwards from n and carrying are the same.
LEMMA SearchIsCarrying ==
    ASSUME NEW g \in GraphType, NEW n \in Node, NEW m \in Node
    PROVE  m \in Visited(n, [k \in Node |-> Children(g, k)]) <=> Carries(g, n, {m})
  <1>1. PICK next : next = [k \in Node |-> Children(g, k)]
    OBVIOUS
  <1>2. next \in [Node -> SUBSET Node] /\ g.parents \in [Node -> SUBSET Node]
    BY <1>1 DEF Children, GraphType
  <1>3. \A j, k \in Node : j \in next[k] <=> k \in g.parents[j]
    BY <1>1 DEF Children
  <1>4. PICK V : V = Visited(n, next)
    OBVIOUS
  <1>5. V \subseteq Node /\ n \in V /\ \A k \in V : next[k] \subseteq V
    BY <1>2, <1>4, VisitedIsClosed
  <1>6. ASSUME m \in V PROVE Carries(g, n, {m})
    <2>1. ASSUME NEW C \in SUBSET Node, m \in C, \A k \in C : g.parents[k] \subseteq C, n \notin C
          PROVE  FALSE
      <3>1. n \in Node \ C
        BY <2>1
      <3>2. \A k \in (Node \ C) \cap Node : next[k] \subseteq Node \ C
        BY <1>2, <1>3, <2>1
      <3>3. V \subseteq Node \ C
        BY <1>2, <1>4, <3>1, <3>2, VisitedWithin
      <3> QED BY <1>6, <2>1, <3>3
    <2> QED BY <2>1 DEF Carries
  <1>7. ASSUME m \notin V, Carries(g, n, {m}) PROVE FALSE
    <2>1. Node \ V \in SUBSET Node /\ {m} \subseteq Node \ V
      BY <1>7
    <2>2. \A k \in Node \ V : g.parents[k] \subseteq Node \ V
      BY <1>2, <1>3, <1>5
    <2>3. n \in Node \ V
      BY <1>7, <2>1, <2>2 DEF Carries
    <2> QED BY <1>5, <2>3
  <1> QED BY <1>1, <1>4, <1>6, <1>7

\* Without a blocker nothing but the target is free.
LEMMA RescueTarget ==
    ASSUME NEW g \in GraphType, WellFormed(g), ~OnDevice(g), GraphBlockers(g) = {}
    PROVE  {n \in Physical(g) \cap g.fixed \cap Disks(g) :
                \A m \in g.mounted : ~Carries(g, n, {m})} = {Target(g)}
  <1>1. PICK d : Candidates(g) = {d} /\ Target(g) = d /\ (d # NoNode => SupportedKernelName(g.kind[d]))
    BY TargetIsCandidate
  <1>2. {n \in Disks(g) \cap g.fixed : ~HasMountedDescendant(g, n)} = {d}
    BY <1>1 DEF Candidates
  <1>3. g.mounted \subseteq Node
    BY DEF GraphType
  <1>4. ASSUME NEW n \in Node
        PROVE  ~HasMountedDescendant(g, n) <=> \A m \in g.mounted : ~Carries(g, n, {m})
    BY <1>3, SearchIsCarrying DEF HasMountedDescendant
  <1>5. d \in Disks(g) \cap g.fixed /\ ~HasMountedDescendant(g, d) /\ d \in Node
    BY <1>2 DEF Disks
  <1>6. d \in Physical(g)
    BY <1>1, <1>5, BlockGraphAssumption DEF SupportedKernelName, WellFormed, Physical
  <1>7. \A n \in Disks(g) : n \in Node
    BY DEF Disks
  <1> QED BY <1>1, <1>2, <1>4, <1>5, <1>6, <1>7

\* detect.go: a target that is accepted in a rescue system is a physical disk on which
\* nothing mounted lies, and the only one, for every finite graph of devices.
THEOREM RescueTargetIsFreeHolds == Spec => []RescueTargetIsFree
  <1>1. ASSUME AnswersInv PROVE RescueTargetIsFree
    <2> SUFFICES ASSUME Answered("target"), answer[1].blockers = {}, ~OnDevice(question)
                 PROVE  {n \in Physical(question) \cap question.fixed \cap Disks(question) :
                            \A m \in question.mounted : ~Carries(question, n, {m})}
                            = {answer[1].target}
      BY DEF RescueTargetIsFree
    <2>1. question \in Graphs /\ answer = <<DetectTarget(question)>>
      BY <1>1 DEF AnswersInv, Answered
    <2>2. PICK g \in Graphs : g = question
      BY <2>1
    <2>3. answer[1].target = Target(g) /\ answer[1].blockers = GraphBlockers(g)
      BY <2>1, <2>2 DEF DetectTarget
    <2>4. g \in GraphType /\ WellFormed(g)
      BY CalculationsAssumption
    <2>5. {n \in Physical(g) \cap g.fixed \cap Disks(g) :
                \A m \in g.mounted : ~Carries(g, n, {m})} = {Target(g)}
      BY <2>2, <2>3, <2>4, RescueTarget
    <2> QED BY <2>2, <2>3, <2>5
  <1> QED BY <1>1, AnswersHold, PTL

----------------------------------------------------------------------------
(* The partitions of the image *)

\* A sequence of partitions in which neighbours are apart: all of them are.
LEMMA SortedAreApart ==
    ASSUME NEW N \in Nat, NEW start \in [1..N -> Nat], NEW end \in [1..N -> Nat],
           \A k \in 1..N : start[k] <= end[k],
           \A k \in 2..N : end[k - 1] <= start[k]
    PROVE  \A i, j \in 1..N : i < j => end[i] <= start[j]
  <1> SUFFICES ASSUME NEW i \in 1..N PROVE \A j \in 1..N : i < j => end[i] <= start[j]
    OBVIOUS
  <1> DEFINE T == {j \in 0..N : i < j => end[i] <= start[j]}
  <1>1. 0 \in T
    OBVIOUS
  <1>2. ASSUME NEW k \in 0..N, k \in T, k < N PROVE k + 1 \in T
    <2>1. k + 1 \in 1..N /\ (k + 1) - 1 = k /\ k + 1 \in 0..N
      BY <1>2
    <2>2. CASE k = i
      <3>1. k + 1 \in 2..N
        BY <1>2, <2>2
      <3>2. end[k] <= start[k + 1]
        BY <2>1, <3>1
      <3> QED BY <2>1, <2>2, <3>2
    <2>3. CASE i < k
      <3>1. k \in 1..N /\ k + 1 \in 2..N
        BY <1>2, <2>3
      <3>2. end[k] <= start[k + 1]
        BY <2>1, <3>1
      <3>3. end[i] <= start[k] /\ start[k] <= end[k]
        BY <1>2, <2>3, <3>1
      <3>4. end[i] \in Nat /\ start[k] \in Nat /\ end[k] \in Nat /\ start[k + 1] \in Nat
        BY <2>1, <3>1
      <3>5. end[i] <= start[k + 1]
        BY <3>2, <3>3, <3>4
      <3> QED BY <2>1, <3>5
    <2>4. CASE k < i
      <3>1. ~(i < k + 1)
        BY <1>2, <2>4
      <3> QED BY <2>1, <3>1
    <2> QED BY <1>2, <2>2, <2>3, <2>4
  <1>3. \A k \in 0..N : k \in T
    <2> HIDE DEF T
    <2> QED BY <1>1, <1>2, IntervalInduction
  <1> QED BY <1>3

\* Partitions that Inspect accepts share no sector.
LEMMA NeighboursApartAreApart ==
    ASSUME NEW mbr \in Seq(MBREntry), NeighboursApart(mbr)
    PROVE  Apart(mbr)
  <1>1. \A i \in Used(mbr) : i \in DOMAIN mbr /\ mbr[i].start \in Nat /\ mbr[i].sectors \in Nat
    <2> SUFFICES ASSUME NEW i \in Used(mbr)
                 PROVE  i \in DOMAIN mbr /\ mbr[i].start \in Nat /\ mbr[i].sectors \in Nat
      OBVIOUS
    <2>1. i \in DOMAIN mbr
      BY DEF Used
    <2>2. mbr[i] \in MBREntry
      BY <2>1
    <2> QED BY <2>1, <2>2 DEF MBREntry
  <1>2. IsFiniteSet(Used(mbr))
    <2>1. Used(mbr) \subseteq 1..Len(mbr) /\ Len(mbr) \in Nat
      BY DEF Used
    <2>2. IsFiniteSet(1..Len(mbr))
      BY <2>1, FS_Interval
    <2> QED BY <2>1, <2>2, FS_Subset
  <1>3. PICK N \in Nat : N = Cardinality(Used(mbr))
    BY <1>2, FS_CardinalityType
  <1>4. PICK s \in Ordered(mbr) :
            \A k \in 2..N : mbr[s[k]].start >= mbr[s[k - 1]].start + mbr[s[k - 1]].sectors
    BY <1>3 DEF NeighboursApart
  <1>5. s \in [1..N -> Used(mbr)] /\ IsInjective(s)
    BY <1>3, <1>4 DEF Ordered
  <1>6. PICK start, end : /\ start = [k \in 1..N |-> mbr[s[k]].start]
                          /\ end = [k \in 1..N |-> mbr[s[k]].start + mbr[s[k]].sectors]
    OBVIOUS
  <1>7. start \in [1..N -> Nat] /\ end \in [1..N -> Nat] /\ \A k \in 1..N : start[k] <= end[k]
    BY <1>1, <1>5, <1>6
  <1>8. ASSUME NEW k \in 2..N PROVE end[k - 1] <= start[k]
    <2>1. k \in 1..N /\ k - 1 \in 1..N
      OBVIOUS
    <2>2. end[k - 1] = mbr[s[k - 1]].start + mbr[s[k - 1]].sectors /\ start[k] = mbr[s[k]].start
      BY <1>6, <2>1
    <2>3. start[k] \in Nat /\ end[k - 1] \in Nat
      BY <1>7, <2>1
    <2> QED BY <1>4, <2>2, <2>3
  <1>9. \A k, l \in 1..N : k < l => end[k] <= start[l]
    BY <1>7, <1>8, SortedAreApart
  <1>10. \A i \in Used(mbr) : \E k \in 1..N : s[k] = i
    <2>1. s \in Injection(1..N, Used(mbr))
      BY <1>5 DEF IsInjective, Injection
    <2>2. IsFiniteSet(1..N) /\ Cardinality(1..N) = N
      BY FS_Interval
    <2>3. s \in Surjection(1..N, Used(mbr))
      BY <1>2, <1>3, <2>1, <2>2, FS_Injection
    <2> QED BY <2>3 DEF Surjection
  <1>11. ASSUME NEW i \in Used(mbr), NEW j \in Used(mbr), i # j
         PROVE  Sectors(mbr[i].start, mbr[i].sectors) \cap Sectors(mbr[j].start, mbr[j].sectors) = {}
    <2>1. PICK k, l \in 1..N : s[k] = i /\ s[l] = j
      BY <1>10
    <2>2. k < l \/ l < k
      BY <1>11, <2>1
    <2>3. end[k] <= start[l] \/ end[l] <= start[k]
      BY <1>9, <2>2
    <2>4. /\ start[k] = mbr[i].start /\ end[k] = mbr[i].start + mbr[i].sectors
          /\ start[l] = mbr[j].start /\ end[l] = mbr[j].start + mbr[j].sectors
      BY <1>6, <2>1
    <2>5. mbr[i].start \in Nat /\ mbr[i].sectors \in Nat /\ mbr[j].start \in Nat /\ mbr[j].sectors \in Nat
      BY <1>1
    <2> QED BY <2>3, <2>4, <2>5, SMTT(30) DEF Sectors
  <1> QED BY <1>11 DEF Apart

\* image.go: no two partitions of an accepted MBR share a sector, and all lie within the
\* image behind the MBR, for tables of any length and partitions of any size.
THEOREM AcceptedPartitionsAreApartHolds == Spec => []AcceptedPartitionsAreApart
  <1>1. ASSUME AnswersInv PROVE AcceptedPartitionsAreApart
    <2> SUFFICES ASSUME Answered("layout"), answer[1]
                 PROVE  /\ Apart(question.mbr)
                        /\ \A i \in Used(question.mbr) :
                            Sectors(question.mbr[i].start, question.mbr[i].sectors)
                                \subseteq 1..(question.size - 1)
      BY DEF AcceptedPartitionsAreApart
    <2>1. question \in Tables /\ answer = <<Inspected(question.mbr, question.size)>>
      BY <1>1 DEF AnswersInv, Answered
    <2>2. Inspected(question.mbr, question.size)
      BY <2>1
    <2>3. question.mbr \in Seq(MBREntry) /\ question.size \in Nat
      BY <2>1, CalculationsAssumption
    <2>4. Apart(question.mbr)
      BY <2>2, <2>3, NeighboursApartAreApart DEF Inspected
    <2>5. ASSUME NEW i \in Used(question.mbr)
          PROVE  Sectors(question.mbr[i].start, question.mbr[i].sectors) \subseteq 1..(question.size - 1)
      <3>1. PICK start \in Nat, sectors \in Nat :
                start = question.mbr[i].start /\ sectors = question.mbr[i].sectors
        <4>1. i \in DOMAIN question.mbr
          BY DEF Used
        <4>2. question.mbr[i] \in MBREntry
          BY <2>3, <4>1
        <4> QED BY <4>2 DEF MBREntry
      <3>2. 1 <= start /\ start + sectors <= question.size
        BY <2>2, <3>1 DEF Inspected
      <3>3. Sectors(start, sectors) \subseteq 1..(question.size - 1)
        BY <2>3, <3>2 DEF Sectors
      <3> QED BY <3>1, <3>3
    <2> QED BY <2>4, <2>5
  <1> QED BY <1>1, AnswersHold, PTL

----------------------------------------------------------------------------
(* The EFI partition of the image *)

\* Where the rewritten partition lies.
LEMMA WhereEspLies ==
    ASSUME NEW disk, OfficialMBR(disk.mbr)
    PROVE  Rewritten(disk) = Sectors(FirstUsable, BootSectors)
  BY DEF OfficialMBR, Rewritten

\* A GPT with the two official partitions and its table clear of them shows the ESP.
LEMMA OfficialShowsEsp ==
    ASSUME NEW disk, NEW lba, OfficialMBR(disk.mbr), disk.gpt[lba].entries = <<Esp, System>>,
           lba \in {1, BackupHeader},
           disk.gpt[lba].table = IF lba = 1 THEN 2 ELSE BackupTable, disk.gpt[lba].count = TableSectors
    PROVE  EspOf(disk, lba)
  <1>1. /\ TableSectors \in Nat \ {0} /\ BootSectors \in Nat \ {0} /\ SystemSectors \in Nat \ {0}
        /\ ImageSectors \in Nat \ {0}
        /\ BackupTable + TableSectors <= BackupHeader
    BY ImageLayoutAssumption
  <1>2. PICK gpt : gpt = disk.gpt[lba]
    OBVIOUS
  <1>3. PICK R : R = Rewritten(disk)
    OBVIOUS
  <1>4. R = {s \in 0..(2 + TableSectors + BootSectors) :
                2 + TableSectors <= s /\ s < 2 + TableSectors + BootSectors}
    BY <1>1, <1>3, WhereEspLies DEF Sectors, FirstUsable
  <1>5. /\ DOMAIN gpt.entries = {1, 2}
        /\ gpt.entries[1] = Esp /\ gpt.entries[2] = System
    BY <1>2
  <1>6. Sectors(Esp.first, (Esp.last + 1) - Esp.first) = R
    <2>1. (Esp.last + 1) - Esp.first = BootSectors /\ Esp.first = FirstUsable
      BY <1>1 DEF Esp, FirstUsable, SystemStart
    <2> QED BY <1>3, <2>1, WhereEspLies
  <1>7. Sectors(System.first, (System.last + 1) - System.first) \cap R = {}
    <2>1. /\ (System.last + 1) - System.first = SystemSectors
          /\ System.first = 2 + TableSectors + BootSectors
      BY <1>1 DEF System, FirstUsable, SystemStart, BackupTable
    <2> QED BY <1>1, <1>4, <2>1 DEF Sectors
  <1>8. ({0, lba} \cup Sectors(gpt.table, gpt.count)) \cap R = {}
    <2>1. BackupTable = 2 + TableSectors + BootSectors + SystemSectors /\ BackupHeader \in Nat
      BY <1>1 DEF FirstUsable, SystemStart, BackupTable, BackupHeader
    <2>2. 0 \notin R /\ 1 \notin R /\ BackupHeader \notin R
      BY <1>1, <1>4, <2>1
    <2>3. gpt.count = TableSectors /\ (gpt.table = 2 \/ gpt.table = BackupTable)
      BY <1>2
    <2>4. Sectors(gpt.table, gpt.count) \cap R = {}
      BY <1>1, <1>4, <2>1, <2>3 DEF Sectors
    <2> QED BY <2>2, <2>4
  <1>9. Esp.type = "esp"
    BY DEF Esp
  <1> QED BY <1>2, <1>3, <1>5, <1>6, <1>7, <1>8, <1>9 DEF EspOf

\* gpt.go, uefi.go: the ESP is rewritten where a reader of either GPT looks for it, over
\* no other partition, header or table, for every size of tables and partitions.
THEOREM RewrittenPartitionIsTheEspHolds == Spec => []RewrittenPartitionIsTheEsp
  <1>1. ASSUME AnswersInv PROVE RewrittenPartitionIsTheEsp
    <2> SUFFICES ASSUME Answered("gpt"), answer[1]
                 PROVE  EspOf(question, 1) /\ EspOf(question, BackupHeader)
      BY DEF RewrittenPartitionIsTheEsp
    <2>1. OfficialGPT(question)
      BY <1>1 DEF AnswersInv, Answered
    <2>2. /\ question.gpt[1].backup = BackupHeader
          /\ OfficialHeaders(question.gpt[1], question.gpt[BackupHeader])
          /\ SameTables(question.gpt[1], question.gpt[BackupHeader])
      BY <2>1 DEF OfficialGPT, OfficialHeaders
    <2>3. BackupHeader # 1
      BY ImageLayoutAssumption DEF BackupTable, SystemStart, FirstUsable, BackupHeader
    <2>4. EspOf(question, 1)
      BY <2>1, <2>2, OfficialShowsEsp DEF OfficialGPT, OfficialHeaders
    <2>5. EspOf(question, BackupHeader)
      <3>1. /\ question.gpt[BackupHeader].entries = <<Esp, System>>
            /\ question.gpt[BackupHeader].table = BackupTable
            /\ question.gpt[BackupHeader].count = TableSectors
        BY <2>1, <2>2 DEF OfficialGPT, OfficialHeaders, SameTables
      <3> QED BY <2>1, <2>3, <3>1, OfficialShowsEsp DEF OfficialGPT
    <2> QED BY <2>4, <2>5
  <1> QED BY <1>1, AnswersHold, PTL

----------------------------------------------------------------------------
(* Chains of clusters *)

Clustered == Seq(ClusterNumbers)

\* One step of readChain.
Extended(esp, chain) ==
    LET next == esp.fat[chain[Len(chain)]]
    IN IF Ends(next) THEN chain
       ELSE IF next = BadMark \/ ~InPartition(next) \/ \E i \in 1..Len(chain) : chain[i] = next
       THEN NoChain
       ELSE Append(chain, next)

\* chain holds what readChain has read after each step.
IsReading(chain, esp, start) ==
    /\ chain \in [0..Clusters -> Clustered]
    /\ chain[0] = IF InPartition(start) THEN <<start>> ELSE NoChain
    /\ \A k \in 1..Clusters :
        chain[k] = IF chain[k - 1] = NoChain THEN NoChain ELSE Extended(esp, chain[k - 1])

\* A step reads another cluster of the partition.
LEMMA ExtendedIsClustered ==
    ASSUME NEW esp, NEW chain \in Clustered
    PROVE  Extended(esp, chain) \in Clustered
  BY DEF Extended, Clustered, NoChain, InPartition

\* ReadChain is where reading ends.
LEMMA ReadingExists ==
    ASSUME NEW esp, NEW start
    PROVE  \E chain : IsReading(chain, esp, start) /\ ReadChain(esp, start) = chain[Clusters]
  <1>1. Clusters \in Nat
    BY Fat16Assumption
  <1>2. PICK first \in Clustered : first = IF InPartition(start) THEN <<start>> ELSE NoChain
    <2>1. NoChain \in Clustered
      BY DEF Clustered, NoChain
    <2>2. CASE InPartition(start)
      <3>1. <<start>> \in Clustered
        BY <2>2 DEF Clustered, InPartition
      <3> QED BY <2>2, <3>1
    <2> QED BY <2>1, <2>2
  <1>3. PICK grow : grow = [k \in 1..Clusters |->
                        [c \in Clustered |-> IF c = NoChain THEN NoChain ELSE Extended(esp, c)]]
    OBVIOUS
  <1>4. grow \in [1..Clusters -> [Clustered -> Clustered]]
    <2>1. ASSUME NEW c \in Clustered
          PROVE  (IF c = NoChain THEN NoChain ELSE Extended(esp, c)) \in Clustered
      BY ExtendedIsClustered
    <2> QED BY <1>3, <2>1
  <1>5. PICK f \in [0..Clusters -> Clustered] : Recurs(f, Clusters, first, grow)
    BY <1>1, <1>4, Recursion
  <1>6. ASSUME NEW k \in 1..Clusters
        PROVE  f[k] = IF f[k - 1] = NoChain THEN NoChain ELSE Extended(esp, f[k - 1])
    <2>1. PICK l \in 0..Clusters : l = k - 1
      BY <1>1
    <2>2. f[k] = grow[k][f[l]] /\ f[l] \in Clustered
      BY <1>5, <2>1 DEF Recurs
    <2>3. f[k] = IF f[l] = NoChain THEN NoChain ELSE Extended(esp, f[l])
      BY <1>3, <2>2
    <2> QED BY <2>1, <2>3
  <1>7. f = [k \in 0..Clusters |->
                IF k = 0 THEN first
                ELSE IF f[k - 1] = NoChain THEN NoChain ELSE Extended(esp, f[k - 1])]
    <2>1. \A k \in 0..Clusters : k = 0 \/ k \in 1..Clusters
      BY <1>1
    <2>2. f[0] = first
      BY <1>5 DEF Recurs
    <2> QED BY <1>5, <1>6, <2>1, <2>2
  <1> DEFINE chain == CHOOSE c : c = [k \in 0..Clusters |->
                        IF k = 0 THEN (IF InPartition(start) THEN <<start>> ELSE NoChain)
                        ELSE IF c[k - 1] = NoChain THEN NoChain ELSE Extended(esp, c[k - 1])]
  <1>8. ReadChain(esp, start) = chain[Clusters]
    BY DEF ReadChain, Extended
  <1>9. chain = [k \in 0..Clusters |->
                    IF k = 0 THEN first
                    ELSE IF chain[k - 1] = NoChain THEN NoChain ELSE Extended(esp, chain[k - 1])]
    BY <1>2, <1>7
  <1> HIDE DEF chain
  <1>10. chain[0] = first
    <2>1. 0 \in 0..Clusters
      BY <1>1
    <2> QED BY <1>9, <2>1
  <1>11. ASSUME NEW k \in 1..Clusters
         PROVE  chain[k] = IF chain[k - 1] = NoChain THEN NoChain ELSE Extended(esp, chain[k - 1])
    <2>1. k \in 0..Clusters /\ k # 0
      BY <1>1
    <2> QED BY <1>9, <2>1
  <1>12. \A k \in 0..Clusters : chain[k] \in Clustered
    <2> DEFINE T == {k \in 0..Clusters : chain[k] \in Clustered}
    <2>1. 0 \in T
      BY <1>1, <1>10
    <2>2. ASSUME NEW k \in 0..Clusters, k \in T, k < Clusters PROVE k + 1 \in T
      <3>1. k + 1 \in 1..Clusters /\ (k + 1) - 1 = k /\ k + 1 \in 0..Clusters
        BY <1>1, <2>2
      <3>2. chain[k + 1] = IF chain[k] = NoChain THEN NoChain ELSE Extended(esp, chain[k])
        BY <1>11, <3>1
      <3>3. NoChain \in Clustered
        BY DEF NoChain, Clustered
      <3>4. chain[k + 1] \in Clustered
        BY <2>2, <3>2, <3>3, ExtendedIsClustered
      <3> QED BY <3>1, <3>4
    <2>3. \A k \in 0..Clusters : k \in T
      <3> HIDE DEF T
      <3> QED BY <1>1, <2>1, <2>2, IntervalInduction
    <2> QED BY <2>3
  <1>13. IsReading(chain, esp, start)
    BY <1>2, <1>9, <1>10, <1>11, <1>12 DEF IsReading
  <1> QED BY <1>8, <1>13

\* Clusters that follow one another in the table, none twice.
IsChain(s, esp, start) ==
    /\ s \in Clustered /\ Len(s) >= 1 /\ s[1] = start
    /\ \A i \in 1..(Len(s) - 1) : s[i + 1] = esp.fat[s[i]]
    /\ \A i, j \in 1..Len(s) : i # j => s[i] # s[j]

\* A step extends a chain by one cluster, or ends at an end mark.
LEMMA ExtendedIsChain ==
    ASSUME NEW esp, NEW start, NEW s, IsChain(s, esp, start), NEW t,
           t = Extended(esp, s), t # NoChain
    PROVE  /\ IsChain(t, esp, start)
           /\ \/ t = s /\ Ends(esp.fat[s[Len(s)]])
              \/ Len(t) = Len(s) + 1
  <1>1. PICK n \in Nat : n = Len(s) /\ n >= 1
    BY DEF IsChain, Clustered
  <1>2. PICK next : next = esp.fat[s[n]]
    OBVIOUS
  <1>3. CASE Ends(next)
    BY <1>1, <1>2, <1>3 DEF Extended
  <1>4. CASE ~Ends(next)
    <2>1. /\ t = Append(s, next) /\ next \in ClusterNumbers
          /\ \A i \in 1..n : s[i] # next
      BY <1>1, <1>2, <1>4 DEF Extended, InPartition
    <2>2. /\ t \in Clustered /\ Len(t) = n + 1 /\ t[n + 1] = next
          /\ \A i \in 1..n : t[i] = s[i]
      BY <1>1, <2>1 DEF IsChain, Clustered
    <2>3. t[1] = start
      BY <1>1, <2>2 DEF IsChain
    <2>4. ASSUME NEW i \in 1..n PROVE t[i + 1] = esp.fat[t[i]]
      <3>1. CASE i = n
        BY <1>1, <1>2, <2>2, <3>1
      <3>2. CASE i # n
        <4>1. i \in 1..(n - 1) /\ i + 1 \in 1..n
          BY <1>1, <3>2
        <4>2. s[i + 1] = esp.fat[s[i]]
          BY <1>1, <4>1 DEF IsChain
        <4> QED BY <2>2, <4>1, <4>2
      <3> QED BY <3>1, <3>2
    <2>5. ASSUME NEW i \in 1..(n + 1), NEW j \in 1..(n + 1), i # j PROVE t[i] # t[j]
      <3>1. CASE i \in 1..n /\ j \in 1..n
        BY <1>1, <2>2, <2>5, <3>1 DEF IsChain
      <3>2. CASE i = n + 1
        <4>1. j \in 1..n
          BY <1>1, <2>5, <3>2
        <4> QED BY <2>1, <2>2, <3>2, <4>1
      <3>3. CASE j = n + 1
        <4>1. i \in 1..n
          BY <1>1, <2>5, <3>3
        <4> QED BY <2>1, <2>2, <3>3, <4>1
      <3> QED BY <1>1, <3>1, <3>2, <3>3
    <2>6. (n + 1) - 1 = n /\ n + 1 >= 1
      BY <1>1
    <2>7. IsChain(t, esp, start)
      BY <2>2, <2>3, <2>4, <2>5, <2>6 DEF IsChain
    <2> QED BY <1>1, <2>2, <2>7
  <1> QED BY <1>3, <1>4

\* A chain is no longer than there are clusters.
LEMMA ChainIsShort ==
    ASSUME NEW esp, NEW start, NEW s, IsChain(s, esp, start)
    PROVE  Len(s) <= Clusters
  <1>1. PICK n \in Nat : n = Len(s)
    BY DEF IsChain, Clustered
  <1>2. s \in Injection(1..n, ClusterNumbers)
    BY <1>1 DEF IsChain, Clustered, Injection, IsInjective
  <1>3. IsFiniteSet(ClusterNumbers) /\ Cardinality(ClusterNumbers) = Clusters
    <2>1. Clusters \in Nat /\ 2 \in Int /\ Clusters + 1 \in Int
      BY Fat16Assumption
    <2>2. IsFiniteSet(ClusterNumbers)
      BY <2>1, FS_Interval DEF ClusterNumbers
    <2>3. Cardinality(ClusterNumbers) = IF 2 > Clusters + 1 THEN 0 ELSE ((Clusters + 1) - 2) + 1
      BY <2>1, FS_Interval DEF ClusterNumbers
    <2> QED BY <2>1, <2>2, <2>3
  <1>4. Cardinality(1..n) = n
    BY FS_Interval
  <1> QED BY <1>1, <1>2, <1>3, <1>4, FS_Injection

\* What readChain returns is a whole chain, from its start to an end mark.
LEMMA ReadChainIsWhole ==
    ASSUME NEW esp, NEW start, ReadChain(esp, start) # NoChain
    PROVE  /\ IsChain(ReadChain(esp, start), esp, start)
           /\ Ends(esp.fat[ReadChain(esp, start)[Len(ReadChain(esp, start))]])
  <1>1. PICK chain : IsReading(chain, esp, start) /\ ReadChain(esp, start) = chain[Clusters]
    BY ReadingExists
  <1>2. Clusters \in Nat
    BY Fat16Assumption
  <1> DEFINE T == {k \in 0..Clusters :
                    \/ chain[k] = NoChain
                    \/ /\ IsChain(chain[k], esp, start)
                       /\ Ends(esp.fat[chain[k][Len(chain[k])]]) \/ Len(chain[k]) = k + 1}
  <1>3. 0 \in T
    <2>1. CASE ~InPartition(start)
      BY <1>1, <1>2, <2>1 DEF IsReading
    <2>2. CASE InPartition(start)
      <3>1. chain[0] = <<start>> /\ start \in ClusterNumbers
        BY <1>1, <2>2 DEF IsReading, InPartition
      <3>2. chain[0] \in Clustered /\ Len(chain[0]) = 1 /\ chain[0][1] = start
        BY <3>1 DEF Clustered
      <3>3. IsChain(chain[0], esp, start)
        BY <3>2 DEF IsChain
      <3> QED BY <1>2, <3>2, <3>3
    <2> QED BY <2>1, <2>2
  <1>4. ASSUME NEW k \in 0..Clusters, k \in T, k < Clusters PROVE k + 1 \in T
    <2>1. k + 1 \in 1..Clusters /\ (k + 1) - 1 = k /\ k + 1 \in 0..Clusters
      BY <1>2, <1>4
    <2>2. chain[k + 1] = IF chain[k] = NoChain THEN NoChain ELSE Extended(esp, chain[k])
      BY <1>1, <2>1 DEF IsReading
    <2>3. CASE chain[k + 1] = NoChain
      BY <2>1, <2>3
    <2>4. CASE chain[k + 1] # NoChain
      <3>1. PICK s, t : s = chain[k] /\ t = chain[k + 1]
        OBVIOUS
      <3>2. /\ t = Extended(esp, s) /\ t # NoChain /\ IsChain(s, esp, start)
            /\ Ends(esp.fat[s[Len(s)]]) \/ Len(s) = k + 1
        BY <1>4, <2>2, <2>4, <3>1
      <3>3. IsChain(t, esp, start) /\ ((t = s /\ Ends(esp.fat[s[Len(s)]])) \/ Len(t) = Len(s) + 1)
        BY <3>2, ExtendedIsChain
      <3>4. Ends(esp.fat[s[Len(s)]]) => t = s
        BY <3>2 DEF Extended
      <3>5. Ends(esp.fat[t[Len(t)]]) \/ Len(t) = (k + 1) + 1
        BY <3>2, <3>3, <3>4
      <3> QED BY <2>1, <3>1, <3>3, <3>5
    <2> QED BY <2>3, <2>4
  <1>5. Clusters \in T
    <2> HIDE DEF T
    <2>1. \A k \in 0..Clusters : k \in T
      BY <1>2, <1>3, <1>4, IntervalInduction
    <2> QED BY <1>2, <2>1
  <1>6. PICK s : s = chain[Clusters]
    OBVIOUS
  <1>7. IsChain(s, esp, start) /\ (Ends(esp.fat[s[Len(s)]]) \/ Len(s) = Clusters + 1)
    BY <1>1, <1>5, <1>6
  <1>8. Len(s) <= Clusters
    BY <1>7, ChainIsShort
  <1>9. Ends(esp.fat[s[Len(s)]])
    BY <1>2, <1>7, <1>8
  <1> QED BY <1>1, <1>6, <1>7, <1>9

----------------------------------------------------------------------------
(* Both files are whole on an EFI partition that is accepted *)

\* Sizes in directory entries are numbers, and a cluster of the partition may hold a
\* directory.
SizesAreNumbers(esp) ==
    /\ \A name \in DOMAIN esp.root : esp.root[name].size \in Nat
    /\ \A c \in ClusterNumbers : \A name \in DOMAIN esp.dirs[c] : esp.dirs[c][name].size \in Nat

\* The sizes are numbers on a partition that was built, and on whatever is read back of it.
LEMMA BuiltSizes ==
    ASSUME NEW loader \in Nat, NEW map \in Nat
    PROVE  SizesAreNumbers(Layout(loader, map))
  <1>1. PICK esp : esp = Layout(loader, map)
    OBVIOUS
  <1>2. ASSUME NEW name \in DOMAIN esp.root PROVE esp.root[name].size \in Nat
    BY <1>1, <1>2 DEF Layout, DirEntry
  <1>3. ASSUME NEW c \in ClusterNumbers, NEW name \in DOMAIN esp.dirs[c]
        PROVE  esp.dirs[c][name].size \in Nat
    BY <1>1, <1>3 DEF Layout, DirEntry, Empty
  <1> QED BY <1>1, <1>2, <1>3 DEF SizesAreNumbers

LEMMA DamagedSizes ==
    ASSUME NEW entry, entry.size \in Nat, NEW e \in DamagedEntries(entry)
    PROVE  e.size \in Nat
  BY DEF DamagedEntries

LEMMA ReadSizes ==
    ASSUME NEW esp, SizesAreNumbers(esp), NEW read \in ReadBack(esp),
           DOMAIN esp.dirs = ClusterNumbers,
           \E fat, copy, data, root, dirs :
               esp = [fat |-> fat, copy |-> copy, data |-> data, root |-> root, dirs |-> dirs]
    PROVE  SizesAreNumbers(read)
  <1>1. CASE read.root = esp.root /\ read.dirs = esp.dirs
    BY <1>1 DEF SizesAreNumbers
  <1>2. ASSUME NEW name \in DOMAIN esp.root, NEW e \in DamagedEntries(esp.root[name]),
               read = [esp EXCEPT !.root[name] = e]
        PROVE  SizesAreNumbers(read)
    <2>1. e.size \in Nat
      BY DamagedSizes DEF SizesAreNumbers
    <2>2. read.dirs = esp.dirs /\ read.root = [esp.root EXCEPT ![name] = e]
      BY <1>2
    <2>3. \A n \in DOMAIN read.root : read.root[n].size \in Nat
      BY <2>1, <2>2 DEF SizesAreNumbers
    <2> QED BY <2>2, <2>3 DEF SizesAreNumbers
  <1>3. ASSUME NEW c \in ClusterNumbers, NEW name \in DOMAIN esp.dirs[c],
               NEW e \in DamagedEntries(esp.dirs[c][name]),
               read = [esp EXCEPT !.dirs[c][name] = e]
        PROVE  SizesAreNumbers(read)
    <2>1. e.size \in Nat
      BY DamagedSizes DEF SizesAreNumbers
    <2>2. read.root = esp.root /\ read.dirs = [esp.dirs EXCEPT ![c] = [@ EXCEPT ![name] = e]]
      BY <1>3
    <2>3. ASSUME NEW d \in ClusterNumbers, NEW n \in DOMAIN read.dirs[d]
          PROVE  read.dirs[d][n].size \in Nat
      <3>1. CASE d = c
        <4>1. read.dirs[d] = [esp.dirs[c] EXCEPT ![name] = e]
          BY <2>2, <3>1
        <4> QED BY <2>1, <2>3, <4>1 DEF SizesAreNumbers
      <3>2. CASE d # c
        <4>1. read.dirs[d] = esp.dirs[d]
          BY <2>2, <3>2
        <4> QED BY <2>3, <4>1 DEF SizesAreNumbers
      <3> QED BY <3>1, <3>2
    <2> QED BY <2>2, <2>3 DEF SizesAreNumbers
  <1>4. CASE read \in OtherTables(esp)
    <2>1. PICK c, w, v : read = WithWords(esp, c, w, v)
      BY <1>4 DEF OtherTables
    <2>2. read.root = esp.root /\ read.dirs = esp.dirs
      BY <2>1 DEF WithWords
    <2> QED BY <1>1, <2>2
  <1>5. CASE read \in LostClusters(esp)
    BY <1>1, <1>5 DEF LostClusters
  <1>6. CASE read \in DamagedRoot(esp)
    BY <1>2, <1>6 DEF DamagedRoot
  <1>7. CASE read \in DamagedDirs(esp)
    BY <1>3, <1>7 DEF DamagedDirs
  <1> QED BY <1>4, <1>5, <1>6, <1>7 DEF ReadBack

\* A file that readFile finds is whole for a reader that knows its chain.
LEMMA FileIsHeld ==
    ASSUME NEW esp, NEW entry, NEW content, FileIs(esp, entry, content),
           entry.size \in Nat, NEW length \in Nat \ {0}, NEW f, content = [i \in 1..length |-> f[i]]
    PROVE  Holds(esp, entry, content)
  <1>1. content \in Seq({f[i] : i \in 1..length}) /\ Len(content) = length /\ content # <<>>
    BY SMTT(30)
  <1>2. PICK s : s = ReadChain(esp, entry.cluster)
    OBVIOUS
  <1>3. /\ s # NoChain /\ entry.size <= Len(s) * ClusterCells
        /\ [i \in 1..entry.size |-> CellAt(esp, s, i)] = content
    BY <1>1, <1>2 DEF FileIs
  <1>4. IsChain(s, esp, entry.cluster) /\ Ends(esp.fat[s[Len(s)]])
    BY <1>2, <1>3, ReadChainIsWhole
  <1>5. PICK n \in 1..Clusters : n = Len(s) /\ s \in [1..n -> ClusterNumbers]
    <2>1. Len(s) \in Nat /\ s \in [1..Len(s) -> ClusterNumbers]
      <3>1. s \in Seq(ClusterNumbers)
        BY <1>4 DEF IsChain, Clustered
      <3> QED BY <3>1
    <2>2. Len(s) <= Clusters /\ Len(s) >= 1 /\ Clusters \in Nat
      BY <1>4, ChainIsShort, Fat16Assumption DEF IsChain
    <2>3. Len(s) \in 1..Clusters
      BY <2>1, <2>2
    <2> QED BY <2>1, <2>3
  <1>6. entry.size = length
    <2>1. 1..entry.size = 1..length
      BY <1>3
    <2> QED BY <2>1
  <1>7. \A i \in 1..Len(content) : content[i] = CellAt(esp, s, i)
    <2>1. ASSUME NEW i \in 1..length PROVE content[i] = CellAt(esp, s, i)
      BY <1>3, <1>6
    <2> QED BY <1>1, <2>1
  <1>8. s[1] = entry.cluster /\ EndMark <= esp.fat[s[n]]
    BY <1>4, <1>5 DEF IsChain, Ends
  <1>9. \A i \in 1..(n - 1) : s[i + 1] = esp.fat[s[i]]
    BY <1>4, <1>5 DEF IsChain
  <1>10. \A i, j \in 1..n : i # j => s[i] # s[j]
    BY <1>4, <1>5 DEF IsChain
  <1>11. entry.size = Len(content) /\ Len(content) <= n * ClusterCells
    BY <1>1, <1>3, <1>5, <1>6
  <1> QED BY <1>5, <1>7, <1>8, <1>9, <1>10, <1>11 DEF Holds

\* What Content is, for FileIsHeld.
LEMMA ContentIs ==
    ASSUME NEW file, NEW length
    PROVE  \E f : Content(file, length) = [i \in 1..length |-> f[i]]
  <1>1. Content(file, length) = [i \in 1..length |-> Content(file, length)[i]]
    BY DEF Content
  <1> QED BY <1>1

\* A partition that passes validation holds both files.
LEMMA ValidIsWhole ==
    ASSUME NEW loader \in Nat \ {0}, NEW map \in Nat \ {0}, NEW esp, SizesAreNumbers(esp),
           ValidEsp(esp, loader, map), NEW boot, boot = esp.dirs[esp.root["EFI"].cluster]["BOOT"]
    PROVE  /\ Holds(esp, esp.dirs[boot.cluster]["BOOTX64"], Content("loader", loader))
           /\ Holds(esp, esp.root["MAP"], Content("map", map))
  <1>1. ASSUME NEW start, NEW name, NEW e \in Found(esp, start, name)
        PROVE  e = esp.dirs[start][name] /\ e.size \in Nat
    <2>1. /\ ReadChain(esp, start) # NoChain /\ name \in DOMAIN esp.dirs[start]
          /\ e = esp.dirs[start][name]
      BY <1>1 DEF Found
    <2>2. IsChain(ReadChain(esp, start), esp, start)
      BY <2>1, ReadChainIsWhole
    <2>3. start \in ClusterNumbers
      <3>1. PICK s \in Seq(ClusterNumbers) : Len(s) >= 1 /\ s[1] = start
        BY <2>2 DEF IsChain, Clustered
      <3> QED BY <3>1
    <2> QED BY <2>1, <2>3 DEF SizesAreNumbers
  <1>2. PICK entry \in Found(esp, boot.cluster, "BOOTX64") : FileIs(esp, entry, Content("loader", loader))
    <2>1. PICK b \in Found(esp, esp.root["EFI"].cluster, "BOOT") :
            \E e \in Found(esp, b.cluster, "BOOTX64") : FileIs(esp, e, Content("loader", loader))
      BY DEF ValidEsp
    <2>2. b = boot
      BY <1>1
    <2> QED BY <2>1, <2>2
  <1>3. entry = esp.dirs[boot.cluster]["BOOTX64"] /\ entry.size \in Nat
    BY <1>1
  <1>4. Holds(esp, entry, Content("loader", loader))
    BY <1>2, <1>3, ContentIs, FileIsHeld
  <1>5. /\ FileIs(esp, esp.root["MAP"], Content("map", map))
        /\ esp.root["MAP"].size \in Nat
    BY DEF ValidEsp, SizesAreNumbers
  <1>6. Holds(esp, esp.root["MAP"], Content("map", map))
    BY <1>5, ContentIs, FileIsHeld
  <1> QED BY <1>3, <1>4, <1>6

\* fat16.go, uefi.go: whatever is read back from the image, a partition passes only when
\* both files are whole on it, for every size of the partition and of the files.
THEOREM AcceptedEspIsWholeHolds == Spec => []AcceptedEspIsWhole
  <1>1. ASSUME AnswersInv PROVE AcceptedEspIsWhole
    <2> SUFFICES ASSUME task = "esp", answer # <<>>, answer[1].built, answer[1].valid
                 PROVE  AcceptedEspIsWhole
      BY DEF AcceptedEspIsWhole, Answered
    <2>1. PICK loader \in Nat, map \in Nat : loader = question.loader /\ map = question.map
      <3>1. question \in BootFiles
        BY <1>1 DEF AnswersInv
      <3>2. question.loader \in 0..(MaxLoader + 1) /\ question.map \in 0..(MaxMap + 1)
        BY <3>1 DEF BootFiles
      <3> QED BY <3>2
    <2>2. Built(loader, map, question.efi)
      BY <1>1, <2>1 DEF AnswersInv, EspAnswer
    <2>3. PICK esp \in {Layout(loader, map)} \cup ReadBack(Layout(loader, map)) :
            answer = <<[built |-> TRUE, esp |-> esp, valid |-> ValidEsp(esp, loader, map)]>>
      BY <1>1, <2>1, <2>2 DEF AnswersInv, EspAnswer
    <2>4. answer[1].esp = esp /\ ValidEsp(esp, loader, map)
      BY <2>3
    <2>5. loader \in Nat \ {0} /\ map \in Nat \ {0}
      BY <2>2, Fat16Assumption DEF Built, IsLoader, IsMap
    <2>6. SizesAreNumbers(esp)
      <3>1. SizesAreNumbers(Layout(loader, map))
        BY BuiltSizes
      <3>2. CASE esp \in ReadBack(Layout(loader, map))
        <4>1. PICK esp0 : esp0 = Layout(loader, map)
          OBVIOUS
        <4>2. /\ DOMAIN esp0.dirs = ClusterNumbers
              /\ \E fat, copy, data, root, dirs :
                    esp0 = [fat |-> fat, copy |-> copy, data |-> data, root |-> root, dirs |-> dirs]
          BY <4>1 DEF Layout
        <4> QED BY <3>1, <3>2, <4>1, <4>2, ReadSizes
      <3> QED BY <2>3, <3>1, <3>2
    <2>7. PICK boot : boot = esp.dirs[esp.root["EFI"].cluster]["BOOT"]
      OBVIOUS
    <2>8. /\ Holds(esp, esp.dirs[boot.cluster]["BOOTX64"], Content("loader", loader))
          /\ Holds(esp, esp.root["MAP"], Content("map", map))
      BY <2>4, <2>5, <2>6, <2>7, ValidIsWhole
    <2> QED BY <2>1, <2>4, <2>7, <2>8 DEF AcceptedEspIsWhole
  <1> QED BY <1>1, AnswersHold, PTL

----------------------------------------------------------------------------
(* Every checked file is built *)

\* Division with remainder, and what it is determined by.
LEMMA Divided ==
    ASSUME NEW a \in Nat, NEW b \in Nat \ {0}
    PROVE  a \div b \in Nat /\ a % b \in 0..(b - 1) /\ a = b * (a \div b) + (a % b)
  <1>1. a \div b \in Nat
    OBVIOUS
  <1>2. a % b \in 0..(b - 1)
    OBVIOUS
  <1>3. a = b * (a \div b) + (a % b)
    OBVIOUS
  <1> QED BY <1>1, <1>2, <1>3

LEMMA LessMul ==
    ASSUME NEW b \in Nat, NEW p \in Nat, NEW q \in Nat, p < q
    PROVE  b * p + b <= b * q
  <1>1. PICK d \in Nat : q = p + 1 + d
    <2>1. q - p - 1 \in Nat /\ q = p + 1 + (q - p - 1)
      OBVIOUS
    <2> QED BY <2>1
  <1>2. b * q = b * p + b + b * d
    BY <1>1
  <1>3. b * d \in Nat /\ b * p \in Nat
    OBVIOUS
  <1> QED BY <1>2, <1>3

LEMMA DivIs ==
    ASSUME NEW a \in Nat, NEW b \in Nat \ {0}, NEW q \in Nat, NEW r \in 0..(b - 1), a = b * q + r
    PROVE  a \div b = q /\ a % b = r
  <1>1. PICK p \in Nat, s \in 0..(b - 1) : p = a \div b /\ s = a % b /\ a = b * p + s
    BY Divided
  <1>2. p < q => b * p + b <= b * q
    BY LessMul
  <1>3. q < p => b * q + b <= b * p
    BY LessMul
  <1>4. b * p \in Nat /\ b * q \in Nat
    OBVIOUS
  <1>5. p = q
    BY <1>1, <1>2, <1>3, <1>4
  <1>6. s = r
    BY <1>1, <1>4, <1>5
  <1> QED BY <1>1, <1>5, <1>6

\* A file takes the clusters that it fills, and one more for what is left of it.
LEMMA ClustersAre ==
    ASSUME NEW n \in Nat
    PROVE  /\ ClustersOf(n) \in Nat
           /\ ClustersOf(n) = (n \div ClusterCells) + (IF n % ClusterCells = 0 THEN 0 ELSE 1)
           /\ n <= ClusterCells * ClustersOf(n)
           /\ n # 0 => ClustersOf(n) # 0
  <1>1. PICK b \in Nat \ {0} : b = ClusterCells
    BY Fat16Assumption
  <1>2. PICK q \in Nat, r \in 0..(b - 1) : q = n \div b /\ r = n % b /\ n = b * q + r
    BY Divided
  <1>3. b * q \in Nat
    OBVIOUS
  <1>4. CASE r = 0
    <2>1. n + b - 1 = b * q + (b - 1) /\ b - 1 \in 0..(b - 1) /\ n + b - 1 \in Nat
      BY <1>2, <1>3, <1>4
    <2>2. PICK m \in Nat : m = n + b - 1
      BY <2>1
    <2>3. m \div b = q
      BY <2>1, <2>2, DivIs
    <2>4. ClustersOf(n) = q
      BY <1>1, <2>2, <2>3 DEF ClustersOf
    <2>5. n = 0 \/ q # 0
      BY <1>2, <1>4
    <2> QED BY <1>1, <1>2, <1>3, <1>4, <2>4, <2>5
  <1>5. CASE r # 0
    <2>1. b * (q + 1) = b * q + b
      OBVIOUS
    <2>2. n + b - 1 = b * (q + 1) + (r - 1) /\ r - 1 \in 0..(b - 1) /\ n + b - 1 \in Nat /\ q + 1 \in Nat
      BY <1>2, <1>3, <1>5, <2>1
    <2>3. PICK m \in Nat, p \in Nat, s \in 0..(b - 1) : m = n + b - 1 /\ p = q + 1 /\ s = r - 1
      BY <2>2
    <2>4. m \div b = p
      BY <2>2, <2>3, DivIs
    <2>5. ClustersOf(n) = q + 1
      BY <1>1, <2>3, <2>4 DEF ClustersOf
    <2>6. n <= b * (q + 1)
      BY <1>2, <1>3, <2>1
    <2> QED BY <1>1, <1>2, <1>5, <2>5, <2>6
  <1> QED BY <1>4, <1>5

\* A directory takes one cluster.
LEMMA DirectoryTakesOne == ClustersOf(ClusterCells) = 1
  <1>1. PICK b \in Nat \ {0} : b = ClusterCells
    BY Fat16Assumption
  <1>2. PICK m \in Nat : m = b + b - 1
    OBVIOUS
  <1>3. m = b * 1 + (b - 1) /\ b - 1 \in 0..(b - 1)
    BY <1>2
  <1>4. m \div b = 1
    BY <1>3, DivIs
  <1> QED BY <1>1, <1>2, <1>4 DEF ClustersOf

\* Where each object starts.
LEMMA StartsAre ==
    ASSUME NEW loader \in Nat, NEW map \in Nat
    PROVE  /\ Start(loader, map, 1) = 2 /\ Start(loader, map, 2) = 3 /\ Start(loader, map, 3) = 4
           /\ Start(loader, map, 4) = 4 + ClustersOf(loader)
           /\ Start(loader, map, 5) = 4 + ClustersOf(loader) + ClustersOf(map)
  <1>1. PICK p \in Nat, q \in Nat : p = ClustersOf(loader) /\ q = ClustersOf(map)
    BY ClustersAre
  <1>2. PICK clusters : clusters = [k \in 1..4 |-> ClustersOf(Lengths(loader, map)[k])]
    OBVIOUS
  <1>3. clusters[1] = 1 /\ clusters[2] = 1 /\ clusters[3] = p /\ clusters[4] = q
    BY <1>1, <1>2, DirectoryTakesOne DEF Lengths
  <1>4. \A k \in 1..5 : k # 1 => k - 1 \in 1..4 /\ ClustersOf(Lengths(loader, map)[k - 1]) = clusters[k - 1]
    BY <1>2
  <1>5. PICK f : f = [k \in 1..5 |-> IF k = 1 THEN 2 ELSE IF k = 2 THEN 3 ELSE IF k = 3 THEN 4
                                     ELSE IF k = 4 THEN 4 + p ELSE 4 + p + q]
    OBVIOUS
  <1>6. \A k \in 1..5 : f[k] = IF k = 1 THEN 2 ELSE f[k - 1] + ClustersOf(Lengths(loader, map)[k - 1])
    <2>1. f[1] = 2 /\ f[2] = 3 /\ f[3] = 4 /\ f[4] = 4 + p /\ f[5] = 4 + p + q
      BY <1>5
    <2>2. ASSUME NEW k \in 1..5, k # 1 PROVE f[k] = f[k - 1] + clusters[k - 1]
      <3>1. k = 2 \/ k = 3 \/ k = 4 \/ k = 5
        BY <2>2
      <3> QED BY <1>3, <2>1, <3>1
    <2> QED BY <1>4, <2>1, <2>2
  <1>7. f = [k \in 1..5 |->
                IF k = 1 THEN 2 ELSE f[k - 1] + ClustersOf(Lengths(loader, map)[k - 1])]
    BY <1>5, <1>6
  <1> DEFINE next == CHOOSE g : g = [k \in 1..5 |->
                        IF k = 1 THEN 2 ELSE g[k - 1] + ClustersOf(Lengths(loader, map)[k - 1])]
  <1>8. \A i : Start(loader, map, i) = next[i]
    BY DEF Start
  <1>9. next = [k \in 1..5 |->
                IF k = 1 THEN 2 ELSE next[k - 1] + ClustersOf(Lengths(loader, map)[k - 1])]
    BY <1>7
  <1> HIDE DEF next
  <1>10. next[1] = 2
    BY <1>9
  <1>11. \A k \in 1..5 : k # 1 => next[k] = next[k - 1] + clusters[k - 1]
    BY <1>4, <1>9
  <1>12. next[2] = 3
    <2>1. next[2] = next[2 - 1] + clusters[2 - 1]
      BY <1>11
    <2> QED BY <1>3, <1>10, <2>1
  <1>13. next[3] = 4
    <2>1. next[3] = next[3 - 1] + clusters[3 - 1]
      BY <1>11
    <2> QED BY <1>3, <1>12, <2>1
  <1>14. next[4] = 4 + p
    <2>1. next[4] = next[4 - 1] + clusters[4 - 1]
      BY <1>11
    <2> QED BY <1>3, <1>13, <2>1
  <1>15. next[5] = 4 + p + q
    <2>1. next[5] = next[5 - 1] + clusters[5 - 1]
      BY <1>11
    <2> QED BY <1>3, <1>14, <2>1
  <1> QED BY <1>1, <1>8, <1>10, <1>12, <1>13, <1>14, <1>15

\* n clusters from a on, and a table in which they follow one another up to an end mark.
Consecutive(a, n) == [j \in 1..n |-> a + j - 1]
Follow(esp, a, n) ==
    \A c \in a..(a + n - 1) : esp.fat[c] = IF c + 1 = a + n THEN LastWord ELSE c + 1

\* Such clusters are what readChain reads.
LEMMA ConsecutiveChain ==
    ASSUME NEW esp, NEW a \in Nat, NEW n \in Nat \ {0}, 2 <= a, a + n <= Clusters + 2,
           Follow(esp, a, n)
    PROVE  ReadChain(esp, a) = Consecutive(a, n)
  <1>0. \A c \in a..(a + n - 1) : esp.fat[c] = IF c + 1 = a + n THEN LastWord ELSE c + 1
    BY DEF Follow
  <1>1. /\ Clusters \in Nat /\ EndMark \in Nat /\ LastWord \in Nat /\ EndMark <= LastWord
        /\ Clusters + 2 < EndMark
    BY Fat16Assumption
  <1>2. PICK chain : IsReading(chain, esp, a) /\ ReadChain(esp, a) = chain[Clusters]
    BY ReadingExists
  <1> DEFINE Run(m) == [j \in 1..m |-> a + j - 1]
             T == {k \in 0..Clusters : chain[k] = IF k < n THEN Run(k + 1) ELSE Run(n)}
  <1>3. \A m \in 1..n : /\ Run(m) \in Seq(Nat) /\ Len(Run(m)) = m /\ Run(m)[m] = a + m - 1
                        /\ \A j \in 1..m : Run(m)[j] = a + j - 1
    OBVIOUS
  <1>4. \A m \in 1..n : Run(m) # NoChain
    <2>1. ASSUME NEW m \in 1..n PROVE Run(m) # <<>>
      <3>1. Len(Run(m)) = m /\ Len(<<>>) = 0
        BY <1>3
      <3> QED BY <3>1
    <2> QED BY <2>1 DEF NoChain
  <1>5. 0 \in T
    <2>1. InPartition(a)
      BY <1>1 DEF InPartition, ClusterNumbers
    <2>2. chain[0] = <<a>>
      BY <1>2, <2>1 DEF IsReading
    <2>3. <<a>> = Run(0 + 1)
      OBVIOUS
    <2> QED BY <1>1, <2>2, <2>3
  <1>6. ASSUME NEW m \in 1..n, m < n PROVE Extended(esp, Run(m)) = Run(m + 1)
    <2>1. PICK s \in Seq(Nat) : /\ s = Run(m) /\ Len(s) = m /\ s[m] = a + m - 1
                                /\ \A j \in 1..m : s[j] = a + j - 1
      BY <1>3
    <2>2. PICK next \in Nat : next = a + m
      OBVIOUS
    <2>3. esp.fat[s[Len(s)]] = next
      <3>1. PICK c \in a..(a + n - 1) : c = a + m - 1 /\ c + 1 = next /\ c + 1 # a + n
        BY <1>6, <2>2
      <3>2. esp.fat[c] = next
        BY <1>0, <3>1
      <3> QED BY <2>1, <3>1, <3>2
    <2>4. ~Ends(next) /\ next # BadMark /\ InPartition(next)
      <3>1. next <= Clusters + 1 /\ 2 <= next
        BY <1>1, <1>6, <2>2
      <3> QED BY <1>1, <3>1, Fat16Assumption DEF Ends, BadMark, InPartition, ClusterNumbers
    <2>5. ~\E i \in 1..Len(s) : s[i] = next
      BY <2>1, <2>2
    <2>6. Extended(esp, s) = Append(s, next)
      BY <2>3, <2>4, <2>5 DEF Extended
    <2>7. Append(s, next) = Run(m + 1)
      <3>1. PICK t : t = Append(s, next)
        OBVIOUS
      <3>2. t \in Seq(Nat) /\ Len(t) = m + 1
        BY <2>1, <3>1
      <3>3. ASSUME NEW j \in 1..(m + 1) PROVE t[j] = a + j - 1
        <4>1. CASE j = m + 1
          <5>1. t[m + 1] = next
            BY <2>1, <3>1
          <5> QED BY <2>2, <4>1, <5>1
        <4>2. CASE j # m + 1
          <5>1. j \in 1..m
            BY <4>2
          <5>2. t[j] = s[j]
            BY <2>1, <3>1, <5>1
          <5> QED BY <2>1, <5>1, <5>2
        <4> QED BY <4>1, <4>2
      <3>4. t = [j \in 1..(m + 1) |-> t[j]]
        BY <3>2
      <3>5. t = Run(m + 1)
        BY <3>3, <3>4
      <3> QED BY <3>1, <3>5
    <2> HIDE DEF Run
    <2> QED BY <2>1, <2>6, <2>7
  <1>7. Extended(esp, Run(n)) = Run(n)
    <2>1. PICK s \in Seq(Nat) : s = Run(n) /\ Len(s) = n /\ s[n] = a + n - 1
      <3>1. n \in 1..n
        OBVIOUS
      <3> HIDE DEF Run
      <3> QED BY <1>3, <3>1
    <2>2. esp.fat[s[Len(s)]] = LastWord
      <3>1. PICK c \in a..(a + n - 1) : c = a + n - 1 /\ c + 1 = a + n
        OBVIOUS
      <3> QED BY <1>0, <2>1, <3>1
    <2>3. Ends(LastWord)
      BY <1>1 DEF Ends
    <2>4. Extended(esp, s) = s
      BY <2>2, <2>3 DEF Extended
    <2> QED BY <2>1, <2>4
  <1>8. ASSUME NEW k \in 0..Clusters, k \in T, k < Clusters PROVE k + 1 \in T
    <2>1. k + 1 \in 1..Clusters /\ (k + 1) - 1 = k /\ k + 1 \in 0..Clusters
      BY <1>1, <1>8
    <2>2. chain[k + 1] = IF chain[k] = NoChain THEN NoChain ELSE Extended(esp, chain[k])
      BY <1>2, <2>1 DEF IsReading
    <2>3. chain[k] = IF k < n THEN Run(k + 1) ELSE Run(n)
      BY <1>8
    <2> HIDE DEF Run
    <2>4. CASE k + 1 < n
      <3>1. PICK m \in 1..n : m = k + 1 /\ m < n
        BY <2>4
      <3>2. chain[k] = Run(m) /\ Run(m) # NoChain
        BY <1>4, <2>3, <3>1
      <3>3. chain[k + 1] = Run(m + 1)
        BY <1>6, <2>2, <3>1, <3>2
      <3> QED BY <2>1, <2>4, <3>1, <3>3
    <2>5. CASE ~(k + 1 < n)
      <3>1. chain[k] = Run(n)
        <4>1. k < n => k + 1 = n
          BY <2>5
        <4> QED BY <2>3, <4>1
      <3>2. n \in 1..n
        OBVIOUS
      <3>3. chain[k + 1] = Run(n)
        BY <1>4, <1>7, <2>2, <3>1, <3>2
      <3> QED BY <2>1, <2>5, <3>3
    <2> QED BY <2>4, <2>5
  <1>9. Clusters \in T
    <2> HIDE DEF T
    <2>1. \A k \in 0..Clusters : k \in T
      BY <1>1, <1>5, <1>8, IntervalInduction
    <2> QED BY <1>1, <2>1
  <1>10. chain[Clusters] = Run(n)
    <2>1. ~(Clusters < n)
      BY <1>1
    <2> HIDE DEF Run
    <2> QED BY <1>9, <2>1
  <1> QED BY <1>2, <1>10 DEF Consecutive

\* The fields of a directory's entry.
LEMMA DirectoryEntry ==
    ASSUME NEW cluster
    PROVE  DirEntry(cluster, 0, TRUE).cluster = cluster /\ DirEntry(cluster, 0, TRUE).isDir
  <1>1. DirEntry(cluster, 0, TRUE).isDir = TRUE
    BY DEF DirEntry
  <1> QED BY <1>1 DEF DirEntry

\* The files and directories of a partition that was built, in the order of allocation.
LEMMA OwnerIs ==
    ASSUME NEW loader \in Nat \ {0}, NEW map \in Nat \ {0}, NEW i \in 1..4, NEW c \in Nat,
           Start(loader, map, i) <= c, c < Start(loader, map, i + 1)
    PROVE  Owner(loader, map, c) = i
  <1>1. PICK p \in Nat, q \in Nat : p = ClustersOf(loader) /\ q = ClustersOf(map)
    BY ClustersAre
  <1>2. PICK at : /\ at[1] = 2 /\ at[2] = 3 /\ at[3] = 4 /\ at[4] = 4 + p /\ at[5] = 4 + p + q
                  /\ \A k \in 1..5 : Start(loader, map, k) = at[k]
    <2>1. PICK at : at = [k \in 1..5 |-> Start(loader, map, k)]
      OBVIOUS
    <2>2. \A k \in 1..5 : Start(loader, map, k) = at[k]
      BY <2>1
    <2>3. at[1] = 2 /\ at[2] = 3 /\ at[3] = 4 /\ at[4] = 4 + p /\ at[5] = 4 + p + q
      BY <1>1, <2>1, StartsAre
    <2> QED BY <2>2, <2>3
  <1>3. \A k \in 1..4 : Start(loader, map, k) = at[k] /\ Start(loader, map, k + 1) = at[k + 1]
    <2>1. \A k \in 1..4 : k \in 1..5 /\ k + 1 \in 1..5
      OBVIOUS
    <2> QED BY <1>2, <2>1
  <1>4. at[i] <= c /\ c < at[i + 1]
    BY <1>3
  <1>5. ASSUME NEW k \in 1..4, at[k] <= c, c < at[k + 1] PROVE k = i
    <2>1. (k = 1 \/ k = 2 \/ k = 3 \/ k = 4) /\ (i = 1 \/ i = 2 \/ i = 3 \/ i = 4)
      OBVIOUS
    <2>2. CASE k = 1
      BY <1>2, <1>4, <1>5, <2>1, <2>2
    <2>3. CASE k = 2
      BY <1>2, <1>4, <1>5, <2>1, <2>3
    <2>4. CASE k = 3
      BY <1>2, <1>4, <1>5, <2>1, <2>4
    <2>5. CASE k = 4
      BY <1>2, <1>4, <1>5, <2>1, <2>5
    <2> QED BY <2>1, <2>2, <2>3, <2>4, <2>5
  <1>6. \A k \in 1..4 : Start(loader, map, k) <= c /\ c < Start(loader, map, k + 1) => k = i
    BY <1>3, <1>5
  <1> QED BY <1>6 DEF Owner

\* Object i lies in count clusters, one after another, within the partition.
LEMMA ObjectLies ==
    ASSUME NEW loader \in Nat \ {0}, NEW map \in Nat \ {0}, Fits(loader, map), NEW i \in 1..4
    PROVE  \E a \in Nat, n \in Nat \ {0} :
            /\ a = Start(loader, map, i) /\ a + n = Start(loader, map, i + 1)
            /\ n = IF i = 3 THEN ClustersOf(loader) ELSE IF i = 4 THEN ClustersOf(map) ELSE 1
            /\ 2 <= a /\ a + n <= Clusters + 2
            /\ ReadChain(Layout(loader, map), a) = [j \in 1..n |-> a + j - 1]
  <1>1. PICK p \in Nat \ {0}, q \in Nat \ {0} : p = ClustersOf(loader) /\ q = ClustersOf(map)
    BY ClustersAre
  <1>2. Clusters \in Nat /\ Entries \in Nat /\ Clusters + 2 <= Entries
    BY Fat16Assumption
  <1>3. 4 + p + q <= Clusters + 2
    BY <1>1, StartsAre DEF Fits
  <1>4. PICK a \in Nat, n \in Nat \ {0} :
            /\ a = Start(loader, map, i) /\ a + n = Start(loader, map, i + 1)
            /\ n = IF i = 3 THEN p ELSE IF i = 4 THEN q ELSE 1
            /\ 2 <= a /\ a + n <= 4 + p + q
    <2>1. CASE i = 1
      <3>1. 2 = Start(loader, map, i) /\ 2 + 1 = Start(loader, map, i + 1)
        BY <2>1, StartsAre
      <3> QED BY <2>1, <3>1
    <2>2. CASE i = 2
      <3>1. 3 = Start(loader, map, i) /\ 3 + 1 = Start(loader, map, i + 1)
        BY <2>2, StartsAre
      <3> QED BY <2>2, <3>1
    <2>3. CASE i = 3
      <3>1. 4 = Start(loader, map, i) /\ 4 + p = Start(loader, map, i + 1)
        BY <1>1, <2>3, StartsAre
      <3> QED BY <2>3, <3>1
    <2>4. CASE i = 4
      <3>1. 4 + p = Start(loader, map, i) /\ (4 + p) + q = Start(loader, map, i + 1)
        BY <1>1, <2>4, StartsAre
      <3>2. 4 + p \in Nat /\ 2 <= 4 + p /\ (4 + p) + q <= 4 + p + q
        OBVIOUS
      <3> QED BY <2>4, <3>1, <3>2
    <2> QED BY <2>1, <2>2, <2>3, <2>4
  <1>5. a + n <= Clusters + 2
    BY <1>2, <1>3, <1>4
  <1>6. PICK esp : esp = Layout(loader, map)
    OBVIOUS
  <1>7. ASSUME NEW c \in a..(a + n - 1)
        PROVE  esp.fat[c] = IF c + 1 = a + n THEN LastWord ELSE c + 1
    <2>1. c \in Nat /\ a <= c /\ c < a + n /\ c # 0 /\ c # 1 /\ c \in 0..Entries - 1
      BY <1>2, <1>4, <1>5
    <2>2. Owner(loader, map, c) = i
      BY <1>4, <2>1, OwnerIs
    <2>3. i # 0 /\ Start(loader, map, i + 1) = a + n
      BY <1>4
    <2>4. Allocated(loader, map, c) = IF c + 1 = a + n THEN LastWord ELSE c + 1
      BY <2>1, <2>2, <2>3 DEF Allocated
    <2>5. esp.fat[c] = Allocated(loader, map, c)
      BY <1>6, <2>1 DEF Layout
    <2> QED BY <2>4, <2>5
  <1>8. ReadChain(esp, a) = [j \in 1..n |-> a + j - 1]
    <2>1. 2 <= a
      BY <1>4
    <2>2. Follow(esp, a, n)
      BY <1>7 DEF Follow
    <2>3. ReadChain(esp, a) = Consecutive(a, n)
      BY <1>5, <2>1, <2>2, ConsecutiveChain
    <2> QED BY <2>3 DEF Consecutive
  <1> QED BY <1>1, <1>4, <1>5, <1>6, <1>8

\* Object 3 or 4 is found whole.
LEMMA BuiltFileIs ==
    ASSUME NEW loader \in Nat \ {0}, NEW map \in Nat \ {0}, Fits(loader, map), NEW i \in {3, 4},
           NEW length, length = IF i = 3 THEN loader ELSE map,
           NEW content,
           content = IF i = 3 THEN Content("loader", loader) ELSE Content("map", map)
    PROVE  FileIs(Layout(loader, map), DirEntry(Start(loader, map, i), length, FALSE), content)
  <1>1. length \in Nat \ {0} /\ i \in 1..4
    OBVIOUS
  <1>2. PICK b \in Nat \ {0} : b = ClusterCells
    BY Fat16Assumption
  <1>3. Len(content) = length /\ content = [j \in 1..length |-> content[j]]
    <2>1. \E f : content = [j \in 1..length |-> f[j]]
      BY ContentIs
    <2>2. PICK f : content = [j \in 1..length |-> f[j]]
      BY <2>1
    <2>3. content \in Seq({f[j] : j \in 1..length}) /\ Len(content) = length
      BY <1>1, <2>2
    <2>4. content = [j \in 1..length |-> content[j]]
      BY <2>2
    <2> QED BY <2>3, <2>4
  <1>4. PICK a \in Nat, n \in Nat \ {0} :
            /\ a = Start(loader, map, i) /\ a + n = Start(loader, map, i + 1)
            /\ n = ClustersOf(length) /\ 2 <= a /\ a + n <= Clusters + 2
            /\ ReadChain(Layout(loader, map), a) = [j \in 1..n |-> a + j - 1]
    <2>1. PICK a \in Nat, n \in Nat \ {0} :
            /\ a = Start(loader, map, i) /\ a + n = Start(loader, map, i + 1)
            /\ n = IF i = 3 THEN ClustersOf(loader) ELSE IF i = 4 THEN ClustersOf(map) ELSE 1
            /\ 2 <= a /\ a + n <= Clusters + 2
            /\ ReadChain(Layout(loader, map), a) = [j \in 1..n |-> a + j - 1]
      BY <1>1, ObjectLies
    <2>2. n = ClustersOf(length)
      BY <2>1
    <2> QED BY <2>1, <2>2
  <1>5. length <= b * n
    BY <1>1, <1>2, <1>4, ClustersAre
  <1>6. PICK s \in Seq(Nat) : /\ s = ReadChain(Layout(loader, map), a) /\ Len(s) = n
                              /\ \A j \in 1..n : s[j] = a + j - 1
    <2>1. PICK s : s = ReadChain(Layout(loader, map), a)
      OBVIOUS
    <2>2. s = [j \in 1..n |-> a + j - 1]
      BY <1>4, <2>1
    <2>3. \A j \in 1..n : a + j - 1 \in Nat
      BY <1>4
    <2>4. s \in Seq(Nat) /\ Len(s) = n
      BY <2>2, <2>3
    <2>5. \A j \in 1..n : s[j] = a + j - 1
      BY <2>2
    <2> QED BY <2>1, <2>4, <2>5
  <1>7. PICK esp : esp = Layout(loader, map)
    OBVIOUS
  <1>8. ASSUME NEW j \in 1..length PROVE CellAt(esp, s, j) = content[j]
    <2>1. PICK m \in Nat : m = j - 1 /\ m < length
      BY <1>1
    <2>2. PICK q \in Nat, r \in 0..(b - 1) : q = m \div b /\ r = m % b /\ m = b * q + r
      BY Divided, ZenonT(60)
    <2>3. q < n
      <3>1. n < q => b * n + b <= b * q
        BY LessMul
      <3>2. b * n \in Nat /\ b * q \in Nat
        OBVIOUS
      <3>3. ~(n < q)
        BY <1>1, <1>5, <2>1, <2>2, <3>1, <3>2
      <3>4. n # q
        BY <1>1, <1>5, <2>1, <2>2, <3>2
      <3> QED BY <3>3, <3>4
    <2>4. PICK c \in Nat : c = a + q /\ a <= c /\ c < a + n /\ c \in ClusterNumbers
      <3>1. Clusters \in Nat
        BY Fat16Assumption
      <3>2. a + q \in ClusterNumbers
        BY <1>4, <2>3, <3>1 DEF ClusterNumbers
      <3> QED BY <2>3, <3>2
    <2>5. s[q + 1] = c
      <3>1. q + 1 \in 1..n /\ a + (q + 1) - 1 = a + q
        BY <2>3
      <3> QED BY <1>6, <2>4, <3>1
    <2>6. Owner(loader, map, c) = i
      BY <1>1, <1>4, <2>4, OwnerIs, SMTT(30)
    <2>7. (c - a) * b = b * q /\ b * q + (r + 1) = j /\ b * q \in Nat
      <3>1. c - a = q
        BY <2>4
      <3>2. PICK t \in Nat : t = b * q /\ t = q * b
        OBVIOUS
      <3>3. t + (r + 1) = j
        BY <2>1, <2>2, <3>2
      <3> QED BY <3>1, <3>2, <3>3
    <2>8. esp.data[c] = CopiedData(loader, map, c)
      BY <1>7, <2>4 DEF Layout
    <2>9. CopiedData(loader, map, c)[r + 1] = content[j]
      <3>1. PICK offset \in Nat : offset = (c - a) * b /\ offset + (r + 1) = j
        BY <2>7
      <3>2. r + 1 \in 1..b
        OBVIOUS
      <3>3. CopiedData(loader, map, c)
                = [k \in 1..b |-> IF offset + k <= Len(content) THEN content[offset + k] ELSE Zero]
        BY <1>2, <1>4, <2>6, <3>1 DEF CopiedData
      <3>4. offset + (r + 1) <= Len(content)
        BY <1>3, <3>1, SMTT(30)
      <3> QED BY <3>1, <3>2, <3>3, <3>4
    <2>10. CellAt(esp, s, j) = esp.data[s[q + 1]][r + 1]
      BY <1>2, <2>1, <2>2 DEF CellAt
    <2> QED BY <2>5, <2>8, <2>9, <2>10
  <1>9. [j \in 1..length |-> CellAt(esp, s, j)] = content
    BY <1>3, <1>8
  <1>10. s # NoChain
    <2>1. Len(s) # Len(<<>>)
      BY <1>6
    <2> QED BY <2>1 DEF NoChain
  <1>11. length <= Len(s) * ClusterCells
    <2>1. n * b = b * n
      OBVIOUS
    <2> QED BY <1>2, <1>5, <1>6, <2>1
  <1>12. PICK entry : /\ entry = DirEntry(Start(loader, map, i), length, FALSE)
                      /\ entry.cluster = a /\ entry.size = length /\ ~entry.isDir
    <2>1. PICK entry : entry = DirEntry(a, length, FALSE)
      OBVIOUS
    <2>2. entry = [cluster |-> a, size |-> length, isDir |-> FALSE]
      BY <2>1 DEF DirEntry
    <2>3. entry.cluster = a
      BY <2>2
    <2>4. entry.size = length
      BY <2>2
    <2>5. entry.isDir = FALSE
      BY <2>2
    <2> QED BY <1>4, <2>1, <2>3, <2>4, <2>5
  <1>13. FileIs(esp, entry, content)
    BY <1>1, <1>6, <1>7, <1>9, <1>10, <1>11, <1>12 DEF FileIs
  <1> QED BY <1>7, <1>12, <1>13

\* What is built passes its validation.
LEMMA BuiltIsValid ==
    ASSUME NEW loader \in Nat \ {0}, NEW map \in Nat \ {0}, Fits(loader, map)
    PROVE  ValidEsp(Layout(loader, map), loader, map)
  <1>1. PICK esp : esp = Layout(loader, map)
    OBVIOUS
  <1>2. Clusters \in Nat /\ Entries \in Nat /\ Clusters + 2 <= Entries
    BY Fat16Assumption
  <1>3. Start(loader, map, 1) = 2 /\ Start(loader, map, 2) = 3
    BY StartsAre
  <1>4. 2 \in ClusterNumbers /\ 3 \in ClusterNumbers
    <2>1. PICK p \in Nat, q \in Nat : p = ClustersOf(loader) /\ q = ClustersOf(map)
      BY ClustersAre
    <2>2. 4 + p + q <= Clusters + 2
      BY <2>1, StartsAre DEF Fits
    <2> QED BY <1>2, <2>1, <2>2 DEF ClusterNumbers
  <1>5. /\ esp.fat = esp.copy
        /\ "EFI" \in DOMAIN esp.root /\ esp.root["EFI"] = DirEntry(2, 0, TRUE)
        /\ "MAP" \in DOMAIN esp.root
        /\ esp.root["MAP"] = DirEntry(Start(loader, map, 4), map, FALSE)
    BY <1>1, <1>3 DEF Layout
  <1>16. "BOOT" \in DOMAIN esp.dirs[2] /\ esp.dirs[2]["BOOT"] = DirEntry(3, 0, TRUE)
    <2>1. esp.dirs[2] = [name \in {"BOOT"} |-> DirEntry(3, 0, TRUE)]
      BY <1>1, <1>3, <1>4 DEF Layout
    <2> QED BY <2>1
  <1>17. /\ "BOOTX64" \in DOMAIN esp.dirs[3]
         /\ esp.dirs[3]["BOOTX64"] = DirEntry(Start(loader, map, 3), loader, FALSE)
    <2>1. esp.dirs[3] = [name \in {"BOOTX64"} |-> DirEntry(Start(loader, map, 3), loader, FALSE)]
      BY <1>1, <1>3, <1>4 DEF Layout
    <2> QED BY <2>1
  <1>6. esp.fat[0] = EndMark /\ esp.fat[1] = LastWord
    <2>1. 0 \in 0..Entries - 1 /\ 1 \in 0..Entries - 1
      BY <1>2
    <2>2. esp.fat[0] = Allocated(loader, map, 0) /\ esp.fat[1] = Allocated(loader, map, 1)
      BY <1>1, <2>1 DEF Layout
    <2> QED BY <2>2 DEF Allocated
  <1>7. ReadChain(esp, 2) # NoChain /\ ReadChain(esp, 3) # NoChain
    <2>1. ASSUME NEW i \in 1..4 PROVE ReadChain(esp, Start(loader, map, i)) # NoChain
      <3>1. PICK a \in Nat, n \in Nat \ {0} : /\ a = Start(loader, map, i)
                                              /\ ReadChain(esp, a) = [j \in 1..n |-> a + j - 1]
        BY <1>1, ObjectLies, SMTT(30)
      <3>2. Len([j \in 1..n |-> a + j - 1]) = n /\ Len(<<>>) = 0
        OBVIOUS
      <3> QED BY <3>1, <3>2 DEF NoChain
    <2>2. ReadChain(esp, Start(loader, map, 1)) # NoChain
      BY <2>1
    <2>3. ReadChain(esp, Start(loader, map, 2)) # NoChain
      BY <2>1
    <2> QED BY <1>3, <2>2, <2>3
  <1>8. PICK boot : boot = DirEntry(3, 0, TRUE) /\ boot.isDir /\ boot.cluster = 3
    BY DirectoryEntry
  <1>9. boot \in Found(esp, 2, "BOOT")
    BY <1>7, <1>8, <1>16 DEF Found
  <1>10. PICK entry : entry = DirEntry(Start(loader, map, 3), loader, FALSE)
    OBVIOUS
  <1>11. entry \in Found(esp, boot.cluster, "BOOTX64")
    BY <1>7, <1>8, <1>10, <1>17 DEF Found
  <1>12. FileIs(esp, entry, Content("loader", loader))
    BY <1>1, <1>10, BuiltFileIs
  <1>13. FileIs(esp, esp.root["MAP"], Content("map", map))
    <2>1. PICK i \in {3, 4} : i = 4
      OBVIOUS
    <2>2. PICK length, content : length = map /\ content = Content("map", map)
      OBVIOUS
    <2>3. /\ length = IF i = 3 THEN loader ELSE map
          /\ content = IF i = 3 THEN Content("loader", loader) ELSE Content("map", map)
      BY <2>1, <2>2
    <2>4. FileIs(Layout(loader, map), DirEntry(Start(loader, map, i), length, FALSE), content)
      BY <2>3, BuiltFileIs
    <2> QED BY <1>1, <1>5, <2>1, <2>2, <2>4
  <1>14. /\ "EFI" \in DOMAIN esp.root /\ "MAP" \in DOMAIN esp.root
         /\ esp.root["EFI"].isDir /\ esp.root["EFI"].cluster = 2
    BY <1>5, DirectoryEntry
  <1>15. ValidEsp(esp, loader, map)
    BY <1>5, <1>6, <1>8, <1>9, <1>11, <1>12, <1>13, <1>14 DEF ValidEsp
  <1> QED BY <1>1, <1>15

\* A longer file takes no fewer clusters.
LEMMA ClustersGrow ==
    ASSUME NEW n \in Nat, NEW m \in Nat, n <= m
    PROVE  ClustersOf(n) <= ClustersOf(m)
  <1>1. PICK b \in Nat \ {0} : b = ClusterCells
    BY Fat16Assumption
  <1>2. PICK u \in Nat, v \in Nat : u = n + b - 1 /\ v = m + b - 1 /\ u <= v
    <2>1. n + b - 1 \in Nat /\ m + b - 1 \in Nat /\ n + b - 1 <= m + b - 1
      OBVIOUS
    <2> QED BY <2>1
  <1>3. PICK p \in Nat, r \in 0..(b - 1) : p = u \div b /\ u = b * p + r
    BY Divided
  <1>4. PICK q \in Nat, s \in 0..(b - 1) : q = v \div b /\ v = b * q + s
    BY Divided
  <1>5. b * p \in Nat /\ b * q \in Nat
    OBVIOUS
  <1>6. q < p => b * q + b <= b * p
    BY LessMul
  <1>7. p <= q
    BY <1>2, <1>3, <1>4, <1>5, <1>6
  <1>8. ClustersOf(n) = p /\ ClustersOf(m) = q
    BY <1>1, <1>2, <1>3, <1>4 DEF ClustersOf
  <1> QED BY <1>7, <1>8

\* The limits on the lengths keep the files within the partition.
LEMMA LimitsSuffice ==
    ASSUME NEW loader \in 0..MaxLoader, NEW map \in 0..MaxMap
    PROVE  Fits(loader, map)
  <1>1. loader \in Nat /\ map \in Nat /\ MaxLoader \in Nat /\ MaxMap \in Nat /\ Clusters \in Nat
    BY Fat16Assumption
  <1>2. PICK p \in Nat, q \in Nat : p = ClustersOf(loader) /\ q = ClustersOf(map)
    BY <1>1, ClustersAre
  <1>3. PICK u \in Nat, v \in Nat : u = ClustersOf(MaxLoader) /\ v = ClustersOf(MaxMap)
    BY <1>1, ClustersAre
  <1>4. p <= u
    BY <1>1, <1>2, <1>3, ClustersGrow
  <1>5. q <= v
    BY <1>1, <1>2, <1>3, ClustersGrow
  <1>6. 2 + u + v <= Clusters
    BY <1>3, LimitsFit
  <1>7. Start(loader, map, 5) = 4 + p + q
    BY <1>1, <1>2, StartsAre
  <1> QED BY <1>1, <1>4, <1>5, <1>6, <1>7 DEF Fits

\* fat16.go: every loader and map that the checks of the two files let pass are built, for
\* all limits on their lengths that leave the partition room, and its own validation never
\* refuses what was just laid out.
THEOREM CheckedFilesAreBuiltHolds == Spec => []CheckedFilesAreBuilt
  <1>1. ASSUME AnswersInv PROVE CheckedFilesAreBuilt
    <2> SUFFICES ASSUME task = "esp", answer # <<>>, question.efi,
                        question.loader \in MinLoader..MaxLoader, question.map \in 1..MaxMap,
                        \E words \in 1..MaxMap : question.map = words * MapUnit
                 PROVE  answer[1].built
      BY DEF CheckedFilesAreBuilt, Answered
    <2>1. MinLoader \in Nat \ {0} /\ MaxLoader \in Nat /\ MapUnit \in Nat \ {0} /\ MaxMap \in Nat
      BY Fat16Assumption
    <2>2. PICK loader \in Nat \ {0}, map \in Nat \ {0} :
            /\ loader = question.loader /\ map = question.map
            /\ loader \in MinLoader..MaxLoader /\ loader \in 0..MaxLoader
            /\ map \in 1..MaxMap /\ map \in 0..MaxMap
      BY <2>1
    <2>3. map % MapUnit = 0
      <3>1. PICK words \in Nat, unit \in Nat \ {0} : unit = MapUnit /\ map = words * unit
        BY <2>1, <2>2
      <3>2. map = unit * words + 0 /\ 0 \in 0..(unit - 1)
        BY <3>1
      <3>3. map % unit = 0
        BY <3>2, DivIs
      <3> QED BY <3>1, <3>3
    <2>4. Fits(loader, map)
      BY <2>2, LimitsSuffice
    <2>5. ValidEsp(Layout(loader, map), loader, map)
      BY <2>4, BuiltIsValid
    <2>6. Built(loader, map, question.efi)
      BY <2>2, <2>3, <2>4, <2>5 DEF Built, IsLoader, IsMap
    <2>7. \E esp, valid : answer = <<[built |-> TRUE, esp |-> esp, valid |-> valid]>>
      BY <1>1, <2>2, <2>6 DEF AnswersInv, EspAnswer
    <2> QED BY <2>7
  <1> QED BY <1>1, AnswersHold, PTL
=============================================================================
