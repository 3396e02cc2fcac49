-------------------------- MODULE BucketPoolProofs --------------------------
(***************************************************************************)
(* Proofs about util/bucketpool.  findPool's bit arithmetic (bits.Len64 of *)
(* size / minSize, less one at an exact power of two) picks the first      *)
(* pool New made whose size holds the request, for every minSize and       *)
(* maxSize; and, with no foreign buffers Put, every buffer Get hands out   *)
(* is resliced within its capacity.                                        *)
(*                                                                         *)
(* Arithmetic over the recursive functions Pow2 and BitLen is done by      *)
(* minimal counterexample (MinCounter of LeastNumber: a set of naturals    *)
(* that is not empty has a least element).  The same argument shows that   *)
(* the recursive definitions have a solution, so that they unfold.         *)
(***************************************************************************)
EXTENDS BucketPool, LeastNumber, FiniteSetTheorems, TLAPS

B == MaxSizeBound

-----------------------------------------------------------------------------
(* Pow2 and BitLen satisfy their defining equations.                       *)

PowDef(g, N) ==
    /\ g \in [0 .. N -> Nat]
    /\ \A k \in 0 .. N : g[k] = IF k = 0 THEN 1 ELSE 2 * g[k - 1]

LEMMA PowExists == \A N \in Nat : \E g : PowDef(g, N)
<1> DEFINE T == {N \in Nat : ~\E g : PowDef(g, N)}
<1> SUFFICES ASSUME T # {} PROVE FALSE
  OBVIOUS
<1>1. PICK N \in T : \A y \in T : ~(y < N)
  BY MinCounter
<1>2. CASE N = 0
  <2>1. PowDef([k \in 0 .. 0 |-> 1], 0)
    BY DEF PowDef
  <2>. QED
    BY <1>1, <1>2, <2>1
<1>3. CASE N # 0
  <2>1. N - 1 \notin T
    BY <1>1, <1>3
  <2>2. PICK g : PowDef(g, N - 1)
    BY <1>1, <1>3, <2>1
  <2> DEFINE h == [k \in 0 .. N |-> IF k < N THEN g[k] ELSE 2 * g[N - 1]]
  <2>3. PowDef(h, N)
    BY <1>1, <1>3, <2>2 DEF PowDef
  <2>. QED
    BY <1>1, <2>3
<1>. QED
  BY <1>2, <1>3

LEMMA PowUnfold ==
    \A k \in 0 .. B + 1 : Pow2[k] = IF k = 0 THEN 1 ELSE 2 * Pow2[k - 1]
<1>1. PICK g : PowDef(g, B + 1)
  BY PowExists, BucketPoolAssumption DEF B
<1>2. g = [k \in 0 .. B + 1 |-> IF k = 0 THEN 1 ELSE 2 * g[k - 1]]
  BY <1>1 DEF PowDef
<1>3. Pow2 = [k \in 0 .. B + 1 |-> IF k = 0 THEN 1 ELSE 2 * Pow2[k - 1]]
  BY <1>2 DEF Pow2, B
<1>. QED
  BY <1>3

BitDef(g, N) ==
    /\ g \in [0 .. N -> Nat]
    /\ \A n \in 0 .. N : g[n] = IF n = 0 THEN 0 ELSE 1 + g[n \div 2]

LEMMA BitExists == \A N \in Nat : \E g : BitDef(g, N)
<1> DEFINE T == {N \in Nat : ~\E g : BitDef(g, N)}
<1> SUFFICES ASSUME T # {} PROVE FALSE
  OBVIOUS
<1>1. PICK N \in T : \A y \in T : ~(y < N)
  BY MinCounter
<1>2. CASE N = 0
  <2>1. BitDef([n \in 0 .. 0 |-> 0], 0)
    BY DEF BitDef
  <2>. QED
    BY <1>1, <1>2, <2>1
<1>3. CASE N # 0
  <2>1. N - 1 \notin T
    BY <1>1, <1>3
  <2>2. PICK g : BitDef(g, N - 1)
    BY <1>1, <1>3, <2>1
  <2>3. \A n \in 1 .. N : n \div 2 \in 0 .. n - 1
    BY <1>1
  <2> DEFINE h == [n \in 0 .. N |-> IF n < N THEN g[n] ELSE 1 + g[N \div 2]]
  <2>4. h \in [0 .. N -> Nat]
    BY <1>1, <1>3, <2>2, <2>3 DEF BitDef
  <2>5. ASSUME NEW n \in 0 .. N
        PROVE  h[n] = IF n = 0 THEN 0 ELSE 1 + h[n \div 2]
    <3>1. CASE n = 0
      BY <1>1, <1>3, <2>2, <3>1 DEF BitDef
    <3>2. CASE n # 0
      <4>1. n \div 2 \in 0 .. N - 1 /\ h[n \div 2] = g[n \div 2]
        BY <1>1, <1>3, <2>3, <3>2
      <4>2. CASE n < N
        <5>1. n \in 0 .. N - 1
          BY <1>1, <4>2
        <5>. QED
          BY <2>2, <3>2, <4>1, <5>1 DEF BitDef
      <4>3. CASE n = N
        BY <4>1, <4>3
      <4>. QED
        BY <4>2, <4>3, <1>1
    <3>. QED
      BY <3>1, <3>2
  <2>6. BitDef(h, N)
    BY <2>4, <2>5 DEF BitDef
  <2>. QED
    BY <1>1, <2>6
<1>. QED
  BY <1>2, <1>3

LEMMA BitUnfold ==
    \A n \in 0 .. B + 1 : BitLen[n] = IF n = 0 THEN 0 ELSE 1 + BitLen[n \div 2]
<1>1. PICK g : BitDef(g, B + 1)
  BY BitExists, BucketPoolAssumption DEF B
<1>2. g = [n \in 0 .. B + 1 |-> IF n = 0 THEN 0 ELSE 1 + g[n \div 2]]
  BY <1>1 DEF BitDef
<1>3. BitLen = [n \in 0 .. B + 1 |-> IF n = 0 THEN 0 ELSE 1 + BitLen[n \div 2]]
  BY <1>2 DEF BitLen, B
<1>. QED
  BY <1>3

-----------------------------------------------------------------------------
(* What the doubling and bits.Len64 compute.                               *)

\* curSize stays a positive multiple of minSize and outgrows the index.
LEMMA PowFacts == \A k \in 0 .. B + 1 : Pow2[k] \in Nat /\ Pow2[k] > k
<1>0. B \in Nat
  BY BucketPoolAssumption DEF B
<1> DEFINE T == {k \in 0 .. B + 1 : ~(Pow2[k] \in Nat /\ Pow2[k] > k)}
<1> SUFFICES ASSUME T # {} PROVE FALSE
  OBVIOUS
<1>s. T \subseteq Nat
  BY <1>0
<1>1. PICK k \in T : \A y \in T : ~(y < k)
  BY <1>s, MinCounter
<1>2. CASE k = 0
  BY <1>0, <1>1, <1>2, PowUnfold
<1>3. CASE k # 0
  <2>1. k - 1 \in 0 .. B + 1 /\ k - 1 \notin T
    BY <1>0, <1>1, <1>3
  <2>2. Pow2[k - 1] \in Nat /\ Pow2[k - 1] > k - 1
    BY <2>1
  <2>3. Pow2[k] = 2 * Pow2[k - 1]
    BY <1>0, <1>1, <1>3, PowUnfold
  <2>4. ~(Pow2[k] \in Nat /\ Pow2[k] > k) /\ k \in Nat
    BY <1>1
  <2>. QED
    BY <1>3, <2>2, <2>3, <2>4
<1>. QED
  BY <1>2, <1>3

\* The doubling is strictly increasing.
LEMMA PowMono == \A j, k \in 0 .. B + 1 : j < k => Pow2[j] < Pow2[k]
<1>0. B \in Nat
  BY BucketPoolAssumption DEF B
<1> SUFFICES ASSUME NEW j \in 0 .. B + 1 PROVE \A k \in 0 .. B + 1 : j < k => Pow2[j] < Pow2[k]
  OBVIOUS
<1> DEFINE T == {k \in j + 1 .. B + 1 : ~(Pow2[j] < Pow2[k])}
<1> SUFFICES ASSUME T # {} PROVE FALSE
  BY <1>0
<1>s. T \subseteq Nat
  BY <1>0
<1>1. PICK k \in T : \A y \in T : ~(y < k)
  BY <1>s, MinCounter
<1>2. Pow2[k] = 2 * Pow2[k - 1] /\ Pow2[k - 1] \in Nat /\ Pow2[k - 1] > 0
  BY <1>0, <1>1, PowUnfold, PowFacts
<1>3. CASE k = j + 1
  BY <1>1, <1>2, <1>3
<1>4. CASE k # j + 1
  <2>1. k - 1 \in j + 1 .. B + 1 /\ k - 1 \notin T
    BY <1>0, <1>1, <1>4
  <2>2. Pow2[j] < Pow2[k - 1] /\ Pow2[j] \in Nat
    BY <1>0, <2>1, PowFacts
  <2>. QED
    BY <1>1, <1>2, <2>2
<1>. QED
  BY <1>3, <1>4

\* bits.Len64(n) for n > 0 is the b with 2^(b-1) <= n < 2^b.
LEMMA BitFacts ==
    /\ BitLen[0] = 0
    /\ \A n \in 1 .. B + 1 :
         /\ BitLen[n] \in 1 .. n
         /\ Pow2[BitLen[n] - 1] <= n
         /\ n < Pow2[BitLen[n]]
<1>0. B \in Nat
  BY BucketPoolAssumption DEF B
<1>1. BitLen[0] = 0
  BY <1>0, BitUnfold
<1> DEFINE P(n) == /\ BitLen[n] \in 1 .. n
                   /\ Pow2[BitLen[n] - 1] <= n
                   /\ n < Pow2[BitLen[n]]
           T == {n \in 1 .. B + 1 : ~P(n)}
<1> SUFFICES ASSUME T # {} PROVE FALSE
  BY <1>1
<1>s. T \subseteq Nat
  BY <1>0
<1>2. PICK n \in T : \A y \in T : ~(y < n)
  BY <1>s, MinCounter
<1>3. BitLen[n] = 1 + BitLen[n \div 2]
  BY <1>0, <1>2, BitUnfold
<1>4. CASE n = 1
  <2>1. BitLen[1] = 1
    BY <1>1, <1>3, <1>4
  <2>2. Pow2[0] = 1 /\ Pow2[1] = 2
    BY <1>0, PowUnfold
  <2>. QED
    BY <1>2, <1>4, <2>1, <2>2
<1>5. CASE n # 1
  <2> DEFINE h == n \div 2
  <2>1. h \in 1 .. B + 1 /\ h < n /\ 2 * h <= n /\ n <= 2 * h + 1
    BY <1>0, <1>2, <1>5
  <2>2. P(h)
    BY <2>1, <1>2
  <2>3. BitLen[n] \in 2 .. n
    BY <1>3, <2>1, <2>2
  <2>4. Pow2[BitLen[n] - 1] = 2 * Pow2[BitLen[h] - 1]
    BY <1>0, <1>3, <2>1, <2>2, PowUnfold
  <2>5. Pow2[BitLen[n]] = 2 * Pow2[BitLen[h]]
    BY <1>0, <1>2, <1>3, <2>1, <2>2, <2>3, PowUnfold
  <2>6. Pow2[BitLen[h] - 1] \in Nat /\ Pow2[BitLen[h]] \in Nat
    BY <1>0, <2>1, <2>2, PowFacts
  <2>. QED
    BY <1>2, <2>1, <2>2, <2>3, <2>4, <2>5, <2>6
<1>. QED
  BY <1>4, <1>5

-----------------------------------------------------------------------------
(* The pools New makes.                                                    *)

\* The configuration New accepted (it panics when maxSize < minSize).
Cfg == minSize \in MinSizes /\ maxSize \in minSize .. MaxSizeBound

\* The index of the last pool, the one capped at maxSize.
LastPool == NumPools - 1

\* The loop stops at the first doubling that reaches maxSize.
LEMMA PoolCount ==
    ASSUME Cfg
    PROVE  /\ LastPool \in 0 .. maxSize /\ NumPools \in Nat
           /\ \A i \in 0 .. LastPool - 1 : minSize * Pow2[i] < maxSize
           /\ minSize * Pow2[LastPool] >= maxSize
<1>0. /\ B \in Nat /\ minSize \in Nat \ {0} /\ maxSize \in Nat
      /\ minSize <= maxSize /\ maxSize <= B
  BY BucketPoolAssumption DEF Cfg, B
<1> DEFINE Tg == {i \in 0 .. maxSize : minSize * Pow2[i] >= maxSize}
           Lo == {i \in 0 .. maxSize : minSize * Pow2[i] < maxSize}
<1>1. maxSize \in Tg
  <2>1. Pow2[maxSize] \in Nat /\ Pow2[maxSize] > maxSize
    BY <1>0, PowFacts
  <2>. QED
    BY <1>0, <2>1
<1>s. Tg \subseteq Nat
  BY <1>0
<1>2. PICK K \in Tg : \A y \in Tg : ~(y < K)
  BY <1>1, <1>s, MinCounter
<1>3. \A i \in 0 .. maxSize : i >= K => minSize * Pow2[i] >= maxSize
  <2> SUFFICES ASSUME NEW i \in 0 .. maxSize, i >= K PROVE minSize * Pow2[i] >= maxSize
    OBVIOUS
  <2>1. Pow2[K] <= Pow2[i] /\ Pow2[K] \in Nat /\ Pow2[i] \in Nat
    BY <1>0, <1>2, PowMono, PowFacts
  <2>2. minSize * Pow2[K] <= minSize * Pow2[i]
    BY <1>0, <2>1
  <2>3. minSize * Pow2[K] >= maxSize
    BY <1>2
  <2>. QED
    BY <1>0, <2>1, <2>2, <2>3
<1>4. \A i \in 0 .. maxSize : Pow2[i] \in Nat
  BY <1>0, PowFacts
<1>5. Lo = 0 .. K - 1
  <2>1. Lo \subseteq 0 .. K - 1
    BY <1>0, <1>2, <1>3, <1>4
  <2>2. ASSUME NEW i \in 0 .. K - 1 PROVE i \in Lo
    <3>1. i \in 0 .. maxSize /\ i \notin Tg
      BY <1>0, <1>2, <2>2
    <3>. QED
      BY <1>0, <1>4, <3>1
  <2>. QED
    BY <2>1, <2>2
<1>7. Cardinality(Lo) = K
  <2>1. PICK hi \in Int : hi = K - 1
    BY <1>0, <1>2
  <2>2. Cardinality(0 .. hi) = IF 0 > hi THEN 0 ELSE hi - 0 + 1
    BY <2>1, FS_Interval
  <2>3. K \in Nat
    BY <1>0, <1>2
  <2>4. Lo = 0 .. hi
    BY <1>5, <2>1
  <2>5. Cardinality(0 .. hi) = K
    BY <2>1, <2>2, <2>3
  <2>. QED
    BY <2>4, <2>5
<1>6. LastPool = K /\ NumPools = K + 1
  BY <1>7 DEF LastPool, NumPools
<1>. QED
  BY <1>0, <1>2, <1>5, <1>6

\* Every pool but the last is minSize times a power of two; the last is
\* maxSize; and the sizes strictly increase.
LEMMA PoolSizes ==
    ASSUME Cfg
    PROVE  /\ \A i \in 0 .. LastPool - 1 : PoolSize(i) = minSize * Pow2[i]
           /\ PoolSize(LastPool) = maxSize
           /\ \A i \in 0 .. LastPool : PoolSize(i) \in Nat
           /\ \A i, j \in 0 .. LastPool : i < j => PoolSize(i) < PoolSize(j)
<1>0. /\ B \in Nat /\ minSize \in Nat \ {0} /\ maxSize \in Nat
      /\ minSize <= maxSize /\ maxSize <= B
  BY BucketPoolAssumption DEF Cfg, B
<1>1. /\ LastPool \in 0 .. maxSize
      /\ \A i \in 0 .. LastPool - 1 : minSize * Pow2[i] < maxSize
  BY PoolCount
<1>2. \A i \in 0 .. LastPool - 1 : PoolSize(i) = minSize * Pow2[i]
  BY <1>1 DEF PoolSize, LastPool
<1>3. PoolSize(LastPool) = maxSize
  BY <1>1 DEF PoolSize, LastPool
<1>4. \A i \in 0 .. LastPool : Pow2[i] \in Nat
  BY <1>0, <1>1, PowFacts
<1>5. \A i \in 0 .. LastPool : PoolSize(i) \in Nat
  BY <1>0, <1>1, <1>2, <1>3, <1>4
<1>6. ASSUME NEW i \in 0 .. LastPool, NEW j \in 0 .. LastPool, i < j
      PROVE  PoolSize(i) < PoolSize(j)
  <2>1. PoolSize(i) = minSize * Pow2[i] /\ minSize * Pow2[i] < maxSize
    BY <1>1, <1>2, <1>6
  <2>2. CASE j = LastPool
    BY <1>3, <2>1, <2>2
  <2>3. CASE j # LastPool
    <3>1. Pow2[i] < Pow2[j] /\ Pow2[i] \in Nat /\ Pow2[j] \in Nat
      BY <1>0, <1>1, <1>4, <1>6, PowMono
    <3>2. minSize * Pow2[i] < minSize * Pow2[j]
      BY <1>0, <3>1
    <3>. QED
      BY <1>1, <1>2, <1>6, <2>1, <2>3, <3>2
  <2>. QED
    BY <2>2, <2>3
<1>. QED
  BY <1>2, <1>3, <1>5, <1>6

-----------------------------------------------------------------------------
(* findPool.                                                               *)

\* For a size up to maxSize, findPool names a pool, that pool's buffers
\* hold size bytes, and every earlier pool's do not.
LEMMA FindPoolFits ==
    ASSUME Cfg, NEW size \in 0 .. maxSize
    PROVE  /\ FindPool(size) \in 0 .. LastPool
           /\ PoolSize(FindPool(size)) >= size
           /\ \A j \in 0 .. FindPool(size) - 1 : PoolSize(j) < size
<1>0. /\ B \in Nat /\ minSize \in Nat \ {0} /\ maxSize \in Nat
      /\ minSize <= maxSize /\ maxSize <= B
  BY BucketPoolAssumption DEF Cfg, B
<1> USE <1>0
<1> DEFINE dv == size \div minSize
           rm == size % minSize
<1>1. /\ dv \in 0 .. maxSize /\ rm \in 0 .. minSize - 1
      /\ size = minSize * dv + rm
  BY <1>0
<1>2. /\ LastPool \in 0 .. maxSize
      /\ \A i \in 0 .. LastPool - 1 : minSize * Pow2[i] < maxSize
      /\ minSize * Pow2[LastPool] >= maxSize
  BY PoolCount
<1>3. /\ \A i \in 0 .. LastPool - 1 : PoolSize(i) = minSize * Pow2[i]
      /\ PoolSize(LastPool) = maxSize
      /\ \A i \in 0 .. LastPool : PoolSize(i) \in Nat
  BY PoolSizes
<1>4. \A i \in 0 .. B + 1 : Pow2[i] \in Nat
  BY PowFacts
<1>5. \A i, j \in 0 .. B + 1 : i <= j => minSize * Pow2[i] <= minSize * Pow2[j]
  <2> SUFFICES ASSUME NEW i \in 0 .. B + 1, NEW j \in 0 .. B + 1, i <= j
               PROVE  minSize * Pow2[i] <= minSize * Pow2[j]
    OBVIOUS
  <2>1. Pow2[i] <= Pow2[j]
    BY <1>4, PowMono
  <2>. QED
    BY <1>0, <1>4, <2>1
<1>6. CASE rm = 0 /\ dv # 0 /\ IsPowerOfTwo(dv)
  <2> DEFINE f == BitLen[dv] - 1
  <2>1. FindPool(size) = f
    BY <1>6 DEF FindPool
  <2>2. f \in 0 .. dv - 1 /\ Pow2[f] = dv
    BY <1>0, <1>1, <1>6, BitFacts DEF IsPowerOfTwo
  <2>3. size = minSize * Pow2[f]
    BY <1>1, <1>6, <2>2
  <2>4. f <= LastPool
    <3> SUFFICES ASSUME f > LastPool PROVE FALSE
      BY <1>2, <2>2
    <3>1. Pow2[LastPool] < Pow2[f] /\ Pow2[LastPool] \in Nat /\ Pow2[f] \in Nat
      BY <1>0, <1>1, <1>2, <1>4, <2>2, PowMono
    <3>2. minSize * Pow2[LastPool] < minSize * Pow2[f]
      BY <1>0, <3>1
    <3>. QED
      BY <1>1, <1>2, <1>4, <2>2, <2>3, <3>1, <3>2
  <2>5. PoolSize(f) >= size
    <3>1. CASE f < LastPool
      BY <1>2, <1>3, <2>2, <2>3, <3>1
    <3>2. CASE f = LastPool
      BY <1>3, <3>2
    <3>. QED
      BY <1>2, <2>2, <2>4, <3>1, <3>2
  <2>6. ASSUME NEW j \in 0 .. f - 1 PROVE PoolSize(j) < size
    <3>1. PoolSize(j) = minSize * Pow2[j]
      BY <1>2, <1>3, <2>2, <2>4
    <3>2. Pow2[j] < Pow2[f] /\ Pow2[j] \in Nat /\ Pow2[f] \in Nat
      BY <1>0, <1>1, <1>4, <2>2, PowMono
    <3>3. minSize * Pow2[j] < minSize * Pow2[f]
      BY <1>0, <3>2
    <3>. QED
      BY <2>3, <3>1, <3>3
  <2>. QED
    BY <1>2, <2>1, <2>2, <2>4, <2>5, <2>6
<1>7. CASE ~(rm = 0 /\ dv # 0 /\ IsPowerOfTwo(dv))
  <2>1. FindPool(size) = BitLen[dv]
    BY <1>7 DEF FindPool
  <2>2. CASE dv = 0
    <3>1. BitLen[dv] = 0
      BY <2>2, BitFacts
    <3>2. PoolSize(0) >= minSize
      <4>1. CASE 0 < LastPool
        <5>1. Pow2[0] = 1
          BY <1>0, PowUnfold
        <5>. QED
          BY <1>0, <1>2, <1>3, <4>1, <5>1
      <4>2. CASE 0 = LastPool
        BY <1>0, <1>3, <4>2
      <4>. QED
        BY <1>2, <4>1, <4>2
    <3>3. FindPool(size) = 0 /\ size < minSize
      BY <1>1, <2>1, <2>2, <3>1
    <3>4. PoolSize(FindPool(size)) = PoolSize(0) /\ PoolSize(0) \in Nat
      BY <1>2, <1>3, <3>3
    <3>. QED
      BY <1>2, <3>2, <3>3, <3>4
  <2>3. CASE dv # 0
    <3> DEFINE b == BitLen[dv]
    <3>1. /\ b \in 1 .. dv
          /\ Pow2[b - 1] <= dv /\ dv < Pow2[b]
      BY <1>0, <1>1, <2>3, BitFacts
    <3>2. size < minSize * Pow2[b]
      <4>1. minSize * (dv + 1) <= minSize * Pow2[b]
        BY <1>0, <1>1, <1>4, <3>1
      <4>. QED
        BY <1>0, <1>1, <1>4, <3>1, <4>1
    <3>3. minSize * Pow2[b - 1] < size
      <4>1. CASE Pow2[b - 1] < dv
        <5>1. minSize * Pow2[b - 1] < minSize * dv
          BY <1>0, <1>1, <1>4, <3>1, <4>1
        <5>. QED
          BY <1>1, <1>4, <3>1, <5>1
      <4>2. CASE Pow2[b - 1] = dv
        <5>1. IsPowerOfTwo(dv)
          BY <2>3, <4>2 DEF IsPowerOfTwo
        <5>2. rm # 0
          BY <1>7, <2>3, <5>1
        <5>. QED
          BY <1>1, <4>2, <5>2
      <4>. QED
        BY <1>0, <1>1, <1>4, <3>1, <4>1, <4>2
    <3>4. b <= LastPool
      <4> SUFFICES ASSUME b > LastPool PROVE FALSE
        BY <1>2, <3>1
      <4>1. minSize * Pow2[LastPool] <= minSize * Pow2[b - 1]
        BY <1>0, <1>1, <1>2, <1>5, <3>1
      <4>. QED
        BY <1>1, <1>2, <1>4, <3>1, <3>3, <4>1
    <3>5. PoolSize(b) >= size
      <4>1. CASE b < LastPool
        BY <1>1, <1>2, <1>3, <1>4, <3>1, <3>2, <4>1
      <4>2. CASE b = LastPool
        BY <1>3, <4>2
      <4>. QED
        BY <1>2, <3>1, <3>4, <4>1, <4>2
    <3>6. ASSUME NEW j \in 0 .. b - 1 PROVE PoolSize(j) < size
      <4>1. PoolSize(j) = minSize * Pow2[j]
        BY <1>2, <1>3, <3>1, <3>4
      <4>2. minSize * Pow2[j] <= minSize * Pow2[b - 1]
        BY <1>0, <1>1, <1>5, <3>1
      <4>. QED
        BY <1>1, <1>4, <3>1, <3>3, <4>1, <4>2
    <3>. QED
      BY <1>2, <2>1, <3>1, <3>4, <3>5, <3>6
  <2>. QED
    BY <2>2, <2>3
<1>. QED
  BY <1>6, <1>7

\* findPool's index is the one SmallestFit chooses: the pools strictly
\* increase, so only one index is the first that fits.
LEMMA SmallestFitIsFindPool ==
    ASSUME Cfg
    PROVE  FindPoolIsSmallestFit
<1> SUFFICES ASSUME NEW size \in 0 .. maxSize PROVE FindPool(size) = SmallestFit(size)
  BY DEF FindPoolIsSmallestFit
<1> DEFINE Fit(i) == PoolSize(i) >= size /\ \A j \in 0 .. i - 1 : PoolSize(j) < size
<1>1. PICK f \in 0 .. LastPool : f = FindPool(size) /\ Fit(f)
  BY FindPoolFits
<1>2. /\ LastPool \in Nat
      /\ \A i \in 0 .. LastPool : PoolSize(i) \in Nat
      /\ \A i, j \in 0 .. LastPool : i < j => PoolSize(i) < PoolSize(j)
  BY PoolCount, PoolSizes
<1>3. \A i \in 0 .. LastPool : Fit(i) => i = f
  <2> SUFFICES ASSUME NEW i \in 0 .. LastPool, Fit(i), i # f PROVE FALSE
    OBVIOUS
  <2>1. CASE i < f
    BY <1>1, <1>2, <2>1
  <2>2. CASE f < i
    BY <1>1, <1>2, <2>2
  <2>. QED
    BY <1>2, <2>1, <2>2
<1>4. SmallestFit(size) \in 0 .. LastPool /\ Fit(SmallestFit(size))
  BY <1>1 DEF SmallestFit, LastPool
<1>. QED
  BY <1>1, <1>3, <1>4

\* New's configuration is fixed for the life of the Pool.
LEMMA CfgInvariant == Spec => []Cfg
<1>1. Init => Cfg
  BY DEF Init, Cfg
<1>2. Cfg /\ [Next]_vars => Cfg'
  BY DEF Cfg, Next, Get, Put, Drop, vars
<1>. QED
  BY <1>1, <1>2, PTL DEF Spec

\* For every minSize and maxSize New accepts, and every size up to maxSize,
\* findPool's bits.Len64 arithmetic picks the first pool whose buffers
\* hold size bytes.
THEOREM FindPoolIsSmallestFitHolds == Spec => []FindPoolIsSmallestFit
<1>1. Cfg => FindPoolIsSmallestFit
  BY SmallestFitIsFindPool
<1>. QED
  BY CfgInvariant, <1>1, PTL

-----------------------------------------------------------------------------
(* Get and Put.                                                            *)

\* findPool sends a buffer of a pool's size back to that pool.
LEMMA FindPoolOfPoolSize ==
    ASSUME Cfg, NEW i \in 0 .. LastPool
    PROVE  FindPool(PoolSize(i)) = i
<1>1. /\ LastPool \in 0 .. maxSize
      /\ PoolSize(LastPool) = maxSize
      /\ \A k \in 0 .. LastPool : PoolSize(k) \in Nat
      /\ \A k, j \in 0 .. LastPool : k < j => PoolSize(k) < PoolSize(j)
  BY PoolCount, PoolSizes
<1>2. PICK sz \in 0 .. maxSize : sz = PoolSize(i)
  <2>1. PoolSize(i) <= PoolSize(LastPool)
    BY <1>1
  <2>. QED
    BY <1>1, <2>1
<1>3. PICK f \in 0 .. LastPool :
        /\ f = FindPool(sz)
        /\ PoolSize(f) >= sz
        /\ \A j \in 0 .. f - 1 : PoolSize(j) < sz
  BY <1>2, FindPoolFits
<1>4. CASE f < i
  BY <1>1, <1>2, <1>3, <1>4
<1>5. CASE i < f
  BY <1>1, <1>2, <1>3, <1>5
<1>. QED
  BY <1>1, <1>2, <1>3, <1>4, <1>5

\* findPool is nil exactly above maxSize.
LEMMA FindPoolNil ==
    ASSUME Cfg, NEW size \in Nat
    PROVE  /\ FindPool(size) = NoPool <=> size > maxSize
           /\ size <= maxSize => FindPool(size) \in 0 .. LastPool
<1>0. maxSize \in Nat
  BY BucketPoolAssumption DEF Cfg
<1>1. CASE size > maxSize
  BY <1>0, <1>1 DEF FindPool
<1>2. CASE size <= maxSize
  <2>1. size \in 0 .. maxSize /\ LastPool \in Nat
    BY <1>2, PoolCount, BucketPoolAssumption DEF Cfg
  <2>2. FindPool(size) \in 0 .. LastPool
    BY <2>1, FindPoolFits
  <2>. QED
    BY <1>0, <1>2, <2>1, <2>2 DEF NoPool
<1>. QED
  BY <1>0, <1>1, <1>2

LEMMA BufferInvInit == Init => BufferInv
BY BucketPoolAssumption DEF Init, BufferInv, Idx

\* Each step of the pool keeps BufferInv when no foreign buffer is Put.
LEMMA BufferInvStep ==
    ASSUME ForeignCaps = {}, BufferInv, [Next]_vars
    PROVE  BufferInv'
<1>0. /\ Cfg /\ B \in Nat /\ maxSize \in Nat
      /\ bucket \in [Idx -> SUBSET Nat] /\ held \subseteq Buffer
      /\ \A idx \in Idx : \A c \in bucket[idx] : idx <= LastPool /\ c = PoolSize(idx)
      /\ \A b \in held :
           /\ b.len <= b.cap
           /\ b.cap > maxSize \/ \E i \in 0 .. LastPool : b.cap = PoolSize(i)
  <2>1. Cfg /\ B \in Nat /\ maxSize \in Nat
    BY BucketPoolAssumption DEF BufferInv, Cfg, B
  <2>2. LastPool \in 0 .. maxSize
    BY <2>1, PoolCount
  <2>3. NumPools \in Nat /\ LastPool = NumPools - 1
    BY <2>1, PoolCount DEF LastPool
  <2>4. bucket \in [Idx -> SUBSET Nat] /\ held \subseteq Buffer
    BY DEF BufferInv
  <2>5. \A idx \in Idx : \A c \in bucket[idx] : idx <= LastPool /\ c = PoolSize(idx)
    BY <2>3 DEF BufferInv, Idx
  <2>6. \A b \in held :
           /\ b.len <= b.cap
           /\ b.cap > maxSize \/ \E i \in 0 .. LastPool : b.cap = PoolSize(i)
    BY <2>3 DEF BufferInv
  <2>. QED
    BY <2>1, <2>4, <2>5, <2>6
<1>1. /\ LastPool \in 0 .. maxSize
      /\ \A i \in 0 .. LastPool : PoolSize(i) \in Nat
      /\ 0 .. LastPool \subseteq Idx
  BY <1>0, PoolCount, PoolSizes DEF Idx, B, Cfg
\* New's configuration, and so every pool's size, is the same after the step.
<1>2. minSize' = minSize /\ maxSize' = maxSize
  BY DEF Next, Get, Put, Drop, vars
<1>3. NumPools' = NumPools
  BY <1>2 DEF NumPools
<1>4. \A i : PoolSize(i)' = PoolSize(i)
  BY <1>2, <1>3 DEF PoolSize
<1> SUFFICES /\ bucket' \in [Idx -> SUBSET Nat] /\ held' \subseteq Buffer
             /\ \A idx \in Idx : \A c \in bucket'[idx] : idx <= LastPool /\ c = PoolSize(idx)
             /\ \A b \in held' :
                  /\ b.len <= b.cap
                  /\ b.cap > maxSize \/ \E i \in 0 .. LastPool : b.cap = PoolSize(i)
  <2>1. NumPools \in Nat /\ LastPool = NumPools - 1
    BY <1>0, PoolCount DEF LastPool
  <2>2. (minSize \in MinSizes /\ maxSize \in minSize .. MaxSizeBound)'
    BY <1>0, <1>2 DEF Cfg
  <2>3. (\A idx \in Idx : \A c \in bucket[idx] : idx < NumPools /\ c = PoolSize(idx))'
    BY <1>3, <1>4, <2>1 DEF Idx
  <2>4. (\A b \in held :
           /\ b.len <= b.cap
           /\ b.cap > maxSize \/ \E i \in 0 .. NumPools - 1 : b.cap = PoolSize(i))'
    BY <1>2, <1>3, <1>4, <2>1
  <2>. QED
    BY <2>2, <2>3, <2>4 DEF BufferInv
<1>5. CASE Get
  <2>1. PICK size \in 0 .. maxSize + 1 :
          IF FindPool(size) = NoPool
          THEN /\ held' = held \cup {[cap |-> size, len |-> size]}
               /\ UNCHANGED bucket
          ELSE \E c \in bucket[FindPool(size)] \cup {PoolSize(FindPool(size))} :
                 /\ bucket' = [bucket EXCEPT ![FindPool(size)] = @ \ {c}]
                 /\ held' = held \cup {[cap |-> c, len |-> size]}
    BY <1>5 DEF Get
  <2>2. CASE FindPool(size) = NoPool
    <3>1. size > maxSize
      BY <1>0, <2>2, FindPoolNil
    <3>2. held' = held \cup {[cap |-> size, len |-> size]} /\ bucket' = bucket
      BY <2>1, <2>2
    <3>. QED
      BY <1>0, <3>1, <3>2 DEF Buffer
  <2>3. CASE FindPool(size) # NoPool
    <3>1. PICK idx \in 0 .. LastPool : idx = FindPool(size) /\ PoolSize(idx) >= size
      BY <1>0, <2>3, FindPoolNil, FindPoolFits
    <3>2. PICK c \in bucket[idx] \cup {PoolSize(idx)} :
            /\ bucket' = [bucket EXCEPT ![idx] = @ \ {c}]
            /\ held' = held \cup {[cap |-> c, len |-> size]}
      BY <2>1, <2>3, <3>1
    <3>3. c = PoolSize(idx) /\ c \in Nat /\ idx \in Idx
      BY <1>0, <1>1, <3>1, <3>2
    <3>4. bucket' \in [Idx -> SUBSET Nat]
      BY <1>0, <3>2, <3>3
    <3>5. \A k \in Idx : \A d \in bucket'[k] : k <= LastPool /\ d = PoolSize(k)
      BY <1>0, <3>2, <3>3
    <3>6. held' \subseteq Buffer
      BY <1>0, <3>2, <3>3 DEF Buffer
    <3>7. \A b \in held' : b.len <= b.cap /\ (b.cap > maxSize \/ \E i \in 0 .. LastPool : b.cap = PoolSize(i))
      BY <1>0, <3>1, <3>2, <3>3
    <3>. QED
      BY <3>4, <3>5, <3>6, <3>7
  <2>. QED
    BY <2>2, <2>3
<1>6. CASE Put
  <2>1. PICK b \in held :
          /\ held' = held \ {b}
          /\ bucket' = IF FindPool(b.cap) = NoPool THEN bucket
                       ELSE [bucket EXCEPT ![FindPool(b.cap)] = @ \cup {b.cap}]
    BY <1>6 DEF Put
  <2>2. b \in Buffer /\ b.len <= b.cap /\ (b.cap > maxSize \/ \E i \in 0 .. LastPool : b.cap = PoolSize(i))
    BY <1>0, <2>1
  <2>3. held' \subseteq Buffer /\ \A d \in held' : d.len <= d.cap /\ (d.cap > maxSize \/ \E i \in 0 .. LastPool : d.cap = PoolSize(i))
    BY <1>0, <2>1
  <2>4. CASE b.cap > maxSize
    <3>1. FindPool(b.cap) = NoPool
      BY <1>0, <2>2, <2>4, FindPoolNil DEF Buffer
    <3>. QED
      BY <1>0, <2>1, <2>3, <3>1
  <2>5. CASE ~(b.cap > maxSize)
    <3>1. PICK i \in 0 .. LastPool : b.cap = PoolSize(i)
      BY <2>2, <2>5
    <3>2. FindPool(b.cap) = i /\ i # NoPool /\ i \in Idx
      BY <1>0, <1>1, <3>1, FindPoolOfPoolSize DEF NoPool
    <3>3. bucket' = [bucket EXCEPT ![i] = @ \cup {PoolSize(i)}]
      BY <2>1, <3>1, <3>2
    <3>4. bucket' \in [Idx -> SUBSET Nat]
      BY <1>0, <1>1, <3>2, <3>3
    <3>5. \A k \in Idx : \A d \in bucket'[k] : k <= LastPool /\ d = PoolSize(k)
      BY <1>0, <1>1, <3>2, <3>3
    <3>. QED
      BY <2>3, <3>4, <3>5
  <2>. QED
    BY <2>4, <2>5
<1>7. CASE Drop
  <2>1. PICK idx \in Idx : \E c \in bucket[idx] : bucket' = [bucket EXCEPT ![idx] = @ \ {c}]
    BY <1>7 DEF Drop
  <2>2. PICK c \in bucket[idx] : bucket' = [bucket EXCEPT ![idx] = @ \ {c}]
    BY <2>1
  <2>3. held' = held
    BY <1>7 DEF Drop
  <2>. QED
    BY <1>0, <2>2, <2>3
<1>8. CASE UNCHANGED vars
  BY <1>0, <1>8 DEF vars
<1>. QED
  BY <1>5, <1>6, <1>7, <1>8 DEF Next

\* With no foreign buffers Put, every state of the pool satisfies
\* BufferInv, for every minSize, maxSize and number of buffers held.
THEOREM BufferInvHolds == ForeignCaps = {} => (Spec => []BufferInv)
<1> SUFFICES ASSUME ForeignCaps = {} PROVE Spec => []BufferInv
  OBVIOUS
<1>1. BufferInv /\ [Next]_vars => BufferInv'
  BY BufferInvStep
<1>. QED
  BY BufferInvInit, <1>1, PTL DEF Spec

\* Get never reslices a buffer past its capacity, whatever sequence of
\* Gets, Puts and collections came before, provided only buffers the pool
\* handed out are Put back (Put of a foreign buffer breaks it).
THEOREM GetWithinCapHolds == ForeignCaps = {} => (Spec => []GetWithinCap)
<1> SUFFICES ASSUME ForeignCaps = {} PROVE Spec => []GetWithinCap
  OBVIOUS
<1>1. BufferInv => GetWithinCap
  BY DEF BufferInv, GetWithinCap
<1>. QED
  BY BufferInvHolds, <1>1, PTL

=============================================================================
