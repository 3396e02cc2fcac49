---------------------------- MODULE BucketPool -----------------------------
(***************************************************************************)
(* util/bucketpool: a Pool of sync.Pools of byte buffers whose sizes grow  *)
(* from minSize by doubling, the last one capped at maxSize.  The pool's   *)
(* configuration is chosen in Init, so one run covers every (minSize,      *)
(* maxSize) in range.  A buffer is [cap, len]; a bucket's content is the   *)
(* set of capacities it holds (sync.Pool may hand out or drop any of them).*)
(***************************************************************************)
EXTENDS Integers, FiniteSets

CONSTANTS
    MinSizes,     \* the minSize values New may be called with
    MaxSizeBound, \* the largest maxSize
    ForeignCaps,  \* capacities of buffers not made by the pool that are Put
    MaxHeld       \* bound on the buffers the program holds at once

ASSUME BucketPoolAssumption ==
    /\ MinSizes \subseteq Nat \ {0}
    /\ MaxSizeBound \in Nat /\ ForeignCaps \subseteq Nat /\ MaxHeld \in Nat

VARIABLES
    minSize, maxSize,  \* Pool.minSize, Pool.maxSize
    bucket,            \* bucket[idx]: capacities of the buffers in pools[idx]
    held               \* buffers the program got and has not Put back

vars == <<minSize, maxSize, bucket, held>>

Idx == 0 .. MaxSizeBound
Buffer == [cap : Nat, len : Nat]

\* curSize *= multiplier: the factor by which the i-th size exceeds minSize.
Pow2[i \in 0 .. MaxSizeBound + 1] == IF i = 0 THEN 1 ELSE 2 * Pow2[i - 1]

\* New(minSize, maxSize): a pool for minSize, 2*minSize, ... while below
\* maxSize, then one for maxSize.  PoolSize(idx) is pools[idx].size.
NumPools == Cardinality({i \in 0 .. maxSize : minSize * Pow2[i] < maxSize}) + 1
PoolSize(idx) == IF idx < NumPools - 1 THEN minSize * Pow2[idx] ELSE maxSize

\* bits.Len64(n): the number of bits needed to write n.
BitLen[n \in 0 .. MaxSizeBound + 1] == IF n = 0 THEN 0 ELSE 1 + BitLen[n \div 2]

\* div != 0 && div & (div-1) == 0.
IsPowerOfTwo(n) == n # 0 /\ Pow2[BitLen[n] - 1] = n

NoPool == -1

\* findPool with its power-of-two adjustment dropped.
FindPoolNoPow2Adjust(size) ==
    IF size > maxSize THEN NoPool ELSE BitLen[size \div minSize]

\* findPool with the rem == 0 test dropped.
FindPoolNoRemCheck(size) ==
    IF size > maxSize THEN NoPool
    ELSE LET div == size \div minSize
         IN  IF div # 0 /\ IsPowerOfTwo(div) THEN BitLen[div] - 1 ELSE BitLen[div]

\* findPool: nil above maxSize; else idx = bits.Len64(size / minSize),
\* one less when size is minSize times a power of two.
FindPool(size) ==
    IF size > maxSize THEN NoPool
    ELSE LET div == size \div minSize
             rem == size % minSize
         IN  IF rem = 0 /\ div # 0 /\ IsPowerOfTwo(div) THEN BitLen[div] - 1 ELSE BitLen[div]

\* The reference: the first bucket whose buffers are large enough.
SmallestFit(size) ==
    CHOOSE i \in 0 .. NumPools - 1 :
        PoolSize(i) >= size /\ \A j \in 0 .. i - 1 : PoolSize(j) < size

Init ==
    /\ minSize \in MinSizes
    /\ maxSize \in minSize .. MaxSizeBound
    /\ bucket = [idx \in Idx |-> {}]
    /\ held = {}

\* Get(size): above maxSize a fresh slice; else a buffer of pools[idx]
\* (one it holds, or a new one of its size from sync.Pool.New), resliced
\* to (*buf)[:size].
Get ==
    /\ Cardinality(held) < MaxHeld
    /\ \E size \in 0 .. maxSize + 1 :
         LET idx == FindPool(size) IN
         IF idx = NoPool
         THEN /\ held' = held \cup {[cap |-> size, len |-> size]}
              /\ UNCHANGED bucket
         ELSE \E c \in bucket[idx] \cup {PoolSize(idx)} :
                /\ bucket' = [bucket EXCEPT ![idx] = @ \ {c}]
                /\ held' = held \cup {[cap |-> c, len |-> size]}
    /\ UNCHANGED <<minSize, maxSize>>

\* Put(b), for a buffer the program holds or one of a foreign capacity:
\* discarded when findPool(cap) is nil, else resliced to its capacity and
\* put into that pool.
Put ==
    /\ \E b \in held \cup {[cap |-> c, len |-> c] : c \in ForeignCaps} :
         /\ held' = held \ {b}
         /\ LET idx == FindPool(b.cap) IN
            bucket' = IF idx = NoPool THEN bucket ELSE [bucket EXCEPT ![idx] = @ \cup {b.cap}]
    /\ UNCHANGED <<minSize, maxSize>>

\* The garbage collector empties sync.Pools at will.
Drop ==
    /\ \E idx \in Idx : \E c \in bucket[idx] : bucket' = [bucket EXCEPT ![idx] = @ \ {c}]
    /\ UNCHANGED <<minSize, maxSize, held>>

Next == Get \/ Put \/ Drop

Spec == Init /\ [][Next]_vars

-----------------------------------------------------------------------------
\* findPool picks, for every size up to maxSize, the first bucket whose
\* buffers hold it: never a smaller one (Get would reslice past the
\* capacity), never a larger one (memory wasted, buckets unused).
FindPoolIsSmallestFit == \A size \in 0 .. maxSize : FindPool(size) = SmallestFit(size)

\* Get's promise, "returns pointer to []byte which has len size": every
\* buffer handed out was resliced within its capacity, whatever was Put
\* into the bucket before.
GetWithinCap == \A b \in held : b.len <= b.cap

\* The inductive strengthening of GetWithinCap (with no foreign buffers):
\* pools[idx] only ever holds buffers of its own size, and every buffer the
\* program holds is either a fresh slice above maxSize or one of a pool's
\* size, so Put hands it back to the pool it came from.
BufferInv ==
    /\ minSize \in MinSizes /\ maxSize \in minSize .. MaxSizeBound
    /\ bucket \in [Idx -> SUBSET Nat] /\ held \subseteq Buffer
    /\ \A idx \in Idx : \A c \in bucket[idx] : idx < NumPools /\ c = PoolSize(idx)
    /\ \A b \in held :
         /\ b.len <= b.cap
         /\ b.cap > maxSize \/ \E i \in 0 .. NumPools - 1 : b.cap = PoolSize(i)

=============================================================================
