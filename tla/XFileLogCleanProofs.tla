------------------------- MODULE XFileLogCleanProofs ------------------------
(***************************************************************************)
(* Proof that clean keeps, of every kind, exactly the logKeepCounts newest *)
(* rotated files that are not older than logKeepDays (CleanKeepsNewest).   *)
(*                                                                         *)
(* clean walks filepath.Glob's sorted names from the last one, counting    *)
(* files by kind and removing each one past logKeepCounts.  The argument:  *)
(*  - the glob order is a strict total order on rotated files, so a file's *)
(*    rank (the names before it) is a bijection onto 0 .. n-1 and the      *)
(*    sorted glob lists every file once, in increasing order;              *)
(*  - walked backwards, the files of f's kind met before f are exactly the *)
(*    files of f's kind newer than f;                                      *)
(*  - the fold's counter for a kind is the number of its files met so far, *)
(*    capped at logKeepCounts, so a file is removed exactly when at least  *)
(*    logKeepCounts newer files of its kind exist.                         *)
(* Induction is by minimal counterexample (LeastNumber).                   *)
(***************************************************************************)
EXTENDS XFileLogProofs, LeastNumber, FiniteSetTheorems, TLAPS

\* What every state satisfies, whether or not os.OpenFile may fail: the
\* rotated files are finitely many (kind, hour) files.
RotInv ==
    /\ rotated \subseteq Rotated /\ IsFiniteSet(rotated)
    /\ preHour \in Hours /\ now \in Hours

LEMMA RotInvInit == Init => RotInv
BY FS_EmptySet, XFileLogAssumption DEF Init, RotInv, Hours

LEMMA RotInvStep == RotInv /\ [Next]_logVars => RotInv'
<1> SUFFICES ASSUME RotInv, [Next]_logVars PROVE RotInv'
  OBVIOUS
<1>0. MaxHour \in Nat
  BY XFileLogAssumption
<1>1. /\ Clean(rotated) \subseteq Rotated
      /\ IsFiniteSet(Clean(rotated))
  <2>1. PICK c \in SUBSET rotated : c = Clean(rotated)
    BY CleanSubset
  <2>2. IsFiniteSet(c)
    BY <2>1, FS_Subset DEF RotInv
  <2>. QED
    BY <2>1, <2>2 DEF RotInv
<1>2. CASE Rename
  <2> DEFINE New == UNION {RemoveFile(k, preHour) : k \in Kinds}
             Two == {[kind |-> "log", hour |-> preHour], [kind |-> "wf", hour |-> preHour]}
  <2>1. New \subseteq Two
    BY DEF RemoveFile, Kinds
  <2>2. IsFiniteSet(Two)
    <3>1. PICK a : a = [kind |-> "log", hour |-> preHour]
      OBVIOUS
    <3>2. PICK b : b = [kind |-> "wf", hour |-> preHour]
      OBVIOUS
    <3>3. IsFiniteSet({a}) /\ IsFiniteSet({b})
      BY FS_Singleton
    <3>4. IsFiniteSet({a} \cup {b})
      BY <3>3, FS_Union
    <3>. QED
      BY <3>1, <3>2, <3>4
  <2>3. IsFiniteSet(New) /\ New \subseteq Rotated
    <3>1. PICK nw \in SUBSET Two : nw = New
      BY <2>1
    <3>2. IsFiniteSet(nw)
      BY <2>2, FS_Subset
    <3>3. Two \subseteq Rotated
      BY DEF RotInv, Rotated, Kinds
    <3>. QED
      BY <3>1, <3>2, <3>3
  <2>4. PICK c : c = Clean(rotated)
    OBVIOUS
  <2>5. PICK nw : nw = New
    OBVIOUS
  <2>6. IsFiniteSet(c \cup nw)
    BY <1>1, <2>3, <2>4, <2>5, FS_Union
  <2>7. rotated' = c \/ rotated' = c \cup nw
    BY <1>2, <2>4, <2>5 DEF Rename
  <2>8. IsFiniteSet(rotated') /\ rotated' \subseteq Rotated
    BY <1>1, <2>3, <2>4, <2>5, <2>6, <2>7
  <2>. QED
    BY <1>2, <2>8 DEF Rename, RotInv
<1>3. CASE SpliterTick
  BY <1>1, <1>3 DEF SpliterTick, RotInv
<1>4. CASE ClockTick
  BY <1>0, <1>4 DEF ClockTick, RotInv, Hours
<1>5. CASE ~Rename /\ ~SpliterTick /\ ~ClockTick
  <2>1. UNCHANGED <<rotated, preHour, now>>
    BY <1>5 DEF Next, LoggerClose, SpliterExit, DelayClose, WriteStart, WriteDone, logVars
  <2>. QED
    BY <2>1 DEF RotInv
<1>. QED
  BY <1>2, <1>3, <1>4, <1>5

LEMMA RotInvHolds == Spec => []RotInv
BY RotInvInit, RotInvStep, PTL DEF Spec

-----------------------------------------------------------------------------
(* The glob order.                                                         *)

\* filepath.Glob's order is a strict total order on rotated files.
LEMMA GlobOrder ==
    ASSUME NEW a \in Rotated, NEW b \in Rotated, NEW c \in Rotated
    PROVE  /\ ~GlobBefore(a, a)
           /\ GlobBefore(a, b) /\ GlobBefore(b, c) => GlobBefore(a, c)
           /\ a # b => GlobBefore(a, b) \/ GlobBefore(b, a)
           /\ GlobBefore(a, b) => ~GlobBefore(b, a)
<1>1. a.kind \in {"log", "wf"} /\ a.hour \in Nat /\ b.kind \in {"log", "wf"} /\ b.hour \in Nat
      /\ c.kind \in {"log", "wf"} /\ c.hour \in Nat
  BY XFileLogAssumption DEF Rotated, Kinds, Hours
<1>2. a # b => a.kind # b.kind \/ a.hour # b.hour
  BY DEF Rotated
<1>. QED
  BY <1>1, <1>2 DEF GlobBefore

-----------------------------------------------------------------------------
(* Ranks and the sorted glob.                                              *)

N == Cardinality(rotated)
Rank(f) == GlobRank(rotated, f)
Pre(f) == {g \in rotated : GlobBefore(g, f)}

LEMMA CardN == RotInv => N \in Nat
BY FS_CardinalityType DEF RotInv, N

\* A file's rank is one of 0 .. N-1.
LEMMA RankRange ==
    ASSUME RotInv, NEW f \in rotated
    PROVE  Rank(f) \in 0 .. N - 1
<1>1. f \in Rotated /\ rotated \subseteq Rotated /\ IsFiniteSet(rotated)
  BY DEF RotInv
<1>2. PICK R0 : R0 = rotated \ {f}
  OBVIOUS
<1>3. IsFiniteSet(R0) /\ Cardinality(R0) = N - 1
  BY <1>1, <1>2, FS_RemoveElement DEF N
<1>4. PICK P \in SUBSET R0 : P = Pre(f)
  BY <1>1, <1>2, GlobOrder DEF Pre
<1>5. IsFiniteSet(P) /\ Cardinality(P) <= Cardinality(R0)
  BY <1>3, <1>4, FS_Subset
<1>6. Cardinality(P) \in Nat
  BY <1>5, FS_CardinalityType
<1>. QED
  BY <1>3, <1>4, <1>5, <1>6 DEF Rank, GlobRank, Pre

\* A file before another in the glob has a smaller rank.
LEMMA RankMono ==
    ASSUME RotInv, NEW f \in rotated, NEW g \in rotated, GlobBefore(f, g)
    PROVE  Rank(f) < Rank(g)
<1>1. rotated \subseteq Rotated /\ IsFiniteSet(rotated)
  BY DEF RotInv
<1>2. PICK A \in SUBSET rotated : A = Pre(f)
  BY DEF Pre
<1>3. PICK Bs \in SUBSET rotated : Bs = Pre(g)
  BY DEF Pre
<1>4. f \notin A /\ A \cup {f} \subseteq Bs
  BY <1>1, <1>2, <1>3, GlobOrder DEF Pre
<1>5. IsFiniteSet(A) /\ IsFiniteSet(Bs)
  BY <1>1, <1>2, <1>3, FS_Subset
<1>6. IsFiniteSet(A \cup {f}) /\ Cardinality(A \cup {f}) = Cardinality(A) + 1
  BY <1>4, <1>5, FS_AddElement
<1>7. Cardinality(A \cup {f}) <= Cardinality(Bs)
  BY <1>4, <1>5, FS_Subset
<1>8. Cardinality(A) \in Nat /\ Cardinality(Bs) \in Nat
  BY <1>5, FS_CardinalityType
<1>. QED
  BY <1>2, <1>3, <1>6, <1>7, <1>8 DEF Rank, GlobRank, Pre

\* Distinct files have distinct ranks.
LEMMA RankInjective ==
    ASSUME RotInv, NEW f \in rotated, NEW g \in rotated, f # g
    PROVE  Rank(f) # Rank(g)
<1>1. GlobBefore(f, g) \/ GlobBefore(g, f)
  BY GlobOrder DEF RotInv
<1>2. Rank(f) \in Nat /\ Rank(g) \in Nat
  BY RankRange, CardN
<1>. QED
  BY <1>1, <1>2, RankMono

\* Every rank in 0 .. N-1 is some file's.
LEMMA RankOnto ==
    ASSUME RotInv, NEW i \in 0 .. N - 1
    PROVE  \E f \in rotated : Rank(f) = i
<1>0. N \in Nat /\ IsFiniteSet(rotated)
  BY CardN DEF RotInv
<1>1. PICK T \in SUBSET Int : T = 0 .. N - 1
  BY <1>0
<1>2. PICK r : r = [f \in rotated |-> Rank(f)]
  OBVIOUS
<1>3. r \in Injection(rotated, T)
  BY <1>1, <1>2, RankRange, RankInjective DEF Injection, IsInjective
<1>4. IsFiniteSet(T) /\ Cardinality(T) = N
  BY <1>0, <1>1, FS_Interval
<1>5. r \in Surjection(rotated, T)
  BY <1>0, <1>3, <1>4, FS_Injection DEF N
<1>. QED
  BY <1>1, <1>2, <1>5 DEF Surjection

\* The sorted glob lists every rotated file once, in the glob's order.
LEMMA SortedGlob ==
    ASSUME RotInv
    PROVE  LET U == GlobSorted(rotated) IN
           /\ U \in [1 .. N -> rotated]
           /\ \A i \in 1 .. N : Rank(U[i]) = i - 1
           /\ \A f \in rotated : Rank(f) + 1 \in 1 .. N /\ U[Rank(f) + 1] = f
           /\ \A i, j \in 1 .. N : i < j => GlobBefore(U[i], U[j])
<1> DEFINE U == GlobSorted(rotated)
<1>0. N \in Nat
  BY CardN
<1>1. \A i \in 1 .. N : U[i] \in rotated /\ Rank(U[i]) = i - 1
  <2> SUFFICES ASSUME NEW i \in 1 .. N PROVE U[i] \in rotated /\ Rank(U[i]) = i - 1
    OBVIOUS
  <2>1. \E f \in rotated : Rank(f) = i - 1
    BY <1>0, RankOnto
  <2>. QED
    BY <2>1 DEF GlobSorted, Rank, N
<1>2. U \in [1 .. N -> rotated]
  BY <1>1 DEF GlobSorted, N
<1>3. ASSUME NEW f \in rotated PROVE Rank(f) + 1 \in 1 .. N /\ U[Rank(f) + 1] = f
  <2>1. Rank(f) \in 0 .. N - 1
    BY RankRange
  <2>2. U[Rank(f) + 1] \in rotated /\ Rank(U[Rank(f) + 1]) = Rank(f)
    BY <1>0, <1>1, <2>1
  <2>3. PICK g \in rotated : g = U[Rank(f) + 1]
    BY <2>2
  <2>4. g = f
    BY <2>2, <2>3, RankInjective
  <2>. QED
    BY <1>0, <2>1, <2>3, <2>4
<1>4. ASSUME NEW i \in 1 .. N, NEW j \in 1 .. N, i < j PROVE GlobBefore(U[i], U[j])
  <2>1. U[i] \in rotated /\ U[j] \in rotated /\ Rank(U[i]) = i - 1 /\ Rank(U[j]) = j - 1
    BY <1>1
  <2>2. U[i] # U[j]
    BY <1>4, <2>1
  <2>3. ~GlobBefore(U[j], U[i])
    BY <1>4, <2>1, RankMono
  <2>. QED
    BY <2>1, <2>2, <2>3, GlobOrder DEF RotInv
<1>. QED
  BY <1>1, <1>2, <1>3, <1>4

-----------------------------------------------------------------------------
(* The walk: the sorted glob read from its last name, and the fold over it. *)

Glob == GlobSorted(rotated)
Walk == Reverse(Glob)

\* The walk's k-th file is the one of rank N - k.
LEMMA WalkFacts ==
    ASSUME RotInv
    PROVE  /\ DOMAIN Walk = 1 .. N
           /\ \A k \in 1 .. N : Walk[k] \in rotated /\ Rank(Walk[k]) = N - k
<1>0. N \in Nat
  BY CardN
<1>1. Glob = [i \in 1 .. N |-> Glob[i]]
  BY DEF Glob, GlobSorted, N
<1>2. Len(Glob) = N
  BY <1>0, <1>1
<1>3. Walk = [k \in 1 .. N |-> Glob[N - k + 1]]
  BY <1>2 DEF Walk, Reverse
<1>4. ASSUME NEW k \in 1 .. N PROVE Walk[k] \in rotated /\ Rank(Walk[k]) = N - k
  <2>1. N - k + 1 \in 1 .. N
    BY <1>0
  <2>0. \A i \in 1 .. N : Glob[i] \in rotated /\ Rank(Glob[i]) = i - 1
    BY SortedGlob DEF Glob
  <2>2. PICK m \in 1 .. N : m = N - k + 1
    BY <2>1
  <2>3. Glob[m] \in rotated /\ Rank(Glob[m]) = m - 1
    BY <2>0
  <2>. QED
    BY <1>0, <1>3, <2>2, <2>3
<1>. QED
  BY <1>3, <1>4

\* The table FoldLeft's iteration builds over the subsets of the walk's
\* indices: each nonempty set adds its largest index to the rest's result.
IterF[s \in SUBSET DOMAIN Walk] ==
    IF s = {} THEN KeepCountBase
    ELSE KeepCountStep(IterF[s \ {Max(s)}], Walk[Max(s)])

LEMMA FoldIsIter == FoldLeft(KeepCountStep, KeepCountBase, Walk) = IterF[DOMAIN Walk]
BY DEF FoldLeft, MapThenFoldSet, IterF

\* A nonempty set of indices 1 .. k has its largest element as Max, and k
\* when it holds k.
LEMMA MaxIndex ==
    ASSUME NEW k \in Nat, NEW s \in SUBSET (1 .. k), s # {}
    PROVE  /\ Max(s) \in s /\ \A y \in s : y <= Max(s)
           /\ k \in s => Max(s) = k
<1>1. s \in SUBSET (0 .. k)
  OBVIOUS
<1>2. \E x \in s : \A y \in s : y <= x
  BY <1>1, MaxCounter
<1>3. Max(s) \in s /\ \A y \in s : y <= Max(s)
  BY <1>2 DEF Max
<1>4. Max(s) \in 1 .. k
  BY <1>3
<1>. QED
  BY <1>3, <1>4

\* One step of FoldLeft's iteration, given the table it reads from.
IterBody(g, s) ==
    IF s = {} THEN KeepCountBase
    ELSE KeepCountStep(g[s \ {Max(s)}], Walk[Max(s)])

\* A table over the subsets of 1 .. k satisfying the iteration's equation.
IterUpTo(k) == \E g : g = [s \in SUBSET (1 .. k) |-> IterBody(g, s)]

LEMMA IterUpToZero == IterUpTo(0)
<1>1. SUBSET (1 .. 0) = {{}}
  OBVIOUS
<1>. QED
  <2> DEFINE g == [s \in SUBSET (1 .. 0) |-> KeepCountBase]
  <2>1. \A s \in SUBSET (1 .. 0) : g[s] = IterBody(g, s)
    BY <1>1 DEF IterBody
  <2>2. g = [s \in SUBSET (1 .. 0) |-> IterBody(g, s)]
    BY <2>1
  <2>. QED
    BY <2>2 DEF IterUpTo

LEMMA IterUpToNext ==
    ASSUME NEW m \in Nat \ {0}, IterUpTo(m - 1)
    PROVE  IterUpTo(m)
<1>1. PICK g : g = [s \in SUBSET (1 .. m - 1) |-> IterBody(g, s)]
  BY DEF IterUpTo
<1> DEFINE h == [s \in SUBSET (1 .. m) |->
                   IF m \in s THEN KeepCountStep(g[s \ {m}], Walk[m]) ELSE g[s]]
<1>2. ASSUME NEW s \in SUBSET (1 .. m), m \in s PROVE h[s] = IterBody(h, s)
  <2>1. s # {} /\ Max(s) = m
    BY <1>2, MaxIndex
  <2>2. s \ {m} \in SUBSET (1 .. m - 1) /\ s \ {m} \in SUBSET (1 .. m) /\ m \notin s \ {m}
    OBVIOUS
  <2>3. h[s \ {m}] = g[s \ {m}]
    BY <2>2
  <2>. QED
    BY <1>2, <2>1, <2>3 DEF IterBody
<1>3. ASSUME NEW s \in SUBSET (1 .. m), m \notin s PROVE h[s] = IterBody(h, s)
  <2>1. s \in SUBSET (1 .. m - 1)
    BY <1>3
  <2>2. h[s] = IterBody(g, s)
    BY <1>1, <1>3, <2>1
  <2>3. CASE s = {}
    BY <2>2, <2>3 DEF IterBody
  <2>4. CASE s # {}
    <3>1. Max(s) \in s
      BY <2>1, <2>4, MaxIndex
    <3>2. PICK r \in SUBSET (1 .. m - 1) : r = s \ {Max(s)}
      BY <2>1, <3>1
    <3>3. r \in SUBSET (1 .. m) /\ m \notin r
      BY <3>2
    <3>4. h[r] = g[r]
      BY <3>3
    <3>. QED
      BY <2>2, <2>4, <3>2, <3>4 DEF IterBody
  <2>. QED
    BY <2>3, <2>4
<1>4. h = [s \in SUBSET (1 .. m) |-> IterBody(h, s)]
  BY <1>2, <1>3
<1>. QED
  BY <1>4 DEF IterUpTo

LEMMA IterUpToAll == \A k \in Nat : IterUpTo(k)
<1> SUFFICES ASSUME \E k \in Nat : ~IterUpTo(k) PROVE FALSE
  OBVIOUS
<1>1. PICK T \in SUBSET Nat : T = {k \in Nat : ~IterUpTo(k)}
  OBVIOUS
<1>2. T # {}
  BY <1>1
<1>3. PICK m \in T : \A y \in T : ~(y < m)
  BY <1>2, MinCounter
<1>4. m # 0
  BY <1>1, <1>3, IterUpToZero
<1>5. m - 1 \in Nat /\ m - 1 \notin T
  BY <1>1, <1>3, <1>4
<1>. QED
  BY <1>1, <1>3, <1>4, <1>5, IterUpToNext

\* IterF is the table of the iteration's equation.
LEMMA IterFDef ==
    ASSUME RotInv
    PROVE  IterF = [s \in SUBSET DOMAIN Walk |-> IterBody(IterF, s)]
<1>1. IterUpTo(N)
  BY CardN, IterUpToAll
<1>2. PICK g : g = [s \in SUBSET (1 .. N) |-> IterBody(g, s)]
  BY <1>1 DEF IterUpTo
<1>3. \E f : f = [s \in SUBSET DOMAIN Walk |-> IterBody(f, s)]
  BY <1>2, WalkFacts
<1>. QED
  BY <1>3 DEF IterF, IterBody

\* Folding the first k files of the walk: the first k - 1, then the k-th.
LEMMA IterUnfold ==
    ASSUME RotInv
    PROVE  /\ IterF[1 .. 0] = KeepCountBase
           /\ \A k \in 1 .. N : IterF[1 .. k] = KeepCountStep(IterF[1 .. k - 1], Walk[k])
<1>0. N \in Nat /\ DOMAIN Walk = 1 .. N
  BY CardN, WalkFacts
<1>1. IterF = [s \in SUBSET (1 .. N) |-> IterBody(IterF, s)]
  BY <1>0, IterFDef
<1>2. IterF[1 .. 0] = KeepCountBase
  BY <1>0, <1>1 DEF IterBody
<1>3. ASSUME NEW k \in 1 .. N PROVE IterF[1 .. k] = KeepCountStep(IterF[1 .. k - 1], Walk[k])
  <2>0. k \in Nat /\ 1 \in 1 .. k
    BY <1>0
  <2>1. k \in Nat /\ 1 .. k \in SUBSET (1 .. N) /\ 1 .. k # {}
    BY <1>0, <2>0
  <2>2. Max(1 .. k) = k
    BY <2>1, MaxIndex
  <2>3. (1 .. k) \ {k} = 1 .. k - 1
    BY <2>1
  <2>. QED
    BY <1>1, <2>1, <2>2, <2>3 DEF IterBody
<1>. QED
  BY <1>2, <1>3

-----------------------------------------------------------------------------
(* What the fold has computed after k files of the walk.                   *)

\* The files of kind kd among the first k of the walk.
Seen(kd, k) == {g \in rotated : g.kind = kd /\ N - k <= Rank(g)}

\* The newer files of f's kind are those of higher rank: the ones the walk
\* meets before f.
LEMMA NewerSeen ==
    ASSUME RotInv, NEW f \in rotated
    PROVE  NewerThan(f) = Seen(f.kind, N - Rank(f) - 1)
<1>0. N \in Nat /\ Rank(f) \in 0 .. N - 1
  BY CardN, RankRange
<1>1. ASSUME NEW g \in rotated, g.kind = f.kind PROVE g.hour > f.hour <=> Rank(g) > Rank(f)
  <2>0. Rank(g) \in 0 .. N - 1
    BY RankRange
  <2>1. f \in Rotated /\ g \in Rotated
    BY DEF RotInv
  <2>2. g.hour > f.hour => GlobBefore(f, g)
    BY <1>1, <2>1 DEF GlobBefore, Rotated, Hours
  <2>3. g.hour > f.hour => Rank(g) > Rank(f)
    BY <2>2, RankMono
  <2>4. ASSUME Rank(g) > Rank(f) PROVE g.hour > f.hour
    <3>1. g # f /\ ~GlobBefore(g, f)
      BY <2>4, <1>0, <2>0, RankMono
    <3>2. GlobBefore(f, g)
      BY <3>1, <2>1, GlobOrder
    <3>. QED
      BY <1>1, <3>2 DEF GlobBefore
  <2>. QED
    BY <2>3, <2>4
<1>2. \A g \in rotated : Rank(g) \in Nat
  BY RankRange, CardN
<1>. QED
  BY <1>0, <1>1, <1>2 DEF NewerThan, Seen

\* The k-th file of the walk joins Seen of its kind, and was not in it.
LEMMA SeenStep ==
    ASSUME RotInv, NEW k \in 1 .. N, NEW kd
    PROVE  /\ Walk[k] \notin Seen(kd, k - 1)
           /\ Seen(kd, k) = IF Walk[k].kind = kd THEN Seen(kd, k - 1) \cup {Walk[k]}
                                                  ELSE Seen(kd, k - 1)
<1>0. N \in Nat
  BY CardN
<1>1. PICK x \in rotated : x = Walk[k] /\ Rank(x) = N - k
  BY WalkFacts
<1>2. ASSUME NEW g \in rotated PROVE N - k <= Rank(g) <=> (N - (k - 1) <= Rank(g) \/ g = x)
  <2>1. Rank(g) \in Nat
    BY RankRange, <1>0
  <2>2. g # x => Rank(g) # Rank(x)
    BY RankInjective
  <2>. QED
    BY <1>0, <1>1, <2>1, <2>2
<1>. QED
  BY <1>0, <1>1, <1>2 DEF Seen

\* The number of files of kind kd among the first k of the walk.
Cnt(kd, k) == Cardinality(Seen(kd, k))

LEMMA CntStep ==
    ASSUME RotInv, NEW k \in 1 .. N, NEW kd
    PROVE  /\ Cnt(kd, k - 1) \in Nat
           /\ Cnt(kd, k) = IF Walk[k].kind = kd THEN Cnt(kd, k - 1) + 1 ELSE Cnt(kd, k - 1)
<1>1. PICK S \in SUBSET rotated : S = Seen(kd, k - 1)
  BY DEF Seen
<1>2. IsFiniteSet(S)
  BY <1>1, FS_Subset DEF RotInv
<1>3. PICK x : x = Walk[k]
  OBVIOUS
<1>4. x \notin S /\ Seen(kd, k) = IF x.kind = kd THEN S \cup {x} ELSE S
  BY <1>1, <1>3, SeenStep
<1>5. IsFiniteSet(S \cup {x}) /\ Cardinality(S \cup {x}) = Cardinality(S) + 1
  BY <1>2, <1>4, FS_AddElement
<1>6. Cardinality(S) \in Nat
  BY <1>2, FS_CardinalityType
<1>. QED
  BY <1>1, <1>3, <1>4, <1>5, <1>6 DEF Cnt

\* The counter clean keeps for a kind: the files met, capped where removal
\* starts.
CapK(c) == IF c < KeepCounts THEN c ELSE KeepCounts

\* The files among the first k of the walk with logKeepCounts newer files
\* of their kind.
Removed(k) ==
    {g \in rotated : N - k <= Rank(g) /\ Cardinality(NewerThan(g)) >= KeepCounts}

\* clean's accumulator after the first k files of the walk.
Acc(k) == [count |-> [kd \in Kinds |-> CapK(Cnt(kd, k))], removed |-> Removed(k)]

LEMMA RemovedStep ==
    ASSUME RotInv, NEW k \in 1 .. N
    PROVE  Removed(k) = IF Cnt(Walk[k].kind, k - 1) >= KeepCounts
                        THEN Removed(k - 1) \cup {Walk[k]} ELSE Removed(k - 1)
<1>0. N \in Nat
  BY CardN
<1>1. PICK x \in rotated : x = Walk[k] /\ Rank(x) = N - k
  BY WalkFacts
<1>2. NewerThan(x) = Seen(x.kind, k - 1)
  <2>1. NewerThan(x) = Seen(x.kind, N - Rank(x) - 1)
    BY NewerSeen
  <2>. QED
    BY <1>0, <1>1, <2>1
<1>3. ASSUME NEW g \in rotated PROVE N - k <= Rank(g) <=> (N - (k - 1) <= Rank(g) \/ g = x)
  <2>1. Rank(g) \in Nat
    BY RankRange, <1>0
  <2>2. g # x => Rank(g) # Rank(x)
    BY RankInjective
  <2>. QED
    BY <1>0, <1>1, <2>1, <2>2
<1>. QED
  BY <1>1, <1>2, <1>3 DEF Removed, Cnt

\* Each file the walk meets moves the accumulator as KeepCountStep does.
LEMMA AccStep ==
    ASSUME RotInv, NEW k \in 1 .. N
    PROVE  Acc(k) = KeepCountStep(Acc(k - 1), Walk[k])
<1>0. KeepCounts \in Nat \ {0}
  BY XFileLogAssumption
<1>1. PICK x \in rotated : x = Walk[k]
  BY WalkFacts
<1>2. x.kind \in Kinds
  BY <1>1 DEF RotInv, Rotated
<1>3. PICK c \in Nat : c = Cnt(x.kind, k - 1)
  BY CntStep
<1>4. \A kd \in Kinds : Cnt(kd, k) = IF x.kind = kd THEN c + 1 ELSE Cnt(kd, k - 1)
  BY <1>1, <1>3, CntStep
<1>5. Removed(k) = IF c >= KeepCounts THEN Removed(k - 1) \cup {x} ELSE Removed(k - 1)
  BY <1>1, <1>3, RemovedStep
<1>6. Acc(k - 1).count[x.kind] = CapK(c)
  BY <1>2, <1>3 DEF Acc
<1>7. CASE c >= KeepCounts
  <2>1. KeepCountStep(Acc(k - 1), x) = [Acc(k - 1) EXCEPT !.removed = @ \cup {x}]
    BY <1>0, <1>6, <1>7 DEF KeepCountStep, CapK
  <2>2. \A kd \in Kinds : CapK(Cnt(kd, k)) = CapK(Cnt(kd, k - 1))
    BY <1>0, <1>3, <1>4, <1>7 DEF CapK
  <2>3. Removed(k) = Removed(k - 1) \cup {x}
    BY <1>5, <1>7
  <2>. QED
    BY <1>1, <2>1, <2>2, <2>3 DEF Acc
<1>8. CASE c < KeepCounts
  <2>1. KeepCountStep(Acc(k - 1), x) = [Acc(k - 1) EXCEPT !.count[x.kind] = @ + 1]
    BY <1>0, <1>6, <1>8 DEF KeepCountStep, CapK
  <2>2. CapK(Cnt(x.kind, k)) = CapK(c) + 1
    BY <1>0, <1>2, <1>4, <1>8 DEF CapK
  <2>3. \A kd \in Kinds \ {x.kind} : CapK(Cnt(kd, k)) = CapK(Cnt(kd, k - 1))
    BY <1>4
  <2>4. Removed(k) = Removed(k - 1)
    BY <1>0, <1>3, <1>5, <1>8
  <2>. QED
    BY <1>1, <1>2, <1>6, <2>1, <2>2, <2>3, <2>4 DEF Acc
<1>. QED
  BY <1>0, <1>7, <1>8

LEMMA AccZero ==
    ASSUME RotInv
    PROVE  Acc(0) = KeepCountBase
<1>0. N \in Nat /\ KeepCounts \in Nat \ {0}
  BY CardN, XFileLogAssumption
<1>1. \A g \in rotated : ~(N - 0 <= Rank(g))
  BY <1>0, RankRange
<1>2. \A kd \in Kinds : Seen(kd, 0) = {}
  BY <1>1 DEF Seen
<1>3. \A kd \in Kinds : CapK(Cnt(kd, 0)) = 0
  BY <1>0, <1>2, FS_EmptySet DEF Cnt, CapK
<1>4. Removed(0) = {}
  BY <1>1 DEF Removed
<1>. QED
  BY <1>3, <1>4 DEF Acc, KeepCountBase

\* After k files of the walk, the fold holds Acc(k).
LEMMA FoldInv ==
    ASSUME RotInv
    PROVE  \A k \in 0 .. N : IterF[1 .. k] = Acc(k)
<1>0. N \in Nat
  BY CardN
<1> SUFFICES ASSUME \E k \in 0 .. N : IterF[1 .. k] # Acc(k) PROVE FALSE
  OBVIOUS
<1>1. PICK T : T = {k \in 0 .. N : IterF[1 .. k] # Acc(k)}
  OBVIOUS
<1>s. T \subseteq Nat /\ T # {}
  BY <1>0, <1>1
<1>2. PICK m \in T : \A y \in T : ~(y < m)
  BY <1>s, MinCounter
<1>3. m # 0
  BY <1>1, <1>2, IterUnfold, AccZero
<1>4. m \in 1 .. N /\ m - 1 \in 0 .. N /\ m - 1 \notin T
  BY <1>0, <1>1, <1>2, <1>3
<1>5. IterF[1 .. m - 1] = Acc(m - 1)
  BY <1>1, <1>4
<1>6. IterF[1 .. m] = KeepCountStep(Acc(m - 1), Walk[m])
  BY <1>4, <1>5, IterUnfold
<1>. QED
  BY <1>1, <1>2, <1>4, <1>6, AccStep

\* clean removes exactly the files with logKeepCounts newer files of their
\* kind, and then those older than logKeepDays.
LEMMA CleanCorrect ==
    ASSUME RotInv
    PROVE  Clean(rotated) = {f \in rotated : /\ Cardinality(NewerThan(f)) < KeepCounts
                                            /\ f.hour + KeepHours >= now}
<1>0. N \in Nat /\ KeepCounts \in Nat
  BY CardN, XFileLogAssumption
<1>1. FoldLeft(KeepCountStep, KeepCountBase, Reverse(GlobSorted(rotated))) = Acc(N)
  <2>1. DOMAIN Walk = 1 .. N
    BY WalkFacts
  <2>2. IterF[1 .. N] = Acc(N)
    BY <1>0, FoldInv
  <2>. QED
    BY <2>1, <2>2, FoldIsIter DEF Walk, Glob
<1>2. ASSUME NEW f \in rotated PROVE Cardinality(NewerThan(f)) \in Nat /\ 0 <= Rank(f)
  <2>1. PICK S \in SUBSET rotated : S = NewerThan(f)
    BY DEF NewerThan
  <2>2. IsFiniteSet(S)
    BY <2>1, FS_Subset DEF RotInv
  <2>. QED
    BY <1>0, <2>1, <2>2, FS_CardinalityType, RankRange
<1>3. Acc(N).removed = {g \in rotated : Cardinality(NewerThan(g)) >= KeepCounts}
  BY <1>0, <1>2 DEF Acc, Removed
<1>. QED
  BY <1>0, <1>1, <1>2, <1>3 DEF Clean

\* Each clean the spliter runs keeps, of every kind, exactly the
\* logKeepCounts newest rotated files that are not older than logKeepDays:
\* walking the glob from its last name removes the oldest ones, whatever
\* the number of files, hours and kinds and whatever logKeepCounts is.
THEOREM CleanKeepsNewestHolds == Spec => CleanKeepsNewest
<1>1. RotInv /\ [Next]_logVars =>
        [SpliterTick =>
           rotated' = {f \in rotated : /\ Cardinality(NewerThan(f)) < KeepCounts
                                      /\ f.hour + KeepHours >= now}]_logVars
  BY CleanCorrect DEF SpliterTick
<1>. QED
  BY <1>1, RotInvHolds, PTL DEF Spec, CleanKeepsNewest

=============================================================================
