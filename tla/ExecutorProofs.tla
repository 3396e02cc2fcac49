--------------------------- MODULE ExecutorProofs ---------------------------
(***************************************************************************)
(* Proofs about Executor: the pool discipline PoolConserved holds in every *)
(* reachable state, for any sessions, slices and connections.              *)
(*                                                                         *)
(* PoolConserved counts the places a connection is held.  The proof works  *)
(* with PoolState, which says the same without counting: a connection is   *)
(* idle exactly when no stash slot holds it, and at most one slot holds    *)
(* it.  Each handler is built from three moves on one session's stash      *)
(* maps, and each move keeps PoolState: a map released into the idle       *)
(* lists (Release), a connection taken from an idle list into an empty     *)
(* slot (Acquire), and a change of the other fields (Keep).                *)
(***************************************************************************)
EXTENDS Executor, FiniteSetTheorems, TLAPS

\* Every connection belongs to exactly one slice's pool, SliceOf's.
LEMMA SliceOfFacts ==
    ASSUME NEW c \in Conns
    PROVE  /\ SliceOf(c) \in Slices
           /\ c \in ConnsOf[SliceOf(c)]
           /\ \A sl \in Slices : c \in ConnsOf[sl] => sl = SliceOf(c)
BY ExecutorAssumption DEF Conns, SliceOf

\* An executor record's stash maps, as functions of slices.
LEMMA ExecMaps ==
    ASSUME NEW x \in Exec, NEW k \in StashKinds
    PROVE  x[k] \in [Slices -> Conns \cup {NoConn}]
BY DEF Exec, StashKinds, ConnMap

\* A map whose slots hold their own slice's connections stashes c exactly
\* when c's slice's slot holds it.
LEMMA StashedIff ==
    ASSUME NEW m \in [Slices -> Conns \cup {NoConn}],
           \A sl \in Slices : m[sl] \in ConnsOf[sl] \cup {NoConn},
           NEW c \in Conns
    PROVE  c \in Stashed(m) <=> m[SliceOf(c)] = c
<1>1. SliceOf(c) \in Slices /\ c \in ConnsOf[SliceOf(c)]
  BY SliceOfFacts
<1>3. c # NoConn
  BY ExecutorAssumption
<1>2. ASSUME NEW sl \in Slices, m[sl] = c PROVE sl = SliceOf(c)
  <2>1. c \in ConnsOf[sl]
    BY <1>2, <1>3
  <2>. QED
    BY <2>1, SliceOfFacts
<1>. QED
  BY <1>1, <1>2, <1>3 DEF Stashed

\* Releasing the map k of session s into the idle lists (and clearing it)
\* keeps the pool state, whatever else changes in s's record.
LEMMA Release ==
    ASSUME NEW e, NEW p, PoolState(e, p),
           NEW s \in Sessions, NEW k \in StashKinds, NEW y \in Exec,
           y[k] = NoConns,
           \A k2 \in StashKinds \ {k} : y[k2] = e[s][k2]
    PROVE  PoolState([e EXCEPT ![s] = y], RecycleInto(p, e[s][k]))
<1> DEFINE e2 == [e EXCEPT ![s] = y]
           q == RecycleInto(p, e[s][k])
<1>1. e[s] \in Exec /\ e[s][k] \in [Slices -> Conns \cup {NoConn}]
  BY ExecMaps DEF PoolState
<1>2. \A sl \in Slices : e[s][k][sl] \in ConnsOf[sl] \cup {NoConn}
  BY DEF PoolState, SlotsOK
<1>3. e2 \in [Sessions -> Exec]
  BY DEF PoolState
<1>4. SlotsOK(e2)
  BY ExecutorAssumption DEF PoolState, SlotsOK, NoConns, StashKinds
<1>5. ASSUME NEW c \in Conns
      PROVE  /\ q[c] \in {0, 1}
             /\ q[c] = IF Stashed2(e2, c) THEN 0 ELSE 1
             /\ StashUnique(e2, c)
  <2> DEFINE sc == SliceOf(c)
  <2>1. sc \in Slices
    BY SliceOfFacts
  <2>2. c # NoConn
    BY ExecutorAssumption
  <2>3. /\ p[c] = (IF Stashed2(e, c) THEN 0 ELSE 1)
        /\ StashUnique(e, c)
        /\ p[c] \in {0, 1}
    BY DEF PoolState
  <2>4. c \in Stashed(e[s][k]) <=> e[s][k][sc] = c
    BY <1>1, <1>2, StashedIff
  <2>5. q[c] = p[c] + (IF e[s][k][sc] = c THEN 1 ELSE 0)
    BY <2>4 DEF RecycleInto
  <2>6. \A s2 \in Sessions, k2 \in StashKinds :
           e2[s2][k2][sc] = c <=> e[s2][k2][sc] = c /\ ~(s2 = s /\ k2 = k)
    BY <2>1, <2>2 DEF NoConns, PoolState
  <2>7. CASE e[s][k][sc] = c
    <3>1. Stashed2(e, c) /\ p[c] = 0
      BY <2>3, <2>7 DEF Stashed2
    <3>2. ~Stashed2(e2, c)
      BY <2>3, <2>6, <2>7 DEF StashUnique, Stashed2
    <3>. QED
      BY <3>1, <3>2, <2>5, <2>6, <2>7 DEF StashUnique, Stashed2
  <2>8. CASE e[s][k][sc] # c
    <3>1. Stashed2(e2, c) <=> Stashed2(e, c)
      BY <2>6, <2>8 DEF Stashed2
    <3>. QED
      BY <3>1, <2>3, <2>5, <2>6, <2>8 DEF StashUnique
  <2>. QED
    BY <2>7, <2>8
<1>. QED
  BY <1>3, <1>4, <1>5 DEF PoolState, RecycleInto
\* A change of session s's record that leaves its stash maps alone keeps
\* the pool state.
LEMMA Keep ==
    ASSUME NEW e, NEW p, PoolState(e, p),
           NEW s \in Sessions, NEW y \in Exec,
           \A k \in StashKinds : y[k] = e[s][k]
    PROVE  PoolState([e EXCEPT ![s] = y], p)
<1>1. \A s2 \in Sessions, k \in StashKinds : [e EXCEPT ![s] = y][s2][k] = e[s2][k]
  BY DEF PoolState
<1>2. [e EXCEPT ![s] = y] \in [Sessions -> Exec]
  BY DEF PoolState
<1>3. SlotsOK([e EXCEPT ![s] = y])
  BY <1>1 DEF PoolState, SlotsOK
<1>4. \A c \in Conns : /\ Stashed2([e EXCEPT ![s] = y], c) <=> Stashed2(e, c)
                     /\ StashUnique([e EXCEPT ![s] = y], c) <=> StashUnique(e, c)
  BY <1>1 DEF Stashed2, StashUnique
<1>. QED
  BY <1>2, <1>3, <1>4 DEF PoolState

\* Taking an idle connection c of slice sl into the empty slot sl of
\* session s's map k keeps the pool state.
LEMMA Acquire ==
    ASSUME NEW e, NEW p, PoolState(e, p),
           NEW s \in Sessions, NEW k \in StashKinds, NEW sl \in Slices,
           NEW c \in ConnsOf[sl], p[c] > 0, e[s][k][sl] = NoConn,
           NEW y \in Exec,
           y[k] = [e[s][k] EXCEPT ![sl] = c],
           \A k2 \in StashKinds \ {k} : y[k2] = e[s][k2]
    PROVE  PoolState([e EXCEPT ![s] = y], [p EXCEPT ![c] = p[c] - 1])
<1>1. c \in Conns /\ SliceOf(c) = sl
  BY SliceOfFacts DEF Conns
<1>2. e[s][k] \in [Slices -> Conns \cup {NoConn}]
  BY ExecMaps DEF PoolState
<1>3. \A s2 \in Sessions, k2 \in StashKinds, sl2 \in Slices :
         [e EXCEPT ![s] = y][s2][k2][sl2] = IF s2 = s /\ k2 = k /\ sl2 = sl THEN c ELSE e[s2][k2][sl2]
  BY <1>2 DEF PoolState
<1>4. p[c] = 1 /\ ~Stashed2(e, c)
  BY <1>1 DEF PoolState
<1>5. [e EXCEPT ![s] = y] \in [Sessions -> Exec]
  BY DEF PoolState
<1>6. SlotsOK([e EXCEPT ![s] = y])
  BY <1>3 DEF PoolState, SlotsOK
<1>7. ASSUME NEW d \in Conns
      PROVE  /\ [p EXCEPT ![c] = p[c] - 1][d] \in {0, 1}
             /\ [p EXCEPT ![c] = p[c] - 1][d] = IF Stashed2([e EXCEPT ![s] = y], d) THEN 0 ELSE 1
             /\ StashUnique([e EXCEPT ![s] = y], d)
  <2>1. SliceOf(d) \in Slices /\ d # NoConn
    BY SliceOfFacts, ExecutorAssumption
  <2>2. CASE d = c
    BY <2>2, <1>1, <1>3, <1>4 DEF PoolState, Stashed2, StashUnique
  <2>3. CASE d # c
    <3>1. \A s2 \in Sessions, k2 \in StashKinds :
             [e EXCEPT ![s] = y][s2][k2][SliceOf(d)] = d <=> e[s2][k2][SliceOf(d)] = d
      BY <2>1, <2>3, <1>3
    <3>. QED
      BY <2>3, <3>1 DEF PoolState, Stashed2, StashUnique
  <2>. QED
    BY <2>2, <2>3
<1>. QED
  BY <1>5, <1>6, <1>7 DEF PoolState
\* Replacing s's record twice is replacing it once.
LEMMA SameSlot ==
    ASSUME NEW e, NEW S, e \in [S -> Exec], NEW s \in S, NEW a, NEW b
    PROVE  /\ [[e EXCEPT ![s] = a] EXCEPT ![s] = b] = [e EXCEPT ![s] = b]
           /\ [e EXCEPT ![s] = a][s] = a
           /\ [e EXCEPT ![s] = e[s]] = e
OBVIOUS

\* Session.Close on a record x with s's stash maps (rollback, then
\* handleKsQuit) is two releases: it keeps the pool state.
LEMMA CloseKeeps ==
    ASSUME NEW e, NEW p, PoolState(e, p),
           NEW s \in Sessions, NEW x \in Exec,
           \A k \in StashKinds : x[k] = e[s][k]
    PROVE  /\ CloseExec(x, p).x \in Exec
           /\ PoolState([e EXCEPT ![s] = CloseExec(x, p).x], CloseExec(x, p).idle)
<1> DEFINE y1 == [x EXCEPT !.txConns = NoConns]
           e1 == [e EXCEPT ![s] = y1]
           z == CloseExec(x, p).x
           p1 == RecycleInto(p, e[s].txConns)
<1>0. e \in [Sessions -> Exec]
  BY DEF PoolState
<1>1. y1 \in Exec /\ z \in Exec
  <2>1. NoConns \in ConnMap /\ 0 \in 0 .. MaxPieces
    BY ExecutorAssumption DEF ConnMap, NoConns
  <2>2. y1 \in Exec
    BY <2>1 DEF Exec
  <2>3. z \in Exec
    BY <2>1 DEF Exec, CloseExec
  <2>. QED
    BY <2>2, <2>3
<1>2. PoolState(e1, p1)
  <2>1. y1["txConns"] = NoConns /\ \A k2 \in StashKinds \ {"txConns"} : y1[k2] = e[s][k2]
    BY DEF StashKinds, Exec
  <2>. QED
    BY <1>1, <2>1, Release DEF StashKinds
<1>3. e1[s] = y1
  BY <1>0, SameSlot
<1>4. PoolState([e1 EXCEPT ![s] = z], RecycleInto(p1, e1[s]["ksConns"]))
  <2>1. z["ksConns"] = NoConns /\ \A k2 \in StashKinds \ {"ksConns"} : z[k2] = e1[s][k2]
    BY <1>3 DEF StashKinds, Exec, CloseExec
  <2>. QED
    BY <1>1, <1>2, <2>1, Release DEF StashKinds
<1>5. /\ [e1 EXCEPT ![s] = z] = [e EXCEPT ![s] = z]
      /\ e1[s]["ksConns"] = x.ksConns
      /\ p1 = RecycleInto(p, x.txConns)
  BY <1>0, <1>3, SameSlot DEF StashKinds, Exec
<1>. QED
  BY <1>1, <1>4, <1>5 DEF CloseExec

\* What one statement's handling hands to the end of doQuery: a record of
\* session s that is still mid-query and the idle lists, in pool state.
GoodResult(s, r) ==
    /\ r \in [x : Exec, idle : [Conns -> {0, 1}], err : BOOLEAN]
    /\ r.x.pieces = ex[s].pieces
    /\ r.x.closed = ex[s].closed
    /\ PoolState([ex EXCEPT ![s] = r.x], r.idle)

\* Finish, the end of doQuery, keeps the invariant: the record is written
\* back, or the session is closed and its connections released.
LEMMA FinishKeeps ==
    ASSUME PoolInv, NEW s \in Sessions, Running(s),
           NEW r, GoodResult(s, r), Finish(s, r), tokens' = tokens
    PROVE  PoolInv'
<1> DEFINE y == [r.x EXCEPT !.pieces = IF r.err THEN 0 ELSE r.x.pieces - 1, !.err = r.err]
           er == [ex EXCEPT ![s] = r.x]
<1>0. ex \in [Sessions -> Exec]
  BY DEF PoolInv, PoolState
<1>1. ~ex[s].closed /\ ex[s].pieces \in 1 .. MaxPieces
  BY <1>0 DEF PoolInv, ClosedReleased, Running, Exec
<1>2. y \in Exec /\ y.closed = FALSE
  <2>1. r.x \in Exec /\ r.err \in BOOLEAN /\ r.x.pieces \in 1 .. MaxPieces /\ ~r.x.closed
    BY <1>1 DEF GoodResult
  <2>2. (IF r.err THEN 0 ELSE r.x.pieces - 1) \in 0 .. MaxPieces
    BY <2>1, ExecutorAssumption
  <2>. QED
    BY <2>1, <2>2 DEF Exec
<1>3. PoolState([ex EXCEPT ![s] = y], r.idle)
  <2>1. er \in [Sessions -> Exec] /\ er[s] = r.x
    BY <1>0, SameSlot DEF GoodResult
  <2>2. PoolState([er EXCEPT ![s] = y], r.idle)
    BY <1>2, <2>1, Keep DEF GoodResult, StashKinds, Exec
  <2>3. [er EXCEPT ![s] = y] = [ex EXCEPT ![s] = y]
    BY <1>0
  <2>. QED
    BY <2>2, <2>3
<1>4. \/ ex' = [ex EXCEPT ![s] = y] /\ idle' = r.idle
      \/ ex' = [ex EXCEPT ![s] = CloseExec(y, r.idle).x] /\ idle' = CloseExec(y, r.idle).idle
  BY DEF Finish
<1>5. CASE ex' = [ex EXCEPT ![s] = y] /\ idle' = r.idle
  <2>1. ClosedReleased'
    BY <1>0, <1>2, <1>5 DEF PoolInv, ClosedReleased
  <2>. QED
    BY <1>3, <1>5, <2>1 DEF PoolInv
<1>6. CASE ex' = [ex EXCEPT ![s] = CloseExec(y, r.idle).x] /\ idle' = CloseExec(y, r.idle).idle
  <2>0. [ex EXCEPT ![s] = y] \in [Sessions -> Exec] /\ [ex EXCEPT ![s] = y][s] = y
    BY <1>0, <1>2, SameSlot
  <2>1. CloseExec(y, r.idle).x \in Exec
        /\ PoolState([[ex EXCEPT ![s] = y] EXCEPT ![s] = CloseExec(y, r.idle).x], CloseExec(y, r.idle).idle)
    BY <1>2, <1>3, <2>0, CloseKeeps
  <2>2. [[ex EXCEPT ![s] = y] EXCEPT ![s] = CloseExec(y, r.idle).x] = ex'
    BY <1>0, <1>6
  <2>4. PoolState(ex', idle')
    BY <1>6, <2>1, <2>2
  <2>3. ClosedReleased'
    BY <1>0, <1>6 DEF PoolInv, ClosedReleased, CloseExec
  <2>. QED
    BY <2>4, <2>3 DEF PoolInv
<1>. QED
  BY <1>4, <1>5, <1>6

\* A record that keeps s's stash maps, mid-query state and closed flag,
\* with the idle lists as they are, is a good result.
LEMMA ResultGood ==
    ASSUME PoolInv, NEW s \in Sessions, NEW x \in Exec,
           \A k \in StashKinds : x[k] = ex[s][k],
           x.pieces = ex[s].pieces, x.closed = ex[s].closed, NEW e \in BOOLEAN
    PROVE  GoodResult(s, Result(x, e))
<1>1. PoolState([ex EXCEPT ![s] = x], idle)
  BY Keep DEF PoolInv
<1>. QED
  BY <1>1 DEF GoodResult, Result, PoolInv, PoolState
\* A good result stays good when its record changes outside the stash maps
\* and the mid-query fields.
LEMMA KeepResult ==
    ASSUME ex \in [Sessions -> Exec], NEW s \in Sessions, NEW r, GoodResult(s, r),
           NEW y \in Exec, \A k \in StashKinds : y[k] = r.x[k],
           y.pieces = r.x.pieces, y.closed = r.x.closed, NEW b \in BOOLEAN
    PROVE  GoodResult(s, [x |-> y, idle |-> r.idle, err |-> b])
<1>1. PICK er : er = [ex EXCEPT ![s] = r.x]
  OBVIOUS
<1>2. PoolState([er EXCEPT ![s] = y], r.idle)
  <2>1. PoolState(er, r.idle) /\ \A k \in StashKinds : y[k] = er[s][k]
    BY <1>1 DEF GoodResult
  <2>. QED
    BY <2>1, Keep
<1>. QED
  BY <1>1, <1>2 DEF GoodResult

\* A good result stays good when its transaction map is released.
LEMMA ReleaseResult ==
    ASSUME ex \in [Sessions -> Exec], NEW s \in Sessions, NEW r, GoodResult(s, r),
           NEW y \in Exec, y.txConns = NoConns, y.ksConns = r.x.ksConns,
           y.pieces = r.x.pieces, y.closed = r.x.closed, NEW b \in BOOLEAN
    PROVE  GoodResult(s, [x |-> y, idle |-> RecycleInto(r.idle, r.x.txConns), err |-> b])
<1>1. [ex EXCEPT ![s] = r.x][s] = r.x
  OBVIOUS
<1>2. y["txConns"] = NoConns /\ \A k2 \in StashKinds \ {"txConns"} : y[k2] = [ex EXCEPT ![s] = r.x][s][k2]
  BY <1>1 DEF StashKinds
<1>3. PoolState([[ex EXCEPT ![s] = r.x] EXCEPT ![s] = y], RecycleInto(r.idle, r.x.txConns))
  BY <1>1, <1>2, Release DEF GoodResult, StashKinds
<1>4. [[ex EXCEPT ![s] = r.x] EXCEPT ![s] = y] = [ex EXCEPT ![s] = y]
  OBVIOUS
<1>. QED
  BY <1>3, <1>4 DEF GoodResult, PoolState

\* One assignment of handleSet's loop keeps a result good.
LEMMA SetStepGood ==
    ASSUME ex \in [Sessions -> Exec], NEW s \in Sessions, NEW r, GoodResult(s, r),
           NEW v \in VarKinds
    PROVE  GoodResult(s, SetStep(r, v))
<1>0. r.x \in Exec /\ r.err \in BOOLEAN /\ r = [x |-> r.x, idle |-> r.idle, err |-> r.err]
  BY DEF GoodResult
<1>1. CASE r.err
  BY <1>1 DEF SetStep
<1>2. CASE ~r.err /\ v = "rejected"
  <2>1. GoodResult(s, [x |-> r.x, idle |-> r.idle, err |-> TRUE])
    BY <1>0, KeepResult DEF StashKinds
  <2>. QED
    BY <1>0, <1>2, <2>1 DEF SetStep, HandleSetVariable
<1>3. CASE ~r.err /\ v = "ignored"
  BY <1>3 DEF SetStep, HandleSetVariable
<1>4. CASE ~r.err /\ v = "var_ok"
  <2>1. GoodResult(s, [x |-> [r.x EXCEPT !.varsSet = TRUE], idle |-> r.idle, err |-> r.err])
    <3>1. [r.x EXCEPT !.varsSet = TRUE] \in Exec
      BY <1>0 DEF Exec
    <3>2. /\ \A k \in StashKinds : [r.x EXCEPT !.varsSet = TRUE][k] = r.x[k]
          /\ [r.x EXCEPT !.varsSet = TRUE].pieces = r.x.pieces
          /\ [r.x EXCEPT !.varsSet = TRUE].closed = r.x.closed
      BY <1>0 DEF StashKinds, Exec
    <3>. QED
      BY <1>0, <3>1, <3>2, KeepResult
  <2>. QED
    BY <1>0, <1>4, <2>1 DEF SetStep, HandleSetVariable
<1>5. CASE ~r.err /\ v = "autocommit_off"
  <2>1. GoodResult(s, [x |-> [r.x EXCEPT !.autocommit = FALSE], idle |-> r.idle, err |-> r.err])
    <3>1. [r.x EXCEPT !.autocommit = FALSE] \in Exec
      BY <1>0 DEF Exec
    <3>2. /\ \A k \in StashKinds : [r.x EXCEPT !.autocommit = FALSE][k] = r.x[k]
          /\ [r.x EXCEPT !.autocommit = FALSE].pieces = r.x.pieces
          /\ [r.x EXCEPT !.autocommit = FALSE].closed = r.x.closed
      BY <1>0 DEF StashKinds, Exec
    <3>. QED
      BY <1>0, <3>1, <3>2, KeepResult
  <2>. QED
    BY <1>0, <1>5, <2>1 DEF SetStep, HandleSetVariable
<1>6. ASSUME NEW b \in BOOLEAN PROVE GoodResult(s, HandleSetAutoCommitOn(r, b))
  <2> DEFINE y == [r.x EXCEPT !.autocommit = TRUE, !.inTrans = FALSE, !.txConns = NoConns]
  <2>1. y \in Exec
    BY <1>0 DEF Exec, ConnMap, NoConns
  <2>2. (b /\ Stashed(r.x.txConns) # {}) \in BOOLEAN
    OBVIOUS
  <2>4. y.txConns = NoConns /\ y.ksConns = r.x.ksConns
        /\ y.pieces = r.x.pieces /\ y.closed = r.x.closed
    BY <1>0 DEF Exec
  <2>3. GoodResult(s, [x |-> y, idle |-> RecycleInto(r.idle, r.x.txConns),
                       err |-> (b /\ Stashed(r.x.txConns) # {})])
    BY <1>0, <2>1, <2>2, <2>4, ReleaseResult
  <2>. QED
    BY <2>3 DEF HandleSetAutoCommitOn
<1>7. CASE ~r.err /\ v \in {"autocommit_on", "autocommit_on_err"}
  BY <1>6, <1>7 DEF SetStep, HandleSetVariable
<1>. QED
  BY <1>1, <1>2, <1>3, <1>4, <1>5, <1>7 DEF VarKinds

\* handleSet, from the session's record and the idle lists, ends in a good
\* result.
LEMMA HandleSetGood ==
    ASSUME PoolInv, NEW s \in Sessions, NEW vs \in SetLists
    PROVE  GoodResult(s, HandleSet(ex[s], vs))
<1>0. ex \in [Sessions -> Exec] /\ [ex EXCEPT ![s] = ex[s]] = ex
  BY DEF PoolInv, PoolState
<1>1. GoodResult(s, [x |-> ex[s], idle |-> idle, err |-> FALSE])
  BY <1>0 DEF GoodResult, PoolInv, PoolState
<1>2. PICK n \in 1 .. 2 : vs \in [1 .. n -> VarKinds]
  BY DEF SetLists
<1>3. vs[1] \in VarKinds /\ Len(vs) = n /\ (n = 2 => vs[2] \in VarKinds)
  BY <1>2
<1>4. GoodResult(s, SetStep([x |-> ex[s], idle |-> idle, err |-> FALSE], vs[1]))
  BY <1>0, <1>1, <1>3, SetStepGood
<1>5. n = 2 => GoodResult(s, SetStep(SetStep([x |-> ex[s], idle |-> idle, err |-> FALSE], vs[1]), vs[2]))
  BY <1>0, <1>3, <1>4, SetStepGood
<1>. QED
  BY <1>2, <1>3, <1>4, <1>5 DEF HandleSet

\* getBackendConn ends in a good result: the slot already filled, no slot
\* (the connection is the statement's alone), or an idle connection taken
\* into the empty slot.
LEMMA AcquireGood ==
    ASSUME PoolInv, NEW s \in Sessions, NEW sl \in Slices,
           NEW a \in AcquireFor(ex[s], sl), NEW b \in BOOLEAN
    PROVE  GoodResult(s, [x |-> a.x, idle |-> a.idle, err |-> b])
<1> DEFINE slot == IF IsInTransaction(ex[s]) THEN "txConns"
                   ELSE IF KeepSession THEN "ksConns" ELSE "none"
<1>0. ex \in [Sessions -> Exec] /\ [ex EXCEPT ![s] = ex[s]] = ex
  BY DEF PoolInv, PoolState
<1>1. GoodResult(s, [x |-> ex[s], idle |-> idle, err |-> b])
  BY <1>0 DEF GoodResult, PoolInv, PoolState
<1>2. CASE slot # "none" /\ ex[s][slot][sl] # NoConn
  BY <1>1, <1>2 DEF AcquireFor
<1>3. CASE slot = "none"
  BY <1>1, <1>3 DEF AcquireFor
<1>4. CASE slot # "none" /\ ex[s][slot][sl] = NoConn
  <2>1. PICK c \in ConnsOf[sl] :
           /\ idle[c] > 0
           /\ a = [x |-> [ex[s] EXCEPT ![slot][sl] = c], idle |-> [idle EXCEPT ![c] = idle[c] - 1]]
    BY <1>4 DEF AcquireFor
  <2> DEFINE y == [ex[s] EXCEPT ![slot][sl] = c]
  <2>2. slot \in StashKinds /\ c \in Conns
    BY <1>4 DEF StashKinds, Conns
  <2>3. y \in Exec /\ y.pieces = ex[s].pieces /\ y.closed = ex[s].closed
    <3>1. [ex[s][slot] EXCEPT ![sl] = c] \in ConnMap
      BY <1>0, <2>2 DEF Exec, ConnMap, StashKinds
    <3>2. CASE slot = "txConns"
      BY <1>0, <3>1, <3>2 DEF Exec
    <3>3. CASE slot = "ksConns"
      BY <1>0, <3>1, <3>3 DEF Exec
    <3>. QED
      BY <2>2, <3>2, <3>3 DEF StashKinds
  <2>4. y[slot] = [ex[s][slot] EXCEPT ![sl] = c] /\ \A k2 \in StashKinds \ {slot} : y[k2] = ex[s][k2]
    BY <1>0, <2>2 DEF StashKinds, Exec
  <2>5. PoolState([ex EXCEPT ![s] = y], [idle EXCEPT ![c] = idle[c] - 1])
    <3>1. PICK e0 : e0 = ex
      OBVIOUS
    <3>2. PICK p0 : p0 = idle
      OBVIOUS
    <3>5. PICK k0 : k0 = slot
      OBVIOUS
    <3>6. PICK y0 : y0 = y
      OBVIOUS
    <3>3. /\ PoolState(e0, p0) /\ p0[c] > 0 /\ e0[s][k0][sl] = NoConn
          /\ k0 \in StashKinds /\ y0 \in Exec
          /\ y0[k0] = [e0[s][k0] EXCEPT ![sl] = c]
          /\ \A k2 \in StashKinds \ {k0} : y0[k2] = e0[s][k2]
      BY <1>4, <2>1, <2>2, <2>3, <2>4, <3>1, <3>2, <3>5, <3>6 DEF PoolInv
    <3>4. PoolState([e0 EXCEPT ![s] = y0], [p0 EXCEPT ![c] = p0[c] - 1])
      BY <3>3, Acquire
    <3>. QED
      BY <3>1, <3>2, <3>4, <3>6
  <2>. QED
    BY <2>1, <2>3, <2>5 DEF GoodResult, PoolState
<1>. QED
  BY <1>2, <1>3, <1>4
\* Writing back a record of session s that keeps the stash maps of a good
\* result, and that is not closed, keeps the invariant.
LEMMA WriteBack ==
    ASSUME PoolInv, NEW s \in Sessions, NEW r, GoodResult(s, r),
           NEW y \in Exec, \A k \in StashKinds : y[k] = r.x[k], ~y.closed,
           ex' = [ex EXCEPT ![s] = y], idle' = r.idle, tokens' \in 0 .. MaxTokens
    PROVE  PoolInv'
<1>0. ex \in [Sessions -> Exec]
  BY DEF PoolInv, PoolState
<1>1. PICK er : er = [ex EXCEPT ![s] = r.x]
  OBVIOUS
<1>2. PoolState([er EXCEPT ![s] = y], r.idle)
  <2>1. PoolState(er, r.idle) /\ \A k \in StashKinds : y[k] = er[s][k]
    BY <1>0, <1>1 DEF GoodResult
  <2>. QED
    BY <2>1, Keep
<1>3. PoolState(ex', idle')
  BY <1>0, <1>1, <1>2
<1>4. ClosedReleased'
  BY <1>0 DEF PoolInv, ClosedReleased
<1>. QED
  BY <1>3, <1>4 DEF PoolInv

\* Session.Close of session s, outside a statement, keeps the invariant.
LEMMA CloseStep ==
    ASSUME PoolInv, NEW s \in Sessions,
           ex' = [ex EXCEPT ![s] = CloseExec(ex[s], idle).x],
           idle' = CloseExec(ex[s], idle).idle, tokens' = tokens
    PROVE  PoolInv'
<1>0. ex \in [Sessions -> Exec]
  BY DEF PoolInv, PoolState
<1>1. PICK e0 : e0 = ex
  OBVIOUS
<1>2. PICK p0 : p0 = idle
  OBVIOUS
<1>3. PICK x0 : x0 = ex[s]
  OBVIOUS
<1>4. PoolState([e0 EXCEPT ![s] = CloseExec(x0, p0).x], CloseExec(x0, p0).idle)
  <2>1. PoolState(e0, p0) /\ x0 \in Exec /\ \A k \in StashKinds : x0[k] = e0[s][k]
    BY <1>0, <1>1, <1>2, <1>3 DEF PoolInv
  <2>. QED
    BY <2>1, CloseKeeps
<1>5. ClosedReleased'
  BY <1>0 DEF PoolInv, ClosedReleased, CloseExec
<1>. QED
  BY <1>1, <1>2, <1>3, <1>4, <1>5 DEF PoolInv

LEMMA NextKeeps == PoolInv /\ [Next]_vars => PoolInv'
<1> SUFFICES ASSUME PoolInv, [Next]_vars PROVE PoolInv'
  OBVIOUS
<1>0. ex \in [Sessions -> Exec] /\ tokens \in 0 .. MaxTokens
  BY DEF PoolInv, PoolState
<1>1. CASE UNCHANGED vars
  BY <1>1 DEF vars, PoolInv, PoolState, SlotsOK, Stashed2, StashUnique, ClosedReleased
<1>2. CASE Refill
  <2>1. ex' = ex /\ idle' = idle /\ tokens' \in 0 .. MaxTokens
    BY <1>0, <1>2, ExecutorAssumption DEF Refill
  <2>. QED
    BY <2>1 DEF PoolInv, ClosedReleased
\* The result of a statement that takes no connection and keeps the record.
<1>3. ASSUME NEW s \in Sessions, NEW e \in BOOLEAN
      PROVE  GoodResult(s, Result(ex[s], e))
  BY <1>0, ResultGood DEF StashKinds
\* A record of an idle session written back with one field changed.
<1>4. ASSUME NEW s \in Sessions, NEW y \in Exec,
             \A k \in StashKinds : y[k] = ex[s][k], ~y.closed,
             ex' = [ex EXCEPT ![s] = y], idle' = idle, tokens' \in 0 .. MaxTokens
      PROVE  PoolInv'
  <2>1. PICK r0 : r0 = Result(ex[s], FALSE)
    OBVIOUS
  <2>2. GoodResult(s, r0) /\ r0.x = ex[s] /\ r0.idle = idle
    BY <1>3, <2>1 DEF Result
  <2>. QED
    BY <1>4, <2>2, WriteBack
<1>5. ASSUME NEW s \in Sessions, QueryLimitedClose(s) PROVE PoolInv'
  BY <1>5, CloseStep DEF QueryLimitedClose
<1>6. ASSUME NEW s \in Sessions, Idle(s), NEW e \in BOOLEAN, Respond(s, e),
             idle' = idle, tokens' \in 0 .. MaxTokens
      PROVE  PoolInv'
  <2>0. PICK y0 : y0 = [ex[s] EXCEPT !.err = e]
    OBVIOUS
  <2>1. y0 \in Exec /\ ~y0.closed
    BY <1>0, <1>6, <2>0 DEF Exec, Idle
  <2>2. \A k \in StashKinds : y0[k] = ex[s][k]
    BY <1>0, <2>0 DEF StashKinds, Exec
  <2>3. ex' = [ex EXCEPT ![s] = y0]
    BY <1>6, <2>0 DEF Respond
  <2>. QED
    BY <1>6, <2>1, <2>2, <2>3, <1>4
<1>7. ASSUME NEW s \in Sessions, QueryLimited(s) PROVE PoolInv'
  BY <1>0, <1>7, <1>6 DEF QueryLimited
<1>8. ASSUME NEW s \in Sessions, QueryAdmitted(s) PROVE PoolInv'
  <2>1. tokens' \in 0 .. MaxTokens
    <3>1. IsInTransaction(ex[s]) \in BOOLEAN
      BY <1>0 DEF IsInTransaction, Exec
    <3>. QED
      BY <1>0, <1>8, <3>1, ExecutorAssumption DEF QueryAdmitted, Consumes, LimitedTx, LimitedNoTx
  <2>2. ASSUME NEW n \in 1 .. MaxPieces, ex' = [ex EXCEPT ![s].pieces = n] PROVE PoolInv'
    <3>0. PICK y0 : y0 = [ex[s] EXCEPT !.pieces = n]
      OBVIOUS
    <3>1. y0 \in Exec /\ ~y0.closed
      BY <1>0, <1>8, <3>0, ExecutorAssumption DEF Exec, QueryAdmitted, Idle
    <3>2. \A k \in StashKinds : y0[k] = ex[s][k]
      BY <1>0, <3>0 DEF StashKinds, Exec
    <3>3. ex' = [ex EXCEPT ![s] = y0]
      BY <2>2, <3>0
    <3>. QED
      BY <1>8, <2>1, <3>1, <3>2, <3>3, <1>4 DEF QueryAdmitted
  <2>3. (IF SupportMultiQuery THEN 1 .. MaxPieces ELSE {1}) \subseteq 1 .. MaxPieces
    BY ExecutorAssumption
  <2>. QED
    BY <1>8, <2>1, <2>2, <2>3, <1>6 DEF QueryAdmitted
\* The statements that run through Finish.
<1>9. ASSUME NEW s \in Sessions, Running(s), NEW r, GoodResult(s, r), Finish(s, r),
             tokens' = tokens
      PROVE  PoolInv'
  BY <1>9, FinishKeeps
<1>10. ASSUME NEW s \in Sessions, QueryNotAllowed(s) PROVE PoolInv'
  BY <1>3, <1>9, <1>10 DEF QueryNotAllowed
<1>11. ASSUME NEW s \in Sessions, QueryPlanError(s) PROVE PoolInv'
  BY <1>3, <1>9, <1>11 DEF QueryPlanError
<1>12. ASSUME NEW s \in Sessions, QuerySet(s) PROVE PoolInv'
  <2>1. PICK vs \in SetLists : Finish(s, HandleSet(ex[s], vs))
    BY <1>12 DEF QuerySet
  <2>2. GoodResult(s, HandleSet(ex[s], vs))
    BY HandleSetGood
  <2>. QED
    BY <1>12, <2>1, <2>2, <1>9 DEF QuerySet
<1>13. ASSUME NEW s \in Sessions, NEW x0 \in Exec, \A k \in StashKinds : x0[k] = ex[s][k],
              x0.pieces = ex[s].pieces, x0.closed = ex[s].closed, NEW e \in BOOLEAN
       PROVE  GoodResult(s, Result(x0, e))
  BY <1>13, ResultGood
<1>14. ASSUME NEW s \in Sessions, QueryTxControl(s) PROVE PoolInv'
  <2>1. CASE Finish(s, Result([ex[s] EXCEPT !.inTrans = TRUE], FALSE))
    <3>1. PICK x0 : x0 = [ex[s] EXCEPT !.inTrans = TRUE]
      OBVIOUS
    <3>2. /\ x0 \in Exec /\ \A k \in StashKinds : x0[k] = ex[s][k]
          /\ x0.pieces = ex[s].pieces /\ x0.closed = ex[s].closed
      BY <1>0, <3>1 DEF Exec, StashKinds
    <3>. QED
      BY <1>14, <2>1, <3>1, <3>2, <1>13, <1>9 DEF QueryTxControl
  <2>2. CASE Finish(s, [x |-> [ex[s] EXCEPT !.inTrans = FALSE, !.txConns = NoConns],
                         idle |-> RecycleInto(idle, ex[s].txConns), err |-> FALSE])
    <3>1. PICK r0 : r0 = Result(ex[s], FALSE)
      OBVIOUS
    <3>2. PICK y0 : y0 = [ex[s] EXCEPT !.inTrans = FALSE, !.txConns = NoConns]
      OBVIOUS
    <3>3. /\ GoodResult(s, r0) /\ r0.x = ex[s] /\ r0.idle = idle
          /\ y0 \in Exec /\ y0.txConns = NoConns /\ y0.ksConns = r0.x.ksConns
          /\ y0.pieces = r0.x.pieces /\ y0.closed = r0.x.closed
      BY <1>0, <1>3, <3>1, <3>2 DEF Result, Exec, ConnMap, NoConns
    <3>4. GoodResult(s, [x |-> y0, idle |-> RecycleInto(r0.idle, r0.x.txConns), err |-> FALSE])
      BY <1>0, <3>3, ReleaseResult
    <3>. QED
      BY <1>14, <2>2, <3>2, <3>3, <3>4, <1>9 DEF QueryTxControl
  <2>. QED
    BY <1>14, <2>1, <2>2 DEF QueryTxControl
<1>15. ASSUME NEW s \in Sessions, QueryLockOrUse(s) PROVE PoolInv'
  <2>1. ASSUME NEW d \in Dbs PROVE GoodResult(s, Result([ex[s] EXCEPT !.db = d], FALSE))
    <3>1. PICK x0 : x0 = [ex[s] EXCEPT !.db = d]
      OBVIOUS
    <3>2. /\ x0 \in Exec /\ \A k \in StashKinds : x0[k] = ex[s][k]
          /\ x0.pieces = ex[s].pieces /\ x0.closed = ex[s].closed
      BY <1>0, <3>1 DEF Exec, StashKinds
    <3>. QED
      BY <3>1, <3>2, <1>13
  <2>2. \A d \in Dbs \cup {OtherDb, ""} :
          GoodResult(s, IF d \in Dbs THEN Result([ex[s] EXCEPT !.db = d], FALSE)
                        ELSE Result(ex[s], TRUE))
    BY <1>3, <2>1
  <2>. QED
    BY <1>15, <1>3, <2>2, <1>9 DEF QueryLockOrUse
<1>16. ASSUME NEW s \in Sessions, QueryExecute(s) PROVE PoolInv'
  <2>1. \A sl \in Slices : \A a \in AcquireFor(ex[s], sl) : \A e \in BOOLEAN :
          GoodResult(s, [x |-> a.x, idle |-> a.idle, err |-> e])
    BY AcquireGood
  <2>. QED
    BY <1>16, <1>3, <2>1, <1>9 DEF QueryExecute
<1>17. ASSUME NEW s \in Sessions, FieldList(s) PROVE PoolInv'
  <2>1. CASE LET c == CloseExec(ex[s], idle) IN ex' = [ex EXCEPT ![s] = c.x] /\ idle' = c.idle
    BY <1>17, <2>1, CloseStep DEF FieldList
  <2>2. ASSUME NEW sl \in Slices, NEW a \in AcquireFor(ex[s], sl), NEW e \in BOOLEAN,
               ex' = [ex EXCEPT ![s] = [a.x EXCEPT !.err = e]], idle' = a.idle
        PROVE  PoolInv'
    <3>1. PICK r0 : r0 = [x |-> a.x, idle |-> a.idle, err |-> e]
      OBVIOUS
    <3>2. PICK y0 : y0 = [a.x EXCEPT !.err = e]
      OBVIOUS
    <3>3. GoodResult(s, r0)
      BY <3>1, AcquireGood
    <3>4. /\ y0 \in Exec /\ ~y0.closed /\ \A k \in StashKinds : y0[k] = r0.x[k]
          /\ ex' = [ex EXCEPT ![s] = y0] /\ idle' = r0.idle /\ tokens' \in 0 .. MaxTokens
      BY <1>0, <1>17, <2>2, <3>1, <3>2, <3>3 DEF GoodResult, Exec, StashKinds, FieldList, Idle
    <3>. QED
      BY <3>3, <3>4, WriteBack
  <2>. QED
    BY <1>0, <1>17, <2>1, <2>2, <1>6 DEF FieldList
<1>19. ASSUME NEW s \in Sessions, SessionClose(s) PROVE PoolInv'
  BY <1>19, CloseStep DEF SessionClose
<1>20. ASSUME NEW s \in Sessions, Reconnect(s) PROVE PoolInv'
  <2>1. InitExec \in Exec /\ ~InitExec.closed
    BY ExecutorAssumption DEF InitExec, Exec, ConnMap, NoConns
  <2>2. \A k \in StashKinds : InitExec[k] = ex[s][k]
    BY <1>20 DEF Reconnect, PoolInv, ClosedReleased, InitExec, StashKinds
  <2>. QED
    BY <1>0, <1>20, <2>1, <2>2, <1>4 DEF Reconnect
<1>. QED
  BY <1>1, <1>2, <1>5, <1>7, <1>8, <1>10, <1>11, <1>12, <1>14, <1>15, <1>16,
     <1>17, <1>19, <1>20 DEF Next
\* The initial state: every connection idle, every map empty.
LEMMA InitPoolInv == Init => PoolInv
<1> SUFFICES ASSUME Init PROVE PoolInv
  OBVIOUS
<1>1. InitExec \in Exec /\ ~InitExec.closed
  BY ExecutorAssumption DEF InitExec, Exec, ConnMap, NoConns
<1>2. \A c \in Conns : ~Stashed2(ex, c) /\ StashUnique(ex, c)
  BY ExecutorAssumption, SliceOfFacts DEF Init, InitExec, NoConns, Stashed2, StashUnique, StashKinds
<1>3. SlotsOK(ex)
  BY DEF Init, InitExec, NoConns, SlotsOK, StashKinds
<1>4. PoolState(ex, idle)
  BY <1>1, <1>2, <1>3 DEF Init, PoolState
<1>. QED
  BY <1>1, <1>4, ExecutorAssumption DEF Init, PoolInv, ClosedReleased

\* PoolState is PoolConserved without counting: in a pool state each
\* connection is idle and in no slot, or in exactly one slot.
LEMMA PoolStateConserved == PoolInv => PoolConserved
<1> SUFFICES ASSUME PoolInv, NEW c \in Conns PROVE Holders(c) = 1
  BY DEF PoolConserved
<1> DEFINE A == {q \in Sessions \X Slices : ex[q[1]].txConns[q[2]] = c}
           B == {q \in Sessions \X Slices : ex[q[1]].ksConns[q[2]] = c}
<1>0. ex \in [Sessions -> Exec] /\ idle[c] = (IF Stashed2(ex, c) THEN 0 ELSE 1) /\ StashUnique(ex, c)
  BY DEF PoolInv, PoolState
<1>1. \A t \in Sessions, k \in StashKinds, sl \in Slices : ex[t][k][sl] = c => sl = SliceOf(c)
  <2>1. c # NoConn
    BY ExecutorAssumption
  <2>. QED
    BY <2>1, SliceOfFacts DEF PoolInv, PoolState, SlotsOK
<1>2. Holders(c) = idle[c] + Cardinality(A) + Cardinality(B)
  BY DEF Holders
<1>3. CASE ~Stashed2(ex, c)
  <2>1. A = {} /\ B = {}
    BY <1>1, <1>3 DEF Stashed2, StashKinds
  <2>2. Cardinality(A) = 0 /\ Cardinality(B) = 0
    BY <2>1, FS_EmptySet
  <2>3. idle[c] = 1
    BY <1>0, <1>3
  <2>. QED
    BY <1>2, <2>2, <2>3
<1>4. CASE Stashed2(ex, c)
  <2>1. PICK s0 \in Sessions, k0 \in StashKinds : ex[s0][k0][SliceOf(c)] = c
    BY <1>4 DEF Stashed2
  <2>2. \A t \in Sessions, k \in StashKinds, sl \in Slices :
           ex[t][k][sl] = c <=> t = s0 /\ k = k0 /\ sl = SliceOf(c)
    BY <1>0, <1>1, <2>1 DEF StashUnique
  <2>3. \A q \in Sessions \X Slices : q = <<q[1], q[2]>>
    OBVIOUS
  <2>4. SliceOf(c) \in Slices
    BY SliceOfFacts
  <2>5. CASE k0 = "txConns"
    <3>1. A = {<<s0, SliceOf(c)>>} /\ B = {}
      BY <2>2, <2>3, <2>4, <2>5 DEF StashKinds
    <3>2. Cardinality(A) = 1 /\ Cardinality(B) = 0
      BY <3>1, FS_EmptySet, FS_Singleton
    <3>3. idle[c] = 0
      BY <1>0, <1>4
    <3>. QED
      BY <1>2, <3>2, <3>3
  <2>6. CASE k0 = "ksConns"
    <3>1. A = {} /\ B = {<<s0, SliceOf(c)>>}
      BY <2>2, <2>3, <2>4, <2>6 DEF StashKinds
    <3>2. Cardinality(A) = 0 /\ Cardinality(B) = 1
      BY <3>1, FS_EmptySet, FS_Singleton
    <3>3. idle[c] = 0
      BY <1>0, <1>4
    <3>. QED
      BY <1>2, <3>2, <3>3
  <2>. QED
    BY <2>5, <2>6 DEF StashKinds
<1>. QED
  BY <1>3, <1>4

\* The inductive invariant holds in every reachable state.
THEOREM PoolInvHolds == Spec => []PoolInv
<1>1. Init => PoolInv
  BY InitPoolInv
<1>2. PoolInv /\ [Next]_vars => PoolInv'
  BY NextKeeps
<1>. QED
  BY <1>1, <1>2, PTL DEF Spec

\* The pool discipline of spec 4.8, across every handler of every session
\* (statements, SET autocommit, COMMIT, field lists, keep-session pings,
\* closes and reconnects): each backend connection is in exactly one place,
\* its idle list or one stash slot, in every reachable state and for any
\* sessions, slices and pools.
THEOREM PoolConservedHolds == Spec => []PoolConserved
BY PoolInvHolds, PoolStateConserved, PTL
\* Every reachable executor state is well typed: each session's record is
\* an executor record, each connection's idle count a number, and the
\* limiter's bucket within its capacity.
THEOREM ExecTypeCorrect == Spec => []ExecTypeOK
<1>1. PoolInv => ExecTypeOK
  BY DEF PoolInv, PoolState, ExecTypeOK
<1>. QED
  BY <1>1, PoolInvHolds, PTL
=============================================================================
