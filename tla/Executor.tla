----------------------------- MODULE Executor -----------------------------
(***************************************************************************)
(* The statement handlers of a SessionExecutor (executor_handle.go) for    *)
(* sessions of one namespace that share its backend pools and its QPS      *)
(* limiter: handleQuery with the limiter and the multi-statement split,    *)
(* doQuery and handleQueryWithoutPlan, handleSet / handleSetVariable /     *)
(* handleSetAutoCommit, handleUseDB, COM_FIELD_LIST and the keep-session  *)
(* ping.  The prepared-statement table is in ExecutorStmts.                *)
(*                                                                         *)
(* SQL text is abstracted to the kind of statement, a SET to the classes   *)
(* of its assignments, a backend connection to a model value of its        *)
(* slice's pool.  BEGIN, COMMIT, ROLLBACK and getBackendConn live in       *)
(* executor.go, which is not in this repository; they follow spec 4.8.     *)
(***************************************************************************)
EXTENDS Naturals, Sequences, FiniteSets

CONSTANTS
    Sessions,          \* client sessions of the namespace
    Slices,            \* the namespace's slices
    ConnsOf,           \* ConnsOf[sl]: the backend connections of sl's pool
    Dbs,               \* the namespace's allowed databases
    OtherDb,           \* a database the namespace does not allow
    QPSLimit,          \* clientQPSLimit > 0
    SupportLimitTx,    \* supportLimitTx
    SupportMultiQuery, \* supportMultiQuery
    KeepSession,       \* the namespace keeps backend sessions
    ReadOnlyUser,      \* the user's rw flag is read-only
    MaxTokens,         \* capacity of the limiter's bucket
    MaxPieces,         \* most statements one multi-statement query splits into
    NoConn, NoDb

Conns == UNION {ConnsOf[sl] : sl \in Slices}
SliceOf(c) == CHOOSE sl \in Slices : c \in ConnsOf[sl]
ConnMap == [Slices -> Conns \cup {NoConn}]
NoConns == [sl \in Slices |-> NoConn]

\* Statements a COM_QUERY may carry, by what the handlers do with them.
StmtKinds == {"select", "dml", "black", "set", "begin", "commit", "rollback", "lock", "use"}
\* Classes of one SET assignment, by what handleSetVariable does with it:
\* rejected (global scope, read-only or unsupported variable, bad value),
\* ignored (timeouts, unknown names), var_ok (charset, names, sql_mode and
\* the other session variables), and autocommit on / off; autocommit_on_err
\* is SET autocommit=1 whose pc.SetAutoCommit(1) fails on the backend.
VarKinds == {"rejected", "ignored", "var_ok", "autocommit_off", "autocommit_on", "autocommit_on_err"}
SetLists == UNION {[1 .. n -> VarKinds] : n \in 1 .. 2}

ASSUME ExecutorAssumption ==
    /\ \A sl \in Slices : ConnsOf[sl] # {}
    /\ \A s1, s2 \in Slices : s1 # s2 => ConnsOf[s1] \cap ConnsOf[s2] = {}
    /\ NoConn \notin Conns /\ OtherDb \notin Dbs /\ NoDb \notin Dbs \cup {OtherDb}
    /\ MaxTokens \in Nat /\ MaxPieces \in Nat \ {0}
    /\ {QPSLimit, SupportLimitTx, SupportMultiQuery, KeepSession, ReadOnlyUser} \subseteq BOOLEAN


VARIABLES
    ex,      \* ex[s]: the SessionExecutor of session s, and its client's state
    idle,    \* idle[c]: how often c is in its pool's idle list
    tokens   \* tokens left in the namespace's limiter bucket

vars == <<ex, idle, tokens>>

Exec == [autocommit : BOOLEAN, inTrans : BOOLEAN, txConns : ConnMap, ksConns : ConnMap,
         db : Dbs \cup {NoDb}, varsSet : BOOLEAN,
         pieces : 0 .. MaxPieces, closed : BOOLEAN, err : BOOLEAN]

-----------------------------------------------------------------------------
(* Backend connections                                                     *)

\* isInTransaction(): IN_TRANS set or AUTOCOMMIT cleared.
IsInTransaction(x) == x.inTrans \/ ~x.autocommit

Stashed(m) == {m[sl] : sl \in Slices} \ {NoConn}

\* pc.Recycle() of every connection of a map, into the idle lists p.
RecycleInto(p, m) == [c \in Conns |-> p[c] + (IF c \in Stashed(m) THEN 1 ELSE 0)]

\* getBackendConn(sl) and the release of spec 4.8: inside a transaction the
\* connection is stashed in txConns[sl], for a keep-session namespace in
\* ksConns[sl]; otherwise it is the statement's alone and goes back to the
\* idle list when the statement is done.  A slot already filled is reused.
\* The set of [x, idle] results; empty when the pool has no idle connection.
AcquireFor(x, sl) ==
    LET slot == IF IsInTransaction(x) THEN "txConns"
                ELSE IF KeepSession THEN "ksConns" ELSE "none"
    IN  IF slot # "none" /\ x[slot][sl] # NoConn
        THEN {[x |-> x, idle |-> idle]}
        ELSE {[x |-> IF slot = "none" THEN x ELSE [x EXCEPT ![slot][sl] = c],
               idle |-> IF slot = "none" THEN idle ELSE [idle EXCEPT ![c] = @ - 1]] :
                 c \in {k \in ConnsOf[sl] : idle[k] > 0}}

\* Fault variant of Close: handleKsQuit is not called.
CloseExecNoKsQuit(x, p) ==
    [x |-> [x EXCEPT !.closed = TRUE, !.inTrans = FALSE, !.pieces = 0, !.err = TRUE,
                     !.txConns = NoConns, !.ksConns = NoConns],
     idle |-> RecycleInto(p, x.txConns)]

\* Session.Close: executor.rollback() recycles the transaction connections,
\* handleKsQuit() the keep-session ones; the client connection is closed.
CloseExec(x, p) ==
    [x |-> [x EXCEPT !.closed = TRUE, !.inTrans = FALSE, !.pieces = 0, !.err = TRUE,
                     !.txConns = NoConns, !.ksConns = NoConns],
     idle |-> RecycleInto(RecycleInto(p, x.txConns), x.ksConns)]

-----------------------------------------------------------------------------
(* SET                                                                      *)

\* handleSetAutoCommit(true): AUTOCOMMIT set, IN_TRANS cleared, every
\* transaction connection sent SET autocommit=1 and recycled, the map
\* reset; an error of a backend is returned after all of that is done.
HandleSetAutoCommitOn(r, backendFails) ==
    [x |-> [r.x EXCEPT !.autocommit = TRUE, !.inTrans = FALSE, !.txConns = NoConns],
     idle |-> RecycleInto(r.idle, r.x.txConns),
     err |-> backendFails /\ Stashed(r.x.txConns) # {}]

\* handleSetVariable for one assignment of class v.
HandleSetVariable(r, v) ==
    CASE v = "rejected"          -> [r EXCEPT !.err = TRUE]
      [] v = "ignored"           -> r
      [] v = "var_ok"            -> [r EXCEPT !.x.varsSet = TRUE]
      [] v = "autocommit_off"    -> [r EXCEPT !.x.autocommit = FALSE]
      [] v = "autocommit_on"     -> HandleSetAutoCommitOn(r, FALSE)
      [] v = "autocommit_on_err" -> HandleSetAutoCommitOn(r, TRUE)

\* One iteration of handleSet's loop: after an error nothing more is done.
SetStep(r, v) == IF r.err THEN r ELSE HandleSetVariable(r, v)

\* handleSet: the assignments in order, returning at the first error
\* (a list of SetLists has one or two assignments).
HandleSet(x, vs) ==
    LET r1 == SetStep([x |-> x, idle |-> idle, err |-> FALSE], vs[1])
    IN  IF Len(vs) = 1 THEN r1 ELSE SetStep(r1, vs[2])

-----------------------------------------------------------------------------
(* COM_QUERY: handleQuery, doMultiStmts, doQuery                           *)

\* A session reading its next command; a session with pieces > 0 is inside
\* doMultiStmts with that many statements still to run.
Idle(s) == ~ex[s].closed /\ ex[s].pieces = 0
Running(s) == ex[s].pieces > 0

\* handleQuery: the limiter is asked (and a token taken) only on the
\* branches whose earlier conjuncts hold.
LimitedTx(x) == QPSLimit /\ SupportLimitTx /\ tokens = 0
LimitedNoTx(x) == QPSLimit /\ ~SupportLimitTx /\ ~IsInTransaction(x) /\ tokens = 0
Consumes(x) == QPSLimit /\ (SupportLimitTx \/ ~IsInTransaction(x))

Respond(s, e) == ex' = [ex EXCEPT ![s].err = e]

\* handleQuery, refused by the limiter inside a transaction: the
\* SessionCloseRespError makes Run close the session.
QueryLimitedClose(s) ==
    /\ Idle(s) /\ LimitedTx(ex[s]) /\ IsInTransaction(ex[s])
    /\ LET c == CloseExec(ex[s], idle) IN ex' = [ex EXCEPT ![s] = c.x] /\ idle' = c.idle
    /\ UNCHANGED tokens

\* handleQuery, refused by the limiter outside a transaction: an error only.
QueryLimited(s) ==
    /\ Idle(s)
    /\ \/ LimitedTx(ex[s]) /\ ~IsInTransaction(ex[s])
       \/ LimitedNoTx(ex[s])
    /\ Respond(s, TRUE)
    /\ UNCHANGED <<idle, tokens>>

\* handleQuery admits the query: doMultiStmts splits it (or fails to) when
\* the namespace and the client support multi-statements, else doQuery.
QueryAdmitted(s) ==
    /\ Idle(s) /\ ~LimitedTx(ex[s]) /\ ~LimitedNoTx(ex[s])
    /\ tokens' = IF Consumes(ex[s]) THEN tokens - 1 ELSE tokens
    /\ \/ \E n \in IF SupportMultiQuery THEN 1 .. MaxPieces ELSE {1} :
            ex' = [ex EXCEPT ![s].pieces = n]
       \/ SupportMultiQuery /\ Respond(s, TRUE)
    /\ UNCHANGED idle

\* The end of one doQuery: an error ends the query; otherwise, when pieces
\* remain, the intermediate result is written with MORE_RESULTS_EXISTS,
\* and a failed write closes the session.
Finish(s, r) ==
    LET y == [r.x EXCEPT !.pieces = IF r.err THEN 0 ELSE @ - 1, !.err = r.err]
    IN  \/ ex' = [ex EXCEPT ![s] = y] /\ idle' = r.idle
        \/ /\ ~r.err /\ y.pieces > 0
           /\ LET c == CloseExec(y, r.idle) IN ex' = [ex EXCEPT ![s] = c.x] /\ idle' = c.idle

Result(x, e) == [x |-> x, idle |-> idle, err |-> e]

\* checkSQLAllowed: a DML statement of a read-only user, a blacklisted one.
NotAllowed(k) == k = "black" \/ (ReadOnlyUser /\ k = "dml")

QueryNotAllowed(s) ==
    /\ Running(s) /\ \E k \in StmtKinds : NotAllowed(k)
    /\ Finish(s, Result(ex[s], TRUE))
    /\ UNCHANGED tokens

\* handleQueryWithoutPlan: SET.
QuerySet(s) ==
    /\ Running(s)
    /\ \E vs \in SetLists : Finish(s, HandleSet(ex[s], vs))
    /\ UNCHANGED tokens

\* handleQueryWithoutPlan: BEGIN, COMMIT and ROLLBACK (executor.go, spec
\* 4.8: commit and rollback end the transaction and recycle txConns).
QueryTxControl(s) ==
    /\ Running(s)
    /\ \/ Finish(s, Result([ex[s] EXCEPT !.inTrans = TRUE], FALSE))
       \/ Finish(s, [x |-> [ex[s] EXCEPT !.inTrans = FALSE, !.txConns = NoConns],
                     idle |-> RecycleInto(idle, ex[s].txConns), err |-> FALSE])
    /\ UNCHANGED tokens

\* handleQueryWithoutPlan: LOCK TABLES is ignored; USE goes to handleUseDB,
\* which rejects an empty name and a database the namespace does not allow.
QueryLockOrUse(s) ==
    /\ Running(s)
    /\ \/ Finish(s, Result(ex[s], FALSE))
       \/ \E d \in Dbs \cup {OtherDb, ""} :
            Finish(s, IF d \in Dbs THEN Result([ex[s] EXCEPT !.db = d], FALSE)
                      ELSE Result(ex[s], TRUE))
    /\ UNCHANGED tokens

\* getPlan fails (parse or build error) before any connection is taken.
QueryPlanError(s) ==
    /\ Running(s)
    /\ Finish(s, Result(ex[s], TRUE))
    /\ UNCHANGED tokens

\* p.ExecuteIn on one slice: the connection is acquired (or the pool is
\* exhausted), then the backend answers with a result or an error.
QueryExecute(s) ==
    /\ Running(s)
    /\ \E sl \in Slices :
         \/ AcquireFor(ex[s], sl) = {} /\ Finish(s, Result(ex[s], TRUE))
         \/ \E a \in AcquireFor(ex[s], sl), e \in BOOLEAN :
              Finish(s, [x |-> a.x, idle |-> a.idle, err |-> e])
    /\ UNCHANGED tokens

-----------------------------------------------------------------------------
(* COM_FIELD_LIST, keep-session ping, close                                *)

\* handleFieldList: a payload without NUL makes data[0:index] panic, which
\* Run recovers by closing the session; else getBackendConn on the table's
\* slice, whose connection recycleBackendConn gives back unless stashed.
FieldList(s) ==
    /\ Idle(s)
    /\ \/ LET c == CloseExec(ex[s], idle) IN ex' = [ex EXCEPT ![s] = c.x] /\ idle' = c.idle
       \/ \E sl \in Slices :
            \/ AcquireFor(ex[s], sl) = {} /\ Respond(s, TRUE) /\ UNCHANGED idle
            \/ \E a \in AcquireFor(ex[s], sl), e \in BOOLEAN :
                 ex' = [ex EXCEPT ![s] = [a.x EXCEPT !.err = e]] /\ idle' = a.idle
    /\ UNCHANGED tokens

\* handleKeepSessionPing after a failed ping: the failing connection is
\* closed, then every keep-session connection is (closed inside a
\* transaction and) recycled, and ErrBadConn returned; ksConns still names
\* them.  Nothing in the repository calls it (SpecWithPing adds the call).
KeepSessionPing(s) ==
    /\ Idle(s) /\ KeepSession /\ Stashed(ex[s].ksConns) # {}
    /\ idle' = RecycleInto(idle, ex[s].ksConns)
    /\ UNCHANGED <<ex, tokens>>

\* The session ends between commands: COM_QUIT, a failed read, or the
\* timeout wheel; each goes through Session.Close.
SessionClose(s) ==
    /\ Idle(s)
    /\ LET c == CloseExec(ex[s], idle) IN ex' = [ex EXCEPT ![s] = c.x] /\ idle' = c.idle
    /\ UNCHANGED tokens

-----------------------------------------------------------------------------
InitExec ==
    [autocommit |-> TRUE, inTrans |-> FALSE, txConns |-> NoConns, ksConns |-> NoConns,
     db |-> NoDb, varsSet |-> FALSE, pieces |-> 0,
     closed |-> FALSE, err |-> FALSE]

\* A client connects in the session's place once it is closed.
Reconnect(s) ==
    /\ ex[s].closed
    /\ ex' = [ex EXCEPT ![s] = InitExec]
    /\ UNCHANGED <<idle, tokens>>

\* The limiter's bucket fills up again as time passes.
Refill ==
    /\ tokens < MaxTokens
    /\ tokens' = tokens + 1
    /\ UNCHANGED <<ex, idle>>

Init ==
    /\ ex = [s \in Sessions |-> InitExec]
    /\ idle = [c \in Conns |-> 1]
    /\ tokens = MaxTokens

Next ==
    \/ Refill
    \/ \E s \in Sessions :
         \/ QueryLimitedClose(s) \/ QueryLimited(s) \/ QueryAdmitted(s)
         \/ QueryNotAllowed(s) \/ QuerySet(s) \/ QueryTxControl(s) \/ QueryLockOrUse(s)
         \/ QueryPlanError(s) \/ QueryExecute(s)
         \/ FieldList(s)
         \/ SessionClose(s) \/ Reconnect(s)

Spec == Init /\ [][Next]_vars

\* The executor with handleKeepSessionPing called between statements, as
\* a keep-alive of the keep-session connections would call it.
NextWithPing == Next \/ \E s \in Sessions : KeepSessionPing(s)
SpecWithPing == Init /\ [][NextWithPing]_vars

-----------------------------------------------------------------------------
(* Properties                                                              *)

ExecTypeOK ==
    /\ ex \in [Sessions -> Exec]
    /\ idle \in [Conns -> Nat]
    /\ tokens \in 0 .. MaxTokens

\* The places a connection is held: its idle list and every stash slot.
Holders(c) ==
    idle[c] + Cardinality({q \in Sessions \X Slices : ex[q[1]].txConns[q[2]] = c})
            + Cardinality({q \in Sessions \X Slices : ex[q[1]].ksConns[q[2]] = c})

\* The pool discipline of spec 4.8 across all handlers and sessions: every
\* backend connection is in exactly one place, its pool's idle list or one
\* stash slot of one session.  Twice means two sessions (or the pool and a
\* session) may use it at once; never means it leaked.
PoolConserved == \A c \in Conns : Holders(c) = 1

\* The two stash maps of an executor.
StashKinds == {"txConns", "ksConns"}

\* Every stash slot holds nothing or a connection of its own slice.
SlotsOK(e) ==
    \A s \in Sessions, k \in StashKinds, sl \in Slices : e[s][k][sl] \in ConnsOf[sl] \cup {NoConn}

\* c is stashed by some session: the pool does not have it.
Stashed2(e, c) == \E s \in Sessions, k \in StashKinds : e[s][k][SliceOf(c)] = c

\* No two stash slots hold the same connection.
StashUnique(e, c) ==
    \A s1, s2 \in Sessions, k1, k2 \in StashKinds :
        e[s1][k1][SliceOf(c)] = c /\ e[s2][k2][SliceOf(c)] = c => s1 = s2 /\ k1 = k2

\* PoolConserved without counting: a connection is idle once exactly when
\* no slot stashes it, and at most one slot does.
PoolState(e, p) ==
    /\ e \in [Sessions -> Exec]
    /\ p \in [Conns -> {0, 1}]
    /\ SlotsOK(e)
    /\ \A c \in Conns : /\ p[c] = IF Stashed2(e, c) THEN 0 ELSE 1
                       /\ StashUnique(e, c)

\* A closed session holds no connection and runs no statement.
ClosedReleased ==
    \A s \in Sessions : ex[s].closed =>
        ex[s].pieces = 0 /\ ex[s].txConns = NoConns /\ ex[s].ksConns = NoConns

\* The inductive invariant of the pool proof.
PoolInv == PoolState(ex, idle) /\ ClosedReleased /\ tokens \in 0 .. MaxTokens

\* MySQL's rule for SET: a statement that fails changes nothing.  From
\* every reachable state, a SET list handleSet reports as failed leaves
\* the executor and the pool as they were.
FailedSetChangesNothing ==
    \A s \in Sessions, vs \in SetLists :
        HandleSet(ex[s], vs).err =>
            /\ HandleSet(ex[s], vs).x = ex[s]
            /\ HandleSet(ex[s], vs).idle = idle

=============================================================================
