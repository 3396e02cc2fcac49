--------------------------- MODULE ExecutorStmts ---------------------------
(***************************************************************************)
(* The prepared-statement table of one SessionExecutor (handleStmtPrepare, *)
(* handleStmtClose in executor_handle.go) against the client's view of it. *)
(* The table does not interact with the connection state of Executor, so   *)
(* it is checked on its own.  A statement is the number of the prepare     *)
(* that created it; stmtID keeps the width of se.stmtID, scaled down.      *)
(***************************************************************************)
EXTENDS Naturals, FiniteSets

CONSTANTS
    StmtIDWidth,   \* bits of se.stmtID (32 in the code)
    MaxPrepares    \* bound on the number of COM_STMT_PREPAREs of a run

StmtIds == 0 .. 2^StmtIDWidth - 1

VARIABLES
    stmtID,    \* se.stmtID
    stmts,     \* se.stmts: id -> the statement stored under it
    prepared,  \* prepares done so far (the next statement's number)
    client     \* the client's open statements, as <<id, statement>> pairs

vars == <<stmtID, stmts, prepared, client>>

Init ==
    /\ stmtID = 0
    /\ stmts = [id \in {} |-> 0]
    /\ prepared = 0
    /\ client = {}

\* handleStmtPrepare: CalcParams fails and nothing is stored, or the new
\* statement gets stmt.id = se.stmtID, se.stmtID++ wraps at its width, and
\* se.stmts[stmt.id] = stmt replaces whatever was stored under that id.
StmtPrepare ==
    /\ prepared < MaxPrepares
    /\ prepared' = prepared + 1
    /\ \/ UNCHANGED <<stmtID, stmts, client>>
       \/ /\ stmts' = [id \in DOMAIN stmts \cup {stmtID} |->
                         IF id = stmtID THEN prepared ELSE stmts[id]]
          /\ stmtID' = (stmtID + 1) % 2^StmtIDWidth
          /\ client' = client \cup {<<stmtID, prepared>>}

\* handleStmtClose: delete(se.stmts, id) for the id the client names when
\* it closes one of its statements (a packet shorter than 4 bytes is
\* ignored, a stuttering step).
StmtClose ==
    /\ \E c \in client :
         /\ client' = client \ {c}
         /\ stmts' = [id \in DOMAIN stmts \ {c[1]} |-> stmts[id]]
    /\ UNCHANGED <<stmtID, prepared>>

Next == StmtPrepare \/ StmtClose

Spec == Init /\ [][Next]_vars

\* The client's statement ids are the protocol's handles (spec 3: a table
\* keyed by 32-bit stmt id): every statement the client has prepared and
\* not closed is still the one the server finds under its id, so
\* COM_STMT_EXECUTE runs what the client prepared.
OpenStmtsResolve ==
    \A c \in client : c[1] \in DOMAIN stmts /\ stmts[c[1]] = c[2]

=============================================================================
