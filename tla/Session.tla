------------------------------ MODULE Session ------------------------------
(***************************************************************************)
(* Client sessions of the proxy (src/unnamed/part_000, Session) running    *)
(* concurrently with the admin's hot reloads of the namespace registry     *)
(* (Registry).  Each session does the handshake (auth, namespace           *)
(* resolution, IP and connection-cap admission), then the Run loop:        *)
(* snapshot the namespace change index, read a command, clear stale        *)
(* keep-session connections, execute, write the response, and close on     *)
(* COM_QUIT or when a keep-session transaction saw a reload.  The session  *)
(* timeout wheel may call Close while the session is blocked in I/O.       *)
(*                                                                         *)
(* A backend connection is abstracted to the identity (gen) of the         *)
(* namespace object whose pool it came from.  The executor's transaction  *)
(* handlers (handleBegin, handleCommit, handleRollback, getBackendConn,   *)
(* rollback, handleKsQuit) are in executor.go, which is not among this     *)
(* repository's files: they are modelled from spec 4.8.                    *)
(***************************************************************************)
EXTENDS Registry, Integers

CONSTANTS
    Sessions,        \* client connections
    Slices,          \* backend slices
    KeepSession,     \* KeepSession[n]: namespace n keeps backend sessions
    MaxClientConns,  \* maxClientConnections of every namespace
    NoConn           \* model value: no connection stashed for a slice

ASSUME SessionAssumption ==
    /\ Slices # {} /\ Users # {} /\ Passwords # {}
    /\ KeepSession \in [Names -> BOOLEAN]
    /\ MaxClientConns \in Nat
    /\ NoConn \notin Gens

\* Commands a client sends after the handshake.
Cmds == {"query", "begin", "commit", "rollback", "autocommit1", "autocommit0", "quit"}

\* Program counter of the goroutine serving a session.
Phases == {"new", "auth", "run0", "store", "top", "read", "exec", "run", "write", "exit"}

ConnMap == [Slices -> Gens \cup {NoConn}]
NoConns == [sl \in Slices |-> NoConn]

\* Fields that carry nothing between steps are reset to these values.
DefaultCred == CHOOSE c \in Creds : TRUE
DefaultSlice == CHOOSE sl \in Slices : TRUE


Sess == [pc : Phases,
         cred : Creds,              \* credential the client authenticated with
         ns : Names \cup {NoNs},    \* cc.namespace
         snap : Nat,                \* executor.nsChangeIndexOld
         cmd : Cmds,                \* command being served
         inTrans : BOOLEAN,         \* status & ServerStatusInTrans
         autocommit : BOOLEAN,      \* status & ServerStatusAutocommit
         txConns : ConnMap,
         ksConns : ConnMap,
         stmtConn : {"tx", "ks", "plain"},  \* map the running statement uses
         stmtSlice : Slices,
         armed : BOOLEAN,           \* registered with the timeout wheel
         closed : BOOLEAN]

VARIABLES
    sess,        \* sess[s]: the Session and its SessionExecutor
    connCount,   \* statistics.clientConnecions[n] (value of the *Int32)
    connKeys     \* names present as keys of statistics.clientConnecions

sessVars == <<sess, connCount, connKeys>>
vars == <<regVars, sessVars>>

-----------------------------------------------------------------------------
(* Helpers on one session's state                                          *)

\* executor.isInTransaction(): in a transaction or autocommit off.
IsInTransaction(x) == x.inTrans \/ ~x.autocommit

IsKeepSession(x) == KeepSession[x.ns]

\* shouldClearKsAndCloseSession(nsChangeIndexOld), read against the
\* registry as it is when it is called.
ShouldClearKsAndCloseSession(x) ==
    IsKeepSession(x) /\ IsInTransaction(x) /\ GetNamespace(x.ns).changeIndex > x.snap

\* clearKsConns(nsChangeIndexOld): after a reload, a keep-session client
\* outside a transaction closes and recycles its keep-session connections.
ClearKsConns(x) ==
    IF IsKeepSession(x) /\ GetNamespace(x.ns).changeIndex > x.snap /\ ~IsInTransaction(x)
    THEN [x EXCEPT !.ksConns = NoConns]
    ELSE x

\* Session.Close: once only; executor.rollback() recycles the transaction
\* connections and clears IN_TRANS, handleKsQuit() drops the keep-session
\* connections, and the client socket is closed.
Close(x) ==
    IF x.closed THEN x
    ELSE [x EXCEPT !.closed = TRUE, !.inTrans = FALSE,
                   !.txConns = NoConns, !.ksConns = NoConns]

\* The deferred tail of Run: DescConnectionCount(cc.namespace).
DescConnectionCount(n) ==
    IF n \in connKeys
    THEN /\ connCount' = [connCount EXCEPT ![n] = @ - 1]
         /\ UNCHANGED connKeys
    ELSE UNCHANGED <<connCount, connKeys>>

\* Leave Run through its deferred block (recover, Close, Desc...).
Exit(s, x) ==
    /\ sess' = [sess EXCEPT ![s] = [Close(x) EXCEPT !.pc = "exit"]]
    /\ DescConnectionCount(sess[s].ns)

\* A registry read that finds the namespace deleted dereferences nil: the
\* panic is recovered by Run's deferred block, which closes the session.
NsGone(s) == GetNamespace(sess[s].ns) = NoNs

\* clearKsConns and shouldClearKsAndCloseSession read the namespace only
\* for a keep-session client.
KsNsGone(s) == IsKeepSession(sess[s]) /\ NsGone(s)

-----------------------------------------------------------------------------
(* Handshake (Session.Handshake, handleHandshakeResponse)                  *)

\* The client's handshake response is checked against the user manager
\* current at this moment: CheckUser, then one of the password schemes
\* (the plugin and the response length choose which; all three accept a
\* password of the user's list).
HandshakeAuth(s) ==
    /\ sess[s].pc = "new"
    /\ \E c \in Creds :
         IF c[1] \in users[Current].keys /\ c[2] \in users[Current].pw[c[1]]
         THEN sess' = [sess EXCEPT ![s].cred = c, ![s].pc = "auth"]
         ELSE sess' = [sess EXCEPT ![s].cred = c, ![s].pc = "exit"]
    /\ UNCHANGED <<regVars, connCount, connKeys>>

\* The collation lookup fails (ER_INTERNAL) and the handshake ends.
HandshakeBadCollation(s) ==
    /\ sess[s].pc = "auth"
    /\ sess' = [sess EXCEPT ![s].pc = "exit"]
    /\ UNCHANGED <<regVars, connCount, connKeys>>

\* Manager.GetNamespaceByUser: the namespace of a (user, password) key in
\* the user manager current at the call, "" when the key is absent.
GetNamespaceByUser(c) == users[Current].ns[c]

\* clientConnectionReachLimit: no counter yet means first connection;
\* otherwise the counter is compared with maxClientConnections.
ClientConnectionReachLimit(n) == n \in connKeys /\ connCount[n] >= MaxClientConns

\* Fault variant: a session whose user resolves to no namespace is admitted.
HandshakeAdmitNoNilCheck(s) ==
    LET n == GetNamespaceByUser(sess[s].cred) IN
    /\ sess[s].pc = "auth"
    /\ sess' = [sess EXCEPT ![s].ns = n, ![s].cred = DefaultCred, ![s].pc = "run0"]
    /\ ~ClientConnectionReachLimit(n)
    /\ UNCHANGED <<regVars, connCount, connKeys>>

\* GetNamespaceByUser reads the user manager again; then IsAllowConnect
\* (nil namespace: panic), the IP allowlist, the connection cap and the OK
\* packet.  Run has not started, so nothing is counted yet.
HandshakeAdmit(s) ==
    LET n == GetNamespaceByUser(sess[s].cred) IN
    /\ sess[s].pc = "auth"
    /\ sess' = [sess EXCEPT ![s].ns = n, ![s].cred = DefaultCred, ![s].pc = "run0"]
    /\ n # NoNs
    /\ GetNamespace(n) # NoNs
    /\ ~ClientConnectionReachLimit(n)
    /\ UNCHANGED <<regVars, connCount, connKeys>>

\* Any admission check fails: nil namespace, IP not allowed, too many
\* connections, or the OK packet cannot be written.
HandshakeReject(s) ==
    /\ sess[s].pc = "auth"
    /\ sess' = [sess EXCEPT ![s].ns = GetNamespaceByUser(sess[s].cred), ![s].pc = "exit"]
    /\ UNCHANGED <<regVars, connCount, connKeys>>

-----------------------------------------------------------------------------
(* Run                                                                     *)

\* IncrConnectionCount: Load; an existing counter is incremented atomically.
RunIncr(s) ==
    LET n == sess[s].ns IN
    /\ sess[s].pc = "run0"
    /\ IF n \in connKeys
       THEN /\ connCount' = [connCount EXCEPT ![n] = @ + 1]
            /\ sess' = [sess EXCEPT ![s].pc = "top"]
       ELSE /\ sess' = [sess EXCEPT ![s].pc = "store"]
            /\ UNCHANGED connCount
    /\ UNCHANGED <<regVars, connKeys>>

\* ... an absent one is created with Store(namespace, NewInt32(1)).
RunStore(s) ==
    LET n == sess[s].ns IN
    /\ sess[s].pc = "store"
    /\ connKeys' = connKeys \cup {n}
    /\ connCount' = [connCount EXCEPT ![n] = 1]
    /\ sess' = [sess EXCEPT ![s].pc = "top"]
    /\ UNCHANGED regVars

\* Top of the loop: leave when closed (COM_QUIT, reload veto or the timeout
\* wheel), else nsChangeIndexOld := GetNamespace().namespaceChangeIndex.
Snapshot(s) ==
    /\ sess[s].pc = "top"
    /\ IF sess[s].closed \/ NsGone(s)
       THEN Exit(s, sess[s])
       ELSE /\ sess' = [sess EXCEPT ![s].snap = GetNamespace(sess[s].ns).changeIndex,
                                    ![s].pc = "read"]
            /\ UNCHANGED <<connCount, connKeys>>
    /\ UNCHANGED regVars

\* A packet arrives: the session registers with the timeout wheel and
\* runs clearKsConns before dispatching.  The command it carries is
\* chosen by the exec actions below.
ReadPacket(s) ==
    /\ sess[s].pc = "read"
    /\ ~sess[s].closed
    /\ IF KsNsGone(s)
       THEN Exit(s, sess[s])
       ELSE /\ sess' = [sess EXCEPT ![s] = [ClearKsConns(sess[s]) EXCEPT
                            !.armed = TRUE, !.pc = "exec"]]
            /\ UNCHANGED <<connCount, connKeys>>
    /\ UNCHANGED regVars

\* The read fails (client gone, or the socket was closed by the timeout
\* wheel): clearKsConns (or its panic), then Close, which drops every
\* connection clearKsConns may have dropped.
ReadError(s) ==
    /\ sess[s].pc = "read"
    /\ Exit(s, sess[s])
    /\ UNCHANGED regVars

-----------------------------------------------------------------------------
(* execCommand / ExecuteCommand                                            *)

\* getBackendConn for the statement's slice, from the current namespace
\* object's pool: stashed in txConns inside a transaction, in ksConns for a
\* keep-session client, otherwise owned by the statement alone.
Acquire(x, gen) ==
    LET sl == x.stmtSlice IN
    IF IsInTransaction(x)
    THEN [x EXCEPT !.txConns[sl] = IF @ = NoConn THEN gen ELSE @, !.stmtConn = "tx"]
    ELSE IF IsKeepSession(x)
    THEN [x EXCEPT !.ksConns[sl] = IF @ = NoConn THEN gen ELSE @, !.stmtConn = "ks"]
    ELSE [x EXCEPT !.stmtConn = "plain"]

\* Fault variant: the transaction connections are not reset.
HandleSetAutoCommitOnKeepTx(x) == [x EXCEPT !.autocommit = TRUE, !.inTrans = FALSE]

\* handleSetAutoCommit(true): AUTOCOMMIT set, IN_TRANS cleared, every
\* transaction connection recycled and the map reset.
HandleSetAutoCommitOn(x) ==
    [x EXCEPT !.autocommit = TRUE, !.inTrans = FALSE, !.txConns = NoConns]

\* The effect of a command that needs no backend round trip.
ExecuteLocal(x) ==
    CASE x.cmd = "begin"       -> [x EXCEPT !.inTrans = TRUE]
      [] x.cmd = "commit"      -> [x EXCEPT !.inTrans = FALSE, !.txConns = NoConns]
      [] x.cmd = "rollback"    -> [x EXCEPT !.inTrans = FALSE, !.txConns = NoConns]
      [] x.cmd = "quit"        -> [x EXCEPT !.inTrans = FALSE, !.txConns = NoConns]
      [] x.cmd = "autocommit1" -> HandleSetAutoCommitOn(x)
      [] x.cmd = "autocommit0" -> [x EXCEPT !.autocommit = FALSE]

\* A keep-session transaction that saw a reload gets ErrTxNsChanged.
ExecTxNsChanged(s) ==
    /\ sess[s].pc = "exec"
    /\ ~NsGone(s)
    /\ ShouldClearKsAndCloseSession(sess[s])
    /\ \E c \in {"query", "quit"} : sess' = [sess EXCEPT ![s].cmd = c, ![s].pc = "write"]
    /\ UNCHANGED <<regVars, connCount, connKeys>>

\* A query: a backend connection is acquired and the statement is sent.
ExecQuery(s) ==
    /\ sess[s].pc = "exec"
    /\ ~NsGone(s)
    /\ ~ShouldClearKsAndCloseSession(sess[s])
    /\ \E sl \in Slices :
         sess' = [sess EXCEPT ![s] = [Acquire([sess[s] EXCEPT !.cmd = "query", !.stmtSlice = sl],
                                              GetNamespace(sess[s].ns).gen)
                                      EXCEPT !.pc = "run"]]
    /\ UNCHANGED <<regVars, connCount, connKeys>>

\* The backend answers the query.
QueryDone(s) ==
    /\ sess[s].pc = "run"
    /\ sess' = [sess EXCEPT ![s].pc = "write", ![s].stmtConn = "plain",
                             ![s].stmtSlice = DefaultSlice]
    /\ UNCHANGED <<regVars, connCount, connKeys>>

\* Transaction control, SET autocommit and COM_QUIT.
ExecLocal(s) ==
    /\ sess[s].pc = "exec"
    /\ ~NsGone(s)
    /\ ~ShouldClearKsAndCloseSession(sess[s])
    /\ \E c \in Cmds \ {"query"} :
         sess' = [sess EXCEPT ![s] = [ExecuteLocal([sess[s] EXCEPT !.cmd = c]) EXCEPT !.pc = "write"]]
    /\ UNCHANGED <<regVars, connCount, connKeys>>

\* execCommand reads the deleted namespace: panic, recovered, closed.
ExecPanic(s) ==
    /\ sess[s].pc = "exec"
    /\ NsGone(s)
    /\ Exit(s, sess[s])
    /\ UNCHANGED regVars

-----------------------------------------------------------------------------
(* writeResponse and the end of the iteration                              *)

\* The response is written; COM_QUIT or a keep-session transaction that saw
\* a reload closes the session, otherwise the loop goes on.
WriteOK(s) ==
    /\ sess[s].pc = "write"
    /\ ~sess[s].closed
    /\ IF \/ sess[s].cmd = "quit"
          \/ KsNsGone(s) /\ IsInTransaction(sess[s])
          \/ ShouldClearKsAndCloseSession(sess[s])
       THEN Exit(s, sess[s])
       ELSE /\ sess' = [sess EXCEPT ![s].pc = "top", ![s].cmd = "query"]
            /\ UNCHANGED <<connCount, connKeys>>
    /\ UNCHANGED regVars

\* The write fails: clearKsConns, Close, return.
WriteError(s) ==
    /\ sess[s].pc = "write"
    /\ Exit(s, sess[s])
    /\ UNCHANGED regVars

\* The timeout wheel fires cc.Close from its own goroutine.  The entry
\* tw.Add registers after the first packet stays until Run's deferred
\* tw.Remove, so Close can land at any point of the loop: before the
\* snapshot, on the client read, between the read and execCommand, on the
\* backend or on the client write.
SessionTimeout(s) ==
    /\ sess[s].armed
    /\ sess[s].pc \in {"top", "read", "exec", "run", "write"}
    /\ ~sess[s].closed
    /\ sess' = [sess EXCEPT ![s] = Close(sess[s])]
    /\ UNCHANGED <<regVars, connCount, connKeys>>

-----------------------------------------------------------------------------
InitSess ==
    [pc |-> "new", cred |-> DefaultCred, ns |-> NoNs, snap |-> 0,
     cmd |-> "query", inTrans |-> FALSE, autocommit |-> TRUE,
     txConns |-> NoConns, ksConns |-> NoConns, stmtConn |-> "plain",
     stmtSlice |-> DefaultSlice, armed |-> FALSE, closed |-> FALSE]

SessionInit ==
    /\ Init
    /\ sess = [s \in Sessions |-> InitSess]
    /\ connCount = [n \in Names |-> 0]
    /\ connKeys = {}

SessionStep(s) ==
    \/ HandshakeAuth(s) \/ HandshakeBadCollation(s)
    \/ HandshakeAdmit(s) \/ HandshakeReject(s)
    \/ RunIncr(s) \/ RunStore(s) \/ Snapshot(s)
    \/ ReadPacket(s) \/ ReadError(s)
    \/ ExecTxNsChanged(s) \/ ExecQuery(s) \/ QueryDone(s) \/ ExecLocal(s) \/ ExecPanic(s)
    \/ WriteOK(s) \/ WriteError(s) \/ SessionTimeout(s)

SessionNext ==
    \/ AdminNext /\ UNCHANGED sessVars
    \/ \E s \in Sessions : SessionStep(s)

SessionSpec == SessionInit /\ [][SessionNext]_vars

-----------------------------------------------------------------------------
(* Properties                                                              *)

SessTypeOK ==
    /\ sess \in [Sessions -> Sess]
    /\ connCount \in [Names -> Int]
    /\ connKeys \subseteq Names

Live(x) == x.pc \in {"run0", "store", "top", "read", "exec", "run", "write"}

\* Every backend connection stashed for a transaction is covered by the
\* transaction state: handleSetAutoCommit, commit, rollback and Close must
\* recycle txConns whenever they leave the transaction.
TxConnsImplyInTrans ==
    \A s \in Sessions :
        (\E sl \in Slices : sess[s].txConns[sl] # NoConn) => IsInTransaction(sess[s])

\* A session that has left Run holds no backend connection: every path out
\* of the loop (read or write error, COM_QUIT, reload veto, panic, timeout)
\* goes through Close, which recycles txConns and ksConns.  It fails when
\* the timeout's Close lands before execCommand stashes a connection: the
\* later Close of the exit path returns early (MCSessionTimeoutLeak.cfg).
ExitedSessionHoldsNoConns ==
    \A s \in Sessions :
        sess[s].pc = "exit" =>
            \A sl \in Slices : sess[s].txConns[sl] = NoConn /\ sess[s].ksConns[sl] = NoConn

\* Inductive invariant behind SessTypeOK and TxConnsImplyInTrans: the
\* registry and the admin calls are well formed, a session past the
\* handshake has a namespace (execCommand stashes connections of its
\* object), and nothing is stashed before Run.
HoldsNone(x) == x.txConns = NoConns /\ x.ksConns = NoConns
SessInv ==
    /\ RegTypeOK
    /\ AdmOK
    /\ SessTypeOK
    /\ \A s \in Sessions :
         /\ Live(sess[s]) => sess[s].ns \in Names
         /\ sess[s].pc \in {"new", "auth"} => HoldsNone(sess[s])
    /\ TxConnsImplyInTrans

\* The keep-session reload rule (spec 4.3): a keep-session client never
\* runs a statement on a backend connection of a namespace object other
\* than the one readers currently resolve.
StatementsUseCurrentNamespace ==
    [][\A s \in Sessions :
         (sess[s].pc = "exec" /\ sess'[s].pc = "run" /\ KeepSession[sess[s].ns]) =>
            \A sl \in Slices :
                /\ sess'[s].txConns[sl] \in {NoConn, GetNamespace(sess[s].ns).gen}
                /\ sess'[s].ksConns[sl] \in {NoConn, GetNamespace(sess[s].ns).gen}
      ]_vars

\* The connection cap (spec 4.5): at no time do more sessions of a
\* namespace run past the handshake than its maxClientConnections.
ConnCapRespected ==
    \A n \in Names :
        Cardinality({s \in Sessions : sess[s].ns = n /\ Live(sess[s])}) <= MaxClientConns

\* A connection stashed for the statement being executed stays stashed
\* until the backend answers: nothing recycles it while it is in use.
StashedConnHeldWhileInUse ==
    \A s \in Sessions :
        sess[s].pc = "run" =>
            /\ sess[s].stmtConn = "tx" => sess[s].txConns[sess[s].stmtSlice] # NoConn
            /\ sess[s].stmtConn = "ks" => sess[s].ksConns[sess[s].stmtSlice] # NoConn

=============================================================================
