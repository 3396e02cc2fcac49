--------------------------- MODULE SessionProofs ---------------------------
(***************************************************************************)
(* Proofs about client sessions (Session) for every value of the           *)
(* constants, whatever the admin does to the registry meanwhile: the       *)
(* transaction connections are always covered by the transaction state.   *)
(*                                                                         *)
(* The argument is per session.  SessOK(x) collects what holds of one      *)
(* session's record; every session step changes one record (and maybe the *)
(* connection counters) and keeps SessOK of it, and the admin's steps      *)
(* change only the registry, whose type RegistryProofs proves.             *)
(***************************************************************************)
EXTENDS Session, RegistryProofs

\* What SessInv says of one session's record.
SessOK(x) ==
    /\ x \in Sess
    /\ Live(x) => x.ns \in Names
    /\ x.pc \in {"new", "auth"} => HoldsNone(x)
    /\ (\E sl \in Slices : x.txConns[sl] # NoConn) => IsInTransaction(x)

LEMMA SessInvParts ==
    SessInv <=> /\ RegTypeOK /\ AdmOK
                /\ sess \in [Sessions -> Sess]
                /\ connCount \in [Names -> Int] /\ connKeys \subseteq Names
                /\ \A s \in Sessions : SessOK(sess[s])
BY DEF SessInv, SessOK, SessTypeOK, TxConnsImplyInTrans

\* The defaults a record is reset to belong to their sets.
LEMMA Defaults == DefaultCred \in Creds /\ DefaultSlice \in Slices /\ NoConns \in ConnMap
<1>1. Creds # {}
  <2>1. PICK u \in Users : TRUE
    BY SessionAssumption
  <2>2. PICK p \in Passwords : TRUE
    BY SessionAssumption
  <2>3. <<u, p>> \in Creds
    BY DEF Creds
  <2>. QED
    BY <2>3
<1>2. DefaultCred \in Creds /\ DefaultSlice \in Slices
  BY <1>1, SessionAssumption DEF DefaultCred, DefaultSlice
<1>. QED
  BY <1>2 DEF NoConns, ConnMap

\* A session step: session s's record is replaced by one that is SessOK,
\* the registry is left alone and the counters stay well typed.
LEMMA Update ==
    ASSUME SessInv, NEW s \in Sessions, NEW y, SessOK(y),
           sess' = [sess EXCEPT ![s] = y], UNCHANGED regVars,
           connCount' \in [Names -> Int], connKeys' \subseteq Names
    PROVE  SessInv'
<1>1. RegTypeOK' /\ AdmOK'
  BY DEF SessInv, RegTypeOK, AdmOK, regVars
<1>2. sess' \in [Sessions -> Sess] /\ \A t \in Sessions : SessOK(sess'[t])
  <2>1. y \in Sess /\ sess \in [Sessions -> Sess] /\ \A t \in Sessions : SessOK(sess[t])
    BY SessInvParts DEF SessOK
  <2>2. sess' \in [Sessions -> Sess]
    BY <2>1
  <2>3. ASSUME NEW t \in Sessions PROVE SessOK(sess'[t])
    <3>1. CASE t = s
      <4>1. sess'[t] = y
        BY <2>1, <3>1
      <4>. QED
        BY <4>1
    <3>2. CASE t # s
      <4>1. sess'[t] = sess[t]
        BY <2>1, <3>2
      <4>. QED
        BY <2>1, <4>1
    <3>. QED
      BY <3>1, <3>2
  <2>. QED
    BY <2>2, <2>3
<1>. QED
  BY <1>1, <1>2 DEF SessInv, SessOK, SessTypeOK, TxConnsImplyInTrans

\* Leaving Run through the deferred Close: a Close that runs recycles
\* txConns, one that returns early leaves them covered as they were.
LEMMA ExitOK ==
    ASSUME NEW x, SessOK(x)
    PROVE  SessOK([Close(x) EXCEPT !.pc = "exit"])
<1>1. PICK z : z = Close(x)
  OBVIOUS
<1>2. z \in Sess /\ ((\E sl \in Slices : z.txConns[sl] # NoConn) => IsInTransaction(z))
  <2>1. CASE x.closed
    BY <1>1, <2>1 DEF SessOK, Close
  <2>2. CASE ~x.closed
    BY <1>1, <2>2, Defaults DEF SessOK, Close, Sess, NoConns
  <2>. QED
    BY <2>1, <2>2
<1>3. [z EXCEPT !.pc = "exit"] \in Sess
  BY <1>2 DEF Sess, Phases
<1>. QED
  BY <1>1, <1>2, <1>3 DEF SessOK, Sess, IsInTransaction, Live

\* DescConnectionCount keeps the counters well typed.
LEMMA DescOK ==
    ASSUME connCount \in [Names -> Int], connKeys \subseteq Names, NEW n,
           DescConnectionCount(n)
    PROVE  connCount' \in [Names -> Int] /\ connKeys' \subseteq Names
BY DEF DescConnectionCount

\* Exit of session s keeps the invariant.
LEMMA ExitStep ==
    ASSUME SessInv, NEW s \in Sessions, Exit(s, sess[s]), UNCHANGED regVars
    PROVE  SessInv'
<1>1. SessOK([Close(sess[s]) EXCEPT !.pc = "exit"])
  BY ExitOK, SessInvParts
<1>2. connCount' \in [Names -> Int] /\ connKeys' \subseteq Names
  BY DescOK, SessInvParts DEF Exit
<1>. QED
  BY <1>1, <1>2, Update DEF Exit

LEMMA SessInitHolds == SessionInit => SessInv
<1> SUFFICES ASSUME SessionInit PROVE SessInv
  OBVIOUS
<1>1. RegTypeOK /\ AdmOK
  BY TypeInit DEF SessionInit, Init, AdmOK, IdleCall, DelHolding
<1>2. SessOK(InitSess)
  BY Defaults DEF InitSess, SessOK, Sess, Phases, Cmds, HoldsNone, NoConns, Live
<1>3. /\ sess \in [Sessions -> Sess] /\ \A s \in Sessions : SessOK(sess[s])
      /\ connCount \in [Names -> Int] /\ connKeys \subseteq Names
  BY <1>2 DEF SessionInit, SessOK
<1>. QED
  BY <1>1, <1>3, SessInvParts
\* What a session reads from the registry is well typed: a resolved
\* namespace is a namespace object, a credential's namespace a name or nil.
LEMMA RegReads ==
    ASSUME RegTypeOK
    PROVE  /\ \A n \in Names : GetNamespace(n) # NoNs => GetNamespace(n) \in NsObj
           /\ \A c \in Creds : GetNamespaceByUser(c) \in Names \cup {NoNs}
<1>1. Current \in Slots
  BY DEF RegTypeOK, Current, Slots
<1>. QED
  BY <1>1 DEF RegTypeOK, GetNamespace, GetNamespaceByUser, UserSlot

\* A step of session s that changes its record to y, which is SessOK, and
\* leaves the registry and the counters alone, keeps the invariant.
LEMMA LocalStep ==
    ASSUME SessInv, NEW s \in Sessions, NEW y, SessOK(y),
           sess' = [sess EXCEPT ![s] = y],
           UNCHANGED <<regVars, connCount, connKeys>>
    PROVE  SessInv'
BY Update, SessInvParts

\* The handshake: nothing is stashed before Run, whatever the outcome.
LEMMA HandshakeSteps ==
    ASSUME SessInv, NEW s \in Sessions,
           HandshakeAuth(s) \/ HandshakeBadCollation(s) \/ HandshakeAdmit(s) \/ HandshakeReject(s)
    PROVE  SessInv'
<1>0. SessOK(sess[s]) /\ sess \in [Sessions -> Sess] /\ RegTypeOK
  BY SessInvParts
<1>1. ASSUME sess[s].pc \in {"new", "auth"}, NEW y \in Sess,
             y.pc \in {"auth", "run0", "exit"}, y.txConns = sess[s].txConns,
             y.ksConns = sess[s].ksConns, y.closed = sess[s].closed,
             y.pc = "run0" => y.ns \in Names
      PROVE  SessOK(y)
  <2>1. HoldsNone(sess[s])
    BY <1>0, <1>1 DEF SessOK
  <2>2. \A sl \in Slices : y.txConns[sl] = NoConn /\ y.ksConns[sl] = NoConn
    BY <1>1, <2>1 DEF HoldsNone, NoConns
  <2>. QED
    BY <1>1, <2>1, <2>2 DEF SessOK, HoldsNone, Live
<1>2. CASE HandshakeAuth(s)
  <2>1. PICK c \in Creds :
          \/ sess' = [sess EXCEPT ![s] = [sess[s] EXCEPT !.cred = c, !.pc = "auth"]]
          \/ sess' = [sess EXCEPT ![s] = [sess[s] EXCEPT !.cred = c, !.pc = "exit"]]
    BY <1>2 DEF HandshakeAuth
  <2>2. \A ph \in {"auth", "exit"} : SessOK([sess[s] EXCEPT !.cred = c, !.pc = ph])
    BY <1>0, <1>1, <1>2 DEF HandshakeAuth, Sess, Phases
  <2>. QED
    BY <2>1, <2>2, <1>2, LocalStep DEF HandshakeAuth
<1>3. CASE HandshakeBadCollation(s)
  <2>1. SessOK([sess[s] EXCEPT !.pc = "exit"])
    BY <1>0, <1>1, <1>3 DEF HandshakeBadCollation, Sess, Phases
  <2>. QED
    BY <1>3, <2>1, LocalStep DEF HandshakeBadCollation
<1>4. CASE HandshakeAdmit(s)
  <2> DEFINE n == GetNamespaceByUser(sess[s].cred)
  <2>1. n \in Names
    BY <1>0, <1>4, RegReads DEF HandshakeAdmit, SessOK, Sess
  <2>2. SessOK([sess[s] EXCEPT !.ns = n, !.cred = DefaultCred, !.pc = "run0"])
    BY <1>0, <1>1, <1>4, <2>1, Defaults DEF HandshakeAdmit, Sess, Phases
  <2>. QED
    BY <1>4, <2>2, LocalStep DEF HandshakeAdmit
<1>5. CASE HandshakeReject(s)
  <2> DEFINE n == GetNamespaceByUser(sess[s].cred)
  <2>1. n \in Names \cup {NoNs}
    BY <1>0, RegReads DEF SessOK, Sess
  <2>2. SessOK([sess[s] EXCEPT !.ns = n, !.pc = "exit"])
    BY <1>0, <1>1, <1>5, <2>1 DEF HandshakeReject, Sess, Phases
  <2>. QED
    BY <1>5, <2>2, LocalStep DEF HandshakeReject
<1>. QED
  BY <1>2, <1>3, <1>4, <1>5
\* A live session that moves to another phase of the loop, its
\* connection maps unchanged, stays well formed.
LEMMA PcMove ==
    ASSUME NEW x, SessOK(x), Live(x), NEW y \in Sess,
           Live(y), y.ns = x.ns, y.txConns = x.txConns,
           y.ksConns = x.ksConns, IsInTransaction(y) = IsInTransaction(x)
    PROVE  SessOK(y)
BY DEF SessOK, Live

\* Run's counter steps and the snapshot at the top of the loop.
LEMMA RunSteps ==
    ASSUME SessInv, NEW s \in Sessions,
           RunIncr(s) \/ RunStore(s) \/ Snapshot(s)
    PROVE  SessInv'
<1>0. SessOK(sess[s]) /\ sess \in [Sessions -> Sess] /\ RegTypeOK
      /\ connCount \in [Names -> Int] /\ connKeys \subseteq Names
  BY SessInvParts DEF SessInv, SessTypeOK
<1>1. CASE RunIncr(s)
  <2>1. sess[s].ns \in Names
    BY <1>0, <1>1 DEF RunIncr, SessOK, Live
  <2>2. \A p \in {"top", "store"} : SessOK([sess[s] EXCEPT !.pc = p])
    BY <1>0, <1>1, <2>1, PcMove DEF RunIncr, Sess, Phases, Live, IsInTransaction
  <2>3. connCount' \in [Names -> Int] /\ connKeys' \subseteq Names
    BY <1>0, <1>1, <2>1 DEF RunIncr
  <2>. QED
    BY <1>1, <2>2, <2>3, Update DEF RunIncr
<1>2. CASE RunStore(s)
  <2>1. sess[s].ns \in Names
    BY <1>0, <1>2 DEF RunStore, SessOK, Live
  <2>2. SessOK([sess[s] EXCEPT !.pc = "top"])
    BY <1>0, <1>2, <2>1, PcMove DEF RunStore, Sess, Phases, Live, IsInTransaction
  <2>3. connCount' \in [Names -> Int] /\ connKeys' \subseteq Names
    BY <1>0, <1>2, <2>1 DEF RunStore
  <2>. QED
    BY <1>2, <2>2, <2>3, Update DEF RunStore
<1>3. CASE Snapshot(s)
  <2>1. CASE sess[s].closed \/ NsGone(s)
    BY <1>3, <2>1, ExitStep DEF Snapshot
  <2>2. CASE ~(sess[s].closed \/ NsGone(s))
    <3>1. sess[s].ns \in Names
      BY <1>0, <1>3 DEF Snapshot, SessOK, Live
    <3>2. GetNamespace(sess[s].ns).changeIndex \in Nat
      BY <1>0, <2>2, <3>1, RegReads DEF NsGone, NsObj
    <3>3. PICK y \in Sess : y = [sess[s] EXCEPT !.snap = GetNamespace(sess[s].ns).changeIndex, !.pc = "read"]
      BY <1>0, <3>2 DEF Sess, Phases
    <3>4. SessOK(y)
      BY <1>0, <1>3, <2>2, <3>3 DEF Snapshot, SessOK, Live, IsInTransaction, HoldsNone
    <3>5. sess' = [sess EXCEPT ![s] = y] /\ UNCHANGED <<regVars, connCount, connKeys>>
      BY <1>3, <2>2, <3>3 DEF Snapshot
    <3>. QED
      BY <3>4, <3>5, LocalStep
  <2>. QED
    BY <2>1, <2>2
<1>. QED
  BY <1>1, <1>2, <1>3

\* Reading a packet (clearKsConns) and the end of the iteration.
LEMMA ReadWriteSteps ==
    ASSUME SessInv, NEW s \in Sessions,
           ReadPacket(s) \/ ReadError(s) \/ WriteOK(s) \/ WriteError(s) \/ SessionTimeout(s)
    PROVE  SessInv'
<1>0. SessOK(sess[s]) /\ sess \in [Sessions -> Sess]
  BY SessInvParts
<1>1. CASE ReadPacket(s)
  <2>1. CASE KsNsGone(s)
    BY <1>1, <2>1, ExitStep DEF ReadPacket
  <2>2. CASE ~KsNsGone(s)
    <3> DEFINE x == sess[s]
    <3>1. ClearKsConns(x) = x \/ ClearKsConns(x) = [x EXCEPT !.ksConns = NoConns]
      BY DEF ClearKsConns
    <3>2. Live(x) /\ x.ns \in Names
      BY <1>0, <1>1 DEF ReadPacket, SessOK, Live
    <3>3. SessOK([ClearKsConns(x) EXCEPT !.armed = TRUE, !.pc = "exec"])
      BY <1>0, <3>1, <3>2, Defaults DEF SessOK, Sess, Phases, Live, HoldsNone, IsInTransaction
    <3>. QED
      BY <1>1, <2>2, <3>3, LocalStep DEF ReadPacket
  <2>. QED
    BY <2>1, <2>2
<1>2. CASE ReadError(s) \/ WriteError(s)
  BY <1>2, ExitStep DEF ReadError, WriteError
<1>3. CASE WriteOK(s)
  <2> DEFINE c == \/ sess[s].cmd = "quit"
                  \/ KsNsGone(s) /\ IsInTransaction(sess[s])
                  \/ ShouldClearKsAndCloseSession(sess[s])
  <2>1. CASE c
    <3>1. Exit(s, sess[s]) /\ UNCHANGED regVars
      BY <1>3, <2>1 DEF WriteOK
    <3>. QED
      BY <3>1, ExitStep
  <2>2. CASE ~c
    <3>0. sess[s] \in Sess
      BY <1>0
    <3>1. PICK y \in Sess : y = [sess[s] EXCEPT !.pc = "top", !.cmd = "query"]
      BY <3>0 DEF Sess, Phases, Cmds
    <3>2. SessOK(y)
      BY <1>0, <1>3, <3>1 DEF WriteOK, SessOK, Live, IsInTransaction, HoldsNone
    <3>3. sess' = [sess EXCEPT ![s] = y] /\ UNCHANGED <<regVars, connCount, connKeys>>
      BY <1>3, <2>2, <3>1 DEF WriteOK
    <3>. QED
      BY <3>2, <3>3, LocalStep
  <2>. QED
    BY <2>1, <2>2
<1>4. CASE SessionTimeout(s)
  <2>1. SessOK(Close(sess[s]))
    BY <1>0, <1>4, Defaults DEF SessionTimeout, Close, SessOK, Sess, Live, HoldsNone, NoConns
  <2>. QED
    BY <1>4, <2>1, LocalStep DEF SessionTimeout
<1>. QED
  BY <1>1, <1>2, <1>3, <1>4
\* execCommand: the reload veto, a query that acquires a backend
\* connection, the backend's answer, the local commands and the panic.
LEMMA ExecSteps ==
    ASSUME SessInv, NEW s \in Sessions,
           ExecTxNsChanged(s) \/ ExecQuery(s) \/ QueryDone(s) \/ ExecLocal(s) \/ ExecPanic(s)
    PROVE  SessInv'
<1>0. SessOK(sess[s]) /\ sess[s] \in Sess /\ RegTypeOK
  BY SessInvParts
<1>1. CASE ExecTxNsChanged(s)
  <2>1. PICK c \in {"query", "quit"} : sess' = [sess EXCEPT ![s].cmd = c, ![s].pc = "write"]
    BY <1>1 DEF ExecTxNsChanged
  <2>2. PICK y \in Sess : y = [sess[s] EXCEPT !.cmd = c, !.pc = "write"]
    BY <1>0 DEF Sess, Phases, Cmds
  <2>3. SessOK(y)
    BY <1>0, <1>1, <2>2 DEF ExecTxNsChanged, SessOK, Live, IsInTransaction, HoldsNone
  <2>4. sess' = [sess EXCEPT ![s] = y] /\ UNCHANGED <<regVars, connCount, connKeys>>
    BY <1>1, <2>1, <2>2 DEF ExecTxNsChanged
  <2>. QED
    BY <2>3, <2>4, LocalStep
<1>2. CASE ExecQuery(s)
  <2>1. PICK sl \in Slices :
          sess' = [sess EXCEPT ![s] = [Acquire([sess[s] EXCEPT !.cmd = "query", !.stmtSlice = sl],
                                               GetNamespace(sess[s].ns).gen) EXCEPT !.pc = "run"]]
    BY <1>2 DEF ExecQuery
  <2>2. sess[s].pc = "exec" /\ sess[s].ns \in Names
    BY <1>0, <1>2 DEF ExecQuery, SessOK, Live
  <2>3. PICK g \in Gens : g = GetNamespace(sess[s].ns).gen
    BY <1>0, <1>2, <2>2, RegReads DEF ExecQuery, NsGone, NsObj
  <2>4. PICK x \in Sess : x = [sess[s] EXCEPT !.cmd = "query", !.stmtSlice = sl]
    BY <1>0 DEF Sess, Cmds
  <2>5. /\ x.pc = "exec" /\ x.ns \in Names
        /\ x.txConns = sess[s].txConns /\ x.ksConns = sess[s].ksConns
        /\ IsInTransaction(x) = IsInTransaction(sess[s])
    BY <2>2, <2>4 DEF IsInTransaction
  <2>6. PICK y \in Sess : y = [Acquire(x, g) EXCEPT !.pc = "run"]
    <3>1. x.txConns \in ConnMap /\ x.ksConns \in ConnMap /\ x.stmtSlice = sl
      BY <2>4 DEF Sess
    <3>2. /\ [x.txConns EXCEPT ![sl] = IF @ = NoConn THEN g ELSE @] \in ConnMap
          /\ [x.ksConns EXCEPT ![sl] = IF @ = NoConn THEN g ELSE @] \in ConnMap
      BY <2>3, <3>1 DEF ConnMap
    <3>3. Acquire(x, g) \in Sess
      BY <2>4, <3>1, <3>2 DEF Acquire, Sess
    <3>. QED
      BY <3>3 DEF Sess, Phases
  <2>7. SessOK(y)
    <3>1. CASE IsInTransaction(x)
      BY <1>0, <2>5, <2>6, <3>1 DEF Acquire, SessOK, Live, IsInTransaction, HoldsNone
    <3>2. CASE ~IsInTransaction(x)
      BY <1>0, <2>5, <2>6, <3>2 DEF Acquire, SessOK, Live, IsInTransaction, HoldsNone
    <3>. QED
      BY <3>1, <3>2
  <2>8. sess' = [sess EXCEPT ![s] = y] /\ UNCHANGED <<regVars, connCount, connKeys>>
    BY <1>2, <2>1, <2>3, <2>4, <2>6 DEF ExecQuery
  <2>. QED
    BY <2>7, <2>8, LocalStep
<1>3. CASE QueryDone(s)
  <2>1. PICK y \in Sess : y = [sess[s] EXCEPT !.pc = "write", !.stmtConn = "plain",
                                              !.stmtSlice = DefaultSlice]
    BY <1>0, Defaults DEF Sess, Phases
  <2>2. SessOK(y)
    BY <1>0, <1>3, <2>1 DEF QueryDone, SessOK, Live, IsInTransaction, HoldsNone
  <2>3. sess' = [sess EXCEPT ![s] = y] /\ UNCHANGED <<regVars, connCount, connKeys>>
    BY <1>3, <2>1 DEF QueryDone
  <2>. QED
    BY <2>2, <2>3, LocalStep
<1>4. CASE ExecLocal(s)
  <2>1. PICK c \in Cmds \ {"query"} :
          sess' = [sess EXCEPT ![s] = [ExecuteLocal([sess[s] EXCEPT !.cmd = c]) EXCEPT !.pc = "write"]]
    BY <1>4 DEF ExecLocal
  <2>2. sess[s].ns \in Names
    BY <1>0, <1>4 DEF ExecLocal, SessOK, Live
  <2>3. PICK x \in Sess : x = [sess[s] EXCEPT !.cmd = c]
    BY <1>0 DEF Sess, Cmds
  <2>4. PICK y \in Sess : y = [ExecuteLocal(x) EXCEPT !.pc = "write"]
    <3>1. x.cmd = c
      BY <2>3
    <3>2. ExecuteLocal(x) \in Sess
      <4>1. CASE c \in {"begin", "autocommit0"}
        BY <2>3, <3>1, <4>1 DEF ExecuteLocal, Sess
      <4>2. CASE c \in {"commit", "rollback", "quit", "autocommit1"}
        BY <2>3, <3>1, <4>2, Defaults DEF ExecuteLocal, HandleSetAutoCommitOn, Sess
      <4>. QED
        BY <4>1, <4>2 DEF Cmds
    <3>. QED
      BY <3>2 DEF Sess, Phases
  <2>5. SessOK(y)
    <3>1. CASE c \in {"begin", "autocommit0"}
      BY <1>0, <2>2, <2>3, <2>4, <3>1 DEF ExecuteLocal, SessOK, Live, IsInTransaction, HoldsNone
    <3>2. CASE c \in {"commit", "rollback", "quit", "autocommit1"}
      BY <1>0, <2>2, <2>3, <2>4, <3>2 DEF ExecuteLocal, HandleSetAutoCommitOn, SessOK, Live,
                                             IsInTransaction, HoldsNone, NoConns
    <3>. QED
      BY <3>1, <3>2 DEF Cmds
  <2>6. sess' = [sess EXCEPT ![s] = y] /\ UNCHANGED <<regVars, connCount, connKeys>>
    BY <1>4, <2>1, <2>3, <2>4 DEF ExecLocal
  <2>. QED
    BY <2>5, <2>6, LocalStep
<1>5. CASE ExecPanic(s)
  BY <1>5, ExitStep DEF ExecPanic
<1>. QED
  BY <1>1, <1>2, <1>3, <1>4, <1>5
\* Every step of the proxy, an admin step or a session step, keeps SessInv.
LEMMA SessStep == SessInv /\ [SessionNext]_vars => SessInv'
<1> SUFFICES ASSUME SessInv, [SessionNext]_vars PROVE SessInv'
  OBVIOUS
<1>1. CASE AdminNext /\ UNCHANGED sessVars
  <2>1. RegTypeOK' /\ AdmOK'
    BY <1>1, TypeStep DEF SessInv, TypeInv
  <2>. QED
    BY <1>1, <2>1 DEF SessInv, sessVars, SessTypeOK, TxConnsImplyInTrans
<1>2. ASSUME NEW s \in Sessions, SessionStep(s) PROVE SessInv'
  BY <1>2, HandshakeSteps, RunSteps, ReadWriteSteps, ExecSteps DEF SessionStep
<1>3. CASE UNCHANGED vars
  BY <1>3 DEF SessInv, vars, regVars, sessVars, RegTypeOK, AdmOK, SessTypeOK,
              TxConnsImplyInTrans, Current
<1>. QED
  BY <1>1, <1>2, <1>3 DEF SessionNext

\* SessInv holds in every state the proxy reaches, whatever the number of
\* sessions, slices and namespaces.
THEOREM SessInvHolds == SessionSpec => []SessInv
BY SessInitHolds, SessStep, PTL DEF SessionSpec

\* Every session record is well typed and the connection statistics map
\* names to integers (Session, executor and statistics state).
THEOREM SessTypeCorrect == SessionSpec => []SessTypeOK
<1>1. SessInv => SessTypeOK
  BY DEF SessInv
<1>. QED
  BY SessInvHolds, <1>1, PTL

\* Every backend connection stashed in txConns belongs to an open
\* transaction: handleSetAutoCommit, commit, rollback and Close recycle
\* them whenever the session leaves the transaction.
THEOREM TxConnsImplyInTransHolds == SessionSpec => []TxConnsImplyInTrans
<1>1. SessInv => TxConnsImplyInTrans
  BY DEF SessInv
<1>. QED
  BY SessInvHolds, <1>1, PTL

=============================================================================
