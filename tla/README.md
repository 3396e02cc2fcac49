# Formal model of the Gaea proxy core

TLA+ modules, TLC configurations and TLAPS proofs for the Gaea MySQL
proxy: the session and namespace-registry core (`src/unnamed/part_000`), the
session executor (`src/proxy/server/executor_handle.go`), the log rotator
(`src/log/xlog/file.go`), the buffer pool (`src/util/bucketpool`), the admin
server's lifecycle (`src/cc/server.go`) and the file configuration client
(`src/models/file/file.go`). Run everything from this directory:
`tlasany M.tla`, `tlc -workers 2 -config X.cfg MCM`, `tlapm RegistryProofs.tla` (likewise `ExecutorProofs.tla`, `SessionProofs.tla`, `XFileLogProofs.tla`, `XFileLogCleanProofs.tla`, `BucketPoolProofs.tla`, `LeastNumber.tla`).

## The system and its parts

* **Namespace registry** (`Manager`, `NamespaceManager`). It has two slots,
  `namespaces[2]` and `users[2]`. A `BoolIndex` (`switchIndex`) selects the
  current slot. Readers (`GetNamespace`, `GetNamespaceByUser`, `CheckPassword`)
  read the current slot without locks.
  * `ReloadNamespacePrepare` builds the other slot from a shallow copy of the
    current one. It rebuilds one namespace with `namespaceChangeIndex = old+1`
    (old = 0 if absent) and sets `reloadPrepared` with a plain `Set(true)`.
  * `ReloadNamespaceCommit` needs a CAS `true→false` on `reloadPrepared`. It
    then closes the current object of the name and flips `switchIndex`.
  * `DeleteNamespace` writes the other slot and flips the index itself.
  * Admin requests arrive from the HTTP handlers of `src/cc/server.go`, one
    goroutine per request and no lock, so they may run concurrently.
* **User manager** (`UserManager`). It has two maps: user → passwords, and
  user+password → namespace. It is cloned and rebuilt inside the same
  prepare and delete steps.
* **Session**. One goroutine per client:
  * `Handshake` and `handleHandshakeResponse`: authentication, collation, the
    namespace lookup, `IsAllowConnect` and `clientConnectionReachLimit`.
  * `Run`: increments the connection counter, then loops. Each iteration
    snapshots `namespaceChangeIndex`, reads a packet, registers with the
    timeout wheel, runs `clearKsConns`, then `execCommand`, then
    `writeResponse`, then does the quit / `shouldClearKsAndCloseSession`
    check.
  * The deferred exit: `Close`, then decrement the counters.
  * The **timeout wheel** calls `Session.Close` from its own goroutine.
  * `Close` rolls back, which recycles the transaction connections
    (`txConns`), and runs `handleKsQuit`, which recycles the keep-session
    connections (`ksConns`).
* **Connection statistics**: `IncrConnectionCount` and `DescConnectionCount`
  on a `sync.Map` of per-namespace atomic counters.
* **Session executor** (`executor_handle.go`). It serves one session's
  commands. `handleQuery` applies the namespace's QPS limiter, then runs
  `doMultiStmts` or `doQuery`. `doQuery` calls `checkSQLAllowed`, then
  either `handleQueryWithoutPlan` (SET, BEGIN, COMMIT, ROLLBACK, LOCK, USE)
  or `getPlan` and the plan's execution. Backend connections come from the
  slices' pools through `getBackendConn`. In a transaction they are kept in
  `txConns`; for a keep-session namespace they are kept in `ksConns`.
  `handleSetAutoCommit` and `Close` give them back. `handleKeepSessionPing`
  would too, but nothing in the repository calls it.
  `handleStmtPrepare` and `handleStmtClose` keep a table keyed by a 32-bit
  `stmtID`.
* **Log rotator** (`XFileLog`). Writers of every level write through
  `p.file` and `p.errFile`. A `spliter` goroutine wakes periodically. It
  runs `clean`, which keeps `logKeepCounts` files per kind and removes files
  older than `keepDays`. When the hour changes, it cleans again and runs
  `rename`, which moves the files aside and calls `ReOpen`. `ReOpen`
  `delayClose`s the old handles (closed after one second) and opens new
  ones. `Close` cancels the spliter, which closes the handles.
* **Buffer pool** (`bucketpool`). It is a list of `sync.Pool`s of sizes
  `minSize·2^i`, the last one capped at `maxSize`. `findPool` computes a
  bucket index with `bits.Len64`. `Get` reslices the buffer it returns, and
  `Put` files a buffer under its capacity.
* **Admin server lifecycle** (`cc.Server`). `Run` starts a serve goroutine
  and waits on `exitC` or on that goroutine's error channel. `Close` sends
  on `exitC`. Both channels are unbuffered.
* **File configuration client** (`models/file`). `List` lists a directory
  without subdirectories and without `..data`. `ListWithValues` reads every
  entry of that directory.

## Modules

| module | models | state |
|---|---|---|
| `Registry` | Manager, NamespaceManager, UserManager | `switchIndex`, `namespaces[0..1]`, `users[0..1]`, `reloadPrepared`, plus two history variables: `nextGen` (objects created per name) and `retired` (objects whose `Close(true)` started) |
| `RegistryAbstract` | what readers are promised: one map name → (object, change index) and one credential → namespace map, replaced atomically | `reg`, `auth` |
| `Session` (EXTENDS Registry) | handshake, Run loop, Close, timeout wheel, connection counter, `handleSetAutoCommit`, and BEGIN/COMMIT/ROLLBACK and backend acquisition from spec 4.8 (`executor.go` is not in the repository) | `sess[s]` records (`pc`, cred, ns, snap, cmd, inTrans, autocommit, txConns, ksConns, stmtConn, …), `connCount`, `connKeys` |
| `RegistryProofs`, `ExecutorProofs`, `SessionProofs`, `XFileLogProofs`, `BucketPoolProofs` | TLAPS proofs about `Registry`, `Executor`, `Session`, `XFileLog` and `BucketPool` | — |
| `Executor` | `handleQuery`, `doMultiStmts`, `doQuery`, `checkSQLAllowed`, `handleQueryWithoutPlan`, `handleUseDB`, `getPlan` failure, `handleSet`, `handleSetVariable`, `handleSetAutoCommit`, `handleFieldList`, `handleKeepSessionPing`, `Session.Close`, over a shared backend pool | `ex[s]` records (autocommit, inTrans, txConns, ksConns, db, varsSet, pieces, closed, err), `idle[c]`, `tokens` |
| `ExecutorStmts` | `handleStmtPrepare`, `handleStmtClose` with the wrapping `stmtID` | `stmtID`, `stmts`, `prepared`, `client` (statements the client holds) |
| `XFileLog` | `Init`, `spliter`, `clean`, `rename`, `ReOpen`, `delayClose`, `write`, `Close` | current handles, open handles, rotated files, the hour, writer states |
| `BucketPool` | `New`, `findPool`, `Get`, `Put`, and the GC emptying a `sync.Pool` | `minSize`, `maxSize`, bucket contents, buffers held |
| `CCServer` | `Run`, `Close`, the serve goroutine | Run's and the goroutine's positions, the listener, callers of Close |
| `FileConfig` | `Read`, `List`, `ListWithValues` over a changing directory | the directory, the last load |
| `MCRegistry`, `MCSession`, `MCExecutor`, `MCXFileLog` | model values and constants for TLC | — |

How the newer modules represent the code:

* **Executor.** The session's phase (`Idle`: waiting for a packet;
  `Running`: a command in progress) follows `Session.Run`. A command is one
  action per handler. The whole handler is one step, including `Finish`,
  which models `doMultiStmts`: an error or the last piece writes the
  result, and a failed intermediate write closes the session. Connections
  are model values per slice. `idle[c]` counts the pool's copies of `c`, so
  a double recycle shows as 2. SET lists are sequences of 1 or 2
  assignments drawn from six outcome kinds of `handleSetVariable`.
* **ExecutorStmts.** `StmtIDWidth` is the width of `stmtID` (32 in the
  code, 2 in the run), so the wrap is reached in four prepares.
* **XFileLog.** A file is a handle number or a (kind, hour) rotated file.
  Contents and formatting are abstracted away. A writer loads the handle in
  `WriteStart` and writes in `WriteDone`, because the code reads `p.file`
  without a lock. `filepath.Glob`'s sorted result is `GlobSorted`: its
  i-th name is the file with i-1 names before it in the glob order
  (`GlobRank`). A sort with TLC's `SortSeq` would give the same sequence,
  but the provers cannot open `SortSeq`'s definition.
* **BucketPool.** `minSize` and `maxSize` are chosen in `Init`, so one run
  covers every configuration in range. A buffer is `[cap, len]`.
  `bits.Len64` is a recursive function, `BitLen`. The doubling
  `curSize *= multiplier` of `New` is the recursive function `Pow2`.
  It is used instead of `2^i`, which the provers cannot compute with.
* **CCServer.** Channel sends and receives are rendezvous steps. The
  listener is open or closed. `ServeFails` models Serve returning on its
  own, and `ServeSeesClose` models it returning because Run's deferred
  `listener.Close` ran.

How the model represents the code:

* **Namespace objects.** A `Namespace` object is the record
  `[gen, changeIndex]`. `gen` is its identity (the n-th object built for that
  name). Pools, routers and policies are abstracted away. "Object closed"
  becomes membership in `retired`.
* **Passwords.** Credentials are `<<user, password>>` pairs, and the three
  password schemes become plain membership.
* **Admin actions.** The admin handlers come in two forms.
  * `SerialAdmin = TRUE` (with `Admins = {}`): each handler is one atomic
    action, and an admin action is allowed only when no prepare is
    outstanding (`AdminIdle`). This is how the code is meant to be driven,
    one request at a time. With nobody else writing, running a handler's
    statements one after another gives the same states as one step.
  * `SerialAdmin = FALSE`: each goroutine of `Admins` runs the handlers one
    statement at a time, as the unlocked HTTP handlers allow.
    `adm[a]` holds the goroutine's locals: the phase, the name, the
    `current` it read, the manager it built, and the object it holds.
    Every `Get`, slot write, `Set`/CAS and `go Close(true)` of
    `ReloadNamespacePrepare` (lines 618-650), `ReloadNamespaceCommit`
    (654-670) and `DeleteNamespace` (674-701) is its own action
    (`PrepareGetIndex` ... `DeleteCloseOld`).
  * `Close(true)` drains the pools in the background, so a commit's old
    object counts as retired at the commit's switch (`CommitSwitch`), not
    at the `go` statement before it.
* **Session program counter.** A session's `pc` follows the blocking points
  of `Run`: `new → auth → run0 → (store) → top → read → exec → run → write
  → top … → exit`. `run` is the backend round trip of a query, during which
  an admin commit or the timeout wheel can interleave.
* **Connections.** A backend connection is the `gen` of the namespace object
  whose pool it came from.
* **Commands.** The client command and the slice are chosen at `exec` from
  small sets (`Cmds`, `Slices`).

## Runs

| run | cfg | result | shows |
|---|---|---|---|
| registry_serial | MCRegistry.cfg | pass, 7296 states | `ActiveNeverRetired`, the proof invariant `IInv`, the refinement `RegistryRefines` and `ChangeIndexGrows` hold when admin is serial |
| registry_concurrent | MCRegistryConcurrentOK.cfg | pass, 131657 states | two admin goroutines interleaved statement by statement: the registry stays well typed (`RegTypeOK`) and the user maps stay consistent (`PasswordsMatchKeys`) |
| registry_concurrent_admin | MCRegistryConcurrent.cfg | violation of `ActiveNeverRetired` | prepare(n1), delete(n1), commit: the commit switches back to the slot that holds the object the delete closed |
| session | MCSession.cfg | pass, about 2.5M states | two sessions, hot reload and delete, the timeout wheel: `SessTypeOK`, `TxConnsImplyInTrans` |
| session_reload_window | MCSessionReloadWindow.cfg | violation of `StatementsUseCurrentNamespace` | a reload committed during a statement is never noticed |
| session_timeout_in_use | MCSessionTimeout.cfg | violation of `StashedConnHeldWhileInUse` | the timeout wheel recycles a connection in use |
| xfilelog | MCXFileLog.cfg | pass, 526488 states | two writers, two hourly rotations, delayed closes: no writer writes to a closed handle (`CurrentHandlesLive`), `clean` only removes older rotated files of a kind (`CleanKeepsNewest`), and after `Close` every handle opened is eventually closed (`HandlesReleased`) |
| xfilelog_open_failure | MCXFileLogOpenFail.cfg | violation of `CurrentHandlesLive` | `ReOpen` failing on the `.wf` file leaves the writers on closed or nil handles |
| executor | MCExecutor.cfg | pass, 202152 states | two sessions with every feature on: each backend connection has exactly one owner (`PoolConserved`) |
| executor_failed_set | MCExecutorSet.cfg | violation of `FailedSetChangesNothing` | a failing SET list leaves its earlier assignments applied |
| bucketpool | MCBucketPool.cfg | pass, 7160 states | `findPool` returns the smallest fitting bucket (`FindPoolIsSmallestFit`), and `Get` stays within capacity (`GetWithinCap`) |
| ccserver_close_hang | MCCCServerCloseHang.cfg | violation of `CloseReturns` | Close after Serve failed blocks forever |

Further configurations sit beside these runs. Each asks a narrower
question, and each was checked with the result shown:

| cfg | module | result | shows |
|---|---|---|---|
| MCRegistryInitFailure.cfg | MCRegistry | violation of `UserNamespaceExists` | a namespace that fails to build at start-up keeps its users |
| MCRegistryConcurrentIndex.cfg | MCRegistry | violation of `ChangeIndexGrows` | a prepare that read slot 0 before another request's commit writes the now-live slot: the object is replaced by one with the same `namespaceChangeIndex` |
| MCSessionConnCap.cfg | MCSession | violation of `ConnCapRespected` | two concurrent handshakes both pass a cap of 1 |
| MCSessionTimeoutLeak.cfg | MCSession | violation of `ExitedSessionHoldsNoConns` | the timeout's `Close` runs at `execCommand`; the statement then stashes a keep-session connection that the exiting Run never returns |
| MCExecutorPing.cfg | MCExecutor (`SpecWithPing`) | violation of `PoolConserved` | a failed `handleKeepSessionPing` recycles the keep-session connections but leaves them in `ksConns` |
| MCExecutorStmts.cfg | ExecutorStmts | violation of `OpenStmtsResolve` | the wrapped `stmtID` replaces an open statement |
| MCBucketPoolForeign.cfg | BucketPool | violation of `GetWithinCap` | a `Put` of a capacity between bucket sizes makes a later `Get` reslice past it |
| MCCCServer.cfg | CCServer | pass, 112 states | Run returns and the listener closes once Close is called or Serve fails (`RunStops`) |
| MCCCServerLeak.cfg | CCServer | violation of `ServeGoroutineEnds` | after Run returns on exit, the serve goroutine blocks forever |
| MCFileConfig.cfg | FileConfig | violation of `ListingsAgree` | `ListWithValues` fails on a directory that `List` lists without error |

The violations of the listed runs are recorded as findings in
`PROJECT.json`, with the source lines involved. Those of the further
configurations are recorded as hazards with a note.

**Bounds.**
* Registry runs:
  * serial: two names, one user with two passwords;
  * `MaxReload = 2` objects per name beyond the initial one. That is enough
    for two outstanding prepares, and for a delete and a re-create;
  * concurrent: two admin goroutines (symmetric), one name, one
    configuration per password, `MaxReload = 2`. Every race between two
    handlers is a race on one name, and two objects per name let a
    prepare, a delete and a re-create overlap.
* Session runs:
  * two sessions (symmetric, so `SYMMETRY` over them), one namespace, one
    slice;
  * `MaxReload = 1`: one reload or one delete-and-recreate per run;
  * `MaxClientConns = 2`, or 1 in the cap run.

  Every interleaving named in the findings needs two actors and one reload,
  which these bounds contain.
* Executor runs:
  * two sessions, two slices with one connection each;
  * `MaxTokens = 1` in the limiter, and `MaxPieces = 2` statements in a
    multi-statement query.

  Two sessions contend for a single connection per slice, so every path
  that fails to recycle or recycles twice shows up as a count other than 1.
* XFileLog runs:
  * two writers;
  * three hours, so there are two rotations;
  * `KeepCounts = 1`, so `clean` removes files;
  * `MaxHandles = 6`: the two initial handles and two per rotation.
* BucketPool: `minSize ∈ {1,2,3}` and `maxSize ≤ 9`. This covers exact
  powers of two, sizes between them and a capped last bucket. Two buffers
  are held at once.
* CCServer: up to three Close calls and five accepted connections.
* ExecutorStmts: width 2 and five prepares, one more than the id space.

**Fairness.** The registry, session and executor runs check safety only.
Whether a session ever ends depends on a client or a timeout that the
proxy does not control.

The liveness properties (`HandlesReleased`, and `RunStops` and
`ServeGoroutineEnds` of the further configurations) assume weak fairness only for steps that a runnable
goroutine takes by itself, which Go's scheduler guarantees:
* XFileLog: the spliter's tick, rename and exit, each `delayClose`
  goroutine, a writer finishing its write, and the clock.
* CCServer: Run starting, Serve returning after the listener is closed,
  and Run receiving on a channel that has a sender.

Steps driven by callers are not fair: `Close`, a client connecting, and
Serve failing on its own.

## Proofs

Seven modules hold the theorems: `RegistryProofs`, `ExecutorProofs`,
`SessionProofs`, `XFileLogProofs`, `XFileLogCleanProofs`,
`BucketPoolProofs` and `LeastNumber`. Each proof module EXTENDS its
component and TLAPS. `LeastNumber` holds two facts about naturals that the
induction proofs share: a non-empty set of naturals has a least element
(`MinCounter`), and a non-empty subset of `0..k` has a largest one
(`MaxCounter`). Each theorem holds
for every value of the constants that satisfies the module's ASSUME
(`RegistryAssumption`, `ExecutorAssumption`, `SessionAssumption`,
`XFileLogAssumption`, `BucketPoolAssumption`). It does not
depend on the small values of the MC modules.

### RegistryProofs (namespace and user managers)

* `TypeCorrect`: `RegistrySpec => []RegTypeOK`, with serial or
  statement-by-statement admin. It goes through `TypeInv`, which adds
  `AdmOK`: a running goroutine holds a name, and from its read on a delete
  holds a namespace object.
* `IInvHolds`, `ActiveNeverRetiredHolds` and `ChangeIndexGrowsHolds` are
  stated under the hypothesis `SerialAdmin`. `ActiveNeverRetired` does not
  hold without it (see registry_concurrent_admin).
* `PasswordsMatchKeysHolds`: `RegistrySpec => []PasswordsMatchKeys`. It needs
  no hypothesis, so it holds with concurrent admin calls too.
  `SerialAdmin` implies `Admins = {}` (`RegistryAssumption`), and the
  lemma `SerialSteps` reduces a serial step to an atomic handler.

`ActiveNeverRetired` is not inductive by itself. A prepare changes only the
other slot, and the following commit retires the current object, so the proof
needs to know what the other slot holds. The strengthening is `IInv`:
* `reloadPrepared` holds exactly when one prepare for a name `m` is
  outstanding.
* The other slot is then the current slot with `m` replaced by a fresh object
  (`gen = nextGen[m]-1`, `changeIndex = old+1`). This is `PreparedSlot`.
* Every retired object of a name is older than the object that readers
  resolve now.

TLC checks `IInv` in registry_serial.

`PasswordsMatchKeys` speaks only of the current slot. A switch makes the
other slot current, so the proof strengthens it to `BothPwMatch`, which
states it for both slots. `ClearNamespaceUsers` and `AddNamespaceUsers` each
keep it (lemmas `ClearKeepsPwMatch`, `AddKeepsPwMatch`, `RebuildKeepsPwMatch`).
Both rebuild the password list and the key map of the same users together.
With concurrent admin a goroutine carries a built user manager between
`PrepareBuildUsers` and `PrepareSetUsers`, so `PwInv` also states it of
every goroutine's `usSlot`.

`RegistryRefinesHolds`: `SerialAdmin => (RegistrySpec => RegistryRefines)`.
The refinement mapping is the one the run checks: `reg` is the current
namespace slot and `auth` is the current user map. The proof shows two
things:
* `CreateManager` maps to `Abs!Init` (`RefineInit`);
* every admin step maps to an abstract step or a stutter (`RefineStep`).

The step cases are:
* a prepare writes only the other slots, so it stutters;
* a commit switches to the prepared slots, which is one `Abs!Reload`. Its
  fresh generation is `nextGen[n]-1`, which `PreparedSlot` puts above the
  replaced object's;
* a delete is one `Abs!Delete`;
* the failed and idempotent calls change nothing.

The commit case also needs the prepared user map. `PreparedUsers(m)`
says that the other slot's `userNamespaces` is the current one with `m`'s
credentials rebound (`Abs!Rebind`). The invariant `RefInv` is `IInv` together
with `PreparedUsers`. TLC checked `RefInv` on the registry_serial instance
before the proof.

### XFileLogProofs (log rotation)

* `LogInvHolds`, `CurrentHandlesLiveHolds` and `LogTypeCorrect` are stated
  under the hypothesis `~OpenMayFail`. With a failed open, `ReOpen` hands the
  current handle to `delayClose` and keeps it, and xfilelog_open_failure
  shows `CurrentHandlesLive` violated.

`LogInv` strengthens `CurrentHandlesLive` with two facts:
* `cancelled => closeCalled`: only `Close` cancels the spliter, so the
  spliter's deferred `Close` never nils the handles first;
* every handle that is open, delayed or current is below `nextH`. The pair
  that `ReOpen` opens is therefore fresh: neither open before nor delayed.

TLC checked `LogInv` on the xfilelog instance before the proof.

### ExecutorProofs (connection pool and session executor)

* `PoolInvHolds`: `Spec => []PoolInv`.
* `PoolConservedHolds`: `Spec => []PoolConserved`.
* `ExecTypeCorrect`: `Spec => []ExecTypeOK`.

`PoolConserved` counts holders with `Cardinality`, and no single step
preserves that count in an obvious way. `PoolState` restates it without
counting:
* a connection is idle (`idle[c] = 1`) exactly when no stash slot holds it;
* at most one slot holds it;
* every slot holds a connection of its own slice.

The lemma `PoolStateConserved` derives the count from `PoolState`.

Every step is then one of three moves, each with a lemma:
* `Acquire`: take an idle connection into an empty slot;
* `Release` / `RecycleInto`: return a stashed connection to idle;
* `Keep`: leave a slot alone.

The theorems are about `Spec`, the executor's handlers that the code calls.
`handleKeepSessionPing` is outside it: it does not conserve the pool
(MCExecutorPing.cfg), and nothing calls it.

`PoolState` alone is not inductive. A session closed by `SessionClose` could
still acquire while a statement is running. `ClosedReleased` closes that gap:
a closed session runs no statement and holds nothing.

`HandleSet` is written as two applications of the non-recursive `SetStep`
rather than as a recursive operator. A RECURSIVE operator would put the
module out of the SMT backend's reach. Every SET list the model sends has
one or two assignments.

### SessionProofs (Session.Run and the executor's stash)

* `SessInvHolds`: `SessionSpec => []SessInv`.
* `SessTypeCorrect` and `TxConnsImplyInTransHolds` follow from it. These
  are the two properties of the session run.

`SessInv` is a per-session invariant `SessOK` plus the registry's type, and
it holds for these reasons:
* a session past the handshake (`Live`) has its namespace in `Names`, so
  `KeepSession[ns]` and `GetNamespace(ns)` are defined;
* nothing is stashed before Run;
* a session that stashes a transaction connection is in a transaction.

A closed session may acquire again: the timeout wheel's `Close` can run at
`top` or `exec`, before the statement stashes. So `ExitedSessionHoldsNoConns`
does not hold (MCSessionTimeoutLeak.cfg) and is not proved.

Each session action keeps `SessOK` of its own session and leaves the others
alone (lemma `Update`). Every way out of the loop goes through `Exit`, which
applies `Close` (lemma `ExitStep`). Admin steps change only the registry, and
`TypeStep` keeps its type.

`SessionAssumption` requires non-empty `Slices`, `Users` and `Passwords`.
Without them the `CHOOSE` defaults of `InitSess` are not members of their
types.

### BucketPoolProofs (bucket pool)

* `FindPoolIsSmallestFitHolds`: `Spec => []FindPoolIsSmallestFit`, for
  every `minSize >= 1` and every `maxSize` from `minSize` up to
  `MaxSizeBound`.
* `BufferInvHolds` and `GetWithinCapHolds`: under `ForeignCaps = {}`,
  `Spec => []BufferInv` and `Spec => []GetWithinCap`. The hypothesis is
  needed: `MCBucketPoolForeign.cfg` shows `GetWithinCap` failing when a
  buffer of a capacity between two pool sizes is Put.

**Method.** The library's induction theorems take an operator parameter,
which the provers cannot instantiate. Every induction here is instead a
minimal counterexample. `MinCounter` says a non-empty set of naturals has
a least element; it is `WFMin` applied to `NatLessThanWellFounded`. The
same argument proves that the definitions of `Pow2` and `BitLen` have
solutions (`PowExists`, `BitExists`), so they can be unfolded (`PowUnfold`,
`BitUnfold`).

**Lemmas.**
* `Pow2` is positive and strictly increasing (`PowFacts`, `PowMono`).
* For `n >= 1`, `Pow2[BitLen[n] - 1] <= n < Pow2[BitLen[n]]`
  (`BitFacts`).
* `New` makes `LastPool + 1` pools, where `LastPool` is the first `i` with
  `minSize * Pow2[i] >= maxSize` (`PoolCount`). The count is
  `Cardinality` of an interval, so this uses `FS_Interval`.
* The pool sizes strictly increase (`PoolSizes`).

**Argument.**
* `FindPoolFits`: `findPool(size)` names a pool whose size is at least
  `size`, while every earlier pool is smaller. There are two cases: an
  exact `minSize * 2^k`, and everything else, where
  `minSize * 2^(b-1) < size <= minSize * 2^b` for `b = bits.Len64(div)`.
* Strict increase makes that pool unique, so it is `SmallestFit`.
* `BufferInv` strengthens `GetWithinCap`:
  * a pool holds only buffers of its own size;
  * every held buffer is a fresh slice above `maxSize` or has a pool's size.
* `FindPoolOfPoolSize` (findPool of a pool's size is that pool) shows that
  `Put` returns each buffer to the pool it came from.
* TLC checked `BufferInv` on the bucketpool instance before the proof.

### XFileLogCleanProofs (clean)

* `CleanKeepsNewestHolds`: `Spec => CleanKeepsNewest`. This holds for any
  `logKeepCounts >= 1`, any number of hours, and `os.OpenFile` failing or
  not. Each clean the spliter runs keeps, of every kind, exactly the
  `logKeepCounts` newest rotated files that are not older than
  `logKeepDays`.
* The lemma `RotInvHolds` (`Spec => []RotInv`: the rotated files are
  finitely many (kind, hour) files) is what the main theorem rests on.

`clean` is a `FoldLeft` over the reversed sorted glob. The argument:
* **Ranks.** The glob order is a strict total order on rotated files
  (`GlobOrder`). So a file's rank maps the `N` rotated files one-to-one
  onto `0..N-1` (`RankRange`, `RankMono`, `RankOnto`). `FS_Injection`
  turns one-to-one into onto. `GlobSorted` therefore lists every file
  once, in increasing order (`SortedGlob`). The k-th file of the
  reversed walk has rank `N-k` (`WalkFacts`).
* **Unfolding the fold.** `FoldLeft` unfolds to a recursive function
  over the subsets of the walk's indices, `IterF` (`FoldIsIter`). Such
  a function exists (`IterUpToAll`, a minimal counterexample over
  `k`). So folding `1..k` is folding `1..k-1` and then applying
  `KeepCountStep` to the k-th file (`IterUnfold`).
* **Fold invariant.** After k files the accumulator is `Acc(k)`
  (`FoldInv`):
  * each kind's counter is the number of its files among the first k,
    capped at `logKeepCounts`;
  * `removed` is the set of files among them that have at least
    `logKeepCounts` newer files of their kind.

  The link: the files of f's kind that the walk meets before f are
  exactly `NewerThan(f)` (`NewerSeen`).
* At `k = N`, `Clean(rotated)` is the set `CleanKeepsNewest` names
  (`CleanCorrect`).

### Only model-checked

* the liveness properties `HandlesReleased` and `RunStops`. TLAPS does not
  reason about liveness or `ENABLED`;
* the properties of the violation runs, which TLC refutes.

## Not modelled

* The gin handlers of `src/cc/server.go` (HTTP and JSON parsing). Their
  concurrency is the `SerialAdmin = FALSE` environment.
* The gray rule (`models/gray.go`): validation with no state.
* The file client's `Create`, `Update`, `UpdateWithTTL` and `Delete`,
  which are no-ops.
* The build files.
* In the executor: plan building (`preBuildUnshardPlan`, mycat hints),
  `handleShow`, and prepared-statement parameters and execution.
* The timeout wheel in the executor model. `Session` covers the wheel's
  races with statements (MCSessionTimeout.cfg, MCSessionTimeoutLeak.cfg);
  `Executor` does not.
* `bucketpool.New(0, n)`, which loops forever. `BucketPoolAssumption`
  requires `minSize >= 1`.
* The SQL timing statistics and their bounded channel.
* The non-atomic check-then-set inside `Close`. `Close` is one step in the
  model.

The remaining hazards are listed in `PROJECT.json`.
