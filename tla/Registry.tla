------------------------------ MODULE Registry ------------------------------
(***************************************************************************)
(* The proxy's namespace registry: Manager with its two NamespaceManager   *)
(* slots, its two UserManager slots and the switchIndex that selects the   *)
(* readable slot (src/unnamed/part_000, Manager / NamespaceManager /       *)
(* UserManager).  Writers build the other slot from the current one and    *)
(* flip switchIndex; readers resolve the current slot.                     *)
(*                                                                         *)
(* A Namespace object is abstracted to its identity (gen, a per-name       *)
(* creation counter standing for the pointer that NewNamespace returns)   *)
(* and its namespaceChangeIndex.  The pools it owns are abstracted to the  *)
(* set 'retired' of objects on which Close(true) was started.             *)
(***************************************************************************)
EXTENDS Naturals, FiniteSets

CONSTANTS
    Names,        \* namespace names
    Users,        \* user names
    Passwords,    \* passwords
    InitNs,       \* namespaces loaded at start (loadAllNamespace)
    InitUsers,    \* InitUsers[n]: the (user, password) pairs of n's config
    MaxReload,    \* bound: Namespace objects created per name after start
    SerialAdmin,  \* TRUE: the admin runs one prepare/commit or delete at a time
    Admins,       \* goroutines serving admin calls (concurrent admin only)
    NoNs          \* model value: a missing map entry / nil *Namespace

Creds == Users \X Passwords

ASSUME RegistryAssumption ==
    /\ InitNs \subseteq Names
    /\ InitUsers \in [Names -> SUBSET Creds]
    /\ \A n, m \in InitNs : n # m => InitUsers[n] \cap InitUsers[m] = {}
    /\ MaxReload \in Nat
    /\ SerialAdmin \in BOOLEAN
    /\ SerialAdmin => Admins = {}
    /\ NoNs \notin Names

Gens == 0..MaxReload
Slots == {0, 1}

\* A *Namespace: its identity and its namespaceChangeIndex.
NsObj == [gen : Gens, changeIndex : Nat]

\* One UserManager: users (pw, with keys the user names present as map
\* keys, since a key survives with an empty slice) and userNamespaces (ns).
UserSlot == [pw : [Users -> SUBSET Passwords],
             keys : SUBSET Users,
             ns : [Creds -> Names \cup {NoNs}]]

\* A namespace config submitted to ReloadNamespacePrepare.
Cfg == [name : Names, users : SUBSET Creds]

VARIABLES
    switchIndex,     \* util.BoolIndex: FALSE selects slot 0, TRUE slot 1
    namespaces,      \* namespaces[slot][name]: a NsObj or NoNs
    users,           \* users[slot]: a UserSlot
    reloadPrepared,  \* Manager.reloadPrepared
    nextGen,         \* nextGen[name]: identity of the next object built
    retired,         \* <<name, gen>> of objects whose Close(true) was started
    pending,         \* history: names prepared by an admin and not yet committed
    adm              \* adm[a]: the call goroutine a is running, with its locals

regVars == <<switchIndex, namespaces, users, reloadPrepared, nextGen,
             retired, pending, adm>>

\* BoolIndex.Get(): the current and the other slot.
Current == IF switchIndex THEN 1 ELSE 0
Other == 1 - Current

\* Manager.GetNamespace(name): the namespace readers resolve.
GetNamespace(n) == namespaces[Current][n]

\* The change index a namespace object carries, 0 for nil.
IndexOf(obj) == IF obj = NoNs THEN 0 ELSE obj.changeIndex

-----------------------------------------------------------------------------
(* UserManager                                                             *)

\* addNamespaceUsers: every (user, password) of the config maps to the
\* namespace and the password is appended to the user's list.
AddNamespaceUsers(us, n, creds) ==
    [pw   |-> [u \in Users |-> us.pw[u] \cup {p \in Passwords : <<u, p>> \in creds}],
     keys |-> us.keys \cup {c[1] : c \in creds},
     ns   |-> [c \in Creds |-> IF c \in creds THEN n ELSE us.ns[c]]]

\* Fault variant of ClearNamespaceUsers: the keys are deleted but the
\* passwords stay in the users' lists.
ClearNamespaceUsersKeepPw(us, n) ==
    [us EXCEPT !.ns = [c \in Creds |-> IF us.ns[c] = n THEN NoNs ELSE us.ns[c]]]

\* ClearNamespaceUsers: every key of the namespace is deleted and its
\* password removed from the user's list; when a password of a deleted key
\* is not in the list the loop leaves s nil, emptying the user's list.
\* The assignment u.users[username] = s creates the key if it was absent.
ClearNamespaceUsers(us, n) ==
    LET K == {c \in Creds : us.ns[c] = n}
        R(u) == {p \in Passwords : <<u, p>> \in K}
    IN [pw   |-> [u \in Users |->
                    IF R(u) = {} THEN us.pw[u]
                    ELSE IF R(u) \subseteq us.pw[u] THEN us.pw[u] \ R(u)
                    ELSE {}],
        keys |-> us.keys \cup {u \in Users : R(u) # {}},
        ns   |-> [c \in Creds |-> IF c \in K THEN NoNs ELSE us.ns[c]]]

\* RebuildNamespaceUsers on a clone (CloneUserManager copies every map).
RebuildNamespaceUsers(us, cfg) ==
    AddNamespaceUsers(ClearNamespaceUsers(us, cfg.name), cfg.name, cfg.users)

\* CreateUserManager over the loaded configs.
InitUserSlot ==
    [pw   |-> [u \in Users |-> {p \in Passwords :
                   \E n \in InitNs : <<u, p>> \in InitUsers[n]}],
     keys |-> {u \in Users : \E n \in InitNs, p \in Passwords : <<u, p>> \in InitUsers[n]},
     ns   |-> [c \in Creds |-> IF \E n \in InitNs : c \in InitUsers[n]
                               THEN CHOOSE n \in InitNs : c \in InitUsers[n]
                               ELSE NoNs]]

\* NewNamespaceManager: no namespace.
EmptyNsSlot == [n \in Names |-> NoNs]

\* CreateNamespaceManager: every loaded config whose NewNamespace succeeds
\* (those not in 'failed') gets its first object; a failure is skipped.
CreateNamespaceManager(failed) ==
    [n \in Names |-> IF n \in InitNs \ failed THEN [gen |-> 0, changeIndex |-> 0] ELSE NoNs]

\* Where a goroutine serving an admin call stands in its handler (concurrent
\* admin): "idle" between calls, otherwise the next statement that reads or
\* writes the Manager.
AdmPhases == {"idle",
              "prepBuild", "prepNs", "prepUsers", "prepUsersSet", "prepSet",
              "commitGet", "commitClose", "commitSet",
              "delRead", "delNs", "delNsSet", "delUsers", "delUsersSet", "delSet", "delClose"}

\* An admin call and the locals its handler keeps between those statements:
\* the name (and config users), the slot index current and other were
\* read as, the manager built for the other slot, and the *Namespace read.
AdmCall == [pc : AdmPhases, name : Names \cup {NoNs}, creds : SUBSET Creds, cur : Slots,
            nsSlot : [Names -> NsObj \cup {NoNs}], usSlot : UserSlot, obj : NsObj \cup {NoNs}]

IdleCall == [pc |-> "idle", name |-> NoNs, creds |-> {}, cur |-> 0,
             nsSlot |-> EmptyNsSlot, usSlot |-> InitUserSlot, obj |-> NoNs]

-----------------------------------------------------------------------------
(* Initial state: CreateManager.  CreateNamespaceManager skips a config     *)
(* whose NewNamespace fails; CreateUserManager registers its users anyway. *)
Init ==
    /\ switchIndex = FALSE
    /\ \E failed \in SUBSET InitNs :
         namespaces = [s \in Slots |->
                        IF s = 0 THEN CreateNamespaceManager(failed) ELSE EmptyNsSlot]
    /\ users = [s \in Slots |-> InitUserSlot]
    /\ reloadPrepared = FALSE
    /\ nextGen = [n \in Names |-> 1]
    /\ retired = {}
    /\ pending = {}
    /\ adm = [a \in Admins |-> IdleCall]

-----------------------------------------------------------------------------
(* Admin environment.  The Manager itself takes no lock; the spec's        *)
(* contract (one prepare outstanding) is imposed only when SerialAdmin.    *)

\* The cc's configs keep each (user, password) in one namespace (the
\* UserManager comment: username+password is globally unique).
CredsUnique(cfg) ==
    \A c \in cfg.users : users[Current].ns[c] \in {NoNs, cfg.name}

AdminIdle == pending = {}

-----------------------------------------------------------------------------
(* ReloadNamespacePrepare(namespaceConfig)                                  *)

\* Fault variants: the copy is taken from the slot readers do not use; the
\* change index is copied without the increment, or decremented.
ShallowCopyStale(slot) == namespaces[1 - slot]
NewChangeIndexKept(nsOld) == IndexOf(nsOld)
NewChangeIndexDec(nsOld) == IndexOf(nsOld) - 1

\* ShallowCopyNamespaceManager: the other slot starts as a copy of a slot.
ShallowCopyNamespaceManager(slot) == namespaces[slot]

\* The rebuilt namespace gets nsChangeIndexOld + 1 (0 + 1 if it was absent).
NewChangeIndex(nsOld) == IndexOf(nsOld) + 1

\* NewNamespace fails: the error is returned before any slot is written.
ReloadNamespacePrepareFail(cfg) ==
    /\ AdminIdle
    /\ UNCHANGED regVars

ReloadNamespacePrepare(cfg) ==
    LET n      == cfg.name
        nsOld  == namespaces[Current][n]
        nsNew  == [gen |-> nextGen[n], changeIndex |-> NewChangeIndex(nsOld)]
    IN
    /\ AdminIdle
    /\ CredsUnique(cfg)
    /\ nextGen[n] <= MaxReload
    /\ namespaces' = [namespaces EXCEPT
                        ![Other] = [ShallowCopyNamespaceManager(Current) EXCEPT ![n] = nsNew]]
    /\ users' = [users EXCEPT ![Other] = RebuildNamespaceUsers(users[Current], cfg)]
    /\ reloadPrepared' = TRUE
    /\ nextGen' = [nextGen EXCEPT ![n] = @ + 1]
    /\ pending' = pending \cup {n}
    /\ UNCHANGED <<switchIndex, retired, adm>>

(* ReloadNamespaceCommit(name)                                              *)

\* Fault variant: the object closed is looked up in the prepared slot.
CommitOldPrepared(n) == namespaces[Other][n]

\* The object of 'name' that commit closes: the one in the current slot.
CommitOld(n) == namespaces[Current][n]

\* The CAS succeeds; the current object of 'name' is closed in the
\* background and the slots are switched.
ReloadNamespaceCommit(n) ==
    LET cur == CommitOld(n) IN
    /\ n \in pending
    /\ reloadPrepared
    /\ reloadPrepared' = FALSE
    /\ retired' = IF cur = NoNs THEN retired ELSE retired \cup {<<n, cur.gen>>}
    /\ switchIndex' = ~switchIndex
    /\ pending' = pending \ {n}
    /\ UNCHANGED <<namespaces, users, nextGen, adm>>

(* DeleteNamespace(name)                                                    *)

\* Idempotent delete of an absent namespace.
DeleteNamespaceAbsent(n) ==
    /\ AdminIdle
    /\ namespaces[Current][n] = NoNs
    /\ UNCHANGED regVars

DeleteNamespace(n) ==
    LET cur == namespaces[Current][n] IN
    /\ AdminIdle
    /\ cur # NoNs
    /\ namespaces' = [namespaces EXCEPT ![Other] = [namespaces[Current] EXCEPT ![n] = NoNs]]
    /\ users' = [users EXCEPT ![Other] = ClearNamespaceUsers(users[Current], n)]
    /\ switchIndex' = ~switchIndex
    /\ retired' = retired \cup {<<n, cur.gen>>}
    /\ UNCHANGED <<reloadPrepared, nextGen, pending, adm>>

\* With serial admin no other admin call runs inside a handler, and the
\* session goroutines only read the current slot, which a handler writes
\* (by the switch) last: each call is one step.
SerialAdminNext ==
    /\ SerialAdmin
    /\ \/ \E cfg \in Cfg : ReloadNamespacePrepare(cfg) \/ ReloadNamespacePrepareFail(cfg)
       \/ \E n \in Names : \/ ReloadNamespaceCommit(n)
                           \/ DeleteNamespace(n)
                           \/ DeleteNamespaceAbsent(n)

-----------------------------------------------------------------------------
(* Concurrent admin: the same handlers, one step per statement that reads  *)
(* or writes the Manager, run by the goroutines Admins.  The slot indexes  *)
(* are read once, at the handler's Get, and used for every later write.   *)

\* Goroutine a at pc moves to phase to, with the locals changed as given.
Goto(a, to) == adm' = [adm EXCEPT ![a].pc = to]

\* The handler returns: the goroutine drops its locals.
Return(a) == adm' = [adm EXCEPT ![a] = IdleCall]

\* The index the handler read: other = 1 - current.
OtherOf(a) == 1 - adm[a].cur

\* m.switchIndex.Set(!index), where index is what the handler's Get read.
SetNotIndex(a) == switchIndex' = (adm[a].cur = 0)

\* ReloadNamespacePrepare: name and switchIndex.Get().
PrepareGetIndex(a, cfg) ==
    /\ adm[a].pc = "idle"
    /\ CredsUnique(cfg)
    /\ adm' = [adm EXCEPT ![a] = [IdleCall EXCEPT !.pc = "prepBuild", !.name = cfg.name,
                                                 !.creds = cfg.users, !.cur = Current]]
    /\ UNCHANGED <<switchIndex, namespaces, users, reloadPrepared, nextGen, retired, pending>>

\* nsOld and its change index, the shallow copy and the rebuilt namespace,
\* all read from namespaces[current].
PrepareBuild(a) ==
    LET n     == adm[a].name
        nsOld == namespaces[adm[a].cur][n]
    IN
    /\ adm[a].pc = "prepBuild"
    /\ nextGen[n] <= MaxReload
    /\ adm' = [adm EXCEPT ![a].pc = "prepNs",
                          ![a].nsSlot = [ShallowCopyNamespaceManager(adm[a].cur) EXCEPT
                              ![n] = [gen |-> nextGen[n], changeIndex |-> NewChangeIndex(nsOld)]]]
    /\ nextGen' = [nextGen EXCEPT ![n] = @ + 1]
    /\ UNCHANGED <<switchIndex, namespaces, users, reloadPrepared, retired, pending>>

\* RebuildNamespace fails: return err.
PrepareBuildFail(a) ==
    /\ adm[a].pc = "prepBuild"
    /\ Return(a)
    /\ UNCHANGED <<switchIndex, namespaces, users, reloadPrepared, nextGen, retired, pending>>

\* m.namespaces[other] = newNamespaceManager.
PrepareSetNamespaces(a) ==
    /\ adm[a].pc = "prepNs"
    /\ namespaces' = [namespaces EXCEPT ![OtherOf(a)] = adm[a].nsSlot]
    /\ adm' = [adm EXCEPT ![a].pc = "prepUsers", ![a].nsSlot = EmptyNsSlot]
    /\ UNCHANGED <<switchIndex, users, reloadPrepared, nextGen, retired, pending>>

\* CloneUserManager(m.users[current]) and RebuildNamespaceUsers.
PrepareBuildUsers(a) ==
    /\ adm[a].pc = "prepUsers"
    /\ adm' = [adm EXCEPT ![a].pc = "prepUsersSet",
                          ![a].usSlot = RebuildNamespaceUsers(users[adm[a].cur],
                                            [name |-> adm[a].name, users |-> adm[a].creds])]
    /\ UNCHANGED <<switchIndex, namespaces, users, reloadPrepared, nextGen, retired, pending>>

\* m.users[other] = newUserManager.
PrepareSetUsers(a) ==
    /\ adm[a].pc = "prepUsersSet"
    /\ users' = [users EXCEPT ![OtherOf(a)] = adm[a].usSlot]
    /\ Goto(a, "prepSet")
    /\ UNCHANGED <<switchIndex, namespaces, reloadPrepared, nextGen, retired, pending>>

\* m.reloadPrepared.Set(true); return nil.
PrepareSetPrepared(a) ==
    /\ adm[a].pc = "prepSet"
    /\ reloadPrepared' = TRUE
    /\ pending' = pending \cup {adm[a].name}
    /\ Return(a)
    /\ UNCHANGED <<switchIndex, namespaces, users, nextGen, retired>>

\* ReloadNamespaceCommit: the CAS on reloadPrepared succeeds.
CommitSwapPrepared(a, n) ==
    /\ adm[a].pc = "idle"
    /\ n \in pending
    /\ reloadPrepared
    /\ reloadPrepared' = FALSE
    /\ pending' = pending \ {n}
    /\ adm' = [adm EXCEPT ![a] = [IdleCall EXCEPT !.pc = "commitGet", !.name = n]]
    /\ UNCHANGED <<switchIndex, namespaces, users, nextGen, retired>>

\* The CAS fails: ErrNamespaceNotPrepared.
ReloadNamespaceCommitNotPrepared(a, n) ==
    /\ adm[a].pc = "idle"
    /\ n \in pending
    /\ ~reloadPrepared
    /\ pending' = pending \ {n}
    /\ UNCHANGED <<switchIndex, namespaces, users, reloadPrepared, nextGen, retired, adm>>

\* switchIndex.Get().
CommitGetIndex(a) ==
    /\ adm[a].pc = "commitGet"
    /\ adm' = [adm EXCEPT ![a].pc = "commitClose", ![a].cur = Current]
    /\ UNCHANGED <<switchIndex, namespaces, users, reloadPrepared, nextGen, retired, pending>>

\* currentNamespace of m.namespaces[current]; go Close(true) if non-nil.
\* Close(true) delays draining the pools, past the handler's switch below.
CommitCloseOld(a) ==
    /\ adm[a].pc = "commitClose"
    /\ adm' = [adm EXCEPT ![a].pc = "commitSet",
                          ![a].obj = namespaces[adm[a].cur][adm[a].name]]
    /\ UNCHANGED <<switchIndex, namespaces, users, reloadPrepared, nextGen, retired, pending>>

\* m.switchIndex.Set(!index); return nil.  The closed object is retired.
CommitSwitch(a) ==
    /\ adm[a].pc = "commitSet"
    /\ SetNotIndex(a)
    /\ retired' = IF adm[a].obj = NoNs THEN retired
                  ELSE retired \cup {<<adm[a].name, adm[a].obj.gen>>}
    /\ Return(a)
    /\ UNCHANGED <<namespaces, users, reloadPrepared, nextGen, pending>>

\* DeleteNamespace: switchIndex.Get().
DeleteGetIndex(a, n) ==
    /\ adm[a].pc = "idle"
    /\ adm' = [adm EXCEPT ![a] = [IdleCall EXCEPT !.pc = "delRead", !.name = n, !.cur = Current]]
    /\ UNCHANGED <<switchIndex, namespaces, users, reloadPrepared, nextGen, retired, pending>>

\* currentNamespace is nil: idempotent delete returns.
DeleteReadAbsent(a) ==
    /\ adm[a].pc = "delRead"
    /\ namespaces[adm[a].cur][adm[a].name] = NoNs
    /\ Return(a)
    /\ UNCHANGED <<switchIndex, namespaces, users, reloadPrepared, nextGen, retired, pending>>

\* currentNamespace is kept for the final Close.
DeleteRead(a) ==
    LET obj == namespaces[adm[a].cur][adm[a].name] IN
    /\ adm[a].pc = "delRead"
    /\ obj # NoNs
    /\ adm' = [adm EXCEPT ![a].pc = "delNs", ![a].obj = obj]
    /\ UNCHANGED <<switchIndex, namespaces, users, reloadPrepared, nextGen, retired, pending>>

\* ShallowCopyNamespaceManager(m.namespaces[current]) without the name.
DeleteBuildNamespaces(a) ==
    /\ adm[a].pc = "delNs"
    /\ adm' = [adm EXCEPT ![a].pc = "delNsSet",
                          ![a].nsSlot = [namespaces[adm[a].cur] EXCEPT ![adm[a].name] = NoNs]]
    /\ UNCHANGED <<switchIndex, namespaces, users, reloadPrepared, nextGen, retired, pending>>

\* m.namespaces[other] = newNamespaceManager.
DeleteSetNamespaces(a) ==
    /\ adm[a].pc = "delNsSet"
    /\ namespaces' = [namespaces EXCEPT ![OtherOf(a)] = adm[a].nsSlot]
    /\ adm' = [adm EXCEPT ![a].pc = "delUsers", ![a].nsSlot = EmptyNsSlot]
    /\ UNCHANGED <<switchIndex, users, reloadPrepared, nextGen, retired, pending>>

\* CloneUserManager(m.users[current]) and ClearNamespaceUsers.
DeleteBuildUsers(a) ==
    /\ adm[a].pc = "delUsers"
    /\ adm' = [adm EXCEPT ![a].pc = "delUsersSet",
                          ![a].usSlot = ClearNamespaceUsers(users[adm[a].cur], adm[a].name)]
    /\ UNCHANGED <<switchIndex, namespaces, users, reloadPrepared, nextGen, retired, pending>>

\* m.users[other] = newUserManager.
DeleteSetUsers(a) ==
    /\ adm[a].pc = "delUsersSet"
    /\ users' = [users EXCEPT ![OtherOf(a)] = adm[a].usSlot]
    /\ adm' = [adm EXCEPT ![a].pc = "delSet", ![a].usSlot = InitUserSlot]
    /\ UNCHANGED <<switchIndex, namespaces, reloadPrepared, nextGen, retired, pending>>

\* m.switchIndex.Set(!index).
DeleteSwitch(a) ==
    /\ adm[a].pc = "delSet"
    /\ SetNotIndex(a)
    /\ Goto(a, "delClose")
    /\ UNCHANGED <<namespaces, users, reloadPrepared, nextGen, retired, pending>>

\* go currentNamespace.Close(true); return nil.
DeleteCloseOld(a) ==
    /\ adm[a].pc = "delClose"
    /\ retired' = retired \cup {<<adm[a].name, adm[a].obj.gen>>}
    /\ Return(a)
    /\ UNCHANGED <<switchIndex, namespaces, users, reloadPrepared, nextGen, pending>>

ConcurrentAdminNext ==
    /\ ~SerialAdmin
    /\ \E a \in Admins :
         \/ \E cfg \in Cfg : PrepareGetIndex(a, cfg)
         \/ \E n \in Names : \/ CommitSwapPrepared(a, n)
                             \/ ReloadNamespaceCommitNotPrepared(a, n)
                             \/ DeleteGetIndex(a, n)
         \/ PrepareBuild(a) \/ PrepareBuildFail(a) \/ PrepareSetNamespaces(a)
         \/ PrepareBuildUsers(a) \/ PrepareSetUsers(a) \/ PrepareSetPrepared(a)
         \/ CommitGetIndex(a) \/ CommitCloseOld(a) \/ CommitSwitch(a)
         \/ DeleteReadAbsent(a) \/ DeleteRead(a) \/ DeleteBuildNamespaces(a)
         \/ DeleteSetNamespaces(a) \/ DeleteBuildUsers(a) \/ DeleteSetUsers(a)
         \/ DeleteSwitch(a) \/ DeleteCloseOld(a)

AdminNext == SerialAdminNext \/ ConcurrentAdminNext

RegistrySpec == Init /\ [][AdminNext]_regVars

-----------------------------------------------------------------------------
(* Properties                                                              *)

RegTypeOK ==
    /\ switchIndex \in BOOLEAN
    /\ namespaces \in [Slots -> [Names -> NsObj \cup {NoNs}]]
    /\ users \in [Slots -> UserSlot]
    /\ reloadPrepared \in BOOLEAN
    /\ nextGen \in [Names -> 1..(MaxReload + 1)]
    /\ retired \subseteq Names \X Gens
    /\ pending \subseteq Names
    /\ adm \in [Admins -> AdmCall]

\* The phases in which a delete holds the *Namespace it read.
DelHolding == {"delNs", "delNsSet", "delUsers", "delUsersSet", "delSet", "delClose"}

\* An admin call's locals are well formed: a running call has a name, and
\* a delete holds a namespace object from its read to its final Close.
AdmOK == \A a \in Admins :
           /\ adm[a].pc # "idle" => adm[a].name \in Names
           /\ adm[a].pc \in DelHolding => adm[a].obj \in NsObj

\* Sessions detect a hot swap by comparing change indexes (clearKsConns,
\* shouldClearKsAndCloseSession): whenever the object readers resolve for
\* a name is replaced by another object, its change index grows.
ChangeIndexGrows ==
    [][\A n \in Names :
         LET o == GetNamespace(n)  o2 == GetNamespace(n)' IN
         (o # NoNs /\ o2 # NoNs /\ o2.gen # o.gen) => o2.changeIndex > o.changeIndex
      ]_regVars

\* No reader ever resolves a namespace object whose pools Close(true) is
\* draining (ReloadNamespaceCommit and DeleteNamespace retire the object
\* they replace).
ActiveNeverRetired ==
    \A n \in Names : GetNamespace(n) # NoNs => <<n, GetNamespace(n).gen>> \notin retired

\* CheckPassword and GetNamespaceByUser read different maps of the same
\* UserManager: a password accepted for a user always has a key in
\* userNamespaces, and every key's password is in the user's list.
PasswordsMatchKeys ==
    \A u \in Users, p \in Passwords :
        p \in users[Current].pw[u] <=> users[Current].ns[<<u, p>>] # NoNs

\* A UserManager whose two maps agree: a password is in a user's list
\* exactly when userNamespaces has its key.
PwMatch(us) ==
    \A u \in Users, p \in Passwords : p \in us.pw[u] <=> us.ns[<<u, p>>] # NoNs

\* Inductive form of PasswordsMatchKeys: both UserManagers agree, so the
\* switch of a commit, whatever slot it lands on, keeps the readers' one.
BothPwMatch == RegTypeOK /\ \A sl \in Slots : PwMatch(users[sl])

\* Every (user, password) that authenticates resolves to a namespace the
\* registry holds (otherwise getNamespace() returns nil after the handshake).
UserNamespaceExists ==
    \A c \in Creds :
        users[Current].ns[c] # NoNs => GetNamespace(users[Current].ns[c]) # NoNs

\* The registry as readers see it (the current slots) implements the
\* abstract registry: prepare is invisible, commit and delete each replace
\* or remove exactly one namespace with its credentials.
Abs == INSTANCE RegistryAbstract WITH reg <- namespaces[Current],
                                      auth <- users[Current].ns
RegistryRefines == Abs!Spec

-----------------------------------------------------------------------------
(* Inductive invariant (with SerialAdmin) behind ActiveNeverRetired and     *)
(* ChangeIndexGrows: object identities only grow, every retired object is   *)
(* older than the one readers resolve, and while a reload is pending the    *)
(* other slot is the current one with the freshly built object of that     *)
(* name, newer than every object of that name closed so far.               *)

\* The slot ReloadNamespacePrepare(m) left for the commit to switch to.
PreparedSlot(m) ==
    /\ namespaces[Other] =
         [namespaces[Current] EXCEPT ![m] = [gen |-> nextGen[m] - 1,
                                              changeIndex |-> IndexOf(GetNamespace(m)) + 1]]
    /\ GetNamespace(m) # NoNs => GetNamespace(m).gen < nextGen[m] - 1
    /\ \A r \in retired : r[1] = m => r[2] < nextGen[m] - 1

IInv ==
    /\ RegTypeOK
    /\ reloadPrepared <=> pending # {}
    /\ \A m \in pending : pending = {m} /\ PreparedSlot(m)
    /\ \A n \in Names : GetNamespace(n) # NoNs => GetNamespace(n).gen < nextGen[n]
    /\ \A r \in retired :
         /\ r[2] < nextGen[r[1]]
         /\ GetNamespace(r[1]) # NoNs => r[2] < GetNamespace(r[1]).gen

\* The UserManager ReloadNamespacePrepare(m) left for the commit: the
\* current one with m's credentials replaced by those of the new config.
PreparedUsers(m) == \E creds \in SUBSET Creds : users[Other].ns = Abs!Rebind(m, creds)

\* Inductive invariant behind RegistryRefines (with SerialAdmin): IInv,
\* and a pending commit switches both maps to the prepared reload.
RefInv == IInv /\ \A m \in pending : PreparedUsers(m)

=============================================================================
