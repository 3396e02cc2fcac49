--------------------------- MODULE RegistryProofs ---------------------------
(***************************************************************************)
(* Proofs about the namespace registry (Registry) for every value of its  *)
(* constants: type correctness, and, when the admin runs one               *)
(* prepare/commit or delete at a time, that readers never resolve a       *)
(* namespace object being closed and that a replaced object's change      *)
(* index always grows.                                                     *)
(***************************************************************************)
EXTENDS Registry, TLAPS

-----------------------------------------------------------------------------
(* The user manager operations keep a UserManager well formed.            *)

LEMMA ClearUsersType ==
    ASSUME NEW us \in UserSlot, NEW n \in Names
    PROVE  ClearNamespaceUsers(us, n) \in UserSlot
BY DEF ClearNamespaceUsers, UserSlot, Creds

LEMMA AddUsersType ==
    ASSUME NEW us \in UserSlot, NEW n \in Names, NEW creds \in SUBSET Creds
    PROVE  AddNamespaceUsers(us, n, creds) \in UserSlot
BY DEF AddNamespaceUsers, UserSlot, Creds

LEMMA RebuildUsersType ==
    ASSUME NEW us \in UserSlot, NEW cfg \in Cfg
    PROVE  RebuildNamespaceUsers(us, cfg) \in UserSlot
BY ClearUsersType, AddUsersType DEF RebuildNamespaceUsers, Cfg

LEMMA InitUserSlotType == InitUserSlot \in UserSlot
<1>1. ASSUME NEW c \in Creds, \E n \in InitNs : c \in InitUsers[n]
      PROVE  (CHOOSE n \in InitNs : c \in InitUsers[n]) \in Names
  BY <1>1, RegistryAssumption
<1>. QED
  BY <1>1, RegistryAssumption DEF InitUserSlot, UserSlot

-----------------------------------------------------------------------------
(* Type correctness                                                        *)

LEMMA IdleCallType == IdleCall \in AdmCall
BY InitUserSlotType DEF IdleCall, AdmCall, AdmPhases, EmptyNsSlot, Slots

LEMMA TypeInit == Init => RegTypeOK
<1> SUFFICES ASSUME Init PROVE RegTypeOK
  OBVIOUS
<1>1. PICK failed \in SUBSET InitNs :
        namespaces = [s \in Slots |->
                        IF s = 0 THEN CreateNamespaceManager(failed) ELSE EmptyNsSlot]
  BY DEF Init
<1>2. namespaces \in [Slots -> [Names -> NsObj \cup {NoNs}]]
  <2>1. MaxReload \in Nat
    BY RegistryAssumption
  <2>. QED
    BY <1>1, <2>1 DEF Slots, NsObj, EmptyNsSlot, Gens, CreateNamespaceManager
<1>3. users \in [Slots -> UserSlot]
  BY InitUserSlotType DEF Init
<1>4. nextGen \in [Names -> 1..(MaxReload + 1)]
  BY RegistryAssumption DEF Init
<1>5. retired \subseteq Names \X Gens /\ pending \subseteq Names
  BY DEF Init
<1>6. switchIndex \in BOOLEAN /\ reloadPrepared \in BOOLEAN
  BY DEF Init
<1>7. adm \in [Admins -> AdmCall]
  BY IdleCallType DEF Init
<1>. QED
  BY <1>2, <1>3, <1>4, <1>5, <1>6, <1>7 DEF RegTypeOK

\* Under a serial admin every admin step is one of the atomic calls.
LEMMA SerialSteps ==
    ASSUME SerialAdmin, [AdminNext]_regVars
    PROVE  SerialAdminNext \/ UNCHANGED regVars
BY DEF AdminNext, ConcurrentAdminNext

LEMMA SerialTypeStep == RegTypeOK /\ SerialAdminNext => RegTypeOK'
<1>. USE RegistryAssumption
<1> SUFFICES ASSUME RegTypeOK, SerialAdminNext PROVE RegTypeOK'
  OBVIOUS
<1>1. Current \in Slots /\ Other \in Slots
  BY DEF RegTypeOK, Current, Other, Slots
<1>2. ASSUME NEW cfg \in Cfg, ReloadNamespacePrepare(cfg) PROVE RegTypeOK'
  <2>1. namespaces' \in [Slots -> [Names -> NsObj \cup {NoNs}]]
    BY <1>1, <1>2 DEF ReloadNamespacePrepare, RegTypeOK, Cfg, NsObj, Gens,
                      NewChangeIndex, IndexOf, ShallowCopyNamespaceManager
  <2>2. users' \in [Slots -> UserSlot]
    BY <1>1, <1>2, RebuildUsersType DEF ReloadNamespacePrepare, RegTypeOK
  <2>3. nextGen' \in [Names -> 1..(MaxReload + 1)]
    BY <1>2 DEF ReloadNamespacePrepare, RegTypeOK, Cfg
  <2>. QED
    BY <1>2, <2>1, <2>2, <2>3 DEF ReloadNamespacePrepare, RegTypeOK, Cfg
<1>3. ASSUME NEW n \in Names, ReloadNamespaceCommit(n) PROVE RegTypeOK'
  <2>1. CommitOld(n) \in NsObj \cup {NoNs}
    BY <1>1 DEF CommitOld, RegTypeOK
  <2>2. retired' \subseteq Names \X Gens
    BY <1>3, <2>1 DEF ReloadNamespaceCommit, RegTypeOK, NsObj
  <2>. QED
    BY <1>3, <2>2 DEF ReloadNamespaceCommit, RegTypeOK
<1>4. ASSUME NEW n \in Names, DeleteNamespace(n) PROVE RegTypeOK'
  <2>1. users' \in [Slots -> UserSlot]
    BY <1>1, <1>4, ClearUsersType DEF DeleteNamespace, RegTypeOK
  <2>. QED
    BY <1>1, <1>4, <2>1 DEF DeleteNamespace, RegTypeOK, NsObj
<1>6. ASSUME NEW cfg \in Cfg, ReloadNamespacePrepareFail(cfg) PROVE RegTypeOK'
  BY <1>6 DEF ReloadNamespacePrepareFail, RegTypeOK, regVars
<1>7. ASSUME NEW n \in Names, DeleteNamespaceAbsent(n) PROVE RegTypeOK'
  BY <1>7 DEF DeleteNamespaceAbsent, RegTypeOK, regVars
<1>. QED
  BY <1>2, <1>3, <1>4, <1>6, <1>7 DEF SerialAdminNext

-----------------------------------------------------------------------------
(* Type correctness with concurrent admin calls: a call's locals are well  *)
(* formed, and a delete holds the object it read until its final Close.   *)

LEMMA ConcTypeStep ==
    ASSUME RegTypeOK, AdmOK, ConcurrentAdminNext
    PROVE  RegTypeOK' /\ AdmOK'
<1>. USE RegistryAssumption
<1>1. PICK a \in Admins :
        \/ \E cfg \in Cfg : PrepareGetIndex(a, cfg)
        \/ \E n \in Names : \/ CommitSwapPrepared(a, n)
                            \/ ReloadNamespaceCommitNotPrepared(a, n)
                            \/ DeleteGetIndex(a, n)
        \/ PrepareBuild(a) \/ PrepareBuildFail(a) \/ PrepareSetNamespaces(a)
        \/ PrepareBuildUsers(a) \/ PrepareSetUsers(a) \/ PrepareSetPrepared(a)
        \/ CommitGetIndex(a) \/ CommitCloseOld(a) \/ CommitSwitch(a)
        \/ DeleteReadAbsent(a) \/ DeleteRead(a) \/ DeleteBuildNamespaces(a)
        \/ DeleteSetNamespaces(a) \/ DeleteBuildUsers(a) \/ DeleteSetUsers(a)
        \/ DeleteSwitch(a) \/ DeleteCloseOld(a)
  BY DEF ConcurrentAdminNext
<1>0. /\ adm[a] \in AdmCall /\ adm[a].cur \in Slots /\ OtherOf(a) \in Slots
      /\ Current \in Slots /\ IdleCall \in AdmCall
      /\ namespaces[adm[a].cur] \in [Names -> NsObj \cup {NoNs}]
      /\ users[adm[a].cur] \in UserSlot
  BY IdleCallType DEF RegTypeOK, AdmCall, OtherOf, Slots, Current
<1>2. ASSUME NEW cfg \in Cfg, PrepareGetIndex(a, cfg) PROVE RegTypeOK' /\ AdmOK'
  BY <1>0, <1>2 DEF PrepareGetIndex, RegTypeOK, AdmOK, AdmCall, AdmPhases, IdleCall, Cfg, DelHolding
<1>3. ASSUME NEW n \in Names, CommitSwapPrepared(a, n) PROVE RegTypeOK' /\ AdmOK'
  BY <1>0, <1>3 DEF CommitSwapPrepared, RegTypeOK, AdmOK, AdmCall, AdmPhases, IdleCall, DelHolding
<1>4. ASSUME NEW n \in Names, ReloadNamespaceCommitNotPrepared(a, n) PROVE RegTypeOK' /\ AdmOK'
  BY <1>4 DEF ReloadNamespaceCommitNotPrepared, RegTypeOK, AdmOK
<1>5. ASSUME NEW n \in Names, DeleteGetIndex(a, n) PROVE RegTypeOK' /\ AdmOK'
  BY <1>0, <1>5 DEF DeleteGetIndex, RegTypeOK, AdmOK, AdmCall, AdmPhases, IdleCall, DelHolding
<1>6. ASSUME PrepareBuild(a) PROVE RegTypeOK' /\ AdmOK'
  <2>1. adm[a].name \in Names
    BY <1>6 DEF PrepareBuild, AdmOK
  <2>2. [gen |-> nextGen[adm[a].name],
         changeIndex |-> NewChangeIndex(namespaces[adm[a].cur][adm[a].name])] \in NsObj
    BY <1>0, <1>6, <2>1 DEF PrepareBuild, RegTypeOK, NsObj, Gens, NewChangeIndex, IndexOf
  <2> DEFINE R == [gen |-> nextGen[adm[a].name],
                   changeIndex |-> NewChangeIndex(namespaces[adm[a].cur][adm[a].name])]
             X == [ShallowCopyNamespaceManager(adm[a].cur) EXCEPT ![adm[a].name] = R]
  <2>3. adm'[a] \in AdmCall
    <3>1. X \in [Names -> NsObj \cup {NoNs}]
      BY <1>0, <2>2 DEF ShallowCopyNamespaceManager
    <3>2. adm'[a] = [adm[a] EXCEPT !.pc = "prepNs", !.nsSlot = X]
      BY <1>0, <1>6 DEF PrepareBuild, RegTypeOK
    <3>. QED
      BY <1>0, <3>1, <3>2 DEF AdmCall, AdmPhases
  <2>4. nextGen' \in [Names -> 1..(MaxReload + 1)]
    BY <1>6, <2>1 DEF PrepareBuild, RegTypeOK
  <2>. QED
    BY <1>6, <2>1, <2>3, <2>4 DEF PrepareBuild, RegTypeOK, AdmOK, DelHolding
<1>7. ASSUME PrepareBuildFail(a) PROVE RegTypeOK' /\ AdmOK'
  BY <1>0, <1>7 DEF PrepareBuildFail, Return, RegTypeOK, AdmOK, IdleCall, DelHolding
<1>8. ASSUME PrepareSetNamespaces(a) PROVE RegTypeOK' /\ AdmOK'
  BY <1>0, <1>8 DEF PrepareSetNamespaces, RegTypeOK, AdmOK, AdmCall, AdmPhases, EmptyNsSlot, DelHolding
<1>9. ASSUME PrepareBuildUsers(a) PROVE RegTypeOK' /\ AdmOK'
  <2>1. [name |-> adm[a].name, users |-> adm[a].creds] \in Cfg
    BY <1>0, <1>9 DEF PrepareBuildUsers, AdmOK, AdmCall, Cfg
  <2>2. PICK c \in Cfg : c = [name |-> adm[a].name, users |-> adm[a].creds]
    BY <2>1
  <2>3. PICK us \in UserSlot : us = users[adm[a].cur]
    BY <1>0
  <2>4. RebuildNamespaceUsers(us, c) \in UserSlot
    BY RebuildUsersType
  <2>. QED
    BY <1>0, <1>9, <2>2, <2>3, <2>4 DEF PrepareBuildUsers, RegTypeOK, AdmOK, AdmCall, AdmPhases, DelHolding
<1>10. ASSUME PrepareSetUsers(a) PROVE RegTypeOK' /\ AdmOK'
  BY <1>0, <1>10 DEF PrepareSetUsers, Goto, RegTypeOK, AdmOK, AdmCall, AdmPhases, DelHolding
<1>11. ASSUME PrepareSetPrepared(a) PROVE RegTypeOK' /\ AdmOK'
  BY <1>0, <1>11 DEF PrepareSetPrepared, Return, RegTypeOK, AdmOK, IdleCall, DelHolding
<1>12. ASSUME CommitGetIndex(a) PROVE RegTypeOK' /\ AdmOK'
  BY <1>0, <1>12 DEF CommitGetIndex, RegTypeOK, AdmOK, AdmCall, AdmPhases, DelHolding
<1>13. ASSUME CommitCloseOld(a) PROVE RegTypeOK' /\ AdmOK'
  <2>1. adm[a].name \in Names
    BY <1>13 DEF CommitCloseOld, AdmOK
  <2>. QED
    BY <1>0, <1>13, <2>1 DEF CommitCloseOld, RegTypeOK, AdmOK, AdmCall, AdmPhases, DelHolding
<1>14. ASSUME CommitSwitch(a) PROVE RegTypeOK' /\ AdmOK'
  <2>1. adm[a].name \in Names
    BY <1>14 DEF CommitSwitch, AdmOK
  <2>2. retired' \subseteq Names \X Gens
    BY <1>0, <1>14, <2>1 DEF CommitSwitch, RegTypeOK, AdmCall, NsObj
  <2>. QED
    BY <1>0, <1>14, <2>2 DEF CommitSwitch, SetNotIndex, Return, RegTypeOK, AdmOK, IdleCall, DelHolding
<1>15. ASSUME DeleteReadAbsent(a) PROVE RegTypeOK' /\ AdmOK'
  BY <1>0, <1>15 DEF DeleteReadAbsent, Return, RegTypeOK, AdmOK, IdleCall, DelHolding
<1>16. ASSUME DeleteRead(a) PROVE RegTypeOK' /\ AdmOK'
  <2>1. adm[a].name \in Names
    BY <1>16 DEF DeleteRead, AdmOK
  <2>. QED
    BY <1>0, <1>16, <2>1 DEF DeleteRead, RegTypeOK, AdmOK, AdmCall, AdmPhases, DelHolding
<1>17. ASSUME DeleteBuildNamespaces(a) PROVE RegTypeOK' /\ AdmOK'
  BY <1>0, <1>17 DEF DeleteBuildNamespaces, RegTypeOK, AdmOK, AdmCall, AdmPhases, DelHolding
<1>18. ASSUME DeleteSetNamespaces(a) PROVE RegTypeOK' /\ AdmOK'
  BY <1>0, <1>18 DEF DeleteSetNamespaces, RegTypeOK, AdmOK, AdmCall, AdmPhases, EmptyNsSlot, DelHolding
<1>19. ASSUME DeleteBuildUsers(a) PROVE RegTypeOK' /\ AdmOK'
  <2>1. adm[a].name \in Names
    BY <1>19 DEF DeleteBuildUsers, AdmOK
  <2>2. PICK us \in UserSlot : us = users[adm[a].cur]
    BY <1>0
  <2>3. ClearNamespaceUsers(us, adm[a].name) \in UserSlot
    BY <2>1, ClearUsersType
  <2>. QED
    BY <1>0, <1>19, <2>2, <2>3 DEF DeleteBuildUsers, RegTypeOK, AdmOK, AdmCall, AdmPhases, DelHolding
<1>20. ASSUME DeleteSetUsers(a) PROVE RegTypeOK' /\ AdmOK'
  BY <1>0, <1>20, InitUserSlotType DEF DeleteSetUsers, RegTypeOK, AdmOK, AdmCall, AdmPhases, DelHolding
<1>21. ASSUME DeleteSwitch(a) PROVE RegTypeOK' /\ AdmOK'
  BY <1>0, <1>21 DEF DeleteSwitch, SetNotIndex, Goto, RegTypeOK, AdmOK, AdmCall, AdmPhases, DelHolding
<1>22. ASSUME DeleteCloseOld(a) PROVE RegTypeOK' /\ AdmOK'
  <2>1. adm[a].name \in Names /\ adm[a].obj \in NsObj
    BY <1>22 DEF DeleteCloseOld, AdmOK, DelHolding
  <2>2. retired' \subseteq Names \X Gens
    BY <1>22, <2>1 DEF DeleteCloseOld, RegTypeOK, NsObj
  <2>. QED
    BY <1>0, <1>22, <2>2 DEF DeleteCloseOld, Return, RegTypeOK, AdmOK, IdleCall, DelHolding
<1>. QED
  BY <1>1, <1>2, <1>3, <1>4, <1>5, <1>6, <1>7, <1>8, <1>9, <1>10, <1>11, <1>12,
     <1>13, <1>14, <1>15, <1>16, <1>17, <1>18, <1>19, <1>20, <1>21, <1>22

\* The type invariant the proofs carry: RegTypeOK and well-formed calls.
TypeInv == RegTypeOK /\ AdmOK

LEMMA TypeStep == TypeInv /\ [AdminNext]_regVars => TypeInv'
<1> SUFFICES ASSUME TypeInv, [AdminNext]_regVars PROVE TypeInv'
  OBVIOUS
<1>1. CASE SerialAdminNext
  <2>1. UNCHANGED adm
    BY <1>1 DEF SerialAdminNext, ReloadNamespacePrepare, ReloadNamespacePrepareFail,
                ReloadNamespaceCommit, DeleteNamespace, DeleteNamespaceAbsent, regVars
  <2>. QED
    BY <1>1, <2>1, SerialTypeStep DEF TypeInv, AdmOK
<1>2. CASE ConcurrentAdminNext
  BY <1>2, ConcTypeStep DEF TypeInv
<1>3. CASE UNCHANGED regVars
  BY <1>3 DEF TypeInv, RegTypeOK, AdmOK, regVars
<1>. QED
  BY <1>1, <1>2, <1>3 DEF AdminNext

\* Every reachable registry state is well typed: the slots hold namespace
\* objects or nil and well-formed user managers, whatever the admin calls.
THEOREM TypeCorrect == RegistrySpec => []RegTypeOK
<1>1. Init => TypeInv
  BY TypeInit DEF Init, TypeInv, AdmOK, IdleCall, DelHolding
<1>. QED
  BY <1>1, TypeStep, PTL DEF RegistrySpec, TypeInv

-----------------------------------------------------------------------------
(* The inductive invariant IInv (Registry) with a serial admin.            *)

LEMMA SlotsFacts ==
    ASSUME switchIndex \in BOOLEAN
    PROVE  /\ Current \in Slots /\ Other \in Slots /\ Current # Other
           /\ switchIndex' = ~switchIndex => Current' = Other /\ Other' = Current
           /\ switchIndex' = switchIndex => Current' = Current /\ Other' = Other
<1>1. Current \in Slots /\ Other \in Slots /\ Current # Other
  BY DEF Current, Other, Slots
<1>2. switchIndex' = ~switchIndex => Current' = Other /\ Other' = Current
  <2>1. ASSUME switchIndex' = ~switchIndex, switchIndex
        PROVE  Current' = Other /\ Other' = Current
    <3>1. switchIndex' = FALSE
      BY <2>1, Zenon
    <3>2. Current' = 0 /\ Current = 1
      BY <2>1, <3>1, Zenon DEF Current
    <3>. QED
      BY <3>2 DEF Other
  <2>2. ASSUME switchIndex' = ~switchIndex, ~switchIndex
        PROVE  Current' = Other /\ Other' = Current
    <3>1. switchIndex' = TRUE
      BY <2>2, Zenon
    <3>2. Current' = 1 /\ Current = 0
      BY <2>2, <3>1, Zenon DEF Current
    <3>. QED
      BY <3>2 DEF Other
  <2>. QED
    BY <2>1, <2>2
<1>3. switchIndex' = switchIndex => Current' = Current /\ Other' = Other
  BY DEF Current, Other
<1>. QED
  BY <1>1, <1>2, <1>3

\* The conjuncts of IInv about identities, used by every step below.
ResolvedBelowNext == \A n \in Names : GetNamespace(n) # NoNs => GetNamespace(n).gen < nextGen[n]
RetiredBelow ==
    \A r \in retired :
        /\ r[2] < nextGen[r[1]]
        /\ GetNamespace(r[1]) # NoNs => r[2] < GetNamespace(r[1]).gen

\* What the type invariant says of the resolved objects and retired pairs.
LEMMA ResolvedType ==
    ASSUME RegTypeOK
    PROVE  /\ \A n \in Names : GetNamespace(n) # NoNs => GetNamespace(n).gen \in Nat
           /\ \A n \in Names : nextGen[n] \in Nat
           /\ \A r \in retired : r[1] \in Names /\ r[2] \in Nat
BY RegistryAssumption DEF RegTypeOK, GetNamespace, Current, Slots, NsObj, Gens

LEMMA IInvParts == IInv <=> /\ RegTypeOK
                            /\ reloadPrepared <=> pending # {}
                            /\ \A m \in pending : pending = {m} /\ PreparedSlot(m)
                            /\ ResolvedBelowNext
                            /\ RetiredBelow
BY DEF IInv, ResolvedBelowNext, RetiredBelow

LEMMA IInvInit == Init => IInv
<1> SUFFICES ASSUME Init PROVE IInv
  OBVIOUS
<1>1. RegTypeOK
  BY TypeInit
<1>2. PICK failed \in SUBSET InitNs :
        namespaces = [s \in Slots |->
                        IF s = 0 THEN CreateNamespaceManager(failed) ELSE EmptyNsSlot]
  BY DEF Init
<1>3. Current = 0 /\ nextGen = [n \in Names |-> 1]
  BY DEF Init, Current
<1>4. ResolvedBelowNext
  BY <1>2, <1>3 DEF ResolvedBelowNext, GetNamespace, Slots, CreateNamespaceManager
<1>5. RetiredBelow /\ pending = {} /\ ~reloadPrepared
  BY DEF Init, RetiredBelow
<1>. QED
  BY <1>1, <1>4, <1>5, IInvParts

\* The three admin operations that change the registry, one lemma each.
LEMMA PrepareKeepsIInv ==
    ASSUME SerialAdmin, IInv, NEW cfg \in Cfg, ReloadNamespacePrepare(cfg)
    PROVE  IInv'
<1>. DEFINE m == cfg.name
            nsNew == [gen |-> nextGen[m], changeIndex |-> IndexOf(GetNamespace(m)) + 1]
<1>1. RegTypeOK' /\ RegTypeOK
  BY SerialTypeStep DEF IInv, SerialAdminNext
<1>2. pending = {} /\ ~reloadPrepared /\ ResolvedBelowNext /\ RetiredBelow
  BY IInvParts DEF ReloadNamespacePrepare, AdminIdle
<1>3. /\ Current' = Current /\ Other' = Other /\ Current # Other
      /\ Current \in Slots /\ Other \in Slots
  BY <1>1, SlotsFacts DEF ReloadNamespacePrepare, RegTypeOK
<1>4. m \in Names /\ nextGen[m] \in Nat
  BY <1>1 DEF Cfg, RegTypeOK
<1>5. /\ namespaces'[Current] = namespaces[Current]
      /\ namespaces'[Other] = [namespaces[Current] EXCEPT ![m] = nsNew]
  BY <1>1, <1>3 DEF ReloadNamespacePrepare, NewChangeIndex, ShallowCopyNamespaceManager,
                    RegTypeOK, GetNamespace
<1>6. \A n \in Names : GetNamespace(n)' = GetNamespace(n)
  BY <1>3, <1>5 DEF GetNamespace
<1>7. /\ nextGen'[m] = nextGen[m] + 1
      /\ \A n \in Names \ {m} : nextGen'[n] = nextGen[n]
      /\ retired' = retired
  BY <1>1, <1>4 DEF ReloadNamespacePrepare, RegTypeOK
<1>12. \A n \in Names : nextGen'[n] \in Nat /\ nextGen[n] \in Nat /\ nextGen[n] <= nextGen'[n]
  BY <1>1, <1>4, <1>7, RegistryAssumption DEF RegTypeOK
<1>8. PreparedSlot(m)'
  <2>1. namespaces'[Other'] = [namespaces'[Current'] EXCEPT
            ![m] = [gen |-> nextGen'[m] - 1, changeIndex |-> IndexOf(GetNamespace(m)') + 1]]
    BY <1>3, <1>4, <1>5, <1>6, <1>7
  <2>2. GetNamespace(m)' # NoNs => GetNamespace(m)'.gen < nextGen'[m] - 1
    BY <1>2, <1>4, <1>6, <1>7 DEF ResolvedBelowNext
  <2>3. \A r \in retired' : r[1] = m => r[2] < nextGen'[m] - 1
    BY <1>2, <1>4, <1>7 DEF RetiredBelow
  <2>. QED
    BY <2>1, <2>2, <2>3 DEF PreparedSlot
<1>9. pending' = {m} /\ reloadPrepared'
  BY <1>2 DEF ReloadNamespacePrepare
<1>13. /\ \A n \in Names : GetNamespace(n) # NoNs => GetNamespace(n).gen \in Nat
       /\ \A r \in retired : r[1] \in Names /\ r[2] \in Nat
  BY <1>1, ResolvedType
<1>10. ResolvedBelowNext'
  <2> SUFFICES ASSUME NEW n \in Names, GetNamespace(n)' # NoNs
               PROVE  GetNamespace(n)'.gen < nextGen'[n]
    BY DEF ResolvedBelowNext
  <2>1. GetNamespace(n) # NoNs /\ GetNamespace(n)'.gen = GetNamespace(n).gen
    BY <1>6
  <2>2. GetNamespace(n).gen < nextGen[n] /\ GetNamespace(n).gen \in Nat
    BY <1>2, <1>13, <2>1 DEF ResolvedBelowNext
  <2>3. nextGen'[n] \in Nat /\ nextGen[n] \in Nat /\ nextGen[n] <= nextGen'[n]
    BY <1>12
  <2>4. GetNamespace(n)'.gen < nextGen[n] /\ GetNamespace(n)'.gen \in Nat
    BY <2>1, <2>2, Zenon
  <2>. QED
    BY ONLY <2>3, <2>4
<1>11. RetiredBelow'
  BY <1>2, <1>6, <1>7, <1>12, <1>13 DEF RetiredBelow
<1>. QED
  BY <1>1, <1>8, <1>9, <1>10, <1>11 DEF IInv, ResolvedBelowNext, RetiredBelow

LEMMA CommitKeepsIInv ==
    ASSUME SerialAdmin, IInv, NEW n \in Names, ReloadNamespaceCommit(n)
    PROVE  IInv'
<1>. DEFINE new == [gen |-> nextGen[n] - 1, changeIndex |-> IndexOf(GetNamespace(n)) + 1]
<1>1. RegTypeOK' /\ RegTypeOK
  BY SerialTypeStep DEF IInv, SerialAdminNext
<1>2. pending = {n} /\ PreparedSlot(n) /\ ResolvedBelowNext /\ RetiredBelow
  BY IInvParts DEF ReloadNamespaceCommit
<1>3. Current' = Other /\ Other' = Current
  BY <1>1, SlotsFacts DEF ReloadNamespaceCommit, RegTypeOK
<1>4. namespaces' = namespaces /\ nextGen' = nextGen
  BY DEF ReloadNamespaceCommit
<1>5. /\ GetNamespace(n)' = new
      /\ \A k \in Names \ {n} : GetNamespace(k)' = GetNamespace(k)
  <2>1. namespaces[Current] \in [Names -> NsObj \cup {NoNs}]
    BY <1>1, SlotsFacts DEF RegTypeOK
  <2>2. namespaces[Other] = [namespaces[Current] EXCEPT ![n] = new]
    BY <1>2 DEF PreparedSlot
  <2>. QED
    BY <1>3, <1>4, <2>1, <2>2 DEF GetNamespace
<1>6. retired' = IF GetNamespace(n) = NoNs THEN retired
                 ELSE retired \cup {<<n, GetNamespace(n).gen>>}
  BY DEF ReloadNamespaceCommit, CommitOld, GetNamespace
<1>7. pending' = {} /\ ~reloadPrepared'
  BY <1>2 DEF ReloadNamespaceCommit
<1>8. /\ \A k \in Names : nextGen[k] \in Nat /\ nextGen[k] >= 1
      /\ \A k \in Names : GetNamespace(k) # NoNs => GetNamespace(k).gen \in Nat
      /\ \A r \in retired : r[1] \in Names /\ r[2] \in Nat
  BY <1>1, ResolvedType DEF RegTypeOK
<1>9. ResolvedBelowNext'
  <2> SUFFICES ASSUME NEW k \in Names, GetNamespace(k)' # NoNs
               PROVE  GetNamespace(k)'.gen < nextGen'[k]
    BY DEF ResolvedBelowNext
  <2>1. CASE k = n
    BY <2>1, <1>4, <1>5, <1>8
  <2>2. CASE k # n
    BY <2>2, <1>2, <1>4, <1>5, <1>8 DEF ResolvedBelowNext
  <2>. QED
    BY <2>1, <2>2
<1>10. RetiredBelow'
  <2> SUFFICES ASSUME NEW r \in retired'
               PROVE  /\ r[2] < nextGen'[r[1]]
                      /\ GetNamespace(r[1])' # NoNs => r[2] < GetNamespace(r[1])'.gen
    BY DEF RetiredBelow
  <2>1. CASE r \in retired /\ r[1] = n
    BY <2>1, <1>2, <1>4, <1>5, <1>8 DEF RetiredBelow, PreparedSlot
  <2>2. CASE r \in retired /\ r[1] # n
    BY <2>2, <1>2, <1>4, <1>5, <1>8 DEF RetiredBelow
  <2>3. CASE r \notin retired
    <3>1. GetNamespace(n) # NoNs /\ r = <<n, GetNamespace(n).gen>>
      BY <2>3, <1>6
    <3>2. GetNamespace(n).gen < nextGen[n] /\ GetNamespace(n).gen < nextGen[n] - 1
      BY <3>1, <1>2 DEF ResolvedBelowNext, PreparedSlot
    <3>. QED
      BY <3>1, <3>2, <1>4, <1>5, <1>8
  <2>. QED
    BY <2>1, <2>2, <2>3
<1>. QED
  BY <1>1, <1>7, <1>9, <1>10 DEF IInv, ResolvedBelowNext, RetiredBelow

LEMMA DeleteKeepsIInv ==
    ASSUME SerialAdmin, IInv, NEW n \in Names, DeleteNamespace(n)
    PROVE  IInv'
<1>1. RegTypeOK' /\ RegTypeOK
  BY SerialTypeStep DEF IInv, SerialAdminNext
<1>2. pending = {} /\ ~reloadPrepared /\ ResolvedBelowNext /\ RetiredBelow
  BY IInvParts DEF DeleteNamespace, AdminIdle
<1>3. Current' = Other /\ Other' = Current
  BY <1>1, SlotsFacts DEF DeleteNamespace, RegTypeOK
<1>4. /\ GetNamespace(n)' = NoNs
      /\ \A k \in Names \ {n} : GetNamespace(k)' = GetNamespace(k)
  BY <1>1, <1>3, SlotsFacts DEF DeleteNamespace, GetNamespace, RegTypeOK
<1>5. /\ GetNamespace(n) # NoNs
      /\ retired' = retired \cup {<<n, GetNamespace(n).gen>>}
      /\ nextGen' = nextGen /\ pending' = pending /\ reloadPrepared' = reloadPrepared
  BY DEF DeleteNamespace, GetNamespace
<1>6. /\ \A k \in Names : nextGen[k] \in Nat
      /\ \A k \in Names : GetNamespace(k) # NoNs => GetNamespace(k).gen \in Nat
      /\ \A r \in retired : r[1] \in Names /\ r[2] \in Nat
  BY <1>1, ResolvedType
<1>7. ResolvedBelowNext'
  BY <1>2, <1>4, <1>5 DEF ResolvedBelowNext
<1>8. RetiredBelow'
  <2> SUFFICES ASSUME NEW r \in retired'
               PROVE  /\ r[2] < nextGen'[r[1]]
                      /\ GetNamespace(r[1])' # NoNs => r[2] < GetNamespace(r[1])'.gen
    BY DEF RetiredBelow
  <2>1. CASE r \in retired
    BY <2>1, <1>2, <1>4, <1>5, <1>6 DEF RetiredBelow
  <2>2. CASE r \notin retired
    BY <2>2, <1>2, <1>4, <1>5, <1>6 DEF ResolvedBelowNext
  <2>. QED
    BY <2>1, <2>2
<1>. QED
  BY <1>1, <1>2, <1>5, <1>7, <1>8 DEF IInv, ResolvedBelowNext, RetiredBelow

LEMMA IInvStep == SerialAdmin /\ IInv /\ [AdminNext]_regVars => IInv'
<1> SUFFICES ASSUME SerialAdmin, IInv, [AdminNext]_regVars PROVE IInv'
  OBVIOUS
<1>1. ASSUME NEW cfg \in Cfg, ReloadNamespacePrepare(cfg) PROVE IInv'
  BY <1>1, PrepareKeepsIInv
<1>2. ASSUME NEW n \in Names, ReloadNamespaceCommit(n) PROVE IInv'
  BY <1>2, CommitKeepsIInv
<1>3. ASSUME NEW n \in Names, DeleteNamespace(n) PROVE IInv'
  BY <1>3, DeleteKeepsIInv
<1>5. CASE UNCHANGED regVars
  BY <1>5 DEF IInv, regVars, RegTypeOK, PreparedSlot, GetNamespace, Current, Other, IndexOf
<1>6. ASSUME NEW cfg \in Cfg, ReloadNamespacePrepareFail(cfg) PROVE IInv'
  BY <1>6, <1>5 DEF ReloadNamespacePrepareFail
<1>7. ASSUME NEW n \in Names, DeleteNamespaceAbsent(n) PROVE IInv'
  BY <1>7, <1>5 DEF DeleteNamespaceAbsent
<1>. QED
  BY <1>1, <1>2, <1>3, <1>5, <1>6, <1>7, SerialSteps DEF SerialAdminNext

\* With one admin operation at a time, ReloadNamespaceCommit and
\* DeleteNamespace only ever start Close(true) on an object that readers
\* stop resolving in the same step: no session resolves a namespace whose
\* pools are being closed.
THEOREM ActiveNeverRetiredHolds == SerialAdmin => (RegistrySpec => []ActiveNeverRetired)
<1> SUFFICES ASSUME SerialAdmin PROVE RegistrySpec => []ActiveNeverRetired
  OBVIOUS
<1>1. IInv => ActiveNeverRetired
  <2> SUFFICES ASSUME IInv, NEW n \in Names, GetNamespace(n) # NoNs
               PROVE  <<n, GetNamespace(n).gen>> \notin retired
    BY DEF ActiveNeverRetired
  <2>1. GetNamespace(n).gen \in Nat
    BY ResolvedType DEF IInv
  <2>. QED
    BY <2>1, IInvParts DEF RetiredBelow
<1>. QED
  BY <1>1, IInvInit, IInvStep, PTL DEF RegistrySpec

\* With one admin operation at a time, whenever the object sessions
\* resolve for a name is replaced by another one, its namespaceChangeIndex
\* is larger (the comparison clearKsConns and shouldClearKsAndCloseSession
\* rely on).
THEOREM ChangeIndexGrowsHolds == SerialAdmin => (RegistrySpec => ChangeIndexGrows)
<1> SUFFICES ASSUME SerialAdmin PROVE RegistrySpec => ChangeIndexGrows
  OBVIOUS
<1>. DEFINE Grows == \A n \in Names :
                       LET o == GetNamespace(n)  o2 == GetNamespace(n)' IN
                       (o # NoNs /\ o2 # NoNs /\ o2.gen # o.gen) => o2.changeIndex > o.changeIndex
<1>1. IInv /\ [AdminNext]_regVars => [Grows]_regVars
  <2> SUFFICES ASSUME IInv, [AdminNext]_regVars PROVE [Grows]_regVars
    OBVIOUS
  <2>1. ASSUME NEW n \in Names, ReloadNamespaceCommit(n) PROVE Grows
    <3>1. pending = {n} /\ PreparedSlot(n) /\ RegTypeOK
      BY <2>1, IInvParts DEF ReloadNamespaceCommit
    <3>2. Current' = Other /\ namespaces' = namespaces
      BY <2>1, <3>1, SlotsFacts DEF ReloadNamespaceCommit, RegTypeOK
    <3>3. namespaces[Current] \in [Names -> NsObj \cup {NoNs}]
      BY <3>1, SlotsFacts DEF RegTypeOK
    <3>4. /\ GetNamespace(n)' = [gen |-> nextGen[n] - 1,
                                 changeIndex |-> IndexOf(GetNamespace(n)) + 1]
          /\ \A k \in Names \ {n} : GetNamespace(k)' = GetNamespace(k)
      BY <3>1, <3>2, <3>3 DEF PreparedSlot, GetNamespace
    <3>5. GetNamespace(n) # NoNs => GetNamespace(n).changeIndex \in Nat
      BY <3>3 DEF GetNamespace, NsObj
    <3>. QED
      BY <3>4, <3>5 DEF IndexOf
  <2>2. ASSUME NEW n \in Names, DeleteNamespace(n) PROVE Grows
    <3>1. RegTypeOK
      BY DEF IInv
    <3>2. Current' = Other
      BY <2>2, <3>1, SlotsFacts DEF DeleteNamespace, RegTypeOK
    <3>3. /\ GetNamespace(n)' = NoNs
          /\ \A k \in Names \ {n} : GetNamespace(k)' = GetNamespace(k)
      BY <2>2, <3>1, <3>2, SlotsFacts DEF DeleteNamespace, GetNamespace, RegTypeOK
    <3>. QED
      BY <3>3
  <2>3. ASSUME NEW cfg \in Cfg, ReloadNamespacePrepare(cfg) PROVE Grows
    <3>1. RegTypeOK
      BY DEF IInv
    <3>2. Current' = Current /\ Current # Other /\ Current \in Slots /\ Other \in Slots
      BY <2>3, <3>1, SlotsFacts DEF ReloadNamespacePrepare, RegTypeOK
    <3>3. \A k \in Names : GetNamespace(k)' = GetNamespace(k)
      BY <2>3, <3>1, <3>2 DEF ReloadNamespacePrepare, GetNamespace, RegTypeOK
    <3>. QED
      BY <3>3
  <2>5. ASSUME NEW cfg \in Cfg, ReloadNamespacePrepareFail(cfg) PROVE UNCHANGED regVars
    BY <2>5 DEF ReloadNamespacePrepareFail
  <2>6. ASSUME NEW n \in Names, DeleteNamespaceAbsent(n) PROVE UNCHANGED regVars
    BY <2>6 DEF DeleteNamespaceAbsent
  <2>. QED
    BY <2>1, <2>2, <2>3, <2>5, <2>6, SerialSteps DEF SerialAdminNext
<1>. QED
  BY <1>1, IInvInit, IInvStep, PTL DEF RegistrySpec, ChangeIndexGrows


\* With a serial admin the inductive invariant IInv holds in every
\* reachable state: identities only grow, retired objects are older than
\* the resolved ones, and a pending reload has its prepared slot ready.
THEOREM IInvHolds == SerialAdmin => (RegistrySpec => []IInv)
<1> SUFFICES ASSUME SerialAdmin PROVE RegistrySpec => []IInv
  OBVIOUS
<1>. QED
  BY IInvInit, IInvStep, PTL DEF RegistrySpec

-----------------------------------------------------------------------------
(* The two maps of a UserManager agree, in both slots, whatever the admin  *)
(* calls and in whatever order: no serial admin is assumed.               *)

\* ClearNamespaceUsers keeps the maps in step: the passwords it removes
\* are exactly those of the keys it deletes, and they are all in the lists.
LEMMA ClearKeepsPwMatch ==
    ASSUME NEW us \in UserSlot, PwMatch(us), NEW n \in Names
    PROVE  PwMatch(ClearNamespaceUsers(us, n))
<1> SUFFICES ASSUME NEW u \in Users, NEW p \in Passwords
             PROVE  p \in ClearNamespaceUsers(us, n).pw[u]
                    <=> ClearNamespaceUsers(us, n).ns[<<u, p>>] # NoNs
  BY DEF PwMatch
<1> DEFINE K == {c \in Creds : us.ns[c] = n}
           R == {q \in Passwords : <<u, q>> \in K}
<1>1. R \subseteq us.pw[u]
  BY RegistryAssumption DEF PwMatch, Creds
<1>2. ClearNamespaceUsers(us, n).pw[u] = us.pw[u] \ R
  BY <1>1 DEF ClearNamespaceUsers
<1>3. ClearNamespaceUsers(us, n).ns[<<u, p>>] = IF us.ns[<<u, p>>] = n THEN NoNs ELSE us.ns[<<u, p>>]
  BY DEF ClearNamespaceUsers, Creds
<1>4. p \in R <=> us.ns[<<u, p>>] = n
  BY DEF Creds
<1>. QED
  BY <1>2, <1>3, <1>4, RegistryAssumption DEF PwMatch

\* addNamespaceUsers adds each credential's password and key together.
LEMMA AddKeepsPwMatch ==
    ASSUME NEW us \in UserSlot, PwMatch(us), NEW n \in Names, NEW creds \in SUBSET Creds
    PROVE  PwMatch(AddNamespaceUsers(us, n, creds))
BY RegistryAssumption DEF PwMatch, AddNamespaceUsers, Creds

\* CreateUserManager registers every loaded credential in both maps.
LEMMA InitPwMatch == PwMatch(InitUserSlot)
<1> SUFFICES ASSUME NEW u \in Users, NEW p \in Passwords
             PROVE  p \in InitUserSlot.pw[u] <=> InitUserSlot.ns[<<u, p>>] # NoNs
  BY DEF PwMatch
<1>1. CASE \E n \in InitNs : <<u, p>> \in InitUsers[n]
  <2>1. (CHOOSE n \in InitNs : <<u, p>> \in InitUsers[n]) \in Names
    BY <1>1, RegistryAssumption
  <2>. QED
    BY <1>1, <2>1, RegistryAssumption DEF InitUserSlot, Creds
<1>2. CASE ~\E n \in InitNs : <<u, p>> \in InitUsers[n]
  BY <1>2 DEF InitUserSlot, Creds
<1>. QED
  BY <1>1, <1>2

\* RebuildNamespaceUsers is a clear then an add: it keeps the maps in step.
LEMMA RebuildKeepsPwMatch ==
    ASSUME NEW us \in UserSlot, PwMatch(us), NEW cfg \in Cfg
    PROVE  PwMatch(RebuildNamespaceUsers(us, cfg))
<1>1. ClearNamespaceUsers(us, cfg.name) \in UserSlot
      /\ PwMatch(ClearNamespaceUsers(us, cfg.name))
  BY ClearUsersType, ClearKeepsPwMatch DEF Cfg
<1>. QED
  BY <1>1, AddKeepsPwMatch DEF RebuildNamespaceUsers, Cfg

\* Inductive form with concurrent admin calls: both slots, and the user
\* manager every call has built and not yet stored, have maps in step.
PwInv == TypeInv /\ BothPwMatch /\ \A a \in Admins : PwMatch(adm[a].usSlot)

LEMMA PwInvInit == Init => PwInv
BY TypeInit, InitPwMatch DEF Init, PwInv, TypeInv, AdmOK, BothPwMatch, IdleCall, DelHolding

LEMMA PwInvStep == PwInv /\ [AdminNext]_regVars => PwInv'
<1> SUFFICES ASSUME PwInv, [AdminNext]_regVars PROVE PwInv'
  OBVIOUS
<1>0. /\ TypeInv' /\ RegTypeOK' /\ RegTypeOK
      /\ Current \in Slots /\ Other \in Slots /\ users \in [Slots -> UserSlot]
      /\ \A sl \in Slots : PwMatch(users[sl])
  BY TypeStep DEF PwInv, TypeInv, BothPwMatch, RegTypeOK, Current, Other, Slots
<1>1. CASE SerialAdminNext
  <2>1. UNCHANGED adm
    BY <1>1 DEF SerialAdminNext, ReloadNamespacePrepare, ReloadNamespacePrepareFail,
                ReloadNamespaceCommit, DeleteNamespace, DeleteNamespaceAbsent, regVars
  <2>2. \A sl \in Slots : PwMatch(users'[sl])
    <3>1. ASSUME NEW cfg \in Cfg, ReloadNamespacePrepare(cfg) PROVE \A sl \in Slots : PwMatch(users'[sl])
      BY <1>0, <3>1, RebuildKeepsPwMatch DEF ReloadNamespacePrepare
    <3>2. ASSUME NEW n \in Names, DeleteNamespace(n) PROVE \A sl \in Slots : PwMatch(users'[sl])
      BY <1>0, <3>2, ClearKeepsPwMatch DEF DeleteNamespace
    <3>3. CASE users' = users
      BY <1>0, <3>3
    <3>. QED
      BY <1>1, <3>1, <3>2, <3>3 DEF SerialAdminNext, ReloadNamespaceCommit,
                                    ReloadNamespacePrepareFail, DeleteNamespaceAbsent, regVars
  <2>. QED
    BY <1>0, <2>1, <2>2 DEF PwInv, BothPwMatch
<1>2. CASE ConcurrentAdminNext
  <2>1. PICK a \in Admins :
          \/ \E cfg \in Cfg : PrepareGetIndex(a, cfg)
          \/ \E n \in Names : \/ CommitSwapPrepared(a, n)
                              \/ ReloadNamespaceCommitNotPrepared(a, n)
                              \/ DeleteGetIndex(a, n)
          \/ PrepareBuild(a) \/ PrepareBuildFail(a) \/ PrepareSetNamespaces(a)
          \/ PrepareBuildUsers(a) \/ PrepareSetUsers(a) \/ PrepareSetPrepared(a)
          \/ CommitGetIndex(a) \/ CommitCloseOld(a) \/ CommitSwitch(a)
          \/ DeleteReadAbsent(a) \/ DeleteRead(a) \/ DeleteBuildNamespaces(a)
          \/ DeleteSetNamespaces(a) \/ DeleteBuildUsers(a) \/ DeleteSetUsers(a)
          \/ DeleteSwitch(a) \/ DeleteCloseOld(a)
    BY <1>2 DEF ConcurrentAdminNext
  <2>0. /\ adm \in [Admins -> AdmCall] /\ adm[a] \in AdmCall
        /\ adm[a].cur \in Slots /\ OtherOf(a) \in Slots
        /\ PwMatch(adm[a].usSlot) /\ AdmOK
    BY DEF PwInv, TypeInv, RegTypeOK, AdmCall, OtherOf, Slots
  <2> DEFINE G == /\ \A b \in Admins \ {a} : adm'[b] = adm[b]
                  /\ \A sl \in Slots : PwMatch(users'[sl])
                  /\ PwMatch(adm'[a].usSlot)
  <2>2. ASSUME NEW cfg \in Cfg, PrepareGetIndex(a, cfg) PROVE G
    BY <1>0, <2>0, <2>2, InitPwMatch DEF PrepareGetIndex, IdleCall
  <2>3. ASSUME NEW n \in Names, CommitSwapPrepared(a, n) PROVE G
    BY <1>0, <2>0, <2>3, InitPwMatch DEF CommitSwapPrepared, IdleCall
  <2>4. ASSUME NEW n \in Names, ReloadNamespaceCommitNotPrepared(a, n) PROVE G
    BY <1>0, <2>0, <2>4 DEF ReloadNamespaceCommitNotPrepared
  <2>5. ASSUME NEW n \in Names, DeleteGetIndex(a, n) PROVE G
    BY <1>0, <2>0, <2>5, InitPwMatch DEF DeleteGetIndex, IdleCall
  <2>6. ASSUME PrepareBuild(a) PROVE G
    BY <1>0, <2>0, <2>6, InitPwMatch DEF PrepareBuild, Goto, Return, IdleCall
  <2>7. ASSUME PrepareBuildFail(a) PROVE G
    BY <1>0, <2>0, <2>7, InitPwMatch DEF PrepareBuildFail, Goto, Return, IdleCall
  <2>8. ASSUME PrepareSetNamespaces(a) PROVE G
    BY <1>0, <2>0, <2>8, InitPwMatch DEF PrepareSetNamespaces, Goto, Return, IdleCall
  <2>9. ASSUME PrepareSetPrepared(a) PROVE G
    BY <1>0, <2>0, <2>9, InitPwMatch DEF PrepareSetPrepared, Goto, Return, IdleCall
  <2>10. ASSUME CommitGetIndex(a) PROVE G
    BY <1>0, <2>0, <2>10, InitPwMatch DEF CommitGetIndex, Goto, Return, IdleCall
  <2>11. ASSUME CommitCloseOld(a) PROVE G
    BY <1>0, <2>0, <2>11, InitPwMatch DEF CommitCloseOld, Goto, Return, IdleCall
  <2>12. ASSUME CommitSwitch(a) PROVE G
    BY <1>0, <2>0, <2>12, InitPwMatch DEF CommitSwitch, Goto, Return, IdleCall
  <2>13. ASSUME DeleteReadAbsent(a) PROVE G
    BY <1>0, <2>0, <2>13, InitPwMatch DEF DeleteReadAbsent, Goto, Return, IdleCall
  <2>14. ASSUME DeleteRead(a) PROVE G
    BY <1>0, <2>0, <2>14, InitPwMatch DEF DeleteRead, Goto, Return, IdleCall
  <2>15. ASSUME DeleteBuildNamespaces(a) PROVE G
    BY <1>0, <2>0, <2>15, InitPwMatch DEF DeleteBuildNamespaces, Goto, Return, IdleCall
  <2>16. ASSUME DeleteSetNamespaces(a) PROVE G
    BY <1>0, <2>0, <2>16, InitPwMatch DEF DeleteSetNamespaces, Goto, Return, IdleCall
  <2>17. ASSUME DeleteSwitch(a) PROVE G
    BY <1>0, <2>0, <2>17, InitPwMatch DEF DeleteSwitch, Goto, Return, IdleCall
  <2>18. ASSUME DeleteCloseOld(a) PROVE G
    BY <1>0, <2>0, <2>18, InitPwMatch DEF DeleteCloseOld, Goto, Return, IdleCall
  <2>19. ASSUME PrepareBuildUsers(a) PROVE G
    <3>1. [name |-> adm[a].name, users |-> adm[a].creds] \in Cfg
      BY <2>0, <2>19 DEF PrepareBuildUsers, AdmOK, AdmCall, Cfg
    <3>2. PICK c \in Cfg : c = [name |-> adm[a].name, users |-> adm[a].creds]
      BY <3>1
    <3>3. PICK us \in UserSlot : us = users[adm[a].cur]
      BY <1>0, <2>0
    <3>4. PwMatch(RebuildNamespaceUsers(us, c))
      BY <1>0, <2>0, <3>3, RebuildKeepsPwMatch
    <3>5. adm'[a].usSlot = RebuildNamespaceUsers(us, c)
      BY <2>0, <2>19, <3>2, <3>3 DEF PrepareBuildUsers
    <3>. QED
      BY <1>0, <2>0, <2>19, <3>4, <3>5 DEF PrepareBuildUsers
  <2>20. ASSUME DeleteBuildUsers(a) PROVE G
    <3>1. adm[a].name \in Names
      BY <2>0, <2>20 DEF DeleteBuildUsers, AdmOK
    <3>2. PICK us \in UserSlot : us = users[adm[a].cur]
      BY <1>0, <2>0
    <3>3. PwMatch(ClearNamespaceUsers(us, adm[a].name))
      BY <1>0, <2>0, <3>1, <3>2, ClearKeepsPwMatch
    <3>4. adm'[a].usSlot = ClearNamespaceUsers(us, adm[a].name)
      BY <2>0, <2>20, <3>2 DEF DeleteBuildUsers
    <3>. QED
      BY <1>0, <2>0, <2>20, <3>3, <3>4 DEF DeleteBuildUsers
  <2>21. ASSUME PrepareSetUsers(a) PROVE G
    BY <1>0, <2>0, <2>21, InitPwMatch DEF PrepareSetUsers, Goto
  <2>22. ASSUME DeleteSetUsers(a) PROVE G
    BY <1>0, <2>0, <2>22, InitPwMatch DEF DeleteSetUsers, Goto
  <2>23. G
    BY <2>1, <2>2, <2>3, <2>4, <2>5, <2>6, <2>7, <2>8, <2>9, <2>10, <2>11, <2>12, <2>13, <2>14, <2>15, <2>16, <2>17, <2>18, <2>19, <2>20, <2>21, <2>22
  <2>. QED
    BY <1>0, <2>23 DEF PwInv, BothPwMatch
<1>3. CASE UNCHANGED regVars
  BY <1>0, <1>3 DEF PwInv, BothPwMatch, regVars
<1>. QED
  BY <1>1, <1>2, <1>3 DEF AdminNext

\* CheckPassword and GetNamespaceByUser never disagree: in every reachable
\* state a password accepted for a user has a key in userNamespaces and
\* every key's password is in the user's list, even when prepares, commits
\* and deletes of the admin interleave.
THEOREM PasswordsMatchKeysHolds == RegistrySpec => []PasswordsMatchKeys
<1>1. PwInv => PasswordsMatchKeys
  BY DEF PwInv, BothPwMatch, PwMatch, PasswordsMatchKeys, RegTypeOK, Current, Slots
<1>. QED
  BY <1>1, PwInvInit, PwInvStep, PTL DEF RegistrySpec

-----------------------------------------------------------------------------
(* Refinement: with a serial admin, the slots readers resolve implement    *)
(* RegistryAbstract.  Prepare and the failed or idempotent calls stutter;  *)
(* a commit is an abstract Reload, a delete an abstract Delete.            *)

\* The user map the prepare leaves in the other slot: ClearNamespaceUsers
\* then AddNamespaceUsers rebind the config's name to its credentials.
LEMMA RebuildIsRebind ==
    ASSUME NEW us \in UserSlot, NEW cfg \in Cfg
    PROVE  RebuildNamespaceUsers(us, cfg).ns =
             [c \in Creds |-> IF c \in cfg.users THEN cfg.name
                              ELSE IF us.ns[c] = cfg.name THEN NoNs ELSE us.ns[c]]
BY DEF RebuildNamespaceUsers, AddNamespaceUsers, ClearNamespaceUsers

\* The user map a delete switches to: the name's credentials unbound.
LEMMA ClearIsRebind ==
    ASSUME NEW us \in UserSlot, NEW n
    PROVE  ClearNamespaceUsers(us, n).ns =
             [c \in Creds |-> IF c \in {} THEN n
                              ELSE IF us.ns[c] = n THEN NoNs ELSE us.ns[c]]
BY DEF ClearNamespaceUsers

LEMMA RefInvInit == Init => RefInv
BY IInvInit DEF Init, RefInv

LEMMA RefInvStep == SerialAdmin /\ RefInv /\ [AdminNext]_regVars => RefInv'
<1> SUFFICES ASSUME SerialAdmin, RefInv, [AdminNext]_regVars PROVE RefInv'
  OBVIOUS
<1>0. IInv' /\ IInv /\ RegTypeOK
  BY IInvStep DEF RefInv, IInv
<1>1. ASSUME NEW cfg \in Cfg, ReloadNamespacePrepare(cfg) PROVE RefInv'
  <2> DEFINE m == cfg.name
  <2>1. pending = {} /\ pending' = {m}
    BY <1>1 DEF ReloadNamespacePrepare, AdminIdle
  <2>2. Current' = Current /\ Other' = Other /\ Current # Other /\ Other \in Slots
        /\ Current \in Slots
    BY <1>0, <1>1, SlotsFacts DEF ReloadNamespacePrepare, RegTypeOK
  <2>3. users[Current] \in UserSlot
    BY <1>0, <2>2 DEF RegTypeOK
  <2>4. users'[Current] = users[Current]
        /\ users'[Other] = RebuildNamespaceUsers(users[Current], cfg)
    BY <1>0, <1>1, <2>2 DEF ReloadNamespacePrepare, RegTypeOK
  <2>5. users'[Other'].ns = Abs!Rebind(m, cfg.users)'
    <3>1. PICK us \in UserSlot : us = users[Current]
      BY <2>3
    <3>2. RebuildNamespaceUsers(us, cfg).ns =
             [c \in Creds |-> IF c \in cfg.users THEN m
                              ELSE IF us.ns[c] = m THEN NoNs ELSE us.ns[c]]
      BY RebuildIsRebind
    <3>3. users'[Current'] = us /\ users'[Other'] = RebuildNamespaceUsers(us, cfg)
      BY <3>1, <2>2, <2>4
    <3>. QED
      BY <3>1, <3>2, <3>3 DEF Abs!Rebind, Abs!Creds, Creds
  <2>6. cfg.users \in SUBSET Creds
    BY DEF Cfg
  <2>. QED
    BY <1>0, <2>1, <2>5, <2>6 DEF RefInv, PreparedUsers
<1>2. ASSUME NEW n \in Names, ReloadNamespaceCommit(n) PROVE RefInv'
  BY <1>0, <1>2 DEF ReloadNamespaceCommit, RefInv, IInv
<1>3. ASSUME NEW n \in Names, DeleteNamespace(n) PROVE RefInv'
  BY <1>0, <1>3 DEF DeleteNamespace, AdminIdle, RefInv
<1>5. CASE UNCHANGED regVars
  BY <1>0, <1>5 DEF RefInv, regVars, PreparedUsers, Other, Current, Abs!Rebind
<1>6. ASSUME NEW cfg \in Cfg, ReloadNamespacePrepareFail(cfg) PROVE RefInv'
  BY <1>6, <1>5 DEF ReloadNamespacePrepareFail
<1>7. ASSUME NEW n \in Names, DeleteNamespaceAbsent(n) PROVE RefInv'
  BY <1>7, <1>5 DEF DeleteNamespaceAbsent
<1>. QED
  BY <1>1, <1>2, <1>3, <1>5, <1>6, <1>7, SerialSteps DEF SerialAdminNext

\* CreateManager starts the readers' slots in an abstract initial state.
LEMMA RefineInit == Init => Abs!Init
<1> SUFFICES ASSUME Init PROVE Abs!Init
  OBVIOUS
<1>1. Current = 0
  BY DEF Init, Current
<1>2. PICK failed \in SUBSET InitNs :
        namespaces = [sl \in Slots |->
                        IF sl = 0 THEN CreateNamespaceManager(failed) ELSE EmptyNsSlot]
  BY DEF Init
<1>3. namespaces[Current] = CreateNamespaceManager(failed)
  BY <1>1, <1>2 DEF Slots
<1>4. users[Current].ns = InitUserSlot.ns
  BY <1>1 DEF Init, Slots
<1>. QED
  BY <1>3, <1>4 DEF Abs!Init, CreateNamespaceManager, InitUserSlot, Abs!Creds, Creds

\* Every admin step, under RefInv, is an abstract step or leaves the
\* readers' namespace map and user map unchanged.
LEMMA RefineStep ==
    ASSUME SerialAdmin, RefInv, [AdminNext]_regVars
    PROVE  \/ Abs!Next
           \/ UNCHANGED <<namespaces[Current], users[Current].ns>>
<1>0. IInv /\ RegTypeOK /\ switchIndex \in BOOLEAN
  BY DEF RefInv, IInv, RegTypeOK
<1>1. ASSUME NEW cfg \in Cfg, ReloadNamespacePrepare(cfg)
      PROVE  UNCHANGED <<namespaces[Current], users[Current].ns>>
  <2>1. Current' = Current /\ Other' = Other /\ Current # Other /\ Current \in Slots
        /\ Other \in Slots
    BY <1>0, <1>1, SlotsFacts DEF ReloadNamespacePrepare
  <2>. QED
    BY <1>0, <1>1, <2>1 DEF ReloadNamespacePrepare, RegTypeOK
<1>2. ASSUME NEW n \in Names, ReloadNamespaceCommit(n) PROVE Abs!Next
  <2>1. pending = {n} /\ PreparedSlot(n) /\ PreparedUsers(n)
    BY <1>1, <1>2 DEF ReloadNamespaceCommit, RefInv, IInv
  <2>2. PICK creds \in SUBSET Creds : users[Other].ns = Abs!Rebind(n, creds)
    BY <2>1 DEF PreparedUsers
  <2>3. Current' = Other /\ Other' = Current
    BY <1>0, <1>2, SlotsFacts DEF ReloadNamespaceCommit
  <2>4. namespaces'[Current'] = namespaces[Other] /\ users'[Current'].ns = users[Other].ns
    BY <1>2, <2>3 DEF ReloadNamespaceCommit
  <2> DEFINE g == nextGen[n] - 1
  <2>5. g \in Abs!Gens
    BY <1>0, RegistryAssumption DEF RegTypeOK, Abs!Gens
  <2>6. namespaces[Current][n] # NoNs => g # namespaces[Current][n].gen
    BY <1>0, <2>1, ResolvedType DEF PreparedSlot, GetNamespace
  <2>7. namespaces[Other] =
          [namespaces[Current] EXCEPT ![n] = [gen |-> g,
                                              changeIndex |-> Abs!IndexOf(namespaces[Current][n]) + 1]]
    BY <2>1 DEF PreparedSlot, GetNamespace, IndexOf, Abs!IndexOf
  <2>8. Abs!Reload(n)
    BY <2>2, <2>4, <2>5, <2>6, <2>7 DEF Abs!Reload, Abs!Creds, Creds
  <2>. QED
    BY <2>8 DEF Abs!Next
<1>3. ASSUME NEW n \in Names, DeleteNamespace(n) PROVE Abs!Next
  <2>1. Current' = Other /\ Other' = Current /\ Current \in Slots /\ Other \in Slots
        /\ Current # Other
    BY <1>0, <1>3, SlotsFacts DEF DeleteNamespace
  <2>2. PICK us \in UserSlot : us = users[Current]
    BY <1>0, <2>1 DEF RegTypeOK
  <2>3. ClearNamespaceUsers(us, n).ns =
          [c \in Creds |-> IF c \in {} THEN n ELSE IF us.ns[c] = n THEN NoNs ELSE us.ns[c]]
    BY ClearIsRebind
  <2>4. users'[Current'].ns = Abs!Rebind(n, {})
    BY <1>0, <1>3, <2>1, <2>2, <2>3 DEF DeleteNamespace, RegTypeOK, Abs!Rebind, Abs!Creds, Creds
  <2>5. namespaces'[Current'] = [namespaces[Current] EXCEPT ![n] = NoNs]
    BY <1>0, <1>3, <2>1 DEF DeleteNamespace, RegTypeOK
  <2>6. Abs!Delete(n)
    BY <1>3, <2>4, <2>5 DEF DeleteNamespace, Abs!Delete
  <2>. QED
    BY <2>6 DEF Abs!Next
<1>5. CASE UNCHANGED regVars
  BY <1>5 DEF regVars, Current
<1>6. ASSUME NEW cfg \in Cfg, ReloadNamespacePrepareFail(cfg)
      PROVE  UNCHANGED <<namespaces[Current], users[Current].ns>>
  BY <1>6 DEF ReloadNamespacePrepareFail, regVars, Current
<1>7. ASSUME NEW n \in Names, DeleteNamespaceAbsent(n)
      PROVE  UNCHANGED <<namespaces[Current], users[Current].ns>>
  BY <1>7 DEF DeleteNamespaceAbsent, regVars, Current
<1>. QED
  BY <1>1, <1>2, <1>3, <1>5, <1>6, <1>7, SerialSteps DEF SerialAdminNext

\* With one admin operation at a time, readers see the registry change as
\* RegistryAbstract says: ReloadNamespacePrepare is invisible until its
\* commit, which replaces one namespace by a fresh object with the next
\* change index and rebinds its credentials; DeleteNamespace removes one
\* namespace and unbinds its credentials.
THEOREM RegistryRefinesHolds == SerialAdmin => (RegistrySpec => RegistryRefines)
<1> SUFFICES ASSUME SerialAdmin PROVE RegistrySpec => Abs!Spec
  BY DEF RegistryRefines
<1>1. RefInv /\ [AdminNext]_regVars => RefInv'
  BY RefInvStep
<1>2. RefInv /\ [AdminNext]_regVars
        => [Abs!Next]_<<namespaces[Current], users[Current].ns>>
  BY RefineStep
<1>. QED
  BY RefInvInit, RefineInit, <1>1, <1>2, PTL DEF RegistrySpec, Abs!Spec

=============================================================================
