-------------------------- MODULE RegistryAbstract --------------------------
(***************************************************************************)
(* What the namespace registry promises its readers (spec 4.7): the        *)
(* namespaces and the user -> namespace map change by whole operations,    *)
(* one namespace at a time.  A reload replaces one namespace by a new      *)
(* object whose change index is one more than the one it replaces (0 for   *)
(* an absent one) and replaces that namespace's credentials; a delete      *)
(* removes one namespace and its credentials.                              *)
(***************************************************************************)
EXTENDS Naturals

CONSTANTS Names, Users, Passwords, InitNs, InitUsers, MaxReload, NoNs

VARIABLES reg, auth

Creds == Users \X Passwords
Gens == 0..MaxReload

IndexOf(obj) == IF obj = NoNs THEN 0 ELSE obj.changeIndex

\* The credential map after namespace n's credentials become 'creds'.
Rebind(n, creds) ==
    [c \in Creds |-> IF c \in creds THEN n
                     ELSE IF auth[c] = n THEN NoNs ELSE auth[c]]

Init ==
    /\ \E failed \in SUBSET InitNs :
         reg = [n \in Names |-> IF n \in InitNs \ failed
                                THEN [gen |-> 0, changeIndex |-> 0] ELSE NoNs]
    /\ auth = [c \in Creds |-> IF \E n \in InitNs : c \in InitUsers[n]
                               THEN CHOOSE n \in InitNs : c \in InitUsers[n]
                               ELSE NoNs]

Reload(n) ==
    \E g \in Gens, creds \in SUBSET Creds :
        /\ reg[n] # NoNs => g # reg[n].gen
        /\ reg' = [reg EXCEPT ![n] = [gen |-> g, changeIndex |-> IndexOf(reg[n]) + 1]]
        /\ auth' = Rebind(n, creds)

Delete(n) ==
    /\ reg[n] # NoNs
    /\ reg' = [reg EXCEPT ![n] = NoNs]
    /\ auth' = Rebind(n, {})

Next == \E n \in Names : Reload(n) \/ Delete(n)

Spec == Init /\ [][Next]_<<reg, auth>>

=============================================================================
