----------------------------- MODULE MCRegistry -----------------------------
(* Model-checking instance of Registry: two namespaces, one user with two  *)
(* passwords, and two admin goroutines when admin calls run concurrently.  *)
EXTENDS Registry, TLC

CONSTANTS n1, n2, u1, p1, p2, a1, a2

MCNames == {n1, n2}
MCUsers == {u1}
MCPasswords == {p1, p2}
MCInitNs == {n1, n2}
MCInitUsers == [n \in Names |-> IF n = n1 THEN {<<u1, p1>>} ELSE {<<u1, p2>>}]
MCAdmins == {a1, a2}
\* Concurrent admin: one namespace, reloaded with either password for u1;
\* the admin goroutines are interchangeable.
MCOneName == {n1}
MCCfg == {[name |-> n1, users |-> {<<u1, p>>}] : p \in MCPasswords}
AdminSymm == Permutations(MCAdmins)

=============================================================================
