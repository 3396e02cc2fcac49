----------------------------- MODULE MCSession -----------------------------
(* Model-checking instance of Session: one keep-session namespace, one     *)
(* user with two passwords (one configured), two client sessions and one   *)
(* backend slice.                                                          *)
EXTENDS Session, TLC

CONSTANTS n1, u1, p1, p2, c1, c2, sl1

MCNames == {n1}
MCUsers == {u1}
MCPasswords == {p1, p2}
MCInitNs == {n1}
MCInitUsers == [n \in MCNames |-> {<<u1, p1>>}]
MCSessions == {c1, c2}
MCSlices == {sl1}
MCKeepSession == [n \in MCNames |-> TRUE]
Symm == Permutations(MCSessions)

=============================================================================
