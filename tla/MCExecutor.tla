---------------------------- MODULE MCExecutor ----------------------------
(* Model values and constants for checking Executor with TLC.              *)
EXTENDS Executor, TLC

CONSTANTS s1, s2, sl1, sl2, k1, k2, d1, d2

MCSessions == {s1, s2}
MCOneSession == {s1}
MCSlices == {sl1, sl2}
MCConnsOf == [sl \in MCSlices |-> IF sl = sl1 THEN {k1} ELSE {k2}]
MCDbs == {d1}

SessionSymm == Permutations(MCSessions)
=============================================================================
