---------------------------- MODULE MCTaskEngine ----------------------------
(* TaskEngine on small instances. *)
EXTENDS TaskEngine, TLC

CONSTANTS plan, copy1, copy2, k1, k2, op1, op2, w1, w2

MCSymmetry ==
    Permutations({op1, op2}) \cup Permutations({copy1, copy2}) \cup Permutations({k1, k2}) \cup Permutations({w1, w2})
=============================================================================
