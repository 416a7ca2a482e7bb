----------------------------- MODULE MC_Disputes -----------------------------
(* Instances of Disputes. *)
EXTENDS Disputes, TLC

CONSTANTS t1, t2, d1, d2, c1

Symm == Permutations({t1, t2}) \cup Permutations({d1, d2})
=============================================================================
