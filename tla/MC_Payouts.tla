----------------------------- MODULE MC_Payouts -----------------------------
(* Instances of Payouts: two earnings and a driver debt of one user. *)
EXTENDS Payouts, TLC

CONSTANTS t1, t2, earning, second, debt, w1, w2, w3, a1, a2

Amounts == [e \in Entries |->
              CASE e = earning -> 20 [] e = second -> 15 [] OTHER -> -10]
Symm == Permutations({t1, t2}) \cup Permutations({w1, w2, w3})
          \cup Permutations({a1, a2})
=============================================================================
