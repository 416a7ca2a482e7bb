---------------------------- MODULE MC_Checkout ----------------------------
(***************************************************************************)
(* Checkout for TLC: one listing of two portions is wanted together with   *)
(* another, in both orders, and alone by a cart that names it twice.       *)
(***************************************************************************)
EXTENDS Checkout, TLC

\* Model values: slots, buyers, keys, listings and order ids.
CONSTANTS t1, t2, u1, k1, k2, l1, l2, o1, o2, o3

Item(l, q) == [listing |-> l, quantity |-> q]
CrossedCarts ==
    {<<Item(l1, 1), Item(l2, 1)>>, <<Item(l2, 1), Item(l1, 1)>>,
     <<Item(l1, 1), Item(l1, 1)>>}
OneCart == {<<Item(l1, 1)>>}

\* Slots, keys and order ids are interchangeable; listings are not.
Symm == Permutations(Tasks) \cup Permutations(Keys) \cup Permutations(OrderIds)
=============================================================================
