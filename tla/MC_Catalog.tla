----------------------------- MODULE MC_Catalog -----------------------------
(* Instances of Catalog: two claims, which may be refunded in part. *)
EXTENDS Catalog, TLC

CONSTANTS t1, t2, c1, c2
=============================================================================
