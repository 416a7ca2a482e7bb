---------------------------- MODULE MC_OrderFlow ----------------------------
(***************************************************************************)
(* OrderFlow for TLC, with a single handler slot: handlers run one after   *)
(* the other, and everything that is left to go wrong is a failure (a      *)
(* crash, a failed statement, Stripe or Redis being down).  The liveness   *)
(* properties are checked here too.                                        *)
(***************************************************************************)
EXTENDS OrderFlow

\* Model values: the slot and two drivers.
CONSTANTS t1, d1, d2
=============================================================================
