----------------------------- MODULE PaidAccess -----------------------------
(***************************************************************************)
(* What the subscription gate promises, without Stripe, RevenueCat or      *)
(* webhooks: a seller has access only up to the date a payment covers, and *)
(* the access ends by itself when that date is past.                       *)
(***************************************************************************)
EXTENDS Naturals

VARIABLES
    now,         \* the clock
    paidThrough, \* the latest date a payment covers
    open         \* the seller may trade

vars == <<now, paidThrough, open>>

Init == now = 0 /\ paidThrough = 0 /\ open = FALSE

\* A payment moves the date, and may admit the seller at once.
Pay ==
    /\ paidThrough' \in Nat
    /\ paidThrough' > paidThrough
    /\ paidThrough' > now
    /\ open' \in {open, TRUE}
    /\ UNCHANGED now

Admit ==
    /\ now < paidThrough
    /\ open' = TRUE
    /\ UNCHANGED <<now, paidThrough>>

Bar == open' = FALSE /\ UNCHANGED <<now, paidThrough>>

\* Time passes; it never opens, and it closes what is no longer paid for.
Tick ==
    /\ now' = now + 1
    /\ open' => open /\ now' < paidThrough
    /\ open' \in BOOLEAN
    /\ UNCHANGED paidThrough

Next == Pay \/ Admit \/ Bar \/ Tick
Spec == Init /\ [][Next]_vars
=============================================================================
