----------------------------- MODULE Storefront -----------------------------
(***************************************************************************)
(* One seller's storefront: the modules that decide whether the seller may *)
(* trade - Subscriptions, Conduct, Verification - composed with Listings,  *)
(* which depends on all three.  They share the account rows and the pool   *)
(* of requests in flight.                                                  *)
(***************************************************************************)
EXTENDS Subscriptions, Conduct, Verification, Listings

vars == <<account, task, billing, conduct, verification, listings>>

Init ==
    /\ AccountInit
    /\ BillingInit
    /\ ConductInit
    /\ VerificationInit
    /\ ListingsInit

\* A step of one part, which the other parts do not see.
NotBilling == UNCHANGED billing
NotConduct == UNCHANGED conduct
NotVerification == UNCHANGED verification
NotListings == UNCHANGED listings

Billing == BillingNext /\ NotConduct /\ NotVerification /\ NotListings
Judging == ConductNext /\ NotBilling /\ NotVerification /\ NotListings
Verifying == VerificationNext /\ NotBilling /\ NotConduct /\ NotListings
Trading == ListingsNext /\ NotBilling /\ NotConduct /\ NotVerification

Next == Billing \/ Judging \/ Verifying \/ Trading

Spec == Init /\ [][Next]_vars

TypeOK ==
    /\ AccountTypeOK
    /\ BillingTypeOK
    /\ ConductTypeOK
    /\ VerificationTypeOK
=============================================================================
