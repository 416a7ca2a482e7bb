----------------------------- MODULE Community ------------------------------
(***************************************************************************)
(* What the people of the marketplace share besides orders: their accounts *)
(* and addresses, the terms they accept, the messages they exchange, the   *)
(* driver on the map, the reports they file, and the pushes that announce  *)
(* these.  The parts share the pool of requests in flight and the device   *)
(* tokens; LegalDocuments, Messaging and Tracking end in a push.           *)
(***************************************************************************)
EXTENDS Accounts, Addresses, LegalDocuments, Messaging, Tracking, Reports

vars == <<task, accounts, addresses, push, legal, messaging, tracking, reports>>

Init ==
    /\ RequestsInit
    /\ AccountsInit
    /\ AddressesInit
    /\ PushInit
    /\ LegalInit
    /\ MessagingInit
    /\ TrackingInit
    /\ ReportsInit

Accounting == AccountsNext /\ UNCHANGED <<addresses, push, legal, messaging, tracking, reports>>
Locating == AddressesNext /\ UNCHANGED <<accounts, push, legal, messaging, tracking, reports>>
Pushing == PushNext /\ UNCHANGED <<accounts, addresses, legal, messaging, tracking, reports>>
Legislating == LegalNext /\ UNCHANGED <<accounts, addresses, messaging, tracking, reports>>
Chatting == MessagingNext /\ UNCHANGED <<accounts, addresses, legal, tracking, reports>>
Following == TrackingNext /\ UNCHANGED <<accounts, addresses, legal, messaging, reports>>
Moderating == ReportsNext /\ UNCHANGED <<accounts, addresses, push, legal, messaging, tracking>>

Next == Accounting \/ Locating \/ Pushing \/ Legislating \/ Chatting \/ Following \/ Moderating

Spec == Init /\ [][Next]_vars
=============================================================================
