------------------------------- MODULE Catalog -------------------------------
(***************************************************************************)
(* A seller's purchase from the kitchen catalog: one CatalogOrder, its     *)
(* payment, and the after-sales claims and refunds on it.                  *)
(*                                                                         *)
(* Code: CatalogService (createOrder, confirmPayment),                     *)
(* CatalogClaimsService (createClaim and the admin handlers), and          *)
(* markCatalogOrderPaid / markCatalogOrderFailed of the Stripe webhook.    *)
(*                                                                         *)
(* A request in flight is a TASK; every await is an interleaving point.    *)
(***************************************************************************)
EXTENDS Integers, FiniteSetsExt

CONSTANTS
    Tasks,      \* requests that may be in flight at once
    ClaimIds,   \* bound on the claims: the ids generateUlid may return
    ClaimTypes, \* the claim types sellers use
    TotalCents, \* what the order costs, from its items' snapshots
    Amounts,    \* refund amounts an admin may give; the default is TotalCents
    NoClaim,
    Faults      \* which failures may happen, a subset of FaultKinds

\* "stripe": a call is refused; "timeout": it is carried out but its answer is
\* lost; "db": a statement throws or the process dies; "decline": a payment
\* attempt is declined.
FaultKinds == {"stripe", "timeout", "db", "decline"}

ASSUME CatalogAssumption ==
    /\ TotalCents \in Nat \ {0}
    /\ Amounts \subseteq Nat \ {0}
    /\ NoClaim \notin ClaimIds
    /\ Faults \subseteq FaultKinds

VARIABLES
    status,   \* CatalogOrder.status; "none" before the row exists
    intentId, \* CatalogOrder.stripePaymentIntentId is set
    window,   \* the 14 days after CatalogOrder.paidAt
    intent,   \* Stripe: the PaymentIntent
    events,   \* payment_intent events Stripe has sent, and may send again
    claim,    \* the CatalogClaim rows
    refunded, \* Stripe: cents given back under the key of each claim
    task

order == <<status, intentId, window>>
payment == <<intent, events>>
vars == <<order, payment, claim, refunded, task>>

\* OPEN_CLAIM_STATUSES, and all of them.
OpenStatuses == {"OPEN", "ADMIN_REVIEW", "REPLACEMENT_REQUESTED"}
ClaimStatuses == OpenStatuses \cup {"none", "REFUNDED", "REJECTED", "RESOLVED"}

\* A claim's refund is its refundAmountCents once its stripeRefundId is set.
NoRow == [status |-> "none", type |-> "none", refund |-> 0]
Idle == [pc |-> "idle", type |-> "none", claim |-> NoClaim, amount |-> 0]

Init ==
    /\ status = "none"
    /\ intentId = FALSE
    /\ window = "none"
    /\ intent = "none"
    /\ events = {}
    /\ claim = [c \in ClaimIds |-> NoRow]
    /\ refunded = [c \in ClaimIds |-> 0]
    /\ task = [t \in Tasks |-> Idle]

At(t, pc) == task[t].pc = pc
Goto(t, pc) == task' = [task EXCEPT ![t].pc = pc]
Done(t) == task' = [task EXCEPT ![t] = Idle]

-----------------------------------------------------------------------------
(* CatalogService *)

\* createOrder: the products are priced and the order inserted.
CreateOrder(t) ==
    /\ task[t] = Idle
    /\ status = "none"
    /\ status' = "PENDING"
    /\ Goto(t, "createIntent")
    /\ UNCHANGED <<intentId, window, payment, claim, refunded>>

\* The customer is ensured and the PaymentIntent created, or Stripe refuses.
CreatePaymentIntent(t) ==
    /\ At(t, "createIntent")
    /\ \/ intent' = "open" /\ (Goto(t, "storeIntent") \/ ("timeout" \in Faults /\ Done(t)))
       \/ "stripe" \in Faults /\ Done(t) /\ UNCHANGED intent
    /\ UNCHANGED <<order, events, claim, refunded>>

StorePaymentIntent(t) ==
    /\ At(t, "storeIntent")
    /\ intentId' = TRUE
    /\ Done(t)
    /\ UNCHANGED <<status, window, payment, claim, refunded>>

\* confirmPayment: a PAID order is returned as it is, one without a payment is
\* refused, any other is looked up at Stripe.
ConfirmPayment(t) ==
    /\ task[t] = Idle
    /\ status \notin {"none", "PAID"}
    /\ intentId
    /\ Goto(t, "retrieve")
    /\ UNCHANGED <<order, payment, claim, refunded>>

RetrieveIntent(t) ==
    /\ At(t, "retrieve")
    /\ IF intent = "paid" THEN Goto(t, "writePaid") ELSE Done(t)
    /\ UNCHANGED <<order, payment, claim, refunded>>

\* PAID is written by id, whatever the status is by now; paidAt is now.
WritePaid(t) ==
    /\ At(t, "writePaid")
    /\ status' = "PAID"
    /\ window' = "open"
    /\ Done(t)
    /\ UNCHANGED <<intentId, payment, claim, refunded>>

-----------------------------------------------------------------------------
(* Stripe and its webhook *)

SellerPays ==
    /\ intent = "open"
    /\ intent' = "paid"
    /\ events' = events \cup {"succeeded"}
    /\ UNCHANGED <<order, claim, refunded, task>>

\* The attempt fails; the PaymentIntent can be tried again.
CardDeclined ==
    /\ "decline" \in Faults
    /\ intent = "open"
    /\ "failed" \notin events
    /\ events' = events \cup {"failed"}
    /\ UNCHANGED <<order, intent, claim, refunded, task>>

\* Mutant: the order is found by its stored PaymentIntent only.
MarkStoredOrderPaid ==
    /\ "succeeded" \in events
    /\ status = "PENDING"
    /\ intentId
    /\ status' = "PAID"
    /\ window' = "open"
    /\ UNCHANGED <<intentId, payment, claim, refunded, task>>

\* payment_intent.succeeded: the order named in the metadata becomes PAID in
\* one conditional update, which also stores the PaymentIntent.
MarkCatalogOrderPaid ==
    /\ "succeeded" \in events
    /\ status = "PENDING"
    /\ status' = "PAID"
    /\ window' = "open"
    /\ intentId' = TRUE
    /\ UNCHANGED <<payment, claim, refunded, task>>

MarkCatalogOrderFailed ==
    /\ "failed" \in events
    /\ status = "PENDING"
    /\ status' = "FAILED"
    /\ UNCHANGED <<intentId, window, payment, claim, refunded, task>>

\* Fourteen days pass.
WindowCloses ==
    /\ window = "open"
    /\ window' = "closed"
    /\ UNCHANGED <<status, intentId, payment, claim, refunded, task>>

-----------------------------------------------------------------------------
(* CatalogClaimsService *)

\* createClaim: the order must be PAID and within its window.
CreateClaim(t, type) ==
    /\ task[t] = Idle
    /\ status = "PAID"
    /\ window = "open"
    /\ task' = [task EXCEPT ![t].pc = "findOpen", ![t].type = type]
    /\ UNCHANGED <<order, payment, claim, refunded>>

\* An open claim of the same type is a 400.
FindOpenClaim(t) ==
    /\ At(t, "findOpen")
    /\ IF \E c \in ClaimIds : claim[c].type = task[t].type /\ claim[c].status \in OpenStatuses
       THEN Done(t)
       ELSE Goto(t, "insertClaim")
    /\ UNCHANGED <<order, payment, claim, refunded>>

InsertClaim(t) ==
    /\ At(t, "insertClaim")
    /\ \E c \in ClaimIds :
         /\ claim[c] = NoRow
         /\ claim' = [claim EXCEPT ![c] = [status |-> "OPEN", type |-> task[t].type,
                                           refund |-> 0]]
    /\ Done(t)
    /\ UNCHANGED <<order, payment, refunded>>

\* adminRefund: a claim that is refunded already is returned as it is.
AdminRefund(t, c, amount) ==
    /\ task[t] = Idle
    /\ claim[c].status \notin {"none", "REFUNDED"}
    /\ claim[c].refund = 0
    /\ task' = [task EXCEPT ![t].pc = "refundOrder", ![t].claim = c, ![t].amount = amount]
    /\ UNCHANGED <<order, payment, claim, refunded>>

\* A REFUNDED order is a 400; without a PaymentIntent the claim is left to the
\* admins (PaidMeansCharged: that never happens).
RefundReadOrder(t) ==
    /\ At(t, "refundOrder")
    /\ IF status = "REFUNDED"
       THEN Done(t) /\ UNCHANGED claim
       ELSE IF intentId
       THEN Goto(t, "refundCreate") /\ UNCHANGED claim
       ELSE /\ claim' = [claim EXCEPT ![task[t].claim].status = "ADMIN_REVIEW"]
            /\ Done(t)
    /\ UNCHANGED <<order, payment, refunded>>

\* What Stripe has given back in all.
Given == MapThenSumSet(LAMBDA c : refunded[c], ClaimIds)

\* Mutant: the idempotency key is new on every call.
RefundCreateUnkeyed(t) ==
    /\ At(t, "refundCreate")
    /\ \/ /\ Given + task[t].amount <= TotalCents
          /\ refunded' = [refunded EXCEPT ![task[t].claim] = @ + task[t].amount]
          /\ Goto(t, "markOrder") \/ ("timeout" \in Faults /\ Done(t))
       \/ Done(t) /\ UNCHANGED refunded
    /\ UNCHANGED <<order, payment, claim>>

\* The refund is keyed by the claim: a repeated call gets the first refund, one
\* with another amount an error.  Stripe never gives back more than was paid.
RefundCreate(t) ==
    /\ At(t, "refundCreate")
    /\ \/ /\ refunded[task[t].claim] = 0
          /\ Given + task[t].amount <= TotalCents
          /\ refunded' = [refunded EXCEPT ![task[t].claim] = task[t].amount]
          /\ Goto(t, "markOrder") \/ ("timeout" \in Faults /\ Done(t))
       \/ /\ refunded[task[t].claim] = task[t].amount
          /\ Goto(t, "markOrder")
          /\ UNCHANGED refunded
       \/ /\ \/ "stripe" \in Faults
             \/ refunded[task[t].claim] \notin {0, task[t].amount}
             \/ refunded[task[t].claim] = 0 /\ Given + task[t].amount > TotalCents
          /\ Done(t)
          /\ UNCHANGED refunded
    /\ UNCHANGED <<order, payment, claim>>

MarkOrderRefunded(t) ==
    /\ At(t, "markOrder")
    /\ status' = "REFUNDED"
    /\ Goto(t, "markClaim")
    /\ UNCHANGED <<intentId, window, payment, claim, refunded>>

MarkClaimRefunded(t) ==
    /\ At(t, "markClaim")
    /\ claim' = [claim EXCEPT ![task[t].claim].status = "REFUNDED",
                              ![task[t].claim].refund = task[t].amount]
    /\ Done(t)
    /\ UNCHANGED <<order, payment, refunded>>

\* The other admin handlers write their status whatever it was.
Decide(c, s) ==
    /\ claim[c].status # "none"
    /\ claim' = [claim EXCEPT ![c].status = s]
    /\ UNCHANGED <<order, payment, refunded, task>>

AdminRequestReplacement(c) == Decide(c, "REPLACEMENT_REQUESTED")
AdminReject(c) == Decide(c, "REJECTED")
AdminResolve(c) == Decide(c, "RESOLVED")

-----------------------------------------------------------------------------
\* A statement throws, or the process dies.
Abort(t) ==
    /\ "db" \in Faults
    /\ task[t] # Idle
    /\ Done(t)
    /\ UNCHANGED <<order, payment, claim, refunded>>

Step(t) ==
    \/ CreatePaymentIntent(t) \/ StorePaymentIntent(t)
    \/ RetrieveIntent(t) \/ WritePaid(t)
    \/ FindOpenClaim(t) \/ InsertClaim(t)
    \/ RefundReadOrder(t) \/ RefundCreate(t)
    \/ MarkOrderRefunded(t) \/ MarkClaimRefunded(t)

Next ==
    \/ \E t \in Tasks :
         \/ CreateOrder(t) \/ ConfirmPayment(t)
         \/ \E type \in ClaimTypes : CreateClaim(t, type)
         \/ \E c \in ClaimIds, a \in Amounts \cup {TotalCents} : AdminRefund(t, c, a)
         \/ Step(t)
         \/ Abort(t)
    \/ SellerPays \/ CardDeclined
    \/ MarkCatalogOrderPaid \/ MarkCatalogOrderFailed \/ WindowCloses
    \/ \E c \in ClaimIds :
         AdminRequestReplacement(c) \/ AdminReject(c) \/ AdminResolve(c)

Spec == Init /\ [][Next]_vars

\* Stripe delivers an event until it is handled.
FairSpec == Spec /\ WF_vars(MarkCatalogOrderPaid)

-----------------------------------------------------------------------------
(* Properties *)

TaskType ==
    [pc : {"idle", "createIntent", "storeIntent", "retrieve", "writePaid", "findOpen",
           "insertClaim", "refundOrder", "refundCreate", "markOrder", "markClaim"},
     type : ClaimTypes \cup {"none"}, claim : ClaimIds \cup {NoClaim}, amount : Nat]
TypeOK ==
    /\ status \in {"none", "PENDING", "PAID", "FAILED", "REFUNDED"}
    /\ intentId \in BOOLEAN
    /\ window \in {"none", "open", "closed"}
    /\ intent \in {"none", "open", "paid"}
    /\ events \subseteq {"succeeded", "failed"}
    /\ claim \in [ClaimIds -> [status : ClaimStatuses, type : ClaimTypes \cup {"none"},
                               refund : Nat]]
    /\ refunded \in [ClaimIds -> Nat]
    /\ task \in [Tasks -> TaskType]

\* "Stripe is the source of truth for PAID" (schema): a PAID or REFUNDED order
\* has been charged and knows its PaymentIntent, so that adminRefund's branch
\* for an order without one is never taken.
PaidMeansCharged ==
    status \in {"PAID", "REFUNDED"} => intent = "paid" /\ intentId

\* What a claim books as refunded is what Stripe gave back for it, although a
\* refund may be repeated after a lost answer or a crash, with another amount,
\* and race another refund or a decision on the same claim (adminRefund).
BookedIsRefunded ==
    \A c \in ClaimIds :
      claim[c].refund > 0 \/ claim[c].status = "REFUNDED" =>
        /\ refunded[c] > 0
        /\ claim[c].refund = refunded[c]

\* "The webhook is the backstop" (confirmPayment): a charge shows on the order
\* even when the process died before it stored the PaymentIntent, unless a
\* declined attempt made the order FAILED.
ChargeIsSeen ==
    intent = "paid" /\ "failed" \notin events ~> status \in {"PAID", "REFUNDED"}

\* "Avoids double refunds" (adminRefund), "guards against double refunds"
\* (CatalogOrder.stripeRefundId): an order is refunded for one claim.  Violated.
OneRefundPerOrder ==
    \A c, d \in ClaimIds : refunded[c] > 0 /\ refunded[d] > 0 => c = d

\* "14-day window from payment" (createClaim): once over, it stays over.
\* Violated: confirmPayment dates a refunded order's payment anew.
WindowStaysClosed == [][window = "closed" => window' = "closed"]_vars
=============================================================================
