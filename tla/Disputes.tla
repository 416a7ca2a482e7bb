------------------------------ MODULE Disputes ------------------------------
(***************************************************************************)
(* Claims on one order: the buyer's disputes, the admin's decisions, Stripe *)
(* chargebacks, the refund they lead to, and the release of the seller's   *)
(* earning that goes on meanwhile.                                         *)
(*                                                                         *)
(* Code: OrdersService.createDispute, adminApproveRefund and the other     *)
(* admin handlers, refundForDispute, refundOrderIfNeeded; handleCharge-    *)
(* Dispute of the Stripe webhook; StrikesService.addStrike; WalletsService *)
(* .releaseDuePendingEntries.  What happens to the order before is         *)
(* OrderFlow; here it is delivered in one step.                            *)
(*                                                                         *)
(* A handler in flight is a TASK; every await is an interleaving point.    *)
(***************************************************************************)
EXTENDS Naturals, FiniteSets

CONSTANTS
    Tasks,        \* handlers that may be in flight at once
    Claims,       \* the claim types the buyer uses, a subset of ClaimTypes
    DisputeIds,   \* bound on the OrderDispute rows
    Chargebacks,  \* bound on the Stripe disputes of the charge
    NoDispute, NoChargeback,
    HasDelivery,  \* FALSE: a PICKUP order, which has no Delivery row
    MaxStrikes,   \* bound: strikes of one reason are counted up to this
    Faults        \* a subset of {"stripe", "db"}

ClaimTypes == {"NEVER_RECEIVED", "WRONG_ORDER", "SPOILED_FOOD", "FOOD_POISONING",
               "SUBJECTIVE_DISSATISFACTION", "ALLERGEN_FALSE_DECLARATION"}
StrikeReasons == {"WRONG_ORDER", "ALLERGEN_FALSE_DECLARATION", "FRAUDULENT_CHARGEBACK"}

ASSUME DisputesAssumption ==
    /\ Claims \subseteq ClaimTypes
    /\ NoDispute \notin DisputeIds
    /\ NoChargeback \notin Chargebacks
    /\ HasDelivery \in BOOLEAN
    /\ MaxStrikes \in Nat
    /\ Faults \subseteq {"stripe", "db"}

VARIABLES
    status,    \* Order.status
    delivered, \* the order was handed over: with HasDelivery, there is proof
    late,      \* 24 hours have passed since
    earning,   \* status of the seller's WalletEntry
    hasIntent, \* Order.stripePaymentIntentId is set
    refundId,  \* Order.stripeRefundId is set
    charge,    \* Stripe: the charge
    opened,    \* Stripe: the chargebacks of the charge
    disputes,  \* the OrderDispute rows
    strikes,   \* how many Strike rows each reason has for this order
    approvals, \* the disputes an admin has approved a refund of
    task       \* the handlers in flight

order == <<status, delivered, late, hasIntent>>
money == <<earning, refundId, charge, opened>>
vars == <<order, money, disputes, strikes, approvals, task>>

NoRow == [type |-> "none", status |-> "none", approved |-> FALSE, stripe |-> NoChargeback]
Idle == [pc |-> "idle", op |-> "none", type |-> "none", proven |-> FALSE,
         dispute |-> NoDispute, stripe |-> NoChargeback]

\* A paid order on its way, or one that was cancelled without being paid.
Init ==
    /\ \/ status = "CONFIRMED" /\ charge = "paid"
       \/ status = "CANCELLED" /\ charge = "unpaid"
    /\ hasIntent \in BOOLEAN
    /\ delivered = FALSE
    /\ late = FALSE
    /\ earning = "none"
    /\ refundId = FALSE
    /\ opened = {}
    /\ disputes = [d \in DisputeIds |-> NoRow]
    /\ strikes = [r \in StrikeReasons |-> 0]
    /\ approvals = {}
    /\ task = [t \in Tasks |-> Idle]

-----------------------------------------------------------------------------
(* Helpers *)

At(t, pc) == task[t].pc = pc
Goto(t, pc) == task' = [task EXCEPT ![t].pc = pc]
Done(t) == task' = [task EXCEPT ![t] = Idle]
Start(t, k) == task[t] = Idle /\ task' = [task EXCEPT ![t] = k]

Rows == {d \in DisputeIds : disputes[d] # NoRow}
Decided == {"RESOLVED", "REJECTED"}

\* The bound on the rows: one is left for every handler that will insert one.
Room ==
    Cardinality({t \in Tasks : task[t].pc \in {"existing", "insert", "insertChargeback"}})
      < Cardinality(DisputeIds \ Rows)

\* The order is handed over, its earning is credited PENDING (OrderFlow).
Deliver ==
    /\ status = "CONFIRMED"
    /\ status' = "DELIVERED"
    /\ delivered' = TRUE
    /\ earning' = "PENDING"
    /\ UNCHANGED <<late, hasIntent, refundId, charge, opened, disputes, strikes,
                   approvals, task>>

ADayPasses ==
    /\ delivered /\ ~late
    /\ late' = TRUE
    /\ UNCHANGED <<status, delivered, hasIntent, money, disputes, strikes, approvals,
                   task>>

-----------------------------------------------------------------------------
(* POST /orders/:id/disputes: createDispute *)

\* Order and delivery are read.  Only an unpaid (PENDING) order and a claim more
\* than 24 hours after a delivery are refused here.
CreateDispute(t, type) ==
    /\ Room
    /\ ~(status = "DELIVERED" /\ HasDelivery /\ late)
    /\ Start(t, [Idle EXCEPT !.pc = "existing", !.op = "create", !.type = type,
                             !.proven = delivered /\ HasDelivery])
    /\ UNCHANGED <<order, money, disputes, strikes, approvals>>

\* "No duplicate active dispute for the same order + type."
FindExisting(t) ==
    /\ At(t, "existing")
    /\ IF \E d \in Rows : disputes[d].type = task[t].type
                            /\ disputes[d].status \in {"OPEN", "ADMIN_REVIEW"}
       THEN Done(t)
       ELSE Goto(t, "insert")
    /\ UNCHANGED <<order, money, disputes, strikes, approvals>>

\* Mutant: spoiled food is refunded without an admin.
AutoRefundSpoiled(type, proven) ==
    \/ type \in {"WRONG_ORDER", "SPOILED_FOOD"}
    \/ type = "NEVER_RECEIVED" /\ ~proven

\* The decision: which claims are refunded at once, and the status of the row.
AutoRefund(type, proven) ==
    \/ type = "WRONG_ORDER"
    \/ type = "NEVER_RECEIVED" /\ ~proven
DecidedStatus(type, proven) ==
    IF AutoRefund(type, proven) THEN "AUTO_REFUNDED"
    ELSE IF type = "SUBJECTIVE_DISSATISFACTION" THEN "REJECTED"
    ELSE "ADMIN_REVIEW"

InsertDispute(t) ==
    LET k == task[t]
        auto == AutoRefund(k.type, k.proven)
    IN  /\ At(t, "insert")
        /\ \E d \in DisputeIds \ Rows :
             /\ disputes' = [disputes EXCEPT ![d] =
                               [type |-> k.type,
                                status |-> DecidedStatus(k.type, k.proven),
                                approved |-> auto, stripe |-> NoChargeback]]
             /\ task' = [task EXCEPT ![t] =
                           IF auto THEN [k EXCEPT !.pc = "refund", !.dispute = d]
                           ELSE Idle]
        /\ UNCHANGED <<order, money, strikes, approvals>>

-----------------------------------------------------------------------------
(* refundForDispute *)

\* refundOrderIfNeeded: an order that has a refund, or no PaymentIntent, is left
\* alone.
RefundRead(t) ==
    /\ At(t, "refund")
    /\ Goto(t, IF refundId \/ ~hasIntent THEN "markRefunded" ELSE "refundCreate")
    /\ UNCHANGED <<order, money, disputes, strikes, approvals>>

\* Stripe refunds the charge, or refuses: it was not paid, was refunded already,
\* or is charged back.  A refusal is logged and audited, not thrown.
RefundCreate(t) ==
    /\ At(t, "refundCreate")
    /\ \/ /\ charge = "paid" /\ opened = {}
          /\ charge' = "refunded"
          /\ Goto(t, "refundRecord")
       \/ /\ charge # "paid" \/ opened # {} \/ "stripe" \in Faults
          /\ Goto(t, "markRefunded")
          /\ UNCHANGED charge
    /\ UNCHANGED <<order, earning, refundId, opened, disputes, strikes, approvals>>

\* The refund's id is stored, and when that fails, only logged.
RefundRecord(t) ==
    /\ At(t, "refundRecord")
    /\ refundId' = TRUE \/ ("db" \in Faults /\ UNCHANGED refundId)
    /\ Goto(t, "reverse")
    /\ UNCHANGED <<order, earning, charge, opened, disputes, strikes, approvals>>

ReversePending(t) ==
    /\ At(t, "reverse")
    /\ earning' = IF earning = "PENDING" THEN "CANCELLED" ELSE earning
    /\ Goto(t, "markRefunded")
    /\ UNCHANGED <<order, refundId, charge, opened, disputes, strikes, approvals>>

\* The order becomes REFUNDED.  A buyer's claim goes on with the seller's strike,
\* an admin's approval with the dispute row.
MarkRefunded(t) ==
    /\ At(t, "markRefunded")
    /\ status' = "REFUNDED"
    /\ \/ task[t].op = "approve" /\ Goto(t, "resolve")
       \/ task[t].op = "create" /\ task[t].type = "WRONG_ORDER" /\ Goto(t, "strike")
       \/ task[t].op = "create" /\ task[t].type # "WRONG_ORDER" /\ Done(t)
    /\ UNCHANGED <<delivered, late, hasIntent, money, disputes, strikes, approvals>>

-----------------------------------------------------------------------------
(* addStrike *)

Reason(k) ==
    CASE k.op = "create"   -> "WRONG_ORDER"
      [] k.op = "allergen" -> "ALLERGEN_FALSE_DECLARATION"
      [] OTHER             -> "FRAUDULENT_CHARGEBACK"

\* After the strike, or its failure, the claim ends or the admin's dispute is
\* resolved.
AfterStrike(t) == IF task[t].op = "create" THEN Done(t) ELSE Goto(t, "resolve")

\* One strike per user, role, reason and order is looked for ...
AddStrikeCheck(t) ==
    /\ At(t, "strike")
    /\ IF strikes[Reason(task[t])] > 0 THEN AfterStrike(t) ELSE Goto(t, "strikeCreate")
    /\ UNCHANGED <<order, money, disputes, strikes, approvals>>

\* ... and created when there was none.
AddStrikeCreate(t) ==
    /\ At(t, "strikeCreate")
    /\ \/ strikes' = [strikes EXCEPT ![Reason(task[t])] =
                        IF @ < MaxStrikes THEN @ + 1 ELSE @]
       \/ "db" \in Faults /\ UNCHANGED strikes
    /\ AfterStrike(t)
    /\ UNCHANGED <<order, money, disputes, approvals>>

-----------------------------------------------------------------------------
(* /admin/disputes/:id *)

AdminApproveRefund(t, d) ==
    /\ d \in Rows
    /\ Start(t, [Idle EXCEPT !.pc = "refund", !.op = "approve", !.dispute = d])
    /\ approvals' = approvals \cup {d}
    /\ UNCHANGED <<order, money, disputes, strikes>>

\* Both confirmations strike first: the seller for a false allergen declaration,
\* the buyer for a fraudulent chargeback.  Neither looks at the dispute's type.
AdminConfirm(t, d, op) ==
    /\ d \in Rows
    /\ Start(t, [Idle EXCEPT !.pc = "strike", !.op = op, !.dispute = d])
    /\ UNCHANGED <<order, money, disputes, strikes, approvals>>

AdminConfirmAllergenViolation(t, d) == AdminConfirm(t, d, "allergen")
AdminConfirmFraudulentChargeback(t, d) == AdminConfirm(t, d, "fraud")

\* The last write of an approval or a confirmation.
WriteResolved(t) ==
    /\ At(t, "resolve")
    /\ disputes' = [disputes EXCEPT
                      ![task[t].dispute].status = "RESOLVED",
                      ![task[t].dispute].approved = @ \/ task[t].op = "approve"]
    /\ Done(t)
    /\ UNCHANGED <<order, money, strikes, approvals>>

AdminRejectDispute(d) ==
    /\ d \in Rows
    /\ disputes' = [disputes EXCEPT ![d].status = "REJECTED"]
    /\ UNCHANGED <<order, money, strikes, approvals, task>>

AdminResolveDispute(d) ==
    /\ d \in Rows
    /\ disputes' = [disputes EXCEPT ![d].status = "RESOLVED"]
    /\ UNCHANGED <<order, money, strikes, approvals, task>>

-----------------------------------------------------------------------------
(* charge.dispute.* *)

ChargebackOpened(c) ==
    /\ charge = "paid"
    /\ c \notin opened
    /\ opened' = opened \cup {c}
    /\ UNCHANGED <<order, earning, refundId, charge, disputes, strikes, approvals, task>>

\* Mutant: a later event of a chargeback puts it back to review.
ChargeDisputeReopens(t, c) ==
    /\ c \in opened
    /\ hasIntent
    /\ IF \E d \in Rows : disputes[d].stripe = c
       THEN /\ disputes' = [d \in DisputeIds |->
                              IF disputes[d].stripe = c
                              THEN [disputes[d] EXCEPT !.status = "ADMIN_REVIEW"]
                              ELSE disputes[d]]
            /\ UNCHANGED task
       ELSE /\ Room
            /\ Start(t, [Idle EXCEPT !.pc = "insertChargeback", !.op = "chargeback",
                                     !.stripe = c])
            /\ UNCHANGED disputes
    /\ UNCHANGED <<order, money, strikes, approvals>>

\* An event of the chargeback arrives, perhaps again.  The order is found by its
\* PaymentIntent; a row that exists only has its payload refreshed.
HandleChargeDispute(t, c) ==
    /\ Room
    /\ c \in opened
    /\ hasIntent
    /\ ~\E d \in Rows : disputes[d].stripe = c
    /\ Start(t, [Idle EXCEPT !.pc = "insertChargeback", !.op = "chargeback",
                             !.stripe = c])
    /\ UNCHANGED <<order, money, disputes, strikes, approvals>>

\* stripeDisputeId is unique: the second of two inserts throws.
InsertChargeback(t) ==
    /\ At(t, "insertChargeback")
    /\ \/ /\ ~\E d \in Rows : disputes[d].stripe = task[t].stripe
          /\ \E d \in DisputeIds \ Rows :
               disputes' = [disputes EXCEPT ![d] =
                              [type |-> "CHARGEBACK", status |-> "ADMIN_REVIEW",
                               approved |-> FALSE, stripe |-> task[t].stripe]]
       \/ /\ \E d \in Rows : disputes[d].stripe = task[t].stripe
          /\ UNCHANGED disputes
    /\ Done(t)
    /\ UNCHANGED <<order, money, strikes, approvals>>

-----------------------------------------------------------------------------
(* releaseDuePendingEntries *)

ReleaseDuePendingEntries(t) ==
    /\ earning = "PENDING" /\ late
    /\ Start(t, [Idle EXCEPT !.pc = "sweepOrder", !.op = "sweep"])
    /\ UNCHANGED <<order, money, disputes, strikes, approvals>>

\* Mutant: a refunded order's earning is left for a later sweep.
SweepLeavesRefunded(t) ==
    /\ At(t, "sweepOrder")
    /\ IF status = "DELIVERED" THEN Goto(t, "release") ELSE Done(t)
    /\ UNCHANGED <<order, money, disputes, strikes, approvals>>

\* The order's status decides between release, reversal and a later sweep.
SweepReadOrder(t) ==
    /\ At(t, "sweepOrder")
    /\ IF status = "DELIVERED" THEN Goto(t, "release")
       ELSE IF status \in {"CANCELLED", "REFUNDED"} THEN Goto(t, "sweepReverse")
       ELSE Done(t)
    /\ UNCHANGED <<order, money, disputes, strikes, approvals>>

\* The update only touches a row that is still PENDING.
SweepWrite(t) ==
    /\ At(t, "release") \/ At(t, "sweepReverse")
    /\ earning' = IF earning # "PENDING" THEN earning
                  ELSE IF At(t, "release") THEN "AVAILABLE" ELSE "CANCELLED"
    /\ Done(t)
    /\ UNCHANGED <<order, refundId, charge, opened, disputes, strikes, approvals>>

-----------------------------------------------------------------------------
\* A statement throws, or the process dies.
Abort(t) ==
    /\ "db" \in Faults
    /\ task[t] # Idle
    /\ Done(t)
    /\ UNCHANGED <<order, money, disputes, strikes, approvals>>

Step(t) ==
    \/ FindExisting(t) \/ InsertDispute(t)
    \/ RefundRead(t) \/ RefundCreate(t) \/ RefundRecord(t) \/ ReversePending(t)
    \/ MarkRefunded(t) \/ AddStrikeCheck(t) \/ AddStrikeCreate(t) \/ WriteResolved(t)
    \/ InsertChargeback(t) \/ SweepReadOrder(t) \/ SweepWrite(t)

Next ==
    \/ Deliver \/ ADayPasses
    \/ \E t \in Tasks :
         \/ \E type \in Claims : CreateDispute(t, type)
         \/ \E d \in DisputeIds :
              AdminApproveRefund(t, d) \/ AdminConfirmAllergenViolation(t, d)
                \/ AdminConfirmFraudulentChargeback(t, d)
         \/ \E c \in Chargebacks : HandleChargeDispute(t, c)
         \/ ReleaseDuePendingEntries(t)
         \/ Step(t)
         \/ Abort(t)
    \/ \E d \in DisputeIds : AdminRejectDispute(d) \/ AdminResolveDispute(d)
    \/ \E c \in Chargebacks : ChargebackOpened(c)

Spec == Init /\ [][Next]_vars

\* Handlers in flight run on, and the sweep runs every five minutes.
FairSpec ==
    /\ Spec
    /\ \A t \in Tasks : WF_vars(Step(t))
    /\ SF_vars(\E t \in Tasks : ReleaseDuePendingEntries(t))

-----------------------------------------------------------------------------
(* Properties *)

RowType == [type : ClaimTypes \cup {"CHARGEBACK", "none"},
            status : {"none", "AUTO_REFUNDED", "ADMIN_REVIEW", "RESOLVED", "REJECTED"},
            approved : BOOLEAN, stripe : Chargebacks \cup {NoChargeback}]
TaskType ==
    [pc : {"idle", "existing", "insert", "refund", "refundCreate", "refundRecord",
           "reverse", "markRefunded", "strike", "strikeCreate", "resolve",
           "insertChargeback", "sweepOrder", "release", "sweepReverse"},
     op : {"none", "create", "approve", "allergen", "fraud", "chargeback", "sweep"},
     type : ClaimTypes \cup {"none"}, proven : BOOLEAN,
     dispute : DisputeIds \cup {NoDispute}, stripe : Chargebacks \cup {NoChargeback}]
TypeOK ==
    /\ task \in [Tasks -> TaskType]
    /\ disputes \in [DisputeIds -> RowType]
    /\ status \in {"CONFIRMED", "DELIVERED", "CANCELLED", "REFUNDED"}
    /\ earning \in {"none", "PENDING", "AVAILABLE", "CANCELLED"}
    /\ charge \in {"unpaid", "paid", "refunded"}
    /\ opened \subseteq Chargebacks
    /\ approvals \subseteq DisputeIds
    /\ strikes \in [StrikeReasons -> Nat]
    /\ delivered \in BOOLEAN /\ late \in BOOLEAN
    /\ hasIntent \in BOOLEAN /\ refundId \in BOOLEAN

\* A refund goes back to a claim that is refunded at once - a wrong order, or
\* one never received - or to an admin who approved it: the sensitive claims are
\* never refunded by themselves (createDispute, adminApproveRefund).
NoRefundWithoutClaim ==
    charge = "refunded" =>
      \E d \in Rows :
        \/ d \in approvals
        \/ disputes[d].approved /\ disputes[d].type \in {"NEVER_RECEIVED", "WRONG_ORDER"}

\* However often and however close together Stripe delivers the events of a
\* chargeback, it has one row (handleChargeDispute).
OneRowPerChargeback ==
    \A d, e \in Rows :
      disputes[d].stripe = disputes[e].stripe /\ disputes[d].stripe # NoChargeback
        => d = e

\* "never override an admin's resolution of the dispute" (handleChargeDispute): a
\* dispute that was decided never goes back to review, and keeps its chargeback.
AdminDecisionKept ==
    [][\A d \in DisputeIds : disputes[d].status \in Decided =>
         /\ disputes'[d].status \in Decided
         /\ disputes'[d].stripe = disputes[d].stripe]_vars

\* "the strike is deduped per order, so a repeated confirm never double-strikes"
\* (adminConfirmAllergenViolation): holds for handlers one after the other.
OneStrikePerReason == \A r \in StrikeReasons : strikes[r] <= 1

\* Liveness: an earning whose 24 hours have passed does not stay pending, whatever
\* became of the order meanwhile (releaseDuePendingEntries).
PendingEarningSettles == earning = "PENDING" /\ late ~> earning # "PENDING"

\* "No duplicate active dispute for the same order + type." (createDispute)
OneActiveDispute ==
    \A d, e \in Rows :
      /\ disputes[d].status = "ADMIN_REVIEW" /\ disputes[e].status = "ADMIN_REVIEW"
      /\ disputes[d].type = disputes[e].type /\ disputes[d].type # "CHARGEBACK"
        => d = e

\* "Refunds an order for a dispute (idempotent) and marks it REFUNDED."
\* (refundForDispute)
RefundedMeansRefunded == status = "REFUNDED" => charge = "refunded"

\* "provided the order is still delivered (no refund/cancel/dispute)"
\* (releaseDuePendingEntries): no earning is released under an open dispute.
HeldWhileDisputed ==
    [][earning = "PENDING" /\ earning' = "AVAILABLE" =>
         ~\E d \in Rows : disputes[d].status = "ADMIN_REVIEW"]_vars

\* "Buyer files a post-delivery claim." (createDispute): what is refunded at once
\* was delivered.
AutoRefundAfterDelivery ==
    \A d \in Rows : disputes[d].status = "AUTO_REFUNDED" => delivered

\* "Admin rejects a dispute (no refund)." (adminRejectDispute)
RejectedIsNotRefunded ==
    \A d \in Rows : disputes[d].status = "REJECTED" => ~disputes[d].approved
=============================================================================
