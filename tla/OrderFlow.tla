------------------------------ MODULE OrderFlow ------------------------------
(***************************************************************************)
(* The life of ONE order, from the moment createOrder has committed it     *)
(* (PENDING, stock already decremented) until everyone has been paid or    *)
(* refunded: payment confirmation, the seller's transitions, dispatch and  *)
(* the driver's transitions, the no-driver and driver-disappeared          *)
(* watchdogs, every cancellation path, the Stripe refund, the wallet       *)
(* ledger entries and the strikes of this order.                           *)
(*                                                                         *)
(* Code: OrdersService, DeliveriesService, StripeWebhookHandlerService,    *)
(* the order part of WalletService and StrikesService, OrderTimersProcessor*)
(* and WalletReleaseProcessor.                                             *)
(*                                                                         *)
(* A handler (an HTTP request, a webhook delivery, a timer callback, a     *)
(* BullMQ job) is a TASK.  A task reads and writes the database one        *)
(* statement or one transaction at a time; between two awaits any other    *)
(* task may run, so every await is an interleaving point.  A request that  *)
(* the first checks of its handler reject changes nothing and is simply    *)
(* not a step.  Prisma transactions run at READ COMMITTED: a read inside   *)
(* one takes no lock, so it is a step of its own.                          *)
(***************************************************************************)
EXTENDS Integers, FiniteSets

CONSTANTS
    Tasks,          \* handler slots: how many handlers may be in flight at once
    Drivers,        \* drivers that may claim this order's deliveries
    NoDriver,       \* driverId IS NULL
    MaxDeliveries,  \* bound on the Delivery rows of the order
    InitialPortions,\* portionsLeft after createOrder decremented it
    Quantity,       \* portions this order took
    Faults          \* which failures may happen, a subset of FaultKinds

FaultKinds == {"crash", "db", "stripe", "redis"}

Parties  == {"seller", "platform"}
Payees   == Parties \cup Drivers
Procs    == {"api", "worker"}
Deliveries == 1 .. MaxDeliveries

ASSUME DriversAssumption ==
    /\ NoDriver \notin Drivers
    /\ Parties \cap Drivers = {}
ASSUME BoundsAssumption ==
    /\ MaxDeliveries \in Nat \ {0}
    /\ InitialPortions \in Nat
    /\ Quantity \in Nat \ {0}
ASSUME FaultsAssumption == Faults \subseteq FaultKinds

(***************************************************************************)
(* The values of the database enums that this module's handlers write.     *)
(* (PICKED_UP and COMPLETED are never written on an order; DISPUTED and    *)
(* REFUNDED are written by the dispute handlers only.)                     *)
(***************************************************************************)
OrderStatuses ==
    {"PENDING", "CONFIRMED", "PREPARING", "READY", "NO_DRIVER_AVAILABLE",
     "IN_DELIVERY", "DELIVERED", "CANCELLED"}
Choices == {"DELIVERY", "PICKUP"}
DeliveryStatuses ==
    {"NONE", "SEARCHING", "ASSIGNED", "AT_PICKUP", "PICKED_UP", "DELIVERED",
     "FAILED", "CANCELLED"}
EntryStatuses == {"none", "PENDING", "AVAILABLE", "CANCELLED"}

\* OrderStatus lists the handlers test against.
CancellableFrom == {"CONFIRMED", "PREPARING", "READY"}
Resolved == {"CANCELLED", "DELIVERED"}
PrePickup == {"ASSIGNED", "AT_PICKUP"}
PostPickup == {"PICKED_UP", "DELIVERED"}

\* A strike is deduplicated per source: the order for a seller, the delivery
\* for a driver.  Row 0 stands for "no delivery".
StrikeKeys ==
    {<<"SELLER_UNAVAILABLE", 0>>, <<"SELLER_CANNOT_PROVIDE", 0>>}
        \cup {<<"DRIVER_DISAPPEARED", d>> : d \in Deliveries}

\* Watchdog names and the row they are keyed by.
WatchdogKeys ==
    {<<"noDriver", 0>>, <<"noDriverResponse", 0>>}
        \cup {<<"driverDelivery", d>> : d \in Deliveries}

Ops ==
    {"confirmPayment", "paySucceeded", "payFailed", "startPreparing", "markReady",
     "confirmPickup", "cancelAsSeller", "sellerCannotProvide", "claim",
     "arriveAtPickup", "driverPickup", "confirmDelivery", "sellerUnavailable",
     "noDriverTimeout", "decideNoDriver", "autoCancel", "driverTimeout", "sweep"}
Steps ==
    {"retrieve", "confirm", "notify", "txRead", "commit", "write", "arm",
     "checkOrder", "readOrder", "creditRead", "credit", "reverseDriver", "refundRead",
     "refundCreate", "refundRecord", "reverse", "compensate", "paySeller",
     "debt", "strikeCheck", "strikeCreate", "suspend", "switch", "cancelRead",
     "sweepOrder", "sweepWrite"}

VARIABLES
    order,       \* the Order row
    dlv,         \* the Delivery rows, by creation order
    portionsLeft,\* stock of the listing
    stripe,      \* what Stripe knows of the PaymentIntent
    earning,     \* WalletEntry status of each payee's earning on this order
    debt,        \* drivers with a DRIVER_DEBT entry on this order
    strikes,     \* number of Strike rows per source
    suspended,   \* drivers whose account is suspended
    timers,      \* armed in-process timeouts, per process
    jobs,        \* delayed BullMQ jobs
    notified,    \* how often the seller got the "order paid" push
    task         \* the handlers in flight

vars == <<order, dlv, portionsLeft, stripe, earning, debt, strikes, suspended,
          timers, jobs, notified, task>>
money == <<earning, debt>>
penalties == <<strikes, suspended>>
watchdogs == <<timers, jobs>>

Idle == [op |-> "none", pc |-> "idle", proc |-> "api", d |-> 0,
         drv |-> NoDriver, restored |-> FALSE, saw |-> "none", due |-> {}]

NoRow == [status |-> "NONE", driver |-> NoDriver, picked |-> FALSE,
          confirmed |-> FALSE, unavailable |-> FALSE, rank |-> 0]

Init ==
    /\ order \in [status : {"PENDING"}, choice : Choices, restored : {FALSE},
                  pi : BOOLEAN, refund : {FALSE}]
    /\ dlv = [d \in Deliveries |-> NoRow]
    /\ portionsLeft = InitialPortions
    /\ stripe = [paid |-> FALSE, declined |-> FALSE, refunded |-> FALSE]
    /\ earning = [p \in Payees |-> "none"]
    /\ debt = {}
    /\ strikes = [k \in StrikeKeys |-> 0]
    /\ suspended = {}
    /\ timers = {}
    /\ jobs = {}
    /\ notified = 0
    /\ task = [t \in Tasks |-> Idle]

-----------------------------------------------------------------------------
(* Helpers *)

At(t, op, pc) == task[t].op = op /\ task[t].pc = pc

\* A free slot takes on a handler that passed its first checks.
Begin(t, op, pc) ==
    /\ task[t] = Idle
    /\ task' = [task EXCEPT ![t].op = op, ![t].pc = pc]
BeginOn(t, op, pc, d) ==
    /\ task[t] = Idle
    /\ task' = [task EXCEPT ![t].op = op, ![t].pc = pc, ![t].d = d,
                            ![t].drv = dlv[d].driver]
Goto(t, pc) == task' = [task EXCEPT ![t].pc = pc]
Done(t) == task' = [task EXCEPT ![t] = Idle]

Created(d) == dlv[d].status # "NONE"
\* deliveries: { orderBy: createdAt desc, take: 1 }; row 0 when there is none.
Latest(d) ==
    /\ d \in 0 .. MaxDeliveries
    /\ d > 0 => Created(d)
    /\ \A e \in Deliveries : e > d => ~Created(e)
\* The next row a createDelivery would fill.
NextRow(d) ==
    /\ d \in Deliveries
    /\ ~Created(d)
    /\ \A e \in Deliveries : e < d => Created(e)

SetStatus(s) == order' = [order EXCEPT !.status = s]
SetDelivery(d, s) ==
    dlv' = [e \in Deliveries |->
              IF e = d THEN [dlv[e] EXCEPT !.status = s] ELSE dlv[e]]

\* Mutant: the flag that the stock went back is not written.
CancelAndRestoreUnmarked(t) ==
    /\ portionsLeft' = portionsLeft + Quantity
    /\ order' = [order EXCEPT !.status = "CANCELLED"]

\* The cancel-and-restore transaction: stock goes back unless the row the
\* handler READ was already marked inventoryRestored.
CancelAndRestore(t) ==
    /\ portionsLeft' = IF task[t].restored THEN portionsLeft
                       ELSE portionsLeft + Quantity
    /\ order' = [order EXCEPT !.status = "CANCELLED", !.restored = TRUE]

\* createMany({ skipDuplicates }) under @@unique([orderId, userId, type]).
Credit(S, s) ==
    earning' = [p \in Payees |->
                  IF p \in S /\ earning[p] = "none" THEN s ELSE earning[p]]
\* Mutant: the update does not test that the entry is still PENDING.
SettleAny(S, s) ==
    earning' = [p \in Payees |->
                  IF p \in S /\ earning[p] # "none" THEN s ELSE earning[p]]

\* updateMany({ where: { status: PENDING } })
SettlePending(S, s) ==
    earning' = [p \in Payees |->
                  IF p \in S /\ earning[p] = "PENDING" THEN s ELSE earning[p]]

\* scheduleX: an in-process timeout replaces the one of the same key, and a
\* delayed job is enqueued under a stable jobId.  The enqueue is best-effort, and
\* a failed job that is kept under its id swallows the next one.
Arm(p, k) ==
    /\ timers' = timers \cup {<<p, k>>}
    /\ \/ jobs' = jobs \cup {k}
       \/ Faults \cap {"redis", "db"} # {} /\ jobs' = jobs
\* A watchdog goes off: an in-process timeout in its own process, or a job in
\* the worker.
Fire(p, k) ==
    \/ <<p, k>> \in timers /\ timers' = timers \ {<<p, k>>} /\ jobs' = jobs
    \/ p = "worker" /\ k \in jobs /\ jobs' = jobs \ {k} /\ timers' = timers

-----------------------------------------------------------------------------
(* The buyer and Stripe (external) *)

\* The buyer's card is charged.  A declined PaymentIntent stays payable.
BuyerPays ==
    /\ ~stripe.paid
    /\ stripe' = [stripe EXCEPT !.paid = TRUE]
    /\ UNCHANGED <<order, dlv, portionsLeft, money, penalties, watchdogs,
                   notified, task>>

\* An attempt is declined: Stripe will deliver payment_intent.payment_failed.
CardDeclined ==
    /\ ~stripe.paid /\ ~stripe.declined
    /\ stripe' = [stripe EXCEPT !.declined = TRUE]
    /\ UNCHANGED <<order, dlv, portionsLeft, money, penalties, watchdogs,
                   notified, task>>

-----------------------------------------------------------------------------
(* Payment confirmation: the buyer's call and the two webhooks *)

\* Without a stored PaymentIntent id isPaymentSucceeded is false and the call
\* is refused.
ConfirmPaymentForBuyer(t) ==
    /\ order.status = "PENDING" /\ order.pi
    /\ Begin(t, "confirmPayment", "retrieve")
    /\ UNCHANGED <<order, dlv, portionsLeft, stripe, money, penalties,
                   watchdogs, notified>>

\* Mutant: the PaymentIntent's status is not looked at.
IsPaymentKnown(t) ==
    /\ At(t, "confirmPayment", "retrieve")
    /\ Goto(t, "confirm")
    /\ UNCHANGED <<order, dlv, portionsLeft, stripe, money, penalties,
                   watchdogs, notified>>

IsPaymentSucceeded(t) ==
    /\ At(t, "confirmPayment", "retrieve")
    /\ \/ stripe.paid /\ Goto(t, "confirm")
       \/ ~stripe.paid /\ Done(t)
       \/ "stripe" \in Faults /\ Done(t)
    /\ UNCHANGED <<order, dlv, portionsLeft, stripe, money, penalties,
                   watchdogs, notified>>

\* Mutant: the order is looked up by the stored PaymentIntent id only.
HandleStoredIntentOnly(t) ==
    /\ stripe.paid
    /\ order.status = "PENDING" /\ order.pi
    /\ Begin(t, "paySucceeded", "confirm")
    /\ UNCHANGED <<order, dlv, portionsLeft, stripe, money, penalties,
                   watchdogs, notified>>

\* payment_intent.succeeded may be delivered any number of times.
HandlePaymentIntentSucceeded(t) ==
    /\ stripe.paid
    /\ order.status = "PENDING"
    /\ Begin(t, "paySucceeded", "confirm")
    /\ UNCHANGED <<order, dlv, portionsLeft, stripe, money, penalties,
                   watchdogs, notified>>

\* Both paths write CONFIRMED by id, without testing the status again; the
\* webhook also backfills the PaymentIntent id.
WriteConfirmed(t) ==
    /\ task[t].op \in {"confirmPayment", "paySucceeded"} /\ task[t].pc = "confirm"
    /\ order' = [order EXCEPT !.status = "CONFIRMED",
                              !.pi = @ \/ task[t].op = "paySucceeded"]
    /\ Goto(t, "notify")
    /\ UNCHANGED <<dlv, portionsLeft, stripe, money, penalties, watchdogs, notified>>

NotifyOrderPaid(t) ==
    /\ task[t].pc = "notify"
    /\ notified' = notified + 1
    /\ Done(t)
    /\ UNCHANGED <<order, dlv, portionsLeft, stripe, money, penalties, watchdogs>>

\* payment_intent.payment_failed, delivered any number of times.
HandlePaymentIntentFailed(t) ==
    /\ stripe.declined
    /\ order.status = "PENDING"
    /\ Begin(t, "payFailed", "txRead")
    /\ UNCHANGED <<order, dlv, portionsLeft, stripe, money, penalties,
                   watchdogs, notified>>

PaymentFailedRead(t) ==
    /\ At(t, "payFailed", "txRead")
    /\ IF order.status = "PENDING"
       THEN task' = [task EXCEPT ![t].pc = "commit", ![t].restored = order.restored]
       ELSE Done(t)
    /\ UNCHANGED <<order, dlv, portionsLeft, stripe, money, penalties,
                   watchdogs, notified>>

PaymentFailedCommit(t) ==
    /\ At(t, "payFailed", "commit")
    /\ portionsLeft' = IF task[t].restored THEN portionsLeft
                       ELSE portionsLeft + Quantity
    /\ order' = [order EXCEPT !.status = "CANCELLED", !.restored = TRUE, !.pi = TRUE]
    /\ Done(t)
    /\ UNCHANGED <<dlv, stripe, money, penalties, watchdogs, notified>>

-----------------------------------------------------------------------------
(* The seller's transitions *)

StartPreparing(t) ==
    /\ order.status = "CONFIRMED"
    /\ Begin(t, "startPreparing", "write")
    /\ UNCHANGED <<order, dlv, portionsLeft, stripe, money, penalties,
                   watchdogs, notified>>

WritePreparing(t) ==
    /\ At(t, "startPreparing", "write")
    /\ SetStatus("PREPARING")
    /\ Done(t)
    /\ UNCHANGED <<dlv, portionsLeft, stripe, money, penalties, watchdogs, notified>>

\* The first conjunct is the bound on Delivery rows: every markReady in
\* flight will find a free one.
MarkReady(t) ==
    /\ Cardinality({d \in Deliveries : ~Created(d)}) >
         Cardinality({u \in Tasks : At(u, "markReady", "write")})
    /\ order.status = "PREPARING"
    /\ task[t] = Idle
    /\ task' = [task EXCEPT ![t].op = "markReady", ![t].pc = "write",
                            ![t].saw = order.choice]
    /\ UNCHANGED <<order, dlv, portionsLeft, stripe, money, penalties,
                   watchdogs, notified>>

\* One transaction: READY, and a SEARCHING delivery for a DELIVERY order.
MarkReadyCommit(t) ==
    /\ At(t, "markReady", "write")
    /\ SetStatus("READY")
    /\ \/ /\ task[t].saw = "DELIVERY"
          /\ \E d \in Deliveries : NextRow(d) /\ SetDelivery(d, "SEARCHING")
          /\ Goto(t, "arm")
       \/ /\ task[t].saw # "DELIVERY"
          /\ dlv' = dlv
          /\ Done(t)
    /\ UNCHANGED <<portionsLeft, stripe, money, penalties, watchdogs, notified>>

ScheduleNoDriverTimeout(t) ==
    /\ At(t, "markReady", "arm")
    /\ Arm(task[t].proc, <<"noDriver", 0>>)
    /\ Done(t)
    /\ UNCHANGED <<order, dlv, portionsLeft, stripe, money, penalties, notified>>

\* Mutant: the handover may be confirmed on a DELIVERY order too.
ConfirmAnyPickup(t) ==
    /\ order.status = "READY"
    /\ Begin(t, "confirmPickup", "write")
    /\ UNCHANGED <<order, dlv, portionsLeft, stripe, money, penalties,
                   watchdogs, notified>>

\* PICKUP orders: the buyer or the seller confirms the handover.
ConfirmPickup(t) ==
    /\ order.choice = "PICKUP"
    /\ order.status = "READY"
    /\ Begin(t, "confirmPickup", "write")
    /\ UNCHANGED <<order, dlv, portionsLeft, stripe, money, penalties,
                   watchdogs, notified>>

ConfirmPickupWrite(t) ==
    /\ At(t, "confirmPickup", "write")
    /\ SetStatus("DELIVERED")
    /\ Goto(t, "creditRead")
    /\ UNCHANGED <<dlv, portionsLeft, stripe, money, penalties, watchdogs, notified>>

-----------------------------------------------------------------------------
(* The seller cancels *)

CancelAsSeller(t) ==
    /\ order.status \in CancellableFrom
    /\ Begin(t, "cancelAsSeller", "txRead")
    /\ UNCHANGED <<order, dlv, portionsLeft, stripe, money, penalties,
                   watchdogs, notified>>

\* The transaction reads the row again; when the order is no longer
\* cancellable it writes nothing, and the handler goes on to the refund.
CancelAsSellerRead(t) ==
    /\ At(t, "cancelAsSeller", "txRead")
    /\ IF order.status \in CancellableFrom
       THEN task' = [task EXCEPT ![t].pc = "commit", ![t].restored = order.restored]
       ELSE Goto(t, "refundRead")
    /\ UNCHANGED <<order, dlv, portionsLeft, stripe, money, penalties,
                   watchdogs, notified>>

\* Mutant: the refund is forgotten.
CancelAsSellerNoRefund(t) ==
    /\ At(t, "cancelAsSeller", "commit")
    /\ CancelAndRestore(t)
    /\ Done(t)
    /\ UNCHANGED <<dlv, stripe, money, penalties, watchdogs, notified>>

\* The order is cancelled; its delivery, if any, is left as it is.
CancelAsSellerCommit(t) ==
    /\ At(t, "cancelAsSeller", "commit")
    /\ CancelAndRestore(t)
    /\ Goto(t, "refundRead")
    /\ UNCHANGED <<dlv, stripe, money, penalties, watchdogs, notified>>

SellerCannotProvide(t) ==
    /\ order.status \in CancellableFrom
    /\ task[t] = Idle
    /\ \E d \in 0 .. MaxDeliveries :
         /\ Latest(d)
         /\ d > 0 => ~dlv[d].picked
         /\ task' = [task EXCEPT
                       ![t].op = "sellerCannotProvide", ![t].pc = "commit",
                       ![t].restored = order.restored,
                       ![t].d = IF d > 0 /\ dlv[d].status \notin {"CANCELLED", "FAILED"}
                                THEN d ELSE 0]
    /\ UNCHANGED <<order, dlv, portionsLeft, stripe, money, penalties,
                   watchdogs, notified>>

\* One transaction, on the row read before it: order and delivery together.
SellerCannotProvideCommit(t) ==
    /\ At(t, "sellerCannotProvide", "commit")
    /\ CancelAndRestore(t)
    /\ SetDelivery(task[t].d, "CANCELLED")
    /\ Goto(t, "refundRead")
    /\ UNCHANGED <<stripe, money, penalties, watchdogs, notified>>

-----------------------------------------------------------------------------
(* The driver *)

\* claim: a driver that is not suspended asks for a delivery ...
Claim(t, drv, d) ==
    /\ Created(d)
    /\ drv \notin suspended
    /\ task[t] = Idle
    /\ task' = [task EXCEPT ![t].op = "claim", ![t].pc = "write",
                            ![t].d = d, ![t].drv = drv]
    /\ UNCHANGED <<order, dlv, portionsLeft, stripe, money, penalties,
                   watchdogs, notified>>

\* Mutant: the update has no WHERE clause.
ClaimOverwrite(t) ==
    /\ At(t, "claim", "write")
    /\ dlv' = [dlv EXCEPT ![task[t].d].status = "ASSIGNED",
                          ![task[t].d].driver = task[t].drv]
    /\ Done(t)
    /\ UNCHANGED <<order, portionsLeft, stripe, money, penalties, watchdogs, notified>>

\* ... and UPDATE ... WHERE status = SEARCHING AND driverId IS NULL decides.
ClaimUpdate(t) ==
    /\ At(t, "claim", "write")
    /\ LET d == task[t].d IN
       IF dlv[d].status = "SEARCHING" /\ dlv[d].driver = NoDriver
       THEN dlv' = [dlv EXCEPT ![d].status = "ASSIGNED", ![d].driver = task[t].drv]
       ELSE dlv' = dlv
    /\ Done(t)
    /\ UNCHANGED <<order, portionsLeft, stripe, money, penalties, watchdogs, notified>>

\* The driver handlers load the row and require it to be the caller's.
Own(d) == Created(d) /\ dlv[d].driver # NoDriver

ArriveAtPickup(t, d) ==
    /\ Own(d)
    /\ dlv[d].status = "ASSIGNED"
    /\ BeginOn(t, "arriveAtPickup", "write", d)
    /\ UNCHANGED <<order, dlv, portionsLeft, stripe, money, penalties,
                   watchdogs, notified>>

WriteAtPickup(t) ==
    /\ At(t, "arriveAtPickup", "write")
    /\ SetDelivery(task[t].d, "AT_PICKUP")
    /\ Done(t)
    /\ UNCHANGED <<order, portionsLeft, stripe, money, penalties, watchdogs, notified>>

\* The driver scans the seller's QR.  The order's own status is not read.
DriverConfirmPickup(t, d) ==
    /\ Own(d)
    /\ ~dlv[d].picked
    /\ dlv[d].status \in PrePickup
    /\ BeginOn(t, "driverPickup", "commit", d)
    /\ UNCHANGED <<order, dlv, portionsLeft, stripe, money, penalties,
                   watchdogs, notified>>

\* Mutant: the watchdog is not armed.
DriverPickupUnwatched(t) ==
    /\ At(t, "driverPickup", "commit")
    /\ dlv' = [dlv EXCEPT ![task[t].d].status = "PICKED_UP",
                          ![task[t].d].picked = TRUE]
    /\ SetStatus("IN_DELIVERY")
    /\ Done(t)
    /\ UNCHANGED <<portionsLeft, stripe, money, penalties, watchdogs, notified>>

DriverPickupCommit(t) ==
    /\ At(t, "driverPickup", "commit")
    /\ dlv' = [dlv EXCEPT ![task[t].d].status = "PICKED_UP",
                          ![task[t].d].picked = TRUE]
    /\ SetStatus("IN_DELIVERY")
    /\ Goto(t, "arm")
    /\ UNCHANGED <<portionsLeft, stripe, money, penalties, watchdogs, notified>>

ScheduleDriverDeliveryTimeout(t) ==
    /\ At(t, "driverPickup", "arm")
    /\ Arm(task[t].proc, <<"driverDelivery", task[t].d>>)
    /\ Done(t)
    /\ UNCHANGED <<order, dlv, portionsLeft, stripe, money, penalties, notified>>

\* Mutant: the delivery need not have been picked up.
ConfirmDeliveryEarly(t, d) ==
    /\ Own(d)
    /\ ~dlv[d].confirmed
    /\ dlv[d].status \in PrePickup \cup {"PICKED_UP"}
    /\ BeginOn(t, "confirmDelivery", "write", d)
    /\ UNCHANGED <<order, dlv, portionsLeft, stripe, money, penalties,
                   watchdogs, notified>>

\* The driver scans the buyer's QR, or leaves the order at the door with a
\* photo (confirmAbsentDropoff): same guards, same transition.
ConfirmDelivery(t, d) ==
    /\ Own(d)
    /\ ~dlv[d].confirmed
    /\ dlv[d].status = "PICKED_UP"
    /\ BeginOn(t, "confirmDelivery", "write", d)
    /\ UNCHANGED <<order, dlv, portionsLeft, stripe, money, penalties,
                   watchdogs, notified>>

\* rank orders the rows by deliveredAt, the latest row having the highest.
WriteDelivered(t) ==
    /\ At(t, "confirmDelivery", "write")
    /\ dlv' = [e \in Deliveries |->
                 IF e = task[t].d
                 THEN [dlv[e] EXCEPT !.status = "DELIVERED", !.confirmed = TRUE,
                                     !.rank = MaxDeliveries]
                 ELSE IF dlv[e].rank > dlv[task[t].d].rank
                      THEN [dlv[e] EXCEPT !.rank = @ - 1]
                      ELSE dlv[e]]
    /\ Goto(t, "readOrder")
    /\ UNCHANGED <<order, portionsLeft, stripe, money, penalties, watchdogs, notified>>

\* confirmDeliveredByDriver reads the order: it throws unless this is a
\* DELIVERY order, and skips the write when the order is DELIVERED already.
ConfirmDeliveredByDriver(t) ==
    /\ At(t, "confirmDelivery", "readOrder")
    /\ IF order.choice # "DELIVERY" THEN Done(t)
       ELSE IF order.status = "DELIVERED" THEN Goto(t, "creditRead")
       ELSE Goto(t, "commit")
    /\ UNCHANGED <<order, dlv, portionsLeft, stripe, money, penalties,
                   watchdogs, notified>>

WriteOrderDelivered(t) ==
    /\ At(t, "confirmDelivery", "commit")
    /\ SetStatus("DELIVERED")
    /\ Goto(t, "creditRead")
    /\ UNCHANGED <<dlv, portionsLeft, stripe, money, penalties, watchdogs, notified>>

\* The driver found no food at the seller's.
ReportSellerUnavailable(t, d) ==
    /\ Own(d)
    /\ ~dlv[d].unavailable
    /\ dlv[d].status \notin {"CANCELLED", "FAILED"}
    /\ ~dlv[d].picked /\ dlv[d].status \notin PostPickup
    /\ BeginOn(t, "sellerUnavailable", "checkOrder", d)
    /\ UNCHANGED <<order, dlv, portionsLeft, stripe, money, penalties,
                   watchdogs, notified>>

SellerUnavailableCheckOrder(t) ==
    /\ At(t, "sellerUnavailable", "checkOrder")
    /\ IF order.status \in Resolved THEN Done(t) ELSE Goto(t, "write")
    /\ UNCHANGED <<order, dlv, portionsLeft, stripe, money, penalties,
                   watchdogs, notified>>

WriteSellerUnavailable(t) ==
    /\ At(t, "sellerUnavailable", "write")
    /\ dlv' = [dlv EXCEPT ![task[t].d].status = "CANCELLED",
                          ![task[t].d].unavailable = TRUE]
    /\ Goto(t, "readOrder")
    /\ UNCHANGED <<order, portionsLeft, stripe, money, penalties, watchdogs, notified>>

\* cancelForSellerUnavailable throws when the order has been resolved since.
CancelForSellerUnavailable(t) ==
    /\ At(t, "sellerUnavailable", "readOrder")
    /\ IF order.status \in Resolved THEN Done(t)
       ELSE task' = [task EXCEPT ![t].pc = "commit", ![t].restored = order.restored]
    /\ UNCHANGED <<order, dlv, portionsLeft, stripe, money, penalties,
                   watchdogs, notified>>

SellerUnavailableCommit(t) ==
    /\ At(t, "sellerUnavailable", "commit")
    /\ CancelAndRestore(t)
    /\ Goto(t, "refundRead")
    /\ UNCHANGED <<dlv, stripe, money, penalties, watchdogs, notified>>

\* The wasted trip is paid at once.
CompensateDriver(t) ==
    /\ At(t, "sellerUnavailable", "compensate")
    /\ Credit({task[t].drv}, "AVAILABLE")
    /\ Goto(t, "strikeCheck")
    /\ UNCHANGED <<order, dlv, portionsLeft, stripe, debt, penalties,
                   watchdogs, notified>>

-----------------------------------------------------------------------------
(* No driver claims the delivery *)

HandleNoDriverTimeout(t, p) ==
    /\ task[t] = Idle
    /\ Fire(p, <<"noDriver", 0>>)
    /\ IF /\ order.status = "READY" /\ order.choice = "DELIVERY"
          /\ \E d \in 0 .. MaxDeliveries :
               /\ Latest(d)
               /\ d > 0 => dlv[d].status = "SEARCHING" /\ dlv[d].driver = NoDriver
       THEN task' = [task EXCEPT ![t].op = "noDriverTimeout", ![t].pc = "write",
                                 ![t].proc = p]
       ELSE task' = task
    /\ UNCHANGED <<order, dlv, portionsLeft, stripe, money, penalties, notified>>

\* Mutant: nothing waits for the buyer's answer.
WriteNoDriverUnwatched(t) ==
    /\ At(t, "noDriverTimeout", "write")
    /\ SetStatus("NO_DRIVER_AVAILABLE")
    /\ Done(t)
    /\ UNCHANGED <<dlv, portionsLeft, stripe, money, penalties, watchdogs, notified>>

WriteNoDriverAvailable(t) ==
    /\ At(t, "noDriverTimeout", "write")
    /\ SetStatus("NO_DRIVER_AVAILABLE")
    /\ Goto(t, "arm")
    /\ UNCHANGED <<dlv, portionsLeft, stripe, money, penalties, watchdogs, notified>>

ScheduleNoDriverResponseTimeout(t) ==
    /\ At(t, "noDriverTimeout", "arm")
    /\ Arm(task[t].proc, <<"noDriverResponse", 0>>)
    /\ Done(t)
    /\ UNCHANGED <<order, dlv, portionsLeft, stripe, money, penalties, notified>>

\* The buyer answers: the API's own timeout is cleared, the job is not.
DecideNoDriver(t, pc) ==
    /\ pc \in {"switch", "cancelRead"}
    /\ order.status = "NO_DRIVER_AVAILABLE"
    /\ task[t] = Idle
    /\ timers' = timers \ {<<"api", <<"noDriverResponse", 0>>>>}
    /\ \E d \in 0 .. MaxDeliveries :
         /\ Latest(d)
         /\ task' = [task EXCEPT ![t].op = "decideNoDriver", ![t].pc = pc,
                                 ![t].d = IF pc = "switch" THEN d ELSE 0]
    /\ UNCHANGED <<order, dlv, portionsLeft, stripe, money, penalties, jobs, notified>>

SwitchOrderToPickup(t) ==
    /\ At(t, "decideNoDriver", "switch")
    /\ order' = [order EXCEPT !.status = "READY", !.choice = "PICKUP"]
    /\ SetDelivery(task[t].d, "CANCELLED")
    /\ Done(t)
    /\ UNCHANGED <<portionsLeft, stripe, money, penalties, watchdogs, notified>>

\* The buyer never answered.
AutoCancelNoResponse(t, p) ==
    /\ task[t] = Idle
    /\ Fire(p, <<"noDriverResponse", 0>>)
    /\ IF order.status = "NO_DRIVER_AVAILABLE"
       THEN task' = [task EXCEPT ![t].op = "autoCancel", ![t].pc = "cancelRead",
                                 ![t].proc = p]
       ELSE task' = task
    /\ UNCHANGED <<order, dlv, portionsLeft, stripe, money, penalties, notified>>

\* cancelNoDriverOrder reads the order again, but not its status.
CancelNoDriverRead(t) ==
    /\ task[t].op \in {"decideNoDriver", "autoCancel"} /\ task[t].pc = "cancelRead"
    /\ \E d \in 0 .. MaxDeliveries :
         /\ Latest(d)
         /\ task' = [task EXCEPT ![t].pc = "commit", ![t].d = d,
                                 ![t].restored = order.restored]
    /\ UNCHANGED <<order, dlv, portionsLeft, stripe, money, penalties,
                   watchdogs, notified>>

CancelNoDriverCommit(t) ==
    /\ task[t].op \in {"decideNoDriver", "autoCancel"} /\ task[t].pc = "commit"
    /\ CancelAndRestore(t)
    /\ SetDelivery(task[t].d, "CANCELLED")
    /\ Goto(t, "refundRead")
    /\ UNCHANGED <<stripe, money, penalties, watchdogs, notified>>

-----------------------------------------------------------------------------
(* The driver disappears after pickup *)

HandleDriverDeliveryTimeout(t, p, d) ==
    /\ task[t] = Idle
    /\ Fire(p, <<"driverDelivery", d>>)
    /\ IF /\ dlv[d].status \notin {"DELIVERED", "FAILED", "CANCELLED"}
          /\ ~dlv[d].confirmed
          /\ dlv[d].picked
       THEN task' = [task EXCEPT ![t].op = "driverTimeout", ![t].pc = "readOrder",
                                 ![t].proc = p, ![t].d = d,
                                 ![t].drv = dlv[d].driver]
       ELSE task' = task
    /\ UNCHANGED <<order, dlv, portionsLeft, stripe, money, penalties, notified>>

DriverTimeoutReadOrder(t) ==
    /\ At(t, "driverTimeout", "readOrder")
    /\ IF order.status = "IN_DELIVERY" THEN Goto(t, "commit") ELSE Done(t)
    /\ UNCHANGED <<order, dlv, portionsLeft, stripe, money, penalties,
                   watchdogs, notified>>

\* Mutant: the delivery is not failed with the order.
ResolveOrderOnly(t) ==
    /\ At(t, "driverTimeout", "commit")
    /\ SetStatus("CANCELLED")
    /\ Goto(t, "reverseDriver")
    /\ UNCHANGED <<dlv, portionsLeft, stripe, money, penalties, watchdogs, notified>>

\* resolveDriverDisappeared: the stock is not restored, the dish is gone.
ResolveDriverDisappeared(t) ==
    /\ At(t, "driverTimeout", "commit")
    /\ SetDelivery(task[t].d, "FAILED")
    /\ SetStatus("CANCELLED")
    /\ Goto(t, "reverseDriver")
    /\ UNCHANGED <<portionsLeft, stripe, money, penalties, watchdogs, notified>>

ReverseDriverEarning(t) ==
    /\ At(t, "driverTimeout", "reverseDriver")
    /\ SettlePending(Drivers, "CANCELLED")
    /\ Goto(t, "refundRead")
    /\ UNCHANGED <<order, dlv, portionsLeft, stripe, debt, penalties,
                   watchdogs, notified>>

CreditSellerEarning(t) ==
    /\ At(t, "driverTimeout", "paySeller")
    /\ Credit({"seller"}, "AVAILABLE")
    /\ Goto(t, "debt")
    /\ UNCHANGED <<order, dlv, portionsLeft, stripe, debt, penalties,
                   watchdogs, notified>>

\* Best-effort: a failure is logged and the handler goes on.
RecordDriverDebt(t) ==
    /\ At(t, "driverTimeout", "debt")
    /\ \/ debt' = debt \cup ({task[t].drv} \ {NoDriver})
       \/ "db" \in Faults /\ debt' = debt
    /\ Goto(t, "strikeCheck")
    /\ UNCHANGED <<order, dlv, portionsLeft, stripe, earning, penalties,
                   watchdogs, notified>>

-----------------------------------------------------------------------------
(* refundOrderIfNeeded, called by every cancellation of a paid order *)

\* What the caller does once refundOrderIfNeeded has returned.
AfterRefund(t) ==
    CASE task[t].op = "sellerCannotProvide" -> Goto(t, "strikeCheck")
      [] task[t].op = "sellerUnavailable"   -> Goto(t, "compensate")
      [] task[t].op = "driverTimeout"       -> Goto(t, "paySeller")
      [] OTHER                              -> Done(t)

RefundRead(t) ==
    /\ task[t].pc = "refundRead"
    /\ IF order.refund \/ ~order.pi THEN AfterRefund(t) ELSE Goto(t, "refundCreate")
    /\ UNCHANGED <<order, dlv, portionsLeft, stripe, money, penalties,
                   watchdogs, notified>>

\* Stripe refunds a charge in full once; a second full refund, a refund of an
\* uncharged PaymentIntent or an API failure is an error, and the function
\* returns without touching the ledger.
RefundCreate(t) ==
    /\ task[t].pc = "refundCreate"
    /\ \/ /\ stripe.paid /\ ~stripe.refunded
          /\ stripe' = [stripe EXCEPT !.refunded = TRUE]
          /\ Goto(t, "refundRecord")
       \/ /\ ~stripe.paid \/ stripe.refunded \/ "stripe" \in Faults
          /\ AfterRefund(t)
          /\ UNCHANGED stripe
    /\ UNCHANGED <<order, dlv, portionsLeft, money, penalties, watchdogs, notified>>

\* A failure to store the refund id is logged and swallowed.
RefundRecord(t) ==
    /\ task[t].pc = "refundRecord"
    /\ \/ order' = [order EXCEPT !.refund = TRUE]
       \/ "db" \in Faults /\ order' = order
    /\ Goto(t, "reverse")
    /\ UNCHANGED <<dlv, portionsLeft, stripe, money, penalties, watchdogs, notified>>

ReversePendingEntries(t) ==
    /\ task[t].pc = "reverse"
    /\ SettlePending(Payees, "CANCELLED")
    /\ AfterRefund(t)
    /\ UNCHANGED <<order, dlv, portionsLeft, stripe, debt, penalties,
                   watchdogs, notified>>

-----------------------------------------------------------------------------
(* The wallet ledger *)

\* Mutant: the driver is taken from any claimed row of the order.
LastClaimed(d) == dlv[d].driver # NoDriver

\* The row of the last confirmed delivery:
\* where status = DELIVERED, orderBy deliveredAt desc, take 1.
LastDelivered(d) ==
    /\ dlv[d].status = "DELIVERED"
    /\ \A e \in Deliveries : dlv[e].status = "DELIVERED" => dlv[e].rank <= dlv[d].rank

CreditForCompletedOrderRead(t) ==
    /\ task[t].pc = "creditRead"
    /\ \/ /\ order.status # "DELIVERED"
          /\ Done(t)
       \/ /\ order.status = "DELIVERED"
          /\ \E d \in Deliveries : dlv[d].status = "DELIVERED"
          /\ order.choice = "DELIVERY"
          /\ \E d \in Deliveries :
               /\ LastDelivered(d)
               /\ task' = [task EXCEPT ![t].pc = "credit", ![t].drv = dlv[d].driver]
       \/ /\ order.status = "DELIVERED"
          /\ \/ \A d \in Deliveries : dlv[d].status # "DELIVERED"
             \/ order.choice # "DELIVERY"
          /\ task' = [task EXCEPT ![t].pc = "credit", ![t].drv = NoDriver]
    /\ UNCHANGED <<order, dlv, portionsLeft, stripe, money, penalties,
                   watchdogs, notified>>

\* Seller and driver PENDING until the safety window has passed, the
\* platform's commission at once.
CreditForCompletedOrder(t) ==
    /\ task[t].pc = "credit"
    /\ earning' = [p \in Payees |->
                     IF earning[p] # "none" THEN earning[p]
                     ELSE IF p = "platform" THEN "AVAILABLE"
                     ELSE IF p \in {"seller", task[t].drv} THEN "PENDING"
                     ELSE "none"]
    /\ Done(t)
    /\ UNCHANGED <<order, dlv, portionsLeft, stripe, debt, penalties,
                   watchdogs, notified>>

\* The release sweep runs in the API (cron) and in the worker (job).  It picks
\* the PENDING entries whose window has elapsed, any of them ...
ReleaseDuePendingEntries(t, p) ==
    /\ task[t] = Idle
    /\ \E due \in SUBSET {q \in Payees \ {"platform"} : earning[q] = "PENDING"} :
         /\ due # {}
         /\ task' = [task EXCEPT ![t].op = "sweep", ![t].pc = "sweepOrder",
                                 ![t].proc = p, ![t].due = due]
    /\ UNCHANGED <<order, dlv, portionsLeft, stripe, money, penalties,
                   watchdogs, notified>>

\* ... then reads the orders' statuses ...
SweepReadOrder(t) ==
    /\ At(t, "sweep", "sweepOrder")
    /\ IF order.status \in Resolved
       THEN task' = [task EXCEPT ![t].pc = "sweepWrite", ![t].saw = order.status]
       ELSE Done(t)
    /\ UNCHANGED <<order, dlv, portionsLeft, stripe, money, penalties,
                   watchdogs, notified>>

\* ... and releases or reverses the entries that are still PENDING.
SweepWrite(t) ==
    /\ At(t, "sweep", "sweepWrite")
    /\ SettlePending(task[t].due,
                     IF task[t].saw = "DELIVERED" THEN "AVAILABLE" ELSE "CANCELLED")
    /\ Done(t)
    /\ UNCHANGED <<order, dlv, portionsLeft, stripe, debt, penalties,
                   watchdogs, notified>>

-----------------------------------------------------------------------------
(* Strikes: addStrike looks for a strike of the same source, then inserts *)

StrikeKey(t) ==
    CASE task[t].op = "sellerCannotProvide" -> <<"SELLER_CANNOT_PROVIDE", 0>>
      [] task[t].op = "sellerUnavailable"   -> <<"SELLER_UNAVAILABLE", 0>>
      [] OTHER                              -> <<"DRIVER_DISAPPEARED", task[t].d>>

\* Only the driver's strike is an immediateExclude.
AfterStrike(t) ==
    IF task[t].op = "driverTimeout" THEN Goto(t, "suspend") ELSE Done(t)

AddStrikeCheck(t) ==
    /\ task[t].pc = "strikeCheck"
    /\ IF strikes[StrikeKey(t)] > 0 THEN AfterStrike(t) ELSE Goto(t, "strikeCreate")
    /\ UNCHANGED <<order, dlv, portionsLeft, stripe, money, penalties,
                   watchdogs, notified>>

AddStrikeCreate(t) ==
    /\ task[t].pc = "strikeCreate"
    /\ strikes' = [k \in StrikeKeys |->
                     IF k = StrikeKey(t) THEN strikes[k] + 1 ELSE strikes[k]]
    /\ AfterStrike(t)
    /\ UNCHANGED <<order, dlv, portionsLeft, stripe, money, suspended,
                   watchdogs, notified>>

ImmediateExclude(t) ==
    /\ At(t, "driverTimeout", "suspend")
    /\ suspended' = suspended \cup ({task[t].drv} \ {NoDriver})
    /\ Done(t)
    /\ UNCHANGED <<order, dlv, portionsLeft, stripe, money, strikes,
                   watchdogs, notified>>

-----------------------------------------------------------------------------
(* Failures *)

\* A statement throws and nothing catches it: the handler ends where it is.
Abort(t) ==
    /\ "db" \in Faults
    /\ task[t] # Idle
    /\ Done(t)
    /\ UNCHANGED <<order, dlv, portionsLeft, stripe, money, penalties,
                   watchdogs, notified>>

\* The job a task of the worker was running.
JobOf(r) ==
    CASE r.op = "noDriverTimeout" -> {<<"noDriver", 0>>}
      [] r.op = "autoCancel"      -> {<<"noDriverResponse", 0>>}
      [] r.op = "driverTimeout"   -> {<<"driverDelivery", r.d>>}
      [] OTHER                    -> {}

\* A process dies with its handlers and its in-process timeouts.  BullMQ hands
\* a job that stalled in the worker out again, or has given up on it.
Crash(p) ==
    /\ "crash" \in Faults
    /\ task' = [t \in Tasks |-> IF task[t].proc = p THEN Idle ELSE task[t]]
    /\ timers' = {x \in timers : x[1] # p}
    /\ \/ jobs' = jobs
       \/ p = "worker" /\ jobs' = jobs \cup
            UNION {JobOf(task[t]) : t \in {u \in Tasks : task[u].proc = "worker"}}
    /\ UNCHANGED <<order, dlv, portionsLeft, stripe, money, penalties, notified>>

-----------------------------------------------------------------------------
(* The specification *)

\* A new handler begins.
Request(t) ==
    \/ ConfirmPaymentForBuyer(t) \/ HandlePaymentIntentSucceeded(t)
    \/ HandlePaymentIntentFailed(t)
    \/ StartPreparing(t) \/ MarkReady(t) \/ ConfirmPickup(t)
    \/ CancelAsSeller(t) \/ SellerCannotProvide(t)
    \/ \E d \in Deliveries :
         \/ \E drv \in Drivers : Claim(t, drv, d)
         \/ ArriveAtPickup(t, d) \/ DriverConfirmPickup(t, d)
         \/ ConfirmDelivery(t, d) \/ ReportSellerUnavailable(t, d)
    \/ \E pc \in {"switch", "cancelRead"} : DecideNoDriver(t, pc)

\* A watchdog or the sweep begins.
Background(t) ==
    \E p \in Procs :
      \/ HandleNoDriverTimeout(t, p) \/ AutoCancelNoResponse(t, p)
      \/ \E d \in Deliveries : HandleDriverDeliveryTimeout(t, p, d)
      \/ ReleaseDuePendingEntries(t, p)

\* A handler in flight takes its next step.
Step(t) ==
    \/ IsPaymentSucceeded(t) \/ WriteConfirmed(t) \/ NotifyOrderPaid(t)
    \/ PaymentFailedRead(t) \/ PaymentFailedCommit(t)
    \/ WritePreparing(t) \/ MarkReadyCommit(t) \/ ScheduleNoDriverTimeout(t)
    \/ ConfirmPickupWrite(t)
    \/ CancelAsSellerRead(t) \/ CancelAsSellerCommit(t)
    \/ SellerCannotProvideCommit(t)
    \/ ClaimUpdate(t) \/ WriteAtPickup(t) \/ DriverPickupCommit(t)
    \/ ScheduleDriverDeliveryTimeout(t)
    \/ WriteDelivered(t) \/ ConfirmDeliveredByDriver(t) \/ WriteOrderDelivered(t)
    \/ SellerUnavailableCheckOrder(t) \/ WriteSellerUnavailable(t)
    \/ CancelForSellerUnavailable(t) \/ SellerUnavailableCommit(t)
    \/ CompensateDriver(t)
    \/ WriteNoDriverAvailable(t) \/ ScheduleNoDriverResponseTimeout(t)
    \/ SwitchOrderToPickup(t) \/ CancelNoDriverRead(t) \/ CancelNoDriverCommit(t)
    \/ DriverTimeoutReadOrder(t) \/ ResolveDriverDisappeared(t)
    \/ ReverseDriverEarning(t) \/ CreditSellerEarning(t) \/ RecordDriverDebt(t)
    \/ RefundRead(t) \/ RefundCreate(t) \/ RefundRecord(t)
    \/ ReversePendingEntries(t)
    \/ CreditForCompletedOrderRead(t) \/ CreditForCompletedOrder(t)
    \/ SweepReadOrder(t) \/ SweepWrite(t)
    \/ AddStrikeCheck(t) \/ AddStrikeCreate(t) \/ ImmediateExclude(t)

Next ==
    \/ BuyerPays \/ CardDeclined
    \/ \E t \in Tasks : Request(t) \/ Background(t) \/ Step(t) \/ Abort(t)
    \/ \E p \in Procs : Crash(p)

Spec == Init /\ [][Next]_vars

\* Fairness.  A handler that has begun runs on (Node's event loop); a due
\* timeout or job is eventually run although requests keep coming; Stripe
\* retries a webhook until it is answered.
Fairness ==
    /\ \A t \in Tasks : WF_vars(Step(t))
    /\ SF_vars(\E t \in Tasks, p \in Procs : HandleNoDriverTimeout(t, p))
    /\ SF_vars(\E t \in Tasks, p \in Procs : AutoCancelNoResponse(t, p))
    /\ \A d \in Deliveries :
         SF_vars(\E t \in Tasks, p \in Procs : HandleDriverDeliveryTimeout(t, p, d))
    /\ SF_vars(\E t \in Tasks : HandlePaymentIntentSucceeded(t))

FairSpec == Spec /\ Fairness

-----------------------------------------------------------------------------
(* Properties *)

OrderType ==
    [status : OrderStatuses, choice : Choices, restored : BOOLEAN, pi : BOOLEAN,
     refund : BOOLEAN]
RowType ==
    [status : DeliveryStatuses, driver : Drivers \cup {NoDriver}, picked : BOOLEAN,
     confirmed : BOOLEAN, unavailable : BOOLEAN, rank : 0 .. MaxDeliveries]
StripeType == [paid : BOOLEAN, declined : BOOLEAN, refunded : BOOLEAN]
TaskType ==
    [op : Ops \cup {"none"}, pc : Steps \cup {"idle"}, proc : Procs,
     d : 0 .. MaxDeliveries, drv : Drivers \cup {NoDriver}, restored : BOOLEAN,
     saw : OrderStatuses \cup Choices \cup {"none"}, due : SUBSET Payees]

\* The type invariant: every row, entry and handler stays within the enums the
\* code writes.
TypeOK ==
    /\ order \in OrderType
    /\ dlv \in [Deliveries -> RowType]
    /\ portionsLeft \in Nat
    /\ stripe \in StripeType
    /\ earning \in [Payees -> EntryStatuses]
    /\ debt \subseteq Drivers
    /\ strikes \in [StrikeKeys -> Nat]
    /\ suspended \subseteq Drivers
    /\ timers \subseteq Procs \X WatchdogKeys
    /\ jobs \subseteq WatchdogKeys
    /\ notified \in Nat
    /\ task \in [Tasks -> TaskType]

AllIdle == \A t \in Tasks : task[t] = Idle

\* createOrder's promise (orders.service.ts, end of createOrder): the seller
\* only ever sees paid orders.  Whatever races or fails, an order that has left
\* PENDING and is not cancelled has been charged.
PaidBeforeSeller == order.status \notin {"PENDING", "CANCELLED"} => stripe.paid

\* Custody of the food, on every delivery row: it is delivered only after it
\* was picked up, and picked up only by an assigned driver, although the driver
\* handlers write the row by id and late writes may overwrite its status.
CustodyChain ==
    \A d \in Deliveries :
      /\ dlv[d].confirmed \/ dlv[d].status \in PostPickup => dlv[d].picked
      /\ dlv[d].picked => dlv[d].driver # NoDriver

\* The seller of a DELIVERY order has an earning only once some driver scanned
\* the seller's pickup QR: a cancelled or refunded sale whose dish never left
\* the kitchen is never credited.
SellerPaidOnlyAfterHandover ==
    earning["seller"] # "none" =>
      order.choice = "PICKUP" \/ \E d \in Deliveries : dlv[d].picked

\* A driver has an earning only for a delivery of their own, which they either
\* completed or found the seller unavailable for.
DriverPaidOnlyForOwnTrip ==
    \A drv \in Drivers :
      earning[drv] # "none" =>
        \E d \in Deliveries :
          dlv[d].driver = drv /\ (dlv[d].confirmed \/ dlv[d].unavailable)

\* A driver is charged for the buyer's refund, or excluded, only over food that
\* they did pick up, and only after the seller's earning was booked.
DriverChargedOnlyAfterLoss ==
    \A drv \in debt \cup suspended :
      /\ earning["seller"] # "none"
      /\ \E d \in Deliveries : dlv[d].driver = drv /\ dlv[d].picked

\* The atomic claim: once a driver has a delivery no step gives it to another
\* or takes it away.
ClaimExclusive ==
    [][\A d \in Deliveries :
         dlv[d].driver # NoDriver => dlv'[d].driver = dlv[d].driver]_vars

\* The ledger only moves forward: a reversed earning is never released, and a
\* released one is never reversed or re-booked, although the sweep, the refund
\* and the credit of one order may all run at once.
LedgerMonotone ==
    [][\A p \in Payees :
         /\ earning[p] \in {"CANCELLED", "AVAILABLE"} => earning'[p] = earning[p]
         /\ earning[p] = "PENDING" => earning'[p] # "none"]_vars

\* The stock an order took is given back at most once, and it is given back
\* exactly when the order says so (the inventoryRestored flag).
StockRestoredOnce ==
    portionsLeft = InitialPortions + IF order.restored THEN Quantity ELSE 0

\* "never double-strike the same incident" (strikes.service.ts, addStrike).
StrikeOncePerSource == \A k \in StrikeKeys : strikes[k] <= 1

\* The "order paid" push "fires exactly once" (confirmPaymentForBuyer).
SellerNotifiedOnce == notified <= 1

\* The driver-disappeared watchdog "does NOT pay the driver"
\* (handleDriverDeliveryTimeout): no driver is both charged and paid.
DisappearedDriverNotPaid ==
    \A drv \in debt : earning[drv] \notin {"PENDING", "AVAILABLE"}

\* Stripe and the Order row agree on the refund whenever no handler is running.
RefundBooksAgree == AllIdle => order.refund = stripe.refunded

\* When no handler is running, an order the seller was told about and that is
\* now cancelled has been refunded, whichever of the five paths cancelled it.
CancelledSaleIsRefunded ==
    AllIdle /\ order.status = "CANCELLED" /\ notified > 0 => stripe.refunded

\* markReady creates one delivery: two rows would send out two drivers.
OneDelivery == \A d, e \in Deliveries : Created(d) /\ Created(e) => d = e

\* "Cancelled / refunded orders never reach here with a payable status, so no
\* credit is booked" (releaseFundsForCompletedOrder): the completion credit,
\* recognised by its commission row, is not booked once the buyer has been
\* refunded.
NoCreditAfterRefund ==
    [][earning["platform"] # earning'["platform"] => ~stripe.refunded]_vars

\* "Lost a race with another action [...] Treat as no-op." (cancelAsSeller):
\* the buyer is not refunded for an order that no handler cancelled.  (A
\* cancellation sets inventoryRestored, or follows a pickup.)
LostCancelIsNoOp ==
    [][stripe'.refunded # stripe.refunded =>
         \/ order.restored \/ order.status = "CANCELLED"
         \/ \E d \in Deliveries : dlv[d].picked]_vars

\* "money won't arrive" (handlePaymentIntentFailed): once everything has
\* settled, no cancelled order holds the buyer's money.
CancelledOrderHoldsNoMoney ==
    AllIdle /\ order.status = "CANCELLED" /\ stripe.paid => stripe.refunded

\* Liveness.  A charge is eventually seen: the order leaves PENDING.
PaymentEventuallySeen == stripe.paid ~> order.status # "PENDING"

\* Liveness.  An order on the road never stays there: it is delivered, or the
\* driver-disappeared watchdog resolves it.
DeliveryResolves == order.status = "IN_DELIVERY" ~> order.status # "IN_DELIVERY"

\* Liveness.  An order does not wait for a driver for ever: somebody claims the
\* delivery, it is called off, or the order moves on, the buyer's silence on the
\* no-driver prompt being answered for them.  (After cancelAsSeller the order no
\* longer waits, though its delivery goes on SEARCHING.)
SearchEnds ==
    (order.status \in {"READY", "NO_DRIVER_AVAILABLE"}
        /\ \E d \in Deliveries : dlv[d].status = "SEARCHING")
      ~> (order.status \notin {"READY", "NO_DRIVER_AVAILABLE"}
            \/ \A d \in Deliveries : dlv[d].status # "SEARCHING")
=============================================================================
