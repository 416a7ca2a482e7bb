--------------------------- MODULE OrderFlowProofs ---------------------------
(***************************************************************************)
(* Proofs, for every number of handlers, drivers and delivery rows and     *)
(* every combination of failures, that OrderFlow keeps its safety          *)
(* properties.  The argument:                                              *)
(*   1. TypeOK is inductive by itself.                                     *)
(*   2. A few facts never go away once true (Monotone): the charge, a      *)
(*      pickup, a delivery proof, a driver's assignment, a wallet entry,   *)
(*      the switch to PICKUP.                                              *)
(*   3. Every handler in flight therefore keeps what it checked when it    *)
(*      began (HandlerFacts), even when other handlers overwrite the       *)
(*      statuses it read; with that the properties are inductive.          *)
(*   4. Stock, second deliveries, the driver's debt and the refund of a    *)
(*      cancelled sale do depend on those statuses.  When handlers come    *)
(*      one at a time (OneAtATime) what a handler has read is still so     *)
(*      when it writes (SeqInv), whatever fails or crashes in between.     *)
(***************************************************************************)
EXTENDS OrderFlow, TLAPS

-----------------------------------------------------------------------------
(* The inductive invariant *)

DeliveryOps == {"confirmDelivery", "driverTimeout"}
CallerOps == {"sellerUnavailable", "driverTimeout"}
DriverOps == {"arriveAtPickup", "driverPickup"} \cup DeliveryOps \cup CallerOps

\* The food has left the seller, or the buyer is to fetch it.
Handed == order.choice = "PICKUP" \/ \E d \in Deliveries : dlv[d].picked

\* The claim and the driver handlers work on an existing row.
HandlerRows ==
    \A t \in Tasks : task[t].op \in DriverOps \cup {"claim"} => task[t].d \in Deliveries

\* A driver handler works on a row that has a driver, the caller itself where
\* the handler keeps the driver's id; the claim knows who is asking.
RowFacts(k) ==
    /\ k.op = "claim" => k.drv \in Drivers
    /\ k.op \in DriverOps => dlv[k.d].driver # NoDriver
    /\ k.op \in CallerOps => k.drv = dlv[k.d].driver

\* How far a handler has got with the row it works on.
ProgressFacts(k) ==
    /\ k.op \in DeliveryOps => dlv[k.d].picked
    /\ k.op = "confirmDelivery" /\ k.pc # "write" => dlv[k.d].confirmed
    /\ k.op = "sellerUnavailable" /\ k.pc \notin {"checkOrder", "write"}
         => dlv[k.d].unavailable
    /\ k.op = "driverTimeout" /\ k.pc \in {"debt", "strikeCheck", "strikeCreate", "suspend"}
         => earning["seller"] # "none"

\* A handler that credits the ledger has seen the handover, and pays only a
\* driver whose delivery is confirmed.
CreditFacts(k) ==
    /\ k.op = "confirmPickup" => order.choice = "PICKUP"
    /\ k.pc \in {"creditRead", "credit"} => k.op \in {"confirmPickup", "confirmDelivery"}
    /\ k.pc = "credit" /\ k.drv # NoDriver =>
         \E d \in Deliveries : dlv[d].driver = k.drv /\ dlv[d].confirmed

HandlerFacts == \A t \in Tasks :
    RowFacts(task[t]) /\ ProgressFacts(task[t]) /\ CreditFacts(task[t])

\* Before the charge nothing but payment handlers and the sweep is in flight.
UnpaidSteps ==
    {<<"confirmPayment", "retrieve">>, <<"payFailed", "txRead">>,
     <<"payFailed", "commit">>, <<"sweep", "sweepOrder">>, <<"sweep", "sweepWrite">>}
Unpaid ==
    /\ order.status \in {"PENDING", "CANCELLED"}
    /\ \A d \in Deliveries : ~Created(d)
    /\ timers = {} /\ jobs = {}
    /\ \A t \in Tasks :
         \/ task[t] = Idle
         \/ <<task[t].op, task[t].pc>> \in UnpaidSteps
ChargeFirst == stripe.paid \/ Unpaid

RowsConfirmed == \A d \in Deliveries : dlv[d].status = "DELIVERED" => dlv[d].confirmed

IInv ==
    /\ TypeOK
    /\ HandlerRows
    /\ HandlerFacts
    /\ ChargeFirst
    /\ RowsConfirmed
    /\ CustodyChain
    /\ SellerPaidOnlyAfterHandover
    /\ DriverPaidOnlyForOwnTrip
    /\ DriverChargedOnlyAfterLoss

-----------------------------------------------------------------------------
(* Types *)

\* An idle slot is a well-typed handler.
LEMMA IdleType == Idle \in TaskType
  BY BoundsAssumption DEF Idle, TaskType, Procs, Ops, Steps

\* The order that createOrder has just committed is well-typed.
LEMMA TypeInit == Init => TypeOK /\ HandlerRows
  <1> SUFFICES ASSUME Init PROVE TypeOK /\ HandlerRows
    OBVIOUS
  <1>1. task \in [Tasks -> TaskType] /\ HandlerRows
    BY IdleType DEF Init, HandlerRows, Idle, DriverOps, DeliveryOps, CallerOps
  <1>2. NoRow \in RowType
    BY BoundsAssumption DEF NoRow, RowType, DeliveryStatuses
  <1>3. order \in OrderType
    BY DEF Init, OrderType, OrderStatuses
  <1>4. QED
    BY <1>1, <1>2, <1>3, BoundsAssumption DEF Init, TypeOK, StripeType, EntryStatuses

\* Moving a handler on changes nothing but its program counter.
LEMMA GotoType ==
  ASSUME TypeOK, HandlerRows, NEW t \in Tasks, NEW pc \in Steps, Goto(t, pc)
  PROVE  task' \in [Tasks -> TaskType] /\ HandlerRows'
  <1>1. \A k \in TaskType : [k EXCEPT !.pc = pc] \in TaskType
    BY DEF TaskType
  <1>2. task' \in [Tasks -> TaskType]
    BY <1>1 DEF TypeOK, Goto
  <1>3. \A u \in Tasks : task'[u].op = task[u].op /\ task'[u].d = task[u].d
    BY DEF TypeOK, Goto, TaskType
  <1>4. QED
    BY <1>2, <1>3 DEF HandlerRows

\* Ending a handler frees its slot.
LEMMA DoneType ==
  ASSUME TypeOK, HandlerRows, NEW t \in Tasks, Done(t)
  PROVE  task' \in [Tasks -> TaskType] /\ HandlerRows'
  BY IdleType DEF TypeOK, HandlerRows, Done, Idle, DriverOps, DeliveryOps, CallerOps

\* Both ways on from the refund and from the strike are one of these two.
LEMMA AfterType ==
  ASSUME TypeOK, HandlerRows, NEW t \in Tasks, AfterRefund(t) \/ AfterStrike(t)
  PROVE  task' \in [Tasks -> TaskType] /\ HandlerRows'
  BY GotoType, DoneType DEF AfterRefund, AfterStrike, Steps

\* Writing the order's status keeps the row well-typed.
LEMMA SetStatusType ==
  ASSUME TypeOK, NEW s \in OrderStatuses, SetStatus(s)
  PROVE  order' \in OrderType
  BY DEF TypeOK, SetStatus, OrderType

\* So does writing a delivery's status.
LEMMA SetDeliveryType ==
  ASSUME TypeOK, NEW d, NEW s \in DeliveryStatuses, SetDelivery(d, s)
  PROVE  dlv' \in [Deliveries -> RowType]
  <1>1. \A r \in RowType : [r EXCEPT !.status = s] \in RowType
    BY DEF RowType
  <1>2. QED
    BY <1>1 DEF TypeOK, SetDelivery

\* And the cancel-and-restore transaction.
LEMMA CancelAndRestoreType ==
  ASSUME TypeOK, NEW t \in Tasks, CancelAndRestore(t)
  PROVE  order' \in OrderType /\ portionsLeft' \in Nat
  <1>1. order' \in OrderType
    BY DEF TypeOK, CancelAndRestore, OrderType, OrderStatuses
  <1>2. portionsLeft' \in Nat
    BY BoundsAssumption DEF TypeOK, CancelAndRestore
  <1>3. QED
    BY <1>1, <1>2

\* A handler that goes on with a copy of the inventoryRestored flag it read.
LEMMA SnapshotType ==
  ASSUME TypeOK, HandlerRows, NEW t \in Tasks,
         task' = [task EXCEPT ![t].pc = "commit", ![t].restored = order.restored]
  PROVE  task' \in [Tasks -> TaskType] /\ HandlerRows'
  <1>1. ASSUME NEW k \in TaskType, NEW b \in BOOLEAN
        PROVE  [k EXCEPT !.pc = "commit", !.restored = b] \in TaskType
    BY DEF TaskType, Steps
  <1> order.restored \in BOOLEAN
    BY DEF TypeOK, OrderType
  <1>2. task' \in [Tasks -> TaskType]
    BY <1>1 DEF TypeOK
  <1>3. \A u \in Tasks : task'[u].op = task[u].op /\ task'[u].d = task[u].d
    BY DEF TypeOK, TaskType
  <1>4. QED
    BY <1>2, <1>3 DEF HandlerRows

\* A handler knows its process, and its driver if it has one.
LEMMA TaskFields ==
  ASSUME TypeOK, NEW t \in Tasks
  PROVE  task[t].proc \in Procs /\ task[t].drv \in Drivers \cup {NoDriver}
  BY DEF TypeOK, TaskType

\* The ledger operations only write enum values.
LEMMA LedgerType ==
  ASSUME TypeOK, NEW S, NEW s \in EntryStatuses, Credit(S, s) \/ SettlePending(S, s)
  PROVE  earning' \in [Payees -> EntryStatuses]
  BY DEF TypeOK, Credit, SettlePending

\* Arming and firing keep to the known watchdogs.
LEMMA WatchdogType ==
  ASSUME TypeOK, NEW p \in Procs, NEW k \in WatchdogKeys, Arm(p, k) \/ Fire(p, k)
  PROVE  timers' \subseteq Procs \X WatchdogKeys /\ jobs' \subseteq WatchdogKeys
  BY DEF TypeOK, Arm, Fire

\* A handler that begins is well-typed.
LEMMA TypeRequest ==
  ASSUME TypeOK, HandlerRows, NEW t \in Tasks, Request(t)
  PROVE  TypeOK' /\ HandlerRows'
  <1> USE BoundsAssumption DEF TypeOK, HandlerRows, Steps, DriverOps, DeliveryOps,
          CallerOps, money, penalties, watchdogs
  <1>1. CASE ConfirmPaymentForBuyer(t)
    BY <1>1 DEF ConfirmPaymentForBuyer, Begin, TaskType, Ops, Procs, Idle
  <1>2. CASE HandlePaymentIntentSucceeded(t)
    BY <1>2 DEF HandlePaymentIntentSucceeded, Begin, TaskType, Ops, Procs,
       Idle
  <1>3. CASE HandlePaymentIntentFailed(t)
    BY <1>3 DEF HandlePaymentIntentFailed, Begin, TaskType, Ops, Procs, Idle
  <1>4. CASE StartPreparing(t)
    BY <1>4 DEF StartPreparing, Begin, TaskType, Ops, Procs, Idle
  <1>5. CASE MarkReady(t)
    BY <1>5 DEF MarkReady, Choices, OrderStatuses, TaskType, Ops, Procs, Idle,
       OrderType
  <1>6. CASE ConfirmPickup(t)
    BY <1>6 DEF ConfirmPickup, Begin, Choices, OrderStatuses, TaskType, Ops,
       Procs, Idle
  <1>7. CASE CancelAsSeller(t)
    BY <1>7 DEF CancelAsSeller, Begin, TaskType, Ops, Procs, Idle
  <1>8. CASE SellerCannotProvide(t)
    BY <1>8 DEF SellerCannotProvide, TaskType, Ops, Procs, Idle, OrderType,
       Latest
  <1>9. CASE \E drv \in Drivers, d \in Deliveries : Claim(t, drv, d)
    BY <1>9 DEF Claim, TaskType, Ops, Procs, Idle
  <1>10. CASE \E d \in Deliveries : ArriveAtPickup(t, d)
    BY <1>10 DEF ArriveAtPickup, BeginOn, Own, TaskType, Ops, Procs, Idle,
       RowType
  <1>11. CASE \E d \in Deliveries : DriverConfirmPickup(t, d)
    BY <1>11 DEF DriverConfirmPickup, BeginOn, Own, TaskType, Ops, Procs,
       Idle, RowType
  <1>12. CASE \E d \in Deliveries : ConfirmDelivery(t, d)
    BY <1>12 DEF ConfirmDelivery, BeginOn, Own, TaskType, Ops, Procs, Idle,
       RowType
  <1>13. CASE \E d \in Deliveries : ReportSellerUnavailable(t, d)
    BY <1>13 DEF ReportSellerUnavailable, BeginOn, Own, TaskType, Ops, Procs,
       Idle, RowType
  <1>14. CASE \E pc \in {"switch", "cancelRead"} : DecideNoDriver(t, pc)
    BY <1>14 DEF DecideNoDriver, TaskType, Ops, Procs, Idle, Latest
  <1>15. QED
    BY <1>1, <1>2, <1>3, <1>4, <1>5, <1>6, <1>7, <1>8, <1>9, <1>10, <1>11,
       <1>12, <1>13, <1>14 DEF Request

\* So is a watchdog or a sweep that begins.
LEMMA TypeBackground ==
  ASSUME TypeOK, HandlerRows, NEW t \in Tasks, Background(t)
  PROVE  TypeOK' /\ HandlerRows'
  <1> USE BoundsAssumption DEF TypeOK, HandlerRows, Steps, DriverOps, DeliveryOps,
          CallerOps, money, penalties, watchdogs
  <1>1. CASE \E p \in Procs : HandleNoDriverTimeout(t, p)
    BY <1>1 DEF HandleNoDriverTimeout, Fire, WatchdogKeys, Choices,
       OrderStatuses, TaskType, Ops, Procs, Idle, OrderType, Latest
  <1>2. CASE \E p \in Procs : AutoCancelNoResponse(t, p)
    BY <1>2 DEF AutoCancelNoResponse, Fire, WatchdogKeys, TaskType, Ops,
       Procs, Idle
  <1>3. CASE \E p \in Procs, d \in Deliveries : HandleDriverDeliveryTimeout(t, p, d)
    BY <1>3 DEF HandleDriverDeliveryTimeout, Fire, WatchdogKeys, TaskType,
       Ops, Procs, Idle, RowType
  <1>4. CASE \E p \in Procs : ReleaseDuePendingEntries(t, p)
    BY <1>4 DEF ReleaseDuePendingEntries, TaskType, Ops, Procs, Idle, Payees
  <1>5. QED
    BY <1>1, <1>2, <1>3, <1>4 DEF Background

\* Every step of a handler keeps the types.
LEMMA TypeStep ==
  ASSUME TypeOK, HandlerRows, NEW t \in Tasks, Step(t)
  PROVE  TypeOK' /\ HandlerRows'
  <1> USE BoundsAssumption DEF TypeOK, HandlerRows, Steps, DriverOps, DeliveryOps,
          CallerOps, money, penalties, watchdogs
  <1>1. CASE IsPaymentSucceeded(t)
    BY <1>1, GotoType, DoneType DEF IsPaymentSucceeded
  <1>2. CASE WriteConfirmed(t)
    BY <1>2, GotoType DEF WriteConfirmed, OrderType, OrderStatuses
  <1>3. CASE NotifyOrderPaid(t)
    BY <1>3, DoneType DEF NotifyOrderPaid
  <1>4. CASE PaymentFailedRead(t)
    BY <1>4, DoneType, SnapshotType DEF PaymentFailedRead
  <1>5. CASE PaymentFailedCommit(t)
    <2>1. order' \in OrderType
      BY <1>5 DEF PaymentFailedCommit, OrderType, OrderStatuses
    <2>2. portionsLeft' \in Nat
      BY <1>5 DEF PaymentFailedCommit
    <2>3. QED
      BY <1>5, <2>1, <2>2, DoneType DEF PaymentFailedCommit
  <1>6. CASE WritePreparing(t)
    BY <1>6, DoneType, SetStatusType DEF WritePreparing, OrderStatuses
  <1>7. CASE MarkReadyCommit(t)
    BY <1>7, GotoType, DoneType, SetStatusType, SetDeliveryType DEF
       MarkReadyCommit, OrderStatuses, DeliveryStatuses, Choices
  <1>8. CASE ScheduleNoDriverTimeout(t)
    BY <1>8, DoneType, WatchdogType, TaskFields DEF ScheduleNoDriverTimeout, WatchdogKeys
  <1>9. CASE ConfirmPickupWrite(t)
    BY <1>9, GotoType, SetStatusType DEF ConfirmPickupWrite, OrderStatuses
  <1>10. CASE CancelAsSellerRead(t)
    BY <1>10, GotoType, SnapshotType DEF CancelAsSellerRead
  <1>11. CASE CancelAsSellerCommit(t)
    BY <1>11, GotoType, CancelAndRestoreType DEF CancelAsSellerCommit
  <1>12. CASE SellerCannotProvideCommit(t)
    BY <1>12, GotoType, SetDeliveryType, CancelAndRestoreType DEF
       SellerCannotProvideCommit, DeliveryStatuses
  <1>13. CASE ClaimUpdate(t)
    BY <1>13, DoneType DEF ClaimUpdate, RowType, DeliveryStatuses
  <1>14. CASE WriteAtPickup(t)
    BY <1>14, DoneType, SetDeliveryType DEF WriteAtPickup, DeliveryStatuses
  <1>15. CASE DriverPickupCommit(t)
    <2>1. ASSUME NEW r \in RowType
          PROVE  [r EXCEPT !.status = "PICKED_UP", !.picked = TRUE] \in RowType
      BY DEF RowType, DeliveryStatuses
    <2>2. dlv' \in [Deliveries -> RowType]
      BY <1>15, <2>1 DEF DriverPickupCommit
    <2>3. QED
      BY <1>15, <2>2, GotoType, SetStatusType DEF DriverPickupCommit, OrderStatuses
  <1>16. CASE ScheduleDriverDeliveryTimeout(t)
    <2>1. <<"driverDelivery", task[t].d>> \in WatchdogKeys
      BY <1>16 DEF ScheduleDriverDeliveryTimeout, At, WatchdogKeys
    <2>2. QED
      BY <1>16, <2>1, DoneType, WatchdogType, TaskFields DEF ScheduleDriverDeliveryTimeout
  <1>17. CASE WriteDelivered(t)
    <2>1. task[t].d \in Deliveries
      BY <1>17 DEF WriteDelivered, At
    <2>2. ASSUME NEW r \in RowType, NEW n \in 0 .. MaxDeliveries
          PROVE  [r EXCEPT !.status = "DELIVERED", !.confirmed = TRUE, !.rank = n]
                   \in RowType
      BY DEF RowType, DeliveryStatuses
    <2>3. ASSUME NEW r \in RowType, NEW n \in 0 .. MaxDeliveries
          PROVE  [r EXCEPT !.rank = n] \in RowType
      BY DEF RowType
    <2>4. \A e \in Deliveries : dlv[e].rank \in 0 .. MaxDeliveries
      BY DEF RowType
    <2>5. \A e \in Deliveries :
            dlv[e].rank > dlv[task[t].d].rank => dlv[e].rank - 1 \in 0 .. MaxDeliveries
      BY <2>1, <2>4
    <2>6. MaxDeliveries \in 0 .. MaxDeliveries
      OBVIOUS
    <2>7. \A e \in Deliveries : dlv'[e] \in RowType
      BY <1>17, <2>2, <2>3, <2>5, <2>6 DEF WriteDelivered
    <2>8. dlv' \in [Deliveries -> RowType]
      BY <1>17, <2>7 DEF WriteDelivered
    <2>9. QED
      BY <1>17, <2>8, GotoType DEF WriteDelivered
  <1>18. CASE ConfirmDeliveredByDriver(t)
    BY <1>18, GotoType, DoneType DEF ConfirmDeliveredByDriver, Choices,
       OrderStatuses
  <1>19. CASE WriteOrderDelivered(t)
    BY <1>19, GotoType, SetStatusType DEF WriteOrderDelivered, OrderStatuses
  <1>20. CASE SellerUnavailableCheckOrder(t)
    BY <1>20, GotoType, DoneType DEF SellerUnavailableCheckOrder
  <1>21. CASE WriteSellerUnavailable(t)
    <2>1. ASSUME NEW r \in RowType
          PROVE  [r EXCEPT !.status = "CANCELLED", !.unavailable = TRUE] \in RowType
      BY DEF RowType, DeliveryStatuses
    <2>2. dlv' \in [Deliveries -> RowType]
      BY <1>21, <2>1 DEF WriteSellerUnavailable
    <2>3. QED
      BY <1>21, <2>2, GotoType DEF WriteSellerUnavailable
  <1>22. CASE CancelForSellerUnavailable(t)
    BY <1>22, DoneType, SnapshotType DEF CancelForSellerUnavailable
  <1>23. CASE SellerUnavailableCommit(t)
    BY <1>23, GotoType, CancelAndRestoreType DEF SellerUnavailableCommit
  <1>24. CASE CompensateDriver(t)
    BY <1>24, GotoType, LedgerType DEF CompensateDriver, EntryStatuses
  <1>25. CASE WriteNoDriverAvailable(t)
    BY <1>25, GotoType, SetStatusType DEF WriteNoDriverAvailable,
       OrderStatuses
  <1>26. CASE ScheduleNoDriverResponseTimeout(t)
    BY <1>26, DoneType, WatchdogType, TaskFields DEF ScheduleNoDriverResponseTimeout, WatchdogKeys
  <1>27. CASE SwitchOrderToPickup(t)
    BY <1>27, DoneType, SetDeliveryType DEF SwitchOrderToPickup,
       DeliveryStatuses, Choices, OrderStatuses, OrderType
  <1>28. CASE CancelNoDriverRead(t)
    <2>1. PICK d \in 0 .. MaxDeliveries :
            task' = [task EXCEPT ![t].pc = "commit", ![t].d = d,
                                 ![t].restored = order.restored]
      BY <1>28 DEF CancelNoDriverRead
    <2>2. ASSUME NEW k \in TaskType, NEW b \in BOOLEAN
          PROVE  [k EXCEPT !.pc = "commit", !.d = d, !.restored = b] \in TaskType
      BY DEF TaskType
    <2> order.restored \in BOOLEAN
      BY DEF OrderType
    <2>3. task' \in [Tasks -> TaskType]
      BY <2>1, <2>2
    <2>4. \A u \in Tasks : task'[u].op = task[u].op /\ (u # t => task'[u].d = task[u].d)
      BY <2>1 DEF TaskType
    <2>5. HandlerRows'
      BY <1>28, <2>4 DEF CancelNoDriverRead
    <2>6. QED
      BY <1>28, <2>3, <2>5 DEF CancelNoDriverRead
  <1>29. CASE CancelNoDriverCommit(t)
    BY <1>29, GotoType, SetDeliveryType, CancelAndRestoreType DEF
       CancelNoDriverCommit, DeliveryStatuses
  <1>30. CASE DriverTimeoutReadOrder(t)
    BY <1>30, GotoType, DoneType DEF DriverTimeoutReadOrder
  <1>31. CASE ResolveDriverDisappeared(t)
    BY <1>31, GotoType, SetStatusType, SetDeliveryType DEF
       ResolveDriverDisappeared, OrderStatuses, DeliveryStatuses
  <1>32. CASE ReverseDriverEarning(t)
    BY <1>32, GotoType, LedgerType DEF ReverseDriverEarning, EntryStatuses
  <1>33. CASE CreditSellerEarning(t)
    BY <1>33, GotoType, LedgerType DEF CreditSellerEarning, EntryStatuses
  <1>34. CASE RecordDriverDebt(t)
    BY <1>34, GotoType, TaskFields DEF RecordDriverDebt
  <1>35. CASE RefundRead(t)
    BY <1>35, GotoType, AfterType DEF RefundRead
  <1>36. CASE RefundCreate(t)
    BY <1>36, GotoType, AfterType DEF RefundCreate, StripeType
  <1>37. CASE RefundRecord(t)
    BY <1>37, GotoType DEF RefundRecord, OrderType, OrderStatuses
  <1>38. CASE ReversePendingEntries(t)
    BY <1>38, LedgerType, AfterType DEF ReversePendingEntries, EntryStatuses
  <1>39. CASE CreditForCompletedOrderRead(t)
    <2>1. CASE Done(t)
      BY <1>39, <2>1, DoneType DEF CreditForCompletedOrderRead
    <2>2. CASE ~Done(t)
      <3>1. PICK drv \in Drivers \cup {NoDriver} :
              task' = [task EXCEPT ![t].pc = "credit", ![t].drv = drv]
        BY <1>39, <2>2 DEF CreditForCompletedOrderRead, RowType
      <3>2. ASSUME NEW k \in TaskType
            PROVE  [k EXCEPT !.pc = "credit", !.drv = drv] \in TaskType
        BY DEF TaskType
      <3>3. task' \in [Tasks -> TaskType]
        BY <3>1, <3>2
      <3>4. \A u \in Tasks : task'[u].op = task[u].op /\ task'[u].d = task[u].d
        BY <3>1 DEF TaskType
      <3>5. QED
        BY <1>39, <3>3, <3>4 DEF CreditForCompletedOrderRead
    <2>3. QED
      BY <2>1, <2>2
  <1>40. CASE CreditForCompletedOrder(t)
    BY <1>40, DoneType DEF CreditForCompletedOrder, EntryStatuses
  <1>41. CASE SweepReadOrder(t)
    <2>1. CASE Done(t)
      BY <1>41, <2>1, DoneType DEF SweepReadOrder
    <2>2. CASE ~Done(t)
      <3>1. task' = [task EXCEPT ![t].pc = "sweepWrite", ![t].saw = order.status]
        BY <1>41, <2>2 DEF SweepReadOrder
      <3>2. \A k \in TaskType :
              [k EXCEPT !.pc = "sweepWrite", !.saw = order.status] \in TaskType
        BY DEF TaskType, OrderType
      <3>3. task' \in [Tasks -> TaskType]
        BY <3>1, <3>2
      <3>4. \A u \in Tasks : task'[u].op = task[u].op /\ task'[u].d = task[u].d
        BY <3>1 DEF TaskType
      <3>5. QED
        BY <1>41, <3>3, <3>4 DEF SweepReadOrder
    <2>3. QED
      BY <2>1, <2>2
  <1>42. CASE SweepWrite(t)
    BY <1>42, DoneType, LedgerType DEF SweepWrite, EntryStatuses, Choices,
       OrderStatuses
  <1>43. CASE AddStrikeCheck(t)
    BY <1>43, GotoType, AfterType DEF AddStrikeCheck, StrikeKey
  <1>44. CASE AddStrikeCreate(t)
    <2>1. strikes' \in [StrikeKeys -> Nat]
      BY <1>44 DEF AddStrikeCreate
    <2>2. QED
      BY <1>44, <2>1, AfterType DEF AddStrikeCreate
  <1>45. CASE ImmediateExclude(t)
    BY <1>45, DoneType, TaskFields DEF ImmediateExclude
  <1>46. QED
    BY <1>1, <1>2, <1>3, <1>4, <1>5, <1>6, <1>7, <1>8, <1>9, <1>10, <1>11,
       <1>12, <1>13, <1>14, <1>15, <1>16, <1>17, <1>18, <1>19, <1>20, <1>21,
       <1>22, <1>23, <1>24, <1>25, <1>26, <1>27, <1>28, <1>29, <1>30, <1>31,
       <1>32, <1>33, <1>34, <1>35, <1>36, <1>37, <1>38, <1>39, <1>40, <1>41,
       <1>42, <1>43, <1>44, <1>45 DEF Step

\* Failures and the environment keep the types.
LEMMA TypeEnvironment ==
  ASSUME TypeOK, HandlerRows,
         \/ BuyerPays \/ CardDeclined
         \/ \E t \in Tasks : Abort(t)
         \/ \E p \in Procs : Crash(p)
  PROVE  TypeOK' /\ HandlerRows'
  <1> USE DEF TypeOK, HandlerRows, money, penalties, watchdogs
  <1>1. CASE BuyerPays
    BY <1>1 DEF BuyerPays, StripeType
  <1>2. CASE CardDeclined
    BY <1>2 DEF CardDeclined, StripeType
  <1>3. CASE \E t \in Tasks : Abort(t)
    BY <1>3, DoneType DEF Abort
  <1>4. ASSUME NEW p \in Procs, Crash(p) PROVE TypeOK' /\ HandlerRows'
    <2>1. task' \in [Tasks -> TaskType] /\ HandlerRows'
      BY <1>4, IdleType DEF Crash, Idle, DriverOps, DeliveryOps, CallerOps
    <2>2. timers' \subseteq Procs \X WatchdogKeys
      BY <1>4 DEF Crash
    <2>3. \A t \in Tasks : JobOf(task[t]) \subseteq WatchdogKeys
      BY DEF JobOf, WatchdogKeys, DriverOps, CallerOps
    <2>4. jobs' \subseteq WatchdogKeys
      BY <1>4, <2>3 DEF Crash
    <2>5. QED
      BY <1>4, <2>1, <2>2, <2>4 DEF Crash
  <1>5. QED
    BY <1>1, <1>2, <1>3, <1>4

\* A step of any kind keeps the types.
LEMMA TypeNext == TypeOK /\ HandlerRows /\ [Next]_vars => TypeOK' /\ HandlerRows'
  <1> SUFFICES ASSUME TypeOK, HandlerRows, [Next]_vars PROVE TypeOK' /\ HandlerRows'
    OBVIOUS
  <1>1. CASE UNCHANGED vars
    BY <1>1 DEF vars, TypeOK, HandlerRows
  <1>2. CASE Next
    BY <1>2, TypeRequest, TypeBackground, TypeStep, TypeEnvironment DEF Next
  <1>3. QED
    BY <1>1, <1>2

\* Type correctness: whatever handlers overlap and whatever fails, every row,
\* wallet entry, timer and handler stays within the enums the code writes.
THEOREM TypeCorrect == Spec => []TypeOK
  <1>1. Init => TypeOK /\ HandlerRows
    BY TypeInit
  <1>2. TypeOK /\ HandlerRows /\ [Next]_vars => (TypeOK /\ HandlerRows)'
    BY TypeNext
  <1>3. QED
    BY <1>1, <1>2, PTL DEF Spec
-----------------------------------------------------------------------------
(* Facts that never go away *)

Monotone ==
    /\ stripe.paid => stripe'.paid
    /\ order.choice = "PICKUP" => order'.choice = "PICKUP"
    /\ \A d \in Deliveries :
         /\ dlv[d].picked => dlv'[d].picked
         /\ dlv[d].confirmed => dlv'[d].confirmed
         /\ dlv[d].unavailable => dlv'[d].unavailable
         /\ dlv[d].driver # NoDriver => dlv'[d].driver = dlv[d].driver
    /\ \A p \in Payees : earning[p] # "none" => earning'[p] # "none"

\* A request or a watchdog that begins has only read so far.
LEMMA BeginningIsQuiet ==
  ASSUME NEW t \in Tasks, Request(t) \/ Background(t)
  PROVE  UNCHANGED <<order, dlv, stripe, earning, debt, suspended, notified>>
  BY DEF Request, Background, ConfirmPaymentForBuyer,
         HandlePaymentIntentSucceeded, HandlePaymentIntentFailed,
         StartPreparing, MarkReady, ConfirmPickup, CancelAsSeller,
         SellerCannotProvide, Claim, ArriveAtPickup, DriverConfirmPickup,
         ConfirmDelivery, ReportSellerUnavailable, DecideNoDriver,
         HandleNoDriverTimeout, AutoCancelNoResponse,
         HandleDriverDeliveryTimeout, ReleaseDuePendingEntries, money,
         penalties, watchdogs

\* No step of a handler takes one of these facts back.
LEMMA MonotoneStep ==
  ASSUME TypeOK, HandlerRows, NEW t \in Tasks, Step(t)
  PROVE  Monotone
  <1> USE DEF TypeOK, HandlerRows, Monotone, DriverOps, DeliveryOps, CallerOps, money
  <1>1. CASE WriteConfirmed(t)
    BY <1>1 DEF WriteConfirmed, OrderType
  <1>2. CASE PaymentFailedCommit(t)
    BY <1>2 DEF PaymentFailedCommit, OrderType
  <1>3. CASE WritePreparing(t)
    BY <1>3 DEF WritePreparing, SetStatus, OrderType
  <1>4. CASE MarkReadyCommit(t)
    BY <1>4 DEF MarkReadyCommit, SetStatus, SetDelivery, OrderType, RowType
  <1>5. CASE ConfirmPickupWrite(t)
    BY <1>5 DEF ConfirmPickupWrite, SetStatus, OrderType
  <1>6. CASE CancelAsSellerCommit(t)
    BY <1>6 DEF CancelAsSellerCommit, CancelAndRestore, OrderType
  <1>7. CASE SellerCannotProvideCommit(t)
    BY <1>7 DEF SellerCannotProvideCommit, SetDelivery, CancelAndRestore,
       OrderType, RowType
  <1>8. CASE ClaimUpdate(t)
    BY <1>8 DEF ClaimUpdate, RowType, At
  <1>9. CASE WriteAtPickup(t)
    BY <1>9 DEF WriteAtPickup, SetDelivery, RowType
  <1>10. CASE DriverPickupCommit(t)
    BY <1>10 DEF DriverPickupCommit, SetStatus, OrderType, RowType, At
  <1>11. CASE WriteDelivered(t)
    BY <1>11 DEF WriteDelivered, RowType, At
  <1>12. CASE WriteOrderDelivered(t)
    BY <1>12 DEF WriteOrderDelivered, SetStatus, OrderType
  <1>13. CASE WriteSellerUnavailable(t)
    BY <1>13 DEF WriteSellerUnavailable, RowType, At
  <1>14. CASE SellerUnavailableCommit(t)
    BY <1>14 DEF SellerUnavailableCommit, CancelAndRestore, OrderType
  <1>15. CASE CompensateDriver(t)
    BY <1>15 DEF CompensateDriver, Credit
  <1>16. CASE WriteNoDriverAvailable(t)
    BY <1>16 DEF WriteNoDriverAvailable, SetStatus, OrderType
  <1>17. CASE SwitchOrderToPickup(t)
    BY <1>17 DEF SwitchOrderToPickup, SetDelivery, OrderType, RowType
  <1>18. CASE CancelNoDriverCommit(t)
    BY <1>18 DEF CancelNoDriverCommit, SetDelivery, CancelAndRestore,
       OrderType, RowType
  <1>19. CASE ResolveDriverDisappeared(t)
    BY <1>19 DEF ResolveDriverDisappeared, SetStatus, SetDelivery, OrderType,
       RowType
  <1>20. CASE ReverseDriverEarning(t)
    BY <1>20 DEF ReverseDriverEarning, SettlePending
  <1>21. CASE CreditSellerEarning(t)
    BY <1>21 DEF CreditSellerEarning, Credit
  <1>22. CASE RefundCreate(t)
    BY <1>22 DEF RefundCreate, StripeType
  <1>23. CASE RefundRecord(t)
    BY <1>23 DEF RefundRecord, OrderType
  <1>24. CASE ReversePendingEntries(t)
    BY <1>24 DEF ReversePendingEntries, SettlePending
  <1>25. CASE CreditForCompletedOrder(t)
    BY <1>25 DEF CreditForCompletedOrder
  <1>26. CASE SweepWrite(t)
    BY <1>26 DEF SweepWrite, SettlePending
  <1>27. CASE UNCHANGED <<order, dlv, stripe, earning>>
    BY <1>27
  <1>28. QED
    BY <1>1, <1>2, <1>3, <1>4, <1>5, <1>6, <1>7, <1>8, <1>9, <1>10, <1>11,
       <1>12, <1>13, <1>14, <1>15, <1>16, <1>17, <1>18, <1>19, <1>20, <1>21,
       <1>22, <1>23, <1>24, <1>25, <1>26, <1>27 DEF Step, IsPaymentSucceeded,
       NotifyOrderPaid, PaymentFailedRead, ScheduleNoDriverTimeout,
       CancelAsSellerRead, ScheduleDriverDeliveryTimeout,
       ConfirmDeliveredByDriver, SellerUnavailableCheckOrder,
       CancelForSellerUnavailable, ScheduleNoDriverResponseTimeout,
       CancelNoDriverRead, DriverTimeoutReadOrder, RecordDriverDebt,
       RefundRead, CreditForCompletedOrderRead, SweepReadOrder,
       AddStrikeCheck, AddStrikeCreate, ImmediateExclude, money

\* No step at all does: the claim, the pickup, the proofs of delivery, the charge
\* and the ledger rows are permanent.
LEMMA MonotoneNext == TypeOK /\ HandlerRows /\ [Next]_vars => Monotone
  <1> SUFFICES ASSUME TypeOK, HandlerRows, [Next]_vars PROVE Monotone
    OBVIOUS
  <1>1. CASE UNCHANGED <<order, dlv, stripe, earning>>
    BY <1>1 DEF Monotone
  <1>2. CASE BuyerPays \/ CardDeclined
    BY <1>2 DEF BuyerPays, CardDeclined, Monotone, TypeOK, StripeType, money
  <1>3. CASE \E t \in Tasks : Step(t)
    BY <1>3, MonotoneStep
  <1>4. QED
    BY <1>1, <1>2, <1>3, BeginningIsQuiet DEF Next, Abort, Crash, vars, money

-----------------------------------------------------------------------------
(* What a handler has checked stays true until it ends *)

\* The handlers that do not move keep their facts, whatever the step wrote.
LEMMA OthersKeepFacts ==
  ASSUME TypeOK, HandlerRows, HandlerFacts, Monotone,
         NEW u \in Tasks, task'[u] = task[u]
  PROVE  (RowFacts(task[u]) /\ ProgressFacts(task[u]) /\ CreditFacts(task[u]))'
  <1>1. RowFacts(task[u]) /\ ProgressFacts(task[u]) /\ CreditFacts(task[u])
    BY DEF HandlerFacts
  <1>2. task[u].op \in DriverOps \cup {"claim"} => task[u].d \in Deliveries
    BY DEF HandlerRows
  <1>3. RowFacts(task[u])'
    BY <1>1, <1>2 DEF RowFacts, Monotone, DriverOps, CallerOps, DeliveryOps
  <1>4. ProgressFacts(task[u])'
    BY <1>1, <1>2 DEF ProgressFacts, Monotone, DriverOps, CallerOps, DeliveryOps,
       Payees, Parties
  <1>5. CreditFacts(task[u])'
    BY <1>1, <1>2 DEF CreditFacts, Monotone
  <1>6. QED
    BY <1>3, <1>4, <1>5

\* A handler that ends has nothing left to remember.
LEMMA DoneFacts ==
  ASSUME TypeOK, HandlerRows, HandlerFacts, Monotone, NEW t \in Tasks, Done(t)
  PROVE  HandlerFacts'
  <1>1. task'[t] = Idle /\ \A u \in Tasks \ {t} : task'[u] = task[u]
    BY DEF Done, TypeOK
  <1>2. (RowFacts(task[t]) /\ ProgressFacts(task[t]) /\ CreditFacts(task[t]))'
    BY <1>1 DEF RowFacts, ProgressFacts, CreditFacts, Idle, DriverOps, CallerOps,
       DeliveryOps
  <1>3. QED
    BY <1>1, <1>2, OthersKeepFacts DEF HandlerFacts

\* A handler that moves on within its operation keeps its row and its driver,
\* so only what its new program counter claims has to be shown.
LEMMA MoveFacts ==
  ASSUME TypeOK, HandlerRows, HandlerFacts, Monotone, NEW t \in Tasks,
         \A u \in Tasks \ {t} : task'[u] = task[u],
         task'[t].op = task[t].op,
         task[t].op \in DriverOps \cup {"claim"} => task'[t].d = task[t].d,
         task[t].op \in CallerOps \cup {"claim"} => task'[t].drv = task[t].drv,
         ProgressFacts(task[t])',
         CreditFacts(task[t])'
  PROVE  HandlerFacts'
  <1>1. RowFacts(task[t])
    BY DEF HandlerFacts
  <1>2. task[t].op \in DriverOps \cup {"claim"} => task[t].d \in Deliveries
    BY DEF HandlerRows
  <1>3. RowFacts(task[t])'
    BY <1>1, <1>2 DEF RowFacts, Monotone, DriverOps, CallerOps, DeliveryOps
  <1>4. QED
    BY <1>3, OthersKeepFacts DEF HandlerFacts

\* Goto is such a move.
LEMMA GotoFacts ==
  ASSUME TypeOK, HandlerRows, HandlerFacts, Monotone, NEW t \in Tasks, NEW pc \in Steps,
         Goto(t, pc),
         task[t].op = "confirmDelivery" /\ pc # "write" => dlv'[task[t].d].confirmed,
         task[t].op = "sellerUnavailable" /\ pc \notin {"checkOrder", "write"}
           => dlv'[task[t].d].unavailable,
         task[t].op = "driverTimeout"
              /\ pc \in {"debt", "strikeCheck", "strikeCreate", "suspend"}
           => earning'["seller"] # "none",
         pc # "credit",
         pc = "creditRead" => task[t].op \in {"confirmPickup", "confirmDelivery"}
  PROVE  HandlerFacts'
  <1>1. /\ task'[t].op = task[t].op /\ task'[t].d = task[t].d
        /\ task'[t].drv = task[t].drv /\ task'[t].pc = pc
        /\ \A u \in Tasks \ {t} : task'[u] = task[u]
    BY DEF Goto, TypeOK, TaskType
  <1>2. ProgressFacts(task[t]) /\ CreditFacts(task[t])
    BY DEF HandlerFacts
  <1>3. task[t].op \in DriverOps \cup {"claim"} => task[t].d \in Deliveries
    BY DEF HandlerRows
  <1>4. ProgressFacts(task[t])'
    BY <1>1, <1>2, <1>3 DEF ProgressFacts, Monotone, DriverOps, DeliveryOps
  <1>5. CreditFacts(task[t])'
    BY <1>1, <1>2 DEF CreditFacts, Monotone
  <1>6. QED
    BY <1>1, <1>4, <1>5, MoveFacts

\* Every step of a handler in flight leaves every handler knowing what it must.
LEMMA FactsStep ==
  ASSUME TypeOK, HandlerRows, HandlerFacts, RowsConfirmed, NEW t \in Tasks, Step(t)
  PROVE  HandlerFacts'
  <1>1. Monotone
    BY MonotoneStep
  <1>2. /\ task[t].op \in DriverOps \cup {"claim"} => task[t].d \in Deliveries
        /\ RowFacts(task[t]) /\ ProgressFacts(task[t]) /\ CreditFacts(task[t])
    BY DEF HandlerRows, HandlerFacts
  <1>3. Monotone /\ task[t].op \in DriverOps =>
          /\ dlv[task[t].d].confirmed => dlv'[task[t].d].confirmed
          /\ dlv[task[t].d].unavailable => dlv'[task[t].d].unavailable
    BY <1>2 DEF Monotone
  <1>4. earning["seller"] # "none" => earning'["seller"] # "none"
    BY <1>1 DEF Monotone, Payees, Parties
  <1>5. CASE IsPaymentSucceeded(t)
    BY <1>1, <1>2, <1>3, <1>4, <1>5, GotoFacts, DoneFacts DEF
       IsPaymentSucceeded, Steps, At, ProgressFacts, CreditFacts, DriverOps,
       DeliveryOps, CallerOps
  <1>6. CASE WriteConfirmed(t)
    BY <1>1, <1>2, <1>3, <1>4, <1>6, GotoFacts DEF WriteConfirmed, Steps,
       ProgressFacts, CreditFacts, DriverOps, DeliveryOps, CallerOps
  <1>7. CASE NotifyOrderPaid(t)
    BY <1>1, <1>2, <1>3, <1>4, <1>7, DoneFacts DEF NotifyOrderPaid, Steps
  <1>8. CASE PaymentFailedRead(t)
    <2>1. CASE order.status = "PENDING"
      <3>1. task' = [task EXCEPT ![t].pc = "commit", ![t].restored = order.restored]
        BY <1>8, <2>1 DEF PaymentFailedRead
      <3>2. /\ \A u \in Tasks \ {t} : task'[u] = task[u]
            /\ task'[t].op = task[t].op /\ task'[t].drv = task[t].drv
            /\ task'[t].d = task[t].d /\ task'[t].pc \in {"commit", "sweepWrite"}
        BY <3>1 DEF TypeOK, TaskType
      <3>3. ProgressFacts(task[t])' /\ CreditFacts(task[t])'
        BY <3>2, <1>1, <1>2, <1>3, <1>8 DEF PaymentFailedRead, At, ProgressFacts, CreditFacts,
           DeliveryOps, DriverOps, CallerOps, Monotone
      <3>4. QED
        BY <3>2, <3>3, <1>1, MoveFacts
    <2>2. CASE order.status # "PENDING"
      BY <1>1, <1>8, <2>2, DoneFacts DEF PaymentFailedRead, At, Steps
    <2>3. QED
      BY <2>1, <2>2
  <1>9. CASE PaymentFailedCommit(t)
    BY <1>1, <1>2, <1>3, <1>4, <1>9, DoneFacts DEF PaymentFailedCommit, Steps,
       At
  <1>10. CASE WritePreparing(t)
    BY <1>1, <1>2, <1>3, <1>4, <1>10, DoneFacts DEF WritePreparing, Steps, At
  <1>11. CASE MarkReadyCommit(t)
    BY <1>1, <1>2, <1>3, <1>4, <1>11, GotoFacts, DoneFacts DEF MarkReadyCommit,
       Steps, At, ProgressFacts, CreditFacts, DriverOps, DeliveryOps, CallerOps
  <1>12. CASE ScheduleNoDriverTimeout(t)
    BY <1>1, <1>2, <1>3, <1>4, <1>12, DoneFacts DEF ScheduleNoDriverTimeout,
       Steps, At
  <1>13. CASE ConfirmPickupWrite(t)
    BY <1>1, <1>2, <1>3, <1>4, <1>13, GotoFacts DEF ConfirmPickupWrite, Steps,
       At, ProgressFacts, CreditFacts, DriverOps, DeliveryOps, CallerOps
  <1>14. CASE CancelAsSellerRead(t)
    <2>1. CASE order.status \in CancellableFrom
      <3>1. task' = [task EXCEPT ![t].pc = "commit", ![t].restored = order.restored]
        BY <1>14, <2>1 DEF CancelAsSellerRead
      <3>2. /\ \A u \in Tasks \ {t} : task'[u] = task[u]
            /\ task'[t].op = task[t].op /\ task'[t].drv = task[t].drv
            /\ task'[t].d = task[t].d /\ task'[t].pc \in {"commit", "sweepWrite"}
        BY <3>1 DEF TypeOK, TaskType
      <3>3. ProgressFacts(task[t])' /\ CreditFacts(task[t])'
        BY <3>2, <1>1, <1>2, <1>3, <1>14 DEF CancelAsSellerRead, At, ProgressFacts, CreditFacts,
           DeliveryOps, DriverOps, CallerOps, Monotone
      <3>4. QED
        BY <3>2, <3>3, <1>1, MoveFacts
    <2>2. CASE order.status \notin CancellableFrom
      BY <1>1, <1>14, <2>2, GotoFacts DEF CancelAsSellerRead, At, Steps
    <2>3. QED
      BY <2>1, <2>2
  <1>15. CASE CancelAsSellerCommit(t)
    BY <1>1, <1>2, <1>3, <1>4, <1>15, GotoFacts DEF CancelAsSellerCommit,
       Steps, At, ProgressFacts, CreditFacts, DriverOps, DeliveryOps, CallerOps
  <1>16. CASE SellerCannotProvideCommit(t)
    BY <1>1, <1>2, <1>3, <1>4, <1>16, GotoFacts DEF SellerCannotProvideCommit,
       Steps, At, ProgressFacts, CreditFacts, DriverOps, DeliveryOps, CallerOps
  <1>17. CASE ClaimUpdate(t)
    BY <1>1, <1>2, <1>3, <1>4, <1>17, DoneFacts DEF ClaimUpdate, Steps, At
  <1>18. CASE WriteAtPickup(t)
    BY <1>1, <1>2, <1>3, <1>4, <1>18, DoneFacts DEF WriteAtPickup, Steps, At
  <1>19. CASE DriverPickupCommit(t)
    BY <1>1, <1>2, <1>3, <1>4, <1>19, GotoFacts DEF DriverPickupCommit, Steps,
       At, ProgressFacts, CreditFacts, DriverOps, DeliveryOps, CallerOps
  <1>20. CASE ScheduleDriverDeliveryTimeout(t)
    BY <1>1, <1>2, <1>3, <1>4, <1>20, DoneFacts DEF
       ScheduleDriverDeliveryTimeout, Steps, At
  <1>21. CASE WriteDelivered(t)
    <2>1. task[t].op = "confirmDelivery" /\ dlv'[task[t].d].confirmed
      BY <1>21, <1>2 DEF WriteDelivered, At, TypeOK, RowType, DriverOps, DeliveryOps
    <2>2. QED
      BY <1>1, <2>1, <1>21, GotoFacts DEF WriteDelivered, Steps
  <1>22. CASE ConfirmDeliveredByDriver(t)
    BY <1>1, <1>2, <1>3, <1>4, <1>22, GotoFacts, DoneFacts DEF
       ConfirmDeliveredByDriver, Steps, At, ProgressFacts, CreditFacts,
       DriverOps, DeliveryOps, CallerOps
  <1>23. CASE WriteOrderDelivered(t)
    BY <1>1, <1>2, <1>3, <1>4, <1>23, GotoFacts DEF WriteOrderDelivered, Steps,
       At, ProgressFacts, CreditFacts, DriverOps, DeliveryOps, CallerOps
  <1>24. CASE SellerUnavailableCheckOrder(t)
    BY <1>1, <1>2, <1>3, <1>4, <1>24, GotoFacts, DoneFacts DEF
       SellerUnavailableCheckOrder, Steps, At, ProgressFacts, CreditFacts,
       DriverOps, DeliveryOps, CallerOps
  <1>25. CASE WriteSellerUnavailable(t)
    <2>1. task[t].op = "sellerUnavailable" /\ dlv'[task[t].d].unavailable
      BY <1>25, <1>2 DEF WriteSellerUnavailable, At, TypeOK, RowType, DriverOps, CallerOps
    <2>2. QED
      BY <1>1, <2>1, <1>25, GotoFacts DEF WriteSellerUnavailable, Steps
  <1>26. CASE CancelForSellerUnavailable(t)
    <2>1. CASE order.status \notin Resolved
      <3>1. task' = [task EXCEPT ![t].pc = "commit", ![t].restored = order.restored]
        BY <1>26, <2>1 DEF CancelForSellerUnavailable
      <3>2. /\ \A u \in Tasks \ {t} : task'[u] = task[u]
            /\ task'[t].op = task[t].op /\ task'[t].drv = task[t].drv
            /\ task'[t].d = task[t].d /\ task'[t].pc \in {"commit", "sweepWrite"}
        BY <3>1 DEF TypeOK, TaskType
      <3>3. ProgressFacts(task[t])' /\ CreditFacts(task[t])'
        BY <3>2, <1>1, <1>2, <1>3, <1>26 DEF CancelForSellerUnavailable, At, ProgressFacts, CreditFacts,
           DeliveryOps, DriverOps, CallerOps, Monotone
      <3>4. QED
        BY <3>2, <3>3, <1>1, MoveFacts
    <2>2. CASE order.status \in Resolved
      BY <1>1, <1>26, <2>2, DoneFacts DEF CancelForSellerUnavailable, At, Steps
    <2>3. QED
      BY <2>1, <2>2
  <1>27. CASE SellerUnavailableCommit(t)
    BY <1>1, <1>2, <1>3, <1>4, <1>27, GotoFacts DEF SellerUnavailableCommit,
       Steps, At, ProgressFacts, CreditFacts, DriverOps, DeliveryOps, CallerOps
  <1>28. CASE CompensateDriver(t)
    BY <1>1, <1>2, <1>3, <1>4, <1>28, GotoFacts DEF CompensateDriver, Steps,
       At, ProgressFacts, CreditFacts, DriverOps, DeliveryOps, CallerOps
  <1>29. CASE WriteNoDriverAvailable(t)
    BY <1>1, <1>2, <1>3, <1>4, <1>29, GotoFacts DEF WriteNoDriverAvailable,
       Steps, At, ProgressFacts, CreditFacts, DriverOps, DeliveryOps, CallerOps
  <1>30. CASE ScheduleNoDriverResponseTimeout(t)
    BY <1>1, <1>2, <1>3, <1>4, <1>30, DoneFacts DEF
       ScheduleNoDriverResponseTimeout, Steps, At
  <1>31. CASE SwitchOrderToPickup(t)
    BY <1>1, <1>2, <1>3, <1>4, <1>31, DoneFacts DEF SwitchOrderToPickup, Steps,
       At
  <1>32. CASE CancelNoDriverRead(t)
    <2>1. /\ \A u \in Tasks \ {t} : task'[u] = task[u]
          /\ task'[t].op = task[t].op /\ task'[t].drv = task[t].drv
          /\ task'[t].pc = "commit"
      BY <1>32 DEF CancelNoDriverRead, TypeOK, TaskType
    <2>2. ProgressFacts(task[t])' /\ CreditFacts(task[t])'
      BY <2>1, <1>1, <1>2, <1>32 DEF CancelNoDriverRead, ProgressFacts, CreditFacts,
         DeliveryOps, Monotone
    <2>3. QED
      BY <2>1, <2>2, <1>1, <1>32, MoveFacts DEF CancelNoDriverRead, DriverOps,
         DeliveryOps, CallerOps
  <1>33. CASE CancelNoDriverCommit(t)
    BY <1>1, <1>2, <1>3, <1>4, <1>33, GotoFacts DEF CancelNoDriverCommit,
       Steps, ProgressFacts, CreditFacts, DriverOps, DeliveryOps, CallerOps
  <1>34. CASE DriverTimeoutReadOrder(t)
    BY <1>1, <1>2, <1>3, <1>4, <1>34, GotoFacts, DoneFacts DEF
       DriverTimeoutReadOrder, Steps, At, ProgressFacts, CreditFacts,
       DriverOps, DeliveryOps, CallerOps
  <1>35. CASE ResolveDriverDisappeared(t)
    BY <1>1, <1>2, <1>3, <1>4, <1>35, GotoFacts DEF ResolveDriverDisappeared,
       Steps, At, ProgressFacts, CreditFacts, DriverOps, DeliveryOps, CallerOps
  <1>36. CASE ReverseDriverEarning(t)
    BY <1>1, <1>2, <1>3, <1>4, <1>36, GotoFacts DEF ReverseDriverEarning,
       Steps, At, ProgressFacts, CreditFacts, DriverOps, DeliveryOps, CallerOps
  <1>37. CASE CreditSellerEarning(t)
    <2>1. task[t].op = "driverTimeout" /\ earning'["seller"] # "none"
      BY <1>37 DEF CreditSellerEarning, At, Credit, TypeOK, Payees, Parties
    <2>2. QED
      BY <1>1, <2>1, <1>37, GotoFacts DEF CreditSellerEarning, Steps
  <1>38. CASE RecordDriverDebt(t)
    BY <1>1, <1>2, <1>3, <1>4, <1>38, GotoFacts DEF RecordDriverDebt, Steps,
       At, ProgressFacts, CreditFacts, DriverOps, DeliveryOps, CallerOps
  <1>39. CASE RefundRead(t)
    BY <1>1, <1>2, <1>3, <1>4, <1>39, GotoFacts, DoneFacts DEF RefundRead,
       Steps, AfterRefund, ProgressFacts, CreditFacts, DriverOps, DeliveryOps,
       CallerOps
  <1>40. CASE RefundCreate(t)
    BY <1>1, <1>2, <1>3, <1>4, <1>40, GotoFacts, DoneFacts DEF RefundCreate,
       Steps, AfterRefund, ProgressFacts, CreditFacts, DriverOps, DeliveryOps,
       CallerOps
  <1>41. CASE RefundRecord(t)
    BY <1>1, <1>2, <1>3, <1>4, <1>41, GotoFacts DEF RefundRecord, Steps,
       ProgressFacts, CreditFacts, DriverOps, DeliveryOps, CallerOps
  <1>42. CASE ReversePendingEntries(t)
    BY <1>1, <1>2, <1>3, <1>4, <1>42, GotoFacts, DoneFacts DEF
       ReversePendingEntries, Steps, AfterRefund, ProgressFacts, CreditFacts,
       DriverOps, DeliveryOps, CallerOps
  <1>43. CASE CreditForCompletedOrderRead(t)
    <2>1. task[t].op \in {"confirmPickup", "confirmDelivery"}
      BY <1>43, <1>2 DEF CreditForCompletedOrderRead, CreditFacts
    <2>2. ASSUME NEW drv \in Drivers \cup {NoDriver},
                 drv # NoDriver =>
                   \E d \in Deliveries : dlv[d].driver = drv /\ dlv[d].confirmed,
                 task' = [task EXCEPT ![t].pc = "credit", ![t].drv = drv]
          PROVE  HandlerFacts'
      <3>1. /\ \A u \in Tasks \ {t} : task'[u] = task[u]
            /\ task'[t].op = task[t].op /\ task'[t].d = task[t].d
            /\ task'[t].pc = "credit" /\ task'[t].drv = drv
        BY <2>2 DEF TypeOK, TaskType
      <3>2. ProgressFacts(task[t])'
        BY <3>1, <2>1, <1>1, <1>2, <1>43 DEF CreditForCompletedOrderRead, ProgressFacts,
           DeliveryOps, DriverOps, Monotone
      <3>3. UNCHANGED <<dlv, order>>
        BY <1>43 DEF CreditForCompletedOrderRead
      <3>4. CreditFacts(task[t])'
        BY <3>1, <3>3, <2>1, <2>2, <1>2 DEF CreditFacts
      <3>5. QED
        BY <3>1, <3>2, <3>4, <2>1, <1>1, MoveFacts DEF CallerOps
    <2>3. CASE order.status # "DELIVERED"
      BY <2>3, <1>1, <1>43, DoneFacts DEF CreditForCompletedOrderRead
    <2>4. ASSUME NEW d \in Deliveries, LastDelivered(d),
                 task' = [task EXCEPT ![t].pc = "credit", ![t].drv = dlv[d].driver]
          PROVE  HandlerFacts'
      <3>1. dlv[d].driver \in Drivers \cup {NoDriver} /\ dlv[d].confirmed
        BY <2>4 DEF LastDelivered, RowsConfirmed, TypeOK, RowType
      <3>2. QED
        BY <3>1, <2>2, <2>4
    <2>5. QED
      BY <2>2, <2>3, <2>4, <1>43 DEF CreditForCompletedOrderRead
  <1>44. CASE CreditForCompletedOrder(t)
    BY <1>1, <1>2, <1>3, <1>4, <1>44, DoneFacts DEF CreditForCompletedOrder,
       Steps
  <1>45. CASE SweepReadOrder(t)
    <2>1. CASE order.status \in Resolved
      <3>1. task' = [task EXCEPT ![t].pc = "sweepWrite", ![t].saw = order.status]
        BY <1>45, <2>1 DEF SweepReadOrder
      <3>2. /\ \A u \in Tasks \ {t} : task'[u] = task[u]
            /\ task'[t].op = task[t].op /\ task'[t].drv = task[t].drv
            /\ task'[t].d = task[t].d /\ task'[t].pc \in {"commit", "sweepWrite"}
        BY <3>1 DEF TypeOK, TaskType
      <3>3. ProgressFacts(task[t])' /\ CreditFacts(task[t])'
        BY <3>2, <1>1, <1>2, <1>3, <1>45 DEF SweepReadOrder, At, ProgressFacts, CreditFacts,
           DeliveryOps, DriverOps, CallerOps, Monotone
      <3>4. QED
        BY <3>2, <3>3, <1>1, MoveFacts
    <2>2. CASE order.status \notin Resolved
      BY <1>1, <1>45, <2>2, DoneFacts DEF SweepReadOrder, At, Steps
    <2>3. QED
      BY <2>1, <2>2
  <1>46. CASE SweepWrite(t)
    BY <1>1, <1>2, <1>3, <1>4, <1>46, DoneFacts DEF SweepWrite, Steps, At
  <1>47. CASE AddStrikeCheck(t)
    BY <1>1, <1>2, <1>3, <1>4, <1>47, GotoFacts, DoneFacts DEF AddStrikeCheck,
       Steps, AfterStrike, ProgressFacts, CreditFacts, DriverOps, DeliveryOps,
       CallerOps
  <1>48. CASE AddStrikeCreate(t)
    BY <1>1, <1>2, <1>3, <1>4, <1>48, GotoFacts, DoneFacts DEF AddStrikeCreate,
       Steps, AfterStrike, ProgressFacts, CreditFacts, DriverOps, DeliveryOps,
       CallerOps
  <1>49. CASE ImmediateExclude(t)
    BY <1>1, <1>2, <1>3, <1>4, <1>49, DoneFacts DEF ImmediateExclude, Steps, At
  <1>50. QED
    BY <1>5, <1>6, <1>7, <1>8, <1>9, <1>10, <1>11, <1>12, <1>13, <1>14, <1>15,
       <1>16, <1>17, <1>18, <1>19, <1>20, <1>21, <1>22, <1>23, <1>24, <1>25,
       <1>26, <1>27, <1>28, <1>29, <1>30, <1>31, <1>32, <1>33, <1>34, <1>35,
       <1>36, <1>37, <1>38, <1>39, <1>40, <1>41, <1>42, <1>43, <1>44, <1>45,
       <1>46, <1>47, <1>48, <1>49 DEF Step

\* The handlers that touch neither a claimed row nor the completion credit begin
\* with nothing to remember.
LEMMA BeginPlainFacts ==
  ASSUME TypeOK, HandlerRows, HandlerFacts, Monotone, NEW t \in Tasks,
         \A u \in Tasks \ {t} : task'[u] = task[u],
         task'[t].op \notin DriverOps \cup {"claim", "confirmPickup"},
         task'[t].pc \notin {"creditRead", "credit"}
  PROVE  HandlerFacts'
  <1>1. (RowFacts(task[t]) /\ ProgressFacts(task[t]) /\ CreditFacts(task[t]))'
    BY DEF RowFacts, ProgressFacts, CreditFacts, DriverOps, DeliveryOps, CallerOps
  <1>2. QED
    BY <1>1, OthersKeepFacts DEF HandlerFacts

\* The driver handlers begin on a row that has a driver, after the pickup where
\* they are about what follows it.
LEMMA BeginOnFacts ==
  ASSUME TypeOK, HandlerRows, HandlerFacts, Monotone, NEW t \in Tasks,
         UNCHANGED <<order, dlv, earning>>,
         \A u \in Tasks \ {t} : task'[u] = task[u],
         task'[t].op \in DriverOps, task'[t].d \in Deliveries,
         task'[t].drv = dlv[task'[t].d].driver,
         dlv[task'[t].d].driver # NoDriver,
         task'[t].op \in DeliveryOps => dlv[task'[t].d].picked,
         task'[t].pc \in {"write", "commit", "checkOrder", "readOrder"},
         task'[t].op = "confirmDelivery" => task'[t].pc = "write",
         task'[t].op = "sellerUnavailable" => task'[t].pc = "checkOrder"
  PROVE  HandlerFacts'
  <1>1. (RowFacts(task[t]) /\ ProgressFacts(task[t]) /\ CreditFacts(task[t]))'
    BY DEF RowFacts, ProgressFacts, CreditFacts, DriverOps, DeliveryOps, CallerOps
  <1>2. QED
    BY <1>1, OthersKeepFacts DEF HandlerFacts

\* So a request that is accepted begins with the facts of its operation ...
LEMMA FactsRequest ==
  ASSUME TypeOK, HandlerRows, HandlerFacts, CustodyChain, NEW t \in Tasks, Request(t)
  PROVE  HandlerFacts'
  <1>1. UNCHANGED <<order, dlv, stripe, earning>> /\ Monotone
    BY BeginningIsQuiet DEF Monotone
  <1>2. CASE ConfirmPickup(t)
    <2>1. /\ \A u \in Tasks \ {t} : task'[u] = task[u]
          /\ task'[t] = [Idle EXCEPT !.op = "confirmPickup", !.pc = "write"]
      BY <1>2 DEF ConfirmPickup, Begin, TypeOK, TaskType
    <2>2. (RowFacts(task[t]) /\ ProgressFacts(task[t]) /\ CreditFacts(task[t]))'
      BY <2>1, <1>1, <1>2 DEF ConfirmPickup, Idle, RowFacts, ProgressFacts, CreditFacts,
         DriverOps, DeliveryOps, CallerOps
    <2>3. QED
      BY <2>1, <2>2, <1>1, OthersKeepFacts DEF HandlerFacts
  <1>3. ASSUME NEW d \in Deliveries, NEW drv \in Drivers, Claim(t, drv, d)
        PROVE  HandlerFacts'
    <2>1. /\ \A u \in Tasks \ {t} : task'[u] = task[u]
          /\ task'[t] = [Idle EXCEPT !.op = "claim", !.pc = "write", !.d = d, !.drv = drv]
      BY <1>3 DEF Claim, TypeOK, TaskType
    <2>2. (RowFacts(task[t]) /\ ProgressFacts(task[t]) /\ CreditFacts(task[t]))'
      BY <2>1, <1>1, <1>3 DEF Idle, RowFacts, ProgressFacts, CreditFacts,
         DriverOps, DeliveryOps, CallerOps
    <2>3. QED
      BY <2>1, <2>2, <1>1, OthersKeepFacts DEF HandlerFacts
  <1>4. ASSUME NEW d \in Deliveries,
               \/ ArriveAtPickup(t, d) \/ DriverConfirmPickup(t, d)
               \/ ConfirmDelivery(t, d) \/ ReportSellerUnavailable(t, d)
        PROVE  HandlerFacts'
    <2>1. PICK op \in DriverOps, pc \in {"write", "commit", "checkOrder", "readOrder"} :
            /\ BeginOn(t, op, pc, d)
            /\ op \in DeliveryOps => dlv[d].status = "PICKED_UP"
            /\ op = "confirmDelivery" => pc = "write"
            /\ op = "sellerUnavailable" => pc = "checkOrder"
      BY <1>4 DEF ArriveAtPickup, DriverConfirmPickup, ConfirmDelivery,
         ReportSellerUnavailable, DriverOps, DeliveryOps, CallerOps
    <2>2. /\ \A u \in Tasks \ {t} : task'[u] = task[u]
          /\ task'[t].op = op /\ task'[t].pc = pc /\ task'[t].d = d
          /\ task'[t].drv = dlv[d].driver
      BY <2>1 DEF BeginOn, TypeOK, TaskType
    <2>3. dlv[d].driver # NoDriver
      BY <1>4 DEF ArriveAtPickup, DriverConfirmPickup, ConfirmDelivery,
         ReportSellerUnavailable, Own
    <2>4. op \in DeliveryOps => dlv[d].picked
      BY <2>1 DEF CustodyChain, PostPickup
    <2>5. QED
      BY <1>1, <2>1, <2>2, <2>3, <2>4, BeginOnFacts
  <1>5. CASE MarkReady(t)
    <2>1. /\ \A u \in Tasks \ {t} : task'[u] = task[u]
          /\ task'[t].op = "markReady" /\ task'[t].pc = "write"
      BY <1>5 DEF MarkReady, TypeOK, TaskType
    <2>2. QED
      BY <1>1, <2>1, BeginPlainFacts DEF DriverOps, DeliveryOps, CallerOps
  <1>6. CASE SellerCannotProvide(t)
    <2>1. /\ \A u \in Tasks \ {t} : task'[u] = task[u]
          /\ task'[t].op = "sellerCannotProvide" /\ task'[t].pc = "commit"
      BY <1>6 DEF SellerCannotProvide, TypeOK, TaskType
    <2>2. QED
      BY <1>1, <2>1, BeginPlainFacts DEF DriverOps, DeliveryOps, CallerOps
  <1>7. ASSUME NEW pc \in {"switch", "cancelRead"}, DecideNoDriver(t, pc)
        PROVE  HandlerFacts'
    <2>1. /\ \A u \in Tasks \ {t} : task'[u] = task[u]
          /\ task'[t].op = "decideNoDriver" /\ task'[t].pc = pc
      BY <1>7 DEF DecideNoDriver, TypeOK, TaskType
    <2>2. QED
      BY <1>1, <2>1, BeginPlainFacts DEF DriverOps, DeliveryOps, CallerOps
  <1>8. CASE \/ ConfirmPaymentForBuyer(t) \/ HandlePaymentIntentSucceeded(t)
             \/ HandlePaymentIntentFailed(t) \/ StartPreparing(t) \/ CancelAsSeller(t)
    <2>1. PICK op \in {"confirmPayment", "paySucceeded", "payFailed", "startPreparing",
                       "cancelAsSeller"},
               pc \in {"retrieve", "confirm", "txRead", "write"} : Begin(t, op, pc)
      BY <1>8 DEF ConfirmPaymentForBuyer, HandlePaymentIntentSucceeded,
         HandlePaymentIntentFailed, StartPreparing, CancelAsSeller
    <2>2. /\ \A u \in Tasks \ {t} : task'[u] = task[u]
          /\ task'[t].op = op /\ task'[t].pc = pc
      BY <2>1 DEF Begin, TypeOK, TaskType
    <2>3. QED
      BY <1>1, <2>1, <2>2, BeginPlainFacts DEF DriverOps, DeliveryOps, CallerOps
  <1>9. QED
    BY <1>2, <1>3, <1>4, <1>5, <1>6, <1>7, <1>8 DEF Request

\* ... and so does a watchdog or the sweep.
LEMMA FactsBackground ==
  ASSUME TypeOK, HandlerRows, HandlerFacts, CustodyChain, NEW t \in Tasks, Background(t)
  PROVE  HandlerFacts'
  <1>1. UNCHANGED <<order, dlv, stripe, earning>> /\ Monotone
    BY BeginningIsQuiet DEF Monotone
  <1>2. PICK p \in Procs :
          \/ HandleNoDriverTimeout(t, p) \/ AutoCancelNoResponse(t, p)
          \/ \E d \in Deliveries : HandleDriverDeliveryTimeout(t, p, d)
          \/ ReleaseDuePendingEntries(t, p)
    BY DEF Background
  <1>3. CASE task' = task
    BY <1>1, <1>3, OthersKeepFacts DEF HandlerFacts
  <1>4. CASE HandleNoDriverTimeout(t, p) /\ task' # task
    <2>1. /\ \A u \in Tasks \ {t} : task'[u] = task[u]
          /\ task'[t].op = "noDriverTimeout" /\ task'[t].pc = "write"
      BY <1>4 DEF HandleNoDriverTimeout, TypeOK, TaskType
    <2>2. QED
      BY <1>1, <2>1, BeginPlainFacts DEF DriverOps, DeliveryOps, CallerOps
  <1>5. CASE AutoCancelNoResponse(t, p) /\ task' # task
    <2>1. /\ \A u \in Tasks \ {t} : task'[u] = task[u]
          /\ task'[t].op = "autoCancel" /\ task'[t].pc = "cancelRead"
      BY <1>5 DEF AutoCancelNoResponse, TypeOK, TaskType
    <2>2. QED
      BY <1>1, <2>1, BeginPlainFacts DEF DriverOps, DeliveryOps, CallerOps
  <1>6. CASE ReleaseDuePendingEntries(t, p)
    <2>1. /\ \A u \in Tasks \ {t} : task'[u] = task[u]
          /\ task'[t].op = "sweep" /\ task'[t].pc = "sweepOrder"
      BY <1>6 DEF ReleaseDuePendingEntries, TypeOK, TaskType
    <2>2. QED
      BY <1>1, <2>1, BeginPlainFacts DEF DriverOps, DeliveryOps, CallerOps
  <1>7. ASSUME NEW d \in Deliveries, HandleDriverDeliveryTimeout(t, p, d), task' # task
        PROVE  HandlerFacts'
    <2>1. /\ \A u \in Tasks \ {t} : task'[u] = task[u]
          /\ task'[t].op = "driverTimeout" /\ task'[t].pc = "readOrder"
          /\ task'[t].d = d /\ task'[t].drv = dlv[d].driver /\ dlv[d].picked
      BY <1>7 DEF HandleDriverDeliveryTimeout, TypeOK, TaskType
    <2>2. dlv[d].driver # NoDriver
      BY <2>1 DEF CustodyChain
    <2>3. QED
      BY <1>1, <2>1, <2>2, BeginOnFacts DEF DriverOps, DeliveryOps, CallerOps
  <1>8. QED
    BY <1>2, <1>3, <1>4, <1>5, <1>6, <1>7

\* Hence no step at all takes a handler's facts away.
LEMMA FactsNext ==
  ASSUME TypeOK, HandlerRows, HandlerFacts, RowsConfirmed, CustodyChain, [Next]_vars
  PROVE  HandlerFacts'
  <1>1. Monotone
    BY MonotoneNext
  <1>2. CASE UNCHANGED task
    BY <1>1, <1>2, OthersKeepFacts DEF HandlerFacts
  <1>3. ASSUME NEW t \in Tasks, Abort(t)
        PROVE  HandlerFacts'
    BY <1>1, <1>3, DoneFacts DEF Abort
  <1>4. ASSUME NEW p \in Procs, Crash(p)
        PROVE  HandlerFacts'
    <2>1. ASSUME NEW u \in Tasks
          PROVE  (RowFacts(task[u]) /\ ProgressFacts(task[u]) /\ CreditFacts(task[u]))'
      <3>1. task'[u] = Idle \/ task'[u] = task[u]
        BY <1>4 DEF Crash
      <3>2. CASE task'[u] = Idle
        BY <3>2 DEF RowFacts, ProgressFacts, CreditFacts, Idle, DriverOps, CallerOps,
           DeliveryOps
      <3>3. QED
        BY <3>1, <3>2, <1>1, OthersKeepFacts
    <2>2. QED
      BY <2>1 DEF HandlerFacts
  <1>5. QED
    BY <1>2, <1>3, <1>4, FactsStep, FactsRequest, FactsBackground
       DEF Next, vars, BuyerPays, CardDeclined

-----------------------------------------------------------------------------
(* The safety properties are preserved *)

\* Only ten steps write a Delivery row, and each keeps the chain of custody.
LEMMA RowsStep ==
  ASSUME TypeOK, HandlerRows, HandlerFacts, RowsConfirmed, CustodyChain,
         NEW t \in Tasks, Step(t)
  PROVE  RowsConfirmed' /\ CustodyChain'
  <1>1. /\ task[t].op \in DriverOps \cup {"claim"} => task[t].d \in Deliveries
        /\ RowFacts(task[t]) /\ ProgressFacts(task[t])
    BY DEF HandlerRows, HandlerFacts
  <1>2. CASE MarkReadyCommit(t)
    BY <1>2 DEF MarkReadyCommit, At, SetDelivery, RowsConfirmed, CustodyChain,
       PostPickup, TypeOK, RowType
  <1>3. CASE SellerCannotProvideCommit(t)
    BY <1>3 DEF SellerCannotProvideCommit, At, SetDelivery, RowsConfirmed,
       CustodyChain, PostPickup, TypeOK, RowType
  <1>4. CASE ClaimUpdate(t)
    BY <1>1, <1>4 DEF ClaimUpdate, At, RowsConfirmed, CustodyChain, PostPickup,
       TypeOK, RowType, RowFacts, ProgressFacts, DriverOps, DeliveryOps,
       CallerOps
  <1>5. CASE WriteAtPickup(t)
    BY <1>5 DEF WriteAtPickup, At, SetDelivery, RowsConfirmed, CustodyChain,
       PostPickup, TypeOK, RowType
  <1>6. CASE DriverPickupCommit(t)
    BY <1>1, <1>6 DEF DriverPickupCommit, At, RowsConfirmed, CustodyChain,
       PostPickup, TypeOK, RowType, RowFacts, ProgressFacts, DriverOps,
       DeliveryOps, CallerOps
  <1>7. CASE WriteDelivered(t)
    BY <1>1, <1>7 DEF WriteDelivered, At, RowsConfirmed, CustodyChain,
       PostPickup, TypeOK, RowType, RowFacts, ProgressFacts, DriverOps,
       DeliveryOps, CallerOps
  <1>8. CASE WriteSellerUnavailable(t)
    BY <1>1, <1>8 DEF WriteSellerUnavailable, At, RowsConfirmed, CustodyChain,
       PostPickup, TypeOK, RowType, RowFacts, ProgressFacts, DriverOps,
       DeliveryOps, CallerOps
  <1>9. CASE SwitchOrderToPickup(t)
    BY <1>9 DEF SwitchOrderToPickup, At, SetDelivery, RowsConfirmed,
       CustodyChain, PostPickup, TypeOK, RowType
  <1>10. CASE CancelNoDriverCommit(t)
    BY <1>10 DEF CancelNoDriverCommit, SetDelivery, RowsConfirmed,
       CustodyChain, PostPickup, TypeOK, RowType
  <1>11. CASE ResolveDriverDisappeared(t)
    BY <1>11 DEF ResolveDriverDisappeared, At, SetDelivery, RowsConfirmed,
       CustodyChain, PostPickup, TypeOK, RowType
  <1>12. CASE UNCHANGED dlv
    BY <1>12 DEF RowsConfirmed, CustodyChain
  <1>13. QED
    BY <1>2, <1>3, <1>4, <1>5, <1>6, <1>7, <1>8, <1>9, <1>10, <1>11, <1>12 DEF
       Step, IsPaymentSucceeded, WriteConfirmed, NotifyOrderPaid,
       PaymentFailedRead,        PaymentFailedCommit, WritePreparing,
       ScheduleNoDriverTimeout,        ConfirmPickupWrite, CancelAsSellerRead,
       CancelAsSellerCommit,        ScheduleDriverDeliveryTimeout,
       ConfirmDeliveredByDriver,        WriteOrderDelivered,
       SellerUnavailableCheckOrder,        CancelForSellerUnavailable,
       SellerUnavailableCommit, CompensateDriver,
       WriteNoDriverAvailable, ScheduleNoDriverResponseTimeout,
       CancelNoDriverRead, DriverTimeoutReadOrder, ReverseDriverEarning,
       CreditSellerEarning, RecordDriverDebt, RefundRead, RefundCreate,
       RefundRecord, ReversePendingEntries, CreditForCompletedOrderRead,
       CreditForCompletedOrder, SweepReadOrder, SweepWrite, AddStrikeCheck,
       AddStrikeCreate, ImmediateExclude, money

\* Every ledger row that a step books belongs to someone who has earned it.
LEMMA LedgerStep ==
  ASSUME TypeOK, HandlerRows, HandlerFacts, SellerPaidOnlyAfterHandover, CustodyChain,
         DriverPaidOnlyForOwnTrip, NEW t \in Tasks, Step(t)
  PROVE  SellerPaidOnlyAfterHandover' /\ DriverPaidOnlyForOwnTrip'
  <1>1. Monotone
    BY MonotoneStep
  <1>2. /\ task[t].op \in DriverOps \cup {"claim"} => task[t].d \in Deliveries
        /\ RowFacts(task[t]) /\ ProgressFacts(task[t]) /\ CreditFacts(task[t])
    BY DEF HandlerRows, HandlerFacts
  <1>3. Handed => Handed'
    BY <1>1 DEF Monotone, Handed
  <1>4. \A drv \in Drivers :
          (\E d \in Deliveries : dlv[d].driver = drv /\ (dlv[d].confirmed \/ dlv[d].unavailable))
            => \E d \in Deliveries :
                 dlv'[d].driver = drv /\ (dlv'[d].confirmed \/ dlv'[d].unavailable)
    BY <1>1, DriversAssumption DEF Monotone
  <1>5. earning'["seller"] # "none" => earning["seller"] # "none" \/ Handed
    <2>1. CASE CreditSellerEarning(t)
      BY <2>1, <1>2 DEF CreditSellerEarning, At, Handed, ProgressFacts, DeliveryOps, DriverOps
    <2>2. CASE CreditForCompletedOrder(t)
      BY <2>2, <1>2 DEF CreditForCompletedOrder, Handed, CreditFacts, ProgressFacts,
         DeliveryOps, DriverOps
    <2>3. CASE CompensateDriver(t)
      <3>1. task[t].drv # "seller"
        <4>1. task[t].drv \in Drivers \cup {NoDriver} /\ task[t].drv # NoDriver
          BY <1>2, <2>3 DEF CompensateDriver, At, RowFacts, CallerOps, DriverOps,
             TypeOK, TaskType
        <4>2. QED
          BY <4>1, DriversAssumption DEF Parties
      <3>2. QED
        BY <2>3, <3>1 DEF CompensateDriver, Credit, TypeOK, Payees, Parties
    <2>4. CASE ReverseDriverEarning(t)
      BY <2>4 DEF ReverseDriverEarning, At, SettlePending, TypeOK, Payees,
         Parties
    <2>5. CASE ReversePendingEntries(t)
      BY <2>5 DEF ReversePendingEntries, SettlePending, TypeOK, Payees, Parties
    <2>6. CASE SweepWrite(t)
      BY <2>6 DEF SweepWrite, At, SettlePending, TypeOK, Payees, Parties
    <2>7. QED
      BY <2>1, <2>2, <2>3, <2>4, <2>5, <2>6 DEF Step, IsPaymentSucceeded,
         WriteConfirmed, NotifyOrderPaid, PaymentFailedRead,
         PaymentFailedCommit, WritePreparing, MarkReadyCommit,
         ScheduleNoDriverTimeout, ConfirmPickupWrite, CancelAsSellerRead,
         CancelAsSellerCommit, SellerCannotProvideCommit, ClaimUpdate,
         WriteAtPickup, DriverPickupCommit, ScheduleDriverDeliveryTimeout,
         WriteDelivered, ConfirmDeliveredByDriver, WriteOrderDelivered,
         SellerUnavailableCheckOrder, WriteSellerUnavailable,
         CancelForSellerUnavailable, SellerUnavailableCommit,
         WriteNoDriverAvailable, ScheduleNoDriverResponseTimeout,
         SwitchOrderToPickup, CancelNoDriverRead, CancelNoDriverCommit,
         DriverTimeoutReadOrder, ResolveDriverDisappeared, RecordDriverDebt,
         RefundRead, RefundCreate, RefundRecord, CreditForCompletedOrderRead,
         SweepReadOrder, AddStrikeCheck, AddStrikeCreate, ImmediateExclude,
         money
  <1>6. \A drv \in Drivers :
          earning'[drv] # "none" =>
            \/ earning[drv] # "none"
            \/ \E d \in Deliveries :
                 dlv[d].driver = drv /\ (dlv[d].confirmed \/ dlv[d].unavailable)
    <2>1. CASE CompensateDriver(t)
      BY <2>1, <1>2 DEF CompensateDriver, At, Credit, RowFacts, ProgressFacts, CallerOps,
         DriverOps, Payees, TypeOK
    <2>2. CASE CreditForCompletedOrder(t)
      BY <2>2, <1>2, DriversAssumption DEF CreditForCompletedOrder, CreditFacts,
         Payees, Parties, TypeOK
    <2>3. CASE ReverseDriverEarning(t)
      BY <2>3 DEF ReverseDriverEarning, At, SettlePending, TypeOK, Payees,
         Parties
    <2>4. CASE CreditSellerEarning(t)
      BY DriversAssumption, <2>4 DEF CreditSellerEarning, At, Credit, TypeOK,
         Payees, Parties
    <2>5. CASE ReversePendingEntries(t)
      BY <2>5 DEF ReversePendingEntries, SettlePending, TypeOK, Payees, Parties
    <2>6. CASE SweepWrite(t)
      BY <2>6 DEF SweepWrite, At, SettlePending, TypeOK, Payees, Parties
    <2>7. QED
      BY <2>1, <2>2, <2>3, <2>4, <2>5, <2>6 DEF Step, IsPaymentSucceeded,
         WriteConfirmed, NotifyOrderPaid, PaymentFailedRead,
         PaymentFailedCommit, WritePreparing, MarkReadyCommit,
         ScheduleNoDriverTimeout, ConfirmPickupWrite, CancelAsSellerRead,
         CancelAsSellerCommit, SellerCannotProvideCommit, ClaimUpdate,
         WriteAtPickup, DriverPickupCommit, ScheduleDriverDeliveryTimeout,
         WriteDelivered, ConfirmDeliveredByDriver, WriteOrderDelivered,
         SellerUnavailableCheckOrder, WriteSellerUnavailable,
         CancelForSellerUnavailable, SellerUnavailableCommit,
         WriteNoDriverAvailable, ScheduleNoDriverResponseTimeout,
         SwitchOrderToPickup, CancelNoDriverRead, CancelNoDriverCommit,
         DriverTimeoutReadOrder, ResolveDriverDisappeared, RecordDriverDebt,
         RefundRead, RefundCreate, RefundRecord, CreditForCompletedOrderRead,
         SweepReadOrder, AddStrikeCheck, AddStrikeCreate, ImmediateExclude,
         money
  <1>7. SellerPaidOnlyAfterHandover'
    BY <1>3, <1>5 DEF SellerPaidOnlyAfterHandover, Handed
  <1>8. DriverPaidOnlyForOwnTrip'
    BY <1>4, <1>6 DEF DriverPaidOnlyForOwnTrip
  <1>9. QED
    BY <1>7, <1>8

\* The watchdog charges and excludes the driver of the row it resolved, after it
\* has paid the seller.
LEMMA ChargedStep ==
  ASSUME TypeOK, HandlerRows, HandlerFacts, DriverChargedOnlyAfterLoss,
         NEW t \in Tasks, Step(t)
  PROVE  DriverChargedOnlyAfterLoss'
  <1>1. Monotone
    BY MonotoneStep
  <1>2. /\ task[t].op \in DriverOps \cup {"claim"} => task[t].d \in Deliveries
        /\ RowFacts(task[t]) /\ ProgressFacts(task[t])
    BY DEF HandlerRows, HandlerFacts
  <1>3. \A drv \in debt' \cup suspended' :
          \/ drv \in debt \cup suspended
          \/ /\ earning["seller"] # "none"
             /\ \E d \in Deliveries : dlv[d].driver = drv /\ dlv[d].picked
    <2>1. CASE RecordDriverDebt(t)
      BY <2>1, <1>2 DEF RecordDriverDebt, At, RowFacts, ProgressFacts, CallerOps,
         DeliveryOps, DriverOps, penalties
    <2>2. CASE ImmediateExclude(t)
      BY <2>2, <1>2 DEF ImmediateExclude, At, RowFacts, ProgressFacts, CallerOps,
         DeliveryOps, DriverOps, money
    <2>3. CASE UNCHANGED <<debt, suspended>>
      BY <2>3
    <2>4. QED
      BY <2>1, <2>2, <2>3 DEF Step, IsPaymentSucceeded, WriteConfirmed,
         NotifyOrderPaid, PaymentFailedRead,        PaymentFailedCommit,
         WritePreparing, MarkReadyCommit,        ScheduleNoDriverTimeout,
         ConfirmPickupWrite, CancelAsSellerRead,        CancelAsSellerCommit,
         SellerCannotProvideCommit, ClaimUpdate,        WriteAtPickup,
         DriverPickupCommit, ScheduleDriverDeliveryTimeout,
         WriteDelivered, ConfirmDeliveredByDriver, WriteOrderDelivered,
         SellerUnavailableCheckOrder, WriteSellerUnavailable,
         CancelForSellerUnavailable, SellerUnavailableCommit, CompensateDriver,
         WriteNoDriverAvailable, ScheduleNoDriverResponseTimeout,
         SwitchOrderToPickup, CancelNoDriverRead, CancelNoDriverCommit,
         DriverTimeoutReadOrder, ResolveDriverDisappeared,
         ReverseDriverEarning,        CreditSellerEarning, RefundRead,
         RefundCreate, RefundRecord,        ReversePendingEntries,
         CreditForCompletedOrderRead,        CreditForCompletedOrder,
         SweepReadOrder, SweepWrite, AddStrikeCheck,        AddStrikeCreate,
         money, penalties
  <1>4. earning["seller"] # "none" => earning'["seller"] # "none"
    BY <1>1 DEF Monotone, Payees, Parties
  <1>5. \A drv \in Drivers :
          (\E d \in Deliveries : dlv[d].driver = drv /\ dlv[d].picked)
            => \E d \in Deliveries : dlv'[d].driver = drv /\ dlv'[d].picked
    BY <1>1, DriversAssumption DEF Monotone
  <1>6. debt' \subseteq Drivers /\ suspended' \subseteq Drivers
    BY TypeStep DEF TypeOK
  <1>7. QED
    BY <1>3, <1>4, <1>5, <1>6 DEF DriverChargedOnlyAfterLoss

\* While the charge has not happened, the only steps a handler can take are those
\* of the payment handlers and of the sweep.
LEMMA UnpaidStep ==
  ASSUME TypeOK, Unpaid, ~stripe.paid, NEW t \in Tasks, Step(t)
  PROVE  \/ IsPaymentSucceeded(t) \/ PaymentFailedRead(t) \/ PaymentFailedCommit(t)
         \/ SweepReadOrder(t) \/ SweepWrite(t)
  <1>1. task[t].op # "none" => <<task[t].op, task[t].pc>> \in UnpaidSteps
    BY DEF Unpaid, Idle
  <1>2. task[t].op = "none" => task[t].pc = "idle"
    BY DEF Unpaid, Idle, UnpaidSteps
  <1>3. QED
    BY <1>1, <1>2 DEF Step, UnpaidSteps, At, WriteConfirmed, NotifyOrderPaid, WritePreparing,
       MarkReadyCommit, ScheduleNoDriverTimeout, ConfirmPickupWrite,
       CancelAsSellerRead, CancelAsSellerCommit, SellerCannotProvideCommit,
       ClaimUpdate, WriteAtPickup, DriverPickupCommit,
       ScheduleDriverDeliveryTimeout, WriteDelivered, ConfirmDeliveredByDriver,
       WriteOrderDelivered, SellerUnavailableCheckOrder,
       WriteSellerUnavailable, CancelForSellerUnavailable,
       SellerUnavailableCommit, CompensateDriver, WriteNoDriverAvailable,
       ScheduleNoDriverResponseTimeout, SwitchOrderToPickup,
       CancelNoDriverRead, CancelNoDriverCommit, DriverTimeoutReadOrder,
       ResolveDriverDisappeared, ReverseDriverEarning, CreditSellerEarning,
       RecordDriverDebt, RefundRead, RefundCreate, RefundRecord,
       ReversePendingEntries, CreditForCompletedOrderRead,
       CreditForCompletedOrder, AddStrikeCheck, AddStrikeCreate,
       ImmediateExclude

\* A slot that does not move, or that ends, stays quiet.
LEMMA UnpaidKeep ==
  ASSUME TypeOK, Unpaid, order'.status \in {"PENDING", "CANCELLED"},
         UNCHANGED dlv, timers' = {}, jobs' = {},
         \A u \in Tasks : \/ task'[u] \in {task[u], Idle}
                          \/ <<task'[u].op, task'[u].pc>> \in UnpaidSteps
  PROVE  Unpaid'
  BY DEF Unpaid, Created

\* The charge comes first: until Stripe has it, no step leaves the payment
\* handlers.
LEMMA ChargeNext ==
  ASSUME TypeOK, HandlerRows, ChargeFirst, [Next]_vars
  PROVE  ChargeFirst'
  <1>1. Monotone
    BY MonotoneNext
  <1>2. CASE stripe.paid
    BY <1>1, <1>2 DEF Monotone, ChargeFirst
  <1>3. ASSUME ~stripe.paid, ~stripe'.paid
        PROVE  Unpaid'
    <2>1. Unpaid
      BY <1>3 DEF ChargeFirst
    <2>2. CASE UNCHANGED vars \/ CardDeclined
      BY <2>1, <2>2, UnpaidKeep DEF CardDeclined, vars, Unpaid, watchdogs
    <2>3. ASSUME NEW t \in Tasks, Step(t)
          PROVE  Unpaid'
      <3>1. UNCHANGED <<dlv, timers, jobs>> /\ order'.status \in {"PENDING", "CANCELLED"}
        BY <1>3, <2>1, <2>3, UnpaidStep DEF IsPaymentSucceeded, PaymentFailedRead,
           PaymentFailedCommit, SweepReadOrder, SweepWrite, watchdogs, Unpaid, TypeOK,
           OrderType
      <3>2. \A u \in Tasks \ {t} : task'[u] = task[u]
        BY <1>3, <2>1, <2>3, UnpaidStep DEF IsPaymentSucceeded, PaymentFailedRead,
           PaymentFailedCommit, SweepReadOrder, SweepWrite, Goto, Done, TypeOK
      <3>3. task'[t] = Idle \/ <<task'[t].op, task'[t].pc>> \in UnpaidSteps
        <4>1. CASE IsPaymentSucceeded(t)
          BY <4>1, <1>3 DEF IsPaymentSucceeded, Done, TypeOK
        <4>2. CASE PaymentFailedRead(t)
          BY <4>2 DEF PaymentFailedRead, At, Done, TypeOK, TaskType, UnpaidSteps
        <4>3. CASE PaymentFailedCommit(t) \/ SweepWrite(t)
          BY <4>3 DEF PaymentFailedCommit, SweepWrite, Done, TypeOK
        <4>4. CASE SweepReadOrder(t)
          BY <4>4 DEF SweepReadOrder, At, Done, TypeOK, TaskType, UnpaidSteps
        <4>5. QED
          BY <1>3, <2>1, <2>3, <4>1, <4>2, <4>3, <4>4, UnpaidStep
      <3>4. QED
        BY <2>1, <3>1, <3>2, <3>3, UnpaidKeep DEF Unpaid
    <2>4. ASSUME NEW t \in Tasks, Request(t)
          PROVE  Unpaid'
      <3>1. ConfirmPaymentForBuyer(t) \/ HandlePaymentIntentFailed(t)
        BY <1>3, <2>1, <2>4 DEF Request, HandlePaymentIntentSucceeded, StartPreparing,
           MarkReady, ConfirmPickup, CancelAsSeller, SellerCannotProvide, Claim,
           ArriveAtPickup, DriverConfirmPickup, ConfirmDelivery,
           ReportSellerUnavailable, DecideNoDriver, Own, Unpaid, CancellableFrom
      <3>2. /\ \A u \in Tasks \ {t} : task'[u] = task[u]
            /\ <<task'[t].op, task'[t].pc>> \in UnpaidSteps
        BY <3>1 DEF ConfirmPaymentForBuyer, HandlePaymentIntentFailed, Begin, TypeOK,
           TaskType, UnpaidSteps
      <3>3. UNCHANGED <<order, dlv, timers, jobs>>
        BY <3>1 DEF ConfirmPaymentForBuyer, HandlePaymentIntentFailed, watchdogs
      <3>4. QED
        BY <2>1, <3>2, <3>3, UnpaidKeep DEF Unpaid
    <2>5. ASSUME NEW t \in Tasks, Background(t)
          PROVE  Unpaid'
      <3>1. PICK p \in Procs : ReleaseDuePendingEntries(t, p)
        BY <2>1, <2>5 DEF Background, HandleNoDriverTimeout, AutoCancelNoResponse,
           HandleDriverDeliveryTimeout, Fire, Unpaid
      <3>2. /\ \A u \in Tasks \ {t} : task'[u] = task[u]
            /\ <<task'[t].op, task'[t].pc>> \in UnpaidSteps
        BY <3>1 DEF ReleaseDuePendingEntries, TypeOK, TaskType, UnpaidSteps
      <3>3. UNCHANGED <<order, dlv, timers, jobs>>
        BY <3>1 DEF ReleaseDuePendingEntries, watchdogs
      <3>4. QED
        BY <2>1, <3>2, <3>3, UnpaidKeep DEF Unpaid
    <2>6. ASSUME NEW t \in Tasks, Abort(t)
          PROVE  Unpaid'
      BY <2>1, <2>6, UnpaidKeep DEF Abort, Done, Unpaid, watchdogs, TypeOK
    <2>7. ASSUME NEW p \in Procs, Crash(p)
          PROVE  Unpaid'
      <3>1. timers' = {} /\ UNCHANGED <<order, dlv>>
        BY <2>1, <2>7 DEF Crash, Unpaid
      <3>2. \A u \in Tasks : JobOf(task[u]) = {}
        BY <2>1 DEF Unpaid, JobOf, UnpaidSteps, Idle
      <3>3. jobs' = {}
        BY <2>1, <2>7, <3>2 DEF Crash, Unpaid
      <3>4. \A u \in Tasks : task'[u] \in {task[u], Idle}
        BY <2>7 DEF Crash
      <3>5. QED
        BY <2>1, <3>1, <3>3, <3>4, UnpaidKeep DEF Unpaid
    <2>8. QED
      BY <1>3, <2>2, <2>3, <2>4, <2>5, <2>6, <2>7 DEF Next, BuyerPays, TypeOK, StripeType
  <1>4. QED
    BY <1>2, <1>3 DEF ChargeFirst

-----------------------------------------------------------------------------
(* The inductive invariant and the theorems *)

\* The order as createOrder leaves it satisfies the invariant.
LEMMA InvInit == Init => IInv
  <1> SUFFICES ASSUME Init PROVE IInv
    OBVIOUS
  <1>1. TypeOK /\ HandlerRows
    BY TypeInit
  <1>2. HandlerFacts
    BY DEF Init, HandlerFacts, RowFacts, ProgressFacts, CreditFacts, Idle, DriverOps,
       DeliveryOps, CallerOps
  <1>3. ChargeFirst
    BY DEF Init, ChargeFirst, Unpaid, Created, NoRow
  <1>4. RowsConfirmed /\ CustodyChain
    BY DEF Init, RowsConfirmed, CustodyChain, NoRow, PostPickup
  <1>5. /\ SellerPaidOnlyAfterHandover /\ DriverPaidOnlyForOwnTrip
        /\ DriverChargedOnlyAfterLoss
    BY DEF Init, SellerPaidOnlyAfterHandover, DriverPaidOnlyForOwnTrip,
       DriverChargedOnlyAfterLoss, Payees, Parties
  <1>6. QED
    BY <1>1, <1>2, <1>3, <1>4, <1>5 DEF IInv

\* Every step preserves it.
LEMMA InvNext == IInv /\ [Next]_vars => IInv'
  <1> SUFFICES ASSUME IInv, [Next]_vars PROVE IInv'
    OBVIOUS
  <1> USE DEF IInv
  <1>1. TypeOK' /\ HandlerRows'
    BY TypeNext
  <1>2. HandlerFacts' /\ ChargeFirst'
    BY FactsNext, ChargeNext
  <1>3. CASE \E t \in Tasks : Step(t)
    BY <1>1, <1>2, <1>3, RowsStep, LedgerStep, ChargedStep
  <1>4. CASE UNCHANGED <<order, dlv, earning, debt, suspended>>
    BY <1>1, <1>2, <1>4 DEF RowsConfirmed, CustodyChain, SellerPaidOnlyAfterHandover,
       DriverPaidOnlyForOwnTrip, DriverChargedOnlyAfterLoss
  <1>5. QED
    BY <1>3, <1>4, BeginningIsQuiet DEF Next, BuyerPays, CardDeclined, Abort, Crash, vars,
       money, penalties

\* The invariant holds in every reachable state.
LEMMA InvHolds == Spec => []IInv
  BY InvInit, InvNext, PTL DEF Spec

\* createOrder's promise that the seller never sees an unpaid order, for any
\* interleaving and any failures.
THEOREM SellerSeesOnlyPaidOrders == Spec => []PaidBeforeSeller
  <1>1. IInv => PaidBeforeSeller
    BY DEF IInv, ChargeFirst, Unpaid, PaidBeforeSeller
  <1>2. QED
    BY <1>1, InvHolds, PTL

\* The food changes hands in order on every Delivery row.
THEOREM CustodyInOrder == Spec => []CustodyChain
  BY InvHolds, PTL DEF IInv

\* No seller is credited for a dish that never left the kitchen.
THEOREM EarningsAreEarned == Spec => []SellerPaidOnlyAfterHandover
  BY InvHolds, PTL DEF IInv

\* Neither creditForCompletedOrder nor compensateDriver pays a driver for a trip
\* that was not theirs, although both find the driver long after the handler's
\* checks and other handlers write the same rows.
THEOREM DriversEarnTheirTrips == Spec => []DriverPaidOnlyForOwnTrip
  BY InvHolds, PTL DEF IInv

\* Debt and exclusion only ever hit a driver who picked the food up.
THEOREM ChargesAreJustified == Spec => []DriverChargedOnlyAfterLoss
  BY InvHolds, PTL DEF IInv

\* deliveries.claim is exclusive: nothing reassigns or unassigns a delivery.
THEOREM ClaimIsExclusive == Spec => ClaimExclusive
  <1>1. TypeOK /\ HandlerRows /\ [Next]_vars =>
          [\A d \in Deliveries :
             dlv[d].driver # NoDriver => dlv'[d].driver = dlv[d].driver]_vars
    BY MonotoneNext DEF Monotone
  <1>2. QED
    BY <1>1, InvHolds, PTL DEF Spec, IInv, ClaimExclusive

\* Every write of a ledger row is guarded by the row's own status: inserts skip
\* an existing row, updates touch only PENDING ones.
LEMMA LedgerForward ==
  ASSUME TypeOK, HandlerRows, [Next]_vars, NEW p \in Payees
  PROVE  /\ earning[p] \in {"CANCELLED", "AVAILABLE"} => earning'[p] = earning[p]
         /\ earning[p] = "PENDING" => earning'[p] # "none"
  <1>1. ASSUME NEW t \in Tasks,
               \/ CompensateDriver(t) \/ ReverseDriverEarning(t)
               \/ CreditSellerEarning(t) \/ ReversePendingEntries(t)
               \/ CreditForCompletedOrder(t) \/ SweepWrite(t)
        PROVE  earning[p] \in {"CANCELLED", "AVAILABLE"} => earning'[p] = earning[p]
    BY <1>1 DEF CompensateDriver, ReverseDriverEarning, CreditSellerEarning,
       ReversePendingEntries, CreditForCompletedOrder, SweepWrite, Credit,
       SettlePending, TypeOK
  <1>2. CASE UNCHANGED earning
    BY <1>2
  <1>3. ASSUME NEW t \in Tasks, Step(t)
        PROVE  earning[p] \in {"CANCELLED", "AVAILABLE"} => earning'[p] = earning[p]
    BY <1>1, <1>2, <1>3 DEF Step, money, IsPaymentSucceeded, WriteConfirmed,
       NotifyOrderPaid, PaymentFailedRead, PaymentFailedCommit, WritePreparing,
       MarkReadyCommit, ScheduleNoDriverTimeout, ConfirmPickupWrite,
       CancelAsSellerRead, CancelAsSellerCommit, SellerCannotProvideCommit,
       ClaimUpdate, WriteAtPickup, DriverPickupCommit,
       ScheduleDriverDeliveryTimeout, WriteDelivered, ConfirmDeliveredByDriver,
       WriteOrderDelivered, SellerUnavailableCheckOrder,
       WriteSellerUnavailable, CancelForSellerUnavailable,
       SellerUnavailableCommit, WriteNoDriverAvailable,
       ScheduleNoDriverResponseTimeout, SwitchOrderToPickup,
       CancelNoDriverRead, CancelNoDriverCommit, DriverTimeoutReadOrder,
       ResolveDriverDisappeared, RecordDriverDebt, RefundRead, RefundCreate,
       RefundRecord, CreditForCompletedOrderRead, SweepReadOrder,
       AddStrikeCheck, AddStrikeCreate, ImmediateExclude
  <1>4. earning[p] \in {"CANCELLED", "AVAILABLE"} => earning'[p] = earning[p]
    BY <1>2, <1>3, BeginningIsQuiet DEF Next, BuyerPays, CardDeclined, Abort, Crash,
       vars, money
  <1>5. QED
    BY <1>4, MonotoneNext DEF Monotone

\* The sweep, the refund and the credit of one order may all run at once: an
\* earning still moves in one direction only.
THEOREM LedgerMovesForward == Spec => LedgerMonotone
  <1>1. TypeOK /\ HandlerRows /\ [Next]_vars =>
          [\A p \in Payees :
             /\ earning[p] \in {"CANCELLED", "AVAILABLE"} => earning'[p] = earning[p]
             /\ earning[p] = "PENDING" => earning'[p] # "none"]_vars
    BY LedgerForward
  <1>2. QED
    BY <1>1, InvHolds, PTL DEF Spec, IInv, LedgerMonotone

-----------------------------------------------------------------------------
(* One handler at a time *)

\* What a handler has read is still so when no other handler runs beside it.
OneAtATime == \A t, u \in Tasks : t = u

PaymentOps == {"confirmPayment", "paySucceeded"}
RestoringOps ==
    {"payFailed", "cancelAsSeller", "sellerCannotProvide", "sellerUnavailable",
     "decideNoDriver", "autoCancel"}

\* The order is as the handler read it.
OrderRead(k) ==
    /\ k.op \in PaymentOps /\ k.pc \in {"retrieve", "confirm"} => order.status = "PENDING"
    /\ k.op = "payFailed" => order.status = "PENDING"
    /\ k.op = "startPreparing" => order.status = "CONFIRMED"
    /\ k.op = "markReady" /\ k.pc = "write" => order.status = "PREPARING"
    /\ k.op \in RestoringOps /\ k.pc = "commit" => k.restored = order.restored

\* So is the delivery.
DeliveryRead(k) ==
    /\ k.d # 0 => Created(k.d)
    /\ k.op = "arriveAtPickup" => dlv[k.d].status = "ASSIGNED"
    /\ k.op = "driverPickup" /\ k.pc = "commit" =>
         dlv[k.d].status \in PrePickup /\ ~dlv[k.d].picked
    /\ k.op = "confirmDelivery" /\ k.pc = "write" => dlv[k.d].status = "PICKED_UP"
    /\ k.op = "sellerUnavailable" /\ k.pc \in {"checkOrder", "write"} => ~dlv[k.d].picked
    /\ k.op = "driverTimeout" =>
         /\ ~dlv[k.d].confirmed
         /\ k.pc \notin {"readOrder", "commit"} => dlv[k.d].status = "FAILED"

\* The charge is seen before the order is confirmed, the refund before it is booked.
PaymentRead(k) ==
    /\ k.op = "confirmPayment" => order.pi
    /\ k.pc = "confirm" => k.op \in PaymentOps /\ stripe.paid
    /\ k.pc = "notify" =>
         order.pi /\ stripe.paid /\ order.status = "CONFIRMED" /\ notified = 0
    /\ k.pc = "refundRecord" => stripe.refunded

\* markReady comes once in the life of an order.
RowsFollow ==
    /\ \A d \in Deliveries : dlv[d].driver # NoDriver => Created(d)
    /\ order.status \in {"PENDING", "CONFIRMED", "PREPARING"} =>
         \A d \in Deliveries : ~Created(d)
    /\ OneDelivery

\* A wasted trip is not one that was lost.
TripsApart ==
    /\ \A d \in Deliveries :
         dlv[d].unavailable => dlv[d].status = "CANCELLED" /\ ~dlv[d].picked
    /\ \A drv \in debt : \E d \in Deliveries :
         /\ dlv[d].driver = drv /\ dlv[d].picked /\ ~dlv[d].confirmed
         /\ dlv[d].status \in {"FAILED", "CANCELLED"}

\* The seller hears of charged orders only, and once.
SalesPaid ==
    /\ notified <= 1
    /\ order.refund => stripe.refunded
    /\ notified > 0 => order.pi /\ stripe.paid /\ order.status # "PENDING"

\* All that a handler has read is still so.
Reads(k) == OrderRead(k) /\ DeliveryRead(k) /\ PaymentRead(k)

\* The inductive invariant of a run with a single handler at a time.
SeqInv ==
    /\ \A t \in Tasks : Reads(task[t])
    /\ RowsFollow /\ TripsApart /\ SalesPaid /\ StockRestoredOnce

\* A sale that was cancelled is refunded, or about to be.
RefundOnItsWay ==
    order.status = "CANCELLED" /\ notified > 0 =>
      \/ stripe.refunded
      \/ \E t \in Tasks : task[t].pc \in {"reverseDriver", "refundRead", "refundCreate"}

\* A refund that is not on the order yet is about to be.
RecordOnItsWay ==
    stripe.refunded => order.refund \/ \E t \in Tasks : task[t].pc = "refundRecord"
\* The handler t goes on to pc with what it has read.
Moved(t, pc) ==
    /\ task'[t].pc = pc /\ task'[t].op = task[t].op /\ task'[t].d = task[t].d
    /\ task'[t].drv = task[t].drv

\* Goto moves a handler on.
LEMMA GotoMoves ==
  ASSUME TypeOK, NEW t \in Tasks, NEW pc, Goto(t, pc)
  PROVE  Moved(t, pc) /\ task'[t].restored = task[t].restored
  BY DEF TypeOK, TaskType, Goto, Moved

\* So does a handler that copies the inventoryRestored flag.
LEMMA SnapshotMoves ==
  ASSUME TypeOK, NEW t \in Tasks,
         task' = [task EXCEPT ![t].pc = "commit", ![t].restored = order.restored]
  PROVE  Moved(t, "commit") /\ task'[t].restored = order.restored
  BY DEF TypeOK, TaskType, Moved

\* Done frees the slot.
LEMMA DoneMoves ==
  ASSUME TypeOK, NEW t \in Tasks, Done(t)
  PROVE  task'[t] = Idle
  BY DEF TypeOK, Done

\* A free slot has read nothing.
LEMMA IdleReads ==
  ASSUME NEW t \in Tasks, task'[t] = Idle
  PROVE  Reads(task[t])'
  BY DEF Idle, Reads, OrderRead, DeliveryRead, PaymentRead, PaymentOps, RestoringOps

\* A handler that goes on claims less and less of what it has read.
LEMMA MovedReads ==
  ASSUME NEW t \in Tasks, NEW pc, Moved(t, pc), Reads(task[t]),
         UNCHANGED <<order, dlv>>, stripe.paid => stripe'.paid,
         pc \notin {"retrieve", "confirm", "notify", "txRead", "write", "readOrder", "checkOrder"},
         pc = "commit" => task[t].op \in {"confirmDelivery", "driverTimeout"},
         pc = "refundRecord" => stripe'.refunded,
         task[t].op = "driverTimeout" /\ pc # "commit" => dlv[task[t].d].status = "FAILED"
  PROVE  Reads(task[t])'
  BY DEF Moved, Reads, OrderRead, DeliveryRead, PaymentRead, PaymentOps, RestoringOps, Created

\* After the refund only the row of the driver who disappeared matters still.
LEMMA AfterReads ==
  ASSUME TypeOK, NEW t \in Tasks, Reads(task[t]), UNCHANGED <<order, dlv, stripe>>,
         AfterRefund(t) \/ AfterStrike(t),
         task[t].op = "driverTimeout" => dlv[task[t].d].status = "FAILED"
  PROVE  Reads(task[t])'
  <1>1. CASE Done(t)
    BY <1>1, DoneMoves, IdleReads
  <1>2. ASSUME NEW pc \in {"strikeCheck", "compensate", "paySeller", "suspend"}, Goto(t, pc)
        PROVE  Reads(task[t])'
    <2>1. Moved(t, pc)
      BY <1>2, GotoMoves
    <2> QED BY <1>2, <2>1, MovedReads
  <1>3. CASE AfterRefund(t)
    BY <1>1, <1>2, <1>3 DEF AfterRefund
  <1>4. CASE AfterStrike(t)
    BY <1>1, <1>2, <1>4 DEF AfterStrike
  <1> QED BY <1>3, <1>4

\* What the order, the delivery, Stripe and the debts are about.
Books == <<order, dlv, portionsLeft, stripe, debt, notified>>

\* Steps that write none of the books.
LEMMA SeqQuiet ==
  ASSUME OneAtATime, SeqInv, UNCHANGED Books, NEW t \in Tasks, Reads(task[t])'
  PROVE  SeqInv'
  <1>1. \A u \in Tasks : Reads(task[u])'
    BY DEF OneAtATime
  <1> QED BY <1>1 DEF SeqInv, Books, RowsFollow, OneDelivery, Created, TripsApart, SalesPaid,
                      StockRestoredOnce

\* A handler begins.
LEMMA SeqRequest ==
  ASSUME OneAtATime, IInv, SeqInv, NEW t \in Tasks, Request(t)
  PROVE  SeqInv'
  <1>0. TypeOK /\ UNCHANGED Books
    BY DEF IInv, Books, Request, ConfirmPaymentForBuyer, HandlePaymentIntentSucceeded,
           HandlePaymentIntentFailed, StartPreparing, MarkReady, ConfirmPickup, CancelAsSeller,
           SellerCannotProvide, Claim, ArriveAtPickup, DriverConfirmPickup, ConfirmDelivery,
           ReportSellerUnavailable, DecideNoDriver, money
  <1> USE DEF Reads, OrderRead, DeliveryRead, PaymentRead, PaymentOps, RestoringOps, Created
  <1>1. ASSUME NEW op, NEW pc, Begin(t, op, pc)
        PROVE  task'[t].op = op /\ task'[t].pc = pc /\ task'[t].d = 0
    BY <1>0, <1>1 DEF Begin, Idle, TypeOK, TaskType
  <1>2. ASSUME NEW op, NEW pc, NEW d, BeginOn(t, op, pc, d)
        PROVE  task'[t].op = op /\ task'[t].pc = pc /\ task'[t].d = d
    BY <1>0, <1>2 DEF BeginOn, Idle, TypeOK, TaskType
  <1>3. CASE \/ ConfirmPaymentForBuyer(t) \/ HandlePaymentIntentSucceeded(t)
             \/ HandlePaymentIntentFailed(t) \/ StartPreparing(t) \/ ConfirmPickup(t)
             \/ CancelAsSeller(t)
    <2>1. Reads(task[t])'
      BY <1>0, <1>1, <1>3 DEF ConfirmPaymentForBuyer, HandlePaymentIntentSucceeded,
         HandlePaymentIntentFailed, StartPreparing, ConfirmPickup, CancelAsSeller, Books
    <2> QED BY <1>0, <2>1, SeqQuiet
  <1>4. CASE MarkReady(t)
    <2>1. task'[t].op = "markReady" /\ task'[t].pc = "write" /\ task'[t].d = 0
      BY <1>0, <1>4 DEF MarkReady, Idle, TypeOK, TaskType
    <2>2. Reads(task[t])'
      BY <1>0, <1>4, <2>1 DEF MarkReady, Books
    <2> QED BY <1>0, <2>2, SeqQuiet
  <1>5. CASE SellerCannotProvide(t)
    <2>1. PICK d \in 0 .. MaxDeliveries :
            /\ Latest(d)
            /\ task' = [task EXCEPT
                       ![t].op = "sellerCannotProvide", ![t].pc = "commit",
                       ![t].restored = order.restored,
                       ![t].d = IF d > 0 /\ dlv[d].status \notin {"CANCELLED", "FAILED"}
                                THEN d ELSE 0]
      BY <1>5 DEF SellerCannotProvide
    <2>2. /\ task'[t].op = "sellerCannotProvide" /\ task'[t].pc = "commit"
          /\ task'[t].restored = order.restored /\ task'[t].d \in {0, d}
      BY <1>0, <2>1 DEF TypeOK, TaskType
    <2>3. d # 0 => Created(d)
      BY <2>1 DEF Latest
    <2>4. Reads(task[t])'
      BY <1>0, <2>2, <2>3 DEF Books
    <2> QED BY <1>0, <2>4, SeqQuiet
  <1>6. ASSUME NEW pc \in {"switch", "cancelRead"}, DecideNoDriver(t, pc) PROVE SeqInv'
    <2>1. PICK d \in 0 .. MaxDeliveries :
            /\ Latest(d)
            /\ task' = [task EXCEPT ![t].op = "decideNoDriver", ![t].pc = pc,
                                    ![t].d = IF pc = "switch" THEN d ELSE 0]
      BY <1>6 DEF DecideNoDriver
    <2>2. task'[t].op = "decideNoDriver" /\ task'[t].pc = pc /\ task'[t].d \in {0, d}
      BY <1>0, <2>1 DEF TypeOK, TaskType
    <2>3. d # 0 => Created(d)
      BY <2>1 DEF Latest
    <2>4. Reads(task[t])'
      BY <1>0, <1>6, <2>2, <2>3 DEF Books
    <2> QED BY <1>0, <2>4, SeqQuiet
  <1>7. ASSUME NEW d \in Deliveries, NEW drv \in Drivers, Claim(t, drv, d) PROVE SeqInv'
    <2>1. task'[t].op = "claim" /\ task'[t].pc = "write" /\ task'[t].d = d
      BY <1>0, <1>7 DEF Claim, TypeOK, TaskType
    <2>2. Reads(task[t])'
      BY <1>0, <1>7, <2>1 DEF Claim, Books
    <2> QED BY <1>0, <2>2, SeqQuiet
  <1>8. ASSUME NEW d \in Deliveries,
               \/ ArriveAtPickup(t, d) \/ DriverConfirmPickup(t, d)
               \/ ConfirmDelivery(t, d) \/ ReportSellerUnavailable(t, d)
        PROVE  SeqInv'
    <2>1. Reads(task[t])'
      BY <1>0, <1>2, <1>8 DEF ArriveAtPickup, DriverConfirmPickup, ConfirmDelivery,
         ReportSellerUnavailable, Books, Own
    <2> QED BY <1>0, <2>1, SeqQuiet
  <1> QED BY <1>3, <1>4, <1>5, <1>6, <1>7, <1>8 DEF Request

\* A watchdog or the sweep begins.
LEMMA SeqBackground ==
  ASSUME OneAtATime, IInv, SeqInv, NEW t \in Tasks, Background(t)
  PROVE  SeqInv'
  <1>0. TypeOK /\ UNCHANGED Books
    BY DEF IInv, Books, Background, HandleNoDriverTimeout, AutoCancelNoResponse,
           HandleDriverDeliveryTimeout, ReleaseDuePendingEntries, money
  <1> USE DEF Reads, OrderRead, DeliveryRead, PaymentRead, PaymentOps, RestoringOps, Created
  <1>1. CASE UNCHANGED task
    <2>1. Reads(task[t])'
      BY <1>0, <1>1 DEF SeqInv, Books
    <2> QED BY <1>0, <2>1, SeqQuiet
  <1>2. ASSUME NEW op \in {"noDriverTimeout", "autoCancel", "sweep"},
               task'[t].op = op, task'[t].d = 0,
               task'[t].pc \in {"write", "cancelRead", "sweepOrder"}
        PROVE  SeqInv'
    <2>1. Reads(task[t])'
      BY <1>0, <1>2
    <2> QED BY <1>0, <2>1, SeqQuiet
  <1>3. ASSUME NEW p \in Procs, HandleNoDriverTimeout(t, p) PROVE SeqInv'
    <2>1. CASE task' = [task EXCEPT ![t].op = "noDriverTimeout", ![t].pc = "write",
                                    ![t].proc = p]
      <3>1. task'[t].op = "noDriverTimeout" /\ task'[t].d = 0 /\ task'[t].pc = "write"
        BY <1>0, <1>3, <2>1 DEF HandleNoDriverTimeout, Idle, TypeOK, TaskType
      <3> QED BY <1>2, <3>1
    <2> QED BY <1>1, <1>3, <2>1 DEF HandleNoDriverTimeout
  <1>4. ASSUME NEW p \in Procs, AutoCancelNoResponse(t, p) PROVE SeqInv'
    <2>1. CASE task' = [task EXCEPT ![t].op = "autoCancel", ![t].pc = "cancelRead",
                                    ![t].proc = p]
      <3>1. task'[t].op = "autoCancel" /\ task'[t].d = 0 /\ task'[t].pc = "cancelRead"
        BY <1>0, <1>4, <2>1 DEF AutoCancelNoResponse, Idle, TypeOK, TaskType
      <3> QED BY <1>2, <3>1
    <2> QED BY <1>1, <1>4, <2>1 DEF AutoCancelNoResponse
  <1>5. ASSUME NEW p \in Procs, ReleaseDuePendingEntries(t, p) PROVE SeqInv'
    <2>1. task'[t].op = "sweep" /\ task'[t].d = 0 /\ task'[t].pc = "sweepOrder"
      BY <1>0, <1>5 DEF ReleaseDuePendingEntries, Idle, TypeOK, TaskType
    <2> QED BY <1>2, <2>1
  <1>6. ASSUME NEW p \in Procs, NEW d \in Deliveries, HandleDriverDeliveryTimeout(t, p, d)
        PROVE  SeqInv'
    <2>1. CASE /\ task' = [task EXCEPT ![t].op = "driverTimeout", ![t].pc = "readOrder",
                                 ![t].proc = p, ![t].d = d, ![t].drv = dlv[d].driver]
               /\ ~dlv[d].confirmed /\ dlv[d].picked
      <3>1. task'[t].op = "driverTimeout" /\ task'[t].d = d /\ task'[t].pc = "readOrder"
        BY <1>0, <2>1 DEF TypeOK, TaskType
      <3>2. Created(d)
        BY <2>1 DEF IInv, CustodyChain, SeqInv, RowsFollow
      <3>3. Reads(task[t])'
        BY <1>0, <2>1, <3>1, <3>2 DEF Books
      <3> QED BY <1>0, <3>3, SeqQuiet
    <2> QED BY <1>1, <1>6, <2>1 DEF HandleDriverDeliveryTimeout
  <1> QED BY <1>3, <1>4, <1>5, <1>6 DEF Background

-----------------------------------------------------------------------------
(* The steps of a single handler *)

\* Steps that only read the books, or write the ledger's earnings and strikes.
LEMMA SeqReading ==
  ASSUME OneAtATime, IInv, SeqInv, NEW t \in Tasks,
         \/ IsPaymentSucceeded(t) \/ PaymentFailedRead(t) \/ ScheduleNoDriverTimeout(t)
         \/ CancelAsSellerRead(t) \/ ScheduleDriverDeliveryTimeout(t)
         \/ ConfirmDeliveredByDriver(t) \/ SellerUnavailableCheckOrder(t)
         \/ CancelForSellerUnavailable(t) \/ CompensateDriver(t)
         \/ ScheduleNoDriverResponseTimeout(t) \/ CancelNoDriverRead(t)
         \/ DriverTimeoutReadOrder(t) \/ ReverseDriverEarning(t) \/ CreditSellerEarning(t)
         \/ RefundRead(t) \/ ReversePendingEntries(t)
         \/ CreditForCompletedOrderRead(t) \/ CreditForCompletedOrder(t)
         \/ SweepReadOrder(t) \/ SweepWrite(t)
         \/ AddStrikeCheck(t) \/ AddStrikeCreate(t) \/ ImmediateExclude(t)
  PROVE  SeqInv'
  <1>0. TypeOK /\ Reads(task[t]) /\ ProgressFacts(task[t]) /\ CreditFacts(task[t])
    BY DEF IInv, HandlerFacts, SeqInv
  <1>1. UNCHANGED Books
    BY DEF Books, IsPaymentSucceeded, PaymentFailedRead, ScheduleNoDriverTimeout,
           CancelAsSellerRead, ScheduleDriverDeliveryTimeout, ConfirmDeliveredByDriver,
           SellerUnavailableCheckOrder, CancelForSellerUnavailable, CompensateDriver,
           ScheduleNoDriverResponseTimeout, CancelNoDriverRead, DriverTimeoutReadOrder,
           ReverseDriverEarning, CreditSellerEarning, RefundRead, ReversePendingEntries,
           CreditForCompletedOrderRead, CreditForCompletedOrder, SweepReadOrder, SweepWrite,
           AddStrikeCheck, AddStrikeCreate, ImmediateExclude, money, penalties
  <1>2. UNCHANGED <<order, dlv, stripe>>
    BY <1>1 DEF Books
  <1>3. CASE Done(t)
    BY <1>1, <1>3, DoneMoves, IdleReads, <1>0, SeqQuiet
  <1>4. ASSUME NEW pc, Goto(t, pc),
               pc \notin {"retrieve", "confirm", "notify", "txRead", "write", "readOrder",
                          "checkOrder", "refundRecord"},
               pc = "commit" => task[t].op \in {"confirmDelivery", "driverTimeout"},
               task[t].op = "driverTimeout" /\ pc # "commit" => dlv[task[t].d].status = "FAILED"
        PROVE  SeqInv'
    <2>1. Moved(t, pc)
      BY <1>0, <1>4, GotoMoves
    <2>2. Reads(task[t])'
      BY <1>0, <1>2, <1>4, <2>1, MovedReads
    <2> QED BY <1>1, <2>2, SeqQuiet
  <1>5. ASSUME AfterRefund(t) \/ AfterStrike(t),
               task[t].op = "driverTimeout" => dlv[task[t].d].status = "FAILED"
        PROVE  SeqInv'
    <2>1. Reads(task[t])'
      BY <1>0, <1>2, <1>5, AfterReads
    <2> QED BY <1>1, <2>1, SeqQuiet
  <1>6. task[t].op = "driverTimeout" /\ task[t].pc \notin {"readOrder", "commit"} =>
          dlv[task[t].d].status = "FAILED"
    BY <1>0 DEF Reads, DeliveryRead
  <1>7. CASE IsPaymentSucceeded(t)
    <2>1. CASE stripe.paid /\ Goto(t, "confirm")
      <3>1. Moved(t, "confirm")
        BY <1>0, <2>1, GotoMoves
      <3>2. Reads(task[t])'
        BY <1>0, <1>2, <1>7, <2>1, <3>1 DEF IsPaymentSucceeded, At, Moved, Reads, OrderRead,
           DeliveryRead, PaymentRead, PaymentOps, RestoringOps, Created
      <3> QED BY <1>1, <3>2, SeqQuiet
    <2> QED BY <1>3, <1>7, <2>1 DEF IsPaymentSucceeded
  <1>8. ASSUME task' = [task EXCEPT ![t].pc = "commit", ![t].restored = order.restored],
               task[t].op \in {"payFailed", "cancelAsSeller", "sellerUnavailable"}
        PROVE  SeqInv'
    <2>1. Moved(t, "commit") /\ task'[t].restored = order.restored
      BY <1>0, <1>8, SnapshotMoves
    <2>2. Reads(task[t])'
      BY <1>0, <1>2, <1>8, <2>1 DEF Moved, Reads, OrderRead, DeliveryRead, PaymentRead,
         PaymentOps, RestoringOps, Created
    <2> QED BY <1>1, <2>2, SeqQuiet
  <1>9. CASE PaymentFailedRead(t) \/ CancelAsSellerRead(t) \/ CancelForSellerUnavailable(t)
    BY <1>3, <1>4, <1>8, <1>9 DEF PaymentFailedRead, CancelAsSellerRead,
       CancelForSellerUnavailable, At
  <1>10. CASE \/ ScheduleNoDriverTimeout(t) \/ ScheduleDriverDeliveryTimeout(t)
              \/ ScheduleNoDriverResponseTimeout(t) \/ CreditForCompletedOrder(t)
              \/ SweepWrite(t) \/ ImmediateExclude(t)
    BY <1>3, <1>10 DEF ScheduleNoDriverTimeout, ScheduleDriverDeliveryTimeout,
       ScheduleNoDriverResponseTimeout, CreditForCompletedOrder, SweepWrite, ImmediateExclude
  <1>11. CASE ConfirmDeliveredByDriver(t) \/ CompensateDriver(t) \/ DriverTimeoutReadOrder(t)
    BY <1>3, <1>4, <1>11 DEF ConfirmDeliveredByDriver, CompensateDriver,
       DriverTimeoutReadOrder, At
  <1>12. CASE SellerUnavailableCheckOrder(t)
    <2>1. CASE Goto(t, "write")
      <3>1. Moved(t, "write")
        BY <1>0, <2>1, GotoMoves
      <3>2. Reads(task[t])'
        BY <1>0, <1>2, <1>12, <3>1 DEF SellerUnavailableCheckOrder, At, Moved, Reads, OrderRead,
           DeliveryRead, PaymentRead, PaymentOps, RestoringOps, Created
      <3> QED BY <1>1, <3>2, SeqQuiet
    <2> QED BY <1>3, <1>12, <2>1 DEF SellerUnavailableCheckOrder
  <1>13. CASE CancelNoDriverRead(t)
    <2>1. PICK d \in 0 .. MaxDeliveries :
            /\ Latest(d)
            /\ task' = [task EXCEPT ![t].pc = "commit", ![t].d = d,
                                    ![t].restored = order.restored]
      BY <1>13 DEF CancelNoDriverRead
    <2>2. /\ task'[t].op = task[t].op /\ task'[t].pc = "commit" /\ task'[t].d = d
          /\ task'[t].restored = order.restored
      BY <1>0, <2>1 DEF TypeOK, TaskType
    <2>3. d # 0 => Created(d)
      BY <2>1 DEF Latest
    <2>4. Reads(task[t])'
      BY <1>2, <1>13, <2>2, <2>3 DEF CancelNoDriverRead, Reads, OrderRead, DeliveryRead,
         PaymentRead, PaymentOps, RestoringOps, Created
    <2> QED BY <1>1, <2>4, SeqQuiet
  <1>14. CASE ReverseDriverEarning(t) \/ CreditSellerEarning(t)
    BY <1>4, <1>6, <1>14 DEF ReverseDriverEarning, CreditSellerEarning, At
  <1>15. ASSUME task[t].pc \in {"refundRead", "reverse", "strikeCheck", "strikeCreate"}
         PROVE  task[t].op = "driverTimeout" => dlv[task[t].d].status = "FAILED"
    BY <1>6, <1>15
  <1>16. CASE RefundRead(t) \/ AddStrikeCheck(t)
    BY <1>4, <1>5, <1>15, <1>16 DEF RefundRead, AddStrikeCheck
  <1>17. CASE ReversePendingEntries(t) \/ AddStrikeCreate(t)
    BY <1>5, <1>15, <1>17 DEF ReversePendingEntries, AddStrikeCreate
  <1>18. CASE CreditForCompletedOrderRead(t)
    <2>1. task[t].op \in {"confirmPickup", "confirmDelivery"}
      BY <1>0, <1>18 DEF CreditForCompletedOrderRead, CreditFacts
    <2>2. ASSUME NEW drv, task' = [task EXCEPT ![t].pc = "credit", ![t].drv = drv]
          PROVE  SeqInv'
      <3>1. task'[t].op = task[t].op /\ task'[t].pc = "credit" /\ task'[t].d = task[t].d
        BY <1>0, <2>2 DEF TypeOK, TaskType
      <3>2. Reads(task[t])'
        BY <1>0, <1>2, <2>1, <3>1 DEF Reads, OrderRead, DeliveryRead, PaymentRead, PaymentOps,
           RestoringOps, Created
      <3> QED BY <1>1, <3>2, SeqQuiet
    <2> QED BY <1>3, <1>18, <2>2 DEF CreditForCompletedOrderRead
  <1>19. CASE SweepReadOrder(t)
    <2>1. CASE task' = [task EXCEPT ![t].pc = "sweepWrite", ![t].saw = order.status]
      <3>1. /\ task'[t].op = "sweep" /\ task'[t].pc = "sweepWrite" /\ task'[t].d = task[t].d
        BY <1>0, <1>19, <2>1 DEF SweepReadOrder, At, TypeOK, TaskType
      <3>2. Reads(task[t])'
        BY <1>0, <1>2, <3>1 DEF Reads, OrderRead, DeliveryRead, PaymentRead, PaymentOps,
           RestoringOps, Created
      <3> QED BY <1>1, <3>2, SeqQuiet
    <2> QED BY <1>3, <1>19, <2>1 DEF SweepReadOrder
  <1> QED BY <1>7, <1>9, <1>10, <1>11, <1>12, <1>13, <1>14, <1>16, <1>17, <1>18, <1>19

\* Steps after which the slot is free, or the handler knows only its row.
LEMMA SeqWritten ==
  ASSUME OneAtATime, SeqInv, NEW t \in Tasks, Reads(task[t])',
         RowsFollow', TripsApart', SalesPaid', StockRestoredOnce'
  PROVE  SeqInv'
  BY DEF OneAtATime, SeqInv

\* A handler past its last transaction needs only that its row exists.
LEMMA LateReads ==
  ASSUME NEW t \in Tasks, NEW pc, Moved(t, pc),
         pc \in {"creditRead", "refundRead", "arm", "reverseDriver", "reverse", "strikeCheck"},
         Reads(task[t]),
         task[t].op \notin {"confirmPayment", "payFailed", "startPreparing", "arriveAtPickup"},
         task[t].op = "driverTimeout" =>
           ~dlv'[task[t].d].confirmed /\ dlv'[task[t].d].status = "FAILED",
         task[t].d # 0 => dlv'[task[t].d].status # "NONE"
  PROVE  Reads(task[t])'
  BY DEF Moved, Reads, OrderRead, DeliveryRead, PaymentRead, PaymentOps, RestoringOps, Created

\* Writing the order alone leaves the rows in order, when it only moves on.
LEMMA SeqRowsKept ==
  ASSUME RowsFollow, TripsApart, UNCHANGED <<dlv, debt>>,
         order'.status \in {"PENDING", "CONFIRMED", "PREPARING"} =>
           order.status \in {"PENDING", "CONFIRMED", "PREPARING"}
  PROVE  RowsFollow' /\ TripsApart'
  BY DEF RowsFollow, TripsApart, OneDelivery, Created

\* The cancellation puts the stock back exactly when it was not back yet.
LEMMA CancelRestoresOnce ==
  ASSUME TypeOK, SeqInv, NEW t \in Tasks, CancelAndRestore(t),
         task[t].op \in RestoringOps, task[t].pc = "commit"
  PROVE  /\ StockRestoredOnce'
         /\ order'.status = "CANCELLED" /\ order'.refund = order.refund /\ order'.pi = order.pi
  <1>1. task[t].restored = order.restored
    BY DEF SeqInv, Reads, OrderRead
  <1>2. order' = [order EXCEPT !.status = "CANCELLED", !.restored = TRUE] /\ order \in OrderType
    BY DEF CancelAndRestore, TypeOK
  <1>3. /\ order'.restored = TRUE /\ order'.status = "CANCELLED"
        /\ order'.refund = order.refund /\ order'.pi = order.pi
    BY <1>2 DEF OrderType
  <1>4. portionsLeft' = IF order.restored THEN portionsLeft ELSE portionsLeft + Quantity
    BY <1>1 DEF CancelAndRestore
  <1>5. StockRestoredOnce'
    BY <1>3, <1>4, BoundsAssumption DEF SeqInv, StockRestoredOnce
  <1> QED BY <1>3, <1>5

\* The refund and the sale agree with Stripe while the order only moves on.
LEMMA SeqSalesKept ==
  ASSUME SalesPaid, UNCHANGED <<stripe, notified>>,
         order'.refund = order.refund, order.pi => order'.pi,
         order.status # "PENDING" => order'.status # "PENDING"
  PROVE  SalesPaid'
  BY DEF SalesPaid

\* Writing the status alone.
LEMMA SetStatusKeeps ==
  ASSUME TypeOK, SeqInv, NEW s, SetStatus(s), UNCHANGED <<portionsLeft, stripe, notified>>,
         s # "PENDING"
  PROVE  order'.status = s /\ StockRestoredOnce' /\ SalesPaid'
  <1>1. /\ order'.status = s /\ order'.restored = order.restored
        /\ order'.refund = order.refund /\ order'.pi = order.pi
    BY DEF TypeOK, OrderType, SetStatus
  <1>2. StockRestoredOnce'
    BY <1>1 DEF SeqInv, StockRestoredOnce
  <1> QED BY <1>1, <1>2, SeqSalesKept DEF SeqInv

\* Payment confirmation and its failure.
LEMMA SeqPayment ==
  ASSUME OneAtATime, IInv, SeqInv, NEW t \in Tasks,
         WriteConfirmed(t) \/ NotifyOrderPaid(t) \/ PaymentFailedCommit(t)
  PROVE  SeqInv'
  <1>0. /\ TypeOK /\ Reads(task[t]) /\ RowsFollow /\ TripsApart /\ SalesPaid /\ StockRestoredOnce
        /\ order \in OrderType
    BY DEF IInv, TypeOK, SeqInv
  <1>1. CASE WriteConfirmed(t)
    <2>0. order.status = "PENDING" => notified = 0
      BY <1>0 DEF SalesPaid, TypeOK
    <2>1. order.status = "PENDING" /\ stripe.paid /\ (task[t].op = "confirmPayment" => order.pi)
      BY <1>0, <1>1 DEF WriteConfirmed, Reads, OrderRead, PaymentRead, PaymentOps
    <2>2. /\ order'.status = "CONFIRMED" /\ order'.refund = order.refund
          /\ order'.restored = order.restored
          /\ order'.pi = (order.pi \/ task[t].op = "paySucceeded")
      BY <1>0, <1>1 DEF WriteConfirmed, OrderType
    <2>3. order'.pi
      BY <1>1, <2>1, <2>2 DEF WriteConfirmed
    <2>4. Moved(t, "notify")
      BY <1>0, <1>1, GotoMoves DEF WriteConfirmed
    <2>5. Reads(task[t])'
      BY <1>0, <1>1, <2>0, <2>1, <2>2, <2>3, <2>4 DEF WriteConfirmed, Moved, Reads, OrderRead,
         DeliveryRead, PaymentRead, PaymentOps, RestoringOps, Created
    <2>6. RowsFollow' /\ TripsApart'
      BY <1>0, <1>1, <2>1, SeqRowsKept DEF WriteConfirmed, money
    <2>7. SalesPaid'
      BY <1>0, <1>1, <2>2, <2>3, SeqSalesKept DEF WriteConfirmed
    <2>8. StockRestoredOnce'
      BY <1>0, <1>1, <2>2 DEF WriteConfirmed, StockRestoredOnce
    <2> QED BY <2>5, <2>6, <2>7, <2>8, SeqWritten
  <1>2. CASE NotifyOrderPaid(t)
    <2>1. order.pi /\ stripe.paid /\ order.status = "CONFIRMED" /\ notified = 0
      BY <1>0, <1>2 DEF NotifyOrderPaid, Reads, PaymentRead
    <2>2. Reads(task[t])'
      BY <1>0, <1>2, DoneMoves, IdleReads DEF NotifyOrderPaid
    <2>3. RowsFollow' /\ TripsApart' /\ StockRestoredOnce'
      BY <1>0, <1>2, SeqRowsKept DEF NotifyOrderPaid, money, StockRestoredOnce
    <2>4. SalesPaid'
      BY <1>0, <1>2, <2>1 DEF NotifyOrderPaid, SalesPaid
    <2> QED BY <2>2, <2>3, <2>4, SeqWritten
  <1>3. CASE PaymentFailedCommit(t)
    <2>1. order.status = "PENDING" /\ task[t].restored = order.restored
      BY <1>0, <1>3 DEF PaymentFailedCommit, At, Reads, OrderRead, RestoringOps
    <2>2. /\ order'.status = "CANCELLED" /\ order'.refund = order.refund
          /\ order'.restored = TRUE /\ order'.pi = TRUE
      BY <1>0, <1>3 DEF PaymentFailedCommit, OrderType
    <2>3. Reads(task[t])'
      BY <1>0, <1>3, DoneMoves, IdleReads DEF PaymentFailedCommit
    <2>4. RowsFollow' /\ TripsApart' /\ SalesPaid'
      BY <1>0, <1>3, <2>2, SeqRowsKept, SeqSalesKept DEF PaymentFailedCommit, money
    <2>5. StockRestoredOnce'
      BY <1>0, <1>3, <2>1, <2>2, BoundsAssumption DEF PaymentFailedCommit, StockRestoredOnce
    <2> QED BY <2>3, <2>4, <2>5, SeqWritten
  <1> QED BY <1>1, <1>2, <1>3

\* The transitions of the order alone: preparing, handover, delivery, no driver.
LEMMA SeqOrder ==
  ASSUME OneAtATime, IInv, SeqInv, NEW t \in Tasks,
         \/ WritePreparing(t) \/ ConfirmPickupWrite(t) \/ WriteOrderDelivered(t)
         \/ WriteNoDriverAvailable(t)
  PROVE  SeqInv'
  <1>0. TypeOK /\ Reads(task[t]) /\ RowsFollow /\ TripsApart
    BY DEF IInv, SeqInv
  <1>1. CASE WritePreparing(t)
    <2>1. order.status = "CONFIRMED"
      BY <1>0, <1>1 DEF WritePreparing, At, Reads, OrderRead
    <2>2. Reads(task[t])'
      BY <1>0, <1>1, DoneMoves, IdleReads DEF WritePreparing
    <2>3. SalesPaid' /\ StockRestoredOnce'
      BY <1>0, <1>1, SetStatusKeeps DEF WritePreparing
    <2>4. RowsFollow' /\ TripsApart'
      BY <1>0, <1>1, <2>1, SeqRowsKept DEF WritePreparing, money
    <2> QED BY <2>2, <2>3, <2>4, SeqWritten
  <1>2. ASSUME NEW s \in {"DELIVERED", "NO_DRIVER_AVAILABLE"}, SetStatus(s),
               NEW pc \in {"creditRead", "arm"}, Goto(t, pc),
               UNCHANGED <<dlv, portionsLeft, stripe, money, notified>>,
               task[t].op \in {"confirmPickup", "confirmDelivery", "noDriverTimeout"}
        PROVE  SeqInv'
    <2>1. Moved(t, pc)
      BY <1>0, <1>2, GotoMoves
    <2>2. Reads(task[t])'
      BY <1>0, <1>2, <2>1, LateReads DEF Reads, DeliveryRead, Created
    <2>3. order'.status = s /\ SalesPaid' /\ StockRestoredOnce'
      BY <1>0, <1>2, SetStatusKeeps
    <2>4. RowsFollow' /\ TripsApart'
      BY <1>0, <1>2, <2>3, SeqRowsKept DEF money
    <2> QED BY <2>2, <2>3, <2>4, SeqWritten
  <1>3. CASE ConfirmPickupWrite(t) \/ WriteOrderDelivered(t) \/ WriteNoDriverAvailable(t)
    BY <1>2, <1>3 DEF ConfirmPickupWrite, WriteOrderDelivered, WriteNoDriverAvailable, At
  <1> QED BY <1>1, <1>3

\* The cancellations: by the seller, for want of the seller or of a driver.
LEMMA SeqCancel ==
  ASSUME OneAtATime, IInv, SeqInv, NEW t \in Tasks,
         \/ CancelAsSellerCommit(t) \/ SellerUnavailableCommit(t)
         \/ SellerCannotProvideCommit(t) \/ CancelNoDriverCommit(t)
  PROVE  SeqInv'
  <1>0. /\ TypeOK /\ Reads(task[t]) /\ RowsFollow /\ TripsApart /\ SalesPaid
        /\ dlv \in [Deliveries -> RowType]
    BY DEF IInv, TypeOK, SeqInv
  <1>1. /\ CancelAndRestore(t) /\ Goto(t, "refundRead")
        /\ task[t].op \in RestoringOps \ {"payFailed"} /\ task[t].pc = "commit"
        /\ UNCHANGED <<stripe, debt, notified>>
    BY DEF CancelAsSellerCommit, SellerUnavailableCommit, SellerCannotProvideCommit,
           CancelNoDriverCommit, At, RestoringOps, money
  <1>2. \/ dlv' = dlv
        \/ SetDelivery(task[t].d, "CANCELLED")
    BY DEF CancelAsSellerCommit, SellerUnavailableCommit, SellerCannotProvideCommit,
           CancelNoDriverCommit
  <1>3. /\ StockRestoredOnce'
        /\ order'.status = "CANCELLED" /\ order'.refund = order.refund /\ order'.pi = order.pi
    BY <1>0, <1>1, CancelRestoresOnce
  <1>4. SalesPaid'
    BY <1>0, <1>1, <1>3, SeqSalesKept
  <1>5. \A d \in Deliveries :
          /\ dlv'[d].driver = dlv[d].driver /\ dlv'[d].picked = dlv[d].picked
          /\ dlv'[d].confirmed = dlv[d].confirmed /\ dlv'[d].unavailable = dlv[d].unavailable
          /\ \/ dlv'[d].status = dlv[d].status
             \/ d = task[t].d /\ dlv'[d].status = "CANCELLED"
    BY <1>0, <1>2 DEF SetDelivery, RowType
  <1>6. task[t].d \in Deliveries => Created(task[t].d)
    BY <1>0 DEF Reads, DeliveryRead, Deliveries
  <1>7. RowsFollow'
    BY <1>0, <1>3, <1>5, <1>6 DEF RowsFollow, OneDelivery, Created
  <1>8. TripsApart'
    BY <1>0, <1>1, <1>5 DEF TripsApart
  <1>9. Moved(t, "refundRead") /\ task[t].d \in 0 .. MaxDeliveries
    BY <1>0, <1>1, GotoMoves DEF TypeOK, TaskType
  <1>10. task[t].d # 0 => task[t].d \in Deliveries
    BY <1>9, BoundsAssumption DEF Deliveries
  <1>11. task[t].d # 0 => dlv'[task[t].d].status # "NONE"
    BY <1>5, <1>6, <1>10 DEF Created
  <1>12. Reads(task[t])'
    BY <1>0, <1>1, <1>9, <1>11, LateReads DEF RestoringOps
  <1> QED BY <1>3, <1>4, <1>7, <1>8, <1>12, SeqWritten

\* The delivery is created when the order becomes ready, in one transaction.
LEMMA SeqReady ==
  ASSUME OneAtATime, IInv, SeqInv, NEW t \in Tasks, MarkReadyCommit(t)
  PROVE  SeqInv'
  <1>0. /\ TypeOK /\ Reads(task[t]) /\ RowsFollow /\ TripsApart /\ CustodyChain
        /\ dlv \in [Deliveries -> RowType]
    BY DEF IInv, TypeOK, SeqInv
  <1>1. order.status = "PREPARING" /\ \A d \in Deliveries : ~Created(d)
    BY <1>0 DEF MarkReadyCommit, At, Reads, OrderRead, RowsFollow
  <1>2. order'.status = "READY" /\ SalesPaid' /\ StockRestoredOnce'
    BY <1>0, SetStatusKeeps DEF MarkReadyCommit
  <1>3. CASE dlv' = dlv /\ Done(t)
    <2>1. Reads(task[t])'
      BY <1>0, <1>3, DoneMoves, IdleReads
    <2>2. RowsFollow' /\ TripsApart'
      BY <1>0, <1>1, <1>2, <1>3, SeqRowsKept DEF MarkReadyCommit, money
    <2> QED BY <1>2, <2>1, <2>2, SeqWritten
  <1>4. ASSUME NEW d \in Deliveries, SetDelivery(d, "SEARCHING"), Goto(t, "arm")
        PROVE  SeqInv'
    <2>1. \A e \in Deliveries :
            /\ dlv'[e].driver = dlv[e].driver /\ dlv'[e].picked = dlv[e].picked
            /\ dlv'[e].confirmed = dlv[e].confirmed
            /\ dlv'[e].unavailable = dlv[e].unavailable
            /\ dlv'[e].status = IF e = d THEN "SEARCHING" ELSE dlv[e].status
      BY <1>0, <1>4 DEF SetDelivery, RowType
    <2>2. RowsFollow'
      BY <1>0, <1>1, <1>2, <2>1 DEF RowsFollow, OneDelivery, Created
    <2>3. TripsApart'
      BY <1>0, <1>1, <2>1 DEF TripsApart, Created, MarkReadyCommit, money
    <2>4. Moved(t, "arm") /\ task[t].op = "markReady" /\ task[t].d \in 0 .. MaxDeliveries
      BY <1>0, <1>4, GotoMoves DEF MarkReadyCommit, At, TypeOK, TaskType
    <2>5. task[t].d # 0 => dlv'[task[t].d].status # "NONE"
      BY <1>0, <1>1, <2>4, BoundsAssumption DEF Reads, DeliveryRead, Deliveries
    <2>6. Reads(task[t])'
      BY <1>0, <2>4, <2>5, LateReads
    <2> QED BY <1>2, <2>2, <2>3, <2>6, SeqWritten
  <1> QED BY <1>3, <1>4 DEF MarkReadyCommit, NextRow

\* The buyer fetches the order after all: the delivery is called off.
LEMMA SeqSwitch ==
  ASSUME OneAtATime, IInv, SeqInv, NEW t \in Tasks, SwitchOrderToPickup(t)
  PROVE  SeqInv'
  <1>0. /\ TypeOK /\ Reads(task[t]) /\ RowsFollow /\ TripsApart /\ SalesPaid /\ StockRestoredOnce
        /\ dlv \in [Deliveries -> RowType] /\ order \in OrderType
    BY DEF IInv, TypeOK, SeqInv
  <1>1. /\ order'.status = "READY" /\ order'.restored = order.restored
        /\ order'.refund = order.refund /\ order'.pi = order.pi
    BY <1>0 DEF SwitchOrderToPickup, OrderType
  <1>2. SalesPaid' /\ StockRestoredOnce'
    BY <1>0, <1>1, SeqSalesKept DEF SwitchOrderToPickup, StockRestoredOnce
  <1>3. \A d \in Deliveries :
          /\ dlv'[d].driver = dlv[d].driver /\ dlv'[d].picked = dlv[d].picked
          /\ dlv'[d].confirmed = dlv[d].confirmed /\ dlv'[d].unavailable = dlv[d].unavailable
          /\ \/ dlv'[d].status = dlv[d].status
             \/ d = task[t].d /\ dlv'[d].status = "CANCELLED"
    BY <1>0 DEF SwitchOrderToPickup, SetDelivery, RowType
  <1>4. task[t].d \in Deliveries => Created(task[t].d)
    BY <1>0 DEF Reads, DeliveryRead, Deliveries
  <1>5. RowsFollow'
    BY <1>0, <1>1, <1>3, <1>4 DEF RowsFollow, OneDelivery, Created
  <1>6. TripsApart'
    BY <1>0, <1>3 DEF TripsApart, SwitchOrderToPickup, money
  <1>7. Reads(task[t])'
    BY <1>0, DoneMoves, IdleReads DEF SwitchOrderToPickup
  <1> QED BY <1>2, <1>5, <1>6, <1>7, SeqWritten

\* A driver handler of this row has found it as it wants it.
LEMMA SeqDriver ==
  ASSUME OneAtATime, IInv, SeqInv, NEW t \in Tasks,
         \/ ClaimUpdate(t) \/ WriteAtPickup(t) \/ DriverPickupCommit(t)
         \/ WriteDelivered(t) \/ WriteSellerUnavailable(t)
  PROVE  SeqInv'
  <1>0. /\ TypeOK /\ Reads(task[t]) /\ RowsFollow /\ TripsApart /\ SalesPaid /\ StockRestoredOnce
        /\ dlv \in [Deliveries -> RowType] /\ order \in OrderType
        /\ RowFacts(task[t]) /\ CustodyChain
    BY DEF IInv, HandlerFacts, TypeOK, SeqInv
  <1>1. task[t].d \in Deliveries /\ Created(task[t].d)
    <2>1. task[t].op \in {"claim", "arriveAtPickup", "driverPickup", "confirmDelivery",
                           "sellerUnavailable"}
      BY DEF ClaimUpdate, WriteAtPickup, DriverPickupCommit, WriteDelivered,
             WriteSellerUnavailable, At
    <2>2. task[t].d \in Deliveries
      BY <2>1 DEF IInv, HandlerRows, DriverOps, DeliveryOps, CallerOps
    <2>3. task[t].d # 0 => Created(task[t].d)
      BY <1>0 DEF Reads, DeliveryRead
    <2> QED BY <2>2, <2>3 DEF Deliveries
  <1>2. UNCHANGED <<portionsLeft, stripe, debt, notified>>
    BY DEF ClaimUpdate, WriteAtPickup, DriverPickupCommit, WriteDelivered,
           WriteSellerUnavailable, money
  <1>3. ASSUME UNCHANGED order
        PROVE  SalesPaid' /\ StockRestoredOnce'
    BY <1>0, <1>2, <1>3 DEF SalesPaid, StockRestoredOnce
  <1>4. CASE ClaimUpdate(t)
    <2>1. Reads(task[t])'
      BY <1>0, <1>4, DoneMoves, IdleReads DEF ClaimUpdate
    <2>2. \A d \in Deliveries :
            /\ dlv'[d].picked = dlv[d].picked
            /\ dlv'[d].confirmed = dlv[d].confirmed /\ dlv'[d].unavailable = dlv[d].unavailable
            /\ \/ dlv'[d].status = dlv[d].status /\ dlv'[d].driver = dlv[d].driver
               \/ /\ d = task[t].d /\ dlv'[d].status = "ASSIGNED"
                  /\ dlv[d].driver = NoDriver /\ dlv[d].status = "SEARCHING"
      BY <1>0, <1>4 DEF ClaimUpdate, RowType
    <2>3. RowsFollow'
      BY <1>0, <1>1, <1>4, <2>2 DEF RowsFollow, OneDelivery, Created, ClaimUpdate
    <2>4. TripsApart'
      BY <1>0, <1>2, <2>2 DEF TripsApart, CustodyChain
    <2> QED BY <1>3, <1>4, <2>1, <2>3, <2>4, SeqWritten DEF ClaimUpdate
  <1>5. CASE WriteAtPickup(t)
    <2>1. Reads(task[t])'
      BY <1>0, <1>5, DoneMoves, IdleReads DEF WriteAtPickup
    <2>2. \A d \in Deliveries :
            /\ dlv'[d].driver = dlv[d].driver /\ dlv'[d].picked = dlv[d].picked
            /\ dlv'[d].confirmed = dlv[d].confirmed /\ dlv'[d].unavailable = dlv[d].unavailable
            /\ dlv'[d].status = IF d = task[t].d THEN "AT_PICKUP" ELSE dlv[d].status
      BY <1>0, <1>5 DEF WriteAtPickup, SetDelivery, RowType
    <2>3. dlv[task[t].d].status = "ASSIGNED"
      BY <1>0, <1>5 DEF WriteAtPickup, At, Reads, DeliveryRead
    <2>4. RowsFollow'
      BY <1>0, <1>1, <1>5, <2>2 DEF RowsFollow, OneDelivery, Created, WriteAtPickup
    <2>5. TripsApart'
      BY <1>0, <1>2, <2>2, <2>3 DEF TripsApart
    <2> QED BY <1>3, <1>5, <2>1, <2>4, <2>5, SeqWritten DEF WriteAtPickup
  <1>6. CASE DriverPickupCommit(t)
    <2>1. \A d \in Deliveries :
            /\ dlv'[d].driver = dlv[d].driver
            /\ dlv'[d].confirmed = dlv[d].confirmed /\ dlv'[d].unavailable = dlv[d].unavailable
            /\ dlv'[d].status = IF d = task[t].d THEN "PICKED_UP" ELSE dlv[d].status
            /\ d # task[t].d => dlv'[d] = dlv[d]
      BY <1>0, <1>1, <1>6 DEF DriverPickupCommit, RowType
    <2>2. dlv[task[t].d].status \in PrePickup
      BY <1>0, <1>6 DEF DriverPickupCommit, At, Reads, DeliveryRead
    <2>3. Moved(t, "arm") /\ task[t].op = "driverPickup"
      BY <1>0, <1>6, GotoMoves DEF DriverPickupCommit, At
    <2>4. Reads(task[t])'
      BY <1>0, <1>1, <2>1, <2>3, LateReads
    <2>5. order'.status = "IN_DELIVERY" /\ SalesPaid' /\ StockRestoredOnce'
      BY <1>0, <1>6, SetStatusKeeps DEF DriverPickupCommit
    <2>6. \A d \in Deliveries : (Created(d)' <=> Created(d))
      BY <1>1, <2>1 DEF Created
    <2>7. RowsFollow'
      BY <1>0, <2>1, <2>5, <2>6 DEF RowsFollow, OneDelivery
    <2>8. ~dlv[task[t].d].unavailable
      BY <1>0, <1>1, <2>2 DEF TripsApart, PrePickup
    <2>9. \A d \in Deliveries :
            dlv'[d].unavailable => dlv'[d].status = "CANCELLED" /\ ~dlv'[d].picked
      <3> TAKE d \in Deliveries
      <3>1. CASE d = task[t].d
        BY <1>1, <2>1, <2>8, <3>1
      <3>2. CASE d # task[t].d
        BY <1>0, <2>1, <3>2 DEF TripsApart
      <3> QED BY <3>1, <3>2
    <2>10. ASSUME NEW drv \in debt'
           PROVE  \E d \in Deliveries :
                    /\ dlv'[d].driver = drv /\ dlv'[d].picked /\ ~dlv'[d].confirmed
                    /\ dlv'[d].status \in {"FAILED", "CANCELLED"}
      <3>1. PICK d \in Deliveries :
              /\ dlv[d].driver = drv /\ dlv[d].picked /\ ~dlv[d].confirmed
              /\ dlv[d].status \in {"FAILED", "CANCELLED"}
        BY <1>0, <1>2, <2>10 DEF TripsApart
      <3>2. d # task[t].d
        BY <2>2, <3>1 DEF PrePickup
      <3> QED BY <2>1, <3>1, <3>2
    <2>11. TripsApart'
      BY <2>9, <2>10 DEF TripsApart
    <2> QED BY <2>4, <2>5, <2>7, <2>11, SeqWritten
  <1>7. CASE WriteDelivered(t)
    <2>1. \A d \in Deliveries :
            /\ dlv'[d].driver = dlv[d].driver /\ dlv'[d].picked = dlv[d].picked
            /\ dlv'[d].unavailable = dlv[d].unavailable
            /\ dlv'[d].status = IF d = task[t].d THEN "DELIVERED" ELSE dlv[d].status
            /\ d # task[t].d => dlv'[d].confirmed = dlv[d].confirmed
      BY <1>0, <1>7 DEF WriteDelivered, RowType
    <2>2. dlv[task[t].d].status = "PICKED_UP"
      BY <1>0, <1>7 DEF WriteDelivered, At, Reads, DeliveryRead
    <2>3. Moved(t, "readOrder") /\ task[t].op = "confirmDelivery"
      BY <1>0, <1>7, GotoMoves DEF WriteDelivered, At
    <2>4. Reads(task[t])'
      BY <1>0, <1>1, <2>1, <2>3 DEF Moved, Reads, OrderRead, DeliveryRead, PaymentRead,
         PaymentOps, RestoringOps, Created
    <2>5. RowsFollow'
      <3>1. \A d \in Deliveries : (Created(d)' <=> Created(d))
        BY <1>1, <2>1 DEF Created
      <3> QED BY <1>0, <1>7, <2>1, <3>1 DEF RowsFollow, OneDelivery, WriteDelivered
    <2>6. TripsApart'
      BY <1>0, <1>2, <2>1, <2>2 DEF TripsApart
    <2> QED BY <1>3, <1>7, <2>4, <2>5, <2>6, SeqWritten DEF WriteDelivered
  <1>8. CASE WriteSellerUnavailable(t)
    <2>1. \A d \in Deliveries :
            /\ dlv'[d].driver = dlv[d].driver /\ dlv'[d].picked = dlv[d].picked
            /\ dlv'[d].confirmed = dlv[d].confirmed
            /\ dlv'[d].status = IF d = task[t].d THEN "CANCELLED" ELSE dlv[d].status
            /\ d # task[t].d => dlv'[d].unavailable = dlv[d].unavailable
      <3>1. dlv' = [dlv EXCEPT ![task[t].d] =
                      [dlv[task[t].d] EXCEPT !.status = "CANCELLED", !.unavailable = TRUE]]
        BY <1>0, <1>1, <1>8 DEF WriteSellerUnavailable, RowType
      <3> QED BY <1>0, <1>1, <3>1 DEF RowType
    <2>2. ~dlv[task[t].d].picked
      BY <1>0, <1>8 DEF WriteSellerUnavailable, At, Reads, DeliveryRead
    <2>3. Moved(t, "readOrder") /\ task[t].op = "sellerUnavailable"
      BY <1>0, <1>8, GotoMoves DEF WriteSellerUnavailable, At
    <2>4. Reads(task[t])'
      BY <1>0, <1>1, <2>1, <2>3 DEF Moved, Reads, OrderRead, DeliveryRead, PaymentRead,
         PaymentOps, RestoringOps, Created
    <2>5. RowsFollow'
      BY <1>0, <1>1, <1>8, <2>1 DEF RowsFollow, OneDelivery, Created, WriteSellerUnavailable
    <2>6. TripsApart'
      BY <1>0, <1>2, <2>1, <2>2 DEF TripsApart
    <2> QED BY <1>3, <1>8, <2>4, <2>5, <2>6, SeqWritten DEF WriteSellerUnavailable
  <1> QED BY <1>4, <1>5, <1>6, <1>7, <1>8

\* The driver has disappeared with the food, and owes the buyer's refund.
LEMMA SeqLoss ==
  ASSUME OneAtATime, IInv, SeqInv, NEW t \in Tasks,
         ResolveDriverDisappeared(t) \/ RecordDriverDebt(t)
  PROVE  SeqInv'
  <1>0. /\ TypeOK /\ Reads(task[t]) /\ RowsFollow /\ TripsApart /\ SalesPaid /\ StockRestoredOnce
        /\ dlv \in [Deliveries -> RowType]
        /\ RowFacts(task[t]) /\ ProgressFacts(task[t])
    BY DEF IInv, HandlerFacts, TypeOK, SeqInv
  <1>1. task[t].op = "driverTimeout" /\ task[t].d \in Deliveries /\ Created(task[t].d)
    BY <1>0 DEF IInv, HandlerRows, DriverOps, DeliveryOps, CallerOps, ResolveDriverDisappeared,
       RecordDriverDebt, At, Reads, DeliveryRead, Deliveries
  <1>2. dlv[task[t].d].picked /\ ~dlv[task[t].d].confirmed /\ task[t].drv = dlv[task[t].d].driver
    BY <1>0, <1>1 DEF RowFacts, ProgressFacts, DeliveryOps, CallerOps, Reads, DeliveryRead
  <1>3. CASE ResolveDriverDisappeared(t)
    <2>1. \A d \in Deliveries :
            /\ dlv'[d].driver = dlv[d].driver /\ dlv'[d].picked = dlv[d].picked
            /\ dlv'[d].confirmed = dlv[d].confirmed /\ dlv'[d].unavailable = dlv[d].unavailable
            /\ dlv'[d].status = IF d = task[t].d THEN "FAILED" ELSE dlv[d].status
      BY <1>0, <1>3 DEF ResolveDriverDisappeared, SetDelivery, RowType
    <2>2. order'.status = "CANCELLED" /\ SalesPaid' /\ StockRestoredOnce'
      BY <1>0, <1>3, SetStatusKeeps DEF ResolveDriverDisappeared
    <2>3. Moved(t, "reverseDriver")
      BY <1>0, <1>3, GotoMoves DEF ResolveDriverDisappeared
    <2>4. Reads(task[t])'
      BY <1>0, <1>1, <1>2, <2>1, <2>3, LateReads
    <2>5. RowsFollow'
      BY <1>0, <1>1, <2>1, <2>2 DEF RowsFollow, OneDelivery, Created
    <2>6. TripsApart'
      BY <1>0, <1>2, <1>3, <2>1 DEF TripsApart, ResolveDriverDisappeared, money
    <2> QED BY <2>2, <2>4, <2>5, <2>6, SeqWritten
  <1>4. CASE RecordDriverDebt(t)
    <2>1. dlv[task[t].d].status = "FAILED"
      BY <1>0, <1>1, <1>4 DEF RecordDriverDebt, At, Reads, DeliveryRead
    <2>2. Moved(t, "strikeCheck")
      BY <1>0, <1>4, GotoMoves DEF RecordDriverDebt
    <2>3. Reads(task[t])'
      BY <1>0, <1>1, <1>2, <1>4, <2>1, <2>2, LateReads DEF RecordDriverDebt, Created
    <2>4. RowsFollow' /\ SalesPaid' /\ StockRestoredOnce'
      BY <1>0, <1>4 DEF RecordDriverDebt, RowsFollow, OneDelivery, Created, SalesPaid,
         StockRestoredOnce
    <2>5. debt' \subseteq debt \cup {dlv[task[t].d].driver} /\ dlv' = dlv
      BY <1>2, <1>4 DEF RecordDriverDebt
    <2>6. TripsApart'
      BY <1>0, <1>1, <1>2, <2>1, <2>5 DEF TripsApart
    <2> QED BY <2>3, <2>4, <2>6, SeqWritten
  <1> QED BY <1>3, <1>4

\* The refund is made, then recorded on the order.
LEMMA SeqRefund ==
  ASSUME OneAtATime, IInv, SeqInv, NEW t \in Tasks, RefundCreate(t) \/ RefundRecord(t)
  PROVE  SeqInv'
  <1>0. /\ TypeOK /\ Reads(task[t]) /\ RowsFollow /\ TripsApart /\ SalesPaid /\ StockRestoredOnce
        /\ order \in OrderType /\ stripe \in StripeType
    BY DEF IInv, TypeOK, SeqInv
  <1>1. task[t].op = "driverTimeout" => dlv[task[t].d].status = "FAILED"
    BY <1>0 DEF RefundCreate, RefundRecord, Reads, DeliveryRead
  <1>2. CASE RefundCreate(t)
    <2>1. RowsFollow' /\ TripsApart' /\ StockRestoredOnce'
      BY <1>0, <1>2, SeqRowsKept DEF RefundCreate, money, StockRestoredOnce
    <2>2. CASE stripe' = [stripe EXCEPT !.refunded = TRUE] /\ Goto(t, "refundRecord")
      <3>1. stripe'.refunded /\ stripe'.paid = stripe.paid
        BY <1>0, <2>2 DEF StripeType
      <3>2. Moved(t, "refundRecord")
        BY <1>0, <2>2, GotoMoves
      <3>3. Reads(task[t])'
        BY <1>0, <1>1, <1>2, <3>1, <3>2, MovedReads DEF RefundCreate
      <3>4. SalesPaid'
        BY <1>0, <1>2, <3>1 DEF RefundCreate, SalesPaid
      <3> QED BY <2>1, <3>3, <3>4, SeqWritten
    <2>3. CASE AfterRefund(t) /\ UNCHANGED stripe
      <3>1. Reads(task[t])'
        BY <1>0, <1>1, <1>2, <2>3, AfterReads DEF RefundCreate
      <3>2. SalesPaid'
        BY <1>0, <1>2, <2>3 DEF RefundCreate, SalesPaid
      <3> QED BY <2>1, <3>1, <3>2, SeqWritten
    <2> QED BY <1>2, <2>2, <2>3 DEF RefundCreate
  <1>3. CASE RefundRecord(t)
    <2>1. stripe.refunded
      BY <1>0, <1>3 DEF RefundRecord, Reads, PaymentRead
    <2>2. /\ order'.status = order.status /\ order'.pi = order.pi
          /\ order'.restored = order.restored
      BY <1>0, <1>3 DEF RefundRecord, OrderType
    <2>3. Moved(t, "reverse")
      BY <1>0, <1>3, GotoMoves DEF RefundRecord
    <2>4. Reads(task[t])'
      BY <1>0, <1>1, <1>3, <2>2, <2>3 DEF RefundRecord, Moved, Reads, OrderRead, DeliveryRead,
         PaymentRead, PaymentOps, RestoringOps, Created
    <2>5. RowsFollow' /\ TripsApart' /\ StockRestoredOnce'
      BY <1>0, <1>3, <2>2, SeqRowsKept DEF RefundRecord, money, StockRestoredOnce
    <2>6. SalesPaid'
      BY <1>0, <1>3, <2>1, <2>2 DEF RefundRecord, SalesPaid
    <2> QED BY <2>4, <2>5, <2>6, SeqWritten
  <1> QED BY <1>2, <1>3

\* Every step of a handler keeps what the handler alone has read.
LEMMA SeqStep ==
  ASSUME OneAtATime, IInv, SeqInv, NEW t \in Tasks, Step(t)
  PROVE  SeqInv'
  BY SeqReading, SeqPayment, SeqOrder, SeqCancel, SeqReady, SeqSwitch, SeqDriver, SeqLoss,
     SeqRefund DEF Step

\* The buyer, Stripe and a failure leave it, or end the handler.
LEMMA SeqNext == OneAtATime /\ IInv /\ SeqInv /\ [Next]_vars => SeqInv'
  <1> SUFFICES ASSUME OneAtATime, IInv, SeqInv, [Next]_vars PROVE SeqInv'
    OBVIOUS
  <1>0. TypeOK /\ stripe \in StripeType
    BY DEF IInv, TypeOK
  <1>1. CASE UNCHANGED vars
    BY <1>1 DEF vars, SeqInv, Reads, OrderRead, DeliveryRead, PaymentRead, RowsFollow,
       OneDelivery, Created, TripsApart, SalesPaid, StockRestoredOnce
  <1>2. CASE BuyerPays \/ CardDeclined
    <2>1. /\ UNCHANGED <<order, dlv, portionsLeft, debt, notified, task>>
          /\ stripe.paid => stripe'.paid
          /\ stripe'.refunded = stripe.refunded
      BY <1>0, <1>2 DEF BuyerPays, CardDeclined, StripeType, money
    <2>2. ASSUME NEW t \in Tasks
          PROVE  Reads(task[t])'
      BY <2>1, <2>2 DEF SeqInv, Reads, OrderRead, DeliveryRead, PaymentRead, Created
    <2>3. RowsFollow' /\ TripsApart' /\ SalesPaid' /\ StockRestoredOnce'
      BY <2>1 DEF SeqInv, RowsFollow, OneDelivery, Created, TripsApart, SalesPaid,
         StockRestoredOnce
    <2> QED BY <2>2, <2>3 DEF SeqInv
  <1>3. ASSUME NEW t \in Tasks, Abort(t)
        PROVE  SeqInv'
    <2>1. UNCHANGED Books /\ Done(t)
      BY <1>3 DEF Abort, Books, money
    <2>2. Reads(task[t])'
      BY <1>0, <2>1, DoneMoves, IdleReads
    <2> QED BY <2>1, <2>2, SeqQuiet
  <1>4. ASSUME NEW p \in Procs, Crash(p)
        PROVE  SeqInv'
    <2>1. UNCHANGED Books
      BY <1>4 DEF Crash, Books, money
    <2>2. ASSUME NEW t \in Tasks
          PROVE  Reads(task[t])'
      <3>1. task'[t] = Idle \/ task'[t] = task[t]
        BY <1>4 DEF Crash
      <3>2. CASE task'[t] = task[t]
        BY <2>1, <3>2 DEF SeqInv, Books, Reads, OrderRead, DeliveryRead, PaymentRead, Created
      <3> QED BY <3>1, <3>2, IdleReads
    <2>3. RowsFollow' /\ TripsApart' /\ SalesPaid' /\ StockRestoredOnce'
      BY <2>1 DEF SeqInv, Books, RowsFollow, OneDelivery, Created, TripsApart, SalesPaid,
         StockRestoredOnce
    <2> QED BY <2>2, <2>3 DEF SeqInv
  <1> QED BY <1>1, <1>2, <1>3, <1>4, SeqStep, SeqRequest, SeqBackground DEF Next

\* An order that createOrder has just committed has nothing to be read yet.
LEMMA SeqInit == Init => SeqInv
  <1> SUFFICES ASSUME Init PROVE SeqInv
    OBVIOUS
  <1>1. ASSUME NEW t \in Tasks
        PROVE  Reads(task[t])
    BY DEF Init, Idle, Reads, OrderRead, DeliveryRead, PaymentRead, PaymentOps, RestoringOps
  <1>2. RowsFollow /\ TripsApart
    BY DEF Init, NoRow, RowsFollow, OneDelivery, Created, TripsApart
  <1>3. order.restored = FALSE /\ order.refund = FALSE
    BY DEF Init
  <1>4. SalesPaid
    BY <1>3 DEF Init, SalesPaid
  <1>5. StockRestoredOnce
    BY <1>3, BoundsAssumption DEF Init, StockRestoredOnce
  <1> QED BY <1>1, <1>2, <1>4, <1>5 DEF SeqInv

\* With one handler at a time nothing that was read goes stale.
LEMMA SeqHolds ==
  ASSUME OneAtATime
  PROVE  Spec => [](IInv /\ SeqInv)
  <1>1. IInv /\ SeqInv /\ [Next]_vars => (IInv /\ SeqInv)'
    BY SeqNext, InvNext
  <1> QED BY <1>1, SeqInit, InvInit, PTL DEF Spec

\* cancelAsSeller, cancelForSellerUnavailable, cancelNoDriverOrder and
\* handlePaymentIntentFailed put the stock back at most once, and exactly when
\* inventoryRestored says so, whatever fails or crashes between two statements:
\* only two handlers of one order that overlap can put it back twice.
THEOREM StockGoesBackOnce ==
  ASSUME OneAtATime
  PROVE  Spec => []StockRestoredOnce
  BY SeqHolds, PTL DEF SeqInv

\* markReady creates at most one delivery for the order: only two overlapping
\* markReady calls send out two drivers.
THEOREM OneDriverIsSentOut ==
  ASSUME OneAtATime
  PROVE  Spec => []OneDelivery
  BY SeqHolds, PTL DEF SeqInv, RowsFollow

\* handleDriverDeliveryTimeout "does NOT pay the driver", whatever fails: the
\* driver who owes for lost food has no earning on the order, because the only
\* delivery of the order is the lost one, and it was neither proven delivered
\* nor reported as the seller's fault.
THEOREM LostFoodIsNotPaid ==
  ASSUME OneAtATime
  PROVE  Spec => []DisappearedDriverNotPaid
  <1>1. IInv /\ SeqInv => DisappearedDriverNotPaid
    <2> SUFFICES ASSUME IInv, SeqInv, NEW drv \in debt, earning[drv] # "none"
                 PROVE  FALSE
      BY DEF DisappearedDriverNotPaid
    <2>1. drv \in Drivers /\ drv # NoDriver
      BY DriversAssumption DEF IInv, TypeOK
    <2>2. PICK d \in Deliveries :
            /\ dlv[d].driver = drv /\ dlv[d].picked /\ ~dlv[d].confirmed
      BY DEF SeqInv, TripsApart
    <2>3. PICK e \in Deliveries :
            dlv[e].driver = drv /\ (dlv[e].confirmed \/ dlv[e].unavailable)
      BY <2>1 DEF IInv, DriverPaidOnlyForOwnTrip
    <2>4. d = e
      BY <2>1, <2>2, <2>3 DEF SeqInv, RowsFollow, OneDelivery
    <2>5. dlv[d].unavailable
      BY <2>2, <2>3, <2>4
    <2> QED BY <2>2, <2>5 DEF SeqInv, TripsApart
  <1> QED BY <1>1, SeqHolds, PTL

\* The push of confirmPaymentForBuyer and of the payment webhook goes out at
\* most once: only an overlap of the two tells the seller twice.
THEOREM SellerHearsOnce ==
  ASSUME OneAtATime
  PROVE  Spec => []SellerNotifiedOnce
  BY SeqHolds, PTL DEF SeqInv, SalesPaid, SellerNotifiedOnce

-----------------------------------------------------------------------------
(* The refund of a cancelled sale *)

\* No process dies, no statement of the database fails, and Stripe answers.
NothingFails == Faults \cap {"crash", "db", "stripe"} = {}

\* A request or a watchdog takes a free slot.
LEMMA BusySlot ==
  ASSUME NEW t \in Tasks, task[t] # Idle
  PROVE  ~Request(t) /\ ~Background(t)
  BY DEF Request, ConfirmPaymentForBuyer, HandlePaymentIntentSucceeded,
         HandlePaymentIntentFailed, StartPreparing, MarkReady, ConfirmPickup, CancelAsSeller,
         SellerCannotProvide, Claim, ArriveAtPickup, DriverConfirmPickup, ConfirmDelivery,
         ReportSellerUnavailable, DecideNoDriver, Begin, BeginOn, Background,
         HandleNoDriverTimeout, AutoCancelNoResponse, HandleDriverDeliveryTimeout,
         ReleaseDuePendingEntries

\* From the commit of the cancellation on, the handler goes on to the refund.
LEMMA RefundGoesOn ==
  ASSUME OneAtATime, NothingFails, IInv, SeqInv, RefundOnItsWay, [Next]_vars,
         order.status = "CANCELLED", notified > 0, ~stripe.refunded, ~stripe'.refunded
  PROVE  RefundOnItsWay'
  <1>0. TypeOK
    BY DEF IInv
  <1>1. PICK t \in Tasks : task[t].pc \in {"reverseDriver", "refundRead", "refundCreate"}
    BY DEF RefundOnItsWay
  <1>2. task[t] # Idle /\ \A u \in Tasks : u = t
    BY <1>1 DEF Idle, OneAtATime
  <1>3. order.pi /\ stripe.paid /\ ~order.refund
    BY DEF SeqInv, SalesPaid
  <1>4. CASE UNCHANGED task
    BY <1>1, <1>4 DEF RefundOnItsWay
  <1>5. ASSUME NEW pc \in {"reverseDriver", "refundRead", "refundCreate"}, Goto(t, pc)
        PROVE  RefundOnItsWay'
    BY <1>0, <1>5, GotoMoves DEF Moved, RefundOnItsWay
  <1>6. CASE Step(t)
    <2>1. ReverseDriverEarning(t) \/ RefundRead(t) \/ RefundCreate(t)
      BY <1>1, <1>6 DEF Step, IsPaymentSucceeded, WriteConfirmed, NotifyOrderPaid,
         PaymentFailedRead, PaymentFailedCommit, WritePreparing, MarkReadyCommit,
         ScheduleNoDriverTimeout, ConfirmPickupWrite, CancelAsSellerRead, CancelAsSellerCommit,
         SellerCannotProvideCommit, ClaimUpdate, WriteAtPickup, DriverPickupCommit,
         ScheduleDriverDeliveryTimeout, WriteDelivered, ConfirmDeliveredByDriver,
         WriteOrderDelivered, SellerUnavailableCheckOrder, WriteSellerUnavailable,
         CancelForSellerUnavailable, SellerUnavailableCommit, CompensateDriver,
         WriteNoDriverAvailable, ScheduleNoDriverResponseTimeout, SwitchOrderToPickup,
         CancelNoDriverRead, CancelNoDriverCommit, DriverTimeoutReadOrder,
         ResolveDriverDisappeared, CreditSellerEarning, RecordDriverDebt, RefundRecord,
         ReversePendingEntries, CreditForCompletedOrderRead, CreditForCompletedOrder,
         SweepReadOrder, SweepWrite, AddStrikeCheck, AddStrikeCreate, ImmediateExclude, At
    <2>2. CASE ReverseDriverEarning(t)
      BY <1>5, <2>2 DEF ReverseDriverEarning
    <2>3. CASE RefundRead(t)
      BY <1>3, <1>5, <2>3 DEF RefundRead
    <2>4. CASE RefundCreate(t)
      <3>1. stripe' = [stripe EXCEPT !.refunded = TRUE]
        BY <1>3, <2>4 DEF RefundCreate, NothingFails
      <3> QED BY <1>0, <3>1 DEF TypeOK, StripeType
    <2> QED BY <2>1, <2>2, <2>3, <2>4
  <1>7. ~Request(t) /\ ~Background(t)
    BY <1>2, BusySlot
  <1>8. ~Abort(t) /\ \A p \in Procs : ~Crash(p)
    BY DEF NothingFails, Abort, Crash
  <1> QED BY <1>2, <1>4, <1>6, <1>7, <1>8 DEF Next, BuyerPays, CardDeclined, vars

\* A cancellation of an order the seller was told about goes on to the refund.
LEMMA RefundBegins ==
  ASSUME OneAtATime, IInv, SeqInv, [Next]_vars,
         ~(order.status = "CANCELLED" /\ notified > 0),
         order'.status = "CANCELLED", notified' > 0
  PROVE  RefundOnItsWay'
  <1>0. TypeOK /\ order \in OrderType
    BY DEF IInv, TypeOK
  <1>1. CASE UNCHANGED <<order, notified>>
    BY <1>1
  <1>2. ASSUME NEW t \in Tasks, NEW pc \in {"reverseDriver", "refundRead"}, Goto(t, pc)
        PROVE  RefundOnItsWay'
    BY <1>0, <1>2, GotoMoves DEF Moved, RefundOnItsWay
  <1>3. ASSUME NEW s, SetStatus(s)
        PROVE  order'.status = s
    BY <1>0, <1>3 DEF SetStatus, OrderType
  <1>4. ASSUME NEW t \in Tasks, Step(t), ~UNCHANGED <<order, notified>>
        PROVE  RefundOnItsWay'
    <2>1. Reads(task[t])
      BY DEF SeqInv
    <2>2. ~WriteConfirmed(t)
      BY <1>0 DEF WriteConfirmed, OrderType
    <2>3. ~NotifyOrderPaid(t)
      BY <2>1 DEF NotifyOrderPaid, Reads, PaymentRead
    <2>4. ~PaymentFailedCommit(t)
      BY <2>1 DEF PaymentFailedCommit, At, Reads, OrderRead, SeqInv, SalesPaid
    <2>5. ~RefundRecord(t)
      <3>1. ASSUME RefundRecord(t) PROVE order'.status = order.status /\ notified' = notified
        BY <1>0, <3>1 DEF RefundRecord, OrderType
      <3> QED BY <3>1
    <2>6. ~SwitchOrderToPickup(t)
      BY <1>0 DEF SwitchOrderToPickup, OrderType
    <2>7. /\ ~WritePreparing(t) /\ ~MarkReadyCommit(t) /\ ~ConfirmPickupWrite(t)
          /\ ~DriverPickupCommit(t) /\ ~WriteOrderDelivered(t) /\ ~WriteNoDriverAvailable(t)
      BY <1>3 DEF WritePreparing, MarkReadyCommit, ConfirmPickupWrite, DriverPickupCommit,
         WriteOrderDelivered, WriteNoDriverAvailable
    <2>8. \/ CancelAsSellerCommit(t) \/ SellerCannotProvideCommit(t)
          \/ SellerUnavailableCommit(t) \/ CancelNoDriverCommit(t)
          \/ ResolveDriverDisappeared(t)
      BY <1>4, <2>2, <2>3, <2>4, <2>5, <2>6, <2>7 DEF Step, IsPaymentSucceeded,
         PaymentFailedRead, ScheduleNoDriverTimeout, CancelAsSellerRead, ClaimUpdate,
         WriteAtPickup, ScheduleDriverDeliveryTimeout, WriteDelivered, ConfirmDeliveredByDriver,
         SellerUnavailableCheckOrder, WriteSellerUnavailable, CancelForSellerUnavailable,
         CompensateDriver, ScheduleNoDriverResponseTimeout, CancelNoDriverRead,
         DriverTimeoutReadOrder, ReverseDriverEarning, CreditSellerEarning, RecordDriverDebt,
         RefundRead, RefundCreate, ReversePendingEntries, CreditForCompletedOrderRead,
         CreditForCompletedOrder, SweepReadOrder, SweepWrite, AddStrikeCheck, AddStrikeCreate,
         ImmediateExclude
    <2> QED BY <1>2, <2>8 DEF CancelAsSellerCommit, SellerCannotProvideCommit,
          SellerUnavailableCommit, CancelNoDriverCommit, ResolveDriverDisappeared
  <1> QED BY <1>1, <1>4, BeginningIsQuiet DEF Next, BuyerPays, CardDeclined, Abort, Crash, vars

\* A handler writes to Stripe in one place only.
LEMMA OnlyRefundCreate ==
  ASSUME NEW t \in Tasks, Step(t), ~RefundCreate(t)
  PROVE  stripe' = stripe
  BY DEF Step,
         IsPaymentSucceeded, WriteConfirmed, NotifyOrderPaid, PaymentFailedRead,
         PaymentFailedCommit, WritePreparing, MarkReadyCommit, ScheduleNoDriverTimeout,
         ConfirmPickupWrite, CancelAsSellerRead, CancelAsSellerCommit,
         SellerCannotProvideCommit, ClaimUpdate, WriteAtPickup, DriverPickupCommit,
         ScheduleDriverDeliveryTimeout, WriteDelivered, ConfirmDeliveredByDriver,
         WriteOrderDelivered, SellerUnavailableCheckOrder, WriteSellerUnavailable,
         CancelForSellerUnavailable, SellerUnavailableCommit, CompensateDriver,
         WriteNoDriverAvailable, ScheduleNoDriverResponseTimeout, SwitchOrderToPickup,
         CancelNoDriverRead, CancelNoDriverCommit, DriverTimeoutReadOrder,
         ResolveDriverDisappeared, ReverseDriverEarning, CreditSellerEarning, RecordDriverDebt,
         RefundRead, RefundRecord, ReversePendingEntries,
         CreditForCompletedOrderRead, CreditForCompletedOrder, SweepReadOrder, SweepWrite,
         AddStrikeCheck, AddStrikeCreate, ImmediateExclude

\* A charge that was given back stays given back.
LEMMA RefundStays ==
  ASSUME TypeOK, [Next]_vars, stripe.refunded
  PROVE  stripe'.refunded
  <1>1. CASE UNCHANGED stripe
    BY <1>1
  <1>2. CASE \/ stripe' = [stripe EXCEPT !.refunded = TRUE]
             \/ stripe' = [stripe EXCEPT !.paid = TRUE]
             \/ stripe' = [stripe EXCEPT !.declined = TRUE]
    BY <1>2 DEF TypeOK, StripeType
  <1> QED BY <1>1, <1>2, BeginningIsQuiet, OnlyRefundCreate DEF RefundCreate, Next, BuyerPays, CardDeclined, Abort,
       Crash, vars

\* When nothing but the queue may fail, an order the seller was told about and
\* that one of the five paths has cancelled is refunded by the time its handler
\* returns: each of them goes through refundOrderIfNeeded, and none returns
\* early, because the sale was charged under the PaymentIntent of the order.
THEOREM CancelledSalesAreRefunded ==
  ASSUME OneAtATime, NothingFails
  PROVE  Spec => []CancelledSaleIsRefunded
  <1>1. Init => RefundOnItsWay
    BY DEF Init, RefundOnItsWay
  <1>2. IInv /\ SeqInv /\ RefundOnItsWay /\ [Next]_vars => RefundOnItsWay'
    <2> SUFFICES ASSUME IInv, SeqInv, RefundOnItsWay, [Next]_vars
                 PROVE  RefundOnItsWay'
      OBVIOUS
    <2>1. CASE stripe'.refunded \/ order'.status # "CANCELLED" \/ ~(notified' > 0)
      BY <2>1 DEF RefundOnItsWay
    <2>2. CASE ~stripe'.refunded /\ order'.status = "CANCELLED" /\ notified' > 0
      BY <2>2, RefundGoesOn, RefundBegins, RefundStays DEF IInv
    <2> QED BY <2>1, <2>2
  <1>3. IInv /\ RefundOnItsWay => CancelledSaleIsRefunded
    BY DEF RefundOnItsWay, CancelledSaleIsRefunded, AllIdle, Idle
  <1> QED BY <1>1, <1>2, <1>3, SeqHolds, PTL DEF Spec

\* The refund id on the order is never taken off again.
LEMMA RecordStays ==
  ASSUME TypeOK, [Next]_vars, order.refund
  PROVE  order'.refund
  <1>0. order \in OrderType
    BY DEF TypeOK
  <1>1. CASE UNCHANGED order
    BY <1>1
  <1>2. ASSUME NEW t \in Tasks, Step(t), ~UNCHANGED order
        PROVE  order'.refund
    <2>1. CASE \E s : SetStatus(s)
      BY <1>0, <2>1 DEF SetStatus, OrderType
    <2>2. CASE CancelAndRestore(t)
      BY <1>0, <2>2 DEF CancelAndRestore, OrderType
    <2>3. CASE WriteConfirmed(t)
      BY <1>0, <2>3 DEF WriteConfirmed, OrderType
    <2>4. CASE PaymentFailedCommit(t)
      BY <1>0, <2>4 DEF PaymentFailedCommit, OrderType
    <2>5. CASE SwitchOrderToPickup(t)
      BY <1>0, <2>5 DEF SwitchOrderToPickup, OrderType
    <2>6. CASE RefundRecord(t)
      BY <1>0, <2>6 DEF RefundRecord, OrderType
    <2> QED BY <1>2, <2>1, <2>2, <2>3, <2>4, <2>5, <2>6 DEF Step,
         IsPaymentSucceeded, WriteConfirmed, NotifyOrderPaid, PaymentFailedRead,
         PaymentFailedCommit, WritePreparing, MarkReadyCommit, ScheduleNoDriverTimeout,
         ConfirmPickupWrite, CancelAsSellerRead, CancelAsSellerCommit,
         SellerCannotProvideCommit, ClaimUpdate, WriteAtPickup, DriverPickupCommit,
         ScheduleDriverDeliveryTimeout, WriteDelivered, ConfirmDeliveredByDriver,
         WriteOrderDelivered, SellerUnavailableCheckOrder, WriteSellerUnavailable,
         CancelForSellerUnavailable, SellerUnavailableCommit, CompensateDriver,
         WriteNoDriverAvailable, ScheduleNoDriverResponseTimeout, SwitchOrderToPickup,
         CancelNoDriverRead, CancelNoDriverCommit, DriverTimeoutReadOrder,
         ResolveDriverDisappeared, ReverseDriverEarning, CreditSellerEarning, RecordDriverDebt,
         RefundRead, RefundCreate, RefundRecord, ReversePendingEntries,
         CreditForCompletedOrderRead, CreditForCompletedOrder, SweepReadOrder, SweepWrite,
         AddStrikeCheck, AddStrikeCreate, ImmediateExclude
  <1> QED BY <1>1, <1>2, BeginningIsQuiet DEF Next, BuyerPays, CardDeclined, Abort, Crash, vars

\* Between the refund and its record the handler makes no other step.
LEMMA RecordGoesOn ==
  ASSUME OneAtATime, NothingFails, IInv, SeqInv, RecordOnItsWay, [Next]_vars,
         stripe.refunded, ~order.refund
  PROVE  RecordOnItsWay'
  <1>0. TypeOK /\ order \in OrderType
    BY DEF IInv, TypeOK
  <1>1. PICK t \in Tasks : task[t].pc = "refundRecord"
    BY DEF RecordOnItsWay
  <1>2. task[t] # Idle /\ \A u \in Tasks : u = t
    BY <1>1 DEF Idle, OneAtATime
  <1>3. CASE UNCHANGED task
    BY <1>1, <1>3 DEF RecordOnItsWay
  <1>4. CASE Step(t)
    <2>1. RefundRecord(t)
      BY <1>1, <1>4 DEF Step, At,
         IsPaymentSucceeded, WriteConfirmed, NotifyOrderPaid, PaymentFailedRead,
         PaymentFailedCommit, WritePreparing, MarkReadyCommit, ScheduleNoDriverTimeout,
         ConfirmPickupWrite, CancelAsSellerRead, CancelAsSellerCommit,
         SellerCannotProvideCommit, ClaimUpdate, WriteAtPickup, DriverPickupCommit,
         ScheduleDriverDeliveryTimeout, WriteDelivered, ConfirmDeliveredByDriver,
         WriteOrderDelivered, SellerUnavailableCheckOrder, WriteSellerUnavailable,
         CancelForSellerUnavailable, SellerUnavailableCommit, CompensateDriver,
         WriteNoDriverAvailable, ScheduleNoDriverResponseTimeout, SwitchOrderToPickup,
         CancelNoDriverRead, CancelNoDriverCommit, DriverTimeoutReadOrder,
         ResolveDriverDisappeared, ReverseDriverEarning, CreditSellerEarning, RecordDriverDebt,
         RefundRead, RefundCreate, RefundRecord, ReversePendingEntries,
         CreditForCompletedOrderRead, CreditForCompletedOrder, SweepReadOrder, SweepWrite,
         AddStrikeCheck, AddStrikeCreate, ImmediateExclude
    <2>2. order' = [order EXCEPT !.refund = TRUE]
      BY <2>1 DEF RefundRecord, NothingFails
    <2> QED BY <1>0, <2>2 DEF OrderType, RecordOnItsWay
  <1>5. ~Request(t) /\ ~Background(t)
    BY <1>2, BusySlot
  <1>6. ~Abort(t) /\ \A p \in Procs : ~Crash(p)
    BY DEF NothingFails, Abort, Crash
  <1> QED BY <1>2, <1>3, <1>4, <1>5, <1>6 DEF Next, BuyerPays, CardDeclined, vars

\* refundOrderIfNeeded keeps the order in step with Stripe: when nothing but the
\* queue may fail, the order says it was refunded exactly when it was, whenever
\* no handler is running.
THEOREM BooksAgree ==
  ASSUME OneAtATime, NothingFails
  PROVE  Spec => []RefundBooksAgree
  <1>1. Init => RecordOnItsWay
    BY DEF Init, RecordOnItsWay
  <1>2. IInv /\ SeqInv /\ RecordOnItsWay /\ [Next]_vars => RecordOnItsWay'
    <2> SUFFICES ASSUME IInv, SeqInv, RecordOnItsWay, [Next]_vars
                 PROVE  RecordOnItsWay'
      OBVIOUS
    <2>0. TypeOK
      BY DEF IInv
    <2>1. CASE order.refund
      BY <2>0, <2>1, RecordStays DEF RecordOnItsWay
    <2>2. CASE stripe.refunded /\ ~order.refund
      BY <2>2, RecordGoesOn
    <2>3. CASE ~stripe.refunded
      <3>1. CASE stripe'.refunded = stripe.refunded
        BY <2>3, <3>1 DEF RecordOnItsWay
      <3>2. ASSUME NEW t \in Tasks, RefundCreate(t)
            PROVE  RecordOnItsWay'
        <4>1. CASE Goto(t, "refundRecord")
          BY <2>0, <4>1, GotoMoves DEF Moved, RecordOnItsWay
        <4> QED BY <3>1, <3>2, <4>1 DEF RefundCreate
      <3>3. ASSUME NEW t \in Tasks, Step(t), ~RefundCreate(t)
            PROVE  stripe' = stripe
        BY <3>3, OnlyRefundCreate
      <3>4. CASE BuyerPays \/ CardDeclined
        BY <2>0, <3>1, <3>4 DEF BuyerPays, CardDeclined, TypeOK, StripeType
      <3> QED BY <3>1, <3>2, <3>3, <3>4, BeginningIsQuiet DEF Next, Abort, Crash, vars
    <2> QED BY <2>1, <2>2, <2>3
  <1>3. IInv /\ SeqInv /\ RecordOnItsWay => RefundBooksAgree
    <2> SUFFICES ASSUME IInv, SeqInv, RecordOnItsWay, AllIdle
                 PROVE  order.refund = stripe.refunded
      BY DEF RefundBooksAgree
    <2>1. order.refund \in BOOLEAN /\ stripe.refunded \in BOOLEAN
      BY DEF IInv, TypeOK, OrderType, StripeType
    <2>2. order.refund <=> stripe.refunded
      BY DEF RecordOnItsWay, SeqInv, SalesPaid, AllIdle, Idle
    <2> QED BY <2>1, <2>2
  <1> QED BY <1>1, <1>2, <1>3, SeqHolds, PTL DEF Spec

=============================================================================
