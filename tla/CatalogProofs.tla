---------------------------- MODULE CatalogProofs ----------------------------
(***************************************************************************)
(* A catalog order is PAID only when it was charged, and a claim books     *)
(* what Stripe gave back, for any number of requests, claims and amounts   *)
(* and any failures.                                                       *)
(*                                                                         *)
(* The argument: "charged" never ends, because only the one createOrder    *)
(* creates the PaymentIntent (OneCreation); everything after the payment   *)
(* knows that it was charged (TaskOK, ClaimsCharged); and Stripe's refund  *)
(* of a claim, once made, never changes, because it is keyed by the claim. *)
(***************************************************************************)
EXTENDS Catalog, TLAPS

Charged == intent = "paid" /\ intentId

\* What a request in flight may rely on.
TaskOK(k) ==
    /\ k.pc = "createIntent" => intent = "none"
    /\ k.pc = "retrieve" => intentId
    /\ k.pc \in {"writePaid", "findOpen", "insertClaim", "refundOrder", "refundCreate",
                 "markOrder", "markClaim"} => Charged
    /\ k.pc \in {"refundOrder", "refundCreate", "markOrder", "markClaim"} =>
         k.claim \in ClaimIds /\ k.amount > 0 /\ claim[k.claim].status # "none"
    /\ k.pc \in {"markOrder", "markClaim"} => refunded[k.claim] = k.amount

TasksOK == \A t \in Tasks : TaskOK(task[t])

\* There is at most one createOrder before the PaymentIntent exists.
OneCreation ==
    /\ status = "none" => \A t \in Tasks : task[t].pc # "createIntent"
    /\ \A t, u \in Tasks :
         task[t].pc = "createIntent" /\ task[u].pc = "createIntent" => t = u

\* No PaymentIntent exists before the order.
NoIntent == status = "none" => intent = "none"

\* Claims are only opened on charged orders, events only sent for charges.
ClaimsCharged == \A c \in ClaimIds : claim[c].status # "none" => Charged
EventsCharged == "succeeded" \in events => intent = "paid"

IInv ==
    /\ TypeOK
    /\ TasksOK
    /\ OneCreation
    /\ NoIntent
    /\ ClaimsCharged
    /\ EventsCharged
    /\ PaidMeansCharged
    /\ BookedIsRefunded

USE CatalogAssumption

-----------------------------------------------------------------------------
\* An idle slot is well typed.
LEMMA IdleTyped == Idle \in TaskType
  BY DEF Idle, TaskType

\* The initial state satisfies the invariant.
LEMMA InitIInv == Init => IInv
  <1> SUFFICES ASSUME Init PROVE IInv
    OBVIOUS
  <1>1. \A t \in Tasks : task[t] = Idle
    BY DEF Init
  <1>2. task \in [Tasks -> TaskType]
    <2> HIDE DEF Idle
    <2> QED BY IdleTyped DEF Init
  <1>3. TypeOK
    BY <1>2 DEF Init, TypeOK, NoRow, ClaimStatuses, OpenStatuses
  <1>4. TasksOK /\ OneCreation /\ NoIntent
    BY <1>1 DEF TasksOK, TaskOK, OneCreation, NoIntent, Idle, Init
  <1>5. ClaimsCharged /\ EventsCharged /\ PaidMeansCharged /\ BookedIsRefunded
    BY DEF ClaimsCharged, EventsCharged, PaidMeansCharged, BookedIsRefunded, Init, NoRow
  <1> QED BY <1>3, <1>4, <1>5 DEF IInv

\* Writing one request's slot keeps the others, and keeps the type.
LEMMA SlotWritten ==
  ASSUME TypeOK, NEW t \in Tasks, NEW k \in TaskType, task' = [task EXCEPT ![t] = k]
  PROVE  /\ task' \in [Tasks -> TaskType]
         /\ task'[t] = k
         /\ \A u \in Tasks \ {t} : task'[u] = task[u]
  BY DEF TypeOK

\* A request that ends leaves an idle slot.
LEMMA DoneWrites ==
  ASSUME TypeOK, NEW t \in Tasks, Done(t)
  PROVE  /\ task' \in [Tasks -> TaskType]
         /\ task'[t] = Idle
         /\ \A u \in Tasks \ {t} : task'[u] = task[u]
  <1>1. task' = [task EXCEPT ![t] = Idle]
    BY DEF Done
  <1> HIDE DEF Idle
  <1> QED BY <1>1, SlotWritten, IdleTyped

\* Going on to another step only changes the step.
LEMMA GotoWrites ==
  ASSUME TypeOK, NEW t \in Tasks,
         NEW pc \in {"createIntent", "storeIntent", "retrieve", "writePaid", "insertClaim",
                     "refundCreate", "markOrder", "markClaim"},
         Goto(t, pc)
  PROVE  /\ task' \in [Tasks -> TaskType]
         /\ task'[t].pc = pc
         /\ task'[t].claim = task[t].claim
         /\ task'[t].amount = task[t].amount
         /\ \A u \in Tasks \ {t} : task'[u] = task[u]
  <1>1. task[t] \in TaskType
    BY DEF TypeOK
  <1>2. [task[t] EXCEPT !.pc = pc] \in TaskType
    BY <1>1 DEF TaskType
  <1>3. task' = [task EXCEPT ![t] = [task[t] EXCEPT !.pc = pc]]
    BY DEF Goto
  <1>4. /\ [task[t] EXCEPT !.pc = pc].pc = pc
        /\ [task[t] EXCEPT !.pc = pc].claim = task[t].claim
        /\ [task[t] EXCEPT !.pc = pc].amount = task[t].amount
    BY <1>1 DEF TaskType
  <1> DEFINE k == [task[t] EXCEPT !.pc = pc]
  <1>5. /\ k \in TaskType
        /\ task' = [task EXCEPT ![t] = k]
        /\ k.pc = pc /\ k.claim = task[t].claim /\ k.amount = task[t].amount
    BY <1>2, <1>3, <1>4
  <1> HIDE DEF k
  <1> QED BY <1>5, SlotWritten

-----------------------------------------------------------------------------
\* When a step touches one request's slot and leaves claims and refunds alone
\* (and loses no charge), the others keep what they rely on.
LEMMA OthersKeep ==
  ASSUME TasksOK, NEW t \in Tasks,
         \A u \in Tasks \ {t} : task'[u] = task[u],
         Charged => Charged',
         intentId => intentId',
         \A u \in Tasks \ {t} : task[u].pc = "createIntent" => intent' = intent,
         \A c \in ClaimIds : claim[c].status # "none" => claim'[c].status # "none",
         \A c \in ClaimIds : refunded[c] > 0 => refunded'[c] = refunded[c],
         TaskOK(task[t])'
  PROVE  TasksOK'
  <1> SUFFICES ASSUME NEW u \in Tasks PROVE TaskOK(task[u])'
    BY DEF TasksOK
  <1>1. CASE u = t
    BY <1>1
  <1>2. CASE u # t
    <2>1. TaskOK(task[u]) /\ task'[u] = task[u]
      BY <1>2 DEF TasksOK
    <2> QED BY <1>2, <2>1 DEF TaskOK
  <1> QED BY <1>1, <1>2

\* A step that moves only the slot of one request, to a state of which TaskOK
\* holds and that is not the creation of a PaymentIntent, keeps the invariant.
LEMMA SlotMoves ==
  ASSUME IInv, NEW t \in Tasks,
         task' \in [Tasks -> TaskType],
         \A u \in Tasks \ {t} : task'[u] = task[u],
         task'[t].pc # "createIntent",
         TaskOK(task'[t]),
         UNCHANGED <<order, payment, claim, refunded>>
  PROVE  IInv'
  <1> USE DEF order, payment
  <1>1. TypeOK'
    BY DEF IInv, TypeOK
  <1>2. TaskOK(task[t])'
    BY DEF TaskOK, Charged
  <1>3. TasksOK'
    BY <1>2, OthersKeep DEF IInv, Charged
  <1>4. OneCreation' /\ NoIntent'
    BY DEF IInv, OneCreation, NoIntent
  <1>5. ClaimsCharged' /\ EventsCharged' /\ PaidMeansCharged' /\ BookedIsRefunded'
    BY DEF IInv, ClaimsCharged, EventsCharged, PaidMeansCharged, BookedIsRefunded, Charged
  <1> QED BY <1>1, <1>3, <1>4, <1>5 DEF IInv

\* Nothing is asked of an idle request.
LEMMA IdleOK == TaskOK(Idle) /\ TaskOK(Idle)' /\ Idle.pc = "idle"
  BY DEF TaskOK, Idle

\* A step that ends one request and changes nothing else keeps the invariant.
LEMMA RequestEnds ==
  ASSUME IInv, NEW t \in Tasks, Done(t), UNCHANGED <<order, payment, claim, refunded>>
  PROVE  IInv'
  <1>1. /\ task' \in [Tasks -> TaskType]
        /\ task'[t] = Idle
        /\ \A u \in Tasks \ {t} : task'[u] = task[u]
    BY DoneWrites DEF IInv
  <1>2. TaskOK(task'[t]) /\ task'[t].pc # "createIntent"
    BY <1>1, IdleOK
  <1> QED BY <1>1, <1>2, SlotMoves

-----------------------------------------------------------------------------
\* createOrder and confirmPayment keep the invariant.
LEMMA OrderStep ==
  ASSUME IInv, NEW t \in Tasks,
         \/ CreateOrder(t) \/ CreatePaymentIntent(t) \/ StorePaymentIntent(t)
         \/ ConfirmPayment(t) \/ RetrieveIntent(t) \/ WritePaid(t)
  PROVE  IInv'
  <1> USE DEF order, payment
  <1>0. TypeOK /\ TaskOK(task[t]) /\ TasksOK
    BY DEF IInv, TasksOK
  <1>1. CASE CreateOrder(t)
    <2>1. /\ task' \in [Tasks -> TaskType]
          /\ task'[t].pc = "createIntent"
          /\ \A u \in Tasks \ {t} : task'[u] = task[u]
      BY <1>0, <1>1, GotoWrites DEF CreateOrder
    <2>2. intent = "none"
      BY <1>1 DEF CreateOrder, IInv, NoIntent
    <2>3. TaskOK(task[t])'
      BY <1>1, <2>1, <2>2 DEF TaskOK, CreateOrder
    <2>4. TasksOK'
      BY <1>0, <1>1, <2>1, <2>3, OthersKeep DEF CreateOrder, Charged
    <2>5. TypeOK'
      BY <1>0, <1>1, <2>1 DEF TypeOK, CreateOrder
    <2>6. OneCreation'
      BY <1>1, <2>1 DEF CreateOrder, IInv, OneCreation
    <2>7. NoIntent'
      BY <1>1 DEF CreateOrder, NoIntent
    <2>8. ClaimsCharged' /\ EventsCharged' /\ PaidMeansCharged' /\ BookedIsRefunded'
      BY <1>1 DEF CreateOrder, IInv, ClaimsCharged, EventsCharged, PaidMeansCharged,
                  BookedIsRefunded, Charged
    <2> QED BY <2>4, <2>5, <2>6, <2>7, <2>8 DEF IInv
  <1>2. CASE CreatePaymentIntent(t)
    <2>1. At(t, "createIntent") /\ intent = "none" /\ UNCHANGED <<order, events, claim, refunded>>
      BY <1>0, <1>2 DEF CreatePaymentIntent, TaskOK, At
    <2>2. /\ task' \in [Tasks -> TaskType]
          /\ task'[t] = Idle \/ task'[t].pc = "storeIntent"
          /\ \A u \in Tasks \ {t} : task'[u] = task[u]
      BY <1>0, <1>2, GotoWrites, DoneWrites DEF CreatePaymentIntent
    <2>3. intent' \in {"none", "open"}
      BY <1>2, <2>1 DEF CreatePaymentIntent
    <2>4. TaskOK(task[t])' /\ task'[t].pc # "createIntent"
      BY <2>2, IdleOK DEF TaskOK
    <2>5. \A u \in Tasks \ {t} : task[u].pc # "createIntent"
      BY <2>1 DEF IInv, OneCreation, At
    <2>6. TasksOK'
      BY <1>0, <2>1, <2>2, <2>4, <2>5, OthersKeep DEF Charged
    <2>7. TypeOK'
      BY <1>0, <2>1, <2>2, <2>3 DEF TypeOK
    <2>8. OneCreation'
      BY <2>1, <2>2, <2>4, <2>5 DEF OneCreation
    <2>9. NoIntent'
      BY <2>1 DEF IInv, OneCreation, NoIntent, At
    <2>10. ClaimsCharged' /\ EventsCharged' /\ PaidMeansCharged' /\ BookedIsRefunded'
      BY <2>1 DEF IInv, ClaimsCharged, EventsCharged, PaidMeansCharged,
                  BookedIsRefunded, Charged
    <2> QED BY <2>6, <2>7, <2>8, <2>9, <2>10 DEF IInv
  <1>3. CASE StorePaymentIntent(t)
    <2>1. /\ task' \in [Tasks -> TaskType]
          /\ task'[t] = Idle
          /\ \A u \in Tasks \ {t} : task'[u] = task[u]
      BY <1>0, <1>3, DoneWrites DEF StorePaymentIntent
    <2>2. TaskOK(task[t])' /\ task'[t].pc # "createIntent"
      BY <2>1, IdleOK DEF TaskOK
    <2>3. intentId' = TRUE /\ UNCHANGED <<status, window, payment, claim, refunded>>
      BY <1>3 DEF StorePaymentIntent
    <2>4. TasksOK'
      BY <1>0, <2>1, <2>2, <2>3, OthersKeep DEF Charged
    <2>5. TypeOK'
      BY <1>0, <2>1, <2>3 DEF TypeOK
    <2>6. OneCreation' /\ NoIntent'
      BY <2>1, <2>2, <2>3 DEF IInv, OneCreation, NoIntent
    <2>7. ClaimsCharged' /\ EventsCharged' /\ PaidMeansCharged' /\ BookedIsRefunded'
      BY <2>3 DEF IInv, ClaimsCharged, EventsCharged, PaidMeansCharged,
                  BookedIsRefunded, Charged
    <2> QED BY <2>4, <2>5, <2>6, <2>7 DEF IInv
  <1>4. CASE ConfirmPayment(t)
    <2>1. /\ task' \in [Tasks -> TaskType]
          /\ task'[t].pc = "retrieve"
          /\ \A u \in Tasks \ {t} : task'[u] = task[u]
      BY <1>0, <1>4, GotoWrites DEF ConfirmPayment
    <2>2. TaskOK(task'[t])
      BY <1>4, <2>1 DEF ConfirmPayment, TaskOK
    <2> QED BY <1>4, <2>1, <2>2, SlotMoves DEF ConfirmPayment
  <1>5. CASE RetrieveIntent(t)
    <2>1. UNCHANGED <<order, payment, claim, refunded>> /\ At(t, "retrieve")
      BY <1>5 DEF RetrieveIntent
    <2>2. CASE Done(t)
      BY <2>1, <2>2, RequestEnds
    <2>3. CASE intent = "paid" /\ Goto(t, "writePaid")
      <3>1. /\ task' \in [Tasks -> TaskType]
            /\ task'[t].pc = "writePaid"
            /\ \A u \in Tasks \ {t} : task'[u] = task[u]
        BY <1>0, <2>3, GotoWrites
      <3>2. TaskOK(task'[t])
        BY <1>0, <2>1, <2>3, <3>1 DEF TaskOK, Charged, At
      <3> QED BY <2>1, <3>1, <3>2, SlotMoves
    <2> QED BY <1>5, <2>2, <2>3 DEF RetrieveIntent
  <1>6. CASE WritePaid(t)
    <2>1. /\ task' \in [Tasks -> TaskType]
          /\ task'[t] = Idle
          /\ \A u \in Tasks \ {t} : task'[u] = task[u]
      BY <1>0, <1>6, DoneWrites DEF WritePaid
    <2>2. TaskOK(task[t])' /\ task'[t].pc # "createIntent"
      BY <2>1, IdleOK DEF TaskOK
    <2>3. /\ status' = "PAID" /\ window' = "open"
          /\ UNCHANGED <<intentId, payment, claim, refunded>>
      BY <1>6 DEF WritePaid
    <2>4. TasksOK'
      BY <1>0, <2>1, <2>2, <2>3, OthersKeep DEF Charged
    <2>5. TypeOK'
      BY <1>0, <2>1, <2>3 DEF TypeOK
    <2>6. OneCreation' /\ NoIntent'
      BY <2>1, <2>2, <2>3 DEF IInv, OneCreation, NoIntent
    <2>7. Charged
      BY <1>0, <1>6 DEF TaskOK, WritePaid, At
    <2>8. ClaimsCharged' /\ EventsCharged' /\ PaidMeansCharged' /\ BookedIsRefunded'
      BY <2>3, <2>7 DEF IInv, ClaimsCharged, EventsCharged, PaidMeansCharged,
                        BookedIsRefunded, Charged
    <2> QED BY <2>4, <2>5, <2>6, <2>8 DEF IInv
  <1> QED BY <1>1, <1>2, <1>3, <1>4, <1>5, <1>6

-----------------------------------------------------------------------------
\* createClaim and adminRefund keep the invariant.
LEMMA ClaimStep ==
  ASSUME IInv, NEW t \in Tasks,
         \/ \E type \in ClaimTypes : CreateClaim(t, type)
         \/ FindOpenClaim(t) \/ InsertClaim(t)
         \/ \E c \in ClaimIds, a \in Amounts \cup {TotalCents} : AdminRefund(t, c, a)
         \/ RefundReadOrder(t) \/ RefundCreate(t)
         \/ MarkOrderRefunded(t) \/ MarkClaimRefunded(t)
  PROVE  IInv'
  <1> USE DEF order, payment
  <1>0. TypeOK /\ TaskOK(task[t]) /\ TasksOK /\ task[t] \in TaskType
    BY DEF IInv, TasksOK, TypeOK
  <1>1. ASSUME NEW type \in ClaimTypes, CreateClaim(t, type) PROVE IInv'
    <2> DEFINE k == [task[t] EXCEPT !.pc = "findOpen", !.type = type]
    <2>1. k \in TaskType /\ k.pc = "findOpen"
      BY <1>0 DEF TaskType
    <2>2. task' = [task EXCEPT ![t] = k]
      BY <1>1 DEF CreateClaim
    <2> HIDE DEF k
    <2>3. /\ task' \in [Tasks -> TaskType]
          /\ task'[t] = k
          /\ \A u \in Tasks \ {t} : task'[u] = task[u]
      BY <1>0, <2>1, <2>2, SlotWritten
    <2>4. Charged
      BY <1>1 DEF CreateClaim, IInv, PaidMeansCharged, Charged
    <2>5. TaskOK(task'[t]) /\ task'[t].pc # "createIntent"
      BY <2>1, <2>3, <2>4 DEF TaskOK
    <2> QED BY <1>1, <2>3, <2>5, SlotMoves DEF CreateClaim
  <1>2. CASE FindOpenClaim(t)
    <2>1. UNCHANGED <<order, payment, claim, refunded>> /\ At(t, "findOpen")
      BY <1>2 DEF FindOpenClaim
    <2>2. CASE Done(t)
      BY <2>1, <2>2, RequestEnds
    <2>3. CASE Goto(t, "insertClaim")
      <3>1. /\ task' \in [Tasks -> TaskType]
            /\ task'[t].pc = "insertClaim"
            /\ \A u \in Tasks \ {t} : task'[u] = task[u]
        BY <1>0, <2>3, GotoWrites
      <3>2. TaskOK(task'[t])
        BY <1>0, <2>1, <3>1 DEF TaskOK, At
      <3> QED BY <2>1, <3>1, <3>2, SlotMoves
    <2> QED BY <1>2, <2>2, <2>3 DEF FindOpenClaim
  <1>3. CASE InsertClaim(t)
    <2>1. PICK c \in ClaimIds :
            /\ claim[c] = NoRow
            /\ claim' = [claim EXCEPT ![c] = [status |-> "OPEN", type |-> task[t].type,
                                              refund |-> 0]]
      BY <1>3 DEF InsertClaim
    <2>2. /\ task' \in [Tasks -> TaskType]
          /\ task'[t] = Idle
          /\ \A u \in Tasks \ {t} : task'[u] = task[u]
          /\ UNCHANGED <<order, payment, refunded>>
      BY <1>0, <1>3, DoneWrites DEF InsertClaim
    <2>3. TaskOK(task[t])' /\ task'[t].pc # "createIntent"
      BY <2>2, IdleOK DEF TaskOK
    <2> DEFINE r == [status |-> "OPEN", type |-> task[t].type, refund |-> 0]
    <2>4. /\ r \in [status : ClaimStatuses, type : ClaimTypes \cup {"none"}, refund : Nat]
          /\ r.status = "OPEN" /\ r.refund = 0
      BY <1>0 DEF TaskType, ClaimStatuses, OpenStatuses
    <2>5. claim' = [claim EXCEPT ![c] = r]
      BY <2>1
    <2> HIDE DEF r
    <2>6. /\ claim' \in [ClaimIds -> [status : ClaimStatuses,
                                      type : ClaimTypes \cup {"none"}, refund : Nat]]
          /\ claim'[c] = r
          /\ \A d \in ClaimIds \ {c} : claim'[d] = claim[d]
      BY <1>0, <2>4, <2>5 DEF TypeOK
    <2>7. TypeOK'
      BY <1>0, <2>2, <2>6 DEF TypeOK
    <2>8. \A d \in ClaimIds : claim[d].status # "none" => claim'[d].status # "none"
      BY <2>4, <2>6
    <2>9. TasksOK'
      BY <1>0, <2>2, <2>3, <2>8, OthersKeep DEF Charged
    <2>10. OneCreation' /\ NoIntent'
      BY <2>2, <2>3 DEF IInv, OneCreation, NoIntent
    <2>11. Charged
      BY <1>0, <1>3 DEF TaskOK, InsertClaim, At
    <2>12. ClaimsCharged' /\ EventsCharged' /\ PaidMeansCharged'
      BY <2>2, <2>11 DEF IInv, ClaimsCharged, EventsCharged, PaidMeansCharged, Charged
    <2>13. BookedIsRefunded'
      BY <2>2, <2>4, <2>6 DEF IInv, BookedIsRefunded
    <2> QED BY <2>7, <2>9, <2>10, <2>12, <2>13 DEF IInv
  <1>4. ASSUME NEW c \in ClaimIds, NEW a \in Amounts \cup {TotalCents}, AdminRefund(t, c, a)
        PROVE  IInv'
    <2> DEFINE k == [task[t] EXCEPT !.pc = "refundOrder", !.claim = c, !.amount = a]
    <2>0. a \in Nat /\ a > 0
      OBVIOUS
    <2>1. k \in TaskType /\ k.pc = "refundOrder" /\ k.claim = c /\ k.amount > 0
      BY <1>0, <2>0 DEF TaskType
    <2>2. task' = [task EXCEPT ![t] = k]
      BY <1>4 DEF AdminRefund
    <2> HIDE DEF k
    <2>3. /\ task' \in [Tasks -> TaskType]
          /\ task'[t] = k
          /\ \A u \in Tasks \ {t} : task'[u] = task[u]
      BY <1>0, <2>1, <2>2, SlotWritten
    <2>4. claim[c].status # "none" /\ Charged
      BY <1>4 DEF AdminRefund, IInv, ClaimsCharged
    <2>5. TaskOK(task'[t]) /\ task'[t].pc # "createIntent"
      BY <2>1, <2>3, <2>4 DEF TaskOK
    <2> QED BY <1>4, <2>3, <2>5, SlotMoves DEF AdminRefund
  <1>5. CASE RefundReadOrder(t)
    <2>1. At(t, "refundOrder") /\ Charged /\ UNCHANGED <<order, payment, refunded>>
      BY <1>0, <1>5 DEF RefundReadOrder, TaskOK, At
    <2>2. UNCHANGED claim /\ (Done(t) \/ Goto(t, "refundCreate"))
      BY <1>5, <2>1 DEF RefundReadOrder, Charged
    <2>3. CASE Done(t)
      BY <2>1, <2>2, <2>3, RequestEnds
    <2>4. CASE Goto(t, "refundCreate")
      <3>1. /\ task' \in [Tasks -> TaskType]
            /\ task'[t].pc = "refundCreate"
            /\ task'[t].claim = task[t].claim /\ task'[t].amount = task[t].amount
            /\ \A u \in Tasks \ {t} : task'[u] = task[u]
        BY <1>0, <2>4, GotoWrites
      <3>2. TaskOK(task'[t])
        BY <1>0, <2>1, <3>1 DEF TaskOK, At
      <3> QED BY <2>1, <2>2, <3>1, <3>2, SlotMoves
    <2> QED BY <2>2, <2>3, <2>4
  <1>6. CASE RefundCreate(t)
    <2> DEFINE d == task[t].claim
               a == task[t].amount
    <2>1. /\ At(t, "refundCreate") /\ UNCHANGED <<order, payment, claim>>
          /\ d \in ClaimIds /\ a \in Nat /\ a > 0 /\ Charged /\ claim[d].status # "none"
      BY <1>0, <1>6 DEF RefundCreate, TaskOK, At, TaskType
    <2>2. CASE UNCHANGED refunded /\ Done(t)
      BY <2>1, <2>2, RequestEnds
    <2>3. CASE UNCHANGED refunded /\ refunded[d] = a /\ Goto(t, "markOrder")
      <3>1. /\ task' \in [Tasks -> TaskType]
            /\ task'[t].pc = "markOrder"
            /\ task'[t].claim = d /\ task'[t].amount = a
            /\ \A u \in Tasks \ {t} : task'[u] = task[u]
        BY <1>0, <2>3, GotoWrites
      <3>2. TaskOK(task'[t])
        BY <2>1, <2>3, <3>1 DEF TaskOK
      <3> QED BY <2>1, <2>3, <3>1, <3>2, SlotMoves
    <2>4. CASE /\ refunded[d] = 0
               /\ refunded' = [refunded EXCEPT ![d] = a]
               /\ Goto(t, "markOrder") \/ Done(t)
      <3>1. /\ task' \in [Tasks -> TaskType]
            /\ \/ task'[t] = Idle
               \/ /\ task'[t].pc = "markOrder"
                  /\ task'[t].claim = d /\ task'[t].amount = a
            /\ \A u \in Tasks \ {t} : task'[u] = task[u]
        BY <1>0, <2>4, GotoWrites, DoneWrites
      <3>2. /\ refunded' \in [ClaimIds -> Nat]
            /\ refunded'[d] = a
            /\ \A c \in ClaimIds \ {d} : refunded'[c] = refunded[c]
        BY <1>0, <2>1, <2>4 DEF TypeOK
      <3>3. TypeOK'
        BY <1>0, <2>1, <3>1, <3>2 DEF TypeOK
      <3>4. TaskOK(task[t])' /\ task'[t].pc # "createIntent"
        BY <2>1, <3>1, <3>2, IdleOK DEF TaskOK, Charged
      <3>5. \A c \in ClaimIds : refunded[c] > 0 => refunded'[c] = refunded[c]
        BY <2>4, <3>2
      <3>6. TasksOK'
        BY <1>0, <2>1, <3>1, <3>4, <3>5, OthersKeep DEF Charged
      <3>7. OneCreation' /\ NoIntent'
        BY <2>1, <3>1, <3>4 DEF IInv, OneCreation, NoIntent
      <3>8. ClaimsCharged' /\ EventsCharged' /\ PaidMeansCharged'
        BY <2>1 DEF IInv, ClaimsCharged, EventsCharged, PaidMeansCharged, Charged
      <3>9. BookedIsRefunded'
        BY <2>1, <2>4, <3>2, <3>5 DEF IInv, BookedIsRefunded
      <3> QED BY <3>3, <3>6, <3>7, <3>8, <3>9 DEF IInv
    <2> QED BY <1>6, <2>2, <2>3, <2>4 DEF RefundCreate
  <1>7. CASE MarkOrderRefunded(t)
    <2>1. /\ task' \in [Tasks -> TaskType]
          /\ task'[t].pc = "markClaim"
          /\ task'[t].claim = task[t].claim /\ task'[t].amount = task[t].amount
          /\ \A u \in Tasks \ {t} : task'[u] = task[u]
      BY <1>0, <1>7, GotoWrites DEF MarkOrderRefunded
    <2>2. /\ At(t, "markOrder") /\ status' = "REFUNDED" /\ Charged
          /\ UNCHANGED <<intentId, window, payment, claim, refunded>>
      BY <1>0, <1>7 DEF MarkOrderRefunded, TaskOK, At
    <2>3. TaskOK(task[t])'
      BY <1>0, <2>1, <2>2 DEF TaskOK, Charged, At
    <2>4. TasksOK'
      BY <1>0, <2>1, <2>2, <2>3, OthersKeep DEF Charged
    <2>5. TypeOK'
      BY <1>0, <2>1, <2>2 DEF TypeOK
    <2>6. OneCreation' /\ NoIntent'
      BY <2>1, <2>2 DEF IInv, OneCreation, NoIntent
    <2>7. ClaimsCharged' /\ EventsCharged' /\ PaidMeansCharged' /\ BookedIsRefunded'
      BY <2>2 DEF IInv, ClaimsCharged, EventsCharged, PaidMeansCharged,
                  BookedIsRefunded, Charged
    <2> QED BY <2>4, <2>5, <2>6, <2>7 DEF IInv
  <1>8. CASE MarkClaimRefunded(t)
    <2> DEFINE d == task[t].claim
               a == task[t].amount
               r == [claim[d] EXCEPT !.status = "REFUNDED", !.refund = a]
    <2>1. /\ At(t, "markClaim") /\ UNCHANGED <<order, payment, refunded>>
          /\ d \in ClaimIds /\ a \in Nat /\ a > 0 /\ Charged /\ refunded[d] = a
      BY <1>0, <1>8 DEF MarkClaimRefunded, TaskOK, At, TaskType
    <2>2. /\ task' \in [Tasks -> TaskType]
          /\ task'[t] = Idle
          /\ \A u \in Tasks \ {t} : task'[u] = task[u]
      BY <1>0, <1>8, DoneWrites DEF MarkClaimRefunded
    <2>3. TaskOK(task[t])' /\ task'[t].pc # "createIntent"
      BY <2>2, IdleOK DEF TaskOK
    <2>4. /\ r \in [status : ClaimStatuses, type : ClaimTypes \cup {"none"}, refund : Nat]
          /\ r.status = "REFUNDED" /\ r.refund = a
      BY <1>0, <2>1 DEF TypeOK, ClaimStatuses
    <2>5. claim' = [claim EXCEPT ![d] = r]
      BY <1>8 DEF MarkClaimRefunded
    <2> HIDE DEF r
    <2>6. /\ claim' \in [ClaimIds -> [status : ClaimStatuses,
                                      type : ClaimTypes \cup {"none"}, refund : Nat]]
          /\ claim'[d] = r
          /\ \A c \in ClaimIds \ {d} : claim'[c] = claim[c]
      BY <1>0, <2>1, <2>4, <2>5 DEF TypeOK
    <2>7. TypeOK'
      BY <1>0, <2>1, <2>2, <2>6 DEF TypeOK
    <2>8. \A c \in ClaimIds : claim[c].status # "none" => claim'[c].status # "none"
      BY <2>4, <2>6
    <2>9. TasksOK'
      BY <1>0, <2>1, <2>2, <2>3, <2>8, OthersKeep DEF Charged
    <2>10. OneCreation' /\ NoIntent'
      BY <2>1, <2>2, <2>3 DEF IInv, OneCreation, NoIntent
    <2>11. ClaimsCharged' /\ EventsCharged' /\ PaidMeansCharged'
      BY <2>1 DEF IInv, ClaimsCharged, EventsCharged, PaidMeansCharged, Charged
    <2>12. BookedIsRefunded'
      BY <2>1, <2>4, <2>6 DEF IInv, BookedIsRefunded
    <2> QED BY <2>7, <2>9, <2>10, <2>11, <2>12 DEF IInv
  <1> QED BY <1>1, <1>2, <1>3, <1>4, <1>5, <1>6, <1>7, <1>8

-----------------------------------------------------------------------------
\* Stripe, its webhook, time and the admins' decisions keep the invariant.
LEMMA OutsideStep ==
  ASSUME IInv,
         \/ SellerPays \/ CardDeclined \/ MarkCatalogOrderPaid \/ MarkCatalogOrderFailed
         \/ WindowCloses
         \/ \E c \in ClaimIds :
              AdminRequestReplacement(c) \/ AdminReject(c) \/ AdminResolve(c)
  PROVE  IInv'
  <1> USE DEF order, payment
  <1>1. CASE \/ SellerPays \/ CardDeclined \/ MarkCatalogOrderPaid
             \/ MarkCatalogOrderFailed \/ WindowCloses
    <2>1. UNCHANGED <<claim, refunded, task>>
      BY <1>1 DEF SellerPays, CardDeclined, MarkCatalogOrderPaid, MarkCatalogOrderFailed,
                  WindowCloses
    <2>2. TypeOK'
      BY <1>1, <2>1 DEF SellerPays, CardDeclined, MarkCatalogOrderPaid,
                        MarkCatalogOrderFailed, WindowCloses, TypeOK, IInv
    <2>3. (Charged => Charged') /\ (intentId => intentId') /\ (intent = "none" => intent' = "none")
      BY <1>1 DEF SellerPays, CardDeclined, MarkCatalogOrderPaid,
                  MarkCatalogOrderFailed, WindowCloses, Charged
    <2>4. TasksOK'
      BY <2>1, <2>3 DEF IInv, TasksOK, TaskOK
    <2>5. OneCreation' /\ NoIntent'
      BY <1>1, <2>1 DEF SellerPays, CardDeclined, MarkCatalogOrderPaid,
                        MarkCatalogOrderFailed, WindowCloses, IInv, OneCreation, NoIntent
    <2>6. ClaimsCharged' /\ BookedIsRefunded'
      BY <2>1, <2>3 DEF IInv, ClaimsCharged, BookedIsRefunded
    <2>7. EventsCharged'
      BY <1>1 DEF SellerPays, CardDeclined, MarkCatalogOrderPaid,
                  MarkCatalogOrderFailed, WindowCloses, IInv, EventsCharged
    <2>8. PaidMeansCharged'
      BY <1>1, <2>3 DEF SellerPays, CardDeclined, MarkCatalogOrderPaid,
                  MarkCatalogOrderFailed, WindowCloses, IInv, EventsCharged,
                  PaidMeansCharged, Charged
    <2> QED BY <2>2, <2>4, <2>5, <2>6, <2>7, <2>8 DEF IInv
  <1>2. ASSUME NEW c \in ClaimIds, NEW s \in {"REPLACEMENT_REQUESTED", "REJECTED", "RESOLVED"},
               Decide(c, s)
        PROVE  IInv'
    <2> DEFINE r == [claim[c] EXCEPT !.status = s]
    <2>1. /\ claim[c].status # "none" /\ claim' = [claim EXCEPT ![c] = r]
          /\ UNCHANGED <<order, payment, refunded, task>>
      BY <1>2 DEF Decide
    <2>2. /\ r \in [status : ClaimStatuses, type : ClaimTypes \cup {"none"}, refund : Nat]
          /\ r.status = s /\ r.refund = claim[c].refund
      BY DEF IInv, TypeOK, ClaimStatuses, OpenStatuses
    <2> HIDE DEF r
    <2>3. /\ claim' \in [ClaimIds -> [status : ClaimStatuses,
                                      type : ClaimTypes \cup {"none"}, refund : Nat]]
          /\ claim'[c] = r
          /\ \A d \in ClaimIds \ {c} : claim'[d] = claim[d]
      BY <2>1, <2>2 DEF IInv, TypeOK
    <2>4. TypeOK'
      BY <2>1, <2>3 DEF IInv, TypeOK
    <2>5. \A d \in ClaimIds : claim[d].status # "none" => claim'[d].status # "none"
      BY <2>2, <2>3
    <2>6. TasksOK'
      BY <2>1, <2>5 DEF IInv, TasksOK, TaskOK, Charged
    <2>7. OneCreation' /\ NoIntent' /\ EventsCharged' /\ PaidMeansCharged'
      BY <2>1 DEF IInv, OneCreation, NoIntent, EventsCharged, PaidMeansCharged
    <2>8. ClaimsCharged'
      BY <2>1, <2>3 DEF IInv, ClaimsCharged, Charged
    <2>9. BookedIsRefunded'
      BY <2>1, <2>2, <2>3 DEF IInv, BookedIsRefunded
    <2> QED BY <2>4, <2>6, <2>7, <2>8, <2>9 DEF IInv
  <1> QED BY <1>1, <1>2 DEF AdminRequestReplacement, AdminReject, AdminResolve

\* Every step keeps the invariant.
LEMMA NextIInv == IInv /\ [Next]_vars => IInv'
  <1> SUFFICES ASSUME IInv, [Next]_vars PROVE IInv'
    OBVIOUS
  <1>1. CASE UNCHANGED vars
    BY <1>1 DEF IInv, TypeOK, TasksOK, TaskOK, OneCreation, NoIntent, ClaimsCharged,
                EventsCharged, PaidMeansCharged, BookedIsRefunded, Charged, vars, order,
                payment
  <1>2. ASSUME NEW t \in Tasks, Abort(t) PROVE IInv'
    BY <1>2, RequestEnds DEF Abort
  <1>3. CASE Next
    BY <1>2, <1>3, OrderStep, ClaimStep, OutsideStep DEF Next, Step
  <1> QED BY <1>1, <1>3

\* The inductive invariant holds always.
THEOREM Inductive == Spec => []IInv
  BY InitIInv, NextIInv, PTL DEF Spec

\* A PAID or REFUNDED catalog order has been charged and knows its
\* PaymentIntent (confirmPayment, markCatalogOrderPaid, adminRefund), for any
\* number of overlapping requests and any failures.
THEOREM PaidWasCharged == Spec => []PaidMeansCharged
  <1>1. IInv => PaidMeansCharged
    BY DEF IInv
  <1> QED BY <1>1, Inductive, PTL

\* A claim books exactly what Stripe gave back for it (adminRefund), whatever
\* is repeated, raced or lost.
THEOREM RefundsAreBooked == Spec => []BookedIsRefunded
  <1>1. IInv => BookedIsRefunded
    BY DEF IInv
  <1> QED BY <1>1, Inductive, PTL
=============================================================================
