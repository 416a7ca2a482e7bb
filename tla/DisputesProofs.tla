--------------------------- MODULE DisputesProofs ---------------------------
(***************************************************************************)
(* Refunds go back to a claim or an approval, chargebacks have one row, and *)
(* decisions last - for any number of handlers, disputes and chargebacks.  *)
(*                                                                         *)
(* The argument: rows are never removed, keep their type and chargeback,   *)
(* and stay approved (RowsKept); so what justified a refund when a handler *)
(* entered refundForDispute (TaskOK) still does when Stripe is asked.      *)
(***************************************************************************)
EXTENDS Disputes, TLAPS

USE DisputesAssumption

-----------------------------------------------------------------------------
(* The invariant, as a relation between a handler, the rows and the approvals *)

RowsOf(D) == {d \in DisputeIds : D[d] # NoRow}
AutoTypes == {"NEVER_RECEIVED", "WRONG_ORDER"}
Justified(d, D, A) ==
    d \in RowsOf(D) /\ (d \in A \/ (D[d].approved /\ D[d].type \in AutoTypes))

AdminOps == {"approve", "allergen", "fraud"}
Refunding == {"refund", "refundCreate", "refundRecord", "reverse", "markRefunded"}

\* What a handler knows at each of its steps.
TaskOK(k, D, A) ==
    /\ k \in TaskType
    /\ k.dispute # NoDispute => k.dispute \in RowsOf(D)
    /\ k.op \in AdminOps => k.dispute # NoDispute
    /\ k.pc = "resolve" => k.op \in AdminOps
    /\ k.pc \in {"strike", "strikeCreate"} => k.op \in {"create", "allergen", "fraud"}
    /\ k.pc \in {"existing", "insert"} =>
         k.op = "create" /\ k.type \in ClaimTypes
    /\ k.pc = "insertChargeback" => k.stripe \in Chargebacks
    /\ k.pc \in Refunding => Justified(k.dispute, D, A)

\* Rows have a type, and a chargeback has one row.
RowsOK(D) ==
    /\ D \in [DisputeIds -> RowType]
    /\ \A d \in RowsOf(D) : D[d].type # "none"
    /\ \A d, e \in RowsOf(D) :
         D[d].stripe = D[e].stripe /\ D[d].stripe # NoChargeback => d = e

\* What no step does to the rows: it removes none, and changes neither their type
\* nor their approval.
RowsKept(D, E) ==
    \A d \in RowsOf(D) :
      E[d].type = D[d].type /\ (D[d].approved => E[d].approved)

RefundOK(c, D, A) == c = "refunded" => \E d \in DisputeIds : Justified(d, D, A)

RestOK ==
    /\ status \in {"CONFIRMED", "DELIVERED", "CANCELLED", "REFUNDED"}
    /\ earning \in {"none", "PENDING", "AVAILABLE", "CANCELLED"}
    /\ charge \in {"unpaid", "paid", "refunded"}
    /\ opened \subseteq Chargebacks
    /\ approvals \subseteq DisputeIds
    /\ strikes \in [StrikeReasons -> Nat]
    /\ delivered \in BOOLEAN /\ late \in BOOLEAN
    /\ hasIntent \in BOOLEAN /\ refundId \in BOOLEAN

IInv ==
    /\ RestOK
    /\ RowsOK(disputes)
    /\ RefundOK(charge, disputes, approvals)
    /\ task \in [Tasks -> TaskType]
    /\ \A t \in Tasks : TaskOK(task[t], disputes, approvals)

\* The invariant implies what the runs check.
LEMMA IInvImplies == IInv => TypeOK /\ NoRefundWithoutClaim /\ OneRowPerChargeback
  <1> SUFFICES ASSUME IInv PROVE TypeOK /\ NoRefundWithoutClaim /\ OneRowPerChargeback
    OBVIOUS
  <1>1. TypeOK
    BY DEF IInv, RestOK, RowsOK, TypeOK
  <1>2. NoRefundWithoutClaim
    BY DEF IInv, RefundOK, Justified, RowsOf, AutoTypes, NoRefundWithoutClaim, Rows
  <1>3. OneRowPerChargeback
    BY DEF IInv, RowsOK, RowsOf, OneRowPerChargeback, Rows
  <1> QED BY <1>1, <1>2, <1>3

-----------------------------------------------------------------------------
(* Facts about handlers and rows *)

\* Nothing is known of an idle handler, so nothing can be wrong with it.
LEMMA IdleOK == \A D, A : TaskOK(Idle, D, A)
  <1>1. Idle \in TaskType
    BY DEF Idle, TaskType
  <1> QED BY <1>1 DEF TaskOK, Idle, AdminOps, Refunding

\* Rows that are kept stay rows, and go on justifying a refund.
LEMMA KeptRows ==
  ASSUME NEW D, NEW E, RowsOK(D), RowsKept(D, E)
  PROVE  RowsOf(D) \subseteq RowsOf(E)
  BY DEF RowsOK, RowsKept, RowsOf, NoRow

\* What justified a refund still does.
LEMMA KeptJustified ==
  ASSUME NEW D, NEW E, NEW A, NEW B, RowsOK(D), RowsKept(D, E), A \subseteq B,
         NEW d, Justified(d, D, A)
  PROVE  Justified(d, E, B)
  BY KeptRows DEF Justified, RowsKept

\* What a handler knows survives the steps of the others.
LEMMA KeptTask ==
  ASSUME NEW D, NEW E, NEW A, NEW B, RowsOK(D), RowsKept(D, E), A \subseteq B,
         NEW k, TaskOK(k, D, A)
  PROVE  TaskOK(k, E, B)
  BY KeptRows, KeptJustified DEF TaskOK

\* So a refund that was made stays justified.
LEMMA KeptRefund ==
  ASSUME NEW D, NEW E, NEW A, NEW B, RowsOK(D), RowsKept(D, E), A \subseteq B,
         NEW c, RefundOK(c, D, A)
  PROVE  RefundOK(c, E, B)
  BY KeptJustified DEF RefundOK

\* A step that writes one handler's slot, and keeps the rows, keeps the invariant
\* when the new slot is right.
LEMMA OneSlot ==
  ASSUME IInv, NEW t \in Tasks, NEW k,
         task' = [task EXCEPT ![t] = k],
         TaskOK(k, disputes', approvals'),
         RowsKept(disputes, disputes'), RowsOK(disputes'), approvals \subseteq approvals',
         RestOK',
         RefundOK(charge', disputes', approvals')
  PROVE  IInv'
  <1>1. k \in TaskType
    BY DEF TaskOK
  <1>2. /\ task' \in [Tasks -> TaskType]
        /\ task'[t] = k
        /\ \A u \in Tasks \ {t} : task'[u] = task[u]
    BY <1>1 DEF IInv
  <1>3. \A u \in Tasks : TaskOK(task'[u], disputes', approvals')
    <2> SUFFICES ASSUME NEW u \in Tasks
                 PROVE  TaskOK(task'[u], disputes', approvals')
      OBVIOUS
    <2>1. CASE u = t
      BY <2>1, <1>2
    <2>2. CASE u # t
      <3>1. TaskOK(task[u], disputes, approvals) /\ RowsOK(disputes)
        BY DEF IInv
      <3> QED BY <2>2, <1>2, <3>1, KeptTask
    <2> QED BY <2>1, <2>2
  <1> QED BY <1>2, <1>3 DEF IInv

\* The same, for a step that leaves rows, approvals and charge alone.
LEMMA SlotOnly ==
  ASSUME IInv, NEW t \in Tasks, NEW k,
         task' = [task EXCEPT ![t] = k],
         TaskOK(k, disputes, approvals),
         UNCHANGED <<disputes, approvals, charge>>, RestOK'
  PROVE  IInv'
  <1>1. RowsKept(disputes, disputes') /\ RowsOK(disputes')
    BY DEF RowsKept, IInv
  <1>2. RefundOK(charge', disputes', approvals') /\ TaskOK(k, disputes', approvals')
    BY DEF IInv
  <1> QED BY <1>1, <1>2, OneSlot

\* And for a step that does not touch the handlers.
LEMMA NoSlot ==
  ASSUME IInv, task' = task, RowsKept(disputes, disputes'), RowsOK(disputes'),
         approvals \subseteq approvals', RestOK',
         charge' = "refunded" => charge = "refunded"
  PROVE  IInv'
  <1>1. RowsOK(disputes) /\ RefundOK(charge, disputes, approvals)
    BY DEF IInv
  <1>2. RefundOK(charge, disputes', approvals')
    BY <1>1, KeptRefund
  <1>3. \A u \in Tasks : TaskOK(task[u], disputes', approvals')
    BY <1>1, KeptTask DEF IInv
  <1> QED BY <1>2, <1>3 DEF IInv, RefundOK

\* A handler that ends without writing keeps the invariant.
LEMMA DoneKeeps ==
  ASSUME IInv, NEW t \in Tasks, Done(t), UNCHANGED <<disputes, approvals, charge>>,
         RestOK'
  PROVE  IInv'
  BY IdleOK, SlotOnly DEF Done

\* Going on to a step about which nothing needs to be known.
LEMMA FreeGoto ==
  ASSUME IInv, NEW t \in Tasks, NEW pc \in {"release", "sweepReverse"},
         Goto(t, pc), UNCHANGED <<disputes, approvals, charge>>, RestOK'
  PROVE  IInv'
  <1> DEFINE k == [task[t] EXCEPT !.pc = pc]
  <1>1. task[t] \in TaskType /\ TaskOK(task[t], disputes, approvals)
    BY DEF IInv
  <1>2. /\ k \in TaskType /\ k.pc = pc /\ k.op = task[t].op /\ k.type = task[t].type
        /\ k.dispute = task[t].dispute /\ k.stripe = task[t].stripe
    BY <1>1 DEF TaskType
  <1>3. task' = [task EXCEPT ![t] = k]
    BY DEF Goto
  <1> HIDE DEF k
  <1>4. TaskOK(k, disputes, approvals)
    BY <1>1, <1>2 DEF TaskOK, Refunding
  <1> QED BY <1>3, <1>4, SlotOnly

\* The steps of refundForDispute stay justified; strikes and the last write know
\* what they need.
LEMMA KnownGoto ==
  ASSUME IInv, NEW t \in Tasks,
         NEW pc \in Refunding \cup {"strike", "strikeCreate", "resolve", "insert"},
         Goto(t, pc), UNCHANGED <<disputes, approvals>>, RestOK',
         RefundOK(charge', disputes, approvals),
         pc \in Refunding => task[t].pc \in Refunding,
         pc = "insert" => task[t].pc = "existing",
         pc \in {"strike", "strikeCreate"} => task[t].op \in {"create", "allergen", "fraud"},
         pc = "resolve" => task[t].op \in AdminOps
  PROVE  IInv'
  <1> DEFINE k == [task[t] EXCEPT !.pc = pc]
  <1>1. task[t] \in TaskType /\ TaskOK(task[t], disputes, approvals)
    BY DEF IInv
  <1>2. /\ k \in TaskType /\ k.pc = pc /\ k.op = task[t].op /\ k.type = task[t].type
        /\ k.dispute = task[t].dispute /\ k.stripe = task[t].stripe
    BY <1>1 DEF TaskType, Refunding
  <1>3. task' = [task EXCEPT ![t] = k]
    BY DEF Goto
  <1> HIDE DEF k
  <1>4. TaskOK(k, disputes, approvals)
    BY <1>1, <1>2 DEF TaskOK, Refunding
  <1>5. RowsKept(disputes, disputes') /\ RowsOK(disputes')
    BY DEF RowsKept, IInv
  <1> QED BY <1>3, <1>4, <1>5, OneSlot

-----------------------------------------------------------------------------
\* Handlers begin knowing what their first step needs.
LEMMA StartKeeps ==
  ASSUME IInv, NEW t \in Tasks,
         \/ \E type \in Claims : CreateDispute(t, type)
         \/ \E d \in DisputeIds : AdminConfirm(t, d, "allergen") \/ AdminConfirm(t, d, "fraud")
         \/ \E c \in Chargebacks : HandleChargeDispute(t, c)
         \/ ReleaseDuePendingEntries(t)
  PROVE  IInv'
  <1>0. UNCHANGED <<order, money, disputes, strikes, approvals>>
    BY DEF CreateDispute, AdminConfirm, HandleChargeDispute, ReleaseDuePendingEntries
  <1>1. RestOK'
    BY <1>0 DEF IInv, RestOK, order, money
  <1>2. UNCHANGED <<disputes, approvals, charge>>
    BY <1>0 DEF money
  <1>3. ASSUME NEW type \in Claims, CreateDispute(t, type) PROVE IInv'
    <2> DEFINE k == [Idle EXCEPT !.pc = "existing", !.op = "create", !.type = type,
                                 !.proven = delivered /\ HasDelivery]
    <2>0. (delivered /\ HasDelivery) \in BOOLEAN
      OBVIOUS
    <2>1. /\ k \in TaskType /\ k.pc = "existing" /\ k.op = "create" /\ k.type \in ClaimTypes
          /\ k.dispute = NoDispute
      BY <2>0 DEF TaskType, Idle
    <2>2. task' = [task EXCEPT ![t] = k]
      BY <1>3 DEF CreateDispute, Start
    <2> HIDE DEF k
    <2>3. TaskOK(k, disputes, approvals)
      BY <2>1 DEF TaskOK, AdminOps, Refunding
    <2> QED BY <1>1, <1>2, <2>2, <2>3, SlotOnly
  <1>4. ASSUME NEW d \in DisputeIds, NEW op \in {"allergen", "fraud"}, AdminConfirm(t, d, op)
        PROVE  IInv'
    <2> DEFINE k == [Idle EXCEPT !.pc = "strike", !.op = op, !.dispute = d]
    <2>1. /\ k \in TaskType /\ k.pc = "strike" /\ k.op = op /\ k.dispute = d
      BY DEF TaskType, Idle
    <2>2. task' = [task EXCEPT ![t] = k] /\ d \in RowsOf(disputes)
      BY <1>4 DEF AdminConfirm, Start, Rows, RowsOf
    <2> HIDE DEF k
    <2>3. TaskOK(k, disputes, approvals)
      BY <2>1, <2>2 DEF TaskOK, AdminOps, Refunding
    <2> QED BY <1>1, <1>2, <2>2, <2>3, SlotOnly
  <1>5. ASSUME NEW c \in Chargebacks, HandleChargeDispute(t, c) PROVE IInv'
    <2> DEFINE k == [Idle EXCEPT !.pc = "insertChargeback", !.op = "chargeback",
                                 !.stripe = c]
    <2>1. /\ k \in TaskType /\ k.pc = "insertChargeback" /\ k.op = "chargeback"
          /\ k.dispute = NoDispute /\ k.stripe = c
      BY DEF TaskType, Idle
    <2>2. task' = [task EXCEPT ![t] = k]
      BY <1>5 DEF HandleChargeDispute, Start
    <2> HIDE DEF k
    <2>3. TaskOK(k, disputes, approvals)
      BY <2>1 DEF TaskOK, AdminOps, Refunding
    <2> QED BY <1>1, <1>2, <2>2, <2>3, SlotOnly
  <1>6. ASSUME ReleaseDuePendingEntries(t) PROVE IInv'
    <2> DEFINE k == [Idle EXCEPT !.pc = "sweepOrder", !.op = "sweep"]
    <2>1. /\ k \in TaskType /\ k.pc = "sweepOrder" /\ k.op = "sweep"
          /\ k.dispute = NoDispute
      BY DEF TaskType, Idle
    <2>2. task' = [task EXCEPT ![t] = k]
      BY <1>6 DEF ReleaseDuePendingEntries, Start
    <2> HIDE DEF k
    <2>3. TaskOK(k, disputes, approvals)
      BY <2>1 DEF TaskOK, AdminOps, Refunding
    <2> QED BY <1>1, <1>2, <2>2, <2>3, SlotOnly
  <1> QED BY <1>3, <1>4, <1>5, <1>6

\* An approval justifies the refund it starts.
LEMMA ApproveKeeps ==
  ASSUME IInv, NEW t \in Tasks, NEW d \in DisputeIds, AdminApproveRefund(t, d)
  PROVE  IInv'
  <1> DEFINE k == [Idle EXCEPT !.pc = "refund", !.op = "approve", !.dispute = d]
  <1>1. k \in TaskType /\ k.pc = "refund" /\ k.op = "approve" /\ k.dispute = d
    BY DEF TaskType, Idle
  <1>2. task' = [task EXCEPT ![t] = k] /\ d \in RowsOf(disputes)
    BY DEF AdminApproveRefund, Start, Rows, RowsOf
  <1> HIDE DEF k
  <1>3. approvals' = approvals \cup {d} /\ disputes' = disputes /\ charge' = charge
    BY DEF AdminApproveRefund, money
  <1>4. RowsOK(disputes) /\ RowsKept(disputes, disputes') /\ RowsOK(disputes')
    BY <1>3 DEF IInv, RowsKept
  <1>5. TaskOK(k, disputes', approvals')
    BY <1>1, <1>2, <1>3 DEF TaskOK, AdminOps, Refunding, Justified
  <1>6. RefundOK(charge', disputes', approvals')
    BY <1>3, <1>4, KeptRefund DEF IInv
  <1>7. RestOK'
    BY <1>3 DEF IInv, RestOK, AdminApproveRefund, order, money
  <1> QED BY <1>2, <1>3, <1>4, <1>5, <1>6, <1>7, OneSlot

-----------------------------------------------------------------------------
(* The rows *)

\* A new row disturbs no other.
LEMMA InsertRow ==
  ASSUME NEW D, RowsOK(D), NEW d \in DisputeIds \ RowsOf(D), NEW r \in RowType,
         r.type # "none",
         r.stripe # NoChargeback => \A e \in RowsOf(D) : D[e].stripe # r.stripe
  PROVE  /\ RowsKept(D, [D EXCEPT ![d] = r])
         /\ RowsOK([D EXCEPT ![d] = r])
         /\ d \in RowsOf([D EXCEPT ![d] = r])
  <1> DEFINE E == [D EXCEPT ![d] = r]
  <1>1. D \in [DisputeIds -> RowType]
    BY DEF RowsOK
  <1>2. E \in [DisputeIds -> RowType] /\ E[d] = r
          /\ \A e \in DisputeIds \ {d} : E[e] = D[e]
    BY <1>1
  <1>3. r # NoRow
    BY DEF NoRow
  <1> HIDE DEF E
  <1>4. RowsOf(E) = RowsOf(D) \cup {d}
    BY <1>2, <1>3 DEF RowsOf
  <1>5. RowsKept(D, E)
    BY <1>2 DEF RowsKept, RowsOf
  <1>6. RowsOK(E)
    BY <1>2, <1>4 DEF RowsOK, RowsOf
  <1>7. d \in RowsOf(E)
    BY <1>4
  <1> QED BY <1>5, <1>6, <1>7 DEF E

\* A row whose status changes, or that becomes approved, is otherwise kept.
LEMMA UpdateRow ==
  ASSUME NEW D, RowsOK(D), NEW d \in RowsOf(D), NEW r \in RowType,
         r.type = D[d].type, r.stripe = D[d].stripe, D[d].approved => r.approved
  PROVE  /\ RowsKept(D, [D EXCEPT ![d] = r])
         /\ RowsOK([D EXCEPT ![d] = r])
  <1> DEFINE E == [D EXCEPT ![d] = r]
  <1>1. D \in [DisputeIds -> RowType] /\ d \in DisputeIds
    BY DEF RowsOK, RowsOf
  <1>2. E \in [DisputeIds -> RowType] /\ E[d] = r
          /\ \A e \in DisputeIds \ {d} : E[e] = D[e]
    BY <1>1
  <1>3. r # NoRow
    BY DEF NoRow, RowsOK
  <1> HIDE DEF E
  <1>4. RowsOf(E) = RowsOf(D)
    BY <1>2, <1>3 DEF RowsOf
  <1>5. RowsKept(D, E)
    BY <1>2 DEF RowsKept, RowsOf
  <1>6. RowsOK(E)
    BY <1>2, <1>4 DEF RowsOK, RowsOf
  <1> QED BY <1>5, <1>6 DEF E

\* A claim's row comes with its decision: what will be refunded is approved.
LEMMA InsertKeeps ==
  ASSUME IInv, NEW t \in Tasks, InsertDispute(t)
  PROVE  IInv'
  <1> DEFINE auto == AutoRefund(task[t].type, task[t].proven)
             r == [type |-> task[t].type,
                   status |-> DecidedStatus(task[t].type, task[t].proven),
                   approved |-> auto, stripe |-> NoChargeback]
  <1>0. /\ RowsOK(disputes) /\ task[t] \in TaskType
        /\ TaskOK(task[t], disputes, approvals)
        /\ task[t].op = "create" /\ task[t].type \in ClaimTypes
    BY DEF IInv, TaskOK, InsertDispute, At
  <1>1. auto \in BOOLEAN
    BY DEF AutoRefund
  <1>2. auto => task[t].type \in AutoTypes
    BY DEF AutoRefund, AutoTypes
  <1>3. r \in RowType /\ r.type = task[t].type /\ r.type # "none" /\ r.stripe = NoChargeback
          /\ r.approved = auto
    BY <1>0, <1>1 DEF RowType, DecidedStatus, ClaimTypes
  <1>4. PICK d \in DisputeIds \ RowsOf(disputes) :
          /\ disputes' = [disputes EXCEPT ![d] = r]
          /\ task' = [task EXCEPT ![t] =
                        IF auto THEN [task[t] EXCEPT !.pc = "refund", !.dispute = d]
                        ELSE Idle]
    BY DEF InsertDispute, Rows, RowsOf
  <1>5. UNCHANGED <<order, money, strikes, approvals>>
    BY DEF InsertDispute
  <1> HIDE DEF auto, r
  <1>6. RowsKept(disputes, disputes') /\ RowsOK(disputes') /\ d \in RowsOf(disputes')
    BY <1>0, <1>3, <1>4, InsertRow
  <1>7. RestOK' /\ charge' = charge /\ approvals' = approvals
    BY <1>5 DEF IInv, RestOK, order, money
  <1>8. RefundOK(charge', disputes', approvals')
    BY <1>0, <1>6, <1>7, KeptRefund DEF IInv
  <1>9. CASE auto
    <2> DEFINE k == [task[t] EXCEPT !.pc = "refund", !.dispute = d]
    <2>1. k \in TaskType /\ k.pc = "refund" /\ k.dispute = d /\ k.op = "create"
      BY <1>0 DEF TaskType
    <2>2. task' = [task EXCEPT ![t] = k]
      BY <1>4, <1>9
    <2> HIDE DEF k
    <2>3. disputes'[d].approved /\ disputes'[d].type \in AutoTypes
      BY <1>0, <1>2, <1>3, <1>4, <1>9 DEF RowsOK
    <2>4. TaskOK(k, disputes', approvals')
      BY <1>6, <2>1, <2>3 DEF TaskOK, AdminOps, Refunding, Justified
    <2> QED BY <1>6, <1>7, <1>8, <2>2, <2>4, OneSlot
  <1>10. CASE ~auto
    <2>1. task' = [task EXCEPT ![t] = Idle] /\ TaskOK(Idle, disputes', approvals')
      BY <1>4, <1>10, IdleOK
    <2> QED BY <1>6, <1>7, <1>8, <2>1, OneSlot
  <1> QED BY <1>9, <1>10

\* A chargeback's row is only inserted when it has none.
LEMMA ChargebackKeeps ==
  ASSUME IInv, NEW t \in Tasks, InsertChargeback(t)
  PROVE  IInv'
  <1> DEFINE r == [type |-> "CHARGEBACK", status |-> "ADMIN_REVIEW",
                   approved |-> FALSE, stripe |-> task[t].stripe]
  <1>0. RowsOK(disputes) /\ task[t].stripe \in Chargebacks
    BY DEF IInv, TaskOK, InsertChargeback, At
  <1>1. UNCHANGED <<order, money, strikes, approvals>> /\ Done(t)
    BY DEF InsertChargeback
  <1>2. RestOK' /\ charge' = charge /\ approvals' = approvals
    BY <1>1 DEF IInv, RestOK, order, money
  <1>3. CASE UNCHANGED disputes
    BY <1>1, <1>2, <1>3, DoneKeeps
  <1>4. CASE /\ ~\E d \in Rows : disputes[d].stripe = task[t].stripe
             /\ \E d \in DisputeIds \ Rows : disputes' = [disputes EXCEPT ![d] = r]
    <2>1. PICK d \in DisputeIds \ RowsOf(disputes) : disputes' = [disputes EXCEPT ![d] = r]
      BY <1>4 DEF Rows, RowsOf
    <2>2. r \in RowType /\ r.type # "none" /\ r.stripe = task[t].stripe
      BY <1>0 DEF RowType
    <2>3. \A e \in RowsOf(disputes) : disputes[e].stripe # task[t].stripe
      BY <1>4 DEF Rows, RowsOf
    <2> HIDE DEF r
    <2>4. RowsKept(disputes, disputes') /\ RowsOK(disputes')
      BY <1>0, <2>1, <2>2, <2>3, InsertRow
    <2>5. RefundOK(charge', disputes', approvals')
      BY <1>0, <1>2, <2>4, KeptRefund DEF IInv
    <2>6. task' = [task EXCEPT ![t] = Idle] /\ TaskOK(Idle, disputes', approvals')
      BY <1>1, IdleOK DEF Done
    <2> QED BY <1>2, <2>4, <2>5, <2>6, OneSlot
  <1> QED BY <1>3, <1>4 DEF InsertChargeback

\* The last write of an admin's handler.
LEMMA ResolvedKeeps ==
  ASSUME IInv, NEW t \in Tasks, WriteResolved(t)
  PROVE  IInv'
  <1> DEFINE d == task[t].dispute
             b == disputes[d].approved \/ task[t].op = "approve"
             r == [disputes[d] EXCEPT !.status = "RESOLVED", !.approved = b]
  <1>0. RowsOK(disputes) /\ d \in RowsOf(disputes) /\ disputes[d] \in RowType
    BY DEF IInv, TaskOK, WriteResolved, At, RowsOK, RowsOf
  <1>1. b \in BOOLEAN
    OBVIOUS
  <1>2. /\ r \in RowType /\ r.type = disputes[d].type /\ r.stripe = disputes[d].stripe
        /\ disputes[d].approved => r.approved
    BY <1>0, <1>1 DEF RowType
  <1>3. disputes' = [disputes EXCEPT ![d] = r]
    BY DEF WriteResolved
  <1>4. UNCHANGED <<order, money, strikes, approvals>> /\ Done(t)
    BY DEF WriteResolved
  <1> HIDE DEF r, b, d
  <1>5. RowsKept(disputes, disputes') /\ RowsOK(disputes')
    BY <1>0, <1>2, <1>3, UpdateRow
  <1>6. RestOK' /\ charge' = charge /\ approvals' = approvals
    BY <1>4 DEF IInv, RestOK, order, money
  <1>7. RefundOK(charge', disputes', approvals')
    BY <1>0, <1>5, <1>6, KeptRefund DEF IInv
  <1>8. task' = [task EXCEPT ![t] = Idle] /\ TaskOK(Idle, disputes', approvals')
    BY <1>4, IdleOK DEF Done
  <1> QED BY <1>5, <1>6, <1>7, <1>8, OneSlot

\* Rejecting and resolving write the status alone.
LEMMA DecideKeeps ==
  ASSUME IInv, NEW d \in DisputeIds, AdminRejectDispute(d) \/ AdminResolveDispute(d)
  PROVE  IInv'
  <1>0. RowsOK(disputes) /\ d \in RowsOf(disputes) /\ disputes[d] \in RowType
    BY DEF IInv, RowsOK, RowsOf, Rows, AdminRejectDispute, AdminResolveDispute
  <1>1. PICK s \in Decided : disputes' = [disputes EXCEPT ![d].status = s]
    BY DEF AdminRejectDispute, AdminResolveDispute, Decided
  <1> DEFINE r == [disputes[d] EXCEPT !.status = s]
  <1>2. /\ r \in RowType /\ r.type = disputes[d].type /\ r.stripe = disputes[d].stripe
        /\ r.approved = disputes[d].approved
    BY <1>0 DEF RowType, Decided
  <1>3. disputes' = [disputes EXCEPT ![d] = r]
    BY <1>1
  <1>4. UNCHANGED <<order, money, strikes, approvals, task>>
    BY DEF AdminRejectDispute, AdminResolveDispute
  <1> HIDE DEF r
  <1>5. RowsKept(disputes, disputes') /\ RowsOK(disputes')
    BY <1>0, <1>2, <1>3, UpdateRow
  <1>6. RestOK' /\ charge' = charge /\ approvals' = approvals /\ task' = task
    BY <1>4 DEF IInv, RestOK, order, money
  <1> QED BY <1>5, <1>6, NoSlot

-----------------------------------------------------------------------------
(* The other steps *)

\* The refund is made for a handler that is justified.
LEMMA RefundKeeps ==
  ASSUME IInv, NEW t \in Tasks,
         \/ RefundRead(t) \/ RefundCreate(t) \/ RefundRecord(t) \/ ReversePending(t)
         \/ MarkRefunded(t)
  PROVE  IInv'
  <1>0. /\ task[t].pc \in Refunding
        /\ UNCHANGED <<disputes, strikes, approvals, delivered, late, hasIntent, opened>>
    BY DEF RefundRead, RefundCreate, RefundRecord, ReversePending, MarkRefunded, At,
           Refunding, order, money
  <1>1. RestOK'
    BY <1>0 DEF IInv, RestOK, RefundRead, RefundCreate, RefundRecord, ReversePending,
                MarkRefunded, order, money
  <1>2. RefundOK(charge', disputes, approvals)
    <2>1. Justified(task[t].dispute, disputes, approvals)
            /\ task[t].dispute \in DisputeIds
      BY <1>0 DEF IInv, TaskOK, Justified, RowsOf
    <2> QED BY <2>1 DEF RefundOK
  <1>3. CASE RefundRead(t) \/ RefundCreate(t) \/ RefundRecord(t) \/ ReversePending(t)
    <2>1. PICK pc \in Refunding : Goto(t, pc)
      BY <1>3 DEF RefundRead, RefundCreate, RefundRecord, ReversePending, Refunding
    <2>2. pc \notin {"strike", "strikeCreate", "resolve", "insert"}
      BY DEF Refunding
    <2> QED BY <1>0, <1>1, <1>2, <2>1, <2>2, KnownGoto
  <1>4. CASE MarkRefunded(t)
    <2>1. charge' = charge
      BY <1>4 DEF MarkRefunded, money
    <2>2. CASE task[t].op = "approve" /\ Goto(t, "resolve")
      BY <1>0, <1>1, <1>2, <2>2, KnownGoto DEF AdminOps, Refunding
    <2>3. CASE task[t].op = "create" /\ Goto(t, "strike")
      BY <1>0, <1>1, <1>2, <2>3, KnownGoto DEF Refunding
    <2>4. CASE Done(t)
      BY <1>0, <1>1, <2>1, <2>4, DoneKeeps
    <2> QED BY <1>4, <2>2, <2>3, <2>4 DEF MarkRefunded
  <1> QED BY <1>3, <1>4

\* Strikes, the duplicate check and the sweep leave rows and charge alone.
LEMMA OtherKeeps ==
  ASSUME IInv, NEW t \in Tasks,
         \/ FindExisting(t) \/ AddStrikeCheck(t) \/ AddStrikeCreate(t)
         \/ SweepReadOrder(t) \/ SweepWrite(t) \/ Abort(t)
  PROVE  IInv'
  <1>0. /\ UNCHANGED <<order, disputes, approvals, charge, refundId, opened>>
        /\ RefundOK(charge', disputes, approvals)
    BY DEF FindExisting, AddStrikeCheck, AddStrikeCreate, SweepReadOrder, SweepWrite,
           Abort, money, IInv
  <1>1. strikes' \in [StrikeReasons -> Nat]
    BY DEF FindExisting, AddStrikeCheck, AddStrikeCreate, SweepReadOrder, SweepWrite,
           Abort, IInv, RestOK
  <1>2. earning' \in {"none", "PENDING", "AVAILABLE", "CANCELLED"}
    BY DEF FindExisting, AddStrikeCheck, AddStrikeCreate, SweepReadOrder, SweepWrite,
           Abort, money, IInv, RestOK
  <1>3. RestOK'
    BY <1>0, <1>1, <1>2 DEF IInv, RestOK, order
  <1>4. CASE Done(t)
    BY <1>0, <1>3, <1>4, DoneKeeps
  <1>5. CASE FindExisting(t) /\ Goto(t, "insert")
    BY <1>0, <1>3, <1>5, KnownGoto DEF FindExisting, At, Refunding
  <1>6. CASE AddStrikeCheck(t) /\ ~Done(t)
    <2>1. task[t].op \in {"create", "allergen", "fraud"}
      BY <1>6 DEF AddStrikeCheck, At, IInv, TaskOK
    <2>2. CASE Goto(t, "strikeCreate")
      BY <1>0, <1>3, <2>1, <2>2, KnownGoto DEF Refunding
    <2>3. CASE AfterStrike(t)
      <3>1. Goto(t, "resolve") /\ task[t].op # "create"
        BY <1>6, <2>3 DEF AfterStrike
      <3> QED BY <1>0, <1>3, <2>1, <3>1, KnownGoto DEF Refunding, AdminOps
    <2> QED BY <1>6, <2>2, <2>3 DEF AddStrikeCheck
  <1>7. CASE AddStrikeCreate(t) /\ ~Done(t)
    <2>1. task[t].op \in {"create", "allergen", "fraud"}
      BY <1>7 DEF AddStrikeCreate, At, IInv, TaskOK
    <2>2. Goto(t, "resolve") /\ task[t].op # "create"
      BY <1>7 DEF AddStrikeCreate, AfterStrike
    <2> QED BY <1>0, <1>3, <2>1, <2>2, KnownGoto DEF Refunding, AdminOps
  <1>8. CASE SweepReadOrder(t) /\ ~Done(t)
    <2>1. PICK pc \in {"release", "sweepReverse"} : Goto(t, pc)
      BY <1>8 DEF SweepReadOrder
    <2> QED BY <1>0, <1>3, <2>1, FreeGoto
  <1> QED BY <1>4, <1>5, <1>6, <1>7, <1>8 DEF FindExisting, SweepWrite, Abort

\* Delivery, time and chargebacks at Stripe touch no handler and no row.
LEMMA WorldKeeps ==
  ASSUME IInv, Deliver \/ ADayPasses \/ \E c \in Chargebacks : ChargebackOpened(c)
  PROVE  IInv'
  <1>1. /\ UNCHANGED <<task, disputes, approvals, charge, strikes, hasIntent, refundId>>
        /\ RestOK'
    BY DEF Deliver, ADayPasses, ChargebackOpened, order, money, IInv, RestOK
  <1>2. RowsKept(disputes, disputes') /\ RowsOK(disputes')
    BY <1>1 DEF RowsKept, IInv
  <1> QED BY <1>1, <1>2, NoSlot

-----------------------------------------------------------------------------
\* The initial states satisfy the invariant.
LEMMA InitIInv == Init => IInv
  <1> SUFFICES ASSUME Init PROVE IInv
    OBVIOUS
  <1>1. RestOK
    BY DEF Init, RestOK
  <1>2. RowsOK(disputes) /\ RefundOK(charge, disputes, approvals)
    <2>1. NoRow \in RowType
      BY DEF NoRow, RowType
    <2>2. RowsOf(disputes) = {}
      BY DEF Init, RowsOf
    <2>3. disputes \in [DisputeIds -> RowType]
      BY <2>1 DEF Init
    <2> QED BY <2>2, <2>3 DEF RowsOK, RefundOK, Init
  <1>3. task \in [Tasks -> TaskType] /\ \A t \in Tasks : TaskOK(task[t], disputes, approvals)
    <2>1. Idle \in TaskType
      BY DEF Idle, TaskType
    <2> QED BY <2>1, IdleOK DEF Init
  <1> QED BY <1>1, <1>2, <1>3 DEF IInv

\* Every step, and a stuttering step, keeps the invariant.
LEMMA NextIInv == IInv /\ [Next]_vars => IInv'
  <1> SUFFICES ASSUME IInv, [Next]_vars PROVE IInv'
    OBVIOUS
  <1>1. CASE UNCHANGED vars
    BY <1>1 DEF vars, order, money, IInv, RestOK
  <1>2. ASSUME NEW t \in Tasks, Step(t) PROVE IInv'
    BY <1>2, RefundKeeps, OtherKeeps, InsertKeeps, ChargebackKeeps, ResolvedKeeps DEF Step
  <1> QED BY <1>1, <1>2, StartKeeps, ApproveKeeps, OtherKeeps, DecideKeeps, WorldKeeps
          DEF Next, AdminConfirmAllergenViolation, AdminConfirmFraudulentChargeback

\* Every refund goes back to a claim that is refunded at once, or to an approval
\* (createDispute, adminApproveRefund), under every interleaving and failure.
THEOREM RefundsAreClaimed == Spec => []NoRefundWithoutClaim
  BY InitIInv, NextIInv, IInvImplies, PTL DEF Spec

\* A Stripe dispute has one row, however often and close together its events come
\* (handleChargeDispute).
THEOREM ChargebackHasOneRow == Spec => []OneRowPerChargeback
  BY InitIInv, NextIInv, IInvImplies, PTL DEF Spec

\* No step takes a decided dispute back to review (handleChargeDispute).
THEOREM DecisionsLast == Spec => AdminDecisionKept
  <1> DEFINE Kept == \A d \in DisputeIds : disputes[d].status \in Decided =>
                       /\ disputes'[d].status \in Decided
                       /\ disputes'[d].stripe = disputes[d].stripe
  <1>1. IInv /\ [Next]_vars => [Kept]_vars
    <2> SUFFICES ASSUME IInv, Next PROVE Kept
      OBVIOUS
    <2>0. disputes \in [DisputeIds -> RowType] /\ Rows \subseteq DisputeIds
      BY DEF IInv, RowsOK, Rows
    <2>1. CASE disputes' = disputes
      BY <2>1
    <2>2. ASSUME NEW d \in DisputeIds \ Rows, NEW r, disputes' = [disputes EXCEPT ![d] = r]
          PROVE  Kept
      <3>1. disputes[d].status \notin Decided
        BY <2>2 DEF Rows, NoRow, Decided
      <3> QED BY <2>0, <2>2, <3>1
    <2>3. ASSUME NEW d \in DisputeIds, NEW r, r.status \in Decided,
                 r.stripe = disputes[d].stripe, disputes' = [disputes EXCEPT ![d] = r]
          PROVE  Kept
      BY <2>0, <2>3
    <2>4. ASSUME NEW t \in Tasks, WriteResolved(t) PROVE Kept
      <3> DEFINE d == task[t].dispute
                 b == disputes[d].approved \/ task[t].op = "approve"
                 r == [disputes[d] EXCEPT !.status = "RESOLVED", !.approved = b]
      <3>1. d \in DisputeIds
        BY <2>4 DEF IInv, TaskOK, WriteResolved, At, RowsOf
      <3>2. disputes[d] \in RowType /\ b \in BOOLEAN
        BY <2>0, <3>1
      <3>3. r.status = "RESOLVED" /\ r.stripe = disputes[d].stripe
        BY <3>2 DEF RowType
      <3>4. disputes' = [disputes EXCEPT ![d] = r]
        BY <2>4 DEF WriteResolved
      <3> HIDE DEF r, b, d
      <3> QED BY <2>3, <3>1, <3>3, <3>4 DEF Decided
    <2>5. ASSUME NEW d \in DisputeIds, AdminRejectDispute(d) \/ AdminResolveDispute(d)
          PROVE  Kept
      <3>1. PICK s \in Decided : disputes' = [disputes EXCEPT ![d].status = s]
        BY <2>5 DEF AdminRejectDispute, AdminResolveDispute, Decided
      <3> DEFINE r == [disputes[d] EXCEPT !.status = s]
      <3>2. r.status = s /\ r.stripe = disputes[d].stripe
        BY <2>0 DEF RowType
      <3>3. disputes' = [disputes EXCEPT ![d] = r]
        BY <3>1
      <3> HIDE DEF r
      <3> QED BY <2>3, <3>2, <3>3
    <2>6. ASSUME NEW t \in Tasks, InsertDispute(t) \/ InsertChargeback(t) PROVE Kept
      BY <2>1, <2>2, <2>6 DEF InsertDispute, InsertChargeback
    <2>7. CASE \/ Deliver \/ ADayPasses
               \/ \E c \in Chargebacks : ChargebackOpened(c)
               \/ \E t \in Tasks :
                    \/ \E type \in Claims : CreateDispute(t, type)
                    \/ \E d \in DisputeIds :
                         AdminApproveRefund(t, d) \/ AdminConfirm(t, d, "allergen")
                           \/ AdminConfirm(t, d, "fraud")
                    \/ \E c \in Chargebacks : HandleChargeDispute(t, c)
                    \/ ReleaseDuePendingEntries(t)
                    \/ FindExisting(t) \/ RefundRead(t) \/ RefundCreate(t)
                    \/ RefundRecord(t) \/ ReversePending(t) \/ MarkRefunded(t)
                    \/ AddStrikeCheck(t) \/ AddStrikeCreate(t)
                    \/ SweepReadOrder(t) \/ SweepWrite(t) \/ Abort(t)
      BY <2>1, <2>7 DEF Deliver, ADayPasses, ChargebackOpened, CreateDispute,
           AdminApproveRefund, AdminConfirm, HandleChargeDispute,
           ReleaseDuePendingEntries, FindExisting, RefundRead, RefundCreate,
           RefundRecord, ReversePending, MarkRefunded, AddStrikeCheck,
           AddStrikeCreate, SweepReadOrder, SweepWrite, Abort
    <2> HIDE DEF Kept
    <2> QED BY <2>4, <2>5, <2>6, <2>7 DEF Next, Step, AdminConfirmAllergenViolation,
             AdminConfirmFraudulentChargeback
  <1>2. [][Kept]_vars => AdminDecisionKept
    BY PTL DEF AdminDecisionKept
  <1> QED BY InitIInv, NextIInv, <1>1, <1>2, PTL DEF Spec
=============================================================================
