--------------------------- MODULE CheckoutProofs ---------------------------
(***************************************************************************)
(* What Checkout guarantees for any number of requests in flight, buyers,  *)
(* keys, carts and orders, and any failures: stock never goes below zero,  *)
(* one Idempotency-Key never charges a buyer twice, and every portion is   *)
(* on the shelf, in an open transaction or in an order.                    *)
(***************************************************************************)
EXTENDS Checkout, FiniteSetTheorems, WellFoundedInduction, TLAPS

\* A stored response names an order of its own buyer and key.
KeysMatch ==
    \A u \in Users, k \in Keys :
      keys[<<u, k>>] # NoResponse =>
        /\ keys[<<u, k>>].order \in OrderIds
        /\ orders[keys[<<u, k>>].order].user = u
        /\ orders[keys[<<u, k>>].order].key = k

\* The order a request has inserted carries the request's buyer and key, and
\* when the request is about to answer, it is the one stored under the key.
TasksMatch ==
    \A t \in Tasks :
      /\ task[t].pc # "idle" =>
           task[t].user \in Users /\ task[t].key \in Keys /\ task[t].cart \in Carts
      /\ task[t].pc \in {"intent", "save", "answer"} =>
           /\ task[t].order \in OrderIds
           /\ orders[task[t].order].user = task[t].user
           /\ orders[task[t].order].key = task[t].key
      /\ task[t].pc = "answer" => keys[KeyOf(t)].order = task[t].order

\* An order whose client secret went out is the one stored under its key.
AnswersMatch ==
    \A o \in answered :
      /\ orders[o].user \in Users /\ orders[o].key \in Keys
      /\ keys[<<orders[o].user, orders[o].key>>].order = o

\* An inserted order keeps its cart.
CartsKept == \A o \in OrderIds : orders[o].user \in Users => orders[o].cart \in Carts

IInv ==
    /\ TypeOK /\ KeysMatch /\ TasksMatch /\ AnswersMatch /\ CartsKept
    /\ charged \subseteq answered

\* The idle record has the type of a request.
LEMMA IdleType == Idle \in TaskType
  BY DEF Idle, TaskType, Nothing

\* The invariant holds at the start: nothing is stored, answered or charged.
LEMMA InitInv == Init => IInv
<1> SUFFICES ASSUME Init PROVE IInv
  OBVIOUS
<1>1. TypeOK
  BY StockAssumption, IdleType
     DEF Init, TypeOK, NoRow, RowType, OrderStatuses, NoResponse
<1>2. TasksMatch
  BY DEF Init, TasksMatch, Idle
<1> QED
  BY <1>1, <1>2, NullsAssumption DEF Init, IInv, KeysMatch, AnswersMatch, CartsKept, NoRow

-----------------------------------------------------------------------------
(* What the ways of moving a request on do to its record. *)

\* Moving a request on changes its program counter only.
LEMMA GotoFacts ==
  ASSUME TypeOK, NEW t \in Tasks, NEW pc,
         pc \in {"customer", "decrement", "saveCustomer", "save", "answer"},
         Goto(t, pc)
  PROVE  /\ task' \in [Tasks -> TaskType]
         /\ \A u \in Tasks \ {t} : task'[u] = task[u]
         /\ task'[t].pc = pc
         /\ task'[t].user = task[t].user /\ task'[t].key = task[t].key
         /\ task'[t].cart = task[t].cart /\ task'[t].order = task[t].order
<1>1. ASSUME NEW k \in TaskType PROVE [k EXCEPT !.pc = pc] \in TaskType
  BY <1>1 DEF TaskType
<1>2. task \in [Tasks -> TaskType] /\ task[t] \in TaskType
  BY DEF TypeOK
<1>3. task'[t] = [task[t] EXCEPT !.pc = pc]
  BY <1>2 DEF Goto
<1>4. task' \in [Tasks -> TaskType]
  BY <1>1, <1>2 DEF Goto
<1> QED
  BY <1>2, <1>3, <1>4 DEF Goto, TaskType

\* Ending a request frees its slot and no other.
LEMMA DoneFacts ==
  ASSUME TypeOK, NEW t \in Tasks, Done(t)
  PROVE  /\ task' \in [Tasks -> TaskType]
         /\ \A u \in Tasks \ {t} : task'[u] = task[u]
         /\ task'[t] = Idle
  BY IdleType DEF TypeOK, Done

\* A rollback adds natural numbers to natural numbers.
LEMMA RollbackType ==
  ASSUME TypeOK, NEW t \in Tasks
  PROVE  RolledBack(t) \in [Listings -> Nat]
<1>1. task[t].taken \in [Listings -> Nat]
  BY DEF TypeOK, TaskType
<1> QED
  BY <1>1 DEF TypeOK, RolledBack

-----------------------------------------------------------------------------
(* Steps that write none of the rows the invariant relates. *)

\* The request moves to pc and keeps everything it carries.
Moved(t, pc) ==
    /\ task[t].pc # "idle"
    /\ task'[t].pc = pc
    /\ task'[t].user = task[t].user /\ task'[t].key = task[t].key
    /\ task'[t].cart = task[t].cart /\ task'[t].order = task[t].order

\* A step that leaves orders, keys, answers and charges alone keeps the relations
\* between them.
LEMMA QuietStep ==
  ASSUME IInv, NEW t \in Tasks, UNCHANGED <<orders, keys, answered, charged>>,
         \A u \in Tasks \ {t} : task'[u] = task[u],
         \/ task'[t] = Idle
         \/ Moved(t, task'[t].pc) /\ task'[t].pc \in {"cart", "customer", "saveCustomer", "decrement"}
         \/ Moved(t, "save") /\ task[t].pc = "intent"
  PROVE  /\ KeysMatch' /\ TasksMatch' /\ AnswersMatch' /\ CartsKept'
         /\ charged' \subseteq answered'
<1>1. KeysMatch' /\ AnswersMatch' /\ CartsKept' /\ charged' \subseteq answered'
  BY DEF IInv, KeysMatch, AnswersMatch, CartsKept
<1>2. TasksMatch'
  BY DEF IInv, TasksMatch, Moved, Idle, KeyOf
<1> QED
  BY <1>1, <1>2

-----------------------------------------------------------------------------
(* The steps of a request, one by one. *)

\* Loading the buyer only copies what the User row holds.
LEMMA LoadBuyerStep ==
  ASSUME IInv, NEW t \in Tasks, LoadBuyer(t) PROVE IInv'
<1> DEFINE has == task[t].user \in stored
<1>0. has \in BOOLEAN
  OBVIOUS
<1> HIDE DEF has
<1>1. ASSUME NEW k \in TaskType
      PROVE  /\ [k EXCEPT !.pc = "cart", !.has = has] \in TaskType
             /\ LET j == [k EXCEPT !.pc = "cart", !.has = has]
                IN  /\ j.pc = "cart" /\ j.user = k.user /\ j.key = k.key
                    /\ j.cart = k.cart /\ j.order = k.order
  BY <1>0, <1>1 DEF TaskType
<1>2. task \in [Tasks -> TaskType] /\ task[t] \in TaskType
  BY DEF IInv, TypeOK
<1>3. task' = [task EXCEPT ![t] = [task[t] EXCEPT !.pc = "cart", !.has = has]]
  BY <1>2 DEF LoadBuyer, has
<1>3a. task' \in [Tasks -> TaskType]
  BY <1>1, <1>2, <1>3
<1>4. TypeOK'
  BY <1>3a DEF LoadBuyer, IInv, TypeOK
<1>5. Moved(t, "cart") /\ \A u \in Tasks \ {t} : task'[u] = task[u]
  BY <1>1, <1>2, <1>3 DEF LoadBuyer, At, Moved
<1> QED
  BY <1>4, <1>5, QuietStep DEF LoadBuyer, IInv, Moved

\* The checks and the calls to Stripe write no order and no key.
LEMMA CustomerStep ==
  ASSUME IInv, NEW t \in Tasks,
         \/ LoadAndValidateCart(t) \/ EnsureStripeCustomer(t)
         \/ SaveStripeCustomer(t) \/ CreatePaymentIntent(t)
  PROVE  IInv'
<1>1. TypeOK /\ TasksMatch /\ task[t].pc # "idle" /\ task[t].user \in Users
  BY DEF LoadAndValidateCart, EnsureStripeCustomer, SaveStripeCustomer,
         CreatePaymentIntent, At, IInv, TasksMatch
<1>2. ASSUME Done(t), UNCHANGED <<portionsLeft, orders, keys, intent, answered, charged,
                                  customers, stored, stockOuts>>
      PROVE  IInv'
  BY <1>1, <1>2, DoneFacts, QuietStep DEF IInv, TypeOK
<1>3. ASSUME NEW pc \in {"customer", "decrement", "saveCustomer", "save"}, Goto(t, pc),
             pc = "save" => task[t].pc = "intent",
             UNCHANGED <<portionsLeft, orders, keys, answered, charged, stockOuts>>,
             customers' \in [Users -> Nat], stored' \subseteq Users,
             intent' \subseteq OrderIds
      PROVE  IInv'
  <2>1. task' \in [Tasks -> TaskType] /\ Moved(t, pc)
        /\ \A u \in Tasks \ {t} : task'[u] = task[u]
    BY <1>1, <1>3, GotoFacts DEF Moved
  <2>2. /\ KeysMatch' /\ TasksMatch' /\ AnswersMatch' /\ CartsKept'
        /\ charged' \subseteq answered'
    BY <1>3, <2>1, QuietStep DEF Moved
  <2> QED
    BY <1>1, <1>3, <2>1, <2>2 DEF IInv, TypeOK
<1>4. CASE EnsureStripeCustomer(t)
  <2>1. ASSUME customers' = [customers EXCEPT ![task[t].user] =
                               IF @ < MaxCustomers THEN @ + 1 ELSE @]
        PROVE  customers' \in [Users -> Nat]
    BY <1>1, <2>1 DEF TypeOK
  <2> QED
    BY <1>1, <1>2, <1>3, <1>4, <2>1 DEF EnsureStripeCustomer, TypeOK
<1>5. CASE SaveStripeCustomer(t)
  BY <1>1, <1>3, <1>5 DEF SaveStripeCustomer, TypeOK
<1>6. CASE CreatePaymentIntent(t)
  <2>1. task[t].order \in OrderIds
    BY <1>1, <1>6 DEF CreatePaymentIntent, At, TasksMatch
  <2> QED
    BY <1>1, <1>2, <1>3, <1>6, <2>1 DEF CreatePaymentIntent, At, TypeOK
<1>7. CASE LoadAndValidateCart(t)
  BY <1>1, <1>2, <1>3, <1>7 DEF LoadAndValidateCart, TypeOK
<1> QED
  BY <1>4, <1>5, <1>6, <1>7

\* The UPDATE's own condition keeps the stock a natural number.
LEMMA DecrementStep ==
  ASSUME IInv, NEW t \in Tasks, AtomicDecrementInventory(t) PROVE IInv'
<1>1. PICK l \in Listings \ CookToOrder :
        /\ NextListing(t, l)
        /\ portionsLeft[l] >= Wanted(task[t].cart, l)
        /\ portionsLeft' = [portionsLeft EXCEPT ![l] = @ - Wanted(task[t].cart, l)]
        /\ task' = [task EXCEPT ![t].taken[l] = Wanted(task[t].cart, l)]
  BY DEF AtomicDecrementInventory
<1> DEFINE q == Wanted(task[t].cart, l)
<1>2. task[t].pc = "decrement" /\ task[t].cart \in Carts
  BY <1>1 DEF NextListing, At, IInv, TasksMatch
<1>3. q \in Nat
  BY <1>2, CartsAssumption
<1> HIDE DEF q
<1>4. portionsLeft' \in [Listings -> Nat]
  BY <1>1, <1>3 DEF q, IInv, TypeOK
<1>5. ASSUME NEW k \in TaskType
      PROVE  /\ [k EXCEPT !.taken[l] = q] \in TaskType
             /\ LET j == [k EXCEPT !.taken[l] = q]
                IN  /\ j.pc = k.pc /\ j.user = k.user /\ j.key = k.key
                    /\ j.cart = k.cart /\ j.order = k.order
  BY <1>3, <1>5 DEF TaskType
<1>6. task \in [Tasks -> TaskType] /\ task[t] \in TaskType
  BY DEF IInv, TypeOK
<1>7. task' = [task EXCEPT ![t] = [task[t] EXCEPT !.taken[l] = q]]
  BY <1>1, <1>6 DEF q
<1>8. /\ task' \in [Tasks -> TaskType] /\ Moved(t, "decrement")
      /\ \A u \in Tasks \ {t} : task'[u] = task[u]
  BY <1>2, <1>5, <1>6, <1>7 DEF Moved
<1>9. UNCHANGED <<orders, keys, intent, answered, charged, customers, stored, stockOuts>>
  BY DEF AtomicDecrementInventory
<1> QED
  BY <1>4, <1>8, <1>9, QuietStep DEF IInv, TypeOK, Moved

\* A rollback gives back what was taken and ends the request.
LEMMA RollbackStep ==
  ASSUME IInv, NEW t \in Tasks, StockOut(t) \/ DeadlockVictim(t) \/ Abort(t)
  PROVE  IInv'
<1>1. /\ Done(t) /\ portionsLeft' = RolledBack(t)
      /\ UNCHANGED <<orders, keys, intent, answered, charged, customers, stored>>
  BY DEF StockOut, DeadlockVictim, Abort
<1>2. stockOuts' \subseteq Carts
  BY DEF StockOut, NoRowMatches, NextListing, DeadlockVictim, Abort, At, IInv, TypeOK, TasksMatch
<1>3. TypeOK'
  BY <1>1, <1>2, DoneFacts, RollbackType DEF IInv, TypeOK
<1> QED
  BY <1>1, <1>3, DoneFacts, QuietStep DEF IInv

-----------------------------------------------------------------------------
(* The steps that write orders, keys, answers and charges. *)

\* A lookup: a miss starts a request, a hit answers with the stored order.
LEMMA CreateStep ==
  ASSUME IInv, NEW t \in Tasks, NEW u \in Users, NEW k \in Keys, NEW cart \in Carts,
         Create(t, u, k, cart)
  PROVE  IInv'
<1>1. CASE UNCHANGED answered /\ keys[<<u, k>>] = NoResponse
        /\ task' = [task EXCEPT ![t].pc = "buyer", ![t].user = u,
                                ![t].key = k, ![t].cart = cart]
  <2>1. ASSUME NEW r \in TaskType
        PROVE  LET j == [r EXCEPT !.pc = "buyer", !.user = u, !.key = k, !.cart = cart]
               IN  /\ j \in TaskType /\ j.pc = "buyer" /\ j.user = u /\ j.key = k
                   /\ j.cart = cart
    BY <2>1 DEF TaskType
  <2>2. task \in [Tasks -> TaskType] /\ task[t] \in TaskType
    BY DEF IInv, TypeOK
  <2>3. task' = [task EXCEPT ![t] = [task[t] EXCEPT !.pc = "buyer", !.user = u,
                                                    !.key = k, !.cart = cart]]
    BY <1>1, <2>2
  <2>4. /\ task' \in [Tasks -> TaskType] /\ task'[t].pc = "buyer"
        /\ task'[t].user = u /\ task'[t].key = k /\ task'[t].cart = cart
        /\ \A v \in Tasks \ {t} : task'[v] = task[v]
    BY <2>1, <2>2, <2>3
  <2>5. UNCHANGED <<portionsLeft, orders, keys, intent, answered, charged,
                    customers, stored, stockOuts>>
    BY <1>1 DEF Create
  <2>6. TypeOK' /\ KeysMatch' /\ AnswersMatch' /\ CartsKept' /\ charged' \subseteq answered'
    BY <2>4, <2>5 DEF IInv, TypeOK, KeysMatch, AnswersMatch, CartsKept
  <2>7. TasksMatch'
    BY <2>4, <2>5 DEF IInv, TasksMatch, KeyOf
  <2> QED
    BY <2>6, <2>7 DEF IInv
<1>2. CASE /\ keys[<<u, k>>].cart = cart
           /\ answered' = answered \cup {keys[<<u, k>>].order}
           /\ UNCHANGED task
  <2> DEFINE o == keys[<<u, k>>].order
  <2>1. keys[<<u, k>>] # NoResponse
    BY <1>2, NullsAssumption DEF NoResponse
  <2>2. o \in OrderIds /\ orders[o].user = u /\ orders[o].key = k
    BY <2>1 DEF IInv, KeysMatch
  <2>3. UNCHANGED <<portionsLeft, orders, keys, intent, charged, customers,
                    stored, stockOuts, task>>
    BY <1>2 DEF Create
  <2>4. AnswersMatch'
    BY <1>2, <2>2, <2>3 DEF IInv, AnswersMatch
  <2>5. TypeOK' /\ KeysMatch' /\ TasksMatch' /\ CartsKept' /\ charged' \subseteq answered'
    BY <1>2, <2>2, <2>3 DEF IInv, TypeOK, KeysMatch, TasksMatch, KeyOf, CartsKept
  <2> QED
    BY <2>4, <2>5 DEF IInv
<1> QED
  BY <1>1, <1>2 DEF Create

\* insertOrder writes a row that was free, so no other request, stored response
\* or answer names it.
LEMMA InsertStep ==
  ASSUME IInv, NEW t \in Tasks, InsertOrder(t) PROVE IInv'
<1>1. PICK o \in Unused :
        /\ orders' = [orders EXCEPT ![o] =
                        [status |-> "PENDING", user |-> task[t].user,
                         key |-> task[t].key, cart |-> task[t].cart]]
        /\ task' = [task EXCEPT ![t].pc = "intent", ![t].order = o,
                                ![t].taken = Nothing]
  BY DEF InsertOrder
<1>2. o \in OrderIds /\ orders[o] = NoRow
  BY DEF Unused
<1>3. task[t].user \in Users /\ task[t].key \in Keys /\ task[t].cart \in Carts
  BY DEF InsertOrder, At, IInv, TasksMatch
<1>4. ASSUME NEW r \in TaskType
      PROVE  LET j == [r EXCEPT !.pc = "intent", !.order = o, !.taken = Nothing]
             IN  /\ j \in TaskType /\ j.pc = "intent" /\ j.order = o
                 /\ j.user = r.user /\ j.key = r.key /\ j.cart = r.cart
  BY <1>2, <1>4 DEF TaskType, Nothing
<1>5. task \in [Tasks -> TaskType] /\ task[t] \in TaskType
  BY DEF IInv, TypeOK
<1>6. task' = [task EXCEPT ![t] = [task[t] EXCEPT !.pc = "intent", !.order = o,
                                                  !.taken = Nothing]]
  BY <1>1, <1>5
<1>7. /\ task' \in [Tasks -> TaskType] /\ task'[t].pc = "intent" /\ task'[t].order = o
      /\ task'[t].user = task[t].user /\ task'[t].key = task[t].key
      /\ task'[t].cart = task[t].cart
      /\ \A v \in Tasks \ {t} : task'[v] = task[v]
  BY <1>4, <1>5, <1>6
<1>8. /\ orders'[o].user = task[t].user /\ orders'[o].key = task[t].key
      /\ orders'[o].cart = task[t].cart
      /\ \A p \in OrderIds \ {o} : orders'[p] = orders[p]
      /\ orders' \in [OrderIds -> RowType]
  BY <1>1, <1>2, <1>3 DEF IInv, TypeOK, RowType, OrderStatuses
<1>9. UNCHANGED <<portionsLeft, keys, intent, answered, charged, customers,
                  stored, stockOuts>>
  BY DEF InsertOrder
<1>10. \A p \in OrderIds : orders[p].user \in Users => p # o
  BY <1>2, NullsAssumption DEF NoRow
<1>11. TypeOK' /\ CartsKept' /\ charged' \subseteq answered'
  BY <1>3, <1>7, <1>8, <1>9 DEF IInv, TypeOK, CartsKept
<1>12. KeysMatch'
  BY <1>8, <1>9, <1>10 DEF IInv, KeysMatch
<1>13. AnswersMatch'
  BY <1>8, <1>9, <1>10 DEF IInv, TypeOK, AnswersMatch
<1>14. TasksMatch'
  <2> SUFFICES ASSUME NEW v \in Tasks
               PROVE  TasksMatch!(v)'
    BY DEF TasksMatch
  <2>1. CASE v = t
    BY <1>2, <1>3, <1>7, <1>8, <2>1
  <2>2. CASE v # t
    <3>1. TasksMatch!(v) /\ task'[v] = task[v]
      BY <1>7, <2>2 DEF IInv, TasksMatch
    <3> QED
      BY <1>8, <1>9, <1>10, <3>1 DEF KeyOf
  <2> QED
    BY <2>1, <2>2
<1> QED
  BY <1>11, <1>12, <1>13, <1>14 DEF IInv

\* The unique (userId, key): a stored response is never replaced.
LEMMA SaveStep ==
  ASSUME IInv, NEW t \in Tasks, SaveResponse(t) PROVE IInv'
<1>1. /\ task[t].pc = "save" /\ task[t].user \in Users /\ task[t].key \in Keys
      /\ task[t].cart \in Carts /\ task[t].order \in OrderIds
      /\ orders[task[t].order].user = task[t].user
      /\ orders[task[t].order].key = task[t].key
  BY DEF SaveResponse, At, IInv, TasksMatch
<1>2. UNCHANGED <<portionsLeft, orders, intent, answered, charged, customers,
                  stored, stockOuts>>
  BY DEF SaveResponse
<1>3. CASE keys[KeyOf(t)] = NoResponse
  <2>1. /\ keys' = [keys EXCEPT ![<<task[t].user, task[t].key>>] =
                      [order |-> task[t].order, cart |-> task[t].cart]]
        /\ Goto(t, "answer")
    BY <1>3 DEF SaveResponse, KeyOf
  <2>2. /\ task' \in [Tasks -> TaskType] /\ Moved(t, "answer")
        /\ \A v \in Tasks \ {t} : task'[v] = task[v]
    BY <1>1, <2>1, GotoFacts DEF IInv, Moved
  <2>3. keys' \in [Users \X Keys ->
                     [order : OrderIds \cup {NoOrder}, cart : Carts \cup {NoCart}]]
    BY <1>1, <2>1 DEF IInv, TypeOK
  <2>4. /\ keys'[<<task[t].user, task[t].key>>].order = task[t].order
        /\ \A u \in Users, k \in Keys :
             keys[<<u, k>>] # NoResponse => keys'[<<u, k>>] = keys[<<u, k>>]
        /\ \A u \in Users, k \in Keys :
             <<u, k>> # <<task[t].user, task[t].key>> => keys'[<<u, k>>] = keys[<<u, k>>]
    BY <1>1, <1>3, <2>1 DEF IInv, TypeOK, KeyOf
  <2>5. TypeOK' /\ CartsKept' /\ charged' \subseteq answered'
    BY <1>2, <2>2, <2>3 DEF IInv, TypeOK, CartsKept
  <2>6. KeysMatch'
    BY <1>1, <1>2, <2>4 DEF IInv, KeysMatch
  <2>7. \A u \in Users, k \in Keys, o \in OrderIds :
          keys[<<u, k>>].order = o => keys'[<<u, k>>].order = o
    BY <2>4, NullsAssumption DEF NoResponse
  <2>8. AnswersMatch'
    BY <1>2, <2>7 DEF IInv, TypeOK, AnswersMatch
  <2>9. TasksMatch'
    <3> SUFFICES ASSUME NEW v \in Tasks
                 PROVE  TasksMatch!(v)'
      BY DEF TasksMatch
    <3>1. CASE v = t
      BY <1>1, <1>2, <2>2, <2>4, <3>1 DEF Moved, KeyOf
    <3>2. CASE v # t
      <4>1. TasksMatch!(v) /\ task'[v] = task[v]
        BY <2>2, <3>2 DEF IInv, TasksMatch
      <4> QED
        BY <1>2, <2>7, <4>1 DEF KeyOf
    <3> QED
      BY <3>1, <3>2
  <2> QED
    BY <2>5, <2>6, <2>8, <2>9 DEF IInv
<1>4. CASE keys[KeyOf(t)] # NoResponse
  BY <1>2, <1>4, DoneFacts, QuietStep DEF SaveResponse, IInv, TypeOK
<1> QED
  BY <1>3, <1>4

\* The answer names the order that is stored under the key.
LEMMA AnswerStep ==
  ASSUME IInv, NEW t \in Tasks, Answer(t) PROVE IInv'
<1>1. /\ task[t].user \in Users /\ task[t].key \in Keys /\ task[t].order \in OrderIds
      /\ orders[task[t].order].user = task[t].user
      /\ orders[task[t].order].key = task[t].key
      /\ keys[<<task[t].user, task[t].key>>].order = task[t].order
  BY DEF Answer, At, IInv, TasksMatch, KeyOf
<1>2. /\ answered' = answered \cup {task[t].order} /\ Done(t)
      /\ UNCHANGED <<portionsLeft, orders, keys, intent, charged, customers,
                     stored, stockOuts>>
  BY DEF Answer
<1>3. /\ task' \in [Tasks -> TaskType] /\ task'[t] = Idle
      /\ \A v \in Tasks \ {t} : task'[v] = task[v]
  BY <1>2, DoneFacts DEF IInv
<1>4. TypeOK' /\ KeysMatch' /\ CartsKept' /\ charged' \subseteq answered'
  BY <1>1, <1>2, <1>3 DEF IInv, TypeOK, KeysMatch, CartsKept
<1>5. AnswersMatch'
  BY <1>1, <1>2 DEF IInv, AnswersMatch
<1>6. TasksMatch'
  BY <1>2, <1>3 DEF IInv, TasksMatch, KeyOf, Idle
<1> QED
  BY <1>4, <1>5, <1>6 DEF IInv

\* Payment and its failure change an order's status only.
LEMMA PaymentStep ==
  ASSUME IInv, NEW o \in OrderIds, BuyerPays(o) \/ HandlePaymentIntentFailed(o)
  PROVE  IInv'
<1>1. /\ orders' \in [OrderIds -> RowType]
      /\ \A p \in OrderIds : /\ orders'[p].user = orders[p].user
                            /\ orders'[p].key = orders[p].key
                            /\ orders'[p].cart = orders[p].cart
      /\ \A p \in OrderIds \ {o} : orders'[p] = orders[p]
  <2>1. ASSUME NEW r \in RowType, NEW st \in OrderStatuses
        PROVE  LET j == [r EXCEPT !.status = st]
               IN  j \in RowType /\ j.user = r.user /\ j.key = r.key /\ j.cart = r.cart
    BY <2>1 DEF RowType
  <2>2. orders \in [OrderIds -> RowType] /\ orders[o] \in RowType
    BY DEF IInv, TypeOK
  <2>3. \E st \in OrderStatuses :
          orders' = [orders EXCEPT ![o] = [orders[o] EXCEPT !.status = st]]
    <3>1. orders[o].status \in OrderStatuses
      BY <2>2 DEF RowType
    <3> QED
      BY <2>2, <3>1 DEF BuyerPays, HandlePaymentIntentFailed, OrderStatuses
  <2> QED
    BY <2>1, <2>2, <2>3
<1>2. /\ UNCHANGED <<keys, intent, answered, customers, stored, stockOuts, task>>
      /\ charged' \subseteq answered
  BY DEF BuyerPays, HandlePaymentIntentFailed, IInv
<1>3. portionsLeft' \in [Listings -> Nat]
  <2>1. CASE BuyerPays(o)
    BY <2>1 DEF BuyerPays, IInv, TypeOK
  <2>2. CASE HandlePaymentIntentFailed(o)
    <3>1. orders[o].cart \in Carts
      BY <2>2 DEF HandlePaymentIntentFailed, IInv, AnswersMatch, CartsKept
    <3>2. \A l \in Listings : Wanted(orders[o].cart, l) \in Nat
      BY <3>1, CartsAssumption
    <3> QED
      BY <2>2, <3>2 DEF HandlePaymentIntentFailed, IInv, TypeOK
  <2> QED
    BY <2>1, <2>2
<1>4. TypeOK' /\ charged' \subseteq answered'
  BY <1>1, <1>2, <1>3 DEF IInv, TypeOK
<1>5. KeysMatch'
  BY <1>1, <1>2 DEF IInv, KeysMatch
<1>6. AnswersMatch'
  BY <1>1, <1>2 DEF IInv, TypeOK, AnswersMatch
<1>7. TasksMatch'
  BY <1>1, <1>2 DEF IInv, TasksMatch, KeyOf
<1>8. CartsKept'
  <2>1. orders[o].cart \in Carts
    BY DEF BuyerPays, HandlePaymentIntentFailed, IInv, AnswersMatch, CartsKept
  <2> QED
    BY <1>1, <2>1 DEF IInv, CartsKept
<1> QED
  BY <1>4, <1>5, <1>6, <1>7, <1>8 DEF IInv

-----------------------------------------------------------------------------
(* The theorems *)

\* Every step keeps the invariant.
LEMMA NextInv == IInv /\ [Next]_vars => IInv'
<1> SUFFICES ASSUME IInv, [Next]_vars PROVE IInv'
  OBVIOUS
<1>1. CASE UNCHANGED vars
  BY <1>1 DEF vars, IInv, TypeOK, KeysMatch, TasksMatch, AnswersMatch, KeyOf,
     CartsKept
<1>2. ASSUME NEW t \in Tasks, Step(t) PROVE IInv'
  BY <1>2, LoadBuyerStep, CustomerStep, DecrementStep, RollbackStep, InsertStep,
     SaveStep, AnswerStep DEF Step
<1>3. CASE Next
  BY <1>2, <1>3, CreateStep, RollbackStep, PaymentStep DEF Next
<1> QED
  BY <1>1, <1>3

\* The invariant holds in every reachable state.
LEMMA InvHolds == Spec => []IInv
  BY InitInv, NextInv, PTL DEF Spec

\* Type correctness, and with it that atomicDecrementInventory never sells more
\* portions than there are, whatever requests overlap and fail.
THEOREM NeverOversold == Spec => []TypeOK
<1>1. IInv => TypeOK
  BY DEF IInv
<1> QED
  BY <1>1, InvHolds, PTL

\* One Idempotency-Key charges at most one order.
THEOREM KeyChargesOnce == Spec => []OneChargePerKey
<1>1. IInv => OneChargePerKey
  BY DEF IInv, AnswersMatch, OneChargePerKey
<1> QED
  BY <1>1, InvHolds, PTL

-----------------------------------------------------------------------------
(* Sums over a finite set.  The folds of the community modules are recursive *)
(* functions on the subsets of a set; what holds of them is shown on a least *)
(* subset for which it would fail.                                           *)

Pick(s) == CHOOSE x \in s : TRUE

\* g[s] is the sum of f over s, for the subsets s of S.
Adds(g, f, S) ==
    g = [s \in SUBSET S |-> IF s = {} THEN 0 ELSE f[Pick(s)] + g[s \ {Pick(s)}]]

\* Among some subsets of a finite set, one contains no other.
LEMMA MinimalSubset ==
  ASSUME NEW S, IsFiniteSet(S), NEW T, T \subseteq SUBSET S, T # {}
  PROVE  \E x \in T : \A y \in T : ~(y \subseteq x /\ y # x)
  <1>1. T \subseteq FiniteSubsetsOf(S)
    BY FS_Subset DEF FiniteSubsetsOf
  <1>2. \E x \in T : \A y \in T : ~(<<y, x>> \in StrictSubsetOrdering(S))
    BY <1>1, FS_StrictSubsetOrderingWellFounded, WFMin
  <1> QED BY <1>2 DEF StrictSubsetOrdering

\* A set of naturals that is not empty has a least member.
LEMMA LeastNatural ==
  ASSUME NEW B, B \subseteq Nat, B # {}
  PROVE  \E n \in B : \A k \in B : n <= k
  <1>1. PICK m \in B : TRUE
    OBVIOUS
  <1> DEFINE T == {0..k : k \in {i \in B : i <= m}}
  <1>2. IsFiniteSet(0..m)
    BY <1>1, FS_Interval
  <1>3. T \subseteq SUBSET (0..m) /\ T # {}
    BY <1>1
  <1>4. PICK x \in T : \A y \in T : ~(y \subseteq x /\ y # x)
    <2>1. PICK U : U = T
      OBVIOUS
    <2>2. PICK I : I = 0..m
      OBVIOUS
    <2>3. IsFiniteSet(I) /\ U \subseteq SUBSET I /\ U # {}
      BY <1>2, <1>3, <2>1, <2>2
    <2>4. \E x \in U : \A y \in U : ~(y \subseteq x /\ y # x)
      BY <2>3, MinimalSubset
    <2> QED BY <2>1, <2>4
  <1>5. PICK n \in B : n <= m /\ x = 0..n
    BY <1>4
  <1>6. ASSUME NEW k \in B, k < n PROVE FALSE
    <2>1. 0..k \in T
      BY <1>1, <1>5, <1>6
    <2>2. 0..k \subseteq 0..n /\ n \in 0..n /\ n \notin 0..k
      BY <1>5, <1>6
    <2> QED BY <1>4, <1>5, <2>1, <2>2
  <1> QED BY <1>5, <1>6

\* CHOOSE takes a member of a set that has one.
LEMMA PickIn == \A s : s # {} => Pick(s) \in s
  BY DEF Pick

\* The recursive definition of a sum over a finite set defines a function.
LEMMA SumExists ==
  ASSUME NEW S, IsFiniteSet(S), NEW f
  PROVE  \E g : Adds(g, f, S)
  <1> DEFINE Term(g, s) == IF s = {} THEN 0 ELSE f[Pick(s)] + g[s \ {Pick(s)}]
             Upto(n) == \E g : \A s \in SUBSET S : Cardinality(s) <= n => g[s] = Term(g, s)
             B == {n \in Nat : ~Upto(n)}
  <1>0. \A s \in SUBSET S : IsFiniteSet(s) /\ Cardinality(s) \in Nat
    BY FS_Subset, FS_CardinalityType
  <1>1. Upto(0)
    <2>1. PICK g : g = [s \in SUBSET S |-> 0]
      OBVIOUS
    <2>2. \A s \in SUBSET S : Cardinality(s) <= 0 => s = {}
      BY <1>0, FS_EmptySet
    <2>3. \A s \in SUBSET S : Cardinality(s) <= 0 => g[s] = Term(g, s)
      BY <2>1, <2>2
    <2> HIDE DEF Term
    <2> QED BY <2>3
  <1>2. ASSUME NEW n \in Nat, Upto(n) PROVE Upto(n + 1)
    <2>1. PICK g : \A s \in SUBSET S : Cardinality(s) <= n => g[s] = Term(g, s)
      BY <1>2
    <2> DEFINE h == [s \in SUBSET S |-> Term(g, s)]
    <2>2. ASSUME NEW s \in SUBSET S, Cardinality(s) <= n + 1 PROVE h[s] = Term(h, s)
      <3>1. CASE s = {}
        BY <3>1
      <3>2. CASE s # {}
        <4>1. Pick(s) \in s
          BY <3>2, PickIn
        <4>2. PICK r \in SUBSET S : r = s \ {Pick(s)}
          OBVIOUS
        <4>3. Cardinality(r) <= n
          BY <1>0, <2>2, <4>1, <4>2, FS_RemoveElement
        <4>4. h[r] = g[r]
          BY <2>1, <4>3
        <4>5. h[s] = f[Pick(s)] + g[r]
          BY <3>2, <4>2
        <4> HIDE DEF h
        <4> QED BY <3>2, <4>2, <4>4, <4>5
      <3> QED BY <3>1, <3>2
    <2> HIDE DEF h, Term
    <2> QED BY <2>2
  <1>3. B = {}
    <2> HIDE DEF Upto
    <2> SUFFICES ASSUME B # {} PROVE FALSE
      OBVIOUS
    <2>1. PICK n \in B : \A k \in B : n <= k
      BY LeastNatural
    <2>2. n # 0
      BY <1>1, <2>1
    <2>3. n - 1 \in Nat /\ n - 1 \notin B
      BY <2>1, <2>2
    <2>4. Upto(n - 1 + 1)
      BY <1>2, <2>3
    <2> QED BY <2>1, <2>2, <2>4
  <1>4. \A s \in SUBSET S : Cardinality(s) <= Cardinality(S)
    BY FS_Subset
  <1>5. Upto(Cardinality(S))
    <2> HIDE DEF Upto
    <2> QED BY <1>0, <1>3
  <1>6. PICK g : \A s \in SUBSET S : g[s] = Term(g, s)
    BY <1>4, <1>5
  <1>7. PICK h : h = [s \in SUBSET S |-> g[s]]
    OBVIOUS
  <1>8. \A s \in SUBSET S : s \ {Pick(s)} \in SUBSET S
    OBVIOUS
  <1>9. \A s \in SUBSET S : h[s] = Term(h, s)
    BY <1>6, <1>7, <1>8
  <1>10. h = [s \in SUBSET S |-> Term(h, s)]
    <2> HIDE DEF Term
    <2> QED BY <1>7, <1>9
  <1> QED BY <1>10 DEF Adds

\* A sum takes one member after the other.
LEMMA SumFacts ==
  ASSUME NEW S, NEW f, NEW g, Adds(g, f, S)
  PROVE  /\ g[{}] = 0
         /\ \A s \in SUBSET S : s # {} => /\ Pick(s) \in s
                                          /\ g[s] = f[Pick(s)] + g[s \ {Pick(s)}]
  <1>1. \A s \in SUBSET S : g[s] = IF s = {} THEN 0 ELSE f[Pick(s)] + g[s \ {Pick(s)}]
    BY DEF Adds
  <1> QED BY <1>1, PickIn

\* A sum may be taken in any order.
LEMMA SumAnyOrder ==
  ASSUME NEW S, IsFiniteSet(S), NEW f \in [S -> Int], NEW g, Adds(g, f, S)
  PROVE  \A s \in SUBSET S : g[s] \in Int /\ \A x \in s : g[s] = f[x] + g[s \ {x}]
  <1> DEFINE Good(s) == g[s] \in Int /\ \A x \in s : g[s] = f[x] + g[s \ {x}]
             T == {s \in SUBSET S : ~Good(s)}
  <1>1. T = {}
    <2> SUFFICES ASSUME T # {} PROVE FALSE
      OBVIOUS
    <2>0. T \subseteq SUBSET S
      OBVIOUS
    <2>1. PICK s \in T : \A y \in T : ~(y \subseteq s /\ y # s)
      <3> HIDE DEF T
      <3> QED BY <2>0, MinimalSubset
    <2>2. s # {}
      <3>1. g[{}] = 0
        BY SumFacts
      <3>2. Good({})
        BY <3>1
      <3> QED BY <2>1, <3>2
    <2>3. PICK c \in s : c = Pick(s)
      BY <2>1, <2>2, SumFacts
    <2>4. g[s] = f[c] + g[s \ {c}]
      <3>1. s \in SUBSET S
        BY <2>1
      <3>2. \A r \in SUBSET S : r # {} => g[r] = f[Pick(r)] + g[r \ {Pick(r)}]
        BY SumFacts
      <3> QED BY <2>2, <2>3, <3>1, <3>2
    <2>5. Good(s \ {c})
      BY <2>1, <2>3
    <2>6. g[s] \in Int
      BY <2>1, <2>3, <2>4, <2>5
    <2>7. ASSUME NEW x \in s PROVE g[s] = f[x] + g[s \ {x}]
      <3>1. CASE x = c
        BY <2>4, <3>1
      <3>2. CASE x # c
        <4>1. PICK r : r = (s \ {c}) \ {x}
          OBVIOUS
        <4>2. r = (s \ {x}) \ {c}
          BY <4>1
        <4>3. Good(s \ {x})
          BY <2>1, <2>7
        <4>4. g[s \ {c}] = f[x] + g[r]
          BY <2>5, <3>2, <4>1
        <4>5. g[s \ {x}] = f[c] + g[r]
          BY <2>3, <3>2, <4>2, <4>3
        <4>6. g[r] \in Int
          <5>1. Good(r)
            BY <2>1, <2>3, <4>1
          <5> QED BY <5>1
        <4>7. f[c] \in Int /\ f[x] \in Int
          BY <2>1, <2>3
        <4> QED BY <2>4, <4>4, <4>5, <4>6, <4>7
      <3> QED BY <3>1, <3>2
    <2> QED BY <2>1, <2>6, <2>7
  <1> QED BY <1>1

\* Sums of the same terms are the same.
LEMMA SumSame ==
  ASSUME NEW S, IsFiniteSet(S), NEW f, NEW g, Adds(g, f, S), NEW R, NEW e, NEW h, Adds(h, e, R),
         NEW s \in SUBSET S, s \subseteq R, \A x \in s : f[x] = e[x]
  PROVE  g[s] = h[s]
  <1> DEFINE T == {r \in SUBSET S : r \subseteq s /\ g[r] # h[r]}
  <1>1. T = {}
    <2> SUFFICES ASSUME T # {} PROVE FALSE
      OBVIOUS
    <2>0. T \subseteq SUBSET S
      OBVIOUS
    <2>1. PICK r \in T : \A y \in T : ~(y \subseteq r /\ y # r)
      <3> HIDE DEF T
      <3> QED BY <2>0, MinimalSubset
    <2>2. r # {} /\ r \in SUBSET S /\ r \in SUBSET R /\ r \subseteq s
      BY <2>1, SumFacts
    <2>3. PICK c \in r : c = Pick(r)
      BY <2>2, SumFacts
    <2>4. g[r] = f[c] + g[r \ {c}] /\ h[r] = e[c] + h[r \ {c}]
      BY <2>2, <2>3, SumFacts
    <2>5. g[r \ {c}] = h[r \ {c}]
      BY <2>1, <2>2, <2>3
    <2>6. f[c] = e[c]
      BY <2>2, <2>3
    <2> QED BY <2>1, <2>4, <2>5, <2>6
  <1> QED BY <1>1

\* Changing one term changes the sum by as much.
LEMMA SumChange ==
  ASSUME NEW S, IsFiniteSet(S), NEW f \in [S -> Int], NEW e \in [S -> Int],
         NEW g, Adds(g, f, S), NEW h, Adds(h, e, S),
         NEW x \in S, \A y \in S \ {x} : e[y] = f[y]
  PROVE  g[S] \in Int /\ h[S] \in Int /\ h[S] = g[S] - f[x] + e[x]
  <1>1. \A s \in SUBSET S : g[s] \in Int /\ \A y \in s : g[s] = f[y] + g[s \ {y}]
    BY SumAnyOrder
  <1>2. \A s \in SUBSET S : h[s] \in Int /\ \A y \in s : h[s] = e[y] + h[s \ {y}]
    BY SumAnyOrder
  <1>3. PICK r \in SUBSET S : r = S \ {x}
    OBVIOUS
  <1>4. \A y \in r : f[y] = e[y]
    BY <1>3
  <1>5. g[r] = h[r]
    BY <1>4, SumSame
  <1>6. S \in SUBSET S /\ f[x] \in Int /\ e[x] \in Int
    OBVIOUS
  <1>7. g[S] = f[x] + g[r] /\ h[S] = e[x] + h[r] /\ g[S] \in Int /\ h[S] \in Int /\ g[r] \in Int
    BY <1>1, <1>2, <1>3, <1>6
  <1> QED BY <1>5, <1>6, <1>7

\* Terms that are zero may be left out.
LEMMA SumSupport ==
  ASSUME NEW S, IsFiniteSet(S), NEW R \in SUBSET S, NEW f \in [R -> Int], NEW e \in [S -> Int],
         NEW g, Adds(g, f, R), NEW h, Adds(h, e, S),
         \A x \in S : e[x] = IF x \in R THEN f[x] ELSE 0
  PROVE  g[R] = h[S]
  <1>0. IsFiniteSet(R)
    BY FS_Subset
  <1>1. \A s \in SUBSET R : g[s] \in Int /\ \A x \in s : g[s] = f[x] + g[s \ {x}]
    BY <1>0, SumAnyOrder
  <1> DEFINE T == {s \in SUBSET S : h[s] # g[s \cap R]}
  <1>2. T = {}
    <2> SUFFICES ASSUME T # {} PROVE FALSE
      OBVIOUS
    <2>0. T \subseteq SUBSET S
      OBVIOUS
    <2>1. PICK s \in T : \A y \in T : ~(y \subseteq s /\ y # s)
      <3> HIDE DEF T
      <3> QED BY <2>0, MinimalSubset
    <2>2. s # {}
      <3>1. {} \cap R = {} /\ h[{}] = 0 /\ g[{}] = 0
        BY SumFacts
      <3> QED BY <2>1, <3>1
    <2>3. PICK c \in s : c = Pick(s)
      BY <2>1, <2>2, SumFacts
    <2>4. h[s] = e[c] + h[s \ {c}]
      BY <2>1, <2>2, <2>3, SumFacts
    <2>5. h[s \ {c}] = g[(s \ {c}) \cap R]
      BY <2>1, <2>3
    <2>6. PICK r \in SUBSET R : r = s \cap R
      OBVIOUS
    <2>7. (s \ {c}) \cap R = r \ {c}
      BY <2>6
    <2>8. CASE c \in R
      <3>1. g[r] = f[c] + g[r \ {c}]
        BY <1>1, <2>3, <2>6, <2>8
      <3> QED BY <2>1, <2>3, <2>4, <2>5, <2>6, <2>7, <2>8, <3>1
    <2>9. CASE c \notin R
      <3>1. r \ {c} = r
        BY <2>6, <2>9
      <3>2. g[r] \in Int
        BY <1>1
      <3>3. e[c] = 0
        BY <2>1, <2>3, <2>9
      <3>4. g[s \cap R] = g[r] /\ h[s] = h[s \ {c}] + 0 /\ h[s \ {c}] = g[r]
        <4>1. h[s \ {c}] = g[r]
          BY <2>5, <2>7, <3>1
        <4>2. g[r] \in Int /\ h[s] = e[c] + g[r]
          BY <2>4, <3>2, <4>1
        <4>3. h[s] = 0 + g[r]
          BY <4>2, <3>3
        <4> QED BY <2>6, <3>2, <4>1, <4>2, <4>3
      <3> QED BY <2>1, <3>2, <3>4
    <2> QED BY <2>8, <2>9
  <1>3. S \cap R = R
    OBVIOUS
  <1>4. h[S] = g[S \cap R]
    BY <1>2
  <1> QED BY <1>3, <1>4

\* A sum of zeros is zero.
LEMMA SumOfZeros ==
  ASSUME NEW S, IsFiniteSet(S), NEW f, \A x \in S : f[x] = 0, NEW g, Adds(g, f, S)
  PROVE  g[S] = 0
  <1> DEFINE T == {s \in SUBSET S : g[s] # 0}
  <1>1. T = {}
    <2> SUFFICES ASSUME T # {} PROVE FALSE
      OBVIOUS
    <2>0. T \subseteq SUBSET S
      OBVIOUS
    <2>1. PICK s \in T : \A y \in T : ~(y \subseteq s /\ y # s)
      <3> HIDE DEF T
      <3> QED BY <2>0, MinimalSubset
    <2>2. s # {}
      BY <2>1, SumFacts
    <2>3. PICK c \in s : c = Pick(s)
      BY <2>2, SumFacts
    <2>4. g[s \ {c}] = 0
      BY <2>1, <2>3
    <2>5. g[s] = f[c] + g[s \ {c}]
      BY <2>1, <2>2, <2>3, SumFacts
    <2> QED BY <2>1, <2>3, <2>4, <2>5
  <1> QED BY <1>1

-----------------------------------------------------------------------------
(* What is held in transactions and in orders, as sums *)

TakenBy(k, l) == MapThenSumSet(LAMBDA t : k[t].taken[l], Tasks)

Live(r) == {o \in OrderIds : r[o].status \in {"PENDING", "CONFIRMED"}}
OrderedIn(r, l) == MapThenSumSet(LAMBDA o : Wanted(r[o].cart, l), Live(r))

\* What one order holds.
Holds(r, o, l) == IF o \in Live(r) THEN Wanted(r[o].cart, l) ELSE 0

\* What transactions took adds up.
LEMMA TakenAdd ==
  ASSUME IsFiniteSet(Tasks), NEW k, NEW l, NEW f, f = [t \in Tasks |-> k[t].taken[l]]
  PROVE  \E g : Adds(g, f, Tasks) /\ TakenBy(k, l) = g[Tasks]
  <1> DEFINE Adding(g, s) == k[Pick(s)].taken[l] + g[s \ {Pick(s)}]
             AddsTaken(g) == g = [s \in SUBSET Tasks |-> IF s = {} THEN 0 ELSE Adding(g, s)]
  <1>1. ASSUME NEW g PROVE Adds(g, f, Tasks) <=> AddsTaken(g)
    <2> DEFINE a == [s \in SUBSET Tasks |-> IF s = {} THEN 0 ELSE Adding(g, s)]
               b == [s \in SUBSET Tasks |->
                       IF s = {} THEN 0 ELSE f[Pick(s)] + g[s \ {Pick(s)}]]
    <2>1. \A s \in SUBSET Tasks : s # {} => f[Pick(s)] = k[Pick(s)].taken[l]
      BY PickIn
    <2>2. \A s \in SUBSET Tasks : a[s] = b[s]
      BY <2>1
    <2>3. a = b
      <3>1. DOMAIN a = SUBSET Tasks /\ DOMAIN b = SUBSET Tasks
        OBVIOUS
      <3> QED BY <2>2, <3>1
    <2> QED BY <2>3 DEF Adds
  <1>2. \E g : AddsTaken(g)
    <2>1. \E g : Adds(g, f, Tasks)
      BY SumExists
    <2> HIDE DEF AddsTaken
    <2> QED BY <1>1, <2>1
  <1>3. \E g : AddsTaken(g) /\ TakenBy(k, l) = g[Tasks]
    BY <1>2 DEF TakenBy, MapThenSumSet, MapThenFoldSet, Pick
  <1> HIDE DEF AddsTaken
  <1> QED BY <1>1, <1>3

\* What orders want adds up.
LEMMA OrderedAdd ==
  ASSUME IsFiniteSet(OrderIds), NEW r, NEW l, NEW R, R = Live(r),
         NEW f, f = [o \in R |-> Wanted(r[o].cart, l)]
  PROVE  \E g : Adds(g, f, R) /\ OrderedIn(r, l) = g[R]
  <1> DEFINE Adding(g, s) == Wanted(r[Pick(s)].cart, l) + g[s \ {Pick(s)}]
             AddsOrdered(g) == g = [s \in SUBSET R |-> IF s = {} THEN 0 ELSE Adding(g, s)]
  <1>0. IsFiniteSet(R)
    BY FS_Subset DEF Live
  <1>1. ASSUME NEW g PROVE Adds(g, f, R) <=> AddsOrdered(g)
    <2> DEFINE a == [s \in SUBSET R |-> IF s = {} THEN 0 ELSE Adding(g, s)]
               b == [s \in SUBSET R |->
                       IF s = {} THEN 0 ELSE f[Pick(s)] + g[s \ {Pick(s)}]]
    <2>1. \A s \in SUBSET R : s # {} => f[Pick(s)] = Wanted(r[Pick(s)].cart, l)
      BY PickIn
    <2>2. \A s \in SUBSET R : a[s] = b[s]
      BY <2>1
    <2>3. a = b
      <3>1. DOMAIN a = SUBSET R /\ DOMAIN b = SUBSET R
        OBVIOUS
      <3> QED BY <2>2, <3>1
    <2> QED BY <2>3 DEF Adds
  <1>2. \E g : AddsOrdered(g)
    <2>1. \E g : Adds(g, f, R)
      BY <1>0, SumExists
    <2> HIDE DEF AddsOrdered
    <2> QED BY <1>1, <2>1
  <1>3. \E g : AddsOrdered(g) /\ OrderedIn(r, l) = g[R]
    BY <1>2 DEF OrderedIn, MapThenSumSet, MapThenFoldSet, Pick
  <1> HIDE DEF AddsOrdered
  <1> QED BY <1>1, <1>3

\* wantedByListing of a listing that is not in the cart.
LEMMA NotWanted ==
  ASSUME NEW cart, NEW l, \A i \in DOMAIN cart : cart[i].listing # l
  PROVE  Wanted(cart, l) = 0
  <1> DEFINE AddsWanted(g, S) ==
               g = [s \in SUBSET S |->
                      IF s = {} THEN 0 ELSE cart[Pick(s)].quantity + g[s \ {Pick(s)}]]
             I == {i \in DOMAIN cart : cart[i].listing = l}
  <1>1. I = {}
    OBVIOUS
  <1>2. PICK g : g = [s \in SUBSET I |-> 0]
    OBVIOUS
  <1>3. AddsWanted(g, I)
    BY <1>1, <1>2
  <1>4. \E h : AddsWanted(h, I) /\ Wanted(cart, l) = h[I]
    BY <1>3 DEF Wanted, MapThenSumSet, MapThenFoldSet, Pick
  <1> QED BY <1>1, <1>4

\* Held is what transactions and orders hold.
LEMMA HeldIs ==
  ASSUME NEW l
  PROVE  /\ Held(l) = TakenBy(task, l) + OrderedIn(orders, l)
         /\ Held(l)' = TakenBy(task', l) + OrderedIn(orders', l)
  <1>1. Held(l) = TakenBy(task, l) + OrderedIn(orders, l)
    BY DEF Held, TakenBy, OrderedIn, Live
  <1>2. Held(l)' = TakenBy(task', l) + OrderedIn(orders', l)
    BY DEF Held, TakenBy, OrderedIn, Live, MapThenSumSet, MapThenFoldSet
  <1> QED BY <1>1, <1>2

\* Of the requests k, only t holds something else of l among the requests m.
OnlyTakes(t, l, k, m) ==
    /\ \A u \in Tasks : k[u].taken[l] \in Int /\ m[u].taken[l] \in Int
    /\ \A u \in Tasks \ {t} : m[u].taken[l] = k[u].taken[l]

\* One transaction takes or gives back.
LEMMA TakenChange ==
  ASSUME IsFiniteSet(Tasks), NEW k, NEW m, NEW l, NEW t \in Tasks, OnlyTakes(t, l, k, m)
  PROVE  /\ TakenBy(k, l) \in Int /\ TakenBy(m, l) \in Int
         /\ TakenBy(m, l) = TakenBy(k, l) - k[t].taken[l] + m[t].taken[l]
  <1>1. PICK f : f = [u \in Tasks |-> k[u].taken[l]]
    OBVIOUS
  <1>2. PICK e : e = [u \in Tasks |-> m[u].taken[l]]
    OBVIOUS
  <1>3. f \in [Tasks -> Int] /\ e \in [Tasks -> Int]
    BY <1>1, <1>2 DEF OnlyTakes
  <1>4. PICK g : Adds(g, f, Tasks) /\ TakenBy(k, l) = g[Tasks]
    BY <1>1, TakenAdd
  <1>5. PICK h : Adds(h, e, Tasks) /\ TakenBy(m, l) = h[Tasks]
    BY <1>2, TakenAdd
  <1>6. \A u \in Tasks \ {t} : e[u] = f[u]
    BY <1>1, <1>2 DEF OnlyTakes
  <1>7. g[Tasks] \in Int /\ h[Tasks] \in Int /\ h[Tasks] = g[Tasks] - f[t] + e[t]
    BY <1>3, <1>4, <1>5, <1>6, SumChange
  <1> QED BY <1>1, <1>2, <1>4, <1>5, <1>7

\* The orders that hold stock, as a sum over all orders.
LEMMA OrderedSum ==
  ASSUME IsFiniteSet(OrderIds), NEW r, NEW l, NEW e, e = [o \in OrderIds |-> Holds(r, o, l)],
         \A o \in Live(r) : Wanted(r[o].cart, l) \in Int
  PROVE  e \in [OrderIds -> Int] /\ \E g : Adds(g, e, OrderIds) /\ OrderedIn(r, l) = g[OrderIds]
  <1>1. PICK R : R = Live(r)
    OBVIOUS
  <1>2. PICK f : f = [o \in R |-> Wanted(r[o].cart, l)]
    OBVIOUS
  <1>3. R \in SUBSET OrderIds /\ f \in [R -> Int]
    BY <1>1, <1>2 DEF Live
  <1>4. \A o \in OrderIds : e[o] = IF o \in R THEN f[o] ELSE 0
    BY <1>1, <1>2 DEF Holds
  <1>5. e \in [OrderIds -> Int]
    BY <1>1 DEF Holds
  <1>6. PICK h : Adds(h, f, R) /\ OrderedIn(r, l) = h[R]
    BY <1>1, <1>2, OrderedAdd
  <1>7. PICK g : Adds(g, e, OrderIds)
    BY SumExists
  <1>8. h[R] = g[OrderIds]
    BY <1>3, <1>4, <1>5, <1>6, <1>7, SumSupport
  <1> QED BY <1>5, <1>6, <1>7, <1>8

\* Of the orders r, only o differs among the orders s.
OnlyOrders(o, l, r, s) ==
    /\ \A p \in Live(r) : Wanted(r[p].cart, l) \in Int
    /\ \A p \in Live(s) : Wanted(s[p].cart, l) \in Int
    /\ \A p \in OrderIds \ {o} : s[p] = r[p]

\* One order comes to hold stock, or no longer does.
LEMMA OrderedChange ==
  ASSUME IsFiniteSet(OrderIds), NEW r, NEW s, NEW l, NEW o \in OrderIds, OnlyOrders(o, l, r, s)
  PROVE  /\ OrderedIn(r, l) \in Int /\ OrderedIn(s, l) \in Int
         /\ OrderedIn(s, l) = OrderedIn(r, l) - Holds(r, o, l) + Holds(s, o, l)
  <1>1. PICK f : f = [p \in OrderIds |-> Holds(r, p, l)]
    OBVIOUS
  <1>2. PICK e : e = [p \in OrderIds |-> Holds(s, p, l)]
    OBVIOUS
  <1>3. f \in [OrderIds -> Int] /\ e \in [OrderIds -> Int]
    BY <1>1, <1>2, OrderedSum DEF OnlyOrders
  <1>4. PICK g : Adds(g, f, OrderIds) /\ OrderedIn(r, l) = g[OrderIds]
    BY <1>1, OrderedSum DEF OnlyOrders
  <1>5. PICK h : Adds(h, e, OrderIds) /\ OrderedIn(s, l) = h[OrderIds]
    BY <1>2, OrderedSum DEF OnlyOrders
  <1>6. \A p \in OrderIds \ {o} : e[p] = f[p]
    BY <1>1, <1>2 DEF Holds, Live, OnlyOrders
  <1>7. g[OrderIds] \in Int /\ h[OrderIds] \in Int /\ h[OrderIds] = g[OrderIds] - f[o] + e[o]
    BY <1>3, <1>4, <1>5, <1>6, SumChange
  <1> QED BY <1>1, <1>2, <1>4, <1>5, <1>7

-----------------------------------------------------------------------------
(* Every portion is accounted for *)

\* An open transaction has taken all of what the cart wants of a listing, or
\* nothing.
TakenMatches ==
    \A t \in Tasks, l \in Listings :
      \/ task[t].taken[l] = 0
      \/ task[t].pc = "decrement" /\ task[t].taken[l] = Wanted(task[t].cart, l)

\* An order that holds stock has a cart.
LiveCarts == \A o \in Live(orders) : orders[o].cart \in Carts

Accounted == \A l \in Listings : portionsLeft[l] + Held(l) = InitialPortions

StockInv == TakenMatches /\ LiveCarts /\ Accounted

\* What the stock is counted in.
LEMMA StockTypes ==
  ASSUME TypeOK, LiveCarts, NEW l \in Listings
  PROVE  /\ \A t \in Tasks : task[t].taken[l] \in Nat
         /\ portionsLeft[l] \in Nat
         /\ \A o \in Live(orders) : Wanted(orders[o].cart, l) \in Nat
  BY CartsAssumption DEF TypeOK, TaskType, LiveCarts

\* At the start everything is on the shelf.
LEMMA StockInit ==
  ASSUME IsFiniteSet(Tasks), IsFiniteSet(OrderIds), Init
  PROVE  StockInv
  <1>1. Live(orders) = {}
    BY DEF Init, Live, NoRow
  <1>2. ASSUME NEW l \in Listings PROVE TakenBy(task, l) = 0
    <2>1. PICK f : f = [t \in Tasks |-> task[t].taken[l]]
      OBVIOUS
    <2>2. \A t \in Tasks : f[t] = 0
      BY <2>1 DEF Init, Idle, Nothing
    <2>3. PICK g : Adds(g, f, Tasks) /\ TakenBy(task, l) = g[Tasks]
      BY <2>1, TakenAdd
    <2> QED BY <2>2, <2>3, SumOfZeros
  <1>3. ASSUME NEW l \in Listings PROVE OrderedIn(orders, l) = 0
    <2>1. PICK R : R = Live(orders)
      OBVIOUS
    <2>2. PICK f : f = [o \in R |-> Wanted(orders[o].cart, l)]
      OBVIOUS
    <2>3. PICK g : Adds(g, f, R) /\ OrderedIn(orders, l) = g[R]
      BY <2>1, <2>2, OrderedAdd
    <2>4. g[{}] = 0
      BY <2>3, SumFacts
    <2> QED BY <1>1, <2>1, <2>3, <2>4
  <1>4. TakenMatches
    BY DEF TakenMatches, Init, Idle, Nothing
  <1>5. Accounted
    BY <1>2, <1>3, HeldIs, StockAssumption DEF Accounted, Init
  <1> QED BY <1>1, <1>4, <1>5 DEF StockInv, LiveCarts

\* A request moves that neither takes stock nor gives any back.
LEMMA StockQuiet ==
  ASSUME IsFiniteSet(Tasks), TypeOK, TypeOK', StockInv, UNCHANGED <<portionsLeft, orders>>,
         NEW t \in Tasks, \A u \in Tasks \ {t} : task'[u] = task[u],
         \A l \in Listings : task[t].taken[l] = 0 /\ task'[t].taken[l] = 0
  PROVE  StockInv'
  <1>1. TakenMatches'
    BY DEF StockInv, TakenMatches
  <1>2. LiveCarts'
    BY DEF StockInv, LiveCarts, Live
  <1>3. ASSUME NEW l \in Listings PROVE portionsLeft'[l] + Held(l)' = InitialPortions
    <2>1. \A u \in Tasks : task[u].taken[l] \in Int /\ task'[u].taken[l] \in Int
      BY DEF TypeOK, TaskType
    <2>2. PICK k : k = task
      OBVIOUS
    <2>3. PICK m : m = task'
      OBVIOUS
    <2>4. TakenBy(k, l) \in Int /\ TakenBy(m, l) = TakenBy(k, l) - k[t].taken[l] + m[t].taken[l]
      <3>1. \A u \in Tasks : k[u].taken[l] \in Int /\ m[u].taken[l] \in Int
        BY <2>1, <2>2, <2>3
      <3>2. \A u \in Tasks \ {t} : m[u].taken[l] = k[u].taken[l]
        BY <2>2, <2>3
      <3>3. OnlyTakes(t, l, k, m)
        BY <3>1, <3>2 DEF OnlyTakes
      <3> QED BY <3>3, TakenChange
    <2>5. TakenBy(task', l) = TakenBy(task, l)
      BY <2>2, <2>3, <2>4
    <2> QED BY <2>5, HeldIs DEF StockInv, Accounted
  <1> QED BY <1>1, <1>2, <1>3 DEF StockInv, Accounted

\* Outside its transaction a request has taken nothing.
LEMMA NothingTaken ==
  ASSUME StockInv, NEW t \in Tasks, task[t].pc # "decrement"
  PROVE  \A l \in Listings : task[t].taken[l] = 0
  BY DEF StockInv, TakenMatches

\* A new request, and the steps before the transaction and after it.
LEMMA StockOutside ==
  ASSUME IsFiniteSet(Tasks), IInv, IInv', StockInv, NEW t \in Tasks,
         \/ \E u \in Users, k \in Keys, cart \in Carts : Create(t, u, k, cart)
         \/ LoadBuyer(t) \/ LoadAndValidateCart(t) \/ EnsureStripeCustomer(t)
         \/ SaveStripeCustomer(t) \/ CreatePaymentIntent(t) \/ SaveResponse(t) \/ Answer(t)
  PROVE  StockInv'
  <1>1. TypeOK /\ TypeOK' /\ task[t] \in TaskType
    BY DEF IInv, TypeOK
  <1>2. UNCHANGED <<portionsLeft, orders>>
    BY DEF Create, LoadBuyer, LoadAndValidateCart, EnsureStripeCustomer, SaveStripeCustomer,
           CreatePaymentIntent, SaveResponse, Answer
  <1>3. \A l \in Listings : task[t].taken[l] = 0
    <2>1. CASE \E u \in Users, k \in Keys, cart \in Carts : Create(t, u, k, cart)
      <3>1. task[t] = Idle
        BY <2>1 DEF Create
      <3> QED BY <3>1 DEF Idle, Nothing
    <2>2. CASE ~\E u \in Users, k \in Keys, cart \in Carts : Create(t, u, k, cart)
      <3>1. task[t].pc # "decrement"
        BY <2>2 DEF LoadBuyer, LoadAndValidateCart, EnsureStripeCustomer, SaveStripeCustomer,
                    CreatePaymentIntent, SaveResponse, Answer, At
      <3> QED BY <3>1, NothingTaken
    <2> QED BY <2>1, <2>2
  <1>4. /\ \A v \in Tasks \ {t} : task'[v] = task[v]
        /\ task'[t] = Idle \/ task'[t].taken = task[t].taken
    <2>1. ASSUME NEW pc, Goto(t, pc)
          PROVE  (\A v \in Tasks \ {t} : task'[v] = task[v]) /\ task'[t].taken = task[t].taken
      BY <1>1, <2>1 DEF Goto, TypeOK, TaskType
    <2>2. ASSUME Done(t) PROVE (\A v \in Tasks \ {t} : task'[v] = task[v]) /\ task'[t] = Idle
      BY <1>1, <2>2 DEF Done, TypeOK
    <2>3. CASE \E u \in Users, k \in Keys, cart \in Carts : Create(t, u, k, cart)
      <3>1. PICK u \in Users, k \in Keys, cart \in Carts : Create(t, u, k, cart)
        BY <2>3
      <3>2. \/ task' = [task EXCEPT ![t] = [task[t] EXCEPT !.pc = "buyer", !.user = u, !.key = k,
                                                           !.cart = cart]]
            \/ task' = task
        BY <1>1, <3>1 DEF Create, TypeOK
      <3>3. [task[t] EXCEPT !.pc = "buyer", !.user = u, !.key = k, !.cart = cart].taken
              = task[t].taken
        BY <1>1 DEF TaskType
      <3> QED BY <1>1, <3>2, <3>3 DEF TypeOK
    <2>4. CASE LoadBuyer(t)
      BY <1>1, <2>4 DEF LoadBuyer, TypeOK, TaskType
    <2>5. CASE ~LoadBuyer(t) /\ ~\E u \in Users, k \in Keys, cart \in Carts : Create(t, u, k, cart)
      BY <2>1, <2>2, <2>5 DEF LoadAndValidateCart, EnsureStripeCustomer, SaveStripeCustomer,
                              CreatePaymentIntent, SaveResponse, Answer
    <2> QED BY <2>3, <2>4, <2>5
  <1>5. \A l \in Listings : task'[t].taken[l] = 0
    BY <1>3, <1>4 DEF Idle, Nothing
  <1> QED BY <1>1, <1>2, <1>3, <1>4, <1>5, StockQuiet

\* Orders hold a whole number of portions.
LEMMA OrderedInt ==
  ASSUME IsFiniteSet(OrderIds), NEW r, NEW l, \A o \in Live(r) : Wanted(r[o].cart, l) \in Nat
  PROVE  OrderedIn(r, l) \in Int
  <1>1. PICK e : e = [o \in OrderIds |-> Holds(r, o, l)]
    OBVIOUS
  <1>0. \A o \in Live(r) : Wanted(r[o].cart, l) \in Int
    OBVIOUS
  <1>2. /\ e \in [OrderIds -> Int]
        /\ \E g : Adds(g, e, OrderIds) /\ OrderedIn(r, l) = g[OrderIds]
    BY <1>0, <1>1, OrderedSum
  <1>3. PICK g : Adds(g, e, OrderIds) /\ OrderedIn(r, l) = g[OrderIds]
    BY <1>2
  <1>4. \A s \in SUBSET OrderIds : g[s] \in Int
    BY <1>2, <1>3, SumAnyOrder
  <1> QED BY <1>3, <1>4

\* Transactions hold a whole number of portions.
LEMMA TakenInt ==
  ASSUME IsFiniteSet(Tasks), TypeOK, NEW l \in Listings
  PROVE  TakenBy(task, l) \in Int
  <1>1. PICK f : f = [t \in Tasks |-> task[t].taken[l]]
    OBVIOUS
  <1>2. f \in [Tasks -> Int]
    BY <1>1 DEF TypeOK, TaskType
  <1>3. PICK g : Adds(g, f, Tasks) /\ TakenBy(task, l) = g[Tasks]
    BY <1>1, TakenAdd
  <1>4. \A s \in SUBSET Tasks : g[s] \in Int
    BY <1>2, <1>3, SumAnyOrder
  <1> QED BY <1>3, <1>4

\* The UPDATE moves what the cart wants of one listing into the transaction.
LEMMA StockDecrement ==
  ASSUME IsFiniteSet(Tasks), IsFiniteSet(OrderIds), IInv, IInv', StockInv,
         NEW t \in Tasks, AtomicDecrementInventory(t)
  PROVE  StockInv'
  <1>1. PICK l \in Listings :
          /\ NextListing(t, l)
          /\ portionsLeft' = [portionsLeft EXCEPT ![l] = @ - Wanted(task[t].cart, l)]
          /\ task' = [task EXCEPT ![t].taken[l] = Wanted(task[t].cart, l)]
    BY DEF AtomicDecrementInventory
  <1>2. PICK q : q = Wanted(task[t].cart, l)
    OBVIOUS
  <1>3. /\ TypeOK /\ TypeOK' /\ task[t] \in TaskType /\ UNCHANGED orders
        /\ task[t].pc = "decrement" /\ task[t].taken[l] = 0
    BY <1>1 DEF IInv, TypeOK, AtomicDecrementInventory, NextListing, At
  <1>4. q \in Nat
    BY <1>2, <1>3, CartsAssumption DEF IInv, TasksMatch
  <1>5. task' = [task EXCEPT ![t] = [task[t] EXCEPT !.taken[l] = q]]
    BY <1>1, <1>2, <1>3 DEF TypeOK
  <1>6. LET j == [task[t] EXCEPT !.taken[l] = q]
        IN  /\ j.pc = task[t].pc /\ j.cart = task[t].cart /\ j.taken[l] = q
            /\ \A p \in Listings \ {l} : j.taken[p] = task[t].taken[p]
    BY <1>3, <1>4 DEF TaskType
  <1>7. /\ \A u \in Tasks \ {t} : task'[u] = task[u]
        /\ task'[t].pc = "decrement" /\ task'[t].cart = task[t].cart /\ task'[t].taken[l] = q
        /\ \A p \in Listings \ {l} : task'[t].taken[p] = task[t].taken[p]
    BY <1>3, <1>5, <1>6 DEF TypeOK
  <1>8. TakenMatches'
    BY <1>2, <1>3, <1>7 DEF StockInv, TakenMatches
  <1>9. LiveCarts'
    BY <1>3 DEF StockInv, LiveCarts, Live
  <1>10. ASSUME NEW p \in Listings PROVE portionsLeft'[p] + Held(p)' = InitialPortions
    <2>1. PICK k : k = task
      OBVIOUS
    <2>2. PICK m : m = task'
      OBVIOUS
    <2>3. OnlyTakes(t, p, k, m)
      BY <1>3, <1>7, <2>1, <2>2 DEF TypeOK, TaskType, OnlyTakes
    <2>4. /\ TakenBy(k, p) \in Int
          /\ TakenBy(m, p) = TakenBy(k, p) - k[t].taken[p] + m[t].taken[p]
      BY <2>3, TakenChange
    <2>5. portionsLeft[p] \in Nat /\ \A o \in Live(orders) : Wanted(orders[o].cart, p) \in Nat
      BY <1>3, StockTypes DEF StockInv
    <2>6. OrderedIn(orders, p) \in Int /\ OrderedIn(orders', p) = OrderedIn(orders, p)
      BY <1>3, <2>5, OrderedInt
    <2>7. portionsLeft[p] + (TakenBy(k, p) + OrderedIn(orders, p)) = InitialPortions
      BY <2>1, HeldIs DEF StockInv, Accounted
    <2>8. portionsLeft'[p] - portionsLeft[p] = k[t].taken[p] - m[t].taken[p]
      <3>1. CASE p = l
        BY <1>1, <1>2, <1>3, <1>4, <1>7, <2>1, <2>2, <2>5, <3>1 DEF TypeOK
      <3>2. CASE p # l
        BY <1>1, <1>3, <1>7, <2>1, <2>2, <2>3, <2>5, <3>2 DEF TypeOK, OnlyTakes
      <3> QED BY <3>1, <3>2
    <2>9. portionsLeft'[p] \in Int /\ k[t].taken[p] \in Int /\ m[t].taken[p] \in Int
      BY <1>3, <2>3 DEF TypeOK, OnlyTakes
    <2>10. portionsLeft'[p] + (TakenBy(m, p) + OrderedIn(orders, p)) = InitialPortions
      BY <2>4, <2>5, <2>6, <2>7, <2>8, <2>9
    <2> QED BY <2>2, <2>6, <2>10, HeldIs
  <1> QED BY <1>8, <1>9, <1>10 DEF StockInv, Accounted

\* A rollback puts back on the shelf what the transaction took.
LEMMA StockRollback ==
  ASSUME IsFiniteSet(Tasks), IsFiniteSet(OrderIds), IInv, IInv', StockInv, NEW t \in Tasks,
         StockOut(t) \/ DeadlockVictim(t) \/ Abort(t)
  PROVE  StockInv'
  <1>1. Done(t) /\ portionsLeft' = RolledBack(t) /\ UNCHANGED orders
    BY DEF StockOut, DeadlockVictim, Abort
  <1>2. TypeOK /\ TypeOK'
    BY DEF IInv
  <1>3. (\A v \in Tasks \ {t} : task'[v] = task[v]) /\ task'[t] = Idle
    BY <1>1, <1>2 DEF Done, TypeOK
  <1>4. \A l \in Listings : task'[t].taken[l] = 0
    BY <1>3 DEF Idle, Nothing
  <1>5. TakenMatches' /\ LiveCarts'
    BY <1>1, <1>3, <1>4 DEF StockInv, TakenMatches, LiveCarts, Live
  <1>6. ASSUME NEW p \in Listings PROVE portionsLeft'[p] + Held(p)' = InitialPortions
    <2>1. PICK k : k = task
      OBVIOUS
    <2>2. PICK m : m = task'
      OBVIOUS
    <2>3. OnlyTakes(t, p, k, m)
      BY <1>2, <1>3, <2>1, <2>2 DEF TypeOK, TaskType, OnlyTakes
    <2>4. /\ TakenBy(k, p) \in Int
          /\ TakenBy(m, p) = TakenBy(k, p) - k[t].taken[p] + m[t].taken[p]
      BY <2>3, TakenChange
    <2>5. portionsLeft[p] \in Nat /\ \A o \in Live(orders) : Wanted(orders[o].cart, p) \in Nat
      BY <1>2, StockTypes DEF StockInv
    <2>6. OrderedIn(orders, p) \in Int /\ OrderedIn(orders', p) = OrderedIn(orders, p)
      BY <1>1, <2>5, OrderedInt
    <2>7. portionsLeft[p] + (TakenBy(k, p) + OrderedIn(orders, p)) = InitialPortions
      BY <2>1, HeldIs DEF StockInv, Accounted
    <2>8. portionsLeft'[p] = portionsLeft[p] + k[t].taken[p] /\ m[t].taken[p] = 0
      BY <1>1, <1>4, <2>1, <2>2 DEF RolledBack
    <2>9. k[t].taken[p] \in Int
      BY <2>3 DEF OnlyTakes
    <2>10. portionsLeft'[p] + (TakenBy(m, p) + OrderedIn(orders, p)) = InitialPortions
      BY <2>4, <2>5, <2>6, <2>7, <2>8, <2>9
    <2> QED BY <2>2, <2>6, <2>10, HeldIs
  <1> QED BY <1>5, <1>6 DEF StockInv, Accounted

\* The commit moves what the transaction took into the order.
LEMMA StockInsert ==
  ASSUME IsFiniteSet(Tasks), IsFiniteSet(OrderIds), IInv, IInv', StockInv,
         NEW t \in Tasks, InsertOrder(t)
  PROVE  StockInv'
  <1>1. PICK o \in Unused :
          /\ orders' = [orders EXCEPT ![o] =
                          [status |-> "PENDING", user |-> task[t].user,
                           key |-> task[t].key, cart |-> task[t].cart]]
          /\ task' = [task EXCEPT ![t].pc = "intent", ![t].order = o, ![t].taken = Nothing]
    BY DEF InsertOrder
  <1>2. o \in OrderIds /\ orders[o].status = "none"
    BY DEF Unused, NoRow
  <1>3. /\ TypeOK /\ TypeOK' /\ task[t] \in TaskType /\ UNCHANGED portionsLeft
        /\ task[t].pc = "decrement" /\ task[t].cart \in Carts
    BY DEF InsertOrder, At, IInv, TypeOK, TasksMatch
  <1>4. task' = [task EXCEPT ![t] = [task[t] EXCEPT !.pc = "intent", !.order = o,
                                                    !.taken = Nothing]]
    BY <1>1, <1>3 DEF TypeOK
  <1>5. [task[t] EXCEPT !.pc = "intent", !.order = o, !.taken = Nothing].taken = Nothing
    BY <1>3 DEF TaskType
  <1>6. (\A u \in Tasks \ {t} : task'[u] = task[u]) /\ task'[t].taken = Nothing
    BY <1>3, <1>4, <1>5 DEF TypeOK
  <1>7. /\ orders'[o].status = "PENDING" /\ orders'[o].cart = task[t].cart
        /\ \A p \in OrderIds \ {o} : orders'[p] = orders[p]
    BY <1>1, <1>2, <1>3 DEF TypeOK
  <1>8. TakenMatches'
    BY <1>6 DEF StockInv, TakenMatches, Nothing
  <1>9. LiveCarts'
    BY <1>3, <1>7 DEF StockInv, LiveCarts, Live
  <1>10. \A l \in Listings : task[t].taken[l] = Wanted(task[t].cart, l)
    <2> SUFFICES ASSUME NEW l \in Listings PROVE task[t].taken[l] = Wanted(task[t].cart, l)
      OBVIOUS
    <2>1. CASE \E i \in DOMAIN task[t].cart : task[t].cart[i].listing = l
      <3>1. task[t].taken[l] # 0
        BY <2>1 DEF InsertOrder, AllTaken
      <3> QED BY <3>1 DEF StockInv, TakenMatches
    <2>2. CASE \A i \in DOMAIN task[t].cart : task[t].cart[i].listing # l
      <3>1. Wanted(task[t].cart, l) = 0
        BY <2>2, NotWanted
      <3> QED BY <3>1 DEF StockInv, TakenMatches
    <2> QED BY <2>1, <2>2
  <1>11. ASSUME NEW l \in Listings PROVE portionsLeft'[l] + Held(l)' = InitialPortions
    <2>1. PICK k : k = task
      OBVIOUS
    <2>2. PICK m : m = task'
      OBVIOUS
    <2>3. PICK r : r = orders
      OBVIOUS
    <2>4. PICK s : s = orders'
      OBVIOUS
    <2>5. OnlyTakes(t, l, k, m)
      BY <1>3, <1>6, <2>1, <2>2 DEF TypeOK, TaskType, OnlyTakes
    <2>6. /\ TakenBy(k, l) \in Int
          /\ TakenBy(m, l) = TakenBy(k, l) - k[t].taken[l] + m[t].taken[l]
      BY <2>5, TakenChange
    <2>7. OnlyOrders(o, l, r, s)
      <3>1. \A p \in Live(r) : Wanted(r[p].cart, l) \in Int
        BY <1>3, <2>3, StockTypes DEF StockInv
      <3>2. \A p \in Live(s) : Wanted(s[p].cart, l) \in Int
        BY <1>9, <2>4, CartsAssumption DEF LiveCarts
      <3> QED BY <1>7, <2>3, <2>4, <3>1, <3>2 DEF OnlyOrders
    <2>8. /\ OrderedIn(r, l) \in Int
          /\ OrderedIn(s, l) = OrderedIn(r, l) - Holds(r, o, l) + Holds(s, o, l)
      BY <1>2, <2>7, OrderedChange
    <2>9. Holds(r, o, l) = 0 /\ Holds(s, o, l) = Wanted(task[t].cart, l)
      BY <1>2, <1>7, <2>3, <2>4 DEF Holds, Live
    <2>10. k[t].taken[l] = Wanted(task[t].cart, l) /\ m[t].taken[l] = 0
      BY <1>6, <1>10, <2>1, <2>2 DEF Nothing
    <2>11. Wanted(task[t].cart, l) \in Int /\ portionsLeft[l] \in Int
      BY <1>3, CartsAssumption DEF TypeOK
    <2>12. portionsLeft[l] + (TakenBy(k, l) + OrderedIn(r, l)) = InitialPortions
      BY <2>1, <2>3, HeldIs DEF StockInv, Accounted
    <2>13. TakenBy(m, l) + OrderedIn(s, l) = TakenBy(k, l) + OrderedIn(r, l)
      BY <2>6, <2>8, <2>9, <2>10, <2>11
    <2> QED BY <1>3, <2>2, <2>4, <2>12, <2>13, HeldIs
  <1> QED BY <1>8, <1>9, <1>11 DEF StockInv, Accounted

\* A payment keeps what the order holds; a failed one puts it back on the shelf.
LEMMA StockPayment ==
  ASSUME IsFiniteSet(Tasks), IsFiniteSet(OrderIds), IInv, IInv', StockInv,
         NEW o \in OrderIds, BuyerPays(o) \/ HandlePaymentIntentFailed(o)
  PROVE  StockInv'
  <1>1. TypeOK /\ TypeOK' /\ UNCHANGED task /\ orders[o] \in RowType
    BY DEF IInv, TypeOK, BuyerPays, HandlePaymentIntentFailed
  <1>2. /\ \A p \in OrderIds \ {o} : orders'[p] = orders[p]
        /\ orders'[o].cart = orders[o].cart
        /\ \/ /\ orders'[o].status \in {"PENDING", "CONFIRMED"}
                   <=> orders[o].status \in {"PENDING", "CONFIRMED"}
              /\ UNCHANGED portionsLeft
           \/ /\ orders[o].status = "PENDING" /\ orders'[o].status = "CANCELLED"
              /\ portionsLeft' = [l \in Listings |-> portionsLeft[l] + Wanted(orders[o].cart, l)]
    <2>1. ASSUME NEW st, orders' = [orders EXCEPT ![o].status = st]
          PROVE  /\ \A p \in OrderIds \ {o} : orders'[p] = orders[p]
                 /\ orders'[o].cart = orders[o].cart /\ orders'[o].status = st
      BY <1>1, <2>1 DEF TypeOK, RowType
    <2>2. CASE BuyerPays(o)
      <3>1. PICK st : st = IF orders[o].status = "PENDING" THEN "CONFIRMED" ELSE orders[o].status
        OBVIOUS
      <3>2. orders' = [orders EXCEPT ![o].status = st] /\ UNCHANGED portionsLeft
        BY <1>1, <2>2, <3>1 DEF BuyerPays, TypeOK
      <3> QED BY <2>1, <3>1, <3>2
    <2>3. CASE HandlePaymentIntentFailed(o)
      BY <2>1, <2>3 DEF HandlePaymentIntentFailed
    <2> QED BY <2>2, <2>3
  <1>3. TakenMatches'
    BY <1>1 DEF StockInv, TakenMatches
  <1>4. LiveCarts'
    BY <1>2 DEF StockInv, LiveCarts, Live
  <1>5. ASSUME NEW l \in Listings PROVE portionsLeft'[l] + Held(l)' = InitialPortions
    <2>1. PICK r : r = orders
      OBVIOUS
    <2>2. PICK s : s = orders'
      OBVIOUS
    <2>3. OnlyOrders(o, l, r, s)
      <3>1. \A p \in Live(r) : Wanted(r[p].cart, l) \in Int
        BY <1>1, <2>1, StockTypes DEF StockInv
      <3>2. \A p \in Live(s) : Wanted(s[p].cart, l) \in Int
        BY <1>4, <2>2, CartsAssumption DEF LiveCarts
      <3> QED BY <1>2, <2>1, <2>2, <3>1, <3>2 DEF OnlyOrders
    <2>4. /\ OrderedIn(r, l) \in Int
          /\ OrderedIn(s, l) = OrderedIn(r, l) - Holds(r, o, l) + Holds(s, o, l)
      BY <2>3, OrderedChange
    <2>5. portionsLeft[l] + (TakenBy(task, l) + OrderedIn(r, l)) = InitialPortions
      BY <2>1, HeldIs DEF StockInv, Accounted
    <2>6. portionsLeft[l] \in Int /\ TakenBy(task, l) \in Int
      BY <1>1, TakenInt DEF TypeOK
    <2>7. Holds(r, o, l) \in Int
      BY <2>1, <2>3 DEF Holds, OnlyOrders
    <2>8. portionsLeft'[l] = portionsLeft[l] + Holds(r, o, l) - Holds(s, o, l)
      BY <1>1, <1>2, <2>1, <2>2, <2>6, <2>7 DEF Holds, Live
    <2>9. Holds(s, o, l) \in Int
      BY <2>2, <2>3 DEF Holds, OnlyOrders
    <2>10. portionsLeft'[l] + (TakenBy(task, l) + OrderedIn(s, l)) = InitialPortions
      BY <2>4, <2>5, <2>6, <2>7, <2>8, <2>9
    <2>11. TakenBy(task', l) = TakenBy(task, l)
      BY <1>1
    <2> QED BY <2>2, <2>10, <2>11, HeldIs
  <1> QED BY <1>3, <1>4, <1>5 DEF StockInv, Accounted

\* POST /orders and payment_intent.payment_failed, with finitely many requests
\* and orders: every portion is on the shelf, in an open transaction or in an
\* order that was not cancelled, whatever carts cross, deadlock, abort or crash.
THEOREM StockIsConserved ==
  ASSUME IsFiniteSet(Tasks), IsFiniteSet(OrderIds)
  PROVE  Spec => []StockConserved
  <1>1. IInv /\ StockInv => StockConserved
    BY DEF IInv, TypeOK, StockInv, Accounted, StockConserved
  <1>2. Init => StockInv
    BY StockInit
  <1>3. IInv /\ IInv' /\ StockInv /\ [Next]_vars => StockInv'
    <2> SUFFICES ASSUME IInv, IInv', StockInv, [Next]_vars PROVE StockInv'
      OBVIOUS
    <2>1. CASE UNCHANGED vars
      <3>1. UNCHANGED <<portionsLeft, orders, task>>
        BY <2>1 DEF vars
      <3>2. ASSUME NEW l \in Listings PROVE Held(l)' = Held(l)
        BY <3>1, HeldIs
      <3> QED BY <3>1, <3>2 DEF StockInv, TakenMatches, LiveCarts, Live, Accounted
    <2>2. ASSUME NEW t \in Tasks, Step(t) \/ Abort(t) PROVE StockInv'
      BY <2>2, StockOutside, StockDecrement, StockRollback, StockInsert DEF Step
    <2> QED BY <2>1, <2>2, StockOutside, StockPayment DEF Next
  <1> QED BY <1>1, <1>2, <1>3, InvHolds, PTL DEF Spec
=============================================================================
