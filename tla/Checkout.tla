------------------------------ MODULE Checkout ------------------------------
(***************************************************************************)
(* Placing orders: POST /orders with an Idempotency-Key, from the lookup   *)
(* of the key to the stored response, for several requests at once.        *)
(*                                                                         *)
(* Code: OrdersController.create, IdempotencyService, OrdersService.       *)
(* createOrder (ensureStripeCustomer, atomicDecrementInventory,            *)
(* insertOrder) and, as the other writer of the stock, the restore of a    *)
(* declined payment.  What happens to an order afterwards is OrderFlow.    *)
(*                                                                         *)
(* One request is a TASK; every await is an interleaving point.  The stock *)
(* UPDATEs of one request run in one transaction: each takes the row lock  *)
(* of its listing and keeps it until commit or rollback, so a row that     *)
(* another task holds makes a task wait.  What the checks on buyer, seller *)
(* and cart look at is left out: they may accept or reject.                *)
(***************************************************************************)
EXTENDS Integers, Sequences, FiniteSets, FiniteSetsExt

CONSTANTS
    Tasks,         \* requests that may be in flight at once
    Users,         \* buyers
    Keys,          \* Idempotency-Key values a buyer's app uses
    Listings,      \* listings of the seller
    CookToOrder,   \* the listings whose portionsLeft is NULL
    Carts,         \* carts: sequences of [listing, quantity] items
    InitialPortions, \* portionsLeft of every other listing at the start
    OrderIds,      \* bound on the orders: the ids generateUlid may return
    NoCart, NoUser, NoKey, NoOrder,
    MaxCustomers,  \* bound: Stripe customers of a buyer are counted up to this
    Faults         \* which failures may happen, a subset of FaultKinds

FaultKinds == {"db", "stripe"}

\* wantedByListing: the quantities of one listing are added up, "in case the
\* same listing appears twice in the cart".
Wanted(cart, l) ==
    MapThenSumSet(LAMBDA i : cart[i].quantity,
                  {i \in DOMAIN cart : cart[i].listing = l})

ASSUME NullsAssumption ==
    NoCart \notin Carts /\ NoUser \notin Users /\ NoKey \notin Keys
        /\ NoOrder \notin OrderIds
ASSUME StockAssumption ==
    InitialPortions \in Nat /\ MaxCustomers \in Nat /\ CookToOrder \subseteq Listings
\* CreateOrderItemDto: a cart names listings, with quantities of at least 1.
ASSUME CartsAssumption ==
    \A cart \in Carts :
      /\ cart # <<>>
      /\ \A i \in DOMAIN cart : cart[i].listing \in Listings
      /\ \A l \in Listings : Wanted(cart, l) \in Nat
      /\ \A i \in DOMAIN cart : Wanted(cart, cart[i].listing) > 0
ASSUME FaultsAssumption == Faults \subseteq FaultKinds

VARIABLES
    portionsLeft, \* stock, as the transaction in progress on the row sees it
    orders,       \* the Order rows
    keys,         \* IdempotencyKey rows: the saved response of (user, key)
    intent,       \* orders with a PaymentIntent at Stripe
    answered,     \* orders whose client secret the buyer's app received
    charged,      \* orders whose PaymentIntent was paid
    customers,    \* Stripe customers created for each buyer
    stored,       \* buyers whose User row holds a stripeCustomerId
    stockOuts,    \* carts that were refused for want of stock
    task          \* the requests in flight

vars == <<portionsLeft, orders, keys, intent, answered, charged, customers,
          stored, stockOuts, task>>

NoRow == [status |-> "none", user |-> NoUser, key |-> NoKey, cart |-> NoCart]
Nothing == [l \in Listings |-> 0]
Idle == [pc |-> "idle", user |-> NoUser, key |-> NoKey, cart |-> NoCart,
         has |-> FALSE, taken |-> Nothing, order |-> NoOrder]
NoResponse == [order |-> NoOrder, cart |-> NoCart]

Init ==
    /\ portionsLeft = [l \in Listings |-> InitialPortions]
    /\ orders = [o \in OrderIds |-> NoRow]
    /\ keys = [uk \in Users \X Keys |-> NoResponse]
    /\ intent = {}
    /\ answered = {}
    /\ charged = {}
    /\ customers = [u \in Users |-> 0]
    /\ stored = {}
    /\ stockOuts = {}
    /\ task = [t \in Tasks |-> Idle]

-----------------------------------------------------------------------------
(* Helpers *)

At(t, pc) == task[t].pc = pc
Goto(t, pc) == task' = [task EXCEPT ![t].pc = pc]
Done(t) == task' = [task EXCEPT ![t] = Idle]

\* The key the request in slot t carries.
KeyOf(t) == <<task[t].user, task[t].key>>

Unused == {o \in OrderIds : orders[o] = NoRow}
Busy == {t \in Tasks : task[t] # Idle}

-----------------------------------------------------------------------------
(* POST /orders *)

\* The controller looks the key up: a hit with the same body replays the stored
\* response, a hit with another body is a 409, a miss does the work.  (The
\* guard on Unused only enforces the bound on orders.)
Create(t, u, k, cart) ==
    /\ task[t] = Idle
    /\ Cardinality(Unused) > Cardinality(Busy)
    /\ \/ /\ keys[<<u, k>>] = NoResponse
          /\ task' = [task EXCEPT ![t].pc = "buyer", ![t].user = u,
                                  ![t].key = k, ![t].cart = cart]
          /\ UNCHANGED answered
       \/ /\ keys[<<u, k>>].cart = cart
          /\ answered' = answered \cup {keys[<<u, k>>].order}
          /\ UNCHANGED task
    /\ UNCHANGED <<portionsLeft, orders, keys, intent, charged, customers,
                   stored, stockOuts>>

\* createOrder loads the buyer, and with it the stored Stripe customer id.
LoadBuyer(t) ==
    /\ At(t, "buyer")
    /\ task' = [task EXCEPT ![t].pc = "cart",
                            ![t].has = task[t].user \in stored]
    /\ UNCHANGED <<portionsLeft, orders, keys, intent, answered, charged,
                   customers, stored, stockOuts>>

\* The seller, the listings and the add-ons are checked, once and without a lock:
\* the stock is not one of the things that are looked at.
LoadAndValidateCart(t) ==
    /\ At(t, "cart")
    /\ Goto(t, "customer") \/ Done(t)
    /\ UNCHANGED <<portionsLeft, orders, keys, intent, answered, charged,
                   customers, stored, stockOuts>>

\* A stored customer is reused when Stripe confirms it; when there is none, or
\* the retrieval fails for whatever reason, a new one is created.
EnsureStripeCustomer(t) ==
    /\ At(t, "customer")
    /\ \/ /\ task[t].has
          /\ Goto(t, "decrement")
          /\ UNCHANGED customers
       \/ /\ ~task[t].has \/ "stripe" \in Faults
          /\ customers' = [customers EXCEPT ![task[t].user] =
                             IF @ < MaxCustomers THEN @ + 1 ELSE @]
          /\ Goto(t, "saveCustomer")
       \/ /\ "stripe" \in Faults      \* 503, before anything was written
          /\ Done(t)
          /\ UNCHANGED customers
    /\ UNCHANGED <<portionsLeft, orders, keys, intent, answered, charged,
                   stored, stockOuts>>

SaveStripeCustomer(t) ==
    /\ At(t, "saveCustomer")
    /\ stored' = stored \cup {task[t].user}
    /\ Goto(t, "decrement")
    /\ UNCHANGED <<portionsLeft, orders, keys, intent, answered, charged,
                   customers, stockOuts>>

\* The listing whose stock t updates next: the first of its cart, in cart
\* order, that it has not updated yet.
NextListing(t, l) ==
    /\ At(t, "decrement")
    /\ \E i \in DOMAIN task[t].cart :
         /\ l = task[t].cart[i].listing
         /\ task[t].taken[l] = 0
         /\ \A j \in 1 .. i - 1 : task[t].taken[task[t].cart[j].listing] # 0
AllTaken(t) ==
    \A i \in DOMAIN task[t].cart : task[t].taken[task[t].cart[i].listing] # 0

\* The tasks whose open transaction has updated the row of l.
Holders(l) == {t \in Tasks : task[t].taken[l] > 0}

\* UPDATE ... SET portionsLeft = portionsLeft - q WHERE portionsLeft >= q.
AtomicDecrementInventory(t) ==
    /\ \E l \in Listings \ CookToOrder :
         LET q == Wanted(task[t].cart, l)
         IN  /\ NextListing(t, l)
             /\ Holders(l) = {}
             /\ portionsLeft[l] >= q
             /\ portionsLeft' = [portionsLeft EXCEPT ![l] = @ - q]
             /\ task' = [task EXCEPT ![t].taken[l] = q]
    /\ UNCHANGED <<orders, keys, intent, answered, charged, customers, stored,
                   stockOuts>>

\* Mutant: the UPDATEs do not run in the transaction.
NotRolledBack(t) == portionsLeft

\* What t's transaction took goes back to the rows when it rolls back.
RolledBack(t) == [l \in Listings |-> portionsLeft[l] + task[t].taken[l]]

\* The next UPDATE of t matches no row.  NULL matches no comparison.  The
\* comparison is first made on the committed row, which for a row held by
\* another task is the value before its decrement.
NoRowMatches(t) ==
    \E l \in Listings :
      /\ NextListing(t, l)
      /\ \/ l \in CookToOrder
         \/ /\ Holders(l) = {}
            /\ portionsLeft[l] < Wanted(task[t].cart, l)
         \/ \E u \in Holders(l) :
              portionsLeft[l] + task[u].taken[l] < Wanted(task[t].cart, l)

\* Mutant: the stock-out is not thrown, the UPDATE is tried again.
StockOutRetried(t) == NoRowMatches(t) /\ UNCHANGED vars

\* Then the handler throws and the transaction rolls back.
StockOut(t) ==
    /\ NoRowMatches(t)
    /\ portionsLeft' = RolledBack(t)
    /\ stockOuts' = stockOuts \cup {task[t].cart}
    /\ Done(t)
    /\ UNCHANGED <<orders, keys, intent, answered, charged, customers, stored>>

\* Carts that name the same listings in another order may wait for each other:
\* PostgreSQL detects the cycle and aborts one of its transactions.
WaitsFor(t, u) ==
    t # u /\ \E l \in Listings : NextListing(t, l) /\ u \in Holders(l)
DeadlockVictim(t) ==
    /\ \E C \in SUBSET Tasks :
         /\ t \in C
         /\ \A u \in C : \E v, w \in C : WaitsFor(u, v) /\ WaitsFor(w, u)
    /\ portionsLeft' = RolledBack(t)
    /\ Done(t)
    /\ UNCHANGED <<orders, keys, intent, answered, charged, customers, stored,
                   stockOuts>>

\* insertOrder, and the commit that makes the order and the stock visible.
InsertOrder(t) ==
    /\ At(t, "decrement")
    /\ AllTaken(t)
    /\ \E o \in Unused :
         /\ orders' = [orders EXCEPT ![o] =
                         [status |-> "PENDING", user |-> task[t].user,
                          key |-> task[t].key, cart |-> task[t].cart]]
         /\ task' = [task EXCEPT ![t].pc = "intent", ![t].order = o,
                                 ![t].taken = Nothing]
    /\ UNCHANGED <<portionsLeft, keys, intent, answered, charged, customers,
                   stored, stockOuts>>

\* Stripe refuses or cannot be reached: 503, and the order stays as it is.  The
\* PaymentIntent's id is then copied to the order, best-effort; both outcomes
\* are initial states of OrderFlow and nothing here depends on them.
CreatePaymentIntent(t) ==
    /\ At(t, "intent")
    /\ \/ intent' = intent \cup {task[t].order} /\ Goto(t, "save")
       \/ "stripe" \in Faults /\ Done(t) /\ UNCHANGED intent
    /\ UNCHANGED <<portionsLeft, orders, keys, answered, charged, customers,
                   stored, stockOuts>>

\* Mutant: the response is upserted.
SaveUpserted(t) ==
    /\ At(t, "save")
    /\ keys' = [keys EXCEPT ![KeyOf(t)] =
                  [order |-> task[t].order, cart |-> task[t].cart]]
    /\ Goto(t, "answer")
    /\ UNCHANGED <<portionsLeft, orders, intent, answered, charged, customers,
                   stored, stockOuts>>

\* The response is stored under the key, whose (userId, key) is unique: a
\* request that finds the row there fails instead of answering.
SaveResponse(t) ==
    /\ At(t, "save")
    /\ IF keys[KeyOf(t)] = NoResponse
       THEN /\ keys' = [keys EXCEPT ![KeyOf(t)] =
                          [order |-> task[t].order, cart |-> task[t].cart]]
            /\ Goto(t, "answer")
       ELSE Done(t) /\ UNCHANGED keys
    /\ UNCHANGED <<portionsLeft, orders, intent, answered, charged, customers,
                   stored, stockOuts>>

\* The app receives the client secret.
Answer(t) ==
    /\ At(t, "answer")
    /\ answered' = answered \cup {task[t].order}
    /\ Done(t)
    /\ UNCHANGED <<portionsLeft, orders, keys, intent, charged, customers,
                   stored, stockOuts>>

\* A statement throws, or the process dies: an open transaction rolls back, the
\* rest of the handler never happens.
Abort(t) ==
    /\ "db" \in Faults
    /\ task[t] # Idle
    /\ portionsLeft' = RolledBack(t)
    /\ Done(t)
    /\ UNCHANGED <<orders, keys, intent, answered, charged, customers, stored,
                   stockOuts>>

-----------------------------------------------------------------------------
(* After the response *)

\* The app pays with the client secret it got.
BuyerPays(o) ==
    /\ o \in answered \cap intent
    /\ o \notin charged
    /\ charged' = charged \cup {o}
    /\ orders' = [orders EXCEPT ![o].status =
                    IF @ = "PENDING" THEN "CONFIRMED" ELSE @]
    /\ UNCHANGED <<portionsLeft, keys, intent, answered, customers, stored,
                   stockOuts, task>>

\* payment_intent.payment_failed: the order is cancelled and its stock comes
\* back, with an UPDATE that waits for the row locks.
HandlePaymentIntentFailed(o) ==
    /\ o \in answered \cap intent
    /\ o \notin charged
    /\ orders[o].status = "PENDING"
    /\ \A l \in Listings : Wanted(orders[o].cart, l) > 0 => Holders(l) = {}
    /\ orders' = [orders EXCEPT ![o].status = "CANCELLED"]
    /\ portionsLeft' = [l \in Listings |->
                          portionsLeft[l] + Wanted(orders[o].cart, l)]
    /\ UNCHANGED <<keys, intent, answered, charged, customers, stored,
                   stockOuts, task>>

-----------------------------------------------------------------------------
Step(t) ==
    \/ LoadBuyer(t) \/ LoadAndValidateCart(t) \/ EnsureStripeCustomer(t)
    \/ SaveStripeCustomer(t)
    \/ AtomicDecrementInventory(t) \/ StockOut(t) \/ DeadlockVictim(t)
    \/ InsertOrder(t) \/ CreatePaymentIntent(t) \/ SaveResponse(t) \/ Answer(t)

Next ==
    \/ \E t \in Tasks :
         \/ \E u \in Users, k \in Keys, cart \in Carts : Create(t, u, k, cart)
         \/ Step(t)
         \/ Abort(t)
    \/ \E o \in OrderIds : BuyerPays(o) \/ HandlePaymentIntentFailed(o)

Spec == Init /\ [][Next]_vars

\* A request in flight runs on, PostgreSQL breaks lock cycles, and it queues
\* the transactions that wait for one row.
FairSpec ==
    /\ Spec
    /\ \A t \in Tasks :
         /\ WF_vars(Step(t))
         /\ SF_vars(AtomicDecrementInventory(t) \/ StockOut(t))

-----------------------------------------------------------------------------
(* Properties *)

OrderStatuses == {"none", "PENDING", "CONFIRMED", "CANCELLED"}
RowType == [status : OrderStatuses, user : Users \cup {NoUser},
            key : Keys \cup {NoKey}, cart : Carts \cup {NoCart}]
TaskType ==
    [pc : {"idle", "buyer", "cart", "customer", "saveCustomer", "decrement", "intent",
           "save", "answer"},
     user : Users \cup {NoUser}, key : Keys \cup {NoKey},
     cart : Carts \cup {NoCart}, has : BOOLEAN, taken : [Listings -> Nat],
     order : OrderIds \cup {NoOrder}]

\* The type invariant.  Its second line is the promise of
\* atomicDecrementInventory: stock never goes below zero.
TypeOK ==
    /\ task \in [Tasks -> TaskType]
    /\ portionsLeft \in [Listings -> Nat]
    /\ orders \in [OrderIds -> RowType]
    /\ keys \in [Users \X Keys ->
                  [order : OrderIds \cup {NoOrder}, cart : Carts \cup {NoCart}]]
    /\ intent \subseteq OrderIds
    /\ answered \subseteq OrderIds
    /\ charged \subseteq OrderIds
    /\ customers \in [Users -> Nat]
    /\ stored \subseteq Users
    /\ stockOuts \subseteq Carts

\* Every portion is accounted for: on the shelf, in an open transaction, or in
\* an order that has not been cancelled.  A rollback after the first of two
\* listings, a cart that names a listing twice, and a restore that meets a
\* decrement must all keep the sum, and nothing is sold that is not on the shelf.
Held(l) ==
    MapThenSumSet(LAMBDA t : task[t].taken[l], Tasks)
    + MapThenSumSet(LAMBDA o : Wanted(orders[o].cart, l),
                    {o \in OrderIds : orders[o].status \in {"PENDING", "CONFIRMED"}})
StockConserved ==
    \A l \in Listings :
      portionsLeft[l] >= 0 /\ portionsLeft[l] + Held(l) = InitialPortions

\* One Idempotency-Key charges the buyer at most once (OrdersController.create):
\* requests may overlap, crash and be retried, and then leave several orders
\* under one key, but only one of them ever hands its client secret out.
OneChargePerKey ==
    \A o, p \in charged :
      orders[o].user = orders[p].user /\ orders[o].key = orders[p].key => o = p

\* Liveness: a request ends, whatever order its cart and the others name the
\* listings in.
RequestsEnd == \A t \in Tasks : task[t] # Idle ~> task[t] = Idle

\* "Replays the original response on a duplicate call with same key + body"
\* (OrdersController.create): one key, one order.
OneOrderPerKey ==
    \A o, p \in OrderIds \ Unused :
      orders[o].user = orders[p].user /\ orders[o].key = orders[p].key => o = p

\* "a concurrent request created one. Fetch and use that." (ensureStripeCustomer):
\* a buyer has one Stripe customer.
OneCustomerPerBuyer == \A u \in Users : customers[u] <= 1

\* "so we don't strand orders" (createOrder, step 7): when no request is in
\* flight, every unpaid order has a PaymentIntent that can still pay or fail.
NoStrandedOrder ==
    Busy = {} => \A o \in OrderIds : orders[o].status = "PENDING" => o \in intent

\* portionsLeft "null = cook to order (no inventory tracking)"
\* (loadAndValidateCart): such a listing is never what sells a cart out.
CookToOrderNeverSoldOut ==
    \A cart \in stockOuts :
      \E i \in DOMAIN cart : cart[i].listing \notin CookToOrder
=============================================================================
