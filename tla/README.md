# IncaCook server: a TLA+ verification project

IncaCook is a marketplace of home-cooked dishes. Buyers order portions of a
listing, sellers cook them, drivers carry them; Stripe holds the money and a
ledger in the database says who earned what. The server is one NestJS code base
run as two processes (`main.ts`, the API; `worker.ts`, the BullMQ worker) over
PostgreSQL (Prisma), Redis (BullMQ), Stripe, RevenueCat,
Supabase (auth, storage) and push/SMS/mail providers.

This directory models the part of the program where several actors change the
same rows: what a test, which runs one handler at a time against a mocked
database, hardly reaches.

## 1. Inventory

| Component | State | Operations | Meets |
|---|---|---|---|
| Checkout (`orders.service` createOrder, `idempotency.service`) | `Order`, `Listing.portionsLeft`, `IdempotencyKey` rows with the stored response | createOrder with an `Idempotency-Key`; atomic stock decrement; PaymentIntent | Stripe, Order lifecycle |
| Order lifecycle (`orders.service`) | `Order.status`, `inventoryRestored`, `stripeRefundId`, pickup tokens | confirmPaymentForBuyer, startPreparing, markReady, confirmPickup, cancelAsSeller, sellerCannotProvide, decideNoDriver, four watchdog handlers, refundOrderIfNeeded | all the others |
| Deliveries (`deliveries.service`) | `Delivery` rows: status, driver, stamps | claim, arriveAtPickup, confirmPickup, confirmDelivery, confirmAbsentDropoff, reportSellerUnavailable | Orders, Wallet, Strikes |
| Durable timers (`jobs/*`, `infrastructure/queue`) | armed `setTimeout`s, delayed BullMQ jobs | schedule*, process | call back into Orders and Wallet |
| Stripe webhooks (`payments/webhooks`) | none of its own | payment_intent.succeeded / payment_failed, account.updated, subscription and dispute events | Orders, Subscriptions, Catalog |
| Wallet ledger (`wallets.service`) | `WalletEntry`, `Withdrawal` | creditForCompletedOrder, creditSellerEarning, compensateDriver, recordDriverDebt, release sweep, requestWithdrawal | Orders, Stripe Connect |
| Strikes (`strikes.service`) | `Strike` rows, `User.accountStatus` | addStrike, thresholds, immediateExclude, admin waive | Orders, Deliveries |
| Disputes (`orders.service`, `admin/disputes`) | `OrderDispute` rows, order REFUNDED | createDispute, admin resolution, refundForDispute, chargebacks | Orders, Wallet, Stripe |
| Subscriptions (`subscriptions`, both webhooks, `sellers` store sync) | the plan's columns of `SellerProfile`, mirrored from Stripe and RevenueCat | getStatus, createSubscription, billing portal, syncRevenueCatSubscription, subscription events of both providers | Listings, Checkout |
| Catalog (`catalog`) | `CatalogOrder`, `CatalogClaim`, products | createOrder, confirmPayment, createClaim, adminRefund and other decisions | Stripe |
| Listings, bookmarks, feed (`listings`) | `Listing` rows, bookmarks | create, update, setAvailability, softDelete, bookmark; the conditions of feed, detail page and checkout | Subscriptions, Conduct, Verification, Checkout |
| Reviews (`reviews`) | `Review` rows, the aggregates of `SellerProfile` | createForOrder, the rating rule | Strikes |
| KYC and onboarding (`compliance/kyc`, `admin/kyc`, `users/onboarding`, role profiles) | `KycDocument` rows, `kycStatus`, the wizard's steps | upload, approve, reject, upsertProfile and the other steps, getOnboardingState | Listings, Deliveries |
| Users and authentication (`auth`, `users`) | the Supabase identity and the `User` row, `Address` rows, `SellerProfile.location` | sign-up, sign-in, e-mail and phone codes, createFromJwt, profile edits, addresses | Listings (the feed's radius) |
| Legal documents (`compliance/legal-documents`, `charters`) | `LegalDocument`, `UserCharter` | draft, edit, publish, delete, accept, recordCharter | Checkout, Notifications |
| Messaging (`messaging`) | `Conversation` with unread counters, `Message` | findOrCreate, ensureSellerDriverConversation, send, markRead | Deliveries, Notifications |
| Notifications (`notifications`, `admin/notifications`) | `DeviceToken` rows | register, remove, send, prune, broadcast | all |
| Tracking and dispatch (`tracking`, `deliveries`, `orders`) | the driver's `isOnline` and position, sockets in rooms, QR tokens | setOnline, recordLocation, listAvailable, claim, the QR endpoints, subscribe | Deliveries, Notifications |
| Moderation reports (`moderation`) | `Report` rows | create, resolve | Listings |
| Admin dashboards, files, catalog products, infrastructure | views, uploads, products | dashboards, signed URLs, product edits, adapters | all |

What is hard here, and why:

* **Interleaving.** A handler is a chain of awaited statements. Two requests, a
  request and a webhook, a timer and a job of the same watchdog, the API process
  and the worker: all may interleave at every `await`. Most handlers read a row,
  check its status, and later `update` it *by id alone*, so a late write
  overwrites whatever happened in between. Transactions run at PostgreSQL's
  default READ COMMITTED and lock nothing they only read.
* **Failure.** A statement, Stripe or Redis may fail between any two
  statements; a process may die there. In-process timeouts die with it.
* **Delivery.** Stripe redelivers webhooks, late and out of order; the buyer's
  own confirmation races them; BullMQ hands out stalled jobs again.
* **Two systems, one fact.** Much is kept twice: the plan at Stripe or RevenueCat
  and on the profile, the phone number in Supabase and on the user row, the pickup
  point on the address and on the profile, the rating in the reviews and in an
  aggregate, the token at Firebase and in a row, the driver's position in the row
  and on the stream. Every handler writes one, awaits, and writes the other.
* **Money.** The same order may be credited, reversed, released, refunded and
  charged to a driver by handlers that do not know of each other.

The full list, each at its line, is under `hazards` in `PROJECT.json`.

Correctness, per component: the seller only sees paid orders; the food changes
hands in order; each earning was earned and is booked once; a driver is charged
only for food they had; stock comes back once; a cancelled sale is refunded; a
search and a trip end. A seller trades only in time that was paid for (as far as
Stripe or a date of RevenueCat's says so), while verified and not suspended; what
the feed shows can be ordered; the copies of a fact agree again once the requests
that write them are over.

## 2. Plan

In order of importance, what moves money and food first:

1. `OrderFlow` - order, deliveries, payment webhooks, ledger, strikes and timers
   of one order, composed in one module because their handlers write each
   other's rows. **Done**, with `OrderFlowProofs`.
2. `Checkout` - from the idempotency key to the stored response, for several
   requests over shared stock. **Done**, with `CheckoutProofs`.
3. `Pricing` - the money arithmetic. **Done**, with `PricingProofs`.
4. `Payouts` - withdrawals and the Connect account. **Done**, with `PayoutsProofs`.
5. `Disputes` - claims, chargebacks, admin decisions and the release sweep.
   **Done**, with `DisputesProofs`.
6. `Catalog` - the seller's own purchases, claims and refunds. **Done**, with
   `CatalogProofs`.
7. A seller's right to trade: `SellerAccount` (the rows), `Subscriptions`,
   `Conduct`, `Verification` and `Listings`, composed in `Storefront`. **Done.**
8. `PaidAccess`, the abstract specification of the subscription gate, which
   `Subscriptions` implements under `open <- Open`: the gate as far as it rests on a
   snapshot of Stripe's or on a date that RevenueCat named. **Done.**
9. What people share besides orders: `Accounts`, `Addresses`, `Push`,
   `LegalDocuments`, `Messaging`, `Tracking`, `Reports`, composed in `Community`
   over one pool of requests (`Requests`). **Done.**
10. `StorefrontProofs` - the gate's refinement step by step, and what holds of
    verification and listings. **Done.**
11. `CommunityProofs` - the invariants of the seven modules composed in
    `Community`. **Done.**
12. `StockConserved` and `SuspensionRulesApplied`, over sums of any finite set, and
    what holds of `OrderFlow` when its handlers come one at a time. **Done.**
13. Next: a further abstract specification, `Settlement` (an order is charged, its
    seller told, its stock and its money given back at most once and only when it
    was called off), which `OrderFlow` with one handler at a time should
    implement. It cannot say "delivered and credited, or cancelled and refunded":
    `NoCreditAfterRefund` does not hold (section 6).

## 3. Modules and how they correspond to the code

A request, webhook, timer or job in flight is a *task*: a record with a program
counter and what the handler holds in local variables. Each action is the code
between two `await`s that touch shared state: the guard is the handler's check
on what it just read, the effect is its write. Tasks interleave freely. A
transaction is one step from the statement that takes its row locks to the commit
where the code does nothing else that others can see, and two steps where it reads
before it writes (READ COMMITTED holds nothing for a read). `Abort`/`Crash` and
the refusals of Stripe and Redis are chosen by the constant `Faults`.

| Module | State | Stands for |
|---|---|---|
| `OrderFlow` | `order`, `dlv` (delivery rows), `portionsLeft`, `stripe` (charge, refunds, events), `money` (ledger entries), `penalties`, `watchdogs`, `notified`, `task` | one order from PENDING on: `orders.service`, `deliveries.service`, the `payment_intent` webhooks, `wallets.service` credits and sweep, `strikes.service`, BullMQ timers |
| `Checkout` | stock, orders, idempotency rows, Stripe customers and PaymentIntents, open transactions with their row locks | `createOrder` of several requests, `IdempotencyService` |
| `Pricing` | a cart's subtotal, premium and delivery flags | `priceOrder`, `computeTotals`, the rows of `creditForCompletedOrder` |
| `Payouts` | wallet entries, withdrawals, transfers, the profile's account and flag, Stripe's accounts and events | `requestWithdrawal`, `createAccountLink`, `handleAccountUpdated` |
| `Disputes` | order status, refund, earning, dispute rows, strikes, chargebacks | `createDispute`, the admin handlers, `refundForDispute`, `handleChargeDispute`, the sweep |
| `Catalog` | one catalog order, its PaymentIntent and events, claims, refunds | `CatalogService`, `CatalogClaimsService`, the catalog branch of the webhook |
| `Requests` | `task`: where each request in flight stands and what it has read | the `await`s, shared by every module below |
| `SellerAccount` | `now`, `profile`, `suspended`: the columns that decide whether a seller may trade | `SellerProfile`, `User.accountStatus`, `isSubscriptionActive` |
| `Subscriptions` | Stripe's customer and subscriptions, the store's plan, events and notices in flight until acknowledged, `paidThrough` and `basis` (history variables) | `SubscriptionsService`, both webhooks, `syncRevenueCatSubscription` |
| `PaidAccess` | the clock, the date paid for, the gate | what the gate promises (abstract) |
| `Conduct` | strike rows, reviews, the cached aggregates | `StrikesService`, `AdminStrikesController`, `ReviewsService.createForOrder` |
| `Verification` | documents, role, category, vehicle, the steps taken | `KycDocumentsService`, `AdminKycDocumentsService`, `OnboardingService`, the profile upserts |
| `Listings` | listing rows, bookmarks | `ListingsService`, `BookmarksService`, the gate of the checkout |
| `Storefront` | all of the above from `SellerAccount` on | the composition |
| `Accounts` | Supabase identities, sessions, codes, the `User` rows | `AuthService`, the account half of `UsersService` |
| `Addresses` | address rows, `SellerProfile.location` | the address half of `UsersService` |
| `Push` | `DeviceToken` rows, and which insert of a token's row a send has read | `DeviceTokensService`, `NotificationsService`, `AdminNotificationsService` |
| `LegalDocuments` | documents as committed, acceptances; the open transaction of a publication is in its request | `LegalDocumentsService`, the record of acceptance by a purchase, a publication or `recordCharter` |
| `Messaging` | threads, messages, unread counters | `ConversationsService`, `MessagingService` |
| `Tracking` | drivers, trips (an order and its delivery), tokens, rooms, what each socket was last shown | the driver's side of `DeliveriesService` with `arriveAtPickup`, the codes and the snapshot of `OrdersService`, `TrackingGateway` |
| `Reports` | reports, in the order they were filed | `ReportsService` |
| `Community` | all of the above from `Accounts` on | the composition |

Each action carries the name of the method whose step it is; `map` in
`PROJECT.json` gives the lines. `MC_*` modules hold model values, carts, amounts
and symmetry sets; `MC_OrderFlowRaces` also bounds how often handlers overlap, and
`MC_Subscriptions`, `MC_Storefront` and `MC_Community` choose at the start which part
a behaviour follows (`focus`), since the product of the parts is out of reach.

History variables (`paidThrough`, `basis`, `proven`, `edited`, `missed`, `loose`,
`login`, `struck`, `stated`, `everPublic`, `seen`, `rivals`, `crossed`, `raced`,
`excused`) are marked as such: no action's guard reads them. Several record that two
requests met, or that one failed, in a way the code does not handle, so that a
property can say what holds apart from it; each of these is an entry of section 6.
They excuse as little as the code allows: `missed` names the one person whose row
lacks the number, and forgets it when a later code brings the row up to date;
`struck` lets a device be without a row, never with another user's.

Operators marked *Mutant* are plausible bugs of the operation they precede. They
are part of no specification: a property is worth its run only if such a bug
violates it.

What is abstracted:

* Fees and prices in `OrderFlow` are positive and need no number: an entry is
  booked or not. `Pricing` has the numbers.
* Tokens, GPS distance, photos, descriptions and schedules are checks that may
  accept or reject. Pushes are left out except the seller's.
* The order's PaymentIntent id may be missing on the row at the start of
  `OrderFlow`, as `Checkout` can leave it.
* Development-only branches (auto-refilled stock, fake payments) are left out, as
  are the terms-acceptance record and inline address rows of checkout.
* Strikes in `OrderFlow` and `Disputes` are counted per incident; what they add up
  to is `Conduct`.
* In `Disputes` the delivery is one step and the order starts paid, or cancelled
  unpaid. The code never writes COMPLETED or DISPUTED to an order.
* In `Payouts` Stripe accepts a transfer to any account that exists.
* Stripe keeps an idempotency key for good; in reality at least 24 hours.
* In the storefront dates are months and a price is below or above the cap. A
  seller's charter and address steps of the wizard are taken as done. Sorting,
  distance and paging of the feed are left out.
* The client's word in `syncRevenueCatSubscription` is any member of `Hints`, a
  constant: the code compares it with nothing, and the proofs allow every plan,
  date and period the body can carry.
* In `Accounts` a person passes the address of their own identity to the
  e-mail-code handlers; passwords are left out.
* In `Tracking` ASSIGNED and AT_PICKUP are told apart, the statuses after the
  pickup are one, and those at the end are one; the rooms of conversations and
  status events are left out; `MarkReady` is one step; the thread a claim opens is
  in `Messaging`, cancellation in `OrderFlow`.
* Supabase, Prelude, Firebase, Redis, Stripe and RevenueCat are external: modelled
  by how the services use them, and free to refuse, to lose an answer or to be late.
* Audit rows and logs are left out everywhere.

## 4. Runs

| Run | Shows |
|---|---|
| `order_races` | Two handlers overlap, two drivers, two delivery rows. Seller sees only paid orders, custody chain, earnings earned, claims exclusive, ledger forward only. |
| `order_failures` | One handler at a time, every failure: stock restored once, a disappeared driver is not paid. |
| `order_liveness` | One handler at a time, Redis may refuse: payment seen, searches and trips end, cancelled sales refunded. |
| `checkout_races` | Two requests, same or different key, crossed carts, failures: no overselling, stock conserved, one charge per key, and every request ends. |
| `pricing_split` | Every cart up to 12 euros: split equals charge. |
| `payout_races` | Two requests, two earnings and a debt, lost accounts, repeated events: paid entries were transferred, debits equal transfers. |
| `dispute_races` | Two handlers over two disputes and a chargeback: refunds need a claim or an approval, decisions last. |
| `dispute_sequential` | One handler at a time, with strikes: due earnings settle. |
| `catalog_races` | Two requests on one catalog order, full and partial refunds: claims book what was refunded, the webhook is a backstop. |
| `subscriptions` | Two requests, or two subscriptions of one seller whose events overwrite the mirror and its `stripeSubscriptionId`, or a plan of the store beside one of Stripe's and a client that claims what it likes; events late, repeated and out of order: `Subscriptions` implements `PaidAccess` where the gate rests on Stripe or on a date of RevenueCat's; as long as `stripeSubscriptionId` names a paid subscription, its seller gets back in. |
| `storefront` | One seller: the suspension rules are applied however strikes and reviews overlap; `kycStatus` follows the reviews; who is told nothing is left may trade; a listing keeps the shape of its category; what the feed shows the checkout accepts. |
| `community` | Two requests in each of nine areas, with lookups and statements that fail, payloads that Firebase rejects, versions the client names and arrivals written late: a phone shown as verified was proven and is mirrored; the feed looks for a seller where the pickup address is; pushes follow the login; there are terms in force, and a purchase records only such; unread counters count; one thread per pair; a buyer follows the own trip only; a code on display opens it. |

Two kinds of definition are stated and in no run. Those of section 6 do not hold.
`OneStrikePerReason` (one handler at a time), `SnapshotNotBehindStream` and the
modules' type invariants do; `DriverChargedOnlyAfterLoss`, `LargerCartEarnsMore`,
`PremiumNeverWorse`, `NoPayoutBeforeOnboarding`, `OneRowPerChargeback`,
`PaidMeansCharged`, the type invariants of `OrderFlow`, `Checkout` and others and,
with one handler at a time, `SellerNotifiedOnce`, `OneDelivery` and
`RefundBooksAgree` are theorems (section 5), which say more than a run would.

Bounds, and why they are enough:

* `Tasks`: two. Every hazard listed is a race of two handlers; a third slot only
  matters where a handler must be overtaken twice.
* `MaxOverlaps = 1` in `order_races`: once two handlers have overlapped and both
  ended, the others run alone; a bad state left by one overlap still meets every
  handler. The theorems below have no such bound.
* `Drivers`, `MaxDeliveries`: two, so that a claim can be contested and a second
  row can exist (two `markReady`).
* `InitialPortions`, `Quantity`: 0 and 1 in `OrderFlow` (one restoration is seen,
  two are too many); 2 portions in `Checkout`, less than two carts want.
* `OrderIds`, `MaxCustomers`, `WithdrawalIds`, `Accounts`, `DisputeIds`,
  `ClaimIds`: two, so that a duplicate shows. A handler that finds no fresh id
  waits; `MaxSubtotal`: 1200 cents, past the floor and past where 25%, 30% and 5%
  round either way.
* `MaxStrikes = 0` in `dispute_races`, whose properties do not look at strikes; 2
  in `dispute_sequential`, where one would be right.
* `TotalCents = 3`, `Amounts = {1}` in `Catalog`: a full refund and a partial one
  that leaves room for another.
* `subscriptions`: `MC_Subscriptions` chooses at the start what a behaviour looks at
  (`focus`): two requests over one subscription, two subscriptions, or one of them
  and a store plan, with one request at a time in the last two. `MaxNow = 1`, so that
  a paid month can end. `MaxEvents = 2` bounds Stripe's events not yet acknowledged
  and all of RevenueCat's, any of which may come again at any time: there is always
  room for one out of turn. `Hints`: a client that has nothing, one that claims a
  plan without a date, and one that claims a plan nobody sells for the longest time.
  The theorems have none of these bounds.
* `storefront`: three incidents of 1, 2 and 3 points (any two or the critical one
  reach the threshold of 3), three orders rated 2 or 5 with `RatingMinReviews = 2`
  (10 in the code: the rule compares, it does not count), three documents
  reviewed by one admin, one listing with two drafts and three edits, each breaking
  another rule of some category.
* `community`: two of everything that can be confused (identities, addresses,
  phones, devices, documents, versions, threads, messages, trips), one driver, two
  positions and three tokens. `Areas` are the parts a behaviour may look at, for
  whoever wants to check one of them alone. `PhoneBounds`, `MailBounds`,
  `PushBounds`, `LegalBounds`, `ChatBounds` and `MapBounds` cut repetitions, and say
  which: one person (either, since they are alike) who is missed or has edited the
  number, two rows of one device's token one after the other, one acceptance, one
  watching buyer. The theorems have none of these bounds.

Runs may stop (`CHECK_DEADLOCK FALSE`): a settled order has nothing left to do.

Fairness, only where a liveness property is checked:

* Weak fairness of the next statement of a handler in flight: Node's event loop
  runs every continuation; PostgreSQL and Stripe answer or fail.
* Strong fairness of watchdogs, webhooks and the release sweep: timers and the
  five-minute cron fire, Stripe redelivers until it gets a 200. Strong because the
  slot a handler runs in is a bound of the model and may be taken in between.
* Strong fairness of a transaction that waits for a row: PostgreSQL queues
  waiters.
* In `subscriptions`: requests end, Stripe delivers its events until they are
  acknowledged and now and then answers a status request, and the seller keeps
  opening the status screen. The last is the one assumption about a user; the
  property is what the code promises to a seller who does.
* Otherwise none of users: buyers, sellers, drivers and admins may do nothing for ever.

## 5. Proofs

Proved with TLAPS for every value of the constants: any number of overlapping
handlers, drivers, rows, requests, claims, and any set of failures. Assumptions
are the named `ASSUME`s of the modules: sizes are naturals, the "none" values are
not members of the sets they stand outside of (`Null` is no row: an absent row is
told from a present one), and (Payouts) the sum of any set of entries is an
integer. Some theorems have a hypothesis of their own:

* `KycFollows` and `WizardCompleteMeansCanTrade` hold with one review at a time
  (`MaxReviewers <= 1`; with two they are false, section 6) and finitely many
  request slots.
* What is counted or added up is finite: messages (`UnreadCounts`), incidents
  (`SellersAreSuspended`), requests and orders (`StockIsConserved`).
* `StockGoesBackOnce`, `OneDriverIsSentOut`, `LostFoodIsNotPaid`, `SellerHearsOnce`,
  `CancelledSalesAreRefunded` and `BooksAgree` hold for one handler at a time
  (`OneAtATime`, the bound of `order_failures` and `order_liveness`): with two
  they are false (section 6). They bound no crash or failure, but for the last two,
  which need the database and Stripe to answer and no process to die
  (`NothingFails`, as in `order_liveness`). They say that the overlap alone is to
  blame for what section 6 lists.

| Module | Theorems | Inductive invariant, and why it is needed |
|---|---|---|
| `OrderFlowProofs` | `TypeCorrect`, `SellerSeesOnlyPaidOrders`, `CustodyInOrder`, `EarningsAreEarned`, `DriversEarnTheirTrips`, `ChargesAreJustified`, `ClaimIsExclusive`, `LedgerMovesForward` | Handlers write by id on what they read long ago, so the invariant says for each program counter what the handler read *and that it is stable*: a charge, a claim stamp, a pickup stamp or a credit is never undone, even when a status is. |
| the same, one handler at a time | `StockGoesBackOnce`, `OneDriverIsSentOut`, `LostFoodIsNotPaid`, `SellerHearsOnce`, `CancelledSalesAreRefunded`, `BooksAgree` | Here the unstable statuses count: what a handler read is still so when it writes (`Reads`); rows appear once the order is ready (`RowsFollow`); a lost trip is no wasted trip (`TripsApart`); a sale is a charged one (`SalesPaid`). A cancelled sale is refunded or its handler is before the refund (`RefundOnItsWay`), a refund is on the order or about to be (`RecordOnItsWay`). |
| `CheckoutProofs` | `NeverOversold`, `StockIsConserved`, `KeyChargesOnce` | An open transaction holds what it took, so rolling it back never goes below or above; a transaction has taken all or nothing of each line of its cart, and an order is one cart that was kept (`StockInv`); a response, and with it the client secret, leaves only after its key row was inserted. |
| `PricingProofs` | `SplitAlwaysReconciles`, `LargerCartAlwaysEarnsMore`, `PremiumIsNeverWorse` | Rounding to cents keeps order (`ShareMonotone`) and stays below the amount. |
| `PayoutsProofs` | `PaidOutWasTransferred`, `DebitsAreTransfers`, `OnboardedBeforePayout` | An id belongs to one request until its debit row exists (`IdsOwned`, `IdsDistinct`); between transfer and settlement the request remembers what was paid (`TransfersKept`). |
| `DisputesProofs` | `RefundsAreClaimed`, `ChargebackHasOneRow`, `DecisionsLast` | A handler past its decision keeps the row that justifies it (`TaskOK`, `RowsKept`, `RefundOK`). |
| `CatalogProofs` | `PaidWasCharged`, `RefundsAreBooked` | Only one createOrder makes the PaymentIntent (`OneCreation`); the refund of a claim is keyed and never changes. |
| `StorefrontProofs` | `SubscriptionsImplementPaidAccess`, `StorefrontImplementsPaidAccess`, `ListingShapeKept`, `FeedIsOrderable`, `KycFollows`, `WizardCompleteMeansCanTrade`, `SellersAreSuspended` | Every snapshot of Stripe's and every date of RevenueCat's in flight - an event, a notice, an answer a request still holds - ends within `paidThrough`, and so does the mirror while it rests on one of them (`Backed`); payments alone raise `paidThrough` (`BillingInv`): so whichever is written last opens the gate no longer than was paid, and what the client says, any `Hints`, is never taken for a date of RevenueCat's. An edit in flight was validated against the category the listing was published under, which never changes (`ListingsInv`). While one review is open nobody else decides, and an upload that read a status leaves the profile consistent with the documents (`ReviewInv`). Each evaluation runs after its own insert and counts the rows, so of two that overlap the later sees both. |
| `CommunityProofs` | `VerifiedPhones`, `ConfirmedPhones`, `PickupPoints`, `DevicesFollow`, `TermsHold`, `OneThread`, `UnreadCounts`, `BuyersFollow`, `CodesOpen` | One invariant per part: what a request past its check may rely on, or else that another one at the same step has been noted (`CreatesOnce`, `MintsOnce`, `WritesAlone`); that a copy not yet written is on its way (`OnItsWay`, `PointOnItsWay`), and that a user row about to be inserted carries the number of Supabase unless a mirroring is on its way or the person is `missed` (`CreatingTask`); that a row a send is about to remove is one whose app is gone or whose payload was rejected (`PushTask`); that the open transaction of a publication activates a document before any other is seen inactive (`LegalInv`); that a position in flight names the trip of its driver (`FixTask`, `MapInv`); that a counter counts the messages not seen (`CountsInv`). |

The storefront and the community are proved part by part. The parts share the pool
of requests (`task`) and, in the storefront, the seller's account. `Moves` says
which steps a part's actions take a request from and to; two parts have only idle
slots (and, in the community, the push that ends many handlers) in common
(`Apart`). So for each part there is a lemma that its own actions keep its
invariant (`...Kept`), with one step per action, and one that the actions of any
other part do not disturb it (`...Undisturbed`); `StorefrontKept` and
`CommunityKept` put them together. Each inductive invariant was checked by TLC
on the instance of the run before it was proved.

`ImplementsPaidAccess` is proved twice, for `Subscriptions` alone and for the
composition: the initial states map to initial states, and a step is a month that
passes, a payment, a change of the gate that the date paid for allows, or a
stutter. A write that no date of Stripe's or RevenueCat's backs closes `Open`,
which is about the rest.

Two proofs are about sums (portions held, points of strikes). The folds of the
community modules are recursive functions on the subsets of a set, and induction
over them is out of the provers' reach, so their laws are proved by a least
counterexample: the subsets of a finite set are well-founded under inclusion, and
a smallest one for which a law fails has a member to remove. The lemmas stand in
`CheckoutProofs` and in `StorefrontProofs`, which share no module.

Only model-checked, and why:

* Everything under fairness (`RequestsEnd`, `PendingEarningSettles`, `ChargeIsSeen`,
  `PaidSellerRestored`, and the three temporal properties of `order_liveness`):
  TLAPS does not reason about it. Every safety property of the runs is a theorem.

## 6. Where the code and its comments disagree

Each property of the first table quotes the comment it comes from, and is violated
when the properties of the configuration are replaced by it.

| Property | Configuration | What happens |
|---|---|---|
| `CancelledOrderHoldsNoMoney` | `OrderFlow_failures` | A declined attempt cancels the order; the PaymentIntent stays payable; the later payment is never refunded. |
| `OneOrderPerKey` | `Checkout_races` | Two overlapping requests with one key create two orders. |
| `PaidOutOnce` | `Payouts_races` | Two overlapping withdrawals, or a retry after a lost answer, transfer the same entries. |
| `StrikeOncePerSource` | `OrderFlow_races` | Two runs of one incident both insert a strike. |
| `SellerNotifiedOnce` | `OrderFlow_races` | Confirmation and webhook both notify. |
| `StockRestoredOnce` | `OrderFlow_races` | Two overlapping cancellations both restore. |
| `DisappearedDriverNotPaid` | `OrderFlow_races` | A delivery confirmed while the watchdog resolves: the driver is charged and paid. |
| `LostCancelIsNoOp` | `OrderFlow_races` | A cancellation that lost its race still refunds. |
| `NoCreditAfterRefund` | `OrderFlow_failures` | cancelAsSeller leaves the delivery claimable; it is completed and credited after the refund. |
| `OneCustomerPerBuyer` | `Checkout_races` | Two first checkouts create two Stripe customers. |
| `NoStrandedOrder` | `Checkout_races` | A refused PaymentIntent leaves a PENDING order holding stock. |
| `CookToOrderNeverSoldOut` | `Checkout_races`, `CookToOrder = {l1}` | A listing without inventory is always "no longer available". |
| `LedgerCovered` | `Pricing_split` | Below one euro the ledger books more than was paid. |
| `OneAccountPerUser`, `GateSeesOnboardedAccount`, `RedeliveryHarmless` | `Payouts_races` | Two accounts for one user; a flag of a replaced account; an old event closes the gate. |
| `OneActiveDispute`, `RefundedMeansRefunded`, `HeldWhileDisputed`, `AutoRefundAfterDelivery`, `RejectedIsNotRefunded` | `Disputes_races` (Stripe's refusal: `Faults = {"stripe"}`) | Duplicate claims; REFUNDED without a refund; earnings released under a dispute; refunds before the delivery; refunded disputes rejected. |
| `OneRefundPerOrder`, `WindowStaysClosed` | `Catalog_races` | Two claims refunded in part; confirmPayment turns a REFUNDED order into PAID and dates it anew. |
| `JustPaidSellerFlips` | `Subscriptions` | `stripe-webhook-handler:149`: a late event of an older subscription overwrites the mirror of the paid one, its id included. `getStatus` (`subscriptions.service:65`) then retrieves the older one for ever: a seller who pays stays locked out, however often the status screen is opened, until Stripe sends another event of the paid one ("a just-paid seller flips to active immediately", line 40). `PaidSellerRestored` is what remains. |
| `HintsIgnored` | `Subscriptions` | `sellers.service:89`: what the client sends stands not only where RevenueCat cannot be asked or does not answer, but also where it answers that it knows of no plan: a client that names an entitlement is let in ("the backend ignores them", `sync-subscription.dto:6`). |
| `OnlyDeadPruned` | `Community` | `fcm.service:91`: `messaging/invalid-argument` counts as a dead token. Firebase answers it to a payload it rejects, such as a broadcast whose free-form data is too large or uses a reserved key: the rows of live devices go, and they get no pushes until they register again ("Removes dead tokens", `device-tokens.service:69`). |
| `OnRecordWasInForce` | `Community` | `users.service:646`: recordCharter puts any version the client sends on record ("which version was current when they agreed", `schema.prisma:600`). |
| `OnePendingReport` | `Community` | `reports.service:75`: two overlapping reports of one subject are both filed ("Duplicate-spam guard"). |

In the storefront and the community the model meets the same kind of gap; where a
property holds apart from it, the property says so or a history variable excuses it.

| Where | What happens |
|---|---|
| `subscriptions.service:131` "instead of stacking duplicates" | Two overlapping createSubscription requests both find none and create two. |
| `revenuecat-webhook-handler:73` | An event without an expiry date opens a month from the day it is delivered: a RENEWAL delivered again weeks later opens a month nobody paid for. So does a sync repeated while RevenueCat names the plan without a date. The column then rests on no date (`basis` = "undated"), and the gate's refinement does not cover it. |
| `reviews.service` "Atomic with" | Two reviews that commit at once leave an aggregate that misses one; the rule itself counts the rows. |
| `strikes.service:54` | Two overlapping strikes of one source are both inserted; an evaluation that fails after the insert is never repeated. |
| `listings.service:304` | An update with `otherAllergens: null` withdraws the declaration a listing must have. |
| `kyc-documents.service`, `admin-kyc-documents.service` | Two overlapping approvals leave the profile PENDING; an approval and a rejection can leave APPROVED; an upload that read PENDING demotes an APPROVED profile ("APPROVED is sticky"); an admin approves a file uploaded again meanwhile. |
| `sellers.service` upsertProfile | FAIT_MAISON is approved at once and stays so after a change of category; a REJECTED seller who switches to it stays rejected. |
| `onboarding.service:194` | A rejected document that is not required leaves the wizard complete and the profile REJECTED. |
| `bookmarks.service` | The list selects columns the schema does not have, and shows listings whatever their seller's standing. |
| `auth.service:460`, `users.service:261` createFromJwt | The error of `getUserById` is not looked at: the row is created with the e-mail and the phone unverified and the number of the claim, or as typed, although Supabase has confirmed one, and stays so until the next code. A code verified while the row is being created leaves the row unverified; a number taken meanwhile fails after Supabase has changed. "a duplicate must never block account creation": a number taken between check and insert does. |
| `auth.service` attachEmail | The JWT's claim comes first, so after a refresh an unconfirmed address becomes the row's; `emailVerified` belongs to no address. |
| `users.service` addresses | A deleted pickup address can never be created again (the unique index ignores `deletedAt`), and the profile keeps its point; writes by id set point and location in two statements. |
| `legal-documents.service:129` "one active per kind" | Two overlapping publications leave two active documents. |
| `conversations.service:201` "Idempotent" | Two requests that find no thread create two. |
| `device-tokens.service:48` | A delayed registration of the previous owner takes the device back; a send that read the row before pushes to the new owner. |
| `deliveries.service:957` arriveAtPickup | AT_PICKUP is written by id on a row read before: a trip that `sellerCannotProvide` has cancelled meanwhile is live again, its position is shown to the buyer and its code opens. `OrderFlow` and `Tracking` both have this write; `BuyerFollowsOwnTrip` and `ShownCodeOpens` except such a trip (`raced`). |
| `deliveries.service:88` | A driver suspended while online stays online and is offered jobs. |
| `orders.service:712` | Two requests mint a QR token each, and only the later opens the trip; a second pickup scan mints the buyer's anew; the pickup's write by id revives a trip cancelled meanwhile. |
| `tracking.gateway` | A buyer who subscribes before a delivery exists joins only the order's room and gets no position until subscribing again; a driver with two trips is shown on the later one only. |

## 7. Not modelled

Listed in `PROJECT.json` with the reason: dashboards (read-only queries), files
(signed URLs), the catalog's product rows (edited one at a time), the buyer's
preferences and a driver's issue notes (written, read by no handler), empty modules
(boosts, search, geo), and the infrastructure adapters, which appear as the refusals
and delays of the services behind them.
