---------------------------- MODULE Subscriptions ----------------------------
(***************************************************************************)
(* The seller's monthly plan.  Stripe and RevenueCat hold the truth; the   *)
(* columns of SellerProfile are a mirror with several writers: the status  *)
(* screen, the subscribe button, the store sync and both webhooks, whose   *)
(* events carry a snapshot and arrive late, twice and in any order.        *)
(*                                                                         *)
(* Code: SubscriptionsService, subscription.util, the subscription         *)
(* handlers of the Stripe webhook, RevenueCatWebhookHandlerService,        *)
(* revenuecat.util and SellersService.syncRevenueCatSubscription.          *)
(***************************************************************************)
EXTENDS SellerAccount

CONSTANTS
    Entitlements, \* the store's plans: seller_standard, seller_premium
    PeriodTypes,  \* the store's period types: NORMAL, INTRO, TRIAL
    Dated,        \* does RevenueCat tell an expiry date?  (not in its sandbox)
    Hints,        \* what the client says it has bought; nothing checks it
    MaxEvents     \* bound on the events Stripe and RevenueCat send

HintType ==
    [ent : Entitlements \cup {"none", "other"}, end : Nat \cup {NoEnd},
     period : {"TRIAL", "NORMAL"}]

ASSUME SubscriptionsAssumption ==
    /\ Entitlements \subseteq {"seller_standard", "seller_premium"}
    /\ PeriodTypes \subseteq {"NORMAL", "INTRO", "TRIAL"}
    /\ Dated \subseteq BOOLEAN
    /\ Hints \subseteq HintType
    /\ MaxEvents \in Nat

VARIABLES
    customer,    \* User.stripeCustomerId names a customer
    sub,         \* Stripe: its subscriptions
    events,      \* Stripe: customer.subscription events sent, each a snapshot
    notices,     \* Stripe: invoice.payment_failed and checkout.session.completed
    store,       \* RevenueCat: the subscriber
    storeEvents, \* RevenueCat: events sent
    paidThrough, \* history: the latest date a payment covers
    basis        \* history: what the subscription columns were last written on

stripe == <<sub, events, notices>>
revenueCat == <<store, storeEvents>>
billing == <<customer, stripe, revenueCat, paidThrough, basis>>

\* A snapshot of Stripe's; a date RevenueCat named; a plan RevenueCat named
\* without a date; the client's word with no answer of RevenueCat's, or
\* against its answer.
Bases == {"none", "stripe", "dated", "undated", "unanswered", "overruled"}

NoEntitlement == [ent |-> "none", end |-> NoEnd, period |-> "NORMAL"]

BillingInit ==
    /\ customer = FALSE
    /\ sub = [s \in SubIds |-> [status |-> "none", end |-> 0]]
    /\ events = {}
    /\ notices = {}
    /\ store = NoEntitlement
    /\ storeEvents = {}
    /\ paidThrough = 0
    /\ basis = "none"

Later(a, b) == IF a < b THEN b ELSE a

MoreEvents == Cardinality(events) + Cardinality(storeEvents) < MaxEvents

-----------------------------------------------------------------------------
(* Stripe *)

Snapshot(s) == [sub |-> s, status |-> sub[s].status, end |-> sub[s].end]

\* The subscription changes, and an event tells its new state.
StripeSets(s, status, end) ==
    /\ MoreEvents
    /\ sub' = [sub EXCEPT ![s] = [status |-> status, end |-> end]]
    /\ events' = events \cup {[sub |-> s, status |-> status, end |-> end]}

InvoicePaid(s) ==
    /\ sub[s].status \in {"incomplete", "past_due"}
    /\ now < sub[s].end
    /\ StripeSets(s, "active", sub[s].end)
    /\ paidThrough' = Later(paidThrough, sub[s].end)
    /\ UNCHANGED <<account, customer, notices, revenueCat, basis, task>>

IncompleteExpires(s) ==
    /\ sub[s].status = "incomplete"
    /\ StripeSets(s, "incomplete_expired", sub[s].end)
    /\ UNCHANGED <<account, customer, notices, revenueCat, paidThrough, basis, task>>

\* At the end of a period the next one begins, paid or not.
Renew(s) ==
    /\ sub[s].status = "active"
    /\ sub[s].end <= now
    /\ StripeSets(s, "active", now + 1)
    /\ paidThrough' = Later(paidThrough, now + 1)
    /\ UNCHANGED <<account, customer, notices, revenueCat, basis, task>>
RenewFails(s) ==
    /\ sub[s].status = "active"
    /\ sub[s].end <= now
    /\ StripeSets(s, "past_due", now + 1)
    /\ notices' = notices \cup {s}
    /\ UNCHANGED <<account, customer, revenueCat, paidThrough, basis, task>>

\* The seller cancels in the billing portal (createPortalSession), which opens
\* for a known customer only, or Stripe gives up.
Cancel(s) ==
    /\ customer
    /\ sub[s].status \in {"active", "past_due"}
    /\ StripeSets(s, "canceled", sub[s].end)
    /\ UNCHANGED <<account, customer, notices, revenueCat, paidThrough, basis, task>>

-----------------------------------------------------------------------------
(* SubscriptionsService *)

\* subscriptionStatusFromStripe.
StatusFromStripe(raw) ==
    CASE raw = "active" -> "ACTIVE"
      [] raw = "trialing" -> "TRIALING"
      [] raw = "past_due" -> "PAST_DUE"
      [] raw = "canceled" -> "CANCELED"
      [] raw = "unpaid" -> "UNPAID"
      [] raw = "incomplete_expired" -> "INCOMPLETE_EXPIRED"
      [] OTHER -> "INCOMPLETE"

\* The columns writeStateFromSub and applySubscriptionState write.
Mirrored(snap) ==
    [profile EXCEPT !.sub = snap.sub, !.status = StatusFromStripe(snap.status),
                    !.end = snap.end]

\* getStatus: an inactive seller with a subscription is looked up at Stripe.
GetStatus(t) ==
    /\ At(t, "idle")
    /\ profile.sub # NoSub
    /\ ~Active
    /\ Goto(t, "retrieve", profile.sub)
    /\ UNCHANGED <<account, billing>>

\* Stripe answers, or the local state is kept.
Retrieve(t) ==
    /\ At(t, "retrieve")
    /\ Goto(t, "writeState", Snapshot(task[t].arg)) \/ Done(t)
    /\ UNCHANGED <<account, billing>>

\* Mutant: the answer is shown, and not written.
WriteStateNever(t) ==
    /\ At(t, "writeState")
    /\ Done(t)
    /\ UNCHANGED <<account, billing>>

\* writeStateFromSub.
WriteState(t) ==
    /\ At(t, "writeState")
    /\ profile' = Mirrored(task[t].arg)
    /\ basis' = "stripe"
    /\ Done(t)
    /\ UNCHANGED <<now, suspended, customer, stripe, revenueCat, paidThrough>>

\* createSubscription: refused while active; a known subscription is looked at
\* first.
CreateSubscription(t) ==
    /\ At(t, "idle")
    /\ ~Active
    /\ IF profile.sub = NoSub
       THEN Goto(t, "ensureCustomer", NoArg)
       ELSE Goto(t, "reuse", profile.sub)
    /\ UNCHANGED <<account, billing>>

\* An active one is written and refused, an incomplete one is returned, any
\* other, or none that can be read, makes way for a new one.
ReuseExisting(t) ==
    /\ At(t, "reuse")
    /\ \/ /\ sub[task[t].arg].status = "active"
          /\ Goto(t, "writeState", Snapshot(task[t].arg))
       \/ sub[task[t].arg].status = "incomplete" /\ Done(t)
       \/ Goto(t, "ensureCustomer", NoArg)
    /\ UNCHANGED <<account, billing>>

\* ensureCustomer: a valid one is reused, another is created and stored.
EnsureCustomer(t) ==
    /\ At(t, "ensureCustomer")
    /\ \/ customer' = TRUE /\ Goto(t, "createSub", NoArg)
       \/ UNCHANGED customer /\ Done(t)
    /\ UNCHANGED <<account, stripe, revenueCat, paidThrough, basis>>

\* subscriptions.create: default_incomplete, for the month that begins; or
\* Stripe refuses.
CreateAtStripe(t) ==
    /\ At(t, "createSub")
    /\ \/ \E s \in SubIds :
            /\ sub[s].status = "none"
            /\ StripeSets(s, "incomplete", now + 1)
            /\ Goto(t, "writeState", [sub |-> s, status |-> "incomplete", end |-> now + 1])
       \/ Done(t) /\ UNCHANGED <<sub, events>>
    /\ UNCHANGED <<account, customer, notices, revenueCat, paidThrough, basis>>

-----------------------------------------------------------------------------
(* Webhooks *)

\* customer.subscription.*: applySubscriptionState writes the snapshot of the
\* event and the id of its subscription, whatever has been written since it
\* was sent.  Stripe may deliver it again.
ApplySubscriptionState(e) ==
    /\ e \in events
    /\ profile' = Mirrored(e)
    /\ basis' = "stripe"
    /\ events' \in {events, events \ {e}}
    /\ UNCHANGED <<now, suspended, customer, sub, notices, revenueCat, paidThrough, task>>

\* invoice.payment_failed and checkout.session.completed read Stripe anew.
HandleNotice(t, s) ==
    /\ At(t, "idle")
    /\ s \in notices
    /\ Goto(t, "retrieve", s)
    /\ UNCHANGED <<account, billing>>

\* activeStatusForPeriod.
ActiveStatusForPeriod(period) == IF period \in {"TRIAL", "INTRO"} THEN "TRIALING" ELSE "ACTIVE"

\* webhookEventToStatus, for the types that change anything.
WebhookEventToStatus(type, period) ==
    CASE type = "RENEWAL" -> ActiveStatusForPeriod(period)
      [] type = "CANCELLATION" -> "CANCELED"
      [] type = "EXPIRATION" -> "EXPIRED"
      [] type = "BILLING_ISSUE" -> "PAST_DUE"

\* buildSubscriptionFields: an active plan without a date lasts a month.
StoreFields(status, ent, end) ==
    LET active == status \in {"ACTIVE", "TRIALING"} IN
    [profile EXCEPT !.status = status,
                    !.end = IF end = NoEnd /\ active THEN now + 1 ELSE end,
                    !.isPremium = active /\ ent = "seller_premium"]

\* The update of both paths.
StoreWrites(status, ent, end, why) ==
    /\ profile' = StoreFields(status, ent, end)
    /\ basis' = why

Named(end) == IF end = NoEnd THEN "undated" ELSE "dated"

\* RevenueCatWebhookHandlerService.handleEvent, found by app_user_id; it may
\* arrive at any later time, and again.
HandleStoreEvent(e) ==
    /\ e \in storeEvents
    /\ StoreWrites(WebhookEventToStatus(e.type, e.period), e.ent, e.end, Named(e.end))
    /\ UNCHANGED <<now, suspended, customer, stripe, revenueCat, paidThrough, task>>

-----------------------------------------------------------------------------
(* RevenueCat and the sync after a purchase *)

StoreActive == store.ent # "none" /\ now < store.end

StoreSends(type, dated) ==
    /\ MoreEvents
    /\ storeEvents' = storeEvents \cup
         {[type |-> type, ent |-> store'.ent, period |-> store'.period,
           end |-> IF dated THEN store'.end ELSE NoEnd]}

\* INITIAL_PURCHASE, RENEWAL, PRODUCT_CHANGE ...: another month is bought.
StorePurchase(ent, period, dated) ==
    /\ ~StoreActive
    /\ store' = [ent |-> ent, end |-> now + 1, period |-> period]
    /\ StoreSends("RENEWAL", dated)
    /\ paidThrough' = Later(paidThrough, now + 1)
    /\ UNCHANGED <<account, customer, stripe, basis, task>>

StoreTells(type, dated) ==
    /\ store.ent # "none"
    /\ (type = "EXPIRATION") = ~StoreActive
    /\ UNCHANGED store
    /\ StoreSends(type, dated)
    /\ UNCHANGED <<account, customer, stripe, paidThrough, basis, task>>

\* syncRevenueCatSubscription: whatever plan and date the client sends.
SyncSubscription(t, hint) ==
    /\ At(t, "idle")
    /\ Goto(t, "verify", hint)
    /\ UNCHANGED <<account, billing>>

\* What syncRevenueCatSubscription writes of a plan, and on what.
Verdict(plan, why) == [ent |-> plan.ent, end |-> plan.end, period |-> plan.period, why |-> why]

\* Mutant: the client's date comes first.
HintedEnd(dated, hint) == IF hint.end # NoEnd THEN hint.end ELSE store.end
VerifiedEnd(dated, hint) == IF dated THEN store.end ELSE hint.end

\* verifyWithRevenueCat: what the REST API says replaces the hint field by
\* field; a plan without a date counts as active for ever.  Without a key or
\* an answer the hint stands; where the REST API knows of no plan, or not
\* yet, the hint stands too and only isTrial is replaced.
VerifyWithRevenueCat(t) ==
    /\ At(t, "verify")
    /\ LET hint == task[t].arg IN
       \/ Goto(t, "syncWrite", Verdict(hint, "unanswered"))
       \/ Goto(t, "syncWrite", Verdict([hint EXCEPT !.period = "NORMAL"], "overruled"))
       \/ \E dated \in Dated :
            /\ store.ent # "none"
            /\ dated => now < store.end
            /\ Goto(t, "syncWrite",
                    [ent |-> store.ent, end |-> VerifiedEnd(dated, hint),
                     period |-> IF store.period = "TRIAL" THEN "TRIAL" ELSE "NORMAL",
                     why |-> IF dated THEN "dated" ELSE "undated"])
    /\ UNCHANGED <<account, billing>>

SyncWrite(t) ==
    /\ At(t, "syncWrite")
    /\ LET e == task[t].arg IN
       StoreWrites(IF e.ent = "none" THEN "NONE" ELSE ActiveStatusForPeriod(e.period),
                   e.ent, e.end, e.why)
    /\ Done(t)
    /\ UNCHANGED <<now, suspended, customer, stripe, revenueCat, paidThrough>>

-----------------------------------------------------------------------------
BillingStep(t) ==
    \/ Retrieve(t) \/ WriteState(t) \/ ReuseExisting(t) \/ EnsureCustomer(t)
    \/ CreateAtStripe(t) \/ VerifyWithRevenueCat(t) \/ SyncWrite(t)

StripeNext ==
    \E s \in SubIds :
      InvoicePaid(s) \/ IncompleteExpires(s) \/ Renew(s) \/ RenewFails(s) \/ Cancel(s)

StoreNext ==
    \E dated \in Dated :
      \/ \E ent \in Entitlements, period \in PeriodTypes : StorePurchase(ent, period, dated)
      \/ \E type \in {"CANCELLATION", "EXPIRATION", "BILLING_ISSUE"} : StoreTells(type, dated)

BillingNext ==
    \/ \E t \in Tasks :
         \/ GetStatus(t) \/ CreateSubscription(t)
         \/ \E s \in SubIds : HandleNotice(t, s)
         \/ \E hint \in Hints : SyncSubscription(t, hint)
         \/ BillingStep(t)
    \/ \E e \in events : ApplySubscriptionState(e)
    \/ \E e \in storeEvents : HandleStoreEvent(e)
    \/ StripeNext \/ StoreNext
    \/ Tick /\ UNCHANGED billing

-----------------------------------------------------------------------------
subscriptionVars == <<account, task, billing>>

\* Requests end, a seller keeps opening the status screen, Stripe answers now
\* and then, and delivers every event until it is acknowledged.
BillingFairness ==
    /\ \A t \in Tasks :
         /\ WF_subscriptionVars(BillingStep(t))
         /\ SF_subscriptionVars(GetStatus(t))
         /\ SF_subscriptionVars(Retrieve(t) /\ task'[t].pc = "writeState")
    /\ WF_subscriptionVars(\E e \in events : ApplySubscriptionState(e) /\ e \notin events')

SubscriptionsInit == AccountInit /\ BillingInit
SubscriptionsSpec ==
    /\ SubscriptionsInit
    /\ [][BillingNext]_subscriptionVars
    /\ BillingFairness

-----------------------------------------------------------------------------
(* Properties *)

BillingTypeOK ==
    /\ customer \in BOOLEAN
    /\ \A s \in SubIds : sub[s].end \in 0..MaxNow + 1
    /\ notices \subseteq SubIds
    /\ paidThrough \in 0..MaxNow + 1
    /\ basis \in Bases

\* "so the rule never drifts" (isSubscriptionActive): whichever of the five
\* writers was last, and whatever stale snapshot it wrote, a gate that rests on
\* Stripe, or on a date RevenueCat named, is open only within time that was
\* paid for, and closes by itself at its end.  What opens it on trust - a plan
\* without a date, the client's own word - is not covered.
Backed == basis \in {"stripe", "dated"}
Open == Active /\ Backed
Access == INSTANCE PaidAccess WITH open <- Open
ImplementsPaidAccess == Access!Spec

Paid(s) == sub[s].status = "active" /\ now < sub[s].end
NamedIsPaid == profile.sub # NoSub /\ Paid(profile.sub)

\* getStatus: as long as stripeSubscriptionId names a paid subscription, no
\* stale snapshot, of this subscription or of another, keeps the gate shut
\* for good.
PaidSellerRestored == <>[]NamedIsPaid => []<>Active

\* Stated by getStatus: "a just-paid seller flips to active immediately,
\* without waiting on the webhook".
JustPaidSellerFlips == \A s \in SubIds : <>[]Paid(s) => []<>Active

\* Stated by SyncSubscriptionDto: the client's fields are hints, and when
\* RevenueCat can be asked "the backend ignores them and verifies the
\* subscriber against RevenueCat directly".
HintsIgnored == Active => basis # "overruled"
=============================================================================
