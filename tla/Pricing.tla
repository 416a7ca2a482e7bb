------------------------------- MODULE Pricing -------------------------------
(***************************************************************************)
(* The price of a cart and its split: computeTotals adds the items up,     *)
(* priceOrder derives commission, fees and total, and                      *)
(* creditForCompletedOrder books the parts that are positive.  Amounts are *)
(* integer cents.  The machine adds one item at a time, so every prefix of *)
(* a cart is priced.                                                       *)
(***************************************************************************)
EXTENDS Integers

CONSTANTS
    DeliveryFeeCents,    \* DELIVERY_FEE_CENTS (environment, default 500)
    PlatformBuyerFeeBps, \* PLATFORM_BUYER_FEE_BPS (environment, default 500)
    UnitPrices,          \* dish prices with their add-ons, in cents
    Quantities,          \* portions of one item
    MaxSubtotal          \* bound on the subtotal of a cart

CommissionRateBpsStandard == 3000
CommissionRateBpsPremium == 2500
CommissionMinCents == 100

\* envInt: the fees are non-negative integers.  An add-on may cost less than
\* nothing, but not more than its dish here.
ASSUME PricesAssumption ==
    /\ DeliveryFeeCents \in Nat
    /\ PlatformBuyerFeeBps \in Nat
    /\ UnitPrices \subseteq Nat
    /\ Quantities \subseteq Nat
    /\ MaxSubtotal \in Nat

VARIABLES
    subtotal,   \* computeTotals: the sum so far
    isPremium,  \* the seller's tier
    isDelivery  \* the buyer's fulfilment choice

vars == <<subtotal, isPremium, isDelivery>>

-----------------------------------------------------------------------------
(* priceOrder *)

\* Math.round(x * bps / 10_000): halves go up.
Share(x, bps) == (2 * x * bps + 10000) \div 20000

AtLeast(x, least) == IF x < least THEN least ELSE x

FulfillmentFeeCents(delivery) == IF delivery THEN DeliveryFeeCents ELSE 0

CommissionRateBps(premium) ==
    IF premium THEN CommissionRateBpsPremium ELSE CommissionRateBpsStandard

\* The commission applies to the dishes only, with a 1 euro floor.
CommissionCents(x, premium) ==
    AtLeast(Share(x, CommissionRateBps(premium)), CommissionMinCents)
SellerEarningsCents(x, premium) == x - CommissionCents(x, premium)

\* The platform fee is charged on the dishes and the delivery.
PlatformBuyerFeeCents(x, delivery) ==
    Share(x + FulfillmentFeeCents(delivery), PlatformBuyerFeeBps)

\* Mutant: the buyer is not charged for the delivery.
BuyerTotalWithoutDelivery(x, delivery) == x + PlatformBuyerFeeCents(x, delivery)

BuyerTotalCents(x, delivery) ==
    x + FulfillmentFeeCents(delivery) + PlatformBuyerFeeCents(x, delivery)

\* creditForCompletedOrder: what is booked for the seller, the platform and the
\* driver; an amount that is not positive is not booked.
Positive(x) == IF x > 0 THEN x ELSE 0
CreditedCents(x, premium, delivery) ==
    Positive(SellerEarningsCents(x, premium)) + Positive(CommissionCents(x, premium))
        + Positive(FulfillmentFeeCents(delivery))

-----------------------------------------------------------------------------
(* computeTotals *)

Init == subtotal = 0 /\ isPremium \in BOOLEAN /\ isDelivery \in BOOLEAN

\* One item of the cart: (price + add-ons) * quantity.
AddItem(price, quantity) ==
    /\ subtotal + price * quantity <= MaxSubtotal
    /\ subtotal' = subtotal + price * quantity
    /\ UNCHANGED <<isPremium, isDelivery>>

Next == \E price \in UnitPrices, quantity \in Quantities : AddItem(price, quantity)
Spec == Init /\ [][Next]_vars

-----------------------------------------------------------------------------
(* Properties *)

\* The type invariant, which also fixes the base of every amount.
TypeOK == subtotal \in Nat /\ isPremium \in BOOLEAN /\ isDelivery \in BOOLEAN

\* "what the buyer pays = seller earning + commission + delivery + platform fee"
\* (priceOrder), taken to the ledger: from 1 euro of dishes on, what completion
\* books and the platform fee add up to what Stripe charged, to the cent.
SplitReconciles ==
    subtotal >= CommissionMinCents =>
      CreditedCents(subtotal, isPremium, isDelivery)
          + PlatformBuyerFeeCents(subtotal, isDelivery)
        = BuyerTotalCents(subtotal, isDelivery)

\* A larger cart never earns the seller less, nor costs the buyer less, although
\* commission and fee are rounded and the commission has a floor.
LargerCartEarnsMore ==
    [][/\ SellerEarningsCents(subtotal, isPremium)
            <= SellerEarningsCents(subtotal', isPremium)
       /\ BuyerTotalCents(subtotal, isDelivery)
            <= BuyerTotalCents(subtotal', isDelivery)]_vars

\* A premium seller never earns less on a cart than a standard one.
PremiumNeverWorse ==
    SellerEarningsCents(subtotal, FALSE) <= SellerEarningsCents(subtotal, TRUE)

\* "buyer total always reconciles with the split" (pricing.constants.spec.ts): the
\* ledger never books more than the buyer paid.
LedgerCovered ==
    subtotal > 0 =>
      CreditedCents(subtotal, isPremium, isDelivery)
        <= BuyerTotalCents(subtotal, isDelivery)
=============================================================================
