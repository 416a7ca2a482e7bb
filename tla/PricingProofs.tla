---------------------------- MODULE PricingProofs ----------------------------
(***************************************************************************)
(* The split of a price, for every subtotal, delivery fee and platform     *)
(* rate.                                                                   *)
(***************************************************************************)
EXTENDS Pricing, TLAPS

\* A rounded share is a natural number, and grows with the amount.
LEMMA ShareType ==
  ASSUME NEW x \in Nat, NEW bps \in Nat
  PROVE  Share(x, bps) \in Nat
<1>1. x * bps \in Nat
  OBVIOUS
<1> QED
  BY <1>1 DEF Share

(* A share never shrinks when the amount grows: rounding keeps the order of
   amounts (priceOrder's Math.round).                                      *)
LEMMA ShareMonotone ==
  ASSUME NEW x \in Nat, NEW y \in Nat, x <= y, NEW bps \in Nat
  PROVE  Share(x, bps) <= Share(y, bps)
<1>1. x * bps \in Nat /\ y * bps \in Nat /\ x * bps <= y * bps
  OBVIOUS
<1> QED
  BY <1>1 DEF Share

\* A share of less than all grows by no more than the amount grows.
LEMMA ShareSlower ==
  ASSUME NEW x \in Nat, NEW y \in Nat, x <= y, NEW bps \in {2500, 3000}
  PROVE  Share(y, bps) - Share(x, bps) <= y - x
  BY DEF Share

\* The commission is at least the floor, and is at most the subtotal once the
\* subtotal has reached the floor.
LEMMA CommissionBounds ==
  ASSUME NEW x \in Nat, NEW premium \in BOOLEAN
  PROVE  /\ CommissionCents(x, premium) \in Nat
         /\ CommissionCents(x, premium) >= CommissionMinCents
         /\ x >= CommissionMinCents => CommissionCents(x, premium) <= x
  BY DEF CommissionCents, AtLeast, Share, CommissionRateBps, CommissionRateBpsPremium,
         CommissionRateBpsStandard, CommissionMinCents

\* The subtotal is a natural number.
LEMMA TypeInv == Spec => []TypeOK
<1>1. Init => TypeOK
  BY DEF Init, TypeOK
<1>2. TypeOK /\ [Next]_vars => TypeOK'
  BY PricesAssumption DEF TypeOK, Next, AddItem, vars
<1> QED
  BY <1>1, <1>2, PTL DEF Spec

\* From 1 euro on, what completion books and the platform fee add up to what
\* the buyer is charged, for any fees.
THEOREM SplitAlwaysReconciles == Spec => []SplitReconciles
<1>1. TypeOK => SplitReconciles
  <2> SUFFICES ASSUME TypeOK, subtotal >= CommissionMinCents
               PROVE  CreditedCents(subtotal, isPremium, isDelivery)
                          + PlatformBuyerFeeCents(subtotal, isDelivery)
                        = BuyerTotalCents(subtotal, isDelivery)
    BY DEF SplitReconciles
  <2> DEFINE c == CommissionCents(subtotal, isPremium)
             f == FulfillmentFeeCents(isDelivery)
             p == PlatformBuyerFeeCents(subtotal, isDelivery)
  <2>1. c \in Nat /\ c >= 100 /\ c <= subtotal /\ subtotal \in Nat
    BY CommissionBounds DEF TypeOK, CommissionMinCents
  <2>2. f \in Nat
    BY PricesAssumption DEF FulfillmentFeeCents
  <2>3. p \in Nat
    <3>1. subtotal + f \in Nat /\ PlatformBuyerFeeBps \in Nat
      BY <2>1, <2>2, PricesAssumption
    <3>2. Share(subtotal + f, PlatformBuyerFeeBps) \in Nat
      BY <3>1, ShareType
    <3> QED
      BY <3>2 DEF PlatformBuyerFeeCents
  <2> HIDE DEF c, f, p
  <2>4. CreditedCents(subtotal, isPremium, isDelivery) = subtotal + f
    BY <2>1, <2>2 DEF CreditedCents, SellerEarningsCents, Positive, c, f
  <2>5. BuyerTotalCents(subtotal, isDelivery) = subtotal + f + p
    BY DEF BuyerTotalCents, f, p
  <2> QED
    BY <2>1, <2>2, <2>3, <2>4, <2>5 DEF p
<1> QED
  BY <1>1, TypeInv, PTL

\* A larger cart never earns the seller less nor costs the buyer less.
THEOREM LargerCartAlwaysEarnsMore == Spec => LargerCartEarnsMore
<1>1. TypeOK /\ TypeOK' /\ [Next]_vars =>
        [/\ SellerEarningsCents(subtotal, isPremium)
              <= SellerEarningsCents(subtotal', isPremium)
         /\ BuyerTotalCents(subtotal, isDelivery)
              <= BuyerTotalCents(subtotal', isDelivery)]_vars
  <2> SUFFICES ASSUME TypeOK, TypeOK', Next
               PROVE  /\ SellerEarningsCents(subtotal, isPremium)
                           <= SellerEarningsCents(subtotal', isPremium)
                      /\ BuyerTotalCents(subtotal, isDelivery)
                           <= BuyerTotalCents(subtotal', isDelivery)
    OBVIOUS
  <2>1. subtotal \in Nat /\ subtotal' \in Nat /\ subtotal <= subtotal'
    <3>1. PICK price \in Nat, quantity \in Nat : subtotal' = subtotal + price * quantity
      BY PricesAssumption DEF Next, AddItem
    <3>2. price * quantity \in Nat
      BY <3>1
    <3> QED
      BY <3>1, <3>2 DEF TypeOK
  <2>2. SellerEarningsCents(subtotal, isPremium)
          <= SellerEarningsCents(subtotal', isPremium)
    <3> DEFINE r == CommissionRateBps(isPremium)
    <3>1. r \in {2500, 3000} /\ r \in Nat
      BY DEF CommissionRateBps, CommissionRateBpsPremium, CommissionRateBpsStandard
    <3> HIDE DEF r
    <3>2. \A x, y \in Nat : x <= y =>
            /\ Share(x, r) \in Nat /\ Share(y, r) \in Nat /\ Share(x, r) <= Share(y, r)
            /\ Share(y, r) - Share(x, r) <= y - x
      BY <3>1, ShareType, ShareMonotone, ShareSlower
    <3>3. /\ Share(subtotal, r) \in Nat /\ Share(subtotal', r) \in Nat
          /\ Share(subtotal, r) <= Share(subtotal', r)
          /\ Share(subtotal', r) - Share(subtotal, r) <= subtotal' - subtotal
      BY <2>1, <3>2
    <3> QED
      BY <2>1, <3>3 DEF SellerEarningsCents, CommissionCents, AtLeast, CommissionMinCents, r
  <2>3. BuyerTotalCents(subtotal, isDelivery) <= BuyerTotalCents(subtotal', isDelivery)
    <3> DEFINE f == FulfillmentFeeCents(isDelivery)
    <3>1. f \in Nat
      BY PricesAssumption DEF FulfillmentFeeCents
    <3> HIDE DEF f
    <3>2. \A x, y \in Nat : x <= y =>
            /\ Share(x, PlatformBuyerFeeBps) \in Nat
            /\ Share(y, PlatformBuyerFeeBps) \in Nat
            /\ Share(x, PlatformBuyerFeeBps) <= Share(y, PlatformBuyerFeeBps)
      BY PricesAssumption, ShareType, ShareMonotone
    <3>3. subtotal + f \in Nat /\ subtotal' + f \in Nat /\ subtotal + f <= subtotal' + f
      <4>1. \A x, y, z \in Nat :
              x <= y => x + z \in Nat /\ y + z \in Nat /\ x + z <= y + z
        OBVIOUS
      <4> QED
        BY <2>1, <3>1, <4>1
    <3>4. /\ Share(subtotal + f, PlatformBuyerFeeBps) \in Nat
          /\ Share(subtotal' + f, PlatformBuyerFeeBps) \in Nat
          /\ Share(subtotal + f, PlatformBuyerFeeBps)
               <= Share(subtotal' + f, PlatformBuyerFeeBps)
      BY <3>2, <3>3
    <3> QED
      BY <2>1, <3>1, <3>4 DEF BuyerTotalCents, PlatformBuyerFeeCents, f
  <2> QED
    BY <2>2, <2>3
<1> QED
  BY <1>1, TypeInv, PTL DEF Spec, LargerCartEarnsMore

\* A premium seller never earns less on a cart than a standard one.
THEOREM PremiumIsNeverWorse == Spec => []PremiumNeverWorse
<1>1. TypeOK => PremiumNeverWorse
  BY DEF TypeOK, PremiumNeverWorse, SellerEarningsCents, CommissionCents, AtLeast, Share,
         CommissionRateBps, CommissionRateBpsPremium, CommissionRateBpsStandard,
         CommissionMinCents
<1> QED
  BY <1>1, TypeInv, PTL
=============================================================================
