---------------------------- MODULE SellerAccount ----------------------------
(***************************************************************************)
(* One seller's account rows, which Subscriptions, Conduct, Verification   *)
(* and Listings read and write from requests that overlap: the columns of  *)
(* User and SellerProfile that decide whether the seller may trade.        *)
(*                                                                         *)
(* Dates are counted in months.                                            *)
(***************************************************************************)
EXTENDS Integers, FiniteSetsExt, Requests

CONSTANTS
    MaxNow,  \* bound on the clock
    NoEnd,   \* a date column that is NULL
    SubIds,  \* bound on the subscriptions: the ids Stripe may return
    NoSub

ASSUME AccountAssumption ==
    /\ MaxNow \in Nat
    /\ NoEnd \notin Int
    /\ NoSub \notin SubIds

VARIABLES
    now,       \* the clock
    profile,   \* SellerProfile
    suspended  \* User.isSuspended

account == <<now, profile, suspended>>

Categories == {"FAIT_MAISON", "RESTAURANT", "TRAITEUR"}
SubscriptionStatuses ==
    {"NONE", "ACTIVE", "TRIALING", "PAST_DUE", "CANCELED", "UNPAID", "INCOMPLETE",
     "INCOMPLETE_EXPIRED", "EXPIRED"}

\* status, end and sub: subscriptionStatus, subscriptionCurrentPeriodEnd and
\* stripeSubscriptionId; hasFee: deliveryFeeCents is set.
NewProfile ==
    [status |-> "NONE", end |-> NoEnd, sub |-> NoSub, isPremium |-> FALSE,
     kyc |-> "PENDING", category |-> "none", hasFee |-> FALSE]

AccountInit ==
    /\ now = 0
    /\ profile = NewProfile
    /\ suspended = FALSE
    /\ RequestsInit

\* isSubscriptionActive.
IsSubscriptionActive(status, end) ==
    /\ status \in {"ACTIVE", "TRIALING"}
    /\ end # NoEnd => end > now

Active == IsSubscriptionActive(profile.status, profile.end)

\* A month passes.
Tick ==
    /\ now < MaxNow
    /\ now' = now + 1
    /\ UNCHANGED <<profile, suspended, task>>

ProfileType ==
    [status : SubscriptionStatuses, end : Nat \cup {NoEnd}, sub : SubIds \cup {NoSub},
     isPremium : BOOLEAN, kyc : {"PENDING", "APPROVED", "REJECTED"},
     category : Categories \cup {"none"}, hasFee : BOOLEAN]
AccountTypeOK ==
    /\ now \in 0..MaxNow
    /\ profile \in ProfileType
    /\ suspended \in BOOLEAN
=============================================================================
