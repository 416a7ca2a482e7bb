---------------------------- MODULE MC_Storefront ----------------------------
(***************************************************************************)
(* The product of the parts is out of reach: every behaviour looks at one  *)
(* of them, and at what the others do to it.  Billing by itself is         *)
(* MC_Subscriptions.                                                       *)
(***************************************************************************)
EXTENDS Storefront, TLC

CONSTANTS t1, t2, i1, i2, i3, o1, o2, o3, l1

VARIABLE focus

MCPoints == i1 :> 2 @@ i2 :> 1 @@ i3 :> 3

\* A dish of the day, and a restaurant's dish.
MCDrafts ==
    { [price |-> "low", portions |-> 1, expiresAt |-> 1, dishType |-> Null,
       allergens |-> "some", otherAllergens |-> Null, declaresNone |-> FALSE],
      [price |-> "high", portions |-> Null, expiresAt |-> Null, dishType |-> "PLAT",
       allergens |-> "none", otherAllergens |-> "text", declaresNone |-> FALSE] }

\* Each field that a category prescribes, and the declaration withdrawn.
MCEdits ==
    { [price |-> "high", declaresNone |-> FALSE],
      [portions |-> 0, otherAllergens |-> Null, declaresNone |-> FALSE],
      [expiresAt |-> Null, declaresNone |-> FALSE] }

MCInit ==
    /\ Init
    /\ focus \in {"strikes", "reviews", "verification", "listings"}
    /\ focus = "listings" => role = "SELLER"
    /\ focus \in {"strikes", "reviews"} => role = CHOOSE r \in Roles : TRUE

\* What a listing meets: its seller pays in the store, is suspended and
\* readmitted, and changes category.
AroundListings ==
    \/ /\ \/ \E ent \in Entitlements : StorePurchase(ent, "NORMAL", TRUE)
          \/ \E e \in storeEvents : HandleStoreEvent(e)
          \/ Tick /\ NotBilling
       /\ NotConduct /\ NotVerification /\ NotListings
    \/ /\ AdminSuspend \/ UnsuspendUser
       /\ NotBilling /\ NotVerification /\ NotListings
    \/ /\ \E t \in Tasks : WriteProfile(t) \/ \E c \in SellerCategories : UpsertProfile(t, c)
       /\ NotBilling /\ NotConduct /\ NotListings

MCNext ==
    /\ UNCHANGED focus
    /\ \/ focus = "strikes" /\ Judging /\ \A t \in Tasks : task'[t].pc # "insertReview"
       \/ focus = "reviews" /\ Judging /\ \A t \in Tasks : task'[t].pc # "strike"
       \/ focus = "verification" /\ Verifying
       \/ focus = "listings" /\ (Trading \/ AroundListings)

MCSpec == MCInit /\ [][MCNext]_<<vars, focus>>
=============================================================================
