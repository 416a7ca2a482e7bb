-------------------------- MODULE MC_Subscriptions --------------------------
(***************************************************************************)
(* Every behaviour looks at one hazard: two requests at once, two          *)
(* subscriptions at Stripe, or a plan of the store beside one of Stripe's. *)
(***************************************************************************)
EXTENDS Subscriptions, TLC

CONSTANTS t1, t2, s1, s2

CONSTANT Focuses   \* what a run looks at

VARIABLE focus

\* A client that has nothing, that claims a plan without a date, and one that
\* claims a plan nobody sells, for the longest time there is.
Nothing == [ent |-> "none", end |-> NoEnd, period |-> "NORMAL"]
MCHints ==
    { Nothing,
      [ent |-> "seller_premium", end |-> NoEnd, period |-> "TRIAL"],
      [ent |-> "other", end |-> MaxNow + 1, period |-> "NORMAL"] }

\* Bounds: what the other focuses look at is left out.
InFocus ==
    /\ focus # "requests" => task[t2].pc = "idle"
    /\ focus # "subscriptions" => sub[s2].status = "none"
    /\ focus # "store" =>
          /\ store = NoEntitlement
          /\ \A t \in Tasks : At(t, "verify") => task[t].arg = Nothing
    /\ focus = "subscriptions" =>
          /\ Cardinality(notices) <= 1
          /\ \A t \in Tasks : ~At(t, "verify")

mcVars == <<subscriptionVars, focus>>

\* BillingFairness within the focus.
MCFairness ==
    /\ \A t \in Tasks :
         /\ WF_mcVars(BillingStep(t) /\ UNCHANGED focus)
         /\ SF_mcVars(GetStatus(t) /\ UNCHANGED focus /\ InFocus')
         /\ SF_mcVars(Retrieve(t) /\ UNCHANGED focus /\ task'[t].pc = "writeState")
    /\ WF_mcVars((\E e \in events : ApplySubscriptionState(e) /\ e \notin events') /\ UNCHANGED focus)

MCInit == SubscriptionsInit /\ focus \in Focuses
MCNext == BillingNext /\ UNCHANGED focus /\ InFocus'
MCSpec == MCInit /\ [][MCNext]_mcVars /\ MCFairness
=============================================================================
