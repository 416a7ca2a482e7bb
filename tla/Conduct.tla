------------------------------- MODULE Conduct -------------------------------
(***************************************************************************)
(* What suspends a seller: strikes that add up, a bad average rating, an   *)
(* exclusion, an admin.  Strikes and reviews come from requests that       *)
(* overlap, and each evaluates the rule after its own insert.              *)
(*                                                                         *)
(* Code: StrikesService, AdminStrikesController and                        *)
(* ReviewsService.createForOrder with its rating rule.                     *)
(***************************************************************************)
EXTENDS SellerAccount

CONSTANTS
    Incidents,        \* what strikes are recorded for: user, reason and source
    Points,           \* the points of each: 1, 2 or, when critical, 3
    MaxRows,          \* bound on the rows of one incident
    Orders,           \* delivered orders, each of another buyer
    Ratings,          \* the ratings buyers give, 1 to 5
    RatingMinReviews, \* RATING_MIN_REVIEWS (10)
    NoReview

SuspensionThresholdPoints == 3

\* RATING_SUSPENSION_THRESHOLD, 3.5, in halves.
RatingThresholdHalves == 7

ASSUME ConductAssumption ==
    /\ Points \in [Incidents -> 1..3]
    /\ MaxRows \in Nat
    /\ Ratings \subseteq 1..5
    /\ RatingMinReviews \in Nat \ {0}
    /\ NoReview \notin Ratings

VARIABLES
    strikes,   \* Strike rows of each incident, within the last 90 days
    past,      \* incidents that have an older row
    review,    \* the committed Review of each order
    aggregate, \* SellerProfile.reviewCount and the ratings averageRating is of
    excused    \* history: the rules an admin has overruled, or a failure has
               \* kept from being evaluated, since the last strike or review

conduct == <<strikes, past, review, aggregate, excused>>
Rules == {"strikes", "rating"}

ConductInit ==
    /\ strikes = [i \in Incidents |-> 0]
    /\ past = {}
    /\ review = [o \in Orders |-> NoReview]
    /\ aggregate = [count |-> 0, sum |-> 0]
    /\ excused = {}

-----------------------------------------------------------------------------
(* StrikesService *)

\* addStrike: an incident that has a strike, of any age, is skipped; immediateExclude, for a
\* critical one, suspends all the same.
AddStrike(t, i, exclude) ==
    /\ At(t, "idle")
    /\ exclude => Points[i] = SuspensionThresholdPoints
    /\ IF strikes[i] = 0 /\ i \notin past
       THEN Goto(t, "strike", [incident |-> i, exclude |-> exclude])
       ELSE exclude /\ Goto(t, "suspend", NoArg)
    /\ UNCHANGED <<account, conduct>>

InsertStrike(t) ==
    /\ At(t, "strike")
    /\ LET i == task[t].arg.incident IN
       /\ strikes[i] < MaxRows
       /\ strikes' = [strikes EXCEPT ![i] = @ + 1]
    /\ excused' = excused \ {"strikes"}
    /\ Goto(t, "sumPoints", task[t].arg)
    /\ UNCHANGED <<account, past, review, aggregate>>

\* getActiveStrikePoints.
ActiveStrikePoints == MapThenSumSet(LAMBDA i : strikes[i] * Points[i], Incidents)

\* evaluateSuspension sums the points; an exclusion needs no threshold.
EvaluateSuspension(t) ==
    /\ At(t, "sumPoints")
    /\ IF ActiveStrikePoints >= SuspensionThresholdPoints \/ task[t].arg.exclude
       THEN Goto(t, "suspend", NoArg)
       ELSE Done(t)
    /\ UNCHANGED <<account, conduct>>

\* suspendUser.
SuspendUser(t) ==
    /\ At(t, "suspend")
    /\ suspended' = TRUE
    /\ Done(t)
    /\ UNCHANGED <<now, profile, conduct>>

\* AdminStrikesController.suspend, .unsuspend.
AdminSuspend ==
    /\ suspended' = TRUE
    /\ UNCHANGED <<now, profile, conduct, task>>
UnsuspendUser ==
    /\ suspended' = FALSE
    /\ excused' = Rules
    /\ UNCHANGED <<now, profile, strikes, past, review, aggregate, task>>

\* Ninety days pass.
StrikeExpires(i) ==
    /\ strikes[i] > 0
    /\ strikes' = [strikes EXCEPT ![i] = @ - 1]
    /\ past' = past \cup {i}
    /\ UNCHANGED <<account, review, aggregate, excused, task>>

-----------------------------------------------------------------------------
(* ReviewsService *)

RatedOrders == {o \in Orders : review[o] # NoReview}
RatingSum == MapThenSumSet(LAMBDA o : review[o], RatedOrders)

\* createForOrder: the buyer's own delivered order, not reviewed yet.
CreateReview(t, o, rating) ==
    /\ At(t, "idle")
    /\ review[o] = NoReview
    /\ Goto(t, "insertReview", [order |-> o, rating |-> rating])
    /\ UNCHANGED <<account, conduct>>

\* In the transaction: the insert waits for another of the same order, fails if
\* that one commits, and the aggregates are read with nobody else's uncommitted
\* review.
InsertReview(t) ==
    /\ At(t, "insertReview")
    /\ LET a == task[t].arg IN
       /\ \A u \in Tasks : At(u, "commitReview") => task[u].arg.order # a.order
       /\ IF review[a.order] = NoReview
          THEN Goto(t, "commitReview",
                    [order |-> a.order, rating |-> a.rating,
                     count |-> Cardinality(RatedOrders) + 1, sum |-> RatingSum + a.rating])
          ELSE Done(t)
    /\ UNCHANGED <<account, conduct>>

\* recomputeSellerAggregates writes what was read, and the transaction commits.
CommitReview(t) ==
    /\ At(t, "commitReview")
    /\ LET a == task[t].arg IN
       /\ review' = [review EXCEPT ![a.order] = a.rating]
       /\ aggregate' = [count |-> a.count, sum |-> a.sum]
    /\ excused' = excused \ {"rating"}
    /\ Goto(t, "evaluateRating", NoArg)
    /\ UNCHANGED <<account, strikes, past>>

\* The rating rule over some reviews.
BelowThreshold(count, sum) ==
    count >= RatingMinReviews /\ 2 * sum < RatingThresholdHalves * count

\* Mutant: the rule is evaluated on the cached aggregates.
EvaluateRatingCached(t) ==
    /\ At(t, "evaluateRating")
    /\ IF BelowThreshold(aggregate.count, aggregate.sum)
       THEN Goto(t, "checkSuspended", NoArg)
       ELSE Done(t)
    /\ UNCHANGED <<account, conduct>>

\* evaluateSellerRatingSuspension reads the reviews, then the user.
EvaluateRating(t) ==
    /\ At(t, "evaluateRating")
    /\ IF BelowThreshold(Cardinality(RatedOrders), RatingSum)
       THEN Goto(t, "checkSuspended", NoArg)
       ELSE Done(t)
    /\ UNCHANGED <<account, conduct>>
CheckSuspended(t) ==
    /\ At(t, "checkSuspended")
    /\ IF suspended THEN Done(t) ELSE Goto(t, "suspend", NoArg)
    /\ UNCHANGED <<account, conduct>>

\* An evaluation throws: a review stands all the same, a strike too.
EvaluationFails(t) ==
    /\ task[t].pc \in {"sumPoints", "evaluateRating", "checkSuspended", "suspend"}
    /\ excused' = Rules
    /\ Done(t)
    /\ UNCHANGED <<account, strikes, past, review, aggregate>>

-----------------------------------------------------------------------------
ConductStep(t) ==
    \/ InsertStrike(t) \/ EvaluateSuspension(t) \/ SuspendUser(t)
    \/ InsertReview(t) \/ CommitReview(t) \/ EvaluateRating(t) \/ CheckSuspended(t)

ConductNext ==
    \/ \E t \in Tasks :
         \/ \E i \in Incidents, exclude \in BOOLEAN : AddStrike(t, i, exclude)
         \/ \E o \in Orders, r \in Ratings : CreateReview(t, o, r)
         \/ ConductStep(t)
         \/ EvaluationFails(t)
    \/ AdminSuspend \/ UnsuspendUser
    \/ \E i \in Incidents : StrikeExpires(i)

-----------------------------------------------------------------------------
(* Properties *)

ConductTypeOK ==
    /\ strikes \in [Incidents -> 0..MaxRows]
    /\ review \in [Orders -> Ratings \cup {NoReview}]
    /\ aggregate.count \in 0..Cardinality(Orders)
    /\ excused \subseteq Rules

Evaluating(pcs) == \E t \in Tasks : task[t].pc \in pcs

\* "3 active points (within 90 days) -> suspension" (StrikesService), and "a
\* seller with at least RATING_MIN_REVIEWS whose average drops below
\* RATING_SUSPENSION_THRESHOLD is suspended" (ReviewsService): strikes of
\* different incidents, and reviews of different orders, that commit at the same
\* time never both miss the threshold, since each evaluates after its own insert
\* and from the rows, not from the cached aggregates.
SuspensionRulesApplied ==
    \/ suspended
    \/ /\ \/ ActiveStrikePoints < SuspensionThresholdPoints
          \/ "strikes" \in excused
          \/ Evaluating({"sumPoints", "suspend"})
       /\ \/ ~BelowThreshold(Cardinality(RatedOrders), RatingSum)
          \/ "rating" \in excused
          \/ Evaluating({"evaluateRating", "checkSuspended", "suspend"})
=============================================================================
