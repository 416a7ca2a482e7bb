-------------------------- MODULE StorefrontProofs --------------------------
(***************************************************************************)
(* What holds of the storefront for any number of requests, subscriptions, *)
(* listings, documents and events.                                         *)
(*                                                                         *)
(* The parts share the pool of requests in flight, and nothing of it but   *)
(* idle slots: every part's steps move a request between the steps of that *)
(* part (BillingMoves, ConductMoves, ...).  So what a part claims of its   *)
(* own requests is disturbed by its own steps only, and the proofs go part *)
(* by part.                                                                *)
(***************************************************************************)
EXTENDS Storefront, FiniteSetTheorems, WellFoundedInduction, TLAPS

-----------------------------------------------------------------------------
(* The pool of requests *)

Pool == DOMAIN task = Tasks

\* Only requests at these steps move, and only to these steps.
Moves(pcs) ==
    \A t \in Tasks : task'[t] # task[t] => task[t].pc \in pcs /\ task'[t].pc \in pcs

\* No request but t moves.
OnlyMoves(t) == \A u \in Tasks \ {t} : task'[u] = task[u]

BillingPcs ==
    {"idle", "retrieve", "writeState", "reuse", "ensureCustomer", "createSub", "verify", "syncWrite"}
ConductPcs ==
    {"idle", "strike", "sumPoints", "suspend", "insertReview", "commitReview", "evaluateRating",
     "checkSuspended"}
VerificationPcs == {"idle", "writeProfile", "upload", "decide", "commitDecision"}
ListingsPcs == {"idle", "insertListing", "readListing", "writeUpdate", "setAvailable", "delete"}

\* Goto writes the slot of one request: an await of any handler.
LEMMA GotoSlot ==
  ASSUME Pool, NEW t \in Tasks, NEW pc, NEW arg, Goto(t, pc, arg)
  PROVE  /\ Pool'
         /\ task'[t].pc = pc
         /\ task'[t].arg = arg
         /\ OnlyMoves(t)
  <1> DEFINE k == [pc |-> pc, arg |-> arg]
  <1>1. task' = [task EXCEPT ![t] = k]
    BY DEF Goto
  <1>2. k.pc = pc /\ k.arg = arg
    OBVIOUS
  <1> HIDE DEF k
  <1>3. task'[t] = k
    BY <1>1 DEF Pool
  <1> QED BY <1>1, <1>2, <1>3 DEF Pool, OnlyMoves

\* A handler that returns leaves its slot idle.
LEMMA DoneSlot ==
  ASSUME Pool, NEW t \in Tasks, Done(t)
  PROVE  /\ Pool'
         /\ task'[t].pc = "idle"
         /\ OnlyMoves(t)
  BY GotoSlot DEF Done

\* One request that goes from a step of a part to another step of the part.
LEMMA OneMove ==
  ASSUME NEW t \in Tasks, OnlyMoves(t), NEW pcs, task[t].pc \in pcs, task'[t].pc \in pcs
  PROVE  Moves(pcs)
  BY DEF OnlyMoves, Moves

\* A step that no request takes.
LEMMA NoMove ==
  ASSUME Pool, UNCHANGED task, NEW pcs
  PROVE  Pool' /\ Moves(pcs)
  BY DEF Pool, Moves

\* A request of a part that goes on within the part, or returns.
LEMMA PartMoves ==
  ASSUME Pool, NEW t \in Tasks, NEW pcs, task[t].pc \in pcs, "idle" \in pcs,
         Done(t) \/ \E pc \in pcs : \E arg : Goto(t, pc, arg)
  PROVE  Pool' /\ Moves(pcs)
  <1>1. CASE Done(t)
    BY <1>1, DoneSlot, OneMove
  <1>2. CASE \E pc \in pcs : \E arg : Goto(t, pc, arg)
    BY <1>2, GotoSlot, OneMove
  <1> QED BY <1>1, <1>2

-----------------------------------------------------------------------------
(* The steps of each part *)

\* GetStatus, CreateSubscription, the notices, the store sync and their
\* continuations move between the steps of SubscriptionsService.
LEMMA BillingMoves ==
  ASSUME Pool, BillingNext
  PROVE  Pool' /\ Moves(BillingPcs)
  <1>1. ASSUME NEW t \in Tasks,
               \/ GetStatus(t) \/ CreateSubscription(t)
               \/ \E s \in SubIds : HandleNotice(t, s)
               \/ \E hint \in Hints : SyncSubscription(t, hint)
               \/ BillingStep(t)
        PROVE  Pool' /\ Moves(BillingPcs)
    <2>1. task[t].pc \in BillingPcs
      BY <1>1 DEF GetStatus, CreateSubscription, HandleNotice, SyncSubscription, BillingStep,
             Retrieve, WriteState, ReuseExisting, EnsureCustomer, CreateAtStripe,
             VerifyWithRevenueCat, SyncWrite, At, BillingPcs
    <2>2. Done(t) \/ \E pc \in BillingPcs : \E arg : Goto(t, pc, arg)
      <3>1. CASE \/ GetStatus(t) \/ CreateSubscription(t)
                 \/ \E s \in SubIds : HandleNotice(t, s)
                 \/ \E hint \in Hints : SyncSubscription(t, hint)
        BY <3>1 DEF GetStatus, CreateSubscription, HandleNotice, SyncSubscription, BillingPcs
      <3>2. CASE Retrieve(t) \/ WriteState(t) \/ ReuseExisting(t) \/ EnsureCustomer(t)
        BY <3>2 DEF Retrieve, WriteState, ReuseExisting, EnsureCustomer, BillingPcs
      <3>3. CASE CreateAtStripe(t) \/ SyncWrite(t)
        BY <3>3 DEF CreateAtStripe, SyncWrite, BillingPcs
      <3>4. CASE VerifyWithRevenueCat(t)
        BY <3>4 DEF VerifyWithRevenueCat, BillingPcs
      <3> QED BY <1>1, <3>1, <3>2, <3>3, <3>4 DEF BillingStep
    <2> QED BY <2>1, <2>2, PartMoves DEF BillingPcs
  <1>2. CASE \/ \E e \in events : ApplySubscriptionState(e)
             \/ \E e \in storeEvents : HandleStoreEvent(e)
             \/ StripeNext \/ StoreNext
             \/ Tick /\ UNCHANGED billing
    <2>1. UNCHANGED task
      BY <1>2 DEF ApplySubscriptionState, HandleStoreEvent, StripeNext, StoreNext, Tick,
             InvoicePaid, IncompleteExpires, Renew, RenewFails, Cancel, StorePurchase, StoreTells
    <2> QED BY <2>1, NoMove
  <1> QED BY <1>1, <1>2 DEF BillingNext

\* Strikes, reviews and the evaluation of either move within their services,
\* and of the account they write the suspension only.
LEMMA ConductMoves ==
  ASSUME Pool, ConductNext
  PROVE  /\ Pool' /\ Moves(ConductPcs) /\ UNCHANGED <<now, profile>>
         /\ suspended \in BOOLEAN => suspended' \in BOOLEAN
  <1>0. suspended' \in {suspended, TRUE, FALSE}
    BY DEF ConductNext, AddStrike, CreateReview, ConductStep, InsertStrike, EvaluateSuspension,
           SuspendUser, InsertReview, CommitReview, EvaluateRating, CheckSuspended,
           EvaluationFails, AdminSuspend, UnsuspendUser, StrikeExpires, account
  <1>1. ASSUME NEW t \in Tasks,
               \/ \E i \in Incidents, exclude \in BOOLEAN : AddStrike(t, i, exclude)
               \/ \E o \in Orders, r \in Ratings : CreateReview(t, o, r)
               \/ ConductStep(t)
               \/ EvaluationFails(t)
        PROVE  Pool' /\ Moves(ConductPcs) /\ UNCHANGED <<now, profile>>
    <2>1. task[t].pc \in ConductPcs
      BY <1>1 DEF AddStrike, CreateReview, ConductStep, InsertStrike, EvaluateSuspension,
             SuspendUser, InsertReview, CommitReview, EvaluateRating, CheckSuspended,
             EvaluationFails, At, ConductPcs
    <2>2. Done(t) \/ \E pc \in ConductPcs : \E arg : Goto(t, pc, arg)
      <3>1. CASE \/ \E i \in Incidents, exclude \in BOOLEAN : AddStrike(t, i, exclude)
                 \/ \E o \in Orders, r \in Ratings : CreateReview(t, o, r)
        BY <3>1 DEF AddStrike, CreateReview, ConductPcs
      <3>2. CASE InsertStrike(t) \/ EvaluateSuspension(t) \/ SuspendUser(t) \/ EvaluationFails(t)
        BY <3>2 DEF InsertStrike, EvaluateSuspension, SuspendUser, EvaluationFails, ConductPcs
      <3>3. CASE InsertReview(t)
        BY <3>3 DEF InsertReview, ConductPcs
      <3>4. CASE CommitReview(t) \/ EvaluateRating(t) \/ CheckSuspended(t)
        BY <3>4 DEF CommitReview, EvaluateRating, CheckSuspended, ConductPcs
      <3> QED BY <1>1, <3>1, <3>2, <3>3, <3>4 DEF ConductStep
    <2>3. UNCHANGED <<now, profile>>
      BY <1>1 DEF AddStrike, CreateReview, ConductStep, InsertStrike, EvaluateSuspension,
             SuspendUser, InsertReview, CommitReview, EvaluateRating, CheckSuspended,
             EvaluationFails, account
    <2> QED BY <2>1, <2>2, <2>3, PartMoves DEF ConductPcs
  <1>2. CASE AdminSuspend \/ UnsuspendUser \/ \E i \in Incidents : StrikeExpires(i)
    <2>1. UNCHANGED <<task, now, profile>>
      BY <1>2 DEF AdminSuspend, UnsuspendUser, StrikeExpires, account
    <2> QED BY <1>0, <2>1, NoMove
  <1> QED BY <1>0, <1>1, <1>2 DEF ConductNext

\* The wizard, the uploads and their review move within their services.
LEMMA VerificationMoves ==
  ASSUME Pool, VerificationNext
  PROVE  Pool' /\ Moves(VerificationPcs) /\ UNCHANGED <<now, suspended>>
  <1>1. ASSUME NEW t \in Tasks,
               \/ \E c \in SellerCategories : UpsertProfile(t, c)
               \/ \E d \in DocTypes, id \in IdTypes : UploadDocument(t, d, id)
               \/ \E d \in DocTypes, state \in {"APPROVED", "REJECTED"} : Decide(t, d, state)
               \/ VerificationStep(t)
        PROVE  Pool' /\ Moves(VerificationPcs) /\ UNCHANGED <<now, suspended>>
    <2>1. task[t].pc \in VerificationPcs
      BY <1>1 DEF UpsertProfile, UploadDocument, Decide, VerificationStep, WriteProfile,
             CommitUpload, AggregateDecision, CommitDecision, At, VerificationPcs
    <2>2. Done(t) \/ \E pc \in VerificationPcs : \E arg : Goto(t, pc, arg)
      BY <1>1 DEF UpsertProfile, UploadDocument, Decide, VerificationStep, WriteProfile,
             CommitUpload, AggregateDecision, CommitDecision, VerificationPcs
    <2>3. UNCHANGED <<now, suspended>>
      BY <1>1 DEF UpsertProfile, UploadDocument, Decide, VerificationStep, WriteProfile,
             CommitUpload, AggregateDecision, CommitDecision, account
    <2> QED BY <2>1, <2>2, <2>3, PartMoves DEF VerificationPcs
  <1>2. CASE UpsertBusiness \/ UpsertCuisines \/ UpsertZones \/ \E v \in Vehicles : UpsertVehicle(v)
    <2>1. UNCHANGED <<task, now, suspended>>
      BY <1>2 DEF UpsertBusiness, UpsertCuisines, UpsertZones, UpsertVehicle, StepDone, account
    <2> QED BY <2>1, NoMove
  <1> QED BY <1>1, <1>2 DEF VerificationNext

\* ListingsService moves within its steps and writes nothing of the account.
LEMMA ListingsMoves ==
  ASSUME Pool, ListingsNext
  PROVE  Pool' /\ Moves(ListingsPcs) /\ UNCHANGED <<now, profile, suspended>>
  <1>1. ASSUME NEW t \in Tasks,
               \/ \E draft \in Drafts : Create(t, draft)
               \/ \E l \in ListingIds :
                    \/ \E dto \in Edits : Update(t, l, dto)
                    \/ \E available \in BOOLEAN : SetAvailability(t, l, available)
                    \/ SoftDelete(t, l)
               \/ ListingsStep(t)
        PROVE  Pool' /\ Moves(ListingsPcs) /\ UNCHANGED <<now, profile, suspended>>
    <2>1. task[t].pc \in ListingsPcs
      BY <1>1 DEF Create, Update, SetAvailability, SoftDelete, ListingsStep, InsertListing,
             ValidateUpdate, WriteUpdate, WriteAvailability, WriteDelete, At, ListingsPcs
    <2>2. Done(t) \/ \E pc \in ListingsPcs : \E arg : Goto(t, pc, arg)
      BY <1>1 DEF Create, Update, SetAvailability, SoftDelete, ListingsStep, InsertListing,
             ValidateUpdate, WriteUpdate, WriteAvailability, WriteDelete, ListingsPcs
    <2>3. UNCHANGED <<now, profile, suspended>>
      BY <1>1 DEF Create, Update, SetAvailability, SoftDelete, ListingsStep, InsertListing,
             ValidateUpdate, WriteUpdate, WriteAvailability, WriteDelete, account
    <2> QED BY <2>1, <2>2, <2>3, PartMoves DEF ListingsPcs
  <1>2. CASE \E l \in ListingIds : AddBookmark(l) \/ RemoveBookmark(l)
    <2>1. UNCHANGED <<task, now, profile, suspended>>
      BY <1>2 DEF AddBookmark, RemoveBookmark, account
    <2> QED BY <2>1, NoMove
  <1> QED BY <1>1, <1>2 DEF ListingsNext

-----------------------------------------------------------------------------
(* Billing: the gate is open only within paid time *)

StripeStatuses ==
    {"none", "incomplete", "active", "past_due", "canceled", "incomplete_expired"}
Dates == 0..(MaxNow + 1)

SnapshotType == [sub : SubIds, status : StripeStatuses, end : Dates]
StoreType ==
    [ent : {"none", "seller_standard", "seller_premium"}, end : Dates \cup {NoEnd},
     period : {"NORMAL", "INTRO", "TRIAL"}]
NoticeType ==
    [type : {"RENEWAL", "CANCELLATION", "EXPIRATION", "BILLING_ISSUE"},
     ent : {"seller_standard", "seller_premium"}, end : Dates \cup {NoEnd},
     period : {"NORMAL", "INTRO", "TRIAL"}]

\* A snapshot of Stripe that would open the gate is covered by a payment; so is
\* every date the store has told.
SnapshotPaid(x) == x \in SnapshotType /\ (x.status = "active" => x.end <= paidThrough)
DatePaid(end) == end # NoEnd => end <= paidThrough

\* What the sync is about to write: any date, but a paid one where it is said
\* to be RevenueCat's.
VerdictType ==
    [ent : {"none", "other", "seller_standard", "seller_premium"}, end : Nat \cup {NoEnd},
     period : {"NORMAL", "TRIAL"}, why : Bases \ {"none", "stripe"}]
VerdictPaid(x) ==
    x \in VerdictType /\ (x.why = "dated" => x.end # NoEnd /\ x.end <= paidThrough)

\* What the subscription requests in flight carry.
BillingTask(k) ==
    /\ k.pc \in {"retrieve", "reuse"} => k.arg \in SubIds
    /\ k.pc = "writeState" => SnapshotPaid(k.arg)
    /\ k.pc = "verify" => k.arg \in HintType
    /\ k.pc = "syncWrite" => VerdictPaid(k.arg)
BillingTasks == \A t \in Tasks : BillingTask(task[t])

BillingTypes ==
    /\ AccountTypeOK
    /\ BillingTypeOK
    /\ sub \in [SubIds -> [status : StripeStatuses, end : Dates]]
    /\ events \subseteq SnapshotType
    /\ storeEvents \subseteq NoticeType
    /\ store \in StoreType

\* The profile, as far as it does not rest on trust, and everything that any of
\* its five writers may still write.
MirrorPaid ==
    profile.status \in {"ACTIVE", "TRIALING"} /\ Backed
        => profile.end # NoEnd /\ profile.end <= paidThrough
SourcesPaid ==
    /\ \A s \in SubIds : sub[s].status = "active" => sub[s].end <= paidThrough
    /\ \A e \in events : SnapshotPaid(e)
    /\ store.ent # "none" => store.end # NoEnd /\ store.end <= paidThrough
    /\ \A e \in storeEvents : DatePaid(e.end)

BillingInv ==
    /\ Pool
    /\ BillingTypes
    /\ BillingTasks
    /\ MirrorPaid
    /\ SourcesPaid

\* What the others have in flight stays covered while the paid time only grows,
\* so a step answers for the one request it moves.
LEMMA BillingTasksKept ==
  ASSUME BillingTasks, paidThrough \in Nat, paidThrough' \in Nat, paidThrough <= paidThrough',
         NEW t \in Tasks, OnlyMoves(t), BillingTask(task[t])', MaxNow \in Nat, NoEnd \notin Int
  PROVE  BillingTasks'
  <1> SUFFICES ASSUME NEW u \in Tasks PROVE BillingTask(task[u])'
    BY DEF BillingTasks
  <1>1. CASE u = t
    BY <1>1
  <1>2. CASE u # t
    <2>1. task'[u] = task[u] /\ BillingTask(task[u])
      BY <1>2 DEF OnlyMoves, BillingTasks
    <2> QED BY <2>1 DEF BillingTask, SnapshotPaid, SnapshotType, VerdictPaid, VerdictType, Dates
  <1> QED BY <1>1, <1>2

\* The same when no request moves.
LEMMA BillingTasksUnmoved ==
  ASSUME BillingTasks, paidThrough \in Nat, paidThrough' \in Nat, paidThrough <= paidThrough',
         UNCHANGED task, MaxNow \in Nat, NoEnd \notin Int
  PROVE  BillingTasks'
  <1> SUFFICES ASSUME NEW u \in Tasks PROVE BillingTask(task[u])'
    BY DEF BillingTasks
  <1>1. BillingTask(task[u])
    BY DEF BillingTasks
  <1> QED BY <1>1 DEF BillingTask, SnapshotPaid, SnapshotType, VerdictPaid, VerdictType, Dates

\* The requests that have only read: getStatus, createSubscription, a notice, a
\* sync, and what each does before its write.
LEMMA BillingReads ==
  ASSUME BillingInv, NEW t \in Tasks,
         \/ GetStatus(t) \/ CreateSubscription(t)
         \/ \E s \in SubIds : HandleNotice(t, s)
         \/ \E hint \in Hints : SyncSubscription(t, hint)
         \/ Retrieve(t) \/ ReuseExisting(t) \/ EnsureCustomer(t) \/ VerifyWithRevenueCat(t)
  PROVE  /\ BillingInv'
         /\ UNCHANGED <<now, profile, paidThrough, basis>>
  <1> USE AccountAssumption, SubscriptionsAssumption
  <1>1. /\ UNCHANGED <<now, profile, suspended, sub, events, notices, store, storeEvents,
                       paidThrough, basis>>
        /\ customer' \in BOOLEAN
    BY DEF GetStatus, CreateSubscription, HandleNotice, SyncSubscription, Retrieve, ReuseExisting,
           EnsureCustomer, VerifyWithRevenueCat, account, billing, stripe, revenueCat, BillingInv,
           BillingTypes, BillingTypeOK
  <1>2. BillingTypes' /\ MirrorPaid' /\ SourcesPaid'
    BY <1>1 DEF BillingInv, BillingTypes, AccountTypeOK, BillingTypeOK, MirrorPaid, Backed,
                SourcesPaid, SnapshotPaid, DatePaid
  <1>3. paidThrough \in Nat
    BY DEF BillingInv, BillingTypes, BillingTypeOK
  <1>4. ASSUME NEW pc, NEW arg, Goto(t, pc, arg), BillingTask([pc |-> pc, arg |-> arg])
        PROVE  Pool' /\ BillingTasks'
    <2>1. Pool' /\ task'[t].pc = pc /\ task'[t].arg = arg /\ OnlyMoves(t)
      BY <1>4, GotoSlot DEF BillingInv
    <2>2. BillingTask(task[t])'
      BY <1>1, <1>4, <2>1 DEF BillingTask, SnapshotPaid, VerdictPaid
    <2> QED BY <1>1, <1>3, <2>1, <2>2, BillingTasksKept DEF BillingInv
  <1>5. ASSUME Done(t) PROVE Pool' /\ BillingTasks'
    <2>1. BillingTask([pc |-> "idle", arg |-> NoArg])
      BY DEF BillingTask
    <2> QED BY <1>4, <1>5, <2>1 DEF Done
  <1>6. ASSUME NEW s \in SubIds PROVE SnapshotPaid(Snapshot(s))
    BY <1>6 DEF SnapshotPaid, Snapshot, SnapshotType, BillingInv, BillingTypes, SourcesPaid
  <1>7. Pool' /\ BillingTasks'
    <2>1. CASE GetStatus(t) \/ \E s \in SubIds : HandleNotice(t, s)
      <3>1. \E s \in SubIds : Goto(t, "retrieve", s)
        BY <2>1 DEF GetStatus, HandleNotice, BillingInv, BillingTypes, AccountTypeOK, ProfileType
      <3> QED BY <1>4, <3>1 DEF BillingTask
    <2>2. CASE CreateSubscription(t)
      <3>1. Goto(t, "ensureCustomer", NoArg) \/ \E s \in SubIds : Goto(t, "reuse", s)
        BY <2>2 DEF CreateSubscription, BillingInv, BillingTypes, AccountTypeOK, ProfileType
      <3> QED BY <1>4, <3>1 DEF BillingTask
    <2>3. CASE \E hint \in Hints : SyncSubscription(t, hint)
      <3>1. PICK hint \in Hints : Goto(t, "verify", hint)
        BY <2>3 DEF SyncSubscription
      <3>2. hint \in HintType
        BY DEF HintType
      <3> QED BY <1>4, <3>1, <3>2 DEF BillingTask
    <2>4. CASE Retrieve(t) \/ ReuseExisting(t)
      <3>1. task[t].arg \in SubIds
        BY <2>4 DEF Retrieve, ReuseExisting, At, BillingInv, BillingTasks, BillingTask
      <3>2. Done(t) \/ Goto(t, "ensureCustomer", NoArg)
              \/ Goto(t, "writeState", Snapshot(task[t].arg))
        BY <2>4 DEF Retrieve, ReuseExisting
      <3> HIDE DEF Snapshot
      <3>3. CASE Goto(t, "writeState", Snapshot(task[t].arg))
        BY <1>4, <1>6, <3>1, <3>3 DEF BillingTask
      <3>4. CASE Goto(t, "ensureCustomer", NoArg)
        BY <1>4, <3>4 DEF BillingTask
      <3> QED BY <1>5, <3>2, <3>3, <3>4
    <2>5. CASE EnsureCustomer(t)
      <3>1. Done(t) \/ Goto(t, "createSub", NoArg)
        BY <2>5 DEF EnsureCustomer
      <3> QED BY <1>4, <1>5, <3>1 DEF BillingTask
    <2>6. CASE VerifyWithRevenueCat(t)
      <3>1. task[t].arg \in HintType
        BY <2>6 DEF VerifyWithRevenueCat, At, BillingInv, BillingTasks, BillingTask
      <3>2. store \in StoreType /\ (store.ent # "none" => store.end # NoEnd /\ store.end <= paidThrough)
        BY DEF BillingInv, BillingTypes, SourcesPaid
      <3> DEFINE told(dated) ==
                   [ent |-> store.ent, end |-> VerifiedEnd(dated, task[t].arg),
                    period |-> IF store.period = "TRIAL" THEN "TRIAL" ELSE "NORMAL",
                    why |-> IF dated THEN "dated" ELSE "undated"]
      <3>3. PICK arg : /\ Goto(t, "syncWrite", arg)
                       /\ \/ arg = Verdict(task[t].arg, "unanswered")
                          \/ arg = Verdict([task[t].arg EXCEPT !.period = "NORMAL"], "overruled")
                          \/ \E dated \in BOOLEAN : store.ent # "none" /\ arg = told(dated)
        BY <2>6 DEF VerifyWithRevenueCat
      <3>4. VerdictPaid(arg)
        <4>1. CASE arg = Verdict(task[t].arg, "unanswered")
          BY <3>1, <4>1 DEF Verdict, HintType, VerdictPaid, VerdictType, Bases
        <4>2. CASE arg = Verdict([task[t].arg EXCEPT !.period = "NORMAL"], "overruled")
          BY <3>1, <4>2 DEF Verdict, HintType, VerdictPaid, VerdictType, Bases
        <4>3. ASSUME NEW dated \in BOOLEAN, store.ent # "none", arg = told(dated)
              PROVE  VerdictPaid(arg)
          BY <3>1, <3>2, <4>3
             DEF VerifiedEnd, HintType, StoreType, VerdictPaid, VerdictType, Bases, Dates
        <4> QED BY <3>3, <4>1, <4>2, <4>3
      <3> QED BY <1>4, <3>3, <3>4 DEF BillingTask
    <2> QED BY <2>1, <2>2, <2>3, <2>4, <2>5, <2>6
  <1> QED BY <1>1, <1>2, <1>7 DEF BillingInv

\* A snapshot of Stripe is written to the profile, by writeStateFromSub or by
\* applySubscriptionState, however old it is: it opens the gate for paid time.
LEMMA SnapshotWritten ==
  ASSUME BillingInv, NEW snap, SnapshotPaid(snap), profile' = Mirrored(snap),
         basis' = "stripe", events' \subseteq events,
         UNCHANGED <<now, suspended, customer, sub, notices, revenueCat, paidThrough>>
  PROVE  BillingTypes' /\ MirrorPaid' /\ SourcesPaid'
  <1> USE AccountAssumption
  <1>1. UNCHANGED <<customer, sub, notices, store, storeEvents, paidThrough>>
    BY DEF revenueCat
  <1>2. snap \in SnapshotType /\ profile \in ProfileType
    BY DEF SnapshotPaid, BillingInv, BillingTypes, AccountTypeOK
  <1>3. StatusFromStripe(snap.status) \in SubscriptionStatuses
    BY <1>2 DEF StatusFromStripe, SubscriptionStatuses, SnapshotType, StripeStatuses
  <1>4. /\ profile' \in ProfileType
        /\ profile'.status = StatusFromStripe(snap.status)
        /\ profile'.end = snap.end
    <2>1. snap.sub \in SubIds /\ snap.end \in Nat
      BY <1>2 DEF SnapshotType, Dates
    <2> HIDE DEF StatusFromStripe
    <2> QED BY <1>2, <1>3, <2>1 DEF Mirrored, ProfileType
  <1>5. MirrorPaid'
    <2>1. StatusFromStripe(snap.status) \in {"ACTIVE", "TRIALING"} => snap.status = "active"
      BY <1>2 DEF StatusFromStripe, SnapshotType, StripeStatuses
    <2>2. snap.end \in Int
      BY <1>2 DEF SnapshotType, Dates
    <2> HIDE DEF StatusFromStripe
    <2> QED BY <1>1, <1>4, <2>1, <2>2 DEF MirrorPaid, SnapshotPaid
  <1>6. SourcesPaid'
    BY <1>1 DEF BillingInv, SourcesPaid, SnapshotPaid, DatePaid
  <1>7. BillingTypes'
    BY <1>1, <1>4 DEF BillingInv, BillingTypes, AccountTypeOK, BillingTypeOK, Bases
  <1> QED BY <1>5, <1>6, <1>7

\* The store's fields are written, by the webhook or by the sync: a date that
\* RevenueCat told is paid.
LEMMA StoreFieldsWritten ==
  ASSUME BillingInv, NEW status \in SubscriptionStatuses, NEW ent,
         NEW end \in Nat \cup {NoEnd}, NEW why \in Bases \ {"none", "stripe"},
         why = "dated" => end # NoEnd /\ end <= paidThrough,
         StoreWrites(status, ent, end, why),
         UNCHANGED <<now, suspended, customer, stripe, revenueCat, paidThrough>>
  PROVE  BillingTypes' /\ MirrorPaid' /\ SourcesPaid'
  <1> USE AccountAssumption
  <1> DEFINE active == status \in {"ACTIVE", "TRIALING"}
  <1>1. UNCHANGED <<sub, events, notices, store, storeEvents>>
    BY DEF stripe, revenueCat
  <1>2. now \in 0..MaxNow /\ paidThrough \in Dates /\ profile \in ProfileType
    BY DEF BillingInv, BillingTypes, AccountTypeOK, BillingTypeOK, Dates
  <1>3. basis' = why
    BY DEF StoreWrites
  <1>4. /\ profile'.status = status
        /\ profile'.end = IF end = NoEnd /\ active THEN now + 1 ELSE end
        /\ profile' \in ProfileType
    <2> DEFINE until == IF end = NoEnd /\ active THEN now + 1 ELSE end
               premium == active /\ ent = "seller_premium"
    <2>1. profile' = [profile EXCEPT !.status = status, !.end = until, !.isPremium = premium]
      BY DEF StoreWrites, StoreFields
    <2>2. until \in Nat \cup {NoEnd}
      BY <1>2
    <2>3. premium \in BOOLEAN
      OBVIOUS
    <2> HIDE DEF until, premium
    <2>4. profile'.status = status /\ profile'.end = until /\ profile' \in ProfileType
      BY <1>2, <2>1, <2>2, <2>3 DEF ProfileType
    <2> QED BY <2>4 DEF until
  <1>5. MirrorPaid'
    BY <1>3, <1>4 DEF MirrorPaid, Backed, Bases
  <1>6. SourcesPaid'
    BY <1>1 DEF BillingInv, SourcesPaid, SnapshotPaid, DatePaid
  <1>7. BillingTypes'
    BY <1>1, <1>3, <1>4 DEF BillingInv, BillingTypes, AccountTypeOK, BillingTypeOK
  <1> QED BY <1>5, <1>6, <1>7

\* A subscription changes at Stripe and an event tells it: an active one is paid.
LEMMA StripeChanged ==
  ASSUME BillingInv, NEW s \in SubIds, NEW status \in StripeStatuses, NEW end \in Dates,
         StripeSets(s, status, end), paidThrough' \in Dates, paidThrough <= paidThrough',
         status = "active" => end <= paidThrough',
         UNCHANGED <<account, customer, store, storeEvents, basis>>, notices' \subseteq SubIds
  PROVE  BillingTypes' /\ MirrorPaid' /\ SourcesPaid'
  <1> USE AccountAssumption
  <1> DEFINE row == [status |-> status, end |-> end]
             event == [sub |-> s, status |-> status, end |-> end]
  <1>1. UNCHANGED <<now, profile, suspended>> /\ paidThrough \in Dates
    BY DEF account, BillingInv, BillingTypes, BillingTypeOK, Dates
  <1>2. sub' = [sub EXCEPT ![s] = row] /\ events' = events \cup {event}
    BY DEF StripeSets
  <1>3. /\ row \in [status : StripeStatuses, end : Dates]
        /\ row.status = status /\ row.end = end
    OBVIOUS
  <1>4. event \in SnapshotType /\ event.status = status /\ event.end = end
    BY DEF SnapshotType
  <1> HIDE DEF row, event
  <1>5. sub \in [SubIds -> [status : StripeStatuses, end : Dates]]
    BY DEF BillingInv, BillingTypes
  <1>6. sub' \in [SubIds -> [status : StripeStatuses, end : Dates]]
    BY <1>2, <1>3, <1>5
  <1>7. \A x \in SubIds : sub'[x] = IF x = s THEN row ELSE sub[x]
    BY <1>2, <1>5
  <1>8. \A x \in SubIds : sub'[x].status = "active" => sub'[x].end <= paidThrough'
    <2> SUFFICES ASSUME NEW x \in SubIds, sub'[x].status = "active" PROVE sub'[x].end <= paidThrough'
      OBVIOUS
    <2>1. CASE x = s
      BY <1>3, <1>7, <2>1
    <2>2. CASE x # s
      <3>1. sub[x].end \in Dates /\ sub[x].end <= paidThrough
        BY <1>5, <1>7, <2>2 DEF BillingInv, SourcesPaid
      <3> QED BY <1>1, <1>7, <2>2, <3>1 DEF Dates
    <2> QED BY <2>1, <2>2
  <1>9. \A e \in events' : e \in SnapshotType /\ (e.status = "active" => e.end <= paidThrough')
    <2> SUFFICES ASSUME NEW e \in events'
                 PROVE  e \in SnapshotType /\ (e.status = "active" => e.end <= paidThrough')
      OBVIOUS
    <2>1. CASE e = event
      BY <1>4, <2>1
    <2>2. CASE e \in events
      <3>1. SnapshotPaid(e)
        BY <2>2 DEF BillingInv, SourcesPaid
      <3> QED BY <1>1, <3>1 DEF SnapshotPaid, SnapshotType, Dates
    <2> QED BY <1>2, <2>1, <2>2
  <1>10. BillingTypes'
    BY <1>1, <1>6, <1>9 DEF BillingInv, BillingTypes, AccountTypeOK, BillingTypeOK, Dates
  <1>11. MirrorPaid'
    BY <1>1 DEF BillingInv, BillingTypes, AccountTypeOK, ProfileType, MirrorPaid, Backed, Dates
  <1>12. SourcesPaid'
    <2>1. store.ent # "none" => store.end # NoEnd /\ store.end <= paidThrough'
      BY <1>1 DEF BillingInv, BillingTypes, SourcesPaid, StoreType, Dates
    <2>2. \A e \in storeEvents : e.end # NoEnd => e.end <= paidThrough'
      BY <1>1 DEF BillingInv, BillingTypes, SourcesPaid, NoticeType, DatePaid, Dates
    <2> QED BY <1>8, <1>9, <2>1, <2>2 DEF SourcesPaid, SnapshotPaid, DatePaid
  <1> QED BY <1>10, <1>11, <1>12

\* The store sells or tells: whatever date its events carry is paid.
LEMMA StoreChanged ==
  ASSUME BillingInv, NEW type \in {"RENEWAL", "CANCELLATION", "EXPIRATION", "BILLING_ISSUE"},
         NEW dated \in BOOLEAN, StoreSends(type, dated), store' \in StoreType,
         store'.ent # "none", store'.end # NoEnd, store'.end <= paidThrough',
         paidThrough' \in Dates, paidThrough <= paidThrough',
         UNCHANGED <<account, customer, stripe, basis>>
  PROVE  BillingTypes' /\ MirrorPaid' /\ SourcesPaid'
  <1> USE AccountAssumption
  <1> DEFINE event == [type |-> type, ent |-> store'.ent, period |-> store'.period,
                       end |-> IF dated THEN store'.end ELSE NoEnd]
  <1>1. UNCHANGED <<now, profile, suspended, sub, events, notices>> /\ paidThrough \in Dates
    BY DEF account, stripe, BillingInv, BillingTypes, BillingTypeOK, Dates
  <1>2. storeEvents' = storeEvents \cup {event}
    BY DEF StoreSends
  <1>3. event \in NoticeType /\ (event.end # NoEnd => event.end <= paidThrough')
    BY DEF NoticeType, StoreType
  <1> HIDE DEF event
  <1>4. \A e \in storeEvents' : e \in NoticeType /\ (e.end # NoEnd => e.end <= paidThrough')
    <2> SUFFICES ASSUME NEW e \in storeEvents'
                 PROVE  e \in NoticeType /\ (e.end # NoEnd => e.end <= paidThrough')
      OBVIOUS
    <2>1. CASE e = event
      BY <1>3, <2>1
    <2>2. CASE e \in storeEvents
      <3>1. e \in NoticeType /\ DatePaid(e.end)
        BY <2>2 DEF BillingInv, BillingTypes, SourcesPaid
      <3> QED BY <1>1, <3>1 DEF DatePaid, NoticeType, Dates
    <2> QED BY <1>2, <2>1, <2>2
  <1>5. BillingTypes'
    BY <1>1, <1>4 DEF BillingInv, BillingTypes, AccountTypeOK, BillingTypeOK, Dates
  <1>6. MirrorPaid'
    BY <1>1 DEF BillingInv, BillingTypes, AccountTypeOK, ProfileType, MirrorPaid, Backed, Dates
  <1>7. SourcesPaid'
    <2>1. \A s \in SubIds : sub[s].status = "active" => sub[s].end <= paidThrough'
      BY <1>1 DEF BillingInv, BillingTypes, SourcesPaid, Dates
    <2>2. \A e \in events : e \in SnapshotType /\ (e.status = "active" => e.end <= paidThrough')
      BY <1>1 DEF BillingInv, SourcesPaid, SnapshotPaid, SnapshotType, Dates
    <2> QED BY <1>1, <1>4, <2>1, <2>2 DEF SourcesPaid, SnapshotPaid, DatePaid
  <1> QED BY <1>5, <1>6, <1>7

\* A step of billing lets the paid time grow or stand, and shuts nobody out when
\* it grows; or a month passes.
PaidTimeGrows ==
    /\ now' = now
    /\ \/ paidThrough' = paidThrough
       \/ paidThrough' > paidThrough /\ paidThrough' > now /\ (Open => Open')
MonthPasses == now' = now + 1 /\ UNCHANGED <<profile, paidThrough, basis>>

\* Every step of every writer, of Stripe and of the store keeps what the mirror
\* and its sources say covered by payments.
LEMMA BillingKept ==
  ASSUME BillingInv, BillingNext
  PROVE  BillingInv' /\ (PaidTimeGrows \/ MonthPasses)
  <1> USE AccountAssumption, SubscriptionsAssumption
  <1>0. /\ Pool /\ BillingTasks
        /\ now \in 0..MaxNow /\ paidThrough \in Dates /\ paidThrough \in Nat
        /\ profile \in ProfileType
        /\ notices \subseteq SubIds
        /\ \A s \in SubIds : sub[s].end \in Dates
    BY DEF BillingInv, BillingTypes, AccountTypeOK, BillingTypeOK, Dates
  <1>1. ASSUME NEW t \in Tasks,
               \/ GetStatus(t) \/ CreateSubscription(t)
               \/ \E s \in SubIds : HandleNotice(t, s)
               \/ \E hint \in Hints : SyncSubscription(t, hint)
               \/ Retrieve(t) \/ ReuseExisting(t) \/ EnsureCustomer(t) \/ VerifyWithRevenueCat(t)
        PROVE  BillingInv' /\ PaidTimeGrows
    BY <1>1, BillingReads DEF PaidTimeGrows
  <1>2. ASSUME NEW t \in Tasks, WriteState(t)
        PROVE  BillingInv' /\ PaidTimeGrows
    <2>1. /\ SnapshotPaid(task[t].arg)
          /\ profile' = Mirrored(task[t].arg)
          /\ basis' = "stripe" /\ events' \subseteq events
          /\ UNCHANGED <<now, suspended, customer, sub, notices, revenueCat, paidThrough>>
          /\ Done(t)
      BY <1>0, <1>2 DEF WriteState, At, BillingTasks, BillingTask, stripe
    <2>2. BillingTypes' /\ MirrorPaid' /\ SourcesPaid'
      BY <2>1, SnapshotWritten
    <2>3. Pool' /\ task'[t].pc = "idle" /\ OnlyMoves(t)
      BY <1>0, <2>1, DoneSlot
    <2>4. BillingTasks'
      <3>1. BillingTask(task[t])'
        BY <2>3 DEF BillingTask
      <3> QED BY <1>0, <2>1, <2>3, <3>1, BillingTasksKept
    <2> QED BY <2>1, <2>2, <2>3, <2>4 DEF BillingInv, PaidTimeGrows
  <1>3. ASSUME NEW e \in events, ApplySubscriptionState(e)
        PROVE  BillingInv' /\ PaidTimeGrows
    <2>1. /\ SnapshotPaid(e)
          /\ profile' = Mirrored(e)
          /\ basis' = "stripe" /\ events' \subseteq events
          /\ UNCHANGED <<now, suspended, customer, sub, notices, revenueCat, paidThrough, task>>
      BY <1>3 DEF ApplySubscriptionState, BillingInv, SourcesPaid
    <2>2. BillingTypes' /\ MirrorPaid' /\ SourcesPaid'
      BY <2>1, SnapshotWritten
    <2>3. Pool' /\ BillingTasks'
      BY <1>0, <2>1, BillingTasksUnmoved, NoMove
    <2> QED BY <2>1, <2>2, <2>3 DEF BillingInv, PaidTimeGrows
  <1>4. ASSUME NEW t \in Tasks, SyncWrite(t)
        PROVE  BillingInv' /\ PaidTimeGrows
    <2> DEFINE e == task[t].arg
               status == IF e.ent = "none" THEN "NONE" ELSE ActiveStatusForPeriod(e.period)
    <2>1. /\ VerdictPaid(e)
          /\ StoreWrites(status, e.ent, e.end, e.why)
          /\ UNCHANGED <<now, suspended, customer, stripe, revenueCat, paidThrough>>
          /\ Done(t)
      BY <1>0, <1>4 DEF SyncWrite, At, BillingTasks, BillingTask
    <2>2. /\ status \in SubscriptionStatuses /\ e.end \in Nat \cup {NoEnd}
          /\ e.why \in Bases \ {"none", "stripe"}
          /\ e.why = "dated" => e.end # NoEnd /\ e.end <= paidThrough
      BY <2>1 DEF ActiveStatusForPeriod, SubscriptionStatuses, VerdictPaid, VerdictType
    <2> HIDE DEF e, status
    <2>3. BillingTypes' /\ MirrorPaid' /\ SourcesPaid'
      BY <2>1, <2>2, StoreFieldsWritten
    <2>5. Pool' /\ task'[t].pc = "idle" /\ OnlyMoves(t)
      BY <1>0, <2>1, DoneSlot
    <2>6. BillingTasks'
      <3>1. BillingTask(task[t])'
        BY <2>5 DEF BillingTask
      <3> QED BY <1>0, <2>1, <2>5, <3>1, BillingTasksKept
    <2> QED BY <2>1, <2>3, <2>5, <2>6 DEF BillingInv, PaidTimeGrows
  <1>5. ASSUME NEW e \in storeEvents, HandleStoreEvent(e)
        PROVE  BillingInv' /\ PaidTimeGrows
    <2> DEFINE status == WebhookEventToStatus(e.type, e.period)
    <2>1. /\ e \in NoticeType /\ DatePaid(e.end)
          /\ StoreWrites(status, e.ent, e.end, Named(e.end))
          /\ UNCHANGED <<now, suspended, customer, stripe, revenueCat, paidThrough, task>>
      BY <1>5 DEF HandleStoreEvent, BillingInv, BillingTypes, SourcesPaid
    <2>2. /\ status \in SubscriptionStatuses /\ e.end \in Nat \cup {NoEnd}
          /\ Named(e.end) \in Bases \ {"none", "stripe"}
          /\ Named(e.end) = "dated" => e.end # NoEnd /\ e.end <= paidThrough
      BY <2>1 DEF WebhookEventToStatus, ActiveStatusForPeriod, SubscriptionStatuses, NoticeType,
             Dates, Named, Bases, DatePaid
    <2> HIDE DEF status
    <2>3. BillingTypes' /\ MirrorPaid' /\ SourcesPaid'
      BY <2>1, <2>2, StoreFieldsWritten
    <2>5. Pool' /\ BillingTasks'
      BY <1>0, <2>1, BillingTasksUnmoved, NoMove
    <2> QED BY <2>1, <2>3, <2>5 DEF BillingInv, PaidTimeGrows
  <1>6. ASSUME NEW t \in Tasks, CreateAtStripe(t)
        PROVE  BillingInv' /\ PaidTimeGrows
    <2>1. /\ UNCHANGED <<account, customer, notices, revenueCat, paidThrough, basis>>
          /\ now + 1 \in Dates
      BY <1>0, <1>6 DEF CreateAtStripe, Dates
    <2>2. UNCHANGED <<now, profile, suspended, store, storeEvents>>
      BY <2>1 DEF account, revenueCat
    <2>3. CASE Done(t) /\ UNCHANGED <<sub, events>>
      <3>1. Pool' /\ task'[t].pc = "idle" /\ OnlyMoves(t)
        BY <1>0, <2>3, DoneSlot
      <3>2. BillingTask(task[t])'
        BY <3>1 DEF BillingTask
      <3>3. BillingTasks'
        BY <1>0, <2>1, <3>1, <3>2, BillingTasksKept
      <3>4. BillingTypes' /\ MirrorPaid' /\ SourcesPaid'
        BY <2>1, <2>2, <2>3 DEF BillingInv, BillingTypes, AccountTypeOK, BillingTypeOK, MirrorPaid,
                          Backed, SourcesPaid, SnapshotPaid, DatePaid
      <3> QED BY <2>1, <2>2, <3>1, <3>3, <3>4 DEF BillingInv, PaidTimeGrows
    <2>4. ASSUME NEW s \in SubIds, StripeSets(s, "incomplete", now + 1),
                 Goto(t, "writeState", [sub |-> s, status |-> "incomplete", end |-> now + 1])
          PROVE  BillingInv' /\ PaidTimeGrows
      <3> DEFINE snap == [sub |-> s, status |-> "incomplete", end |-> now + 1]
      <3>1. SnapshotPaid(snap)
        BY <2>1 DEF SnapshotPaid, SnapshotType, StripeStatuses
      <3>2. Goto(t, "writeState", snap)
        BY <2>4
      <3> HIDE DEF snap
      <3>3. Pool' /\ task'[t].pc = "writeState" /\ task'[t].arg = snap /\ OnlyMoves(t)
        BY <1>0, <3>2, GotoSlot
      <3>4. BillingTask(task[t])'
        <4>1. SnapshotPaid(task[t].arg)'
          BY <2>1, <3>1, <3>3 DEF SnapshotPaid
        <4> QED BY <3>3, <4>1 DEF BillingTask
      <3>5. BillingTasks'
        BY <1>0, <2>1, <3>3, <3>4, BillingTasksKept
      <3>6. BillingTypes' /\ MirrorPaid' /\ SourcesPaid'
        <4>1. "incomplete" \in StripeStatuses
          BY DEF StripeStatuses
        <4> QED BY <1>0, <2>1, <2>2, <2>4, <4>1, StripeChanged
      <3> QED BY <2>1, <2>2, <3>3, <3>5, <3>6 DEF BillingInv, PaidTimeGrows
    <2> QED BY <1>6, <2>3, <2>4 DEF CreateAtStripe
  <1>7. CASE StripeNext
    <2>1. PICK s \in SubIds :
            InvoicePaid(s) \/ IncompleteExpires(s) \/ Renew(s) \/ RenewFails(s) \/ Cancel(s)
      BY <1>7 DEF StripeNext
    <2>2. /\ UNCHANGED <<account, customer, revenueCat, basis, task>>
          /\ notices' \subseteq SubIds
      BY <1>0, <2>1 DEF InvoicePaid, IncompleteExpires, Renew, RenewFails, Cancel
    <2>3. UNCHANGED <<now, profile, store, storeEvents>>
      BY <2>2 DEF account, revenueCat
    <2>4. \E status \in StripeStatuses, end \in Dates :
            /\ StripeSets(s, status, end)
            /\ paidThrough' \in Dates /\ paidThrough <= paidThrough'
            /\ status = "active" => end <= paidThrough'
            /\ paidThrough' = paidThrough \/ paidThrough' > now
      <3>1. "active" \in StripeStatuses /\ "past_due" \in StripeStatuses
              /\ "canceled" \in StripeStatuses /\ "incomplete_expired" \in StripeStatuses
        BY DEF StripeStatuses
      <3>2. sub[s].end \in Dates /\ now + 1 \in Dates
        BY <1>0 DEF Dates
      <3>3. CASE InvoicePaid(s)
        <4>1. StripeSets(s, "active", sub[s].end) /\ paidThrough' = Later(paidThrough, sub[s].end)
                /\ now < sub[s].end
          BY <3>3 DEF InvoicePaid
        <4> QED BY <1>0, <3>1, <3>2, <4>1 DEF Later, Dates
      <3>4. CASE Renew(s)
        <4>1. StripeSets(s, "active", now + 1) /\ paidThrough' = Later(paidThrough, now + 1)
          BY <3>4 DEF Renew
        <4> QED BY <1>0, <3>1, <3>2, <4>1 DEF Later, Dates
      <3>5. CASE IncompleteExpires(s) \/ RenewFails(s) \/ Cancel(s)
        <4>1. /\ UNCHANGED paidThrough
              /\ \/ StripeSets(s, "incomplete_expired", sub[s].end)
                 \/ StripeSets(s, "past_due", now + 1)
                 \/ StripeSets(s, "canceled", sub[s].end)
          BY <3>5 DEF IncompleteExpires, RenewFails, Cancel
        <4> QED BY <1>0, <3>1, <3>2, <4>1 DEF Dates
      <3> QED BY <2>1, <3>3, <3>4, <3>5
    <2>5. BillingTypes' /\ MirrorPaid' /\ SourcesPaid'
      BY <2>2, <2>3, <2>4, StripeChanged
    <2>6. paidThrough' \in Nat /\ paidThrough <= paidThrough'
            /\ (paidThrough' = paidThrough \/ paidThrough' > now)
      BY <2>4 DEF Dates
    <2>7. Pool' /\ BillingTasks'
      BY <1>0, <2>2, <2>6, BillingTasksUnmoved, NoMove
    <2>8. Open => Open'
      BY <2>2, <2>3 DEF Open, Backed, Active, IsSubscriptionActive
    <2>9. PaidTimeGrows
      BY <1>0, <2>3, <2>6, <2>8 DEF PaidTimeGrows
    <2> QED BY <2>5, <2>7, <2>9 DEF BillingInv
  <1>8. CASE StoreNext
    <2>1. PICK dated \in BOOLEAN :
            \/ \E ent \in Entitlements, period \in PeriodTypes : StorePurchase(ent, period, dated)
            \/ \E type \in {"CANCELLATION", "EXPIRATION", "BILLING_ISSUE"} : StoreTells(type, dated)
      BY <1>8 DEF StoreNext
    <2>2. UNCHANGED <<account, customer, stripe, basis, task>> /\ UNCHANGED <<now, profile>>
      BY <2>1 DEF StorePurchase, StoreTells, account
    <2>3. \E type \in {"RENEWAL", "CANCELLATION", "EXPIRATION", "BILLING_ISSUE"} :
            /\ StoreSends(type, dated)
            /\ store' \in StoreType /\ store'.ent # "none"
            /\ store'.end # NoEnd /\ store'.end <= paidThrough'
            /\ paidThrough' \in Dates /\ paidThrough <= paidThrough'
            /\ paidThrough' = paidThrough \/ paidThrough' > now
      <3>1. ASSUME NEW ent \in Entitlements, NEW period \in PeriodTypes,
                   StorePurchase(ent, period, dated)
            PROVE  /\ StoreSends("RENEWAL", dated)
                   /\ store' \in StoreType /\ store'.ent # "none"
                   /\ store'.end # NoEnd /\ store'.end <= paidThrough'
                   /\ paidThrough' \in Dates /\ paidThrough <= paidThrough'
                   /\ paidThrough' = paidThrough \/ paidThrough' > now
        <4>1. /\ StoreSends("RENEWAL", dated)
              /\ store' = [ent |-> ent, end |-> now + 1, period |-> period]
              /\ paidThrough' = Later(paidThrough, now + 1)
          BY <3>1 DEF StorePurchase
        <4>2. store' \in StoreType /\ store'.ent # "none" /\ store'.end = now + 1
          BY <1>0, <4>1 DEF StoreType, Dates
        <4> QED BY <1>0, <4>1, <4>2 DEF Later, Dates
      <3>2. ASSUME NEW type \in {"CANCELLATION", "EXPIRATION", "BILLING_ISSUE"},
                   StoreTells(type, dated)
            PROVE  /\ StoreSends(type, dated)
                   /\ store' \in StoreType /\ store'.ent # "none"
                   /\ store'.end # NoEnd /\ store'.end <= paidThrough'
                   /\ UNCHANGED paidThrough
        BY <3>2 DEF StoreTells, BillingInv, BillingTypes, SourcesPaid
      <3>3. UNCHANGED paidThrough => paidThrough' \in Dates /\ paidThrough <= paidThrough'
        BY <1>0 DEF Dates
      <3> QED BY <2>1, <3>1, <3>2, <3>3
    <2>4. BillingTypes' /\ MirrorPaid' /\ SourcesPaid'
      BY <2>2, <2>3, StoreChanged
    <2>5. paidThrough' \in Nat /\ paidThrough <= paidThrough'
            /\ (paidThrough' = paidThrough \/ paidThrough' > now)
      BY <2>3 DEF Dates
    <2>6. Pool' /\ BillingTasks'
      BY <1>0, <2>2, <2>5, BillingTasksUnmoved, NoMove
    <2>7. Open => Open'
      BY <2>2 DEF Open, Backed, Active, IsSubscriptionActive
    <2>8. PaidTimeGrows
      BY <1>0, <2>2, <2>5, <2>7 DEF PaidTimeGrows
    <2> QED BY <2>4, <2>6, <2>8 DEF BillingInv
  <1>9. CASE Tick /\ UNCHANGED billing
    <2>1. /\ now < MaxNow /\ now' = now + 1
          /\ UNCHANGED <<profile, suspended, task, customer, sub, events, notices, store,
                         storeEvents, paidThrough, basis>>
      BY <1>9 DEF Tick, billing, stripe, revenueCat
    <2>2. BillingTypes' /\ MirrorPaid' /\ SourcesPaid'
      BY <1>0, <2>1 DEF BillingInv, BillingTypes, AccountTypeOK, BillingTypeOK, MirrorPaid, Backed,
                  SourcesPaid, SnapshotPaid, DatePaid
    <2>3. Pool' /\ BillingTasks'
      BY <1>0, <2>1, BillingTasksUnmoved, NoMove
    <2> QED BY <2>1, <2>2, <2>3 DEF BillingInv, MonthPasses
  <1> QED BY <1>1, <1>2, <1>3, <1>4, <1>5, <1>6, <1>7, <1>8, <1>9 DEF BillingNext, BillingStep

-----------------------------------------------------------------------------
(* The refinement *)

\* The initial state.
LEMMA BillingInitInv == SubscriptionsInit => BillingInv /\ Access!Init
  <1> SUFFICES ASSUME SubscriptionsInit PROVE BillingInv /\ Access!Init
    OBVIOUS
  <1> USE AccountAssumption
  <1>1. Pool /\ \A t \in Tasks : task[t].pc = "idle"
    BY DEF SubscriptionsInit, AccountInit, RequestsInit, Pool, Idle
  <1>2. now = 0 /\ profile = NewProfile /\ suspended = FALSE /\ paidThrough = 0 /\ basis = "none"
    BY DEF SubscriptionsInit, AccountInit, BillingInit
  <1>3. profile \in ProfileType /\ profile.status = "NONE"
    BY <1>2 DEF NewProfile, ProfileType, SubscriptionStatuses, Categories
  <1>4. store \in StoreType /\ store.ent = "none"
    BY DEF SubscriptionsInit, BillingInit, NoEntitlement, StoreType
  <1>5. /\ sub \in [SubIds -> [status : StripeStatuses, end : Dates]]
        /\ \A s \in SubIds : sub[s].status = "none" /\ sub[s].end \in Dates
    BY DEF SubscriptionsInit, BillingInit, StripeStatuses, Dates
  <1>6. customer \in BOOLEAN /\ events = {} /\ notices = {} /\ storeEvents = {}
    BY DEF SubscriptionsInit, BillingInit
  <1>7. BillingTypes
    <2>1. AccountTypeOK
      <3>1. now \in 0..MaxNow
        BY <1>2
      <3>2. suspended \in BOOLEAN
        BY <1>2
      <3> QED BY <1>3, <3>1, <3>2 DEF AccountTypeOK
    <2>2. BillingTypeOK
      BY <1>2, <1>5, <1>6 DEF BillingTypeOK, Dates, Bases
    <2> QED BY <1>4, <1>5, <1>6, <2>1, <2>2 DEF BillingTypes
  <1>8. BillingTasks
    BY <1>1 DEF BillingTasks, BillingTask
  <1>9. MirrorPaid /\ SourcesPaid
    BY <1>3, <1>4, <1>5, <1>6 DEF MirrorPaid, SourcesPaid
  <1>10. ~Open
    BY <1>3 DEF Open, Active, IsSubscriptionActive
  <1>11. Open = FALSE
    BY <1>10 DEF Open
  <1> QED BY <1>1, <1>2, <1>7, <1>8, <1>9, <1>11 DEF BillingInv, Access!Init

\* What the invariant says of the gate.
LEMMA OpenIsPaid == BillingInv => (Open => now < paidThrough)
  BY AccountAssumption
     DEF BillingInv, BillingTypes, AccountTypeOK, BillingTypeOK, ProfileType, MirrorPaid, Open, Backed,
         Active, IsSubscriptionActive

\* A step of billing is a step of PaidAccess, or none.
LEMMA BillingRefines ==
  ASSUME BillingInv, BillingInv', PaidTimeGrows \/ MonthPasses
  PROVE  Access!Next \/ UNCHANGED Access!vars
  <1>1. Open \in BOOLEAN /\ Open' \in BOOLEAN
    BY DEF Open, Backed, Active, IsSubscriptionActive
  <1>2. Open => now < paidThrough
    BY OpenIsPaid
  <1>3. Open' => now' < paidThrough'
    BY AccountAssumption
       DEF BillingInv, BillingTypes, AccountTypeOK, BillingTypeOK, ProfileType, MirrorPaid, Open, Backed,
           Active, IsSubscriptionActive
  <1>4. now \in Nat /\ paidThrough \in Nat /\ paidThrough' \in Nat /\ profile \in ProfileType
    BY AccountAssumption DEF BillingInv, BillingTypes, AccountTypeOK, BillingTypeOK
  <1>5. CASE PaidTimeGrows /\ paidThrough' = paidThrough /\ Open'
    <2>1. now < paidThrough /\ UNCHANGED <<now, paidThrough>> /\ Open' = TRUE
      BY <1>1, <1>3, <1>5 DEF PaidTimeGrows
    <2> QED BY <2>1 DEF Access!Next, Access!Admit
  <1>6. CASE PaidTimeGrows /\ paidThrough' = paidThrough /\ ~Open'
    <2>1. UNCHANGED <<now, paidThrough>> /\ Open' = FALSE
      BY <1>1, <1>6 DEF PaidTimeGrows
    <2> QED BY <2>1 DEF Access!Next, Access!Bar
  <1>7. CASE PaidTimeGrows /\ paidThrough' # paidThrough
    <2>1. /\ paidThrough' > paidThrough /\ paidThrough' > now /\ UNCHANGED now
          /\ Open => Open'
      BY <1>7 DEF PaidTimeGrows
    <2>2. Open' \in {Open, TRUE}
      BY <1>1, <2>1
    <2> QED BY <1>4, <2>1, <2>2 DEF Access!Next, Access!Pay
  <1>8. CASE MonthPasses
    <2>1. now' = now + 1 /\ UNCHANGED <<profile, paidThrough, basis>>
      BY <1>8 DEF MonthPasses
    <2>2. Open' => Open
      BY <1>4, <2>1, AccountAssumption DEF Open, Backed, Active, IsSubscriptionActive, ProfileType
    <2> QED BY <1>1, <1>3, <2>1, <2>2 DEF Access!Next, Access!Tick
  <1> QED BY <1>5, <1>6, <1>7, <1>8 DEF PaidTimeGrows

\* isSubscriptionActive, read from a mirror that the status screen, the
\* subscribe button, the store sync and both webhooks write from snapshots of
\* any age, implements the gate of PaidAccess: as far as it rests on Stripe, or on
\* a date RevenueCat named, it is open only in time that was paid for and closes
\* by itself, whatever the client says it has bought, for any number of requests,
\* subscriptions and events.
THEOREM SubscriptionsImplementPaidAccess == SubscriptionsSpec => ImplementsPaidAccess
  <1>1. SubscriptionsInit => BillingInv /\ Access!Init
    BY BillingInitInv
  <1>2. BillingInv /\ [BillingNext]_subscriptionVars
          => BillingInv' /\ [Access!Next]_(Access!vars)
    <2> SUFFICES ASSUME BillingInv, [BillingNext]_subscriptionVars
                 PROVE  BillingInv' /\ [Access!Next]_(Access!vars)
      OBVIOUS
    <2>1. CASE BillingNext
      BY <2>1, BillingKept, BillingRefines
    <2>2. CASE UNCHANGED subscriptionVars
      <3>1. UNCHANGED <<now, profile, suspended, task, customer, sub, events, notices, store,
                        storeEvents, paidThrough, basis>>
        BY <2>2 DEF subscriptionVars, account, billing, stripe, revenueCat
      <3>2. BillingInv'
        BY <3>1 DEF BillingInv, Pool, BillingTypes, AccountTypeOK, BillingTypeOK, BillingTasks,
                    BillingTask, MirrorPaid, Backed, SourcesPaid, SnapshotPaid, VerdictPaid, DatePaid
      <3>3. UNCHANGED Access!vars
        BY <3>1 DEF Access!vars, Open, Backed, Active, IsSubscriptionActive
      <3> QED BY <3>2, <3>3
    <2> QED BY <2>1, <2>2
  <1> QED BY <1>1, <1>2, PTL DEF SubscriptionsSpec, ImplementsPaidAccess, Access!Spec

-----------------------------------------------------------------------------
(* Listings: the shape of a category, and who may be shown *)

\* What validateCategoryShape says of the fields an edit sets: it judges every
\* field by itself.
EditFits(dto, category) ==
    /\ category = "FAIT_MAISON" =>
         /\ "price" \in DOMAIN dto => dto["price"] = "low"
         /\ "portions" \in DOMAIN dto => dto["portions"] # Null
         /\ "expiresAt" \in DOMAIN dto => dto["expiresAt"] # Null
    /\ "dishType" \in DOMAIN dto =>
         (dto["dishType"] # Null => dto["dishType"] \in DishTypes(category))

\* What the listing requests in flight carry.
ListingTask(k) ==
    /\ k.pc = "insertListing" =>
         profile.hasFee /\ CategoryShape(k.arg.draft, k.arg.category)
    /\ k.pc = "readListing" => k.arg.listing \in ListingIds
    /\ k.pc = "writeUpdate" =>
         /\ k.arg.listing \in ListingIds
         /\ listing[k.arg.listing].row # "none"
         /\ EditFits(k.arg.dto, listing[k.arg.listing].category)
    /\ k.pc = "setAvailable" =>
         k.arg.listing \in ListingIds /\ listing[k.arg.listing].row # "none"
    /\ k.pc = "delete" => k.arg \in ListingIds /\ listing[k.arg].row # "none"
ListingTasks == \A t \in Tasks : ListingTask(task[t])

ListingColumns == {"row", "available", "category", "shape"}
ListingTypes ==
    /\ DOMAIN listing = ListingIds
    /\ \A l \in ListingIds : DOMAIN listing[l] = ListingColumns
    /\ bookmarks \subseteq ListingIds

\* Whoever has a category, or has published, has a delivery fee.
FeeSet ==
    /\ profile.category # "none" => profile.hasFee
    /\ \A l \in ListingIds : listing[l].row # "none" => profile.hasFee

ListingsInv ==
    /\ ListingTypes
    /\ ListingTasks
    /\ CategoryShapeKept
    /\ FeeSet

\* An edit that passed validateCategoryShape fits its category by itself.
LEMMA ValidEditFits ==
  ASSUME NEW shape, NEW dto, NEW category, CategoryShape(Merged(shape, dto), category)
  PROVE  EditFits(dto, category)
  <1> DEFINE m == Merged(shape, dto)
  <1>1. \A f \in Fields : m[f] = IF f \in DOMAIN dto THEN dto[f] ELSE shape[f]
    BY DEF Merged
  <1>2. CategoryShape(m, category)
    OBVIOUS
  <1> HIDE DEF m
  <1> QED BY <1>1, <1>2 DEF CategoryShape, EditFits, Fields

\* An edit that fits may be applied to whatever the listing has become meanwhile.
LEMMA FittingEditKeepsShape ==
  ASSUME NEW shape, NEW dto, NEW category, CategoryShape(shape, category), EditFits(dto, category)
  PROVE  CategoryShape(Merged(shape, dto), category)
  <1> DEFINE m == Merged(shape, dto)
  <1>1. \A f \in Fields : m[f] = IF f \in DOMAIN dto THEN dto[f] ELSE shape[f]
    BY DEF Merged
  <1> HIDE DEF m
  <1>2. CategoryShape(m, category)
    BY <1>1 DEF CategoryShape, EditFits, Fields
  <1> QED BY <1>2 DEF m

\* A published listing keeps its category and never goes back to not existing.
Published(l) == listing[l].row # "none" => listing'[l].row # "none"
                                           /\ listing'[l].category = listing[l].category

\* The listing requests a step does not move keep what they carry.
LEMMA ListingTaskKept ==
  ASSUME NEW u \in Tasks, ListingTask(task[u]), task'[u] = task[u],
         profile.hasFee => profile'.hasFee, \A l \in ListingIds : Published(l)
  PROVE  ListingTask(task[u])'
  BY DEF ListingTask, Published

\* A step of ListingsService: overlapping edits, publications and withdrawals.
LEMMA ListingsKept ==
  ASSUME Pool, ListingsInv, ListingsNext
  PROVE  ListingsInv'
  <1>0. UNCHANGED <<now, profile, suspended>>
    BY ListingsMoves
  <1>1. ASSUME NEW t \in Tasks, OnlyMoves(t), \A l \in ListingIds : Published(l),
               ListingTask(task[t])'
        PROVE  ListingTasks'
    <2> SUFFICES ASSUME NEW u \in Tasks PROVE ListingTask(task[u])'
      BY DEF ListingTasks
    <2>1. CASE u = t
      BY <1>1, <2>1
    <2>2. CASE u # t
      BY <1>0, <1>1, <2>2, ListingTaskKept DEF OnlyMoves, ListingsInv, ListingTasks
    <2> QED BY <2>1, <2>2
  <1>2. ASSUME UNCHANGED <<listing, bookmarks>>, ListingTasks'
        PROVE  ListingsInv'
    BY <1>0, <1>2 DEF ListingsInv, ListingTypes, CategoryShapeKept, FeeSet
  <1>3. ASSUME NEW t \in Tasks, UNCHANGED listings, NEW pc, NEW arg, Goto(t, pc, arg),
               ListingTask([pc |-> pc, arg |-> arg])
        PROVE  ListingsInv'
    <2>1. UNCHANGED <<listing, bookmarks>> /\ \A l \in ListingIds : Published(l)
      BY <1>3 DEF listings, Published
    <2>2. task'[t].pc = pc /\ task'[t].arg = arg /\ OnlyMoves(t)
      BY <1>3, GotoSlot
    <2>3. ListingTask(task[t])'
      BY <1>0, <1>3, <2>1, <2>2 DEF ListingTask
    <2> QED BY <1>1, <1>2, <2>1, <2>2, <2>3
  <1>4. ASSUME NEW t \in Tasks, Done(t), NEW l \in ListingIds, NEW x,
               listing' = [listing EXCEPT ![l] = x], UNCHANGED bookmarks,
               DOMAIN x = ListingColumns, x.row # "none", CategoryShape(x.shape, x.category),
               listing[l].row # "none" => x.category = listing[l].category,
               profile.hasFee
        PROVE  ListingsInv'
    <2>1. task'[t].pc = "idle" /\ OnlyMoves(t)
      BY <1>4, DoneSlot
    <2>2. /\ DOMAIN listing' = ListingIds
          /\ \A m \in ListingIds : listing'[m] = IF m = l THEN x ELSE listing[m]
      BY <1>4 DEF ListingsInv, ListingTypes
    <2>3. \A m \in ListingIds : Published(m)
      BY <1>4, <2>2 DEF Published
    <2>4. ListingTask(task[t])'
      BY <2>1 DEF ListingTask
    <2>5. ListingTypes' /\ FeeSet'
      BY <1>0, <1>4, <2>2 DEF ListingsInv, ListingTypes, FeeSet
    <2>6. CategoryShapeKept'
      BY <1>4, <2>2 DEF ListingsInv, CategoryShapeKept
    <2> QED BY <1>1, <2>1, <2>3, <2>4, <2>5, <2>6 DEF ListingsInv
  <1>5. ASSUME NEW t \in Tasks, NEW draft \in Drafts, Create(t, draft)
        PROVE  ListingsInv'
    <2> DEFINE arg == [category |-> profile.category, draft |-> draft]
    <2>1. /\ Goto(t, "insertListing", arg) /\ UNCHANGED listings
          /\ CategoryShape(draft, profile.category) /\ profile.category # "none"
      BY <1>5 DEF Create
    <2>2. arg.category = profile.category /\ arg.draft = draft
      OBVIOUS
    <2> HIDE DEF arg
    <2>3. ListingTask([pc |-> "insertListing", arg |-> arg])
      BY <2>1, <2>2 DEF ListingTask, ListingsInv, FeeSet
    <2> QED BY <1>3, <2>1, <2>3
  <1>6. ASSUME NEW t \in Tasks, NEW l \in ListingIds,
               \/ \E dto \in Edits : Update(t, l, dto)
               \/ \E available \in BOOLEAN : SetAvailability(t, l, available)
               \/ SoftDelete(t, l)
        PROVE  ListingsInv'
    <2>1. UNCHANGED listings
      BY <1>6 DEF Update, SetAvailability, SoftDelete
    <2>2. CASE \E dto \in Edits : Update(t, l, dto)
      <3>1. PICK arg : Goto(t, "readListing", arg) /\ arg.listing = l
        BY <2>2 DEF Update
      <3>2. ListingTask([pc |-> "readListing", arg |-> arg])
        BY <3>1 DEF ListingTask
      <3> QED BY <1>3, <2>1, <3>1, <3>2
    <2>3. CASE \E available \in BOOLEAN : SetAvailability(t, l, available)
      <3>1. PICK arg : Goto(t, "setAvailable", arg) /\ arg.listing = l
        BY <2>3 DEF SetAvailability
      <3>2. listing[l].row # "none"
        BY <2>3 DEF SetAvailability
      <3>3. ListingTask([pc |-> "setAvailable", arg |-> arg])
        BY <3>1, <3>2 DEF ListingTask
      <3> QED BY <1>3, <2>1, <3>1, <3>3
    <2>4. CASE SoftDelete(t, l)
      <3>1. Goto(t, "delete", l) /\ listing[l].row # "none"
        BY <2>4 DEF SoftDelete
      <3>2. ListingTask([pc |-> "delete", arg |-> l])
        BY <3>1 DEF ListingTask
      <3> QED BY <1>3, <2>1, <3>1, <3>2
    <2> QED BY <1>6, <2>2, <2>3, <2>4
  <1>7. ASSUME NEW t \in Tasks, InsertListing(t)
        PROVE  ListingsInv'
    <2>1. /\ profile.hasFee /\ CategoryShape(task[t].arg.draft, task[t].arg.category)
          /\ Done(t) /\ UNCHANGED bookmarks
      BY <1>7 DEF InsertListing, At, ListingsInv, ListingTasks, ListingTask
    <2>2. PICK l \in ListingIds, available \in BOOLEAN :
            /\ listing[l].row = "none"
            /\ listing' = [listing EXCEPT ![l] =
                 [row |-> "live", available |-> available, category |-> task[t].arg.category,
                  shape |-> [f \in Fields |-> task[t].arg.draft[f]]]]
      BY <1>7 DEF InsertListing
    <2> DEFINE shape == [f \in Fields |-> task[t].arg.draft[f]]
               x == [row |-> "live", available |-> available, category |-> task[t].arg.category,
                     shape |-> shape]
    <2>3. CategoryShape(shape, task[t].arg.category)
      <3>1. \A f \in Fields : shape[f] = task[t].arg.draft[f]
        OBVIOUS
      <3> HIDE DEF shape
      <3> QED BY <2>1, <3>1 DEF CategoryShape, Fields
    <2> HIDE DEF shape
    <2>4. /\ DOMAIN x = ListingColumns /\ x.row # "none" /\ x.shape = shape
          /\ x.category = task[t].arg.category
      BY DEF ListingColumns
    <2>5. listing' = [listing EXCEPT ![l] = x]
      BY <2>2 DEF shape
    <2> HIDE DEF x
    <2> QED BY <1>4, <2>1, <2>2, <2>3, <2>4, <2>5
  <1>8. ASSUME NEW t \in Tasks, ValidateUpdate(t)
        PROVE  ListingsInv'
    <2> DEFINE arg == task[t].arg
    <2>1. UNCHANGED listings /\ arg.listing \in ListingIds
      BY <1>8 DEF ValidateUpdate, At, ListingsInv, ListingTasks, ListingTask
    <2>2. CASE Done(t)
      <3>1. ListingTask([pc |-> "idle", arg |-> NoArg])
        BY DEF ListingTask
      <3> QED BY <1>3, <2>1, <2>2, <3>1 DEF Done
    <2>3. CASE /\ listing[arg.listing].row = "live"
               /\ CategoryShape(Merged(listing[arg.listing].shape, arg.dto),
                                listing[arg.listing].category)
               /\ Goto(t, "writeUpdate", arg)
      <3>1. EditFits(arg.dto, listing[arg.listing].category)
        BY <2>3, ValidEditFits
      <3> HIDE DEF arg
      <3>2. ListingTask([pc |-> "writeUpdate", arg |-> arg])
        BY <2>1, <2>3, <3>1 DEF ListingTask
      <3> QED BY <1>3, <2>1, <2>3, <3>2
    <2> QED BY <1>8, <2>2, <2>3 DEF ValidateUpdate
  <1>9. ASSUME NEW t \in Tasks, WriteUpdate(t)
        PROVE  ListingsInv'
    <2> DEFINE l == task[t].arg.listing
               dto == task[t].arg.dto
    <2>1. /\ l \in ListingIds /\ listing[l].row # "none"
          /\ EditFits(dto, listing[l].category)
          /\ Done(t) /\ UNCHANGED bookmarks
      BY <1>9 DEF WriteUpdate, At, ListingsInv, ListingTasks, ListingTask
    <2>2. PICK available \in BOOLEAN :
            listing' = [listing EXCEPT ![l].shape = Merged(@, dto), ![l].available = available]
      BY <1>9 DEF WriteUpdate
    <2> DEFINE x == [listing[l] EXCEPT !.shape = Merged(@, dto), !.available = available]
    <2>3. DOMAIN listing = ListingIds /\ DOMAIN listing[l] = ListingColumns
      BY <2>1 DEF ListingsInv, ListingTypes
    <2>4. listing' = [listing EXCEPT ![l] = x]
      BY <2>1, <2>2, <2>3
    <2>5. /\ DOMAIN x = ListingColumns /\ x.row = listing[l].row
          /\ x.category = listing[l].category /\ x.shape = Merged(listing[l].shape, dto)
      BY <2>3 DEF ListingColumns
    <2>6. CategoryShape(Merged(listing[l].shape, dto), listing[l].category)
      BY <2>1, FittingEditKeepsShape DEF ListingsInv, CategoryShapeKept
    <2>7. profile.hasFee
      BY <2>1 DEF ListingsInv, FeeSet
    <2> HIDE DEF x, l, dto
    <2> QED BY <1>4, <2>1, <2>4, <2>5, <2>6, <2>7
  <1>10. ASSUME NEW t \in Tasks, WriteAvailability(t) \/ WriteDelete(t)
         PROVE  ListingsInv'
    <2> DEFINE l == IF At(t, "delete") THEN task[t].arg ELSE task[t].arg.listing
               gone == [listing[l] EXCEPT !.row = "deleted", !.available = FALSE]
               kept == [listing[l] EXCEPT !.available = task[t].arg.available]
    <2>1. l \in ListingIds /\ listing[l].row # "none" /\ Done(t) /\ UNCHANGED bookmarks
      BY <1>10 DEF WriteAvailability, WriteDelete, At, ListingsInv, ListingTasks, ListingTask
    <2>2. /\ DOMAIN listing = ListingIds /\ DOMAIN listing[l] = ListingColumns
          /\ CategoryShape(listing[l].shape, listing[l].category) /\ profile.hasFee
      BY <2>1 DEF ListingsInv, ListingTypes, CategoryShapeKept, FeeSet
    <2>3. CASE WriteDelete(t)
      <3>1. listing' = [listing EXCEPT ![l] = gone]
        BY <2>1, <2>2, <2>3 DEF WriteDelete
      <3>2. /\ DOMAIN gone = ListingColumns /\ gone.row # "none" /\ gone.shape = listing[l].shape
            /\ gone.category = listing[l].category
        BY <2>2 DEF ListingColumns
      <3> HIDE DEF gone, l
      <3> QED BY <1>4, <2>1, <2>2, <3>1, <3>2
    <2>4. CASE WriteAvailability(t)
      <3>0. l = task[t].arg.listing
        BY <2>4 DEF WriteAvailability, At
      <3>1. listing' = [listing EXCEPT ![l] = kept]
        BY <2>1, <2>2, <2>4, <3>0 DEF WriteAvailability
      <3>2. /\ DOMAIN kept = ListingColumns /\ kept.row # "none" /\ kept.shape = listing[l].shape
            /\ kept.category = listing[l].category
        BY <2>1, <2>2 DEF ListingColumns
      <3> HIDE DEF kept, l
      <3> QED BY <1>4, <2>1, <2>2, <3>1, <3>2
    <2> QED BY <1>10, <2>3, <2>4
  <1>11. ASSUME NEW l \in ListingIds, AddBookmark(l) \/ RemoveBookmark(l)
         PROVE  ListingsInv'
    <2>1. UNCHANGED <<listing, task>> /\ bookmarks' \subseteq ListingIds
      BY <1>11 DEF AddBookmark, RemoveBookmark, ListingsInv, ListingTypes
    <2>2. ListingTasks'
      BY <1>0, <2>1 DEF ListingsInv, ListingTasks, ListingTask
    <2> QED BY <1>0, <2>1, <2>2 DEF ListingsInv, ListingTypes, CategoryShapeKept, FeeSet
  <1> QED BY <1>5, <1>6, <1>7, <1>8, <1>9, <1>10, <1>11 DEF ListingsNext, ListingsStep

-----------------------------------------------------------------------------
(* Verification: the KYC status and the reviews *)

Decisions == {"APPROVED", "REJECTED"}
KycStates == {"PENDING", "APPROVED", "REJECTED"}

\* What the verification requests in flight carry.
VerificationTask(k) ==
    /\ k.pc = "writeProfile" =>
         /\ k.arg.category \in SellerCategories
         /\ k.arg.approve => k.arg.category = "FAIT_MAISON"
    /\ k.pc = "upload" => k.arg.doc \in DocTypes /\ k.arg.id \in IdTypes
    /\ k.pc \in {"decide", "commitDecision"} =>
         k.arg.doc \in DocTypes /\ k.arg.state \in Decisions /\ docs[k.arg.doc] # "none"
    /\ k.pc = "commitDecision" => k.arg.agg \in KycStates
VerificationTasks == \A t \in Tasks : VerificationTask(task[t])

VerificationInv == VerificationTypeOK /\ VerificationTasks

\* The columns that only Subscriptions writes.
BillingColumnsKept ==
    profile'.status = profile.status /\ profile'.end = profile.end

\* What the wizard and the reviews do to the profile.
FeeKept ==
    /\ profile.hasFee => profile'.hasFee
    /\ profile'.category = profile.category \/ profile'.hasFee

\* A verification request that a step does not move keeps what it carries:
\* documents are never removed.
LEMMA VerificationTaskKept ==
  ASSUME NEW u \in Tasks, VerificationTask(task[u]), task'[u] = task[u],
         \A d \in DocTypes : docs[d] # "none" => docs'[d] # "none"
  PROVE  VerificationTask(task[u])'
  BY DEF VerificationTask

\* A step of verification keeps the types of its own state and of the profile,
\* the subscription's columns and the delivery fee.
LEMMA VerificationKept ==
  ASSUME Pool, profile \in ProfileType, VerificationInv, VerificationNext
  PROVE  /\ VerificationInv'
         /\ profile' \in ProfileType
         /\ BillingColumnsKept
         /\ FeeKept
  <1> USE VerificationAssumption
  <1>1. ASSUME NEW t \in Tasks, OnlyMoves(t),
               \A d \in DocTypes : docs[d] # "none" => docs'[d] # "none",
               VerificationTask(task[t])'
        PROVE  VerificationTasks'
    <2> SUFFICES ASSUME NEW u \in Tasks PROVE VerificationTask(task[u])'
      BY DEF VerificationTasks
    <2>1. CASE u = t
      BY <1>1, <2>1
    <2>2. CASE u # t
      BY <1>1, <2>2, VerificationTaskKept DEF OnlyMoves, VerificationInv, VerificationTasks
    <2> QED BY <2>1, <2>2
  <1>2. UNCHANGED profile => profile' \in ProfileType /\ BillingColumnsKept /\ FeeKept
    BY DEF BillingColumnsKept, FeeKept
  <1>3. ASSUME NEW t \in Tasks, UNCHANGED <<account, verification>>, NEW pc, NEW arg,
               Goto(t, pc, arg), VerificationTask([pc |-> pc, arg |-> arg])
        PROVE  /\ VerificationInv' /\ profile' \in ProfileType
               /\ BillingColumnsKept /\ FeeKept
    <2>1. UNCHANGED <<profile, role, docs, idType, vehicle, steps>>
      BY <1>3 DEF account, verification
    <2>2. task'[t].pc = pc /\ task'[t].arg = arg /\ OnlyMoves(t)
      BY <1>3, GotoSlot
    <2>3. VerificationTask(task[t])'
      BY <1>3, <2>1, <2>2 DEF VerificationTask
    <2>4. VerificationTasks'
      BY <1>1, <2>1, <2>2, <2>3
    <2>5. VerificationTypeOK'
      BY <2>1 DEF VerificationInv, VerificationTypeOK
    <2> QED BY <1>2, <2>1, <2>4, <2>5 DEF VerificationInv
  <1>4. ASSUME NEW t \in Tasks, Done(t),
               \A d \in DocTypes : docs[d] # "none" => docs'[d] # "none"
        PROVE  VerificationTasks'
    <2>1. task'[t].pc = "idle" /\ OnlyMoves(t)
      BY <1>4, DoneSlot
    <2>2. VerificationTask(task[t])'
      BY <2>1 DEF VerificationTask
    <2> QED BY <1>1, <1>4, <2>1, <2>2
  <1>5. ASSUME NEW t \in Tasks, NEW c \in SellerCategories, UpsertProfile(t, c)
        PROVE  /\ VerificationInv' /\ profile' \in ProfileType
               /\ BillingColumnsKept /\ FeeKept
    <2>1. PICK arg : /\ Goto(t, "writeProfile", arg) /\ UNCHANGED <<account, verification>>
                     /\ arg = [category |-> c,
                               approve |-> c = "FAIT_MAISON" /\ profile.kyc = "PENDING"]
      BY <1>5 DEF UpsertProfile
    <2>2. arg.category = c /\ (arg.approve => c = "FAIT_MAISON")
      BY <2>1
    <2>3. VerificationTask([pc |-> "writeProfile", arg |-> arg])
      BY <2>2 DEF VerificationTask
    <2> QED BY <1>3, <2>1, <2>3
  <1>6. ASSUME NEW t \in Tasks, NEW d \in DocTypes, NEW id \in IdTypes, UploadDocument(t, d, id)
        PROVE  /\ VerificationInv' /\ profile' \in ProfileType
               /\ BillingColumnsKept /\ FeeKept
    <2>1. PICK arg : /\ Goto(t, "upload", arg) /\ UNCHANGED <<account, verification>>
                     /\ arg.doc = d /\ arg.id = id
      BY <1>6 DEF UploadDocument
    <2>2. VerificationTask([pc |-> "upload", arg |-> arg])
      BY <2>1 DEF VerificationTask
    <2> QED BY <1>3, <2>1, <2>2
  <1>7. ASSUME NEW t \in Tasks, NEW d \in DocTypes, NEW state \in Decisions, Decide(t, d, state)
        PROVE  /\ VerificationInv' /\ profile' \in ProfileType
               /\ BillingColumnsKept /\ FeeKept
    <2>1. PICK arg : /\ Goto(t, "decide", arg) /\ UNCHANGED <<account, verification>>
                     /\ arg.doc = d /\ arg.state = state
      BY <1>7 DEF Decide
    <2>2. docs[d] # "none"
      BY <1>7 DEF Decide
    <2>3. VerificationTask([pc |-> "decide", arg |-> arg])
      BY <2>1, <2>2 DEF VerificationTask
    <2> QED BY <1>3, <2>1, <2>3
  <1>8. ASSUME NEW t \in Tasks, WriteProfile(t)
        PROVE  /\ VerificationInv' /\ profile' \in ProfileType
               /\ BillingColumnsKept /\ FeeKept
    <2> DEFINE a == task[t].arg
               kyc == IF a.approve THEN "APPROVED" ELSE profile.kyc
    <2>1. /\ a.category \in Categories /\ Done(t)
          /\ UNCHANGED <<role, docs, idType, vehicle, steps>>
          /\ profile' = [profile EXCEPT !.category = a.category, !.hasFee = TRUE, !.kyc = kyc]
      BY <1>8 DEF WriteProfile, At, VerificationInv, VerificationTasks, VerificationTask, Categories
    <2>2. kyc \in KycStates
      BY DEF ProfileType, KycStates
    <2> HIDE DEF a, kyc
    <2>3. profile' \in ProfileType /\ BillingColumnsKept /\ FeeKept
      BY <2>1, <2>2 DEF ProfileType, BillingColumnsKept, FeeKept, KycStates
    <2>4. VerificationInv'
      BY <1>4, <2>1 DEF VerificationInv, VerificationTypeOK
    <2> QED BY <2>3, <2>4
  <1>9. ASSUME NEW t \in Tasks, CommitUpload(t)
        PROVE  /\ VerificationInv' /\ profile' \in ProfileType
               /\ BillingColumnsKept /\ FeeKept
    <2> DEFINE a == task[t].arg
    <2>1. /\ a.doc \in DocTypes /\ a.id \in IdTypes /\ Done(t)
          /\ docs' = [docs EXCEPT ![a.doc] = "PENDING"]
          /\ idType' = IF a.doc = "ID_FRONT" THEN a.id ELSE idType
          /\ profile' = IF a.rejected THEN [profile EXCEPT !.kyc = "PENDING"] ELSE profile
          /\ UNCHANGED <<role, vehicle, steps>>
      BY <1>9 DEF CommitUpload, At, VerificationInv, VerificationTasks, VerificationTask
    <2> HIDE DEF a
    <2>2. VerificationTypeOK' /\ \A d \in DocTypes : docs[d] # "none" => docs'[d] # "none"
      BY <2>1 DEF VerificationInv, VerificationTypeOK
    <2>3. profile' \in ProfileType /\ BillingColumnsKept /\ FeeKept
      BY <2>1 DEF ProfileType, BillingColumnsKept, FeeKept
    <2> QED BY <1>4, <2>1, <2>2, <2>3 DEF VerificationInv
  <1>10. ASSUME NEW t \in Tasks, AggregateDecision(t)
         PROVE  /\ VerificationInv' /\ profile' \in ProfileType
                /\ BillingColumnsKept /\ FeeKept
    <2> DEFINE a == task[t].arg
    <2>1. /\ a.doc \in DocTypes /\ a.state \in Decisions /\ docs[a.doc] # "none"
          /\ UNCHANGED <<account, verification>>
      BY <1>10 DEF AggregateDecision, At, VerificationInv, VerificationTasks, VerificationTask
    <2>2. PICK arg : /\ Goto(t, "commitDecision", arg)
                     /\ arg = [doc |-> a.doc, state |-> a.state,
                               agg |-> AggregateState(StatesWith(a.doc, a.state))]
      BY <1>10 DEF AggregateDecision
    <2>3. AggregateState(StatesWith(a.doc, a.state)) \in KycStates
      BY DEF AggregateState, KycStates
    <2>4. arg.doc = a.doc /\ arg.state = a.state /\ arg.agg \in KycStates
      BY <2>2, <2>3
    <2> HIDE DEF a
    <2>5. VerificationTask([pc |-> "commitDecision", arg |-> arg])
      BY <2>1, <2>4 DEF VerificationTask
    <2> QED BY <1>3, <2>1, <2>2, <2>5
  <1>11. ASSUME NEW t \in Tasks, CommitDecision(t)
         PROVE  /\ VerificationInv' /\ profile' \in ProfileType
                /\ BillingColumnsKept /\ FeeKept
    <2> DEFINE a == task[t].arg
    <2>1. /\ a.doc \in DocTypes /\ a.state \in Decisions /\ a.agg \in KycStates /\ Done(t)
          /\ docs' = [docs EXCEPT ![a.doc] = a.state]
          /\ profile' = [profile EXCEPT !.kyc = a.agg]
          /\ UNCHANGED <<role, idType, vehicle, steps>>
      BY <1>11 DEF CommitDecision, At, VerificationInv, VerificationTasks, VerificationTask
    <2> HIDE DEF a
    <2>2. VerificationTypeOK' /\ \A d \in DocTypes : docs[d] # "none" => docs'[d] # "none"
      BY <2>1 DEF VerificationInv, VerificationTypeOK, Decisions
    <2>3. profile' \in ProfileType /\ BillingColumnsKept /\ FeeKept
      BY <2>1 DEF ProfileType, BillingColumnsKept, FeeKept, KycStates
    <2> QED BY <1>4, <2>1, <2>2, <2>3 DEF VerificationInv
  <1>12. CASE UpsertBusiness \/ UpsertCuisines \/ UpsertZones \/ \E v \in Vehicles : UpsertVehicle(v)
    <2>1. UNCHANGED <<profile, role, docs, idType, task>>
      BY <1>12 DEF UpsertBusiness, UpsertCuisines, UpsertZones, UpsertVehicle, StepDone, account
    <2>2. /\ vehicle' \in Vehicles \cup {"none"}
          /\ steps' \subseteq {"business", "cuisines", "zones"}
      BY <1>12 DEF UpsertBusiness, UpsertCuisines, UpsertZones, UpsertVehicle, StepDone,
             VerificationInv, VerificationTypeOK
    <2>3. VerificationTypeOK'
      BY <2>1, <2>2 DEF VerificationInv, VerificationTypeOK
    <2>4. VerificationTasks'
      BY <2>1 DEF VerificationInv, VerificationTasks, VerificationTask
    <2> QED BY <1>2, <2>1, <2>3, <2>4 DEF VerificationInv
  <1> QED BY <1>5, <1>6, <1>7, <1>8, <1>9, <1>10, <1>11, <1>12
          DEF VerificationNext, VerificationStep, Decisions

\* With one review at a time: the status a review is about to write is the one
\* its documents ask for, whatever was uploaded since it was computed.
ReviewPcs == {"decide", "commitDecision"}
OneReview ==
    \A t, u \in Tasks : task[t].pc \in ReviewPcs /\ task[u].pc \in ReviewPcs => t = u
Decided(k, d) == IF d = k.arg.doc THEN k.arg.state ELSE docs[d]
AggregateCurrent(k) ==
    k.pc = "commitDecision" =>
      /\ (\A d \in Uploaded : Decided(k, d) = "APPROVED") => k.arg.agg = "APPROVED"
      /\ k.arg.agg = "APPROVED" => \A d \in Uploaded : Decided(k, d) # "REJECTED"
ReviewInv ==
    /\ OneReview
    /\ \A t \in Tasks : AggregateCurrent(task[t])
    /\ wasHome \in BOOLEAN
    /\ KycFollowsReviews

\* A document that is uploaded again awaits its review, so that no user is
\* approved by it, and none is rejected by it either.
LEMMA UploadKeepsReviews ==
  ASSUME Pool, profile \in ProfileType, VerificationInv, ReviewInv,
         NEW t \in Tasks, CommitUpload(t)
  PROVE  ReviewInv'
  <1> DEFINE a == task[t].arg
  <1>1. /\ a.doc \in DocTypes /\ Done(t) /\ task[t].pc = "upload"
        /\ docs' = [docs EXCEPT ![a.doc] = "PENDING"]
        /\ profile' = IF a.rejected THEN [profile EXCEPT !.kyc = "PENDING"] ELSE profile
        /\ UNCHANGED wasHome
    BY DEF CommitUpload, At, VerificationInv, VerificationTasks, VerificationTask
  <1> HIDE DEF a
  <1>2. task'[t].pc = "idle" /\ OnlyMoves(t)
    BY <1>1, DoneSlot
  <1>3. \A d \in DocTypes : docs'[d] = IF d = a.doc THEN "PENDING" ELSE docs[d]
    BY <1>1 DEF VerificationInv, VerificationTypeOK
  <1>4. OneReview'
    BY <1>2 DEF ReviewInv, OneReview, OnlyMoves, ReviewPcs
  <1>5. ASSUME NEW u \in Tasks PROVE AggregateCurrent(task[u])'
    <2>1. CASE u = t
      BY <1>2, <2>1 DEF AggregateCurrent
    <2>2. CASE u # t
      <3>1. task'[u] = task[u] /\ AggregateCurrent(task[u]) /\ VerificationTask(task[u])
        BY <1>2, <2>2 DEF OnlyMoves, ReviewInv, VerificationInv, VerificationTasks
      <3> QED BY <1>1, <1>3, <3>1
              DEF AggregateCurrent, Decided, Uploaded, VerificationTask
    <2> QED BY <2>1, <2>2
  <1>6. profile'.kyc = profile.kyc \/ profile'.kyc = "PENDING"
    BY <1>1 DEF ProfileType
  <1>7. KycFollowsReviews'
    BY <1>1, <1>3, <1>6 DEF ReviewInv, KycFollowsReviews, Uploaded
  <1> QED BY <1>1, <1>4, <1>5, <1>7 DEF ReviewInv

\* The decision: the document and the status are written together.
LEMMA DecisionKeepsReviews ==
  ASSUME Pool, profile \in ProfileType, VerificationInv, ReviewInv,
         NEW t \in Tasks, CommitDecision(t)
  PROVE  ReviewInv'
  <1> DEFINE a == task[t].arg
  <1>1. /\ a.doc \in DocTypes /\ a.state \in Decisions /\ docs[a.doc] # "none"
        /\ Done(t) /\ task[t].pc = "commitDecision"
        /\ docs' = [docs EXCEPT ![a.doc] = a.state]
        /\ profile' = [profile EXCEPT !.kyc = a.agg]
        /\ UNCHANGED wasHome
    BY DEF CommitDecision, At, VerificationInv, VerificationTasks, VerificationTask
  <1>2. task'[t].pc = "idle" /\ OnlyMoves(t)
    BY <1>1, DoneSlot
  <1>3. \A d \in DocTypes : docs'[d] = Decided(task[t], d)
    BY <1>1 DEF VerificationInv, VerificationTypeOK, Decided
  <1>4. \A u \in Tasks : task'[u].pc \notin ReviewPcs
    BY <1>1, <1>2 DEF ReviewInv, OneReview, OnlyMoves, ReviewPcs
  <1>5. OneReview' /\ \A u \in Tasks : AggregateCurrent(task[u])'
    BY <1>4 DEF OneReview, AggregateCurrent, ReviewPcs
  <1>6. Uploaded' = Uploaded
    BY <1>1, <1>3 DEF Uploaded, Decided, Decisions
  <1>7. profile'.kyc = a.agg
    BY <1>1 DEF ProfileType
  <1>8. AggregateCurrent(task[t])
    BY DEF ReviewInv
  <1>9. KycFollowsReviews'
    BY <1>1, <1>3, <1>6, <1>7, <1>8 DEF AggregateCurrent, KycFollowsReviews, Uploaded
  <1> QED BY <1>1, <1>5, <1>9 DEF ReviewInv

\* A review begins when none is under way, and computes the status afresh.
LEMMA ReviewKeepsReviews ==
  ASSUME Pool, VerificationInv, ReviewInv, MaxReviewers <= 1, IsFiniteSet(Tasks),
         NEW t \in Tasks,
         \/ \E d \in DocTypes, state \in Decisions : Decide(t, d, state)
         \/ AggregateDecision(t)
  PROVE  ReviewInv'
  <1>1. UNCHANGED <<profile, docs, wasHome>>
    BY DEF Decide, AggregateDecision, account, verification
  <1>2. KycFollowsReviews' /\ Uploaded' = Uploaded /\ wasHome' \in BOOLEAN
    BY <1>1 DEF ReviewInv, KycFollowsReviews, Uploaded
  <1>3. ASSUME NEW u \in Tasks, task'[u] = task[u] PROVE AggregateCurrent(task[u])'
    BY <1>1, <1>2, <1>3 DEF ReviewInv, AggregateCurrent, Decided
  <1>4. CASE \E d \in DocTypes, state \in Decisions : Decide(t, d, state)
    <2>1. PICK arg : Goto(t, "decide", arg) /\ Cardinality(Reviewing) < MaxReviewers
      BY <1>4 DEF Decide
    <2>2. task'[t].pc = "decide" /\ OnlyMoves(t)
      BY <2>1, GotoSlot
    <2>3. Reviewing = {}
      <3>1. IsFiniteSet(Reviewing)
        BY FS_Subset DEF Reviewing
      <3>2. Cardinality(Reviewing) \in Nat
        BY <3>1, FS_CardinalityType
      <3>3. Cardinality(Reviewing) = 0
        BY <2>1, <3>2, VerificationAssumption
      <3> QED BY <3>1, <3>3, FS_EmptySet
    <2>4. \A u \in Tasks : task[u].pc \notin ReviewPcs
      BY <2>3 DEF Reviewing, ReviewPcs
    <2>5. OneReview'
      BY <2>2, <2>4 DEF OneReview, OnlyMoves
    <2>6. \A u \in Tasks : AggregateCurrent(task[u])'
      BY <1>3, <2>2 DEF OnlyMoves, AggregateCurrent
    <2> QED BY <1>2, <2>5, <2>6 DEF ReviewInv
  <1>5. CASE AggregateDecision(t)
    <2> DEFINE a == task[t].arg
               agg == AggregateState(StatesWith(a.doc, a.state))
               arg == [doc |-> a.doc, state |-> a.state, agg |-> agg]
    <2>1. /\ a.doc \in Uploaded /\ a.state \in Decisions /\ task[t].pc = "decide"
          /\ Goto(t, "commitDecision", arg)
      BY <1>5 DEF AggregateDecision, At, VerificationInv, VerificationTasks, VerificationTask, Uploaded
    <2>2. arg.doc = a.doc /\ arg.state = a.state /\ arg.agg = agg
      OBVIOUS
    <2>3. StatesWith(a.doc, a.state) = {IF d = a.doc THEN a.state ELSE docs[d] : d \in Uploaded}
      BY DEF StatesWith, Uploaded
    <2>4. /\ (\A d \in Uploaded : (IF d = a.doc THEN a.state ELSE docs[d]) = "APPROVED")
                => agg = "APPROVED"
          /\ agg = "APPROVED" =>
                \A d \in Uploaded : (IF d = a.doc THEN a.state ELSE docs[d]) # "REJECTED"
      <3> DEFINE states == StatesWith(a.doc, a.state)
      <3>1. \A x : x \in states <=> \E d \in Uploaded : x = IF d = a.doc THEN a.state ELSE docs[d]
        BY <2>3
      <3>2. states # {}
        BY <2>1, <3>1
      <3> HIDE DEF states
      <3>3. agg = IF "REJECTED" \in states THEN "REJECTED"
                  ELSE IF "PENDING" \in states \/ states = {} THEN "PENDING" ELSE "APPROVED"
        BY DEF AggregateState, states
      <3> HIDE DEF agg
      <3> QED BY <3>1, <3>2, <3>3
    <2> HIDE DEF arg, agg
    <2>5. task'[t].pc = "commitDecision" /\ task'[t].arg = arg /\ OnlyMoves(t)
      BY <2>1, GotoSlot
    <2>6. OneReview'
      BY <2>1, <2>5 DEF ReviewInv, OneReview, OnlyMoves, ReviewPcs
    <2>7. AggregateCurrent(task[t])'
      BY <1>1, <1>2, <2>2, <2>4, <2>5 DEF AggregateCurrent, Decided
    <2>8. \A u \in Tasks : AggregateCurrent(task[u])'
      BY <1>3, <2>5, <2>7 DEF OnlyMoves
    <2> QED BY <1>2, <2>6, <2>8 DEF ReviewInv
  <1> QED BY <1>4, <1>5

\* Every step of verification, with one review at a time.
LEMMA ReviewsKept ==
  ASSUME Pool, profile \in ProfileType, VerificationInv, ReviewInv, MaxReviewers <= 1,
         IsFiniteSet(Tasks), VerificationNext
  PROVE  ReviewInv'
  <1>1. ASSUME NEW t \in Tasks, NEW pc, pc \notin ReviewPcs, task[t].pc \notin ReviewPcs,
               task'[t].pc = pc, OnlyMoves(t), UNCHANGED docs
        PROVE  OneReview' /\ \A u \in Tasks : AggregateCurrent(task[u])'
    <2>1. OneReview'
      BY <1>1 DEF ReviewInv, OneReview, OnlyMoves
    <2>2. Uploaded' = Uploaded
      BY <1>1 DEF Uploaded
    <2>3. \A u \in Tasks : AggregateCurrent(task[u])'
      BY <1>1, <2>2 DEF ReviewInv, AggregateCurrent, Decided, OnlyMoves, ReviewPcs
    <2> QED BY <2>1, <2>3
  <1>2. ASSUME NEW t \in Tasks,
               \/ \E c \in SellerCategories : UpsertProfile(t, c)
               \/ \E d \in DocTypes, id \in IdTypes : UploadDocument(t, d, id)
        PROVE  ReviewInv'
    <2>1. /\ task[t].pc = "idle"
          /\ UNCHANGED <<profile, docs, wasHome>>
          /\ \E arg : Goto(t, "writeProfile", arg) \/ Goto(t, "upload", arg)
      BY <1>2 DEF UpsertProfile, UploadDocument, At, account, verification
    <2>2. task'[t].pc \in {"writeProfile", "upload"} /\ OnlyMoves(t)
      BY <2>1, GotoSlot
    <2>3. OneReview' /\ \A u \in Tasks : AggregateCurrent(task[u])'
      BY <1>1, <2>1, <2>2 DEF ReviewPcs
    <2> QED BY <2>1, <2>3 DEF ReviewInv, KycFollowsReviews, Uploaded
  <1>3. ASSUME NEW t \in Tasks, WriteProfile(t)
        PROVE  ReviewInv'
    <2> DEFINE a == task[t].arg
               kyc == IF a.approve THEN "APPROVED" ELSE profile.kyc
    <2>1. /\ a.approve => a.category = "FAIT_MAISON"
          /\ Done(t) /\ task[t].pc = "writeProfile" /\ UNCHANGED docs
          /\ profile' = [profile EXCEPT !.category = a.category, !.hasFee = TRUE, !.kyc = kyc]
          /\ wasHome' = (wasHome \/ a.category = "FAIT_MAISON")
      BY <1>3 DEF WriteProfile, At, VerificationInv, VerificationTasks, VerificationTask
    <2>2. wasHome' \in BOOLEAN
      BY <2>1
    <2>3. (wasHome => wasHome') /\ (a.approve => wasHome')
      BY <2>1 DEF ReviewInv
    <2>4. task'[t].pc = "idle" /\ OnlyMoves(t)
      BY <2>1, DoneSlot
    <2>5. OneReview' /\ \A u \in Tasks : AggregateCurrent(task[u])'
      BY <1>1, <2>1, <2>4 DEF ReviewPcs
    <2>6. profile'.kyc = kyc
      BY <2>1 DEF ProfileType
    <2>7. KycFollowsReviews'
      BY <2>1, <2>3, <2>6 DEF ReviewInv, KycFollowsReviews, Uploaded
    <2> QED BY <2>2, <2>5, <2>7 DEF ReviewInv
  <1>4. CASE UpsertBusiness \/ UpsertCuisines \/ UpsertZones \/ \E v \in Vehicles : UpsertVehicle(v)
    <2>1. UNCHANGED <<profile, docs, wasHome, task>>
      BY <1>4 DEF UpsertBusiness, UpsertCuisines, UpsertZones, UpsertVehicle, StepDone, account
    <2> QED BY <2>1 DEF ReviewInv, OneReview, AggregateCurrent, Decided, Uploaded, KycFollowsReviews
  <1> QED BY <1>2, <1>3, <1>4, UploadKeepsReviews, DecisionKeepsReviews, ReviewKeepsReviews
          DEF VerificationNext, VerificationStep, Decisions

-----------------------------------------------------------------------------
(* The storefront *)

StorefrontInv == BillingInv /\ VerificationInv /\ ListingsInv

\* Two parts share idle slots only.
Apart(pcs, own) == pcs \cap own \subseteq {"idle"}

\* What the parts of billing, verification and listings keep while another part
\* takes a step.
LEMMA BillingUndisturbed ==
  ASSUME BillingInv, Pool', NEW pcs, Moves(pcs), Apart(pcs, BillingPcs),
         UNCHANGED <<now, billing>>, profile' \in ProfileType, suspended' \in BOOLEAN,
         BillingColumnsKept
  PROVE  BillingInv' /\ PaidTimeGrows
  <1>1. UNCHANGED <<now, customer, sub, events, notices, store, storeEvents, paidThrough, basis>>
    BY DEF billing, stripe, revenueCat
  <1>2. BillingTypes' /\ SourcesPaid'
    BY <1>1 DEF BillingInv, BillingTypes, AccountTypeOK, BillingTypeOK, SourcesPaid, SnapshotPaid,
                DatePaid
  <1>3. MirrorPaid'
    BY <1>1 DEF BillingInv, MirrorPaid, Backed, BillingColumnsKept
  <1>4. BillingTasks'
    <2> SUFFICES ASSUME NEW u \in Tasks PROVE BillingTask(task[u])'
      BY DEF BillingTasks
    <2>1. BillingTask(task[u])
      BY DEF BillingInv, BillingTasks
    <2>2. CASE task'[u] = task[u]
      BY <1>1, <2>1, <2>2 DEF BillingTask, SnapshotPaid, VerdictPaid
    <2>3. CASE task'[u] # task[u]
      BY <2>3 DEF Moves, Apart, BillingPcs, BillingTask
    <2> QED BY <2>2, <2>3
  <1> QED BY <1>1, <1>2, <1>3, <1>4 DEF BillingInv, PaidTimeGrows

\* The same for verification.
LEMMA VerificationUndisturbed ==
  ASSUME VerificationInv, NEW pcs, Moves(pcs), Apart(pcs, VerificationPcs), UNCHANGED verification
  PROVE  VerificationInv'
  <1>1. UNCHANGED <<role, docs, idType, vehicle, steps>>
    BY DEF verification
  <1>2. VerificationTasks'
    <2> SUFFICES ASSUME NEW u \in Tasks PROVE VerificationTask(task[u])'
      BY DEF VerificationTasks
    <2>1. CASE task'[u] = task[u]
      BY <1>1, <2>1 DEF VerificationInv, VerificationTasks, VerificationTask
    <2>2. CASE task'[u] # task[u]
      BY <2>2 DEF Moves, Apart, VerificationPcs, VerificationTask
    <2> QED BY <2>1, <2>2
  <1> QED BY <1>1, <1>2 DEF VerificationInv, VerificationTypeOK

\* The same for the reviews, which also hang on the KYC status.
LEMMA ReviewsUndisturbed ==
  ASSUME ReviewInv, NEW pcs, Moves(pcs), Apart(pcs, VerificationPcs), UNCHANGED verification,
         profile'.kyc = profile.kyc
  PROVE  ReviewInv'
  <1>1. UNCHANGED <<docs, wasHome>>
    BY DEF verification
  <1>2. ASSUME NEW u \in Tasks, task'[u] # task[u] \/ task[u].pc \notin ReviewPcs
        PROVE  task'[u].pc \notin ReviewPcs
    BY <1>2 DEF Moves, Apart, VerificationPcs, ReviewPcs
  <1>3. OneReview'
    BY <1>2 DEF ReviewInv, OneReview
  <1>4. \A u \in Tasks : AggregateCurrent(task[u])'
    BY <1>1, <1>2 DEF ReviewInv, AggregateCurrent, Decided, Uploaded, ReviewPcs
  <1> QED BY <1>1, <1>3, <1>4 DEF ReviewInv, KycFollowsReviews, Uploaded

\* The same for the listings, which also hang on the delivery fee.
LEMMA ListingsUndisturbed ==
  ASSUME ListingsInv, NEW pcs, Moves(pcs), Apart(pcs, ListingsPcs), UNCHANGED listings, FeeKept
  PROVE  ListingsInv'
  <1>1. UNCHANGED <<listing, bookmarks>>
    BY DEF listings
  <1>2. ListingTasks'
    <2> SUFFICES ASSUME NEW u \in Tasks PROVE ListingTask(task[u])'
      BY DEF ListingTasks
    <2>1. CASE task'[u] = task[u]
      BY <1>1, <2>1 DEF ListingsInv, ListingTasks, ListingTask, FeeKept
    <2>2. CASE task'[u] # task[u]
      BY <2>2 DEF Moves, Apart, ListingsPcs, ListingTask
    <2> QED BY <2>1, <2>2
  <1> QED BY <1>1, <1>2 DEF ListingsInv, ListingTypes, CategoryShapeKept, FeeSet, FeeKept

\* No writer of the subscription's columns touches the others: an event applied
\* late cannot undo a verification or a category.
LEMMA BillingKeepsColumns ==
  ASSUME profile \in ProfileType, BillingNext
  PROVE  /\ profile'.kyc = profile.kyc
         /\ profile'.category = profile.category
         /\ profile'.hasFee = profile.hasFee
  <1>1. \/ UNCHANGED profile
        \/ \E snap : profile' = Mirrored(snap)
        \/ \E status, ent, end : profile' = StoreFields(status, ent, end)
    BY DEF BillingNext, BillingStep, GetStatus, CreateSubscription, HandleNotice, SyncSubscription,
           Retrieve, WriteState, ReuseExisting, EnsureCustomer, CreateAtStripe,
           VerifyWithRevenueCat, SyncWrite, ApplySubscriptionState, HandleStoreEvent, StoreWrites,
           StripeNext, StoreNext, Tick, InvoicePaid, IncompleteExpires, Renew, RenewFails, Cancel,
           StorePurchase, StoreTells, account
  <1>2. ASSUME NEW snap, profile' = Mirrored(snap)
        PROVE  /\ profile'.kyc = profile.kyc
               /\ profile'.category = profile.category
               /\ profile'.hasFee = profile.hasFee
    <2> HIDE DEF StatusFromStripe
    <2> QED BY <1>2 DEF Mirrored, ProfileType
  <1>3. ASSUME NEW status, NEW ent, NEW end, profile' = StoreFields(status, ent, end)
        PROVE  /\ profile'.kyc = profile.kyc
               /\ profile'.category = profile.category
               /\ profile'.hasFee = profile.hasFee
    BY <1>3 DEF StoreFields, ProfileType
  <1> QED BY <1>1, <1>2, <1>3

\* Every step of the storefront keeps the invariant, and as far as access goes it
\* is a step of billing.
LEMMA StorefrontKept ==
  ASSUME StorefrontInv, [Next]_vars
  PROVE  StorefrontInv' /\ (PaidTimeGrows \/ MonthPasses)
  <1> USE DEF StorefrontInv
  <1>0. Pool /\ profile \in ProfileType /\ suspended \in BOOLEAN
    BY DEF BillingInv, BillingTypes, AccountTypeOK
  <1>1. CASE Billing
    <2>1. BillingNext /\ UNCHANGED verification /\ UNCHANGED listings
      BY <1>1 DEF Billing, NotVerification, NotListings
    <2>2. BillingInv' /\ (PaidTimeGrows \/ MonthPasses)
      BY <2>1, BillingKept
    <2>3. Moves(BillingPcs) /\ FeeKept
      BY <1>0, <2>1, BillingMoves, BillingKeepsColumns DEF FeeKept
    <2>4. Apart(BillingPcs, VerificationPcs) /\ Apart(BillingPcs, ListingsPcs)
      BY DEF Apart, BillingPcs, VerificationPcs, ListingsPcs
    <2> QED BY <2>1, <2>2, <2>3, <2>4, VerificationUndisturbed, ListingsUndisturbed
  <1>2. CASE Judging
    <2>1. ConductNext /\ UNCHANGED billing /\ UNCHANGED verification /\ UNCHANGED listings
      BY <1>2 DEF Judging, NotBilling, NotVerification, NotListings
    <2>2. /\ Pool' /\ Moves(ConductPcs) /\ UNCHANGED <<now, profile>> /\ suspended' \in BOOLEAN
      BY <1>0, <2>1, ConductMoves
    <2>3. /\ Apart(ConductPcs, BillingPcs) /\ Apart(ConductPcs, VerificationPcs)
          /\ Apart(ConductPcs, ListingsPcs)
      BY DEF Apart, BillingPcs, VerificationPcs, ListingsPcs, ConductPcs
    <2>4. BillingColumnsKept /\ FeeKept /\ profile' \in ProfileType
      BY <1>0, <2>2 DEF BillingColumnsKept, FeeKept
    <2>5. UNCHANGED <<now, billing>>
      BY <2>1, <2>2
    <2> QED BY <2>1, <2>2, <2>3, <2>4, <2>5, BillingUndisturbed, VerificationUndisturbed, ListingsUndisturbed
  <1>3. CASE Verifying
    <2>1. VerificationNext /\ UNCHANGED billing /\ UNCHANGED listings
      BY <1>3 DEF Verifying, NotBilling, NotListings
    <2>2. Pool' /\ Moves(VerificationPcs) /\ UNCHANGED <<now, suspended>>
      BY <1>0, <2>1, VerificationMoves
    <2>3. VerificationInv' /\ profile' \in ProfileType /\ BillingColumnsKept /\ FeeKept
      BY <1>0, <2>1, VerificationKept
    <2>4. Apart(VerificationPcs, BillingPcs) /\ Apart(VerificationPcs, ListingsPcs)
      BY DEF Apart, BillingPcs, VerificationPcs, ListingsPcs
    <2>5. UNCHANGED <<now, billing>> /\ suspended' \in BOOLEAN
      BY <1>0, <2>1, <2>2
    <2> QED BY <2>1, <2>2, <2>3, <2>4, <2>5, BillingUndisturbed, ListingsUndisturbed
  <1>4. CASE Trading
    <2>1. ListingsNext /\ UNCHANGED billing /\ UNCHANGED verification
      BY <1>4 DEF Trading, NotBilling, NotVerification
    <2>2. Pool' /\ Moves(ListingsPcs) /\ UNCHANGED <<now, profile, suspended>>
      BY <1>0, <2>1, ListingsMoves
    <2>3. Apart(ListingsPcs, BillingPcs) /\ Apart(ListingsPcs, VerificationPcs)
      BY DEF Apart, BillingPcs, VerificationPcs, ListingsPcs
    <2>4. BillingColumnsKept /\ profile' \in ProfileType /\ suspended' \in BOOLEAN
      BY <1>0, <2>2 DEF BillingColumnsKept
    <2>5. UNCHANGED <<now, billing>>
      BY <2>1, <2>2
    <2>6. ListingsInv'
      BY <1>0, <2>1, ListingsKept
    <2> QED BY <2>1, <2>2, <2>3, <2>4, <2>5, <2>6, BillingUndisturbed, VerificationUndisturbed
  <1>5. CASE UNCHANGED vars
    <2>1. /\ UNCHANGED <<task, now, profile, suspended, billing, verification, listings>>
          /\ UNCHANGED <<now, billing>>
      BY <1>5 DEF vars, account
    <2>2. Pool' /\ Moves({}) /\ Apart({}, BillingPcs) /\ Apart({}, VerificationPcs)
            /\ Apart({}, ListingsPcs)
      BY <1>0, <2>1, NoMove DEF Apart
    <2>3. BillingColumnsKept /\ FeeKept /\ profile' \in ProfileType /\ suspended' \in BOOLEAN
      BY <1>0, <2>1 DEF BillingColumnsKept, FeeKept
    <2> QED BY <2>1, <2>2, <2>3, BillingUndisturbed, VerificationUndisturbed, ListingsUndisturbed
  <1> QED BY <1>1, <1>2, <1>3, <1>4, <1>5 DEF Next

\* The initial states of the storefront.
LEMMA StorefrontInit == Init => StorefrontInv /\ ReviewInv /\ Access!Init
  <1> SUFFICES ASSUME Init PROVE StorefrontInv /\ ReviewInv /\ Access!Init
    OBVIOUS
  <1>1. BillingInv /\ Access!Init
    BY BillingInitInv DEF Init, SubscriptionsInit
  <1>2. \A t \in Tasks : task[t].pc = "idle"
    BY DEF Init, AccountInit, RequestsInit, Idle
  <1>3. /\ profile.kyc = "PENDING" /\ profile.category = "none"
        /\ \A d \in DocTypes : docs[d] = "none"
        /\ wasHome = FALSE
    BY DEF Init, AccountInit, NewProfile, VerificationInit
  <1>4. VerificationInv
    <2>1. VerificationTypeOK
      BY DEF Init, VerificationInit, VerificationTypeOK
    <2>2. VerificationTasks
      BY <1>2 DEF VerificationTasks, VerificationTask
    <2> QED BY <2>1, <2>2 DEF VerificationInv
  <1>5. ReviewInv
    <2>1. Uploaded = {} /\ wasHome \in BOOLEAN
      BY <1>3 DEF Uploaded
    <2> QED BY <1>2, <1>3, <2>1
            DEF ReviewInv, OneReview, AggregateCurrent, KycFollowsReviews, ReviewPcs
  <1>6. ListingsInv
    <2>1. DOMAIN listing = ListingIds /\ (\A l \in ListingIds : listing[l] = NoListing) /\ bookmarks = {}
      BY DEF Init, ListingsInit
    <2>2. DOMAIN NoListing = ListingColumns /\ NoListing.row = "none"
      BY DEF NoListing, ListingColumns
    <2> QED BY <1>2, <1>3, <2>1, <2>2
            DEF ListingsInv, ListingTypes, ListingTasks, ListingTask, CategoryShapeKept, FeeSet
  <1> QED BY <1>1, <1>4, <1>5, <1>6 DEF StorefrontInv

\* The invariant of the storefront.
THEOREM StorefrontInvariant == Spec => []StorefrontInv
  <1>1. Init => StorefrontInv
    BY StorefrontInit
  <1>2. StorefrontInv /\ [Next]_vars => StorefrontInv'
    BY StorefrontKept
  <1> QED BY <1>1, <1>2, PTL DEF Spec

\* The subscription gate composed with strikes, reviews, verification and
\* listings, which all write the same account, still implements PaidAccess.
THEOREM StorefrontImplementsPaidAccess == Spec => ImplementsPaidAccess
  <1>1. Init => StorefrontInv /\ Access!Init
    BY StorefrontInit
  <1>2. StorefrontInv /\ [Next]_vars => StorefrontInv' /\ [Access!Next]_(Access!vars)
    BY StorefrontKept, BillingRefines DEF StorefrontInv
  <1> QED BY <1>1, <1>2, PTL DEF Spec, ImplementsPaidAccess, Access!Spec

\* ListingsService: however edits overlap, and whatever the seller's category is
\* by then, no listing ever has a shape that the category it was published under
\* forbids.
THEOREM ListingShapeKept == Spec => []CategoryShapeKept
  <1>1. StorefrontInv => CategoryShapeKept
    BY DEF StorefrontInv, ListingsInv
  <1> QED BY <1>1, StorefrontInvariant, PTL

\* The feed's query and the checks of createForBuyer agree: what the feed shows
\* may be ordered, and what may be ordered is in the feed.
THEOREM FeedIsOrderable == Spec => []ShownIsOrderable
  <1>1. StorefrontInv => ShownIsOrderable
    <2> SUFFICES ASSUME StorefrontInv PROVE ShownIsOrderable
      OBVIOUS
    <2>1. ASSUME NEW inStockOnly \in BOOLEAN, NEW l \in Feed(inStockOnly) PROVE Accepts(l)
      BY <2>1 DEF Feed, Accepts, StorefrontInv, ListingsInv, FeeSet, Active, IsSubscriptionActive
    <2>2. ASSUME NEW l \in Detail \cup BookmarkList, Accepts(l) PROVE l \in Feed(FALSE)
      <3>1. l \in ListingIds
        BY DEF Detail, BookmarkList, StorefrontInv, ListingsInv, ListingTypes
      <3> QED BY <2>2, <3>1 DEF Accepts, Feed, Active, IsSubscriptionActive
    <2> QED BY <2>1, <2>2 DEF ShownIsOrderable
  <1> QED BY <1>1, StorefrontInvariant, PTL

\* The invariant of the reviews in the whole storefront: with one review at a time
\* (the case the run checks) the status of a user follows the decisions.
LEMMA ReviewInvariant ==
  ASSUME MaxReviewers <= 1, IsFiniteSet(Tasks)
  PROVE  Spec => [](StorefrontInv /\ ReviewInv)
  <1> DEFINE J == StorefrontInv /\ ReviewInv
  <1>1. Init => J
    BY StorefrontInit
  <1>2. J /\ [Next]_vars => J'
    <2> SUFFICES ASSUME StorefrontInv, ReviewInv, [Next]_vars PROVE ReviewInv'
      BY StorefrontKept
    <2>0. Pool /\ profile \in ProfileType /\ suspended \in BOOLEAN /\ VerificationInv
      BY DEF StorefrontInv, BillingInv, BillingTypes, AccountTypeOK
    <2>1. CASE Verifying
      BY <2>0, <2>1, ReviewsKept DEF Verifying
    <2>2. CASE Billing
      <3>1. BillingNext /\ UNCHANGED verification
        BY <2>2 DEF Billing, NotVerification
      <3>2. Apart(BillingPcs, VerificationPcs)
        BY DEF Apart, BillingPcs, VerificationPcs
      <3> QED BY <2>0, <3>1, <3>2, BillingMoves, BillingKeepsColumns, ReviewsUndisturbed
    <2>3. CASE Judging
      <3>1. ConductNext /\ UNCHANGED verification
        BY <2>3 DEF Judging, NotVerification
      <3>2. Apart(ConductPcs, VerificationPcs)
        BY DEF Apart, ConductPcs, VerificationPcs
      <3>3. Moves(ConductPcs) /\ UNCHANGED <<now, profile>>
        BY <2>0, <3>1, ConductMoves
      <3> QED BY <3>1, <3>2, <3>3, ReviewsUndisturbed
    <2>4. CASE Trading
      <3>1. ListingsNext /\ UNCHANGED verification
        BY <2>4 DEF Trading, NotVerification
      <3>2. Apart(ListingsPcs, VerificationPcs)
        BY DEF Apart, ListingsPcs, VerificationPcs
      <3>3. Moves(ListingsPcs) /\ UNCHANGED <<now, profile, suspended>>
        BY <2>0, <3>1, ListingsMoves
      <3> QED BY <3>1, <3>2, <3>3, ReviewsUndisturbed
    <2>5. CASE UNCHANGED vars
      <3>1. UNCHANGED <<task, profile, verification>>
        BY <2>5 DEF vars, account
      <3>2. Moves({}) /\ Apart({}, VerificationPcs)
        BY <2>0, <3>1, NoMove DEF Apart
      <3> QED BY <3>1, <3>2, ReviewsUndisturbed
    <2> QED BY <2>1, <2>2, <2>3, <2>4, <2>5 DEF Next
  <1> QED BY <1>1, <1>2, PTL DEF Spec

\* transitionStatus, with one review at a time: overlapping uploads and profile
\* edits never leave a user unapproved whose documents all are, nor one approved
\* with a rejected document.
THEOREM KycFollows ==
  ASSUME MaxReviewers <= 1, IsFiniteSet(Tasks)
  PROVE  Spec => []KycFollowsReviews
  <1>1. StorefrontInv /\ ReviewInv => KycFollowsReviews
    BY DEF ReviewInv
  <1> QED BY <1>1, ReviewInvariant, PTL

\* derivSlotStatus calls a slot complete only when its document is approved.
LEMMA CompleteSlot ==
  ASSUME VerificationTypeOK, NEW d, SlotStatus(d) = "complete"
  PROVE  d \in DocTypes /\ docs[d] = "APPROVED"
  <1>1. DocState(d) \in {"none", "PENDING", "APPROVED", "REJECTED"}
    BY DEF VerificationTypeOK, DocState
  <1>2. DocState(d) = "APPROVED"
    BY <1>1 DEF SlotStatus
  <1> QED BY <1>2 DEF DocState

\* aggregateStepStatuses calls a step complete only when each of its slots is.
LEMMA CompleteStep ==
  ASSUME NEW slots, StepStatus(slots) = "complete",
         slots \subseteq {"incomplete", "pending_review", "complete"}
  PROVE  \A x \in slots : x = "complete"
  BY DEF StepStatus

\* A slot is incomplete, awaits its review or is complete.
LEMMA SlotStatuses ==
  ASSUME VerificationTypeOK, NEW d
  PROVE  SlotStatus(d) \in {"incomplete", "pending_review", "complete"}
  <1>1. DocState(d) \in {"none", "PENDING", "APPROVED", "REJECTED"}
    BY DEF VerificationTypeOK, DocState
  <1> QED BY <1>1 DEF SlotStatus

\* A wizard that has nothing left has seen every document it asks for approved.
LEMMA NothingLeft ==
  ASSUME VerificationTypeOK, AllDone, profile.category # "FAIT_MAISON"
  PROVE  \A d \in Required : d \in DocTypes /\ docs[d] = "APPROVED"
  <1>1. KycIdStatus = "complete" /\ SlotStatus("SELFIE") = "complete"
    <2>1. KycIdStatus # "skipped" /\ SlotStatus("SELFIE") # "skipped"
      BY SlotStatuses DEF KycIdStatus, StepStatus
    <2>2. CASE role = "SELLER"
      <3>1. WizardSteps[4] = KycIdStatus /\ WizardSteps[5] = SlotStatus("SELFIE")
            /\ DOMAIN WizardSteps = 1..5
        BY <2>2 DEF WizardSteps, SellerSteps
      <3> QED BY <2>1, <3>1 DEF AllDone
    <2>3. CASE role # "SELLER"
      <3>1. WizardSteps[3] = KycIdStatus /\ WizardSteps[4] = SlotStatus("SELFIE")
            /\ DOMAIN WizardSteps = 1..5
        BY <2>3 DEF WizardSteps, DriverSteps
      <3> QED BY <2>1, <3>1 DEF AllDone
    <2> QED BY <2>2, <2>3
  <1>2. \A d \in {"ID_FRONT"} \cup (IF idType \in RequiringVerso THEN {"ID_BACK"} ELSE {}) :
          SlotStatus(d) = "complete"
    <2> DEFINE slots == {SlotStatus("ID_FRONT")} \cup
                          (IF idType \in RequiringVerso THEN {SlotStatus("ID_BACK")} ELSE {})
    <2>1. slots \subseteq {"incomplete", "pending_review", "complete"}
      BY SlotStatuses
    <2>2. \A x \in slots : x = "complete"
      BY <1>1, <2>1, CompleteStep DEF KycIdStatus
    <2> QED BY <2>2
  <1>3. ASSUME role = "DRIVER", vehicle \in MotorizedVehicles
        PROVE  SlotStatus("DRIVING_LICENSE") = "complete" /\ SlotStatus("CARTE_GRISE") = "complete"
    <2> DEFINE slots == {SlotStatus("DRIVING_LICENSE"), SlotStatus("CARTE_GRISE")}
    <2>1. WizardSteps[5] = DocumentsStatus /\ DOMAIN WizardSteps = 1..5
      BY <1>3 DEF WizardSteps, DriverSteps
    <2>2. DocumentsStatus = StepStatus(slots)
      BY <1>3 DEF DocumentsStatus, MotorizedVehicles
    <2>3. StepStatus(slots) = "complete"
      BY <2>1, <2>2 DEF AllDone, StepStatus
    <2>4. slots \subseteq {"incomplete", "pending_review", "complete"}
      BY SlotStatuses
    <2>5. \A x \in slots : x = "complete"
      BY <2>3, <2>4, CompleteStep
    <2> QED BY <2>5
  <1>4. \A d \in Required : SlotStatus(d) = "complete"
    BY <1>1, <1>2, <1>3 DEF Required
  <1> QED BY <1>4, CompleteSlot

\* getOnboardingState, with one review at a time: whoever the wizard tells that
\* nothing is left, and who uploaded only what it asked for, is approved and may
\* trade, through any order of uploads, reviews and profile edits.
THEOREM WizardCompleteMeansCanTrade ==
  ASSUME MaxReviewers <= 1, IsFiniteSet(Tasks)
  PROVE  Spec => []CompleteMeansCanTrade
  <1>1. StorefrontInv /\ ReviewInv => CompleteMeansCanTrade
    <2> SUFFICES ASSUME StorefrontInv, ReviewInv, AllDone, Uploaded \subseteq Required,
                        profile.category # "FAIT_MAISON"
                 PROVE  profile.kyc = "APPROVED"
      BY DEF CompleteMeansCanTrade, CanTrade
    <2>1. \A d \in Required : d \in DocTypes /\ docs[d] = "APPROVED"
      BY NothingLeft DEF StorefrontInv, VerificationInv
    <2>2. "SELFIE" \in Uploaded
      BY <2>1 DEF Required, Uploaded
    <2>3. \A d \in Uploaded : docs[d] = "APPROVED"
      BY <2>1
    <2> QED BY <2>2, <2>3 DEF ReviewInv, KycFollowsReviews
  <1> QED BY <1>1, ReviewInvariant, PTL

-----------------------------------------------------------------------------
(* Sums over a finite set.  The folds of the community modules are recursive *)
(* functions on the subsets of a set; what holds of them is shown on a least *)
(* subset for which it would fail.                                           *)

Pick(s) == CHOOSE x \in s : TRUE

\* g[s] is the sum of f over s, for the subsets s of S.
Adds(g, f, S) ==
    g = [s \in SUBSET S |-> IF s = {} THEN 0 ELSE f[Pick(s)] + g[s \ {Pick(s)}]]

\* Among some subsets of a finite set, one contains no other.
LEMMA MinimalSubset ==
  ASSUME NEW S, IsFiniteSet(S), NEW T, T \subseteq SUBSET S, T # {}
  PROVE  \E x \in T : \A y \in T : ~(y \subseteq x /\ y # x)
  <1>1. T \subseteq FiniteSubsetsOf(S)
    BY FS_Subset DEF FiniteSubsetsOf
  <1>2. \E x \in T : \A y \in T : ~(<<y, x>> \in StrictSubsetOrdering(S))
    BY <1>1, FS_StrictSubsetOrderingWellFounded, WFMin
  <1> QED BY <1>2 DEF StrictSubsetOrdering

\* A set of naturals that is not empty has a least member.
LEMMA LeastNatural ==
  ASSUME NEW B, B \subseteq Nat, B # {}
  PROVE  \E n \in B : \A k \in B : n <= k
  <1>1. PICK m \in B : TRUE
    OBVIOUS
  <1> DEFINE T == {0..k : k \in {i \in B : i <= m}}
  <1>2. IsFiniteSet(0..m)
    BY <1>1, FS_Interval
  <1>3. T \subseteq SUBSET (0..m) /\ T # {}
    BY <1>1
  <1>4. PICK x \in T : \A y \in T : ~(y \subseteq x /\ y # x)
    <2>1. PICK U : U = T
      OBVIOUS
    <2>2. PICK I : I = 0..m
      OBVIOUS
    <2>3. IsFiniteSet(I) /\ U \subseteq SUBSET I /\ U # {}
      BY <1>2, <1>3, <2>1, <2>2
    <2>4. \E x \in U : \A y \in U : ~(y \subseteq x /\ y # x)
      BY <2>3, MinimalSubset
    <2> QED BY <2>1, <2>4
  <1>5. PICK n \in B : n <= m /\ x = 0..n
    BY <1>4
  <1>6. ASSUME NEW k \in B, k < n PROVE FALSE
    <2>1. 0..k \in T
      BY <1>1, <1>5, <1>6
    <2>2. 0..k \subseteq 0..n /\ n \in 0..n /\ n \notin 0..k
      BY <1>5, <1>6
    <2> QED BY <1>4, <1>5, <2>1, <2>2
  <1> QED BY <1>5, <1>6

\* CHOOSE takes a member of a set that has one.
LEMMA PickIn == \A s : s # {} => Pick(s) \in s
  BY DEF Pick

\* The recursive definition of a sum over a finite set defines a function.
LEMMA SumExists ==
  ASSUME NEW S, IsFiniteSet(S), NEW f
  PROVE  \E g : Adds(g, f, S)
  <1> DEFINE Term(g, s) == IF s = {} THEN 0 ELSE f[Pick(s)] + g[s \ {Pick(s)}]
             Upto(n) == \E g : \A s \in SUBSET S : Cardinality(s) <= n => g[s] = Term(g, s)
             B == {n \in Nat : ~Upto(n)}
  <1>0. \A s \in SUBSET S : IsFiniteSet(s) /\ Cardinality(s) \in Nat
    BY FS_Subset, FS_CardinalityType
  <1>1. Upto(0)
    <2>1. PICK g : g = [s \in SUBSET S |-> 0]
      OBVIOUS
    <2>2. \A s \in SUBSET S : Cardinality(s) <= 0 => s = {}
      BY <1>0, FS_EmptySet
    <2>3. \A s \in SUBSET S : Cardinality(s) <= 0 => g[s] = Term(g, s)
      BY <2>1, <2>2
    <2> HIDE DEF Term
    <2> QED BY <2>3
  <1>2. ASSUME NEW n \in Nat, Upto(n) PROVE Upto(n + 1)
    <2>1. PICK g : \A s \in SUBSET S : Cardinality(s) <= n => g[s] = Term(g, s)
      BY <1>2
    <2> DEFINE h == [s \in SUBSET S |-> Term(g, s)]
    <2>2. ASSUME NEW s \in SUBSET S, Cardinality(s) <= n + 1 PROVE h[s] = Term(h, s)
      <3>1. CASE s = {}
        BY <3>1
      <3>2. CASE s # {}
        <4>1. Pick(s) \in s
          BY <3>2, PickIn
        <4>2. PICK r \in SUBSET S : r = s \ {Pick(s)}
          OBVIOUS
        <4>3. Cardinality(r) <= n
          BY <1>0, <2>2, <4>1, <4>2, FS_RemoveElement
        <4>4. h[r] = g[r]
          BY <2>1, <4>3
        <4>5. h[s] = f[Pick(s)] + g[r]
          BY <3>2, <4>2
        <4> HIDE DEF h
        <4> QED BY <3>2, <4>2, <4>4, <4>5
      <3> QED BY <3>1, <3>2
    <2> HIDE DEF h, Term
    <2> QED BY <2>2
  <1>3. B = {}
    <2> HIDE DEF Upto
    <2> SUFFICES ASSUME B # {} PROVE FALSE
      OBVIOUS
    <2>1. PICK n \in B : \A k \in B : n <= k
      BY LeastNatural
    <2>2. n # 0
      BY <1>1, <2>1
    <2>3. n - 1 \in Nat /\ n - 1 \notin B
      BY <2>1, <2>2
    <2>4. Upto(n - 1 + 1)
      BY <1>2, <2>3
    <2> QED BY <2>1, <2>2, <2>4
  <1>4. \A s \in SUBSET S : Cardinality(s) <= Cardinality(S)
    BY FS_Subset
  <1>5. Upto(Cardinality(S))
    <2> HIDE DEF Upto
    <2> QED BY <1>0, <1>3
  <1>6. PICK g : \A s \in SUBSET S : g[s] = Term(g, s)
    BY <1>4, <1>5
  <1>7. PICK h : h = [s \in SUBSET S |-> g[s]]
    OBVIOUS
  <1>8. \A s \in SUBSET S : s \ {Pick(s)} \in SUBSET S
    OBVIOUS
  <1>9. \A s \in SUBSET S : h[s] = Term(h, s)
    BY <1>6, <1>7, <1>8
  <1>10. h = [s \in SUBSET S |-> Term(h, s)]
    <2> HIDE DEF Term
    <2> QED BY <1>7, <1>9
  <1> QED BY <1>10 DEF Adds

\* A sum takes one member after the other.
LEMMA SumFacts ==
  ASSUME NEW S, NEW f, NEW g, Adds(g, f, S)
  PROVE  /\ g[{}] = 0
         /\ \A s \in SUBSET S : s # {} => /\ Pick(s) \in s
                                          /\ g[s] = f[Pick(s)] + g[s \ {Pick(s)}]
  <1>1. \A s \in SUBSET S : g[s] = IF s = {} THEN 0 ELSE f[Pick(s)] + g[s \ {Pick(s)}]
    BY DEF Adds
  <1> QED BY <1>1, PickIn

\* A sum of smaller terms is smaller.
LEMMA SumMonotone ==
  ASSUME NEW S, IsFiniteSet(S), NEW f \in [S -> Int], NEW e \in [S -> Int],
         NEW g, Adds(g, f, S), NEW h, Adds(h, e, S),
         \A x \in S : f[x] <= e[x]
  PROVE  g[S] \in Int /\ h[S] \in Int /\ g[S] <= h[S]
  <1> DEFINE Good(s) == g[s] \in Int /\ h[s] \in Int /\ g[s] <= h[s]
             T == {s \in SUBSET S : ~Good(s)}
  <1>1. T = {}
    <2> SUFFICES ASSUME T # {} PROVE FALSE
      OBVIOUS
    <2>0. T \subseteq SUBSET S
      OBVIOUS
    <2>1. PICK s \in T : \A y \in T : ~(y \subseteq s /\ y # s)
      <3> HIDE DEF T
      <3> QED BY <2>0, MinimalSubset
    <2>2. s # {}
      <3>1. g[{}] = 0 /\ h[{}] = 0
        BY SumFacts
      <3>2. Good({})
        BY <3>1
      <3> QED BY <2>1, <3>2
    <2>3. PICK c \in s : c = Pick(s)
      BY <2>2, SumFacts
    <2>4. Good(s \ {c})
      BY <2>1, <2>3
    <2>5. g[s] = f[c] + g[s \ {c}] /\ h[s] = e[c] + h[s \ {c}]
      BY <2>2, <2>3, SumFacts
    <2>6. f[c] \in Int /\ e[c] \in Int /\ f[c] <= e[c]
      BY <2>1, <2>3
    <2> QED BY <2>1, <2>4, <2>5, <2>6
  <1> QED BY <1>1
\* A sum of zeros is zero.
LEMMA SumOfZeros ==
  ASSUME NEW S, IsFiniteSet(S), NEW f, \A x \in S : f[x] = 0, NEW g, Adds(g, f, S)
  PROVE  g[S] = 0
  <1> DEFINE T == {s \in SUBSET S : g[s] # 0}
  <1>1. T = {}
    <2> SUFFICES ASSUME T # {} PROVE FALSE
      OBVIOUS
    <2>0. T \subseteq SUBSET S
      OBVIOUS
    <2>1. PICK s \in T : \A y \in T : ~(y \subseteq s /\ y # s)
      <3> HIDE DEF T
      <3> QED BY <2>0, MinimalSubset
    <2>2. s # {}
      BY <2>1, SumFacts
    <2>3. PICK c \in s : c = Pick(s)
      BY <2>2, SumFacts
    <2>4. g[s \ {c}] = 0
      BY <2>1, <2>3
    <2>5. g[s] = f[c] + g[s \ {c}]
      BY <2>1, <2>2, <2>3, SumFacts
    <2> QED BY <2>1, <2>3, <2>4, <2>5
  <1> QED BY <1>1

-----------------------------------------------------------------------------
(* Conduct: a seller whom a rule suspends is suspended *)

PointsOf(k) == MapThenSumSet(LAMBDA i : k[i] * Points[i], Incidents)

\* getActiveStrikePoints adds up the points of the rows.
LEMMA PointsAdd ==
  ASSUME IsFiniteSet(Incidents), NEW k, NEW f, f = [i \in Incidents |-> k[i] * Points[i]]
  PROVE  \E g : Adds(g, f, Incidents) /\ PointsOf(k) = g[Incidents]
  <1> DEFINE Adding(g, s) == k[Pick(s)] * Points[Pick(s)] + g[s \ {Pick(s)}]
             AddsPoints(g) == g = [s \in SUBSET Incidents |-> IF s = {} THEN 0 ELSE Adding(g, s)]
  <1>1. ASSUME NEW g PROVE Adds(g, f, Incidents) <=> AddsPoints(g)
    <2> DEFINE a == [s \in SUBSET Incidents |-> IF s = {} THEN 0 ELSE Adding(g, s)]
               b == [s \in SUBSET Incidents |->
                       IF s = {} THEN 0 ELSE f[Pick(s)] + g[s \ {Pick(s)}]]
    <2>1. \A s \in SUBSET Incidents : s # {} => f[Pick(s)] = k[Pick(s)] * Points[Pick(s)]
      BY PickIn
    <2>2. \A s \in SUBSET Incidents : a[s] = b[s]
      BY <2>1
    <2>3. a = b
      <3>1. DOMAIN a = SUBSET Incidents /\ DOMAIN b = SUBSET Incidents
        OBVIOUS
      <3> QED BY <2>2, <3>1
    <2> QED BY <2>3 DEF Adds
  <1>2. \E g : AddsPoints(g)
    <2>1. \E g : Adds(g, f, Incidents)
      BY SumExists
    <2> HIDE DEF AddsPoints
    <2> QED BY <1>1, <2>1
  <1>3. \E g : AddsPoints(g) /\ PointsOf(k) = g[Incidents]
    BY <1>2 DEF PointsOf, MapThenSumSet, MapThenFoldSet, Pick
  <1> HIDE DEF AddsPoints
  <1> QED BY <1>1, <1>3

\* Fewer rows, fewer points.
LEMMA FewerPoints ==
  ASSUME IsFiniteSet(Incidents),
         NEW k \in [Incidents -> Nat], NEW m \in [Incidents -> Nat], \A i \in Incidents : k[i] <= m[i]
  PROVE  PointsOf(k) \in Int /\ PointsOf(m) \in Int /\ PointsOf(k) <= PointsOf(m)
  <1>1. PICK f : f = [i \in Incidents |-> k[i] * Points[i]]
    OBVIOUS
  <1>2. PICK e : e = [i \in Incidents |-> m[i] * Points[i]]
    OBVIOUS
  <1>3. \A i \in Incidents : /\ f[i] \in Int /\ e[i] \in Int
                             /\ f[i] <= e[i]
    BY <1>1, <1>2, ConductAssumption
  <1>4. f \in [Incidents -> Int] /\ e \in [Incidents -> Int]
    BY <1>1, <1>2, <1>3
  <1>5. PICK g : Adds(g, f, Incidents) /\ PointsOf(k) = g[Incidents]
    BY <1>1, PointsAdd
  <1>6. PICK h : Adds(h, e, Incidents) /\ PointsOf(m) = h[Incidents]
    BY <1>2, PointsAdd
  <1> QED BY <1>3, <1>4, <1>5, <1>6, SumMonotone

\* No rows, no points.
LEMMA NoPoints ==
  ASSUME IsFiniteSet(Incidents)
  PROVE  PointsOf([i \in Incidents |-> 0]) = 0
  <1>1. PICK k : k = [i \in Incidents |-> 0]
    OBVIOUS
  <1>2. PICK f : f = [i \in Incidents |-> k[i] * Points[i]]
    OBVIOUS
  <1>3. \A i \in Incidents : f[i] = 0
    BY <1>1, <1>2, ConductAssumption
  <1>4. PICK g : Adds(g, f, Incidents) /\ PointsOf(k) = g[Incidents]
    BY <1>2, PointsAdd
  <1>5. g[Incidents] = 0
    BY <1>3, <1>4, SumOfZeros
  <1> QED BY <1>1, <1>4, <1>5

\* What the rule of strikes asks for follows the rows.
LEMMA PointsFollow ==
  /\ ActiveStrikePoints = PointsOf(strikes)
  /\ ActiveStrikePoints' = PointsOf(strikes')
  <1>1. ActiveStrikePoints = PointsOf(strikes)
    BY DEF ActiveStrikePoints, PointsOf
  <1>2. ActiveStrikePoints' = PointsOf(strikes')
    BY DEF ActiveStrikePoints, PointsOf, MapThenSumSet, MapThenFoldSet
  <1> QED BY <1>1, <1>2

RatingBroken == BelowThreshold(Cardinality(RatedOrders), RatingSum)

\* What the rule of ratings asks for changes with the reviews only.
LEMMA RatingFollows ==
  ASSUME UNCHANGED review
  PROVE  RatingBroken' = RatingBroken
  <1>1. RatedOrders' = RatedOrders
    BY DEF RatedOrders
  <1>2. RatingSum' = RatingSum
    BY <1>1 DEF RatingSum, MapThenSumSet, MapThenFoldSet
  <1> QED BY <1>1, <1>2 DEF RatingBroken, BelowThreshold

StrikesBroken == ActiveStrikePoints >= SuspensionThresholdPoints

StrikesPcs == {"sumPoints", "suspend"}
RatingPcs == {"evaluateRating", "checkSuspended", "suspend"}
StrikesApplied == ~StrikesBroken \/ "strikes" \in excused \/ Evaluating(StrikesPcs)
RatingApplied == ~RatingBroken \/ "rating" \in excused \/ Evaluating(RatingPcs)

\* The property, by rule.
LEMMA RulesApplied ==
  ASSUME ActiveStrikePoints \in Int
  PROVE  SuspensionRulesApplied <=> suspended \/ (StrikesApplied /\ RatingApplied)
  <1>1. ActiveStrikePoints < SuspensionThresholdPoints <=> ~StrikesBroken
    BY DEF StrikesBroken, SuspensionThresholdPoints
  <1> QED BY <1>1 DEF SuspensionRulesApplied, StrikesApplied, RatingApplied, RatingBroken,
              StrikesPcs, RatingPcs

\* What is evaluated goes on being evaluated while the request stays there, or
\* once another comes.
LEMMA EvaluatingStays ==
  ASSUME NEW t \in Tasks, OnlyMoves(t), NEW pcs, Evaluating(pcs),
         task[t].pc \in pcs => task'[t].pc \in pcs
  PROVE  Evaluating(pcs)'
  BY DEF Evaluating, OnlyMoves

\* A step that writes neither rows nor excuses of the rule of strikes.
LEMMA StrikesUndisturbed ==
  ASSUME UNCHANGED strikes, "strikes" \in excused => "strikes" \in excused', StrikesApplied,
         NEW t \in Tasks, OnlyMoves(t), task[t].pc \notin StrikesPcs
  PROVE  StrikesApplied'
  <1>1. StrikesBroken' <=> StrikesBroken
    BY PointsFollow DEF StrikesBroken
  <1> QED BY <1>1, EvaluatingStays DEF StrikesApplied

\* The same for the rule of ratings.
LEMMA RatingUndisturbed ==
  ASSUME UNCHANGED review, "rating" \in excused => "rating" \in excused', RatingApplied,
         NEW t \in Tasks, OnlyMoves(t), task[t].pc \notin RatingPcs
  PROVE  RatingApplied'
  BY RatingFollows, EvaluatingStays DEF RatingApplied

\* The rows stay rows.
LEMMA StrikesType ==
  ASSUME strikes \in [Incidents -> Nat], ConductNext
  PROVE  strikes' \in [Incidents -> Nat]
  <1>1. CASE \E t \in Tasks : InsertStrike(t)
    <2>1. PICK t \in Tasks : InsertStrike(t)
      BY <1>1
    <2>2. PICK i : i = task[t].arg.incident
      OBVIOUS
    <2>3. strikes' = [strikes EXCEPT ![i] = strikes[i] + 1]
      BY <2>1, <2>2 DEF InsertStrike
    <2>4. CASE i \in Incidents
      <3>1. strikes[i] + 1 \in Nat
        BY <2>4
      <3> QED BY <2>3, <3>1
    <2>5. CASE i \notin Incidents
      BY <2>3, <2>5
    <2> QED BY <2>4, <2>5
  <1>2. CASE \E i \in Incidents : StrikeExpires(i)
    BY <1>2 DEF StrikeExpires
  <1>3. CASE UNCHANGED strikes
    BY <1>3
  <1> QED BY <1>1, <1>2, <1>3
          DEF ConductNext, ConductStep, AddStrike, CreateReview, EvaluateSuspension, SuspendUser,
              InsertReview, CommitReview, EvaluateRating, CheckSuspended, EvaluationFails,
              AdminSuspend, UnsuspendUser, conduct

\* Each request evaluates the rule after its own insert, so of two that overlap
\* the later one sees both rows.
LEMMA RulesKept ==
  ASSUME Pool, IsFiniteSet(Incidents), strikes \in [Incidents -> Nat],
         suspended \/ (StrikesApplied /\ RatingApplied), ConductNext
  PROVE  suspended' \/ (StrikesApplied' /\ RatingApplied')
  <1> USE DEF At
  <1>1. ASSUME NEW t \in Tasks,
               \/ \E i \in Incidents, exclude \in BOOLEAN : AddStrike(t, i, exclude)
               \/ \E o \in Orders, r \in Ratings : CreateReview(t, o, r)
               \/ InsertReview(t)
        PROVE  suspended' \/ (StrikesApplied' /\ RatingApplied')
    <2>1. UNCHANGED <<suspended, strikes, review, excused>>
      BY <1>1 DEF AddStrike, CreateReview, InsertReview, account, conduct
    <2>2. Done(t) \/ \E pc : \E arg : Goto(t, pc, arg)
      BY <1>1 DEF AddStrike, CreateReview, InsertReview
    <2>3. OnlyMoves(t)
      BY <2>2, DoneSlot, GotoSlot
    <2>4. task[t].pc \notin StrikesPcs \cup RatingPcs
      BY <1>1 DEF AddStrike, CreateReview, InsertReview, StrikesPcs, RatingPcs
    <2> QED BY <2>1, <2>3, <2>4, StrikesUndisturbed, RatingUndisturbed
  <1>2. ASSUME NEW t \in Tasks, InsertStrike(t)
        PROVE  suspended' \/ (StrikesApplied' /\ RatingApplied')
    <2>1. /\ UNCHANGED <<suspended, review>> /\ excused' = excused \ {"strikes"}
          /\ task[t].pc = "strike"
      BY <1>2 DEF InsertStrike, account
    <2>2. OnlyMoves(t) /\ task'[t].pc = "sumPoints"
      BY <1>2, GotoSlot DEF InsertStrike
    <2>3. StrikesApplied'
      BY <2>2 DEF StrikesApplied, Evaluating, StrikesPcs
    <2>4. task[t].pc \notin RatingPcs
      BY <2>1 DEF RatingPcs
    <2> QED BY <2>1, <2>2, <2>3, <2>4, RatingUndisturbed
  <1>3. ASSUME NEW t \in Tasks, EvaluateSuspension(t)
        PROVE  suspended' \/ (StrikesApplied' /\ RatingApplied')
    <2>1. /\ UNCHANGED <<suspended, strikes, review, excused>> /\ task[t].pc = "sumPoints"
          /\ Goto(t, "suspend", NoArg) \/ (~StrikesBroken /\ Done(t))
      BY <1>3 DEF EvaluateSuspension, account, conduct, StrikesBroken
    <2>2. OnlyMoves(t) /\ (task'[t].pc = "suspend" \/ ~StrikesBroken)
      BY <2>1, GotoSlot, DoneSlot
    <2>3. StrikesApplied'
      BY <2>1, <2>2, PointsFollow DEF StrikesApplied, StrikesBroken, Evaluating, StrikesPcs
    <2>4. task[t].pc \notin RatingPcs
      BY <2>1 DEF RatingPcs
    <2> QED BY <2>1, <2>2, <2>3, <2>4, RatingUndisturbed
  <1>4. ASSUME NEW t \in Tasks, SuspendUser(t) PROVE suspended'
    BY <1>4 DEF SuspendUser
  <1>5. ASSUME NEW t \in Tasks, CommitReview(t)
        PROVE  suspended' \/ (StrikesApplied' /\ RatingApplied')
    <2>1. /\ UNCHANGED <<suspended, strikes>> /\ excused' = excused \ {"rating"}
          /\ task[t].pc = "commitReview"
      BY <1>5 DEF CommitReview, account
    <2>2. OnlyMoves(t) /\ task'[t].pc = "evaluateRating"
      BY <1>5, GotoSlot DEF CommitReview
    <2>3. RatingApplied'
      BY <2>2 DEF RatingApplied, Evaluating, RatingPcs
    <2>4. task[t].pc \notin StrikesPcs
      BY <2>1 DEF StrikesPcs
    <2> QED BY <2>1, <2>2, <2>3, <2>4, StrikesUndisturbed
  <1>6. ASSUME NEW t \in Tasks, EvaluateRating(t)
        PROVE  suspended' \/ (StrikesApplied' /\ RatingApplied')
    <2>1. /\ UNCHANGED <<suspended, strikes, review, excused>> /\ task[t].pc = "evaluateRating"
          /\ Goto(t, "checkSuspended", NoArg) \/ (~RatingBroken /\ Done(t))
      BY <1>6 DEF EvaluateRating, account, conduct, RatingBroken
    <2>2. OnlyMoves(t) /\ (task'[t].pc = "checkSuspended" \/ ~RatingBroken)
      BY <2>1, GotoSlot, DoneSlot
    <2>3. RatingApplied'
      BY <2>1, <2>2, RatingFollows DEF RatingApplied, Evaluating, RatingPcs
    <2>4. task[t].pc \notin StrikesPcs
      BY <2>1 DEF StrikesPcs
    <2> QED BY <2>1, <2>2, <2>3, <2>4, StrikesUndisturbed
  <1>7. ASSUME NEW t \in Tasks, CheckSuspended(t)
        PROVE  suspended' \/ (StrikesApplied' /\ RatingApplied')
    <2>1. UNCHANGED suspended /\ (suspended \/ Goto(t, "suspend", NoArg))
      BY <1>7 DEF CheckSuspended, account
    <2>2. suspended' \/ task'[t].pc = "suspend"
      BY <2>1, GotoSlot
    <2> QED BY <2>2 DEF StrikesApplied, RatingApplied, Evaluating, StrikesPcs, RatingPcs
  <1>8. ASSUME NEW t \in Tasks, EvaluationFails(t)
        PROVE  suspended' \/ (StrikesApplied' /\ RatingApplied')
    BY <1>8 DEF EvaluationFails, Rules, StrikesApplied, RatingApplied
  <1>9. CASE AdminSuspend \/ UnsuspendUser
    BY <1>9 DEF AdminSuspend, UnsuspendUser, Rules, StrikesApplied, RatingApplied
  <1>10. ASSUME NEW i \in Incidents, StrikeExpires(i)
         PROVE  suspended' \/ (StrikesApplied' /\ RatingApplied')
    <2>1. UNCHANGED <<suspended, review, excused, task>>
      BY <1>10 DEF StrikeExpires, account
    <2>2. strikes' \in [Incidents -> Nat] /\ \A j \in Incidents : strikes'[j] <= strikes[j]
      BY <1>10 DEF StrikeExpires
    <2>3. PointsOf(strikes') \in Int /\ PointsOf(strikes) \in Int
             /\ PointsOf(strikes') <= PointsOf(strikes)
      BY <2>2, FewerPoints
    <2>4. StrikesBroken' => StrikesBroken
      BY <2>3, PointsFollow DEF StrikesBroken, SuspensionThresholdPoints
    <2> QED BY <2>1, <2>4, RatingFollows DEF StrikesApplied, RatingApplied, Evaluating
  <1> QED BY <1>1, <1>2, <1>3, <1>4, <1>5, <1>6, <1>7, <1>8, <1>9, <1>10
          DEF ConductNext, ConductStep

\* The other parts write neither the suspension nor what the rules look at.
LEMMA ConductUndisturbed ==
  ASSUME strikes \in [Incidents -> Nat], suspended \/ (StrikesApplied /\ RatingApplied),
         NEW pcs, Moves(pcs), Apart(pcs, ConductPcs), UNCHANGED <<suspended, conduct>>
  PROVE  strikes' \in [Incidents -> Nat] /\ (suspended' \/ (StrikesApplied' /\ RatingApplied'))
  <1>1. UNCHANGED <<strikes, review, excused>>
    BY DEF conduct
  <1>2. ASSUME NEW own, own \subseteq ConductPcs \ {"idle"}, Evaluating(own)
        PROVE  Evaluating(own)'
    BY <1>2 DEF Evaluating, Moves, Apart
  <1>3. StrikesPcs \subseteq ConductPcs \ {"idle"} /\ RatingPcs \subseteq ConductPcs \ {"idle"}
    BY DEF StrikesPcs, RatingPcs, ConductPcs
  <1>4. StrikesBroken' <=> StrikesBroken
    BY <1>1, PointsFollow DEF StrikesBroken
  <1> QED BY <1>1, <1>2, <1>3, <1>4, RatingFollows DEF StrikesApplied, RatingApplied

\* Billing never writes the suspension.
LEMMA BillingKeepsSuspension ==
  ASSUME BillingNext
  PROVE  UNCHANGED suspended
  BY DEF BillingNext, BillingStep, GetStatus, CreateSubscription, HandleNotice, SyncSubscription,
         Retrieve, WriteState, ReuseExisting, EnsureCustomer, CreateAtStripe,
         VerifyWithRevenueCat, SyncWrite, ApplySubscriptionState, HandleStoreEvent, StoreWrites,
         StripeNext, StoreNext, Tick, InvoicePaid, IncompleteExpires, Renew, RenewFails, Cancel,
         StorePurchase, StoreTells, account

\* addStrike and createForOrder, with finitely many incidents: a seller with the
\* points, or the average rating, that suspend is suspended once the evaluations
\* in flight are over, unless an admin overruled it or an evaluation failed.
THEOREM SellersAreSuspended ==
  ASSUME IsFiniteSet(Incidents)
  PROVE  Spec => []SuspensionRulesApplied
  <1> DEFINE Applied == suspended \/ (StrikesApplied /\ RatingApplied)
             J == strikes \in [Incidents -> Nat] /\ Applied
  <1>1. \A k \in [Incidents -> Nat] : PointsOf(k) \in Int
    BY FewerPoints
  <1>2. J => SuspensionRulesApplied
    BY <1>1, PointsFollow, RulesApplied
  <1>3. Init => J
    <2> SUFFICES ASSUME Init PROVE J
      OBVIOUS
    <2>1. strikes = [i \in Incidents |-> 0] /\ RatedOrders = {}
      BY DEF Init, ConductInit, RatedOrders
    <2>2. ~RatingBroken
      BY <2>1, FS_EmptySet, ConductAssumption DEF RatingBroken, BelowThreshold
    <2>3. PointsOf(strikes) = 0
      BY <1>1, <2>1, NoPoints
    <2> QED BY <2>1, <2>2, <2>3, PointsFollow
            DEF StrikesApplied, RatingApplied, StrikesBroken, SuspensionThresholdPoints
  <1>4. StorefrontInv /\ J /\ [Next]_vars => J'
    <2> SUFFICES ASSUME StorefrontInv, J, [Next]_vars PROVE J'
      OBVIOUS
    <2>0. Pool
      BY DEF StorefrontInv, BillingInv, BillingTypes
    <2>1. CASE Judging
      BY <2>0, <2>1, StrikesType, RulesKept DEF Judging
    <2>2. CASE Billing
      <3>1. BillingNext /\ UNCHANGED conduct
        BY <2>2 DEF Billing, NotConduct
      <3>2. Apart(BillingPcs, ConductPcs)
        BY DEF Apart, BillingPcs, ConductPcs
      <3>3. Moves(BillingPcs) /\ UNCHANGED suspended
        BY <2>0, <3>1, BillingMoves, BillingKeepsSuspension
      <3> QED BY <3>1, <3>2, <3>3, ConductUndisturbed
    <2>3. CASE Verifying
      <3>1. VerificationNext /\ UNCHANGED conduct
        BY <2>3 DEF Verifying, NotConduct
      <3>2. Apart(VerificationPcs, ConductPcs)
        BY DEF Apart, VerificationPcs, ConductPcs
      <3>3. Moves(VerificationPcs) /\ UNCHANGED suspended
        BY <2>0, <3>1, VerificationMoves
      <3> QED BY <3>1, <3>2, <3>3, ConductUndisturbed
    <2>4. CASE Trading
      <3>1. ListingsNext /\ UNCHANGED conduct
        BY <2>4 DEF Trading, NotConduct
      <3>2. Apart(ListingsPcs, ConductPcs)
        BY DEF Apart, ListingsPcs, ConductPcs
      <3>3. Moves(ListingsPcs) /\ UNCHANGED suspended
        BY <2>0, <3>1, ListingsMoves
      <3> QED BY <3>1, <3>2, <3>3, ConductUndisturbed
    <2>5. CASE UNCHANGED vars
      <3>1. UNCHANGED <<task, suspended, conduct>>
        BY <2>5 DEF vars, account
      <3>2. Moves({}) /\ Apart({}, ConductPcs)
        BY <2>0, <3>1, NoMove DEF Apart
      <3> QED BY <3>1, <3>2, ConductUndisturbed
    <2> QED BY <2>1, <2>2, <2>3, <2>4, <2>5 DEF Next
  <1> QED BY <1>2, <1>3, <1>4, StorefrontInvariant, PTL DEF Spec

=============================================================================
