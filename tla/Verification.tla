---------------------------- MODULE Verification ----------------------------
(***************************************************************************)
(* How a seller or a driver becomes verified: the wizard's steps, the      *)
(* documents the user uploads, their review by an admin, and the kycStatus *)
(* that the profile mirrors from them.                                     *)
(*                                                                         *)
(* Code: KycDocumentsService, AdminKycDocumentsService, OnboardingService, *)
(* SellersService (upsertProfile, upsertBusiness, upsertCuisines) and      *)
(* DriversService.                                                         *)
(***************************************************************************)
EXTENDS SellerAccount, Sequences

CONSTANTS
    Roles,       \* the roles to look at, of SELLER and DRIVER
    SellerCategories, \* the categories sellers choose
    DocTypes,    \* the document slots users fill
    IdTypes,     \* kinds of identity papers, PASSPORT or CARTE_IDENTITE
    Vehicles,    \* BIKE, CAR
    MaxReviewers \* reviews that may be in flight at once: one admin

\* SELLER_ALLOWED, DRIVER_MOTORIZED_ONLY, MOTORIZED_VEHICLES and
\* ID_DOCUMENT_TYPES_REQUIRING_VERSO.
SellerAllowed == {"ID_FRONT", "ID_BACK", "SELFIE"}
DriverMotorizedOnly == {"DRIVING_LICENSE", "CARTE_GRISE", "INSURANCE"}
MotorizedVehicles == {"SCOOTER", "CAR"}
RequiringVerso == {"CARTE_IDENTITE", "TITRE_SEJOUR"}

ASSUME VerificationAssumption ==
    /\ Roles \subseteq {"SELLER", "DRIVER"}
    /\ SellerCategories \subseteq Categories
    /\ DocTypes \subseteq SellerAllowed \cup DriverMotorizedOnly
    /\ MaxReviewers \in Nat

VARIABLES
    role,    \* User.role; a driver's kycStatus is profile.kyc too
    docs,    \* KycDocument: reviewState of each slot, "none" without a row
    idType,  \* metadata.idDocumentType of ID_FRONT
    vehicle, \* DriverProfile.vehicleType, "none" before
    steps,   \* the wizard's steps done, of those that need no review
    wasHome  \* history: the seller has been FAIT_MAISON

verification == <<role, docs, idType, vehicle, steps, wasHome>>

VerificationInit ==
    /\ role \in Roles
    /\ docs = [d \in DocTypes |-> "none"]
    /\ idType = "none"
    /\ vehicle = "none"
    /\ steps = {}
    /\ wasHome = FALSE

-----------------------------------------------------------------------------
(* The wizard *)

\* upsertProfile: FAIT_MAISON approves a seller who is PENDING when read.
UpsertProfile(t, category) ==
    /\ At(t, "idle")
    /\ role = "SELLER"
    /\ Goto(t, "writeProfile",
            [category |-> category,
             approve |-> category = "FAIT_MAISON" /\ profile.kyc = "PENDING"])
    /\ UNCHANGED <<account, verification>>

WriteProfile(t) ==
    /\ At(t, "writeProfile")
    /\ LET a == task[t].arg IN
       /\ profile' = [profile EXCEPT !.category = a.category, !.hasFee = TRUE,
                                     !.kyc = IF a.approve THEN "APPROVED" ELSE @]
       /\ wasHome' = (wasHome \/ a.category = "FAIT_MAISON")
    /\ Done(t)
    /\ UNCHANGED <<now, suspended, role, docs, idType, vehicle, steps>>

StepDone(step) ==
    /\ steps' = steps \cup {step}
    /\ UNCHANGED <<account, role, docs, idType, vehicle, wasHome, task>>

\* upsertBusiness, refused for FAIT_MAISON, and upsertCuisines.
UpsertBusiness == role = "SELLER" /\ profile.category # "FAIT_MAISON" /\ StepDone("business")
UpsertCuisines == role = "SELLER" /\ StepDone("cuisines")

\* upsertVehicle with the date of birth, and upsertZones.
UpsertVehicle(v) ==
    /\ role = "DRIVER"
    /\ vehicle' = v
    /\ UNCHANGED <<account, role, docs, idType, steps, wasHome, task>>
UpsertZones == role = "DRIVER" /\ StepDone("zones")

-----------------------------------------------------------------------------
(* KycDocumentsService *)

\* upsert: a slot of the role, and for a driver's car papers a motor.
MayUpload(d) ==
    \/ role = "SELLER" /\ profile.category # "FAIT_MAISON" /\ d \in SellerAllowed
    \/ role = "DRIVER" /\ (d \in DriverMotorizedOnly => vehicle \in MotorizedVehicles)

UploadDocument(t, d, id) ==
    /\ At(t, "idle")
    /\ MayUpload(d)
    /\ Goto(t, "upload", [doc |-> d, id |-> id, rejected |-> profile.kyc = "REJECTED"])
    /\ UNCHANGED <<account, verification>>

\* A review holds the row of its document until it commits.
Locked(d) == \E u \in Tasks : At(u, "commitDecision") /\ task[u].arg.doc = d

\* The slot is PENDING again; the profile too, if it was REJECTED when read.
CommitUpload(t) ==
    /\ At(t, "upload")
    /\ LET a == task[t].arg IN
       /\ ~Locked(a.doc)
       /\ docs' = [docs EXCEPT ![a.doc] = "PENDING"]
       /\ idType' = IF a.doc = "ID_FRONT" THEN a.id ELSE idType
       /\ profile' = IF a.rejected THEN [profile EXCEPT !.kyc = "PENDING"] ELSE profile
    /\ Done(t)
    /\ UNCHANGED <<now, suspended, role, vehicle, steps, wasHome>>

-----------------------------------------------------------------------------
(* AdminKycDocumentsService *)

Reviewing == {t \in Tasks : task[t].pc \in {"decide", "commitDecision"}}

\* transitionStatus: a decision that changes nothing is a 409.
Decide(t, d, state) ==
    /\ At(t, "idle")
    /\ Cardinality(Reviewing) < MaxReviewers
    /\ docs[d] \notin {"none", state}
    /\ Goto(t, "decide", [doc |-> d, state |-> state])
    /\ UNCHANGED <<account, verification>>

\* Mutant: one approved document is enough.
AggregateAny(states) ==
    IF "APPROVED" \in states THEN "APPROVED"
    ELSE IF "REJECTED" \in states THEN "REJECTED" ELSE "PENDING"

\* aggregateState.
AggregateState(states) ==
    IF "REJECTED" \in states THEN "REJECTED"
    ELSE IF "PENDING" \in states \/ states = {} THEN "PENDING"
    ELSE "APPROVED"

\* The states of the documents that exist, with one of them decided.
StatesWith(d, state) ==
    {IF e = d THEN state ELSE docs[e] : e \in {x \in DocTypes : docs[x] # "none"}}

\* In the transaction: the document is written and the states are read, with
\* nobody else's uncommitted write.
AggregateDecision(t) ==
    /\ At(t, "decide")
    /\ LET a == task[t].arg IN
       /\ ~Locked(a.doc)
       /\ Goto(t, "commitDecision",
               [doc |-> a.doc, state |-> a.state,
                agg |-> AggregateState(StatesWith(a.doc, a.state))])
    /\ UNCHANGED <<account, verification>>

CommitDecision(t) ==
    /\ At(t, "commitDecision")
    /\ LET a == task[t].arg IN
       /\ docs' = [docs EXCEPT ![a.doc] = a.state]
       /\ profile' = [profile EXCEPT !.kyc = a.agg]
    /\ Done(t)
    /\ UNCHANGED <<now, suspended, role, idType, vehicle, steps, wasHome>>

-----------------------------------------------------------------------------
(* OnboardingService *)

DocState(d) == IF d \in DocTypes THEN docs[d] ELSE "none"

\* derivSlotStatus.
SlotStatus(d) ==
    CASE DocState(d) \in {"none", "REJECTED"} -> "incomplete"
      [] DocState(d) = "PENDING" -> "pending_review"
      [] DocState(d) = "APPROVED" -> "complete"

\* aggregateStepStatuses.
StepStatus(slots) ==
    IF "incomplete" \in slots THEN "incomplete"
    ELSE IF "pending_review" \in slots THEN "pending_review" ELSE "complete"

\* Mutant: the back is never asked for.
KycIdStatusFrontOnly == SlotStatus("ID_FRONT")

\* derivKycIdStatus: the back is needed for the papers that have one.
KycIdStatus ==
    StepStatus({SlotStatus("ID_FRONT")} \cup
               (IF idType \in RequiringVerso THEN {SlotStatus("ID_BACK")} ELSE {}))

\* The documents step: a licence and the car's papers.
DocumentsStatus ==
    IF vehicle = "none" THEN "incomplete"
    ELSE IF vehicle \notin MotorizedVehicles THEN "skipped"
    ELSE StepStatus({SlotStatus("DRIVING_LICENSE"), SlotStatus("CARTE_GRISE")})

Ticked(done) == IF done THEN "complete" ELSE "incomplete"

\* sellerState and driverState, without the address and the charter, which are
\* taken to be there.
SellerSteps ==
    LET home == profile.category = "FAIT_MAISON" IN
    << Ticked(profile.category # "none"),
       IF home THEN "skipped" ELSE Ticked("business" \in steps),
       Ticked("cuisines" \in steps),
       IF home THEN "skipped" ELSE KycIdStatus,
       IF home THEN "skipped" ELSE SlotStatus("SELFIE") >>
DriverSteps ==
    << Ticked(vehicle # "none"), Ticked("zones" \in steps), KycIdStatus,
       SlotStatus("SELFIE"), DocumentsStatus >>
WizardSteps == IF role = "SELLER" THEN SellerSteps ELSE DriverSteps

AllDone == \A i \in DOMAIN WizardSteps : WizardSteps[i] \in {"complete", "skipped"}

\* canList, canDeliver.
CanTrade == AllDone /\ profile.kyc = "APPROVED"

-----------------------------------------------------------------------------
VerificationStep(t) ==
    WriteProfile(t) \/ CommitUpload(t) \/ AggregateDecision(t) \/ CommitDecision(t)

VerificationNext ==
    \/ \E t \in Tasks :
         \/ \E c \in SellerCategories : UpsertProfile(t, c)
         \/ \E d \in DocTypes, id \in IdTypes : UploadDocument(t, d, id)
         \/ \E d \in DocTypes, state \in {"APPROVED", "REJECTED"} : Decide(t, d, state)
         \/ VerificationStep(t)
    \/ UpsertBusiness \/ UpsertCuisines \/ UpsertZones
    \/ \E v \in Vehicles : UpsertVehicle(v)

-----------------------------------------------------------------------------
(* Properties *)

VerificationTypeOK ==
    /\ role \in Roles
    /\ docs \in [DocTypes -> {"none", "PENDING", "APPROVED", "REJECTED"}]
    /\ idType \in IdTypes \cup {"none"}
    /\ vehicle \in Vehicles \cup {"none"}
    /\ steps \subseteq {"business", "cuisines", "zones"}

Uploaded == {d \in DocTypes : docs[d] # "none"}

\* "any REJECTED -> REJECTED; else any PENDING -> PENDING; else (all APPROVED) ->
\* APPROVED" (transitionStatus): with one review at a time, uploads and profile
\* edits that overlap it never leave a user unapproved whose documents all are,
\* nor one approved by documents of which one is rejected.
KycFollowsReviews ==
    /\ Uploaded # {} /\ (\A d \in Uploaded : docs[d] = "APPROVED") => profile.kyc = "APPROVED"
    /\ profile.kyc = "APPROVED" /\ ~wasHome => \A d \in Uploaded : docs[d] # "REJECTED"

\* The documents that the wizard asks for.
Required ==
    {"ID_FRONT", "SELFIE"}
      \cup (IF idType \in RequiringVerso THEN {"ID_BACK"} ELSE {})
      \cup (IF role = "DRIVER" /\ vehicle \in MotorizedVehicles
            THEN {"DRIVING_LICENSE", "CARTE_GRISE"} ELSE {})

\* getOnboardingState is the "single source of truth for what's left for this user
\* to do": a user who has uploaded what was asked for, and nothing else, and whom
\* the wizard tells nothing is left, may trade.
CompleteMeansCanTrade ==
    AllDone /\ Uploaded \subseteq Required /\ profile.category # "FAIT_MAISON" => CanTrade
=============================================================================
