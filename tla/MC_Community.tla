---------------------------- MODULE MC_Community -----------------------------
(***************************************************************************)
(* Every behaviour looks at one part, with the pushes that part sends: the *)
(* parts share no rows but the device tokens.                              *)
(***************************************************************************)
EXTENDS Community, TLC

CONSTANTS
    t1, t2, i1, i2, e1, e2, p1, p2, doc1, doc2, v0, v1, v2, c1, c2, m1, m2, ulysse, solene, dario, j1, j2

CONSTANT Areas   \* what a run looks at

VARIABLE focus

MCGuest == j1 :> ulysse @@ j2 :> solene

MCSymmetry ==
    UNION {Permutations(S) : S \in {Tasks, Phones, Conversations}}

\* Two people who have signed up and hold a session.
SignedUp ==
    /\ auth = (i1 :> NewIdentity(e1, TRUE) @@ i2 :> NewIdentity(e2, TRUE))
    /\ token = [i \in Ids |-> Session(auth[i])]
    /\ late = {} /\ codes = {} /\ texts = {}
    /\ user = [i \in Ids |-> Null]
    /\ proven = {} /\ edited = {} /\ missed = {}

MCInit ==
    /\ focus \in Areas
    /\ RequestsInit
    /\ IF focus = "phones" THEN SignedUp ELSE AccountsInit
    /\ AddressesInit
    /\ focus # "addresses" => addressRole = CHOOSE r \in AddressRoles : TRUE
    /\ IF focus \in {"legal", "chat"}
       THEN /\ deviceToken = [d \in Devices |-> IF d = "phone" THEN solene ELSE Null]
            /\ inserted = [d \in Devices |-> IF d = "phone" THEN 1 ELSE 0]
            /\ login = deviceToken /\ gone = {} /\ struck = {}
       ELSE PushInit
    /\ LegalInit
    /\ MessagingInit
    /\ TrackingInit
    /\ ReportsInit
    /\ focus # "reports" => homemade = Dishes
    /\ focus = "map" => \A j \in Trips : trip[j].status # "SEARCHING"
    /\ focus \notin {"map", "codes"} => trip = [j \in Trips |-> Row("UNREADY", Null, 0)]

\* Bounds: one person, the first of two who are alike, whose row has missed the
\* number or whose number was edited, two proofs, one SMS code at a time; one
\* code in the mail at a time, one address, and no number typed.
OnePerson == missed \cup edited \subseteq {i1}
PhoneBounds ==
    /\ OnePerson /\ Cardinality(missed) + Cardinality(edited) <= 1
    /\ Cardinality(proven) <= 2 /\ Cardinality(texts) <= 1
MailBounds ==
    /\ OnePerson
    /\ Cardinality(codes) <= 1 /\ EmailFree(e2)
    /\ \A t \in Tasks : At(t, "readIdentity") => Arg(t).typed = Null
\* Two threads, one of the order and one outside it; the seller, who is in
\* both, marks them read.
ChatBounds ==
    \A t \in Tasks :
        /\ At(t, "createThread") =>
              Arg(t).key \in { Key("BUYER_SELLER", FALSE, {Buyer, Seller}),
                               Key("SELLER_DRIVER", TRUE, {Seller, dario}) }
        /\ At(t, "markRead") => Arg(t).user = Seller
\* One watching buyer, at whose seller's the driver arrives; a driver who is
\* suspended or not approved, which has no effect on positions, sends none.
MapBounds ==
    /\ rooms[solene] = {}
    /\ \A t \in Tasks : At(t, "arrive") => Arg(t).trip = j1
    /\ trip[j2].status # "AT_PICKUP"
    /\ \A c \in Couriers : ~MayWork(c) => fixes = 0
LegalBounds == Cardinality(accepted) <= 1
\* Two people; the phone's token has two rows, one after the other.
PushBounds ==
    /\ inserted["phone"] <= 2 /\ inserted["tablet"] <= 1
    /\ \A t \in Tasks :
          /\ At(t, "register") => Arg(t).user # dario
          /\ At(t, "broadcast") => dario \notin Arg(t).users

Announcing == Delivering /\ UNCHANGED <<accounts, addresses, legal, messaging, tracking, reports>>
\* Leaving a room one is not in changes nothing.
Moving == Watching /\ rooms' # rooms
NotTracking == UNCHANGED <<accounts, addresses, legal, messaging, reports>>
NotAccounts == UNCHANGED <<addresses, push, legal, messaging, tracking, reports>>

MCNext ==
    /\ UNCHANGED focus
    /\ \/ focus = "phones" /\ (PhoneNumbers \/ UserCreation) /\ NotAccounts /\ PhoneBounds'
       \/ focus = "mail" /\ (Sessions \/ EmailCodes \/ UserCreation) /\ NotAccounts /\ MailBounds'
       \/ focus = "addresses" /\ Locating
       \/ focus = "push" /\ Pushing /\ PushBounds'
       \/ focus = "legal" /\ (Legislating \/ Announcing) /\ LegalBounds'
       \/ focus = "chat" /\ (Chatting \/ Announcing) /\ ChatBounds'
       \/ focus = "map" /\ (Driving \/ Dispatching \/ Arriving \/ Moving) /\ NotTracking /\ MapBounds'
       \/ focus = "codes" /\ (Dispatching \/ Arriving \/ HandingOver) /\ NotTracking
       \/ focus = "reports" /\ Moderating

MCSpec == MCInit /\ [][MCNext]_<<vars, focus>>
=============================================================================
