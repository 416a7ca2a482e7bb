------------------------------ MODULE Tracking ------------------------------
(***************************************************************************)
(* Dispatch and live tracking: the driver's side of DeliveriesService      *)
(* (going online, positions, claims, the two QR scans), the QR codes and   *)
(* the tracking snapshot of OrdersService, and TrackingGateway, which fans *)
(* positions out to the buyers' sockets.                                   *)
(*                                                                         *)
(* An order and its delivery are one trip.  PICKED_UP stands for the three *)
(* statuses after the pickup, OVER for the final ones; nothing sets        *)
(* EN_ROUTE_TO_PICKUP.  How a trip is cancelled, and the money, are OrderFlow; *)
(* the thread a claim opens is Messaging; of a step's pushes the one to    *)
(* the buyer, or to the drivers, is kept.  A position is the number of the *)
(* fix the driver's phone took; Redis is external and may lose a message.  *)
(***************************************************************************)
EXTENDS Integers, FiniteSets, Push

CONSTANTS
    Trips,
    Guest,     \* the buyer of each trip
    Couriers,  \* drivers
    MaxFixes, MaxTokens  \* bounds on the positions taken and the tokens minted

ASSUME GuestAssumption == Guest \in [Trips -> Users] /\ Couriers \subseteq Users

VARIABLES
    account,  \* DriverProfile, with User.isSuspended
    trip,     \* Delivery rows
    rooms,    \* the delivery rooms each user's socket is in
    stream,   \* the last position each user's socket received of each trip
    shown,    \* the codes on display of each trip
    fixes,    \* positions taken so far
    minted,   \* tokens minted so far
    crossed,  \* history: drivers two requests of whom overlapped
    raced     \* history: trips whose token two requests were minting, or on which
              \* an arrival or a pickup was written over a later status

tracking == <<account, trip, rooms, stream, shown, fixes, minted, crossed, raced>>

Row(status, driverId, at) ==
    [status |-> status, driver |-> driverId, at |-> at, pickup |-> 0, dropoff |-> 0]

\* A trip starts before mark-ready, or on the road since before there were
\* QR codes.
TrackingInit ==
    /\ account = [c \in Couriers |-> [suspended |-> FALSE, approved |-> TRUE,
                                      online |-> FALSE, point |-> 0]]
    /\ trip \in [Trips -> {Row("UNREADY", Null, 0)} \cup {Row("PICKED_UP", c, 1) : c \in Couriers}
                          \cup {Row("SEARCHING", Null, 0)}]
    /\ rooms = [u \in Users |-> {}]
    /\ stream = [u \in Users |-> [j \in Trips |-> Null]]
    /\ shown = [j \in Trips |-> [pickup |-> {}, dropoff |-> {}]]
    /\ fixes = 0 /\ minted = 0 /\ crossed = {} /\ raced = {}

Token == minted + 1
Mint == minted < MaxTokens /\ minted' = Token

-----------------------------------------------------------------------------
(* Drivers                                                                 *)

\* A suspended driver, or one whose KYC is not approved, neither goes online
\* nor claims.
MayWork(c) == account[c].approved /\ ~account[c].suspended

\* An administrator's decisions; neither takes the driver offline.
Suspend(c) ==
    /\ account' = [account EXCEPT ![c].suspended = ~@]
    /\ UNCHANGED <<trip, rooms, stream, shown, fixes, minted, crossed, raced, push, task>>
Review(c) ==
    /\ account' = [account EXCEPT ![c].approved = ~@]
    /\ UNCHANGED <<trip, rooms, stream, shown, fixes, minted, crossed, raced, push, task>>

\* The phone takes a fix and sends it; its requests may overtake each other.
Reporting == {"setOnline", "onlinePoint", "record", "findActive", "publish"}
TakeFix(t, c) ==
    /\ fixes < MaxFixes /\ fixes' = fixes + 1
    /\ crossed' = IF \E v \in Tasks \ {t} : task[v].pc \in Reporting /\ Arg(v).driver = c
                  THEN crossed \cup {c} ELSE crossed

\* setOnline: the checks, the flag, then the point in a statement of its own.
SetOnline(t, c, on) ==
    /\ At(t, "idle") /\ (on => MayWork(c))
    /\ \/ TakeFix(t, c) /\ Goto(t, "setOnline", [driver |-> c, on |-> on, fix |-> fixes'])
       \/ Goto(t, "setOnline", [driver |-> c, on |-> on, fix |-> 0]) /\ UNCHANGED <<fixes, crossed>>
    /\ UNCHANGED <<account, trip, rooms, stream, shown, minted, raced, push>>
WriteOnline(t) ==
    /\ At(t, "setOnline")
    /\ account' = [account EXCEPT ![Arg(t).driver].online = Arg(t).on]
    /\ IF Arg(t).fix = 0 THEN Done(t) ELSE Goto(t, "onlinePoint", Arg(t))
    /\ UNCHANGED <<trip, rooms, stream, shown, fixes, minted, crossed, raced, push>>
WriteOnlinePoint(t) ==
    /\ At(t, "onlinePoint")
    /\ account' = [account EXCEPT ![Arg(t).driver].point = Arg(t).fix]
    /\ Done(t)
    /\ UNCHANGED <<trip, rooms, stream, shown, fixes, minted, crossed, raced, push>>

Over == {j \in Trips : trip[j].status = "OVER"}
BeforePickup == {"ASSIGNED", "AT_PICKUP"}
Active(c) == {j \in Trips : trip[j].driver = c /\ trip[j].status \in BeforePickup \cup {"PICKED_UP"}}

\* recordLocation: the point is written, the driver's latest active delivery
\* read, and the position published on its channel.
RecordLocation(t, c) ==
    /\ At(t, "idle")
    /\ TakeFix(t, c)
    /\ Goto(t, "record", [driver |-> c, fix |-> fixes', over |-> Over])
    /\ UNCHANGED <<account, trip, rooms, stream, shown, minted, raced, push>>
WriteFix(t) ==
    /\ At(t, "record")
    /\ account' = [account EXCEPT ![Arg(t).driver].point = Arg(t).fix]
    /\ Goto(t, "findActive", Arg(t))
    /\ UNCHANGED <<trip, rooms, stream, shown, fixes, minted, crossed, raced, push>>

LatestOf(S) == {j \in S : \A k \in S : trip[k].at <= trip[j].at}
\* The position as it goes out on the channel of a delivery.
Position(a, j) == [driver |-> a.driver, fix |-> a.fix, over |-> a.over, trip |-> j]
\* Mutant: the driver's latest delivery, whatever its status.
FindActiveAny(t) ==
    /\ At(t, "findActive")
    /\ LET mine == {j \in Trips : trip[j].driver = Arg(t).driver} IN
       IF mine = {} THEN Done(t)
       ELSE \E j \in LatestOf(mine) : Goto(t, "publish", Position(Arg(t), j))
    /\ UNCHANGED <<tracking, push>>
FindActive(t) ==
    /\ At(t, "findActive")
    /\ IF Active(Arg(t).driver) = {} THEN Done(t)
       ELSE \E j \in LatestOf(Active(Arg(t).driver)) : Goto(t, "publish", Position(Arg(t), j))
    /\ UNCHANGED <<tracking, push>>

\* The publication, and the gateway's fan-out to the delivery's room.
PublishPosition(t) ==
    /\ At(t, "publish")
    /\ LET a == Arg(t) IN
       stream' = [u \in Users |->
           IF a.trip \notin rooms[u] THEN stream[u]
           ELSE [stream[u] EXCEPT ![a.trip] =
                    [driver |-> a.driver, fix |-> a.fix, late |-> a.trip \in a.over]]]
    /\ Done(t)
    /\ UNCHANGED <<account, trip, rooms, shown, fixes, minted, crossed, raced, push>>
PublicationLost(t) ==
    /\ At(t, "publish")
    /\ Done(t)
    /\ UNCHANGED <<tracking, push>>

-----------------------------------------------------------------------------
(* Trips                                                                   *)

\* markReady mints the pickup token with the row and calls the drivers who
\* are online.
MarkReady(t, j) ==
    /\ At(t, "idle") /\ trip[j].status = "UNREADY"
    /\ Mint
    /\ trip' = [trip EXCEPT ![j].status = "SEARCHING", ![j].pickup = Token]
    /\ SendToUsers(t, {c \in Couriers : account[c].online})
    /\ UNCHANGED <<account, rooms, stream, shown, fixes, crossed, raced, push>>

\* listAvailable: every unclaimed job, whoever asks.
ListAvailable == {j \in Trips : trip[j].status = "SEARCHING" /\ trip[j].driver = Null}

\* claim: the driver is checked, then one UPDATE takes the job if it is free.
Claim(t, c, j) ==
    /\ At(t, "idle") /\ MayWork(c) /\ j \in ListAvailable
    /\ Goto(t, "claim", [driver |-> c, trip |-> j])
    /\ UNCHANGED <<tracking, push>>
Claimed == Cardinality({j \in Trips : trip[j].driver # Null})
WriteClaim(t) ==
    /\ At(t, "claim")
    /\ IF Arg(t).trip \in ListAvailable
       THEN /\ trip' = [trip EXCEPT ![Arg(t).trip].status = "ASSIGNED",
                ![Arg(t).trip].driver = Arg(t).driver, ![Arg(t).trip].at = Claimed + 1]
            /\ SendToUsers(t, {Guest[Arg(t).trip]})
       ELSE Done(t) /\ UNCHANGED trip
    /\ UNCHANGED <<account, rooms, stream, shown, fixes, minted, crossed, raced, push>>

\* Another request is minting a token of the same trip.
Minting(t, pc, j) == \E v \in Tasks \ {t} : At(v, pc) /\ Arg(v).trip = j
Race(cond, j) == raced' = IF cond THEN raced \cup {j} ELSE raced

\* getSellerPickupQr shows the token of the row, and mints one only for a
\* row that has none.
\* Mutant: every fetch mints a token.
GetSellerPickupQrAnew(t, j) ==
    /\ At(t, "idle") /\ trip[j].status # "UNREADY"
    /\ Goto(t, "mintPickup", [trip |-> j])
    /\ Race(Minting(t, "mintPickup", j), j)
    /\ UNCHANGED <<account, trip, rooms, stream, shown, fixes, minted, crossed, push>>
GetSellerPickupQr(t, j) ==
    /\ At(t, "idle") /\ trip[j].status # "UNREADY"
    /\ IF trip[j].pickup # 0
       THEN shown' = [shown EXCEPT ![j].pickup = @ \cup {trip[j].pickup}] /\ UNCHANGED <<raced, task>>
       ELSE /\ Goto(t, "mintPickup", [trip |-> j])
            /\ Race(Minting(t, "mintPickup", j), j)
            /\ UNCHANGED shown
    /\ UNCHANGED <<account, trip, rooms, stream, fixes, minted, crossed, push>>
MintPickup(t) ==
    /\ At(t, "mintPickup") /\ Mint
    /\ trip' = [trip EXCEPT ![Arg(t).trip].pickup = Token]
    /\ shown' = [shown EXCEPT ![Arg(t).trip].pickup = @ \cup {Token}]
    /\ Done(t)
    /\ UNCHANGED <<account, rooms, stream, fixes, crossed, raced, push>>

\* arriveAtPickup: the driver of the trip is at the seller's; the write names
\* the row only, whatever it has become.
ArriveAtPickup(t, c, j) ==
    /\ At(t, "idle") /\ trip[j].driver = c /\ trip[j].status = "ASSIGNED"
    /\ Goto(t, "arrive", [trip |-> j])
    /\ UNCHANGED <<tracking, push>>
WriteArrival(t) ==
    /\ At(t, "arrive")
    /\ LET j == Arg(t).trip IN
       /\ trip' = [trip EXCEPT ![j].status = "AT_PICKUP"]
       /\ Race(trip[j].status \notin BeforePickup, j)
       /\ SendToUsers(t, {Guest[j]})
    /\ UNCHANGED <<account, rooms, stream, shown, fixes, minted, crossed, push>>

\* confirmPickup: the driver of the trip scans a code on display, once: a pickup
\* is stamped with the dropoff token it mints.  The write names the row only.
ConfirmPickup(t, c, j) ==
    /\ At(t, "idle") /\ trip[j].driver = c /\ trip[j].status \in BeforePickup
    /\ trip[j].dropoff = 0
    /\ trip[j].pickup \in shown[j].pickup
    /\ Goto(t, "pickup", [trip |-> j])
    /\ UNCHANGED <<tracking, push>>
WritePickup(t) ==
    /\ At(t, "pickup") /\ Mint
    /\ LET j == Arg(t).trip IN
       /\ trip' = [trip EXCEPT ![j].status = "PICKED_UP", ![j].dropoff = Token]
       /\ Race(trip[j].status \notin BeforePickup, j)
       /\ SendToUsers(t, {Guest[j]})
    /\ UNCHANGED <<account, rooms, stream, shown, fixes, crossed, push>>

\* getBuyerDeliveryQr, once the pickup is confirmed.
GetBuyerDeliveryQr(t, j) ==
    /\ At(t, "idle") /\ trip[j].status = "PICKED_UP"
    /\ IF trip[j].dropoff # 0
       THEN shown' = [shown EXCEPT ![j].dropoff = @ \cup {trip[j].dropoff}] /\ UNCHANGED <<raced, task>>
       ELSE /\ Goto(t, "mintDropoff", [trip |-> j])
            /\ Race(Minting(t, "mintDropoff", j), j)
            /\ UNCHANGED shown
    /\ UNCHANGED <<account, trip, rooms, stream, fixes, minted, crossed, push>>
MintDropoff(t) ==
    /\ At(t, "mintDropoff") /\ Mint
    /\ trip' = [trip EXCEPT ![Arg(t).trip].dropoff = Token]
    /\ shown' = [shown EXCEPT ![Arg(t).trip].dropoff = @ \cup {Token}]
    /\ Done(t)
    /\ UNCHANGED <<account, rooms, stream, fixes, crossed, raced, push>>

\* confirmDelivery: the driver scans the buyer's code.
ConfirmDelivery(t, c, j) ==
    /\ At(t, "idle") /\ trip[j].driver = c /\ trip[j].status = "PICKED_UP"
    /\ trip[j].dropoff \in shown[j].dropoff
    /\ Goto(t, "deliver", [trip |-> j])
    /\ UNCHANGED <<tracking, push>>
WriteDelivered(t) ==
    /\ At(t, "deliver")
    /\ trip' = [trip EXCEPT ![Arg(t).trip].status = "OVER"]
    /\ SendToUsers(t, {Guest[Arg(t).trip]})
    /\ UNCHANGED <<account, rooms, stream, shown, fixes, minted, crossed, raced, push>>

\* A cancellation or a timeout ends the trip.
EndTrip(j) ==
    /\ trip[j].status \in BeforePickup \cup {"SEARCHING", "PICKED_UP"}
    /\ trip' = [trip EXCEPT ![j].status = "OVER"]
    /\ UNCHANGED <<account, rooms, stream, shown, fixes, minted, crossed, raced, push, task>>

-----------------------------------------------------------------------------
(* Sockets                                                                 *)

\* onSubscribe: the buyer joins the room of the delivery, once there is one.
Subscribe(u, j) ==
    /\ trip[j].status # "UNREADY" /\ Guest[j] = u
    /\ rooms' = [rooms EXCEPT ![u] = @ \cup {j}]
    /\ UNCHANGED <<account, trip, stream, shown, fixes, minted, crossed, raced, push, task>>
Unsubscribe(u, j) ==
    /\ rooms' = [rooms EXCEPT ![u] = @ \ {j}]
    /\ UNCHANGED <<account, trip, stream, shown, fixes, minted, crossed, raced, push, task>>
\* A socket reconnects, in no room.
Reconnect(u) ==
    /\ rooms' = [rooms EXCEPT ![u] = {}]
    /\ UNCHANGED <<account, trip, stream, shown, fixes, minted, crossed, raced, push, task>>

\* getTracking: the first frame, to a party of the order.
IsParty(u, j) == u \in {Guest[j], trip[j].driver}
GetTracking(j) ==
    [status |-> trip[j].status, driver |-> trip[j].driver,
     point |-> IF trip[j].driver = Null THEN 0 ELSE account[trip[j].driver].point]

Driving ==
    \/ \E t \in Tasks :
          \/ \E c \in Couriers : RecordLocation(t, c) \/ \E on \in BOOLEAN : SetOnline(t, c, on)
          \/ WriteOnline(t) \/ WriteOnlinePoint(t) \/ WriteFix(t) \/ FindActive(t)
          \/ PublishPosition(t) \/ PublicationLost(t)
    \/ \E c \in Couriers : Suspend(c) \/ Review(c)
Dispatching ==
    \/ \E t \in Tasks :
          \/ \E j \in Trips : MarkReady(t, j) \/ \E c \in Couriers : Claim(t, c, j)
          \/ WriteClaim(t)
    \/ \E j \in Trips : EndTrip(j)
Arriving ==
    \E t \in Tasks :
        WriteArrival(t) \/ \E j \in Trips, c \in Couriers : ArriveAtPickup(t, c, j)
HandingOver ==
    \E t \in Tasks :
        \/ \E j \in Trips : GetSellerPickupQr(t, j) \/ GetBuyerDeliveryQr(t, j)
        \/ \E j \in Trips, c \in Couriers : ConfirmPickup(t, c, j) \/ ConfirmDelivery(t, c, j)
        \/ MintPickup(t) \/ WritePickup(t) \/ MintDropoff(t) \/ WriteDelivered(t)
Watching ==
    \E u \in Users : Reconnect(u) \/ \E j \in Trips : Subscribe(u, j) \/ Unsubscribe(u, j)

TrackingNext == Driving \/ Dispatching \/ Arriving \/ HandingOver \/ Watching

-----------------------------------------------------------------------------
(* Properties                                                              *)

\* recordLocation reads the driver's active delivery and publishes on its
\* channel later; sockets come and go meanwhile.  A buyer is shown positions
\* of the driver of his own order only, and none taken after the trip ended,
\* unless a pickup or an arrival that was checked before brought it back.
BuyerFollowsOwnTrip ==
    \A u \in Users, j \in Trips : stream[u][j] # Null =>
        /\ IsParty(u, j)
        /\ stream[u][j].driver = trip[j].driver
        /\ j \notin raced => ~stream[u][j].late

\* getTracking is "the initial frame; live driver movement then streams":
\* the frame is never behind the stream, so that whoever opens the map again
\* does not see the driver jump back, unless two requests of the driver
\* overlapped.
SnapshotNotBehindStream ==
    \A u \in Users, j \in Trips :
        stream[u][j] # Null /\ stream[u][j].driver \notin crossed =>
            GetTracking(j).point >= stream[u][j].fix

\* Every code on display opens its trip: a QR fetched earlier, or on another
\* device, is still the token of the row, unless two requests were minting it
\* at once, or a pickup or an arrival was written over a later status.
ShownCodeOpens ==
    \A j \in Trips \ raced :
        /\ shown[j].pickup \subseteq {trip[j].pickup}
        /\ shown[j].dropoff \subseteq {trip[j].dropoff}
=============================================================================
