--------------------------- MODULE CommunityProofs --------------------------
(***************************************************************************)
(* What holds of accounts, addresses, pushes, terms, chats and the map for *)
(* any number of requests, people and rows.                                *)
(*                                                                         *)
(* As in StorefrontProofs the parts share the pool of requests in flight,  *)
(* and nothing of it but idle slots and the push that ends a handler: a    *)
(* part's steps move its own requests (AccountsMoves, ...), so what another *)
(* part claims of its requests and rows stays true (AccountsUndisturbed,   *)
(* ...).  Each part then has an inductive invariant of its own.            *)
(***************************************************************************)
EXTENDS Community, FiniteSetTheorems, TLAPS

-----------------------------------------------------------------------------
(* The pool of requests *)

Pool == DOMAIN task = Tasks

\* Only requests at these steps move, and only to these steps.
Moves(pcs) ==
    \A t \in Tasks : task'[t] # task[t] => task[t].pc \in pcs /\ task'[t].pc \in pcs

\* No request but t moves.
OnlyMoves(t) == \A u \in Tasks \ {t} : task'[u] = task[u]

\* A request that comes to a push has found no invalid token yet.
NewPush(arg) == DOMAIN arg = {"left", "invalid", "rejected"} /\ arg.invalid = {}
PushesAnew ==
    \A t \in Tasks : task'[t] # task[t] /\ task'[t].pc = "push" => NewPush(task'[t].arg)

\* Two parts share idle slots and pushes only.
Apart(pcs, own) == pcs \cap own \subseteq {"idle", "push"}

PhoneWrites ==
    {"checkPhone", "confirmPhone", "mirrorPhone", "readIdentity", "checkEmail", "checkTyped",
     "insertUser", "editPhone"}
AccountsPcs == {"idle", "sendEmail", "mirrorEmail", "sendSocial", "sendText"} \cup PhoneWrites
AddressesPcs == {"idle"} \cup AddressWrites
PushPcs == {"idle", "register", "remove", "broadcast", "push"}
LegalPcs ==
    {"idle", "insertDocument", "writeDocument", "deactivate", "activate", "commit", "accept", "push"}
MessagingPcs == {"idle", "createThread", "markRead", "writeMessage", "notifyPeers", "push"}
TrackingPcs ==
    {"idle", "setOnline", "onlinePoint", "record", "findActive", "publish", "claim", "mintPickup",
     "arrive", "pickup", "mintDropoff", "deliver", "push"}
ReportsPcs == {"idle", "insertReport", "decideReport"}

\* Goto writes the slot of one request: an await of any handler.
LEMMA GotoSlot ==
  ASSUME Pool, NEW t \in Tasks, NEW pc, NEW arg, Goto(t, pc, arg)
  PROVE  /\ Pool'
         /\ task'[t].pc = pc
         /\ task'[t].arg = arg
         /\ OnlyMoves(t)
  <1> DEFINE k == [pc |-> pc, arg |-> arg]
  <1>1. task' = [task EXCEPT ![t] = k]
    BY DEF Goto
  <1>2. k.pc = pc /\ k.arg = arg
    OBVIOUS
  <1> HIDE DEF k
  <1>3. task'[t] = k
    BY <1>1 DEF Pool
  <1> QED BY <1>1, <1>2, <1>3 DEF Pool, OnlyMoves

\* A handler that returns leaves its slot idle.
LEMMA DoneSlot ==
  ASSUME Pool, NEW t \in Tasks, Done(t)
  PROVE  /\ Pool'
         /\ task'[t].pc = "idle"
         /\ OnlyMoves(t)
  BY GotoSlot DEF Done

\* A handler that ends in sendToUsers returns, or goes on to push.
LEMMA PayloadSlot ==
  ASSUME Pool, NEW t \in Tasks, NEW users, NEW rejected, SendPayload(t, users, rejected)
  PROVE  /\ Pool'
         /\ task'[t].pc \in {"idle", "push"}
         /\ task'[t].pc = "push" => NewPush(task'[t].arg)
         /\ OnlyMoves(t)
  <1> DEFINE arg == [left |-> {RowId(d) : d \in TokensForUsers(users)}, invalid |-> {},
                     rejected |-> rejected]
  <1>1. CASE Done(t)
    BY <1>1, DoneSlot
  <1>2. CASE Goto(t, "push", arg)
    <2>1. NewPush(arg)
      BY DEF NewPush
    <2> HIDE DEF arg
    <2> QED BY <1>2, <2>1, GotoSlot
  <1> QED BY <1>1, <1>2 DEF SendPayload

\* The same of the pushes that end the handlers of other services.
LEMMA SendSlot ==
  ASSUME Pool, NEW t \in Tasks, NEW users, SendToUsers(t, users)
  PROVE  /\ Pool'
         /\ task'[t].pc \in {"idle", "push"}
         /\ task'[t].pc = "push" => NewPush(task'[t].arg)
         /\ OnlyMoves(t)
  BY PayloadSlot DEF SendToUsers

\* A request of a part that goes on within the part, sends or returns.
LEMMA PartMoves ==
  ASSUME Pool, NEW t \in Tasks, NEW pcs, task[t].pc \in pcs, "idle" \in pcs,
         \/ Done(t)
         \/ \E pc \in pcs \ {"push"} : \E arg : Goto(t, pc, arg)
         \/ "push" \in pcs /\ \E users : SendToUsers(t, users)
  PROVE  Pool' /\ Moves(pcs) /\ PushesAnew
  <1>1. CASE Done(t)
    BY <1>1, DoneSlot DEF OnlyMoves, Moves, PushesAnew
  <1>2. CASE \E pc \in pcs \ {"push"} : \E arg : Goto(t, pc, arg)
    BY <1>2, GotoSlot DEF OnlyMoves, Moves, PushesAnew
  <1>3. CASE "push" \in pcs /\ \E users : SendToUsers(t, users)
    BY <1>3, SendSlot DEF OnlyMoves, Moves, PushesAnew
  <1> QED BY <1>1, <1>2, <1>3

\* A step that no request takes.
LEMMA NoMove ==
  ASSUME Pool, UNCHANGED task, NEW pcs
  PROVE  Pool' /\ Moves(pcs) /\ PushesAnew
  BY DEF Pool, Moves, PushesAnew

-----------------------------------------------------------------------------
(* The steps of each part *)

\* ReportsService moves between its own steps.
LEMMA ReportsMoves ==
  ASSUME Pool, ReportsNext
  PROVE  Pool' /\ Moves(ReportsPcs) /\ PushesAnew
  <1>1. ASSUME NEW t \in Tasks,
               \/ \E u \in Reporters, target \in Dishes \cup Accused, reason \in Reasons :
                     CreateReport(t, u, target, reason)
               \/ \E r \in 1..MaxReports, decision \in {"RESOLVED", "REJECTED"} :
                     UpdateStatus(t, r, decision)
               \/ InsertReport(t) \/ DecideReport(t)
        PROVE  Pool' /\ Moves(ReportsPcs) /\ PushesAnew
    <2>1. task[t].pc \in ReportsPcs
      BY <1>1 DEF CreateReport, UpdateStatus, InsertReport, DecideReport, At, ReportsPcs
    <2>2. Done(t) \/ \E pc \in ReportsPcs \ {"push"} : \E arg : Goto(t, pc, arg)
      BY <1>1 DEF CreateReport, UpdateStatus, InsertReport, DecideReport, ReportsPcs
    <2> QED BY <2>1, <2>2, PartMoves DEF ReportsPcs
  <1>2. CASE \E d \in Dishes : Recategorise(d)
    BY <1>2, NoMove DEF Recategorise
  <1> QED BY <1>1, <1>2 DEF ReportsNext

\* LegalDocumentsService moves between its own steps, and ends a publication with
\* a push.
LEMMA LegalMoves ==
  ASSUME Pool, LegalNext
  PROVE  Pool' /\ Moves(LegalPcs) /\ PushesAnew /\ UNCHANGED push
  <1>0. CASE \E u \in Users, v \in Versions \cup {FallbackVersion} : RecordCharter(u, v)
    <2>1. UNCHANGED <<task, push>>
      BY <1>0 DEF RecordCharter
    <2> QED BY <2>1, NoMove
  <1> SUFFICES ASSUME ~\E u \in Users, v \in Versions \cup {FallbackVersion} : RecordCharter(u, v)
               PROVE  Pool' /\ Moves(LegalPcs) /\ PushesAnew /\ UNCHANGED push
    BY <1>0
  <1> PICK t \in Tasks :
        \/ \E v \in Versions :
              CreateDocument(t, v) \/ \E d \in Documents : UpdateDocument(t, d, v)
        \/ \E d \in Documents : Publish(t, d)
        \/ \E u \in Users : AcceptTerms(t, u)
        \/ InsertDocument(t) \/ WriteDocument(t)
        \/ Deactivate(t) \/ Activate(t) \/ CommitPublish(t) \/ AbortPublish(t)
        \/ RecordAcceptance(t)
    BY DEF LegalNext
  <1>1. task[t].pc \in LegalPcs
    BY DEF CreateDocument, UpdateDocument, Publish, AcceptTerms, InsertDocument, WriteDocument,
           Deactivate, Activate, CommitPublish, AbortPublish, RecordAcceptance, At, LegalPcs
  <1>2. UNCHANGED push
    BY DEF CreateDocument, UpdateDocument, Publish, AcceptTerms, InsertDocument, WriteDocument,
           Deactivate, Activate, CommitPublish, AbortPublish, RecordAcceptance
  <1>3. \/ Done(t)
        \/ \E pc \in LegalPcs \ {"push"} : \E arg : Goto(t, pc, arg)
        \/ "push" \in LegalPcs /\ \E users : SendToUsers(t, users)
    BY DEF CreateDocument, UpdateDocument, Publish, AcceptTerms, InsertDocument, WriteDocument,
           Deactivate, Activate, CommitPublish, AbortPublish, RecordAcceptance, LegalPcs
  <1> QED BY <1>1, <1>2, <1>3, PartMoves DEF LegalPcs

\* NotificationsService and DeviceTokensService move between their own steps.
LEMMA PushMoves ==
  ASSUME Pool, PushNext
  PROVE  Pool' /\ Moves(PushPcs)
  <1>1. ASSUME NEW t \in Tasks,
               \/ Prune(t) \/ PushOne(t)
               \/ \E u \in Users, d \in Devices : Register(t, u, d) \/ Remove(t, u, d)
               \/ \E users \in SUBSET Users :
                     Notify(t, users) \/ \E rejected \in BOOLEAN : AdminSend(t, users, rejected)
               \/ UpsertToken(t) \/ DeleteToken(t) \/ Broadcast(t)
        PROVE  Pool' /\ Moves(PushPcs)
    <2>1. task[t].pc \in PushPcs
      BY <1>1 DEF Prune, PushOne, Register, Remove, Notify, AdminSend, UpsertToken, DeleteToken,
             Broadcast, At, PushPcs
    <2>2. Done(t) \/ \E pc \in PushPcs : \E arg : Goto(t, pc, arg)
      BY <1>1 DEF Prune, PushOne, Register, Remove, Notify, AdminSend, UpsertToken, DeleteToken,
             Broadcast, SendToUsers, SendPayload, PushPcs
    <2>3. CASE Done(t)
      BY <2>1, <2>3, DoneSlot DEF OnlyMoves, Moves, PushPcs
    <2>4. CASE \E pc \in PushPcs : \E arg : Goto(t, pc, arg)
      BY <2>1, <2>4, GotoSlot DEF OnlyMoves, Moves
    <2> QED BY <2>2, <2>3, <2>4
  <1>2. CASE \E d \in Devices : Uninstall(d)
    BY <1>2, NoMove DEF Uninstall
  <1> QED BY <1>1, <1>2 DEF PushNext, Delivering

\* ConversationsService and MessagingService move between their own steps, and end
\* a message with a push.
LEMMA MessagingMoves ==
  ASSUME Pool, MessagingNext
  PROVE  Pool' /\ Moves(MessagingPcs) /\ PushesAnew /\ UNCHANGED push
  <1> PICK t \in Tasks :
        \/ \E u \in Users :
              \/ \E type \in Types : FindOrCreate(t, u, type)
              \/ \E peer \in Users, type \in Types, scoped \in BOOLEAN :
                    FindOrCreateWith(t, u, peer, type, scoped)
              \/ \E c \in Conversations : MarkRead(t, u, c) \/ Send(t, u, c)
        \/ \E d \in Drivers : ClaimDelivery(t, d)
        \/ CreateThread(t) \/ ResetUnread(t)
        \/ WriteMessage(t) \/ SendFails(t) \/ NotifyPeers(t)
    BY DEF MessagingNext
  <1>1. task[t].pc \in MessagingPcs
    BY DEF FindOrCreate, FindOrCreateWith, MarkRead, Send, ClaimDelivery, CreateThread,
           ResetUnread, WriteMessage, SendFails, NotifyPeers, At, MessagingPcs
  <1>2. UNCHANGED push
    BY DEF FindOrCreate, FindOrCreateWith, MarkRead, Send, ClaimDelivery, CreateThread,
           ResetUnread, WriteMessage, SendFails, NotifyPeers
  <1>3. \/ Done(t)
        \/ \E pc \in MessagingPcs \ {"push"} : \E arg : Goto(t, pc, arg)
        \/ "push" \in MessagingPcs /\ \E users : SendToUsers(t, users)
    <2>1. ASSUME NEW k, NEW u, AskFor(t, k, u)
          PROVE  Done(t) \/ \E arg : Goto(t, "createThread", arg)
      BY <2>1 DEF AskFor
    <2> QED BY <2>1 DEF FindOrCreate, FindOrCreateWith, MarkRead, Send, ClaimDelivery, CreateThread,
           ResetUnread, WriteMessage, SendFails, NotifyPeers, MessagingPcs
  <1> QED BY <1>1, <1>2, <1>3, PartMoves DEF MessagingPcs

\* DeliveriesService and the QR codes move between their own steps, and end most
\* of them with a push.
LEMMA TrackingMoves ==
  ASSUME Pool, TrackingNext
  PROVE  Pool' /\ Moves(TrackingPcs) /\ PushesAnew /\ UNCHANGED push
  <1>1. ASSUME NEW t \in Tasks,
               \/ \E c \in Couriers : RecordLocation(t, c) \/ \E on \in BOOLEAN : SetOnline(t, c, on)
               \/ WriteOnline(t) \/ WriteOnlinePoint(t) \/ WriteFix(t) \/ FindActive(t)
               \/ PublishPosition(t) \/ PublicationLost(t)
        PROVE  Pool' /\ Moves(TrackingPcs) /\ PushesAnew /\ UNCHANGED push
    <2>1. task[t].pc \in TrackingPcs /\ UNCHANGED push
      BY <1>1 DEF RecordLocation, SetOnline, WriteOnline, WriteOnlinePoint, WriteFix, FindActive,
             PublishPosition, PublicationLost, At, TrackingPcs
    <2>2. Done(t) \/ \E pc \in TrackingPcs \ {"push"} : \E arg : Goto(t, pc, arg)
      BY <1>1 DEF RecordLocation, SetOnline, WriteOnline, WriteOnlinePoint, WriteFix, FindActive,
             PublishPosition, PublicationLost, TrackingPcs
    <2> QED BY <2>1, <2>2, PartMoves DEF TrackingPcs
  <1>2. ASSUME NEW t \in Tasks,
               \/ \E j \in Trips : MarkReady(t, j) \/ \E c \in Couriers : Claim(t, c, j)
               \/ WriteClaim(t) \/ WriteArrival(t)
               \/ \E j \in Trips, c \in Couriers : ArriveAtPickup(t, c, j)
               \/ \E j \in Trips, c \in Couriers : ConfirmPickup(t, c, j) \/ ConfirmDelivery(t, c, j)
               \/ MintPickup(t) \/ WritePickup(t) \/ MintDropoff(t) \/ WriteDelivered(t)
        PROVE  Pool' /\ Moves(TrackingPcs) /\ PushesAnew /\ UNCHANGED push
    <2>1. task[t].pc \in TrackingPcs /\ UNCHANGED push
      BY <1>2 DEF MarkReady, Claim, WriteClaim, ArriveAtPickup, WriteArrival, ConfirmPickup,
             ConfirmDelivery, MintPickup, WritePickup, MintDropoff, WriteDelivered, At, TrackingPcs
    <2>2. \/ Done(t)
          \/ \E pc \in TrackingPcs \ {"push"} : \E arg : Goto(t, pc, arg)
          \/ "push" \in TrackingPcs /\ \E users : SendToUsers(t, users)
      BY <1>2 DEF MarkReady, Claim, WriteClaim, ArriveAtPickup, WriteArrival, ConfirmPickup,
             ConfirmDelivery, MintPickup, WritePickup, MintDropoff, WriteDelivered, TrackingPcs
    <2> QED BY <2>1, <2>2, PartMoves DEF TrackingPcs
  <1>3. ASSUME NEW t \in Tasks, NEW j \in Trips,
               GetSellerPickupQr(t, j) \/ GetBuyerDeliveryQr(t, j)
        PROVE  Pool' /\ Moves(TrackingPcs) /\ PushesAnew /\ UNCHANGED push
    <2>1. task[t].pc \in TrackingPcs /\ UNCHANGED push
      BY <1>3 DEF GetSellerPickupQr, GetBuyerDeliveryQr, At, TrackingPcs
    <2>2. UNCHANGED task \/ \E pc \in TrackingPcs \ {"push"} : \E arg : Goto(t, pc, arg)
      BY <1>3 DEF GetSellerPickupQr, GetBuyerDeliveryQr, TrackingPcs
    <2> QED BY <2>1, <2>2, PartMoves, NoMove DEF TrackingPcs
  <1>4. CASE \/ \E c \in Couriers : Suspend(c) \/ Review(c)
             \/ \E j \in Trips : EndTrip(j)
             \/ Watching
    <2>1. UNCHANGED <<task, push>>
      BY <1>4 DEF Suspend, Review, EndTrip, Watching, Reconnect, Subscribe, Unsubscribe
    <2> QED BY <2>1, NoMove
  <1> QED BY <1>1, <1>2, <1>3, <1>4 DEF TrackingNext, Driving, Dispatching, Arriving, HandingOver

\* The address half of UsersService moves between its own steps.
LEMMA AddressesMoves ==
  ASSUME Pool, AddressesNext
  PROVE  Pool' /\ Moves(AddressesPcs) /\ PushesAnew
  <1> PICK t \in Tasks :
        \/ \E point \in Points \cup {Null} :
              \/ UpsertAddress(t, point)
              \/ CreateAddress(t, point)
              \/ \E a \in AddressIds : UpdateAddressById(t, a, point)
        \/ \E a \in AddressIds : DeleteAddressById(t, a)
        \/ WriteUpsert(t) \/ InsertAddress(t) \/ UpdateAddress(t) \/ DeleteAddress(t)
        \/ WritePoint(t) \/ MirrorPoint(t) \/ AddressFails(t)
    BY DEF AddressesNext
  <1>1. task[t].pc \in AddressesPcs
    BY DEF UpsertAddress, CreateAddress, UpdateAddressById, DeleteAddressById, Begin, WriteUpsert,
           InsertAddress, UpdateAddress, DeleteAddress, WritePoint, MirrorPoint, AddressFails, At,
           AddressesPcs, AddressWrites, WritesById
  <1>2. Done(t) \/ \E pc \in AddressesPcs \ {"push"} : \E arg : Goto(t, pc, arg)
    <2>1. ASSUME NEW a, ThenPoint(t, a)
          PROVE  Done(t) \/ \E arg : Goto(t, "writePoint", arg)
      BY <2>1 DEF ThenPoint
    <2> QED BY <2>1 DEF UpsertAddress, CreateAddress, UpdateAddressById, DeleteAddressById, Begin,
           WriteUpsert, InsertAddress, UpdateAddress, DeleteAddress, WritePoint, MirrorPoint,
           AddressFails, AddressesPcs, AddressWrites, WritesById
  <1> QED BY <1>1, <1>2, PartMoves DEF AddressesPcs

\* AuthService and UsersService move between their own steps.
LEMMA AccountsMoves ==
  ASSUME Pool, AccountsNext
  PROVE  Pool' /\ Moves(AccountsPcs) /\ PushesAnew
  <1>1. ASSUME NEW t \in Tasks,
               \/ \E i \in Ids, e \in Emails : RequestEmailOtp(t, i, e)
               \/ \E e \in Emails : RequestSocialEmailOtp(t, e) \/ VerifySocialEmailOtp(t, e)
               \/ \E i \in Ids : VerifyEmailOtp(t, i)
               \/ SendEmail(t) \/ MirrorEmail(t) \/ SendSocial(t)
        PROVE  Pool' /\ Moves(AccountsPcs) /\ PushesAnew
    <2>1. task[t].pc \in AccountsPcs
      BY <1>1 DEF RequestEmailOtp, RequestSocialEmailOtp, VerifySocialEmailOtp, VerifyEmailOtp,
             SendEmail, MirrorEmail, SendSocial, At, AccountsPcs
    <2>2. Done(t) \/ \E pc \in AccountsPcs \ {"push"} : \E arg : Goto(t, pc, arg)
      BY <1>1 DEF RequestEmailOtp, RequestSocialEmailOtp, VerifySocialEmailOtp, VerifyEmailOtp,
             SendEmail, MirrorEmail, SendSocial, AccountsPcs
    <2> QED BY <2>1, <2>2, PartMoves DEF AccountsPcs
  <1>2. ASSUME NEW t \in Tasks,
               \/ \E i \in Ids, p \in Phones :
                    RequestPhoneOtp(t, i, p) \/ VerifyPhoneOtp(t, i, p) \/ UpdateProfile(t, i, p)
               \/ SendText(t) \/ CheckPhone(t) \/ ConfirmPhone(t) \/ MirrorPhone(t) \/ EditPhone(t)
        PROVE  Pool' /\ Moves(AccountsPcs) /\ PushesAnew
    <2>1. task[t].pc \in AccountsPcs
      BY <1>2 DEF RequestPhoneOtp, VerifyPhoneOtp, UpdateProfile, SendText, CheckPhone,
             ConfirmPhone, MirrorPhone, EditPhone, At, AccountsPcs, PhoneWrites
    <2>2. Done(t) \/ \E pc \in AccountsPcs \ {"push"} : \E arg : Goto(t, pc, arg)
      BY <1>2 DEF RequestPhoneOtp, VerifyPhoneOtp, UpdateProfile, SendText, CheckPhone,
             ConfirmPhone, MirrorPhone, EditPhone, AccountsPcs, PhoneWrites
    <2> QED BY <2>1, <2>2, PartMoves DEF AccountsPcs
  <1>3. ASSUME NEW t \in Tasks,
               \/ \E i \in Ids, role \in UserRoles, typed \in Phones \cup {Null} :
                    CreateFromJwt(t, i, role, typed)
               \/ ReadIdentity(t) \/ CheckEmail(t) \/ CheckTyped(t) \/ InsertUser(t)
        PROVE  Pool' /\ Moves(AccountsPcs) /\ PushesAnew
    <2>1. task[t].pc \in AccountsPcs
      BY <1>3 DEF CreateFromJwt, ReadIdentity, CheckEmail, CheckTyped, InsertUser, At, AccountsPcs,
             PhoneWrites
    <2>2. Done(t) \/ \E pc \in AccountsPcs \ {"push"} : \E arg : Goto(t, pc, arg)
      BY <1>3 DEF CreateFromJwt, ReadIdentity, Create, CheckEmail, CheckTyped, InsertUser,
             AccountsPcs, PhoneWrites
    <2> QED BY <2>1, <2>2, PartMoves DEF AccountsPcs
  <1>4. CASE Sessions \/ \E i \in Ids, e \in Emails : AttachEmail(i, e)
    <2>1. UNCHANGED task
      BY <1>4 DEF Sessions, SignUp, SignUpTimesOut, LateSignUp, SignInWithGoogle, SignIn, Refresh,
             SignInWithoutEmail, SignOut, VerifyPasswordResetOtp, RequestPasswordReset, AttachEmail
    <2> QED BY <2>1, NoMove
  <1> QED BY <1>1, <1>2, <1>3, <1>4 DEF AccountsNext, EmailCodes, PhoneNumbers, UserCreation

-----------------------------------------------------------------------------
(* Pushes *)

\* The row of a token that a send has found invalid is one whose app is gone, and
\* stays gone, but for a payload that Firebase rejects.
PushTask(k) ==
    /\ k.pc \in {"register", "remove"} => k.arg.device \in Devices
    /\ k.pc = "push" =>
          /\ DOMAIN k.arg = {"left", "invalid", "rejected"}
          /\ \A r \in k.arg.invalid : k.arg.rejected \/ r[1] \in gone
PushInv ==
    /\ DOMAIN deviceToken = Devices /\ DOMAIN login = Devices
    /\ \A t \in Tasks : PushTask(task[t])
    /\ DeviceFollowsLogin

\* Every step of NotificationsService and DeviceTokensService: an upsert re-points
\* the row, a logout takes it only from the user who leaves, and a send removes it
\* only from a device whose app is gone, or with a payload that was rejected.
LEMMA PushKept ==
  ASSUME Pool, PushInv, PushNext
  PROVE  PushInv'
  <1>1. ASSUME NEW t \in Tasks, OnlyMoves(t), PushTask(task[t])', gone \subseteq gone'
        PROVE  \A u \in Tasks : PushTask(task[u])'
    <2> SUFFICES ASSUME NEW u \in Tasks \ {t} PROVE PushTask(task[u])'
      BY <1>1
    <2>1. task'[u] = task[u] /\ PushTask(task[u])
      BY <1>1 DEF OnlyMoves, PushInv
    <2> QED BY <1>1, <2>1 DEF PushTask
  <1>2. ASSUME NEW t \in Tasks, NEW u \in Users, NEW d \in Devices,
               Register(t, u, d) \/ Remove(t, u, d)
        PROVE  PushInv'
    <2> DEFINE arg == [user |-> u, device |-> d]
    <2>1. /\ UNCHANGED <<deviceToken, gone, login, struck>>
          /\ Goto(t, "register", arg) \/ Goto(t, "remove", arg)
      BY <1>2 DEF Register, Remove, push
    <2>2. arg.device = d
      OBVIOUS
    <2> HIDE DEF arg
    <2>3. task'[t].pc \in {"register", "remove"} /\ task'[t].arg = arg /\ OnlyMoves(t)
      BY <2>1, GotoSlot
    <2>4. PushTask(task[t])'
      BY <2>2, <2>3 DEF PushTask
    <2> QED BY <1>1, <2>1, <2>3, <2>4 DEF PushInv, DeviceFollowsLogin
  <1>3. ASSUME NEW t \in Tasks, UpsertToken(t) \/ DeleteToken(t)
        PROVE  PushInv'
    <2> PICK d, u : d = task[t].arg.device /\ u = task[t].arg.user
      OBVIOUS
    <2>1. d \in Devices /\ Done(t) /\ UNCHANGED gone
      BY <1>3 DEF UpsertToken, DeleteToken, At, PushInv, PushTask
    <2>2. task'[t].pc = "idle" /\ OnlyMoves(t)
      BY <2>1, DoneSlot
    <2>3. PushTask(task[t])'
      BY <2>2 DEF PushTask
    <2>4. CASE UpsertToken(t)
      <3>1. /\ deviceToken' = [deviceToken EXCEPT ![d] = u]
            /\ login' = [login EXCEPT ![d] = u]
            /\ struck' = struck \ {d}
        BY <2>4 DEF UpsertToken, Arg
      <3> QED BY <1>1, <2>1, <2>2, <2>3, <3>1 DEF PushInv, DeviceFollowsLogin
    <2>5. CASE DeleteToken(t)
      <3>1. /\ deviceToken' = [deviceToken EXCEPT ![d] = IF @ = u THEN Null ELSE @]
            /\ login' = [login EXCEPT ![d] = IF @ = u THEN Null ELSE @]
            /\ UNCHANGED struck
        BY <2>5 DEF DeleteToken, Arg
      <3> QED BY <1>1, <2>1, <2>2, <2>3, <3>1 DEF PushInv, DeviceFollowsLogin
    <2> QED BY <1>3, <2>4, <2>5
  <1>4. ASSUME NEW t \in Tasks, NEW users, NEW rejected, SendPayload(t, users, rejected),
               UNCHANGED push
        PROVE  PushInv'
    <2>1. OnlyMoves(t) /\ task'[t].pc \in {"idle", "push"}
          /\ (task'[t].pc = "push" => NewPush(task'[t].arg))
      BY <1>4, PayloadSlot
    <2>2. PushTask(task[t])' /\ UNCHANGED <<deviceToken, gone, login, struck>>
      BY <1>4, <2>1 DEF PushTask, NewPush, push
    <2> QED BY <1>1, <2>1, <2>2 DEF PushInv, DeviceFollowsLogin
  <1>5. ASSUME NEW t \in Tasks, NEW users, NEW rejected, AdminSend(t, users, rejected)
        PROVE  PushInv'
    <2>1. UNCHANGED <<deviceToken, gone, login, struck>> /\ \E arg : Goto(t, "broadcast", arg)
      BY <1>5 DEF AdminSend, push
    <2>2. task'[t].pc = "broadcast" /\ OnlyMoves(t)
      BY <2>1, GotoSlot
    <2>3. PushTask(task[t])'
      BY <2>2 DEF PushTask
    <2> QED BY <1>1, <2>1, <2>2, <2>3 DEF PushInv, DeviceFollowsLogin
  <1>6. ASSUME NEW t \in Tasks, PushOne(t)
        PROVE  PushInv'
    <2> PICK a : a = task[t].arg
      OBVIOUS
    <2>1. PICK row \in a.left :
             \/ Goto(t, "push", [a EXCEPT !.left = @ \ {row}])
             \/ /\ row[1] \in gone \/ a.rejected
                /\ Goto(t, "push", [a EXCEPT !.left = @ \ {row}, !.invalid = @ \cup {row}])
      BY <1>6 DEF PushOne, Arg, InvalidToken
    <2>2. task[t].pc = "push" /\ UNCHANGED <<deviceToken, gone, login, struck>>
      BY <1>6 DEF PushOne, At, push
    <2>3. PICK arg : /\ Goto(t, "push", arg)
                     /\ DOMAIN arg = {"left", "invalid", "rejected"}
                     /\ \A r \in arg.invalid : arg.rejected \/ r[1] \in gone
      <3>1. /\ DOMAIN a = {"left", "invalid", "rejected"}
            /\ \A r \in a.invalid : a.rejected \/ r[1] \in gone
        BY <2>2 DEF PushInv, PushTask
      <3>2. CASE Goto(t, "push", [a EXCEPT !.left = @ \ {row}])
        <4> DEFINE arg == [a EXCEPT !.left = @ \ {row}]
        <4>1. DOMAIN arg = DOMAIN a /\ arg.rejected = a.rejected /\ arg.invalid = a.invalid
          BY <3>1
        <4>2. Goto(t, "push", arg)
          BY <3>2
        <4> HIDE DEF arg
        <4> QED BY <3>1, <4>1, <4>2
      <3>3. CASE /\ row[1] \in gone \/ a.rejected
                 /\ Goto(t, "push", [a EXCEPT !.left = @ \ {row}, !.invalid = @ \cup {row}])
        <4> DEFINE arg == [a EXCEPT !.left = @ \ {row}, !.invalid = @ \cup {row}]
        <4>1. /\ DOMAIN arg = DOMAIN a /\ arg.rejected = a.rejected
              /\ \A r \in arg.invalid : r \in a.invalid \/ r = row
          BY <3>1
        <4>2. Goto(t, "push", arg)
          BY <3>3
        <4> HIDE DEF arg
        <4> QED BY <3>1, <3>3, <4>1, <4>2
      <3> QED BY <2>1, <3>2, <3>3
    <2>4. task'[t].pc = "push" /\ task'[t].arg = arg /\ OnlyMoves(t)
      BY <2>3, GotoSlot
    <2>5. PushTask(task[t])'
      BY <2>2, <2>3, <2>4 DEF PushTask
    <2> QED BY <1>1, <2>2, <2>4, <2>5 DEF PushInv, DeviceFollowsLogin
  <1>7. ASSUME NEW t \in Tasks, Prune(t)
        PROVE  PushInv'
    <2> PICK rejected, pruned : rejected = task[t].arg.rejected /\ pruned = Pruned(t)
      OBVIOUS
    <2>1. /\ Done(t) /\ UNCHANGED <<gone, login>>
          /\ deviceToken' = [d \in Devices |-> IF d \in pruned THEN Null ELSE deviceToken[d]]
          /\ struck' = IF rejected THEN struck \cup pruned ELSE struck
      BY <1>7 DEF Prune, Arg
    <2>2. task'[t].pc = "idle" /\ OnlyMoves(t)
      BY <2>1, DoneSlot
    <2>3. PushTask(task[t])'
      BY <2>2 DEF PushTask
    <2>4. \A d \in pruned : rejected \/ d \in gone
      <3> SUFFICES ASSUME NEW d \in pruned PROVE rejected \/ d \in gone
        OBVIOUS
      <3>1. RowId(d) \in task[t].arg.invalid /\ RowId(d)[1] = d
        BY DEF Pruned, Arg, RowId
      <3> QED BY <1>7, <3>1 DEF Prune, At, PushInv, PushTask
    <2>5. DeviceFollowsLogin'
      <3> SUFFICES ASSUME NEW d \in Devices \ gone, login[d] # Null
                   PROVE  deviceToken'[d] = login[d] \/ (d \in struck' /\ deviceToken'[d] = Null)
        BY <2>1 DEF DeviceFollowsLogin
      <3>1. CASE d \in pruned
        BY <2>1, <2>4, <3>1
      <3>2. CASE d \notin pruned
        BY <2>1, <3>2 DEF PushInv, DeviceFollowsLogin
      <3> QED BY <3>1, <3>2
    <2> QED BY <1>1, <2>1, <2>2, <2>3, <2>5 DEF PushInv
  <1>8. ASSUME NEW d \in Devices, Uninstall(d)
        PROVE  PushInv'
    <2>1. UNCHANGED <<deviceToken, login, struck, task>> /\ gone \subseteq gone'
      BY <1>8 DEF Uninstall
    <2> QED BY <2>1 DEF PushInv, DeviceFollowsLogin, PushTask
  <1> QED BY <1>2, <1>3, <1>4, <1>5, <1>6, <1>7, <1>8
          DEF PushNext, Delivering, Notify, Broadcast, SendToUsers

\* The steps of the other parts write no token, and the pushes they begin have
\* found none invalid.
LEMMA PushUndisturbed ==
  ASSUME PushInv, NEW pcs, Moves(pcs), Apart(pcs, PushPcs), PushesAnew, UNCHANGED push
  PROVE  PushInv'
  <1>1. UNCHANGED <<deviceToken, gone, login, struck>>
    BY DEF push
  <1>2. ASSUME NEW u \in Tasks PROVE PushTask(task[u])'
    <2>1. CASE task'[u] = task[u]
      BY <1>1, <2>1 DEF PushInv, PushTask
    <2>2. CASE task'[u] # task[u]
      BY <1>1, <2>2 DEF Moves, Apart, PushPcs, PushesAnew, NewPush, PushTask
    <2> QED BY <2>1, <2>2
  <1> QED BY <1>1, <1>2 DEF PushInv, DeviceFollowsLogin

-----------------------------------------------------------------------------
(* Terms *)

InForce == everPublic \cup {FallbackVersion}

\* What a publication or an edit works on exists; the version that is about to be
\* recorded for a user was in force.
LegalTask(k) ==
    /\ k.pc = "insertDocument" => k.arg.version \in Versions
    /\ k.pc = "writeDocument" => k.arg.id \in Existing /\ k.arg.version \in Versions
    /\ k.pc \in {"deactivate", "activate", "commit"} => k.arg.id \in Existing
    /\ k.pc = "activate" => DOMAIN k.arg = {"id", "locks"}
    /\ k.pc \in {"activate", "commit"} => k.arg.locks \subseteq Existing
    /\ k.pc = "accept" => k.arg.version \in InForce
LegalInv ==
    /\ document \in [Documents -> DocumentRow \cup {Null}]
    /\ \A d \in ActiveDocuments : document[d].version \in everPublic
    /\ \A t \in Tasks : LegalTask(task[t])
    /\ TermsInForce

\* Rows are never deleted and a version once in force stays on record, so that
\* what the other requests of LegalDocumentsService rely on remains.
LEMMA LegalTasksKept ==
  ASSUME LegalInv, NEW t \in Tasks, OnlyMoves(t), LegalTask(task[t])',
         Existing \subseteq Existing', everPublic \subseteq everPublic'
  PROVE  \A u \in Tasks : LegalTask(task[u])'
  <1> SUFFICES ASSUME NEW u \in Tasks \ {t} PROVE LegalTask(task[u])'
    OBVIOUS
  <1>1. task'[u] = task[u] /\ LegalTask(task[u])
    BY DEF OnlyMoves, LegalInv
  <1> QED BY <1>1 DEF LegalTask, InForce

\* A step of a handler that writes no row.
LEMMA LegalReads ==
  ASSUME Pool, LegalInv, NEW t \in Tasks, NEW pc, NEW arg, Goto(t, pc, arg), UNCHANGED legal,
         LegalTask([pc |-> pc, arg |-> arg])
  PROVE  LegalInv'
  <1>1. task'[t].pc = pc /\ task'[t].arg = arg /\ OnlyMoves(t)
    BY GotoSlot
  <1>2. UNCHANGED <<document, accepted, stated, everPublic>>
    BY DEF legal
  <1>3. Existing' = Existing /\ InForce' = InForce /\ ActiveDocuments' = ActiveDocuments
    BY <1>2 DEF Existing, InForce, ActiveDocuments
  <1>4. LegalTask(task[t])'
    BY <1>1, <1>2, <1>3 DEF LegalTask
  <1>5. \A u \in Tasks : LegalTask(task[u])'
    BY <1>1, <1>2, <1>3, <1>4, LegalTasksKept
  <1> QED BY <1>2, <1>3, <1>5 DEF LegalInv, TermsInForce

\* Every step of LegalDocumentsService and recordTermsAcceptance, and recordCharter.  A publication
\* writes its deactivations with its activation, in one commit.
LEMMA LegalKept ==
  ASSUME Pool, LegalInv, LegalNext
  PROVE  LegalInv'
  <1>0. \A d \in Existing : document[d] \in DocumentRow
    BY DEF LegalInv, Existing
  <1>1. ASSUME NEW t \in Tasks, NEW v \in Versions, CreateDocument(t, v)
        PROVE  LegalInv'
    BY <1>1, LegalReads DEF CreateDocument, LegalTask
  <1>2. ASSUME NEW t \in Tasks, NEW v \in Versions, NEW d \in Documents, UpdateDocument(t, d, v)
        PROVE  LegalInv'
    BY <1>2, LegalReads DEF UpdateDocument, LegalTask
  <1>3. ASSUME NEW t \in Tasks, NEW d \in Documents, Publish(t, d)
        PROVE  LegalInv'
    BY <1>3, LegalReads DEF Publish, LegalTask
  <1>4. ASSUME NEW t \in Tasks, NEW u \in Users, AcceptTerms(t, u)
        PROVE  LegalInv'
    <2>1. PICK v \in ActiveVersions : Goto(t, "accept", [user |-> u, version |-> v])
      BY <1>4 DEF AcceptTerms
    <2>2. v \in InForce
      BY <2>1 DEF ActiveVersions, InForce, LegalInv
    <2>3. LegalTask([pc |-> "accept", arg |-> [user |-> u, version |-> v]])
      BY <2>2 DEF LegalTask
    <2> QED BY <1>4, <2>1, <2>3, LegalReads DEF AcceptTerms
  <1>5. ASSUME NEW t \in Tasks, Deactivate(t)
        PROVE  LegalInv'
    <2> DEFINE arg == [id |-> task[t].arg.id, locks |-> task[t].arg.seen \cap ActiveDocuments]
    <2>1. task[t].pc = "deactivate" /\ Goto(t, "activate", arg) /\ UNCHANGED legal
      BY <1>5 DEF Deactivate, At, Arg
    <2>2. arg.id = task[t].arg.id /\ DOMAIN arg = {"id", "locks"} /\ arg.locks \subseteq Existing
      BY DEF ActiveDocuments
    <2> HIDE DEF arg
    <2>3. LegalTask([pc |-> "activate", arg |-> arg])
      BY <2>1, <2>2 DEF LegalInv, LegalTask
    <2> QED BY <2>1, <2>3, LegalReads
  <1>6. ASSUME NEW t \in Tasks, Activate(t)
        PROVE  LegalInv'
    <2> DEFINE arg == [task[t].arg EXCEPT !.locks = @ \cup {task[t].arg.id}]
    <2>1. task[t].pc = "activate" /\ Goto(t, "commit", arg) /\ UNCHANGED legal
      BY <1>6 DEF Activate, At, Arg
    <2>2. LegalTask(task[t])
      BY DEF LegalInv
    <2>3. arg.id = task[t].arg.id /\ arg.locks \subseteq Existing
      BY <2>1, <2>2 DEF LegalTask
    <2> HIDE DEF arg
    <2>4. LegalTask([pc |-> "commit", arg |-> arg])
      BY <2>1, <2>2, <2>3 DEF LegalTask
    <2> QED BY <2>1, <2>4, LegalReads
  <1>7. ASSUME NEW t \in Tasks, AbortPublish(t)
        PROVE  LegalInv'
    <2>1. LegalTask([pc |-> "idle", arg |-> NoArg])
      BY DEF LegalTask
    <2> QED BY <1>7, <2>1, LegalReads DEF AbortPublish, Done
  <1>8. ASSUME NEW t \in Tasks, RecordAcceptance(t)
        PROVE  LegalInv'
    <2> PICK u, v : u = task[t].arg.user /\ v = task[t].arg.version
      OBVIOUS
    <2>1. /\ v \in InForce /\ Done(t) /\ UNCHANGED <<document, stated, everPublic>>
          /\ accepted' \in {accepted, accepted \cup {<<u, v>>}}
      BY <1>8 DEF RecordAcceptance, At, Arg, LegalInv, LegalTask
    <2>2. task'[t].pc = "idle" /\ OnlyMoves(t)
      BY <2>1, DoneSlot
    <2>3. Existing' = Existing /\ ActiveDocuments' = ActiveDocuments /\ LegalTask(task[t])'
      BY <2>1, <2>2 DEF Existing, ActiveDocuments, LegalTask
    <2>4. \A x \in accepted' \ stated' : x[2] \in InForce
      BY <2>1 DEF LegalInv, TermsInForce, InForce
    <2>5. \A w \in Tasks : LegalTask(task[w])'
      BY <2>1, <2>2, <2>3, LegalTasksKept
    <2> QED BY <2>1, <2>3, <2>4, <2>5 DEF LegalInv, TermsInForce, InForce
  <1>9. ASSUME NEW t \in Tasks, InsertDocument(t)
        PROVE  LegalInv'
    <2> PICK v : v = task[t].arg.version
      OBVIOUS
    <2> DEFINE row == [version |-> v, active |-> FALSE, published |-> FALSE]
    <2>1. /\ v \in Versions /\ Done(t) /\ UNCHANGED <<accepted, stated, everPublic>>
          /\ \/ UNCHANGED document
             \/ \E d \in Documents \ Existing : document' = [document EXCEPT ![d] = row]
      BY <1>9 DEF InsertDocument, At, Arg, LegalInv, LegalTask
    <2>2. row \in DocumentRow /\ row.active = FALSE /\ row.published = FALSE
      BY <2>1 DEF DocumentRow
    <2> HIDE DEF row
    <2>3. task'[t].pc = "idle" /\ OnlyMoves(t)
      BY <2>1, DoneSlot
    <2>4. /\ document' \in [Documents -> DocumentRow \cup {Null}]
          /\ Existing \subseteq Existing'
          /\ \A d \in Existing : document'[d] = document[d]
          /\ \A d \in Existing' \ Existing : document'[d] = row
      BY <2>1, <2>2, LegalAssumption DEF LegalInv, Existing
    <2>5. ActiveDocuments' = ActiveDocuments
      BY <2>2, <2>4 DEF ActiveDocuments
    <2>6. LegalTask(task[t])'
      BY <2>3 DEF LegalTask
    <2>7. \A w \in Tasks : LegalTask(task[w])'
      BY <2>1, <2>3, <2>4, <2>6, LegalTasksKept
    <2>8. TermsInForce'
      BY <2>1, <2>2, <2>4, <2>5 DEF LegalInv, TermsInForce
    <2>9. \A d \in ActiveDocuments' : document'[d].version \in everPublic'
      BY <2>1, <2>4, <2>5 DEF LegalInv, ActiveDocuments
    <2> QED BY <2>4, <2>7, <2>8, <2>9 DEF LegalInv
  <1>10. ASSUME NEW t \in Tasks, WriteDocument(t)
         PROVE  LegalInv'
    <2> PICK id, v : id = task[t].arg.id /\ v = task[t].arg.version
      OBVIOUS
    <2>1. id \in Existing /\ v \in Versions /\ Done(t) /\ UNCHANGED <<accepted, stated>>
      BY <1>10 DEF WriteDocument, At, Arg, LegalInv, LegalTask
    <2>2. \/ UNCHANGED <<document, everPublic>>
          \/ /\ document' = [document EXCEPT ![id].version = v]
             /\ everPublic' = IF document[id].active THEN everPublic \cup {v} ELSE everPublic
      BY <1>10 DEF WriteDocument, Arg
    <2>3. task'[t].pc = "idle" /\ OnlyMoves(t)
      BY <2>1, DoneSlot
    <2>4. /\ document' \in [Documents -> DocumentRow \cup {Null}]
          /\ Existing' = Existing
          /\ \A d \in Existing : /\ document'[d].active = document[d].active
                                 /\ document'[d].published = document[d].published
          /\ \A d \in Existing \ {id} : document'[d] = document[d]
      <3>1. CASE UNCHANGED document
        BY <3>1 DEF LegalInv, Existing
      <3>2. CASE document' = [document EXCEPT ![id].version = v]
        <4> DEFINE row == [document[id] EXCEPT !.version = v]
        <4>1. row \in DocumentRow /\ row.active = document[id].active
              /\ row.published = document[id].published
          BY <1>0, <2>1 DEF DocumentRow
        <4>2. document' = [document EXCEPT ![id] = row]
          BY <3>2
        <4> HIDE DEF row
        <4> QED BY <2>1, <4>1, <4>2, LegalAssumption DEF LegalInv, Existing
      <3> QED BY <2>2, <3>1, <3>2
    <2>5. ActiveDocuments' = ActiveDocuments /\ everPublic \subseteq everPublic'
      BY <2>2, <2>4 DEF ActiveDocuments
    <2>6. \A d \in ActiveDocuments' : document'[d].version \in everPublic'
      <3>1. CASE UNCHANGED <<document, everPublic>>
        BY <2>5, <3>1 DEF LegalInv
      <3>2. CASE /\ document' = [document EXCEPT ![id].version = v]
                 /\ everPublic' = IF document[id].active THEN everPublic \cup {v} ELSE everPublic
        <4>1. document'[id].version = v
          BY <1>0, <2>1, <3>2 DEF LegalInv, DocumentRow, Existing
        <4> QED BY <2>4, <2>5, <3>2, <4>1 DEF LegalInv, ActiveDocuments
      <3> QED BY <2>2, <3>1, <3>2
    <2>7. LegalTask(task[t])'
      BY <2>3 DEF LegalTask
    <2>8. \A w \in Tasks : LegalTask(task[w])'
      BY <2>3, <2>4, <2>5, <2>7, LegalTasksKept
    <2>9. TermsInForce'
      BY <2>1, <2>4, <2>5 DEF LegalInv, TermsInForce
    <2> QED BY <2>4, <2>6, <2>8, <2>9 DEF LegalInv
  <1>11. ASSUME NEW t \in Tasks, CommitPublish(t)
         PROVE  LegalInv'
    <2> PICK id, locks : id = task[t].arg.id /\ locks = task[t].arg.locks
      OBVIOUS
    <2>1. /\ id \in Existing /\ locks \subseteq Existing
          /\ SendToUsers(t, Users) /\ UNCHANGED <<accepted, stated>>
          /\ document' = [d \in Documents |->
                IF d = id THEN [document[d] EXCEPT !.active = TRUE, !.published = TRUE]
                ELSE IF d \in locks THEN [document[d] EXCEPT !.active = FALSE]
                ELSE document[d]]
          /\ everPublic' = everPublic \cup {document[id].version}
      BY <1>11 DEF CommitPublish, At, Arg, LegalInv, LegalTask
    <2>2. task'[t].pc \in {"idle", "push"} /\ OnlyMoves(t)
      BY <2>1, SendSlot
    <2>3. LegalTask(task[t])'
      BY <2>2 DEF LegalTask
    <2>4. /\ document'[id] \in DocumentRow /\ document'[id].active = TRUE
          /\ document'[id].version = document[id].version
      BY <1>0, <2>1 DEF DocumentRow, Existing
    <2>5. ASSUME NEW d \in Existing \ {id}
          PROVE  /\ document'[d] \in DocumentRow
                 /\ document'[d].version = document[d].version
                 /\ document'[d].active => document[d].active
      <3>1. document'[d] = IF d \in locks THEN [document[d] EXCEPT !.active = FALSE] ELSE document[d]
        BY <2>1, <2>5 DEF Existing
      <3> QED BY <1>0, <3>1 DEF DocumentRow
    <2>6. \A d \in Documents \ Existing : document'[d] = Null
      BY <2>1 DEF Existing
    <2>7. Existing' = Existing
      BY <2>1, <2>4, <2>5, <2>6, LegalAssumption DEF Existing
    <2>8. document' \in [Documents -> DocumentRow \cup {Null}]
      <3>1. \A d \in Documents : document'[d] \in DocumentRow \cup {Null}
        BY <2>4, <2>5, <2>6
      <3>2. document' = [d \in Documents |-> document'[d]]
        BY <2>1
      <3> QED BY <3>1, <3>2
    <2>9. id \in ActiveDocuments'
      BY <2>1, <2>4, <2>7 DEF ActiveDocuments
    <2>10. ASSUME NEW d \in ActiveDocuments' PROVE document'[d].version \in everPublic'
      <3>0. everPublic \subseteq everPublic' /\ document[id].version \in everPublic'
        BY <2>1
      <3>1. d \in Existing /\ document'[d].active
        BY <2>7, <2>10 DEF ActiveDocuments
      <3>2. CASE d = id
        BY <2>4, <3>0, <3>2
      <3>3. CASE d # id
        <4>1. d \in ActiveDocuments
          BY <2>5, <3>1, <3>3 DEF ActiveDocuments
        <4>2. document'[d].version = document[d].version
          BY <2>5, <3>1, <3>3
        <4> QED BY <3>0, <4>1, <4>2 DEF LegalInv
      <3> QED BY <3>2, <3>3
    <2>11. \A w \in Tasks : LegalTask(task[w])'
      BY <2>1, <2>2, <2>3, <2>7, LegalTasksKept
    <2>12. TermsInForce'
      BY <2>1, <2>9 DEF LegalInv, TermsInForce
    <2> QED BY <2>8, <2>10, <2>11, <2>12 DEF LegalInv
  <1>12. ASSUME NEW u \in Users, NEW v \in Versions \cup {FallbackVersion}, RecordCharter(u, v)
         PROVE  LegalInv'
    <2>1. /\ accepted' \ stated' \subseteq accepted \ stated
          /\ UNCHANGED <<document, everPublic, task>>
      BY <1>12 DEF RecordCharter
    <2>2. Existing' = Existing /\ ActiveDocuments' = ActiveDocuments /\ InForce' = InForce
      BY <2>1 DEF Existing, ActiveDocuments, InForce
    <2>3. \A w \in Tasks : LegalTask(task[w])'
      BY <2>1, <2>2 DEF LegalInv, LegalTask
    <2> QED BY <2>1, <2>2, <2>3 DEF LegalInv, TermsInForce
  <1> QED BY <1>1, <1>2, <1>3, <1>4, <1>5, <1>6, <1>7, <1>8, <1>9, <1>10, <1>11, <1>12 DEF LegalNext

\* The steps of the other parts leave documents and acceptances alone.
LEMMA LegalUndisturbed ==
  ASSUME LegalInv, NEW pcs, Moves(pcs), Apart(pcs, LegalPcs), UNCHANGED legal
  PROVE  LegalInv'
  <1>1. UNCHANGED <<document, accepted, stated, everPublic>>
    BY DEF legal
  <1>2. Existing' = Existing /\ InForce' = InForce /\ ActiveDocuments' = ActiveDocuments
    BY <1>1 DEF Existing, InForce, ActiveDocuments
  <1>3. ASSUME NEW u \in Tasks PROVE LegalTask(task[u])'
    <2>1. CASE task'[u] = task[u]
      BY <1>2, <2>1 DEF LegalInv, LegalTask
    <2>2. CASE task'[u] # task[u]
      BY <2>2 DEF Moves, Apart, LegalPcs, LegalTask
    <2> QED BY <2>1, <2>2
  <1> QED BY <1>1, <1>2, <1>3 DEF LegalInv, TermsInForce

-----------------------------------------------------------------------------
(* Threads *)

NoThread(k) == \A c \in Open : KeyOf(c) # k

\* A thread about to be created is the first of its key, unless two requests are
\* creating it at once; a message and a mark are about a thread of their author.
ThreadTask(k) ==
    /\ k.pc = "createThread" =>
          /\ k.arg.key \in Keys
          /\ k.arg.role \in [k.arg.key.parties -> {"BUYER", "SELLER", "DELIVERY", "SUPPORT"}]
          /\ k.arg.key \notin rivals => NoThread(k.arg.key)
    /\ k.pc \in {"markRead", "writeMessage"} =>
          k.arg.user \in Users /\ IsParticipant(k.arg.user, k.arg.conv)
CreatesOnce ==
    \A t, u \in Tasks :
        /\ task[t].pc = "createThread" /\ task[u].pc = "createThread"
        /\ task[t].arg.key = task[u].arg.key
        => t = u \/ task[t].arg.key \in rivals
ThreadTypes ==
    /\ driver \in Drivers \cup {Null}
    /\ conversation \in [Conversations -> Thread \cup {Null}]
    /\ \A c \in Open : conversation[c].unread \in [Parties(c) -> Nat]
ThreadsInv ==
    /\ ThreadTypes
    /\ \A t \in Tasks : ThreadTask(task[t])
    /\ CreatesOnce
    /\ OneThreadUnlessRivals

\* An open thread is a row.
LEMMA OpenThread ==
  ASSUME ThreadTypes, NEW c \in Open
  PROVE  /\ conversation[c] \in Thread /\ c \in Conversations
         /\ KeyOf(c) \in Keys /\ Parties(c) \subseteq Users
         /\ conversation[c].unread \in [Parties(c) -> Nat]
  <1>1. conversation[c] \in Thread /\ c \in Conversations
    BY DEF ThreadTypes, Open
  <1>2. conversation[c].key \in Keys
    BY <1>1 DEF Thread
  <1> QED BY <1>1, <1>2 DEF ThreadTypes, KeyOf, Parties, Keys

\* A step of a handler that writes no thread and creates none.
LEMMA ThreadsRead ==
  ASSUME Pool, ThreadsInv, NEW t \in Tasks, OnlyMoves(t), UNCHANGED <<conversation, rivals>>,
         driver' \in Drivers \cup {Null},
         ThreadTask(task'[t]), task'[t].pc # "createThread"
  PROVE  ThreadsInv'
  <1>1. Open' = Open /\ \A c \in Open : KeyOf(c)' = KeyOf(c) /\ Parties(c)' = Parties(c)
    BY DEF Open, KeyOf, Parties
  <1>3. \A u \in Tasks : ThreadTask(task[u])'
    BY <1>1 DEF ThreadTask, NoThread, IsParticipant, ThreadsInv, OnlyMoves
  <1>4. CreatesOnce'
    BY DEF ThreadsInv, CreatesOnce, OnlyMoves
  <1>5. ThreadTypes'
    BY <1>1 DEF ThreadsInv, ThreadTypes
  <1>6. OneThreadUnlessRivals'
    BY <1>1 DEF ThreadsInv, OneThreadUnlessRivals
  <1> QED BY <1>3, <1>4, <1>5, <1>6 DEF ThreadsInv

\* findOrCreate and ensureSellerDriverConversation look for the thread, and mark
\* the key that another request is creating.
LEMMA AskForKeeps ==
  ASSUME Pool, ThreadsInv, NEW t \in Tasks, NEW k \in Keys, NEW u, AskFor(t, k, u),
         UNCHANGED conversation, driver' \in Drivers \cup {Null}
  PROVE  ThreadsInv'
  <1>1. Open' = Open /\ \A c \in Open : KeyOf(c)' = KeyOf(c) /\ Parties(c)' = Parties(c)
    BY DEF Open, KeyOf, Parties
  <1>2. CASE Done(t) /\ UNCHANGED rivals
    <2>1. task'[t].pc = "idle" /\ OnlyMoves(t)
      BY <1>2, DoneSlot
    <2>2. ThreadTask(task'[t])
      BY <2>1 DEF ThreadTask
    <2> QED BY <1>2, <2>1, <2>2, ThreadsRead
  <1>3. CASE Matching(k, u) = {} /\ ~(Done(t) /\ UNCHANGED rivals)
    <2> DEFINE role == [v \in k.parties |-> ResolveRole(v, k.type, u)]
               arg == [key |-> k, role |-> role]
    <2>1. /\ Goto(t, "createThread", arg)
          /\ rivals' = IF k \in Creating(t) THEN rivals \cup {k} ELSE rivals
      BY <1>3 DEF AskFor
    <2>2. role \in [k.parties -> {"BUYER", "SELLER", "DELIVERY", "SUPPORT"}]
      BY DEF ResolveRole, Keys, Types
    <2>3. arg.key = k /\ arg.role = role
      OBVIOUS
    <2> HIDE DEF role, arg
    <2>4. task'[t].pc = "createThread" /\ task'[t].arg = arg /\ OnlyMoves(t)
      BY <2>1, GotoSlot
    <2>5. NoThread(k) /\ (\A x : NoThread(x)' <=> NoThread(x)) /\ rivals \subseteq rivals'
      BY <1>1, <1>3, <2>1 DEF NoThread, Matching
    <2>6. ThreadTask(task[t])'
      BY <2>2, <2>3, <2>4, <2>5 DEF ThreadTask
    <2>7. ASSUME NEW v \in Tasks \ {t} PROVE ThreadTask(task[v])'
      <3>1. task'[v] = task[v] /\ ThreadTask(task[v])
        BY <2>4 DEF OnlyMoves, ThreadsInv
      <3> QED BY <1>1, <2>5, <3>1 DEF ThreadTask, IsParticipant
    <2>8. CreatesOnce'
      <3> SUFFICES ASSUME NEW v \in Tasks, NEW w \in Tasks, v # w,
                          task'[v].pc = "createThread", task'[w].pc = "createThread",
                          task'[v].arg.key = task'[w].arg.key
                   PROVE  task'[v].arg.key \in rivals'
        BY DEF CreatesOnce
      <3>1. CASE v # t /\ w # t
        BY <2>4, <2>5, <3>1 DEF OnlyMoves, ThreadsInv, CreatesOnce
      <3>2. ASSUME NEW x \in Tasks \ {t}, task'[x].pc = "createThread", task'[x].arg.key = k
            PROVE  k \in rivals'
        BY <2>1, <2>4, <3>2 DEF OnlyMoves, Creating, At, Arg
      <3>3. CASE v = t \/ w = t
        BY <2>3, <2>4, <3>2, <3>3
      <3> QED BY <3>1, <3>3
    <2>9. ThreadTypes'
      BY <1>1 DEF ThreadsInv, ThreadTypes
    <2>10. OneThreadUnlessRivals'
      BY <1>1, <2>5 DEF ThreadsInv, OneThreadUnlessRivals
    <2> QED BY <2>6, <2>7, <2>8, <2>9, <2>10 DEF ThreadsInv
  <1> QED BY <1>2, <1>3 DEF AskFor

\* The creation: nobody else is creating the thread, and there was none.
LEMMA CreateThreadKeeps ==
  ASSUME Pool, ThreadsInv, NEW t \in Tasks, CreateThread(t)
  PROVE  ThreadsInv'
  <1> PICK key, role : key = task[t].arg.key /\ role = task[t].arg.role
    OBVIOUS
  <1> DEFINE row == [key |-> key, role |-> role, unread |-> [u \in key.parties |-> 0], last |-> Null]
  <1>1. /\ task[t].pc = "createThread" /\ Done(t) /\ UNCHANGED <<driver, rivals>>
        /\ \/ \E c \in Conversations \ Open : conversation' = [conversation EXCEPT ![c] = row]
           \/ UNCHANGED conversation
    BY DEF CreateThread, At, Arg
  <1>2. /\ key \in Keys
        /\ role \in [key.parties -> {"BUYER", "SELLER", "DELIVERY", "SUPPORT"}]
        /\ key \notin rivals => NoThread(key)
    BY <1>1 DEF ThreadsInv, ThreadTask
  <1>3. task'[t].pc = "idle" /\ OnlyMoves(t)
    BY <1>1, DoneSlot
  <1>4. ThreadTask(task'[t])
    BY <1>3 DEF ThreadTask
  <1>5. CASE UNCHANGED conversation
    BY <1>1, <1>3, <1>4, <1>5, ThreadsRead DEF ThreadsInv, ThreadTypes
  <1>6. ASSUME NEW c \in Conversations \ Open, conversation' = [conversation EXCEPT ![c] = row]
        PROVE  ThreadsInv'
    <2>1. row.key = key /\ row.unread \in [key.parties -> Nat] /\ row \in Thread
      <3>1. key.parties \in SUBSET Users
        BY <1>2 DEF Keys
      <3>2. role \in ForParties({"BUYER", "SELLER", "DELIVERY", "SUPPORT"})
        BY <1>2, <3>1 DEF ForParties
      <3>3. [u \in key.parties |-> 0] \in [key.parties -> Nat]
        OBVIOUS
      <3>4. [u \in key.parties |-> 0] \in ForParties(Nat)
        BY <3>1, <3>3 DEF ForParties
      <3> QED BY <1>2, <3>2, <3>3, <3>4 DEF Thread
    <2> HIDE DEF row
    <2>2. /\ conversation' \in [Conversations -> Thread \cup {Null}]
          /\ Open' = Open \cup {c} /\ conversation'[c] = row
          /\ \A e \in Open : conversation'[e] = conversation[e]
      BY <1>6, <2>1, MessagingAssumption DEF ThreadsInv, ThreadTypes, Open
    <2>3. /\ KeyOf(c)' = key /\ Parties(c)' = key.parties
          /\ \A e \in Open : KeyOf(e)' = KeyOf(e) /\ Parties(e)' = Parties(e)
      BY <2>1, <2>2 DEF KeyOf, Parties
    <2>4. ThreadTypes'
      BY <1>1, <2>1, <2>2, <2>3 DEF ThreadsInv, ThreadTypes
    <2>5. ASSUME NEW v \in Tasks \ {t} PROVE ThreadTask(task[v])'
      <3>1. task'[v] = task[v] /\ ThreadTask(task[v])
        BY <1>3 DEF OnlyMoves, ThreadsInv
      <3>2. task[v].pc = "createThread" => task[v].arg.key # key \/ key \in rivals
        BY <1>1 DEF ThreadsInv, CreatesOnce
      <3> QED BY <1>1, <2>2, <2>3, <3>1, <3>2 DEF ThreadTask, NoThread, IsParticipant
    <2>6. ThreadTask(task[t])'
      BY <1>3 DEF ThreadTask
    <2>7. CreatesOnce'
      BY <1>1, <1>3 DEF ThreadsInv, CreatesOnce, OnlyMoves
    <2>8. OneThreadUnlessRivals'
      BY <1>1, <1>2, <2>2, <2>3 DEF ThreadsInv, OneThreadUnlessRivals, NoThread
    <2> QED BY <2>4, <2>5, <2>6, <2>7, <2>8 DEF ThreadsInv
  <1> QED BY <1>1, <1>5, <1>6

\* The row of a thread is rewritten; the writes of markRead and of send.
Rewrites(c, row) == conversation' = [conversation EXCEPT ![c] = row]
Resets(c, u) == conversation' = [conversation EXCEPT ![c].unread[u] = 0]
Bumps(c, u, m) ==
    conversation' = [conversation EXCEPT ![c].last = m,
        ![c].unread = [v \in DOMAIN @ |-> IF v = u THEN @[v] ELSE @[v] + 1]]

\* A thread whose counters change keeps its key and its parties.
LEMMA CountersKeepThreads ==
  ASSUME Pool, ThreadsInv, NEW t \in Tasks, OnlyMoves(t), NEW c \in Open, NEW row,
         Rewrites(c, row),
         row \in Thread, row.key = KeyOf(c), row.unread \in [Parties(c) -> Nat],
         UNCHANGED <<driver, rivals>>,
         task'[t].pc \notin {"createThread", "markRead", "writeMessage"}
  PROVE  /\ ThreadsInv'
         /\ Open' = Open /\ conversation'[c] = row
         /\ \A e \in Open : Parties(e)' = Parties(e)
         /\ \A e \in Open \ {c} : conversation'[e] = conversation[e]
  <1>1. /\ conversation' \in [Conversations -> Thread \cup {Null}]
        /\ Open' = Open /\ conversation'[c] = row
        /\ \A e \in Open \ {c} : conversation'[e] = conversation[e]
    BY MessagingAssumption DEF ThreadsInv, ThreadTypes, Open, Rewrites
  <1>2. \A e \in Open : KeyOf(e)' = KeyOf(e) /\ Parties(e)' = Parties(e)
    BY <1>1 DEF KeyOf, Parties
  <1>3. ThreadTypes'
    BY <1>1, <1>2 DEF ThreadsInv, ThreadTypes
  <1>4. ASSUME NEW v \in Tasks PROVE ThreadTask(task[v])'
    <2>1. CASE v = t
      BY <2>1 DEF ThreadTask
    <2>2. CASE v # t
      <3>1. task'[v] = task[v] /\ ThreadTask(task[v])
        BY <2>2 DEF OnlyMoves, ThreadsInv
      <3> QED BY <1>1, <1>2, <3>1 DEF ThreadTask, NoThread, IsParticipant
    <2> QED BY <2>1, <2>2
  <1>5. CreatesOnce'
    BY DEF ThreadsInv, CreatesOnce, OnlyMoves
  <1>6. OneThreadUnlessRivals'
    BY <1>1, <1>2 DEF ThreadsInv, OneThreadUnlessRivals
  <1> QED BY <1>1, <1>2, <1>3, <1>4, <1>5, <1>6 DEF ThreadsInv

\* markRead's reset of a counter, as a write of the thread's row.
LEMMA ResetRow ==
  ASSUME ThreadTypes, NEW c \in Open, NEW u \in Parties(c),
         Resets(c, u)
  PROVE  \E row \in Thread :
           /\ Rewrites(c, row)
           /\ row.key = KeyOf(c) /\ row.unread \in [Parties(c) -> Nat]
           /\ row.unread[u] = 0
           /\ \A v \in Parties(c) \ {u} : row.unread[v] = conversation[c].unread[v]
  <1> DEFINE unread == [conversation[c].unread EXCEPT ![u] = 0]
             row == [conversation[c] EXCEPT !.unread = unread]
  <1>1. /\ conversation[c] \in Thread /\ conversation[c].unread \in [Parties(c) -> Nat]
        /\ Parties(c) \in SUBSET Users
    BY OpenThread
  <1>2. /\ unread \in [Parties(c) -> Nat] /\ unread[u] = 0
        /\ \A v \in Parties(c) \ {u} : unread[v] = conversation[c].unread[v]
    BY <1>1
  <1>3. Rewrites(c, row)
    BY DEF Resets, Rewrites
  <1> HIDE DEF unread
  <1>4. unread \in ForParties(Nat)
    BY <1>1, <1>2 DEF ForParties
  <1>5. row \in Thread /\ row.unread = unread /\ row.key = KeyOf(c)
    BY <1>1, <1>4 DEF Thread, KeyOf
  <1> QED BY <1>2, <1>3, <1>5

\* send's bump of the others' counters, as a write of the thread's row.
LEMMA BumpRow ==
  ASSUME ThreadTypes, NEW c \in Open, NEW u, NEW m \in MessageIds,
         Bumps(c, u, m)
  PROVE  \E row \in Thread :
           /\ Rewrites(c, row)
           /\ row.key = KeyOf(c) /\ row.unread \in [Parties(c) -> Nat]
           /\ \A v \in Parties(c) :
                row.unread[v] = IF v = u THEN conversation[c].unread[v]
                                ELSE conversation[c].unread[v] + 1
  <1> DEFINE old == conversation[c].unread
             unread == [v \in DOMAIN old |-> IF v = u THEN old[v] ELSE old[v] + 1]
             row == [conversation[c] EXCEPT !.last = m, !.unread = unread]
  <1>1. conversation[c] \in Thread /\ old \in [Parties(c) -> Nat] /\ Parties(c) \in SUBSET Users
    BY OpenThread
  <1>2. c \in DOMAIN conversation /\ DOMAIN conversation[c] = {"key", "role", "unread", "last"}
    BY <1>1, OpenThread DEF ThreadTypes, Thread
  <1>3. /\ unread \in [Parties(c) -> Nat]
        /\ \A v \in Parties(c) : unread[v] = IF v = u THEN old[v] ELSE old[v] + 1
    BY <1>1
  <1>4. Rewrites(c, row)
    BY <1>2 DEF Bumps, Rewrites
  <1> HIDE DEF unread
  <1>5. unread \in ForParties(Nat)
    BY <1>1, <1>3 DEF ForParties
  <1>6. row \in Thread /\ row.unread = unread /\ row.key = KeyOf(c)
    BY <1>1, <1>5 DEF Thread, KeyOf
  <1> QED BY <1>3, <1>4, <1>6

\* Every step of ConversationsService and MessagingService, as far as the threads
\* themselves go.
LEMMA ThreadsKept ==
  ASSUME Pool, ThreadsInv, MessagingNext
  PROVE  ThreadsInv'
  <1>0. driver \in Drivers \cup {Null} /\ ThreadTypes
    BY DEF ThreadsInv, ThreadTypes
  <1>1. ASSUME NEW t \in Tasks, NEW u \in Users, NEW type \in Types, FindOrCreate(t, u, type)
        PROVE  ThreadsInv'
    <2>1. PICK peer \in Peers(u, type) : AskFor(t, Key(type, TRUE, {u, peer}), u)
      BY <1>1 DEF FindOrCreate
    <2>2. peer \in Users
      BY <1>0, <2>1, MessagingAssumption DEF Peers, Sides, Types
    <2>3. Key(type, TRUE, {u, peer}) \in Keys
      BY <2>2 DEF Key, Keys
    <2> QED BY <1>0, <1>1, <2>1, <2>3, AskForKeeps DEF FindOrCreate
  <1>2. ASSUME NEW t \in Tasks, NEW u \in Users, NEW peer \in Users, NEW type \in Types,
               NEW scoped \in BOOLEAN, FindOrCreateWith(t, u, peer, type, scoped)
        PROVE  ThreadsInv'
    <2>1. Key(type, scoped, {u, peer}) \in Keys
      BY DEF Key, Keys
    <2> QED BY <1>0, <1>2, <2>1, AskForKeeps DEF FindOrCreateWith
  <1>3. ASSUME NEW t \in Tasks, NEW d \in Drivers, ClaimDelivery(t, d)
        PROVE  ThreadsInv'
    <2>1. Key("SELLER_DRIVER", TRUE, {Seller, d}) \in Keys
      BY MessagingAssumption DEF Key, Keys, Types
    <2> QED BY <1>3, <2>1, AskForKeeps DEF ClaimDelivery
  <1>4. ASSUME NEW t \in Tasks, NEW u \in Users, NEW c \in Conversations,
               MarkRead(t, u, c) \/ Send(t, u, c)
        PROVE  ThreadsInv'
    <2> DEFINE arg == [user |-> u, conv |-> c]
    <2>1. /\ IsParticipant(u, c) /\ UNCHANGED <<driver, conversation, rivals>>
          /\ Goto(t, "markRead", arg) \/ Goto(t, "writeMessage", arg)
      BY <1>4 DEF MarkRead, Send, messaging
    <2>2. arg.user = u /\ arg.conv = c
      OBVIOUS
    <2> HIDE DEF arg
    <2>3. task'[t].pc \in {"markRead", "writeMessage"} /\ task'[t].arg = arg /\ OnlyMoves(t)
      BY <2>1, GotoSlot
    <2>4. ThreadTask(task'[t])
      BY <2>1, <2>2, <2>3 DEF ThreadTask
    <2> QED BY <1>0, <2>1, <2>3, <2>4, ThreadsRead
  <1>5. ASSUME NEW t \in Tasks, ResetUnread(t)
        PROVE  ThreadsInv'
    <2> PICK c, u : c = task[t].arg.conv /\ u = task[t].arg.user
      OBVIOUS
    <2>1. /\ c \in Open /\ u \in Parties(c) /\ Done(t) /\ UNCHANGED <<driver, rivals>>
          /\ Resets(c, u)
      BY <1>5 DEF ResetUnread, At, Arg, ThreadsInv, ThreadTask, IsParticipant, Resets
    <2>2. task'[t].pc = "idle" /\ OnlyMoves(t)
      BY <2>1, DoneSlot
    <2> QED BY <1>0, <2>1, <2>2, ResetRow, CountersKeepThreads
  <1>6. ASSUME NEW t \in Tasks, WriteMessage(t)
        PROVE  ThreadsInv'
    <2> PICK c, u : c = task[t].arg.conv /\ u = task[t].arg.user
      OBVIOUS
    <2>1. /\ c \in Open /\ UNCHANGED <<driver, rivals>> /\ \E arg : Goto(t, "notifyPeers", arg)
          /\ \E m \in MessageIds : Bumps(c, u, m)
      BY <1>6 DEF WriteMessage, At, Arg, ThreadsInv, ThreadTask, IsParticipant, Bumps
    <2>2. task'[t].pc = "notifyPeers" /\ OnlyMoves(t)
      BY <2>1, GotoSlot
    <2> QED BY <1>0, <2>1, <2>2, BumpRow, CountersKeepThreads
  <1>7. ASSUME NEW t \in Tasks, SendFails(t) \/ NotifyPeers(t)
        PROVE  ThreadsInv'
    <2>1. UNCHANGED <<driver, conversation, rivals>>
      BY <1>7 DEF SendFails, NotifyPeers, messaging
    <2>2. task'[t].pc \in {"idle", "push"} /\ OnlyMoves(t)
      BY <1>7, DoneSlot, SendSlot DEF SendFails, NotifyPeers
    <2>3. ThreadTask(task'[t])
      BY <2>2 DEF ThreadTask
    <2> QED BY <1>0, <2>1, <2>2, <2>3, ThreadsRead
  <1> QED BY <1>1, <1>2, <1>3, <1>4, <1>5, <1>6, <1>7, CreateThreadKeeps DEF MessagingNext

\* The steps of the other parts leave threads alone.
LEMMA ThreadsUndisturbed ==
  ASSUME ThreadsInv, NEW pcs, Moves(pcs), Apart(pcs, MessagingPcs), UNCHANGED messaging
  PROVE  ThreadsInv'
  <1>1. UNCHANGED <<driver, conversation, rivals>>
    BY DEF messaging
  <1>2. Open' = Open /\ \A c \in Open : KeyOf(c)' = KeyOf(c) /\ Parties(c)' = Parties(c)
    BY <1>1 DEF Open, KeyOf, Parties
  <1>3. \A v \in Tasks :
          task'[v].pc \in {"createThread", "markRead", "writeMessage"} => task'[v] = task[v]
    BY DEF Moves, Apart, MessagingPcs
  <1>4. \A v \in Tasks : ThreadTask(task[v])'
    BY <1>1, <1>2, <1>3 DEF ThreadsInv, ThreadTask, NoThread, IsParticipant
  <1>5. ThreadTypes' /\ OneThreadUnlessRivals'
    BY <1>1, <1>2 DEF ThreadsInv, ThreadTypes, OneThreadUnlessRivals
  <1>6. CreatesOnce'
    BY <1>1, <1>3 DEF ThreadsInv, CreatesOnce
  <1> QED BY <1>4, <1>5, <1>6 DEF ThreadsInv

-----------------------------------------------------------------------------
(* Unread counters *)

Unseen(c, u) == {m \in Sent(c) \ seen[c][u] : message[m].sender # u}
Counted ==
    \A c \in Open : \A u \in Parties(c) :
        conversation[c].unread[u] = Cardinality(Unseen(c, u))

\* A message belongs to a thread, and what a party has seen was sent.
CountsInv ==
    /\ message \in [MessageIds -> Message \cup {Null}]
    /\ \A m \in MessageIds : message[m] # Null => message[m].conv \in Open
    /\ DOMAIN seen = Conversations
    /\ \A c \in Conversations : DOMAIN seen[c] = Users
    /\ \A c \in Conversations, u \in Users : seen[c][u] \subseteq Sent(c)
    /\ Counted

\* A step that writes no message, marks nothing read and changes no counter; a
\* thread it creates has no message yet.
LEMMA CountsRead ==
  ASSUME ThreadTypes, ThreadTypes', CountsInv, UNCHANGED <<message, seen>>, Open \subseteq Open',
         \A c \in Open : conversation'[c] = conversation[c],
         \A c \in Open' \ Open : \A u \in Parties(c)' : conversation'[c].unread[u] = 0
  PROVE  CountsInv'
  <1>1. \A c : Sent(c)' = Sent(c)
    BY DEF Sent
  <1>2. \A c, u : Unseen(c, u)' = Unseen(c, u)
    BY <1>1 DEF Unseen
  <1>3. ASSUME NEW c \in Open', NEW u \in Parties(c)'
        PROVE  conversation'[c].unread[u] = Cardinality(Unseen(c, u))
    <2>1. CASE c \in Open
      <3>1. Parties(c)' = Parties(c) /\ conversation'[c] = conversation[c]
        BY <2>1 DEF Parties
      <3> QED BY <1>3, <2>1, <3>1 DEF CountsInv, Counted
    <2>2. CASE c \notin Open
      <3>1. Sent(c) = {}
        BY <2>2 DEF CountsInv, Sent
      <3>2. Unseen(c, u) = {}
        BY <3>1 DEF Unseen
      <3> QED BY <1>3, <2>2, <3>2, FS_EmptySet
    <2> QED BY <2>1, <2>2
  <1>4. Counted'
    BY <1>2, <1>3 DEF Counted
  <1> QED BY <1>1, <1>4 DEF CountsInv

\* markRead: nothing sent so far is left unseen, and the counter is zero.
LEMMA ResetCounts ==
  ASSUME Pool, ThreadsInv, CountsInv, NEW t \in Tasks, ResetUnread(t)
  PROVE  CountsInv'
  <1> PICK c, u : c = task[t].arg.conv /\ u = task[t].arg.user
    OBVIOUS
  <1>1. /\ c \in Open /\ u \in Parties(c) /\ u \in Users /\ Done(t)
        /\ UNCHANGED <<driver, message, rivals>>
        /\ Resets(c, u)
        /\ seen' = [seen EXCEPT ![c][u] = Sent(c)]
    BY DEF ResetUnread, At, Arg, ThreadsInv, ThreadTask, IsParticipant, Resets
  <1>2. ThreadTypes /\ c \in Conversations
    BY <1>1 DEF ThreadsInv, Open
  <1>3. task'[t].pc = "idle" /\ OnlyMoves(t)
    BY <1>1, DoneSlot
  <1>4. PICK row \in Thread :
          /\ Rewrites(c, row)
          /\ row.key = KeyOf(c) /\ row.unread \in [Parties(c) -> Nat]
          /\ row.unread[u] = 0
          /\ \A v \in Parties(c) \ {u} : row.unread[v] = conversation[c].unread[v]
    BY <1>1, <1>2, ResetRow
  <1>5. /\ Open' = Open /\ conversation'[c] = row
        /\ \A e \in Open : Parties(e)' = Parties(e)
        /\ \A e \in Open \ {c} : conversation'[e] = conversation[e]
    BY <1>1, <1>3, <1>4, CountersKeepThreads
  <1>6. \A e : Sent(e)' = Sent(e)
    BY <1>1 DEF Sent
  <1>7. /\ DOMAIN seen' = Conversations
        /\ \A e \in Conversations : DOMAIN seen'[e] = Users
        /\ \A e \in Conversations, v \in Users :
              seen'[e][v] = IF e = c /\ v = u THEN Sent(c) ELSE seen[e][v]
    BY <1>1, <1>2 DEF CountsInv
  <1>8. Counted'
    <2> SUFFICES ASSUME NEW e \in Open, NEW v \in Parties(e)
                 PROVE  conversation'[e].unread[v] = Cardinality(Unseen(e, v)')
      BY <1>5 DEF Counted
    <2>1. e \in Conversations /\ v \in Users
      BY <1>2, OpenThread
    <2>2. CASE e = c /\ v = u
      <3>1. Unseen(e, v)' = {}
        BY <1>6, <1>7, <2>1, <2>2 DEF Unseen
      <3> QED BY <1>4, <1>5, <2>2, <3>1, FS_EmptySet
    <2>3. CASE ~(e = c /\ v = u)
      <3>1. Unseen(e, v)' = Unseen(e, v)
        BY <1>1, <1>6, <1>7, <2>1, <2>3 DEF Unseen
      <3>2. conversation'[e].unread[v] = conversation[e].unread[v]
        BY <1>4, <1>5, <2>3
      <3> QED BY <3>1, <3>2 DEF CountsInv, Counted
    <2> QED BY <2>2, <2>3
  <1> QED BY <1>1, <1>5, <1>6, <1>7, <1>8 DEF CountsInv

\* send: the message is new to everyone, and counts for everyone but its sender.
LEMMA WriteCounts ==
  ASSUME Pool, ThreadsInv, CountsInv, IsFiniteSet(MessageIds), NEW t \in Tasks, WriteMessage(t)
  PROVE  CountsInv'
  <1> PICK c, u : c = task[t].arg.conv /\ u = task[t].arg.user
    OBVIOUS
  <1>1. /\ task[t].pc = "writeMessage" /\ c \in Open /\ u \in Users /\ UNCHANGED <<driver, seen, rivals>>
        /\ \E arg : Goto(t, "notifyPeers", arg)
    BY DEF WriteMessage, At, Arg, ThreadsInv, ThreadTask, IsParticipant
  <1>2. PICK m \in MessageIds :
          /\ message[m] = Null
          /\ message' = [message EXCEPT ![m] = [conv |-> c, sender |-> u]]
          /\ Bumps(c, u, m)
    BY DEF WriteMessage, Arg, Bumps
  <1>3. ThreadTypes /\ c \in Conversations
    BY <1>1 DEF ThreadsInv, Open
  <1>4. task'[t].pc = "notifyPeers" /\ OnlyMoves(t)
    BY <1>1, GotoSlot
  <1>5. PICK row \in Thread :
          /\ Rewrites(c, row)
          /\ row.key = KeyOf(c) /\ row.unread \in [Parties(c) -> Nat]
          /\ \A v \in Parties(c) :
               row.unread[v] = IF v = u THEN conversation[c].unread[v]
                               ELSE conversation[c].unread[v] + 1
    BY <1>1, <1>2, <1>3, BumpRow
  <1>6. /\ Open' = Open /\ conversation'[c] = row
        /\ \A e \in Open : Parties(e)' = Parties(e)
        /\ \A e \in Open \ {c} : conversation'[e] = conversation[e]
    BY <1>1, <1>4, <1>5, CountersKeepThreads
  <1> DEFINE msg == [conv |-> c, sender |-> u]
  <1>7. msg \in Message /\ msg # Null /\ msg.conv = c /\ msg.sender = u
    BY <1>1, <1>3, MessagingAssumption DEF Message
  <1>8. message' = [message EXCEPT ![m] = msg]
    BY <1>2
  <1> HIDE DEF msg
  <1>9. /\ message' \in [MessageIds -> Message \cup {Null}] /\ message'[m] = msg
        /\ \A x \in MessageIds \ {m} : message'[x] = message[x]
    BY <1>7, <1>8 DEF CountsInv
  <1>10. /\ Sent(c)' = Sent(c) \cup {m} /\ m \notin Sent(c)
         /\ \A e : e # c => Sent(e)' = Sent(e)
    BY <1>2, <1>7, <1>9 DEF Sent
  <1>11. Counted'
    <2> SUFFICES ASSUME NEW e \in Open, NEW v \in Parties(e)
                 PROVE  conversation'[e].unread[v] = Cardinality(Unseen(e, v)')
      BY <1>6 DEF Counted
    <2>1. e \in Conversations /\ v \in Users
      BY <1>3, OpenThread
    <2>2. conversation[e].unread[v] = Cardinality(Unseen(e, v))
      BY DEF CountsInv, Counted
    <2>3. CASE e # c
      <3>1. m \notin Sent(e)
        BY <1>2 DEF Sent
      <3>2. Sent(e)' = Sent(e)
        BY <1>10, <2>3
      <3>3. Unseen(e, v)' = Unseen(e, v)
        BY <1>1, <1>9, <3>1, <3>2 DEF Unseen, Sent
      <3> QED BY <1>6, <2>2, <2>3, <3>3
    <2>4. CASE e = c /\ v = u
      <3>1. Unseen(c, v)' = Unseen(c, v)
        BY <1>1, <1>7, <1>9, <1>10, <2>4 DEF Unseen, Sent
      <3> QED BY <1>5, <1>6, <2>2, <2>4, <3>1
    <2>5. CASE e = c /\ v # u
      <3>1. m \notin seen[c][v]
        BY <1>3, <1>10, <2>1 DEF CountsInv
      <3>2. Unseen(c, v)' = Unseen(c, v) \cup {m} /\ m \notin Unseen(c, v)
        BY <1>1, <1>7, <1>9, <1>10, <2>5, <3>1 DEF Unseen, Sent
      <3>3. Unseen(c, v) \subseteq MessageIds
        BY DEF Unseen, Sent
      <3>4. IsFiniteSet(Unseen(c, v))
        BY <3>3, FS_Subset
      <3>5. Cardinality(Unseen(c, v) \cup {m}) = Cardinality(Unseen(c, v)) + 1
        BY <3>2, <3>4, FS_AddElement
      <3> QED BY <1>5, <1>6, <2>2, <2>5, <3>2, <3>5
    <2> QED BY <2>3, <2>4, <2>5
  <1>12. \A x \in MessageIds : message'[x] # Null => message'[x].conv \in Open'
    BY <1>1, <1>6, <1>7, <1>9 DEF CountsInv
  <1>13. \A e \in Conversations, v \in Users : seen'[e][v] \subseteq Sent(e)'
    BY <1>1, <1>10 DEF CountsInv
  <1> QED BY <1>1, <1>9, <1>11, <1>12, <1>13 DEF CountsInv

\* Every step of ConversationsService and MessagingService, as far as the counters
\* go.
LEMMA CountsKept ==
  ASSUME Pool, ThreadsInv, CountsInv, IsFiniteSet(MessageIds), MessagingNext
  PROVE  CountsInv'
  <1>0. ThreadTypes /\ ThreadTypes'
    BY ThreadsKept DEF ThreadsInv
  <1>1. CASE UNCHANGED <<conversation, message, seen>>
    <2>1. Open' = Open
      BY <1>1 DEF Open
    <2> QED BY <1>0, <1>1, <2>1, CountsRead
  <1>2. ASSUME NEW t \in Tasks,
               \/ \E u \in Users :
                    \/ \E type \in Types : FindOrCreate(t, u, type)
                    \/ \E peer \in Users, type \in Types, scoped \in BOOLEAN :
                          FindOrCreateWith(t, u, peer, type, scoped)
                    \/ \E c \in Conversations : MarkRead(t, u, c) \/ Send(t, u, c)
               \/ \E d \in Drivers : ClaimDelivery(t, d)
               \/ SendFails(t) \/ NotifyPeers(t)
        PROVE  UNCHANGED <<conversation, message, seen>>
    BY <1>2 DEF FindOrCreate, FindOrCreateWith, MarkRead, Send, ClaimDelivery, SendFails,
           NotifyPeers, messaging
  <1>3. ASSUME NEW t \in Tasks, CreateThread(t)
        PROVE  CountsInv'
    <2> PICK key, role : key = task[t].arg.key /\ role = task[t].arg.role
      OBVIOUS
    <2> DEFINE row == [key |-> key, role |-> role, unread |-> [u \in key.parties |-> 0], last |-> Null]
    <2>1. /\ UNCHANGED <<message, seen>>
          /\ \/ \E c \in Conversations \ Open : Rewrites(c, row)
             \/ UNCHANGED conversation
      BY <1>3 DEF CreateThread, Arg, Rewrites
    <2>2. row.key.parties = key.parties /\ \A u \in key.parties : row.unread[u] = 0
      OBVIOUS
    <2> HIDE DEF row
    <2>3. ASSUME NEW c \in Conversations \ Open, Rewrites(c, row) PROVE CountsInv'
      <3>1. /\ conversation'[c] = row
            /\ \A e \in Conversations \ {c} : conversation'[e] = conversation[e]
        BY <1>0, <2>3 DEF Rewrites, ThreadTypes
      <3>2. Open \subseteq Open' /\ Open' \subseteq Open \cup {c}
        BY <2>3, <3>1 DEF Open
      <3>3. \A e \in Open : conversation'[e] = conversation[e]
        BY <2>3, <3>1 DEF Open
      <3>4. Parties(c)' = key.parties
        BY <2>2, <3>1 DEF Parties
      <3> QED BY <1>0, <2>1, <2>2, <3>1, <3>2, <3>3, <3>4, CountsRead
    <2> QED BY <1>1, <2>1, <2>3
  <1> QED BY <1>1, <1>2, <1>3, ResetCounts, WriteCounts DEF MessagingNext

\* The steps of the other parts leave messages alone.
LEMMA CountsUndisturbed ==
  ASSUME CountsInv, UNCHANGED messaging
  PROVE  CountsInv'
  BY DEF CountsInv, Counted, Unseen, Sent, Open, Parties, messaging

-----------------------------------------------------------------------------
(* Trips *)

TripColumns == {"status", "driver", "at", "pickup", "dropoff"}
Begun == {"ASSIGNED", "AT_PICKUP", "PICKED_UP", "OVER"}
HandedOver == {"PICKED_UP", "OVER"}

TripTask(k) ==
    k.pc \in {"claim", "arrive", "mintPickup", "pickup", "mintDropoff", "deliver", "publish"} =>
        k.arg.trip \in Trips
TripTypes ==
    /\ DOMAIN trip = Trips
    /\ \A j \in Trips : DOMAIN trip[j] = TripColumns
    /\ minted \in Nat
    /\ \A t \in Tasks : TripTask(task[t])

\* What a step may do to a trip: once it has begun it keeps its driver, an ended
\* one is brought back only by a late pickup or arrival, which is on record, none
\* goes back before mark-ready, and before the pickup only by such an arrival.
TripStep(j) ==
    /\ trip[j].status \in Begun => trip'[j].status \in Begun /\ trip'[j].driver = trip[j].driver
    /\ trip[j].status = "OVER" => trip'[j].status = "OVER" \/ j \in raced'
    /\ trip[j].status # "UNREADY" => trip'[j].status # "UNREADY"
    /\ trip[j].status \in HandedOver => trip'[j].status \in HandedOver \/ j \in raced'
TripsFollow ==
    /\ DOMAIN trip' = Trips
    /\ \A j \in Trips : DOMAIN trip'[j] = TripColumns /\ TripStep(j)
    /\ raced \subseteq raced'

\* A write of one trip's row.
WritesTrip(j, row) == trip' = [trip EXCEPT ![j] = row]

\* A write of one trip's row leaves the other trips alone.
LEMMA TripWritten ==
  ASSUME TripTypes, NEW j \in Trips, NEW row, WritesTrip(j, row)
  PROVE  /\ DOMAIN trip' = Trips /\ trip'[j] = row
         /\ \A k \in Trips \ {j} : trip'[k] = trip[k]
  BY DEF TripTypes, WritesTrip

\* A trip whose row is rewritten within these rules.
LEMMA TripFollows ==
  ASSUME TripTypes, NEW j \in Trips, NEW row, WritesTrip(j, row), DOMAIN row = TripColumns,
         raced \subseteq raced',
         trip[j].status \in Begun => row.status \in Begun /\ row.driver = trip[j].driver,
         trip[j].status = "OVER" => row.status = "OVER" \/ j \in raced',
         trip[j].status # "UNREADY" => row.status # "UNREADY",
         trip[j].status \in HandedOver => row.status \in HandedOver \/ j \in raced'
  PROVE  TripsFollow
  <1>1. /\ DOMAIN trip' = Trips /\ trip'[j] = row
        /\ \A k \in Trips \ {j} : trip'[k] = trip[k]
    BY TripWritten
  <1> QED BY <1>1 DEF TripsFollow, TripStep, TripTypes

\* markReady puts the trip up for claiming, with a pickup token.
LEMMA MarkReadyRow ==
  ASSUME TripTypes, NEW t, NEW j \in Trips, MarkReady(t, j)
  PROVE  \E row : /\ WritesTrip(j, row) /\ DOMAIN row = TripColumns
                  /\ trip[j].status = "UNREADY" /\ row.status = "SEARCHING"
                  /\ row.driver = trip[j].driver
                  /\ row.pickup = Token /\ row.dropoff = trip[j].dropoff
  <1> DEFINE row == [trip[j] EXCEPT !.status = "SEARCHING", !.pickup = Token]
  <1>1. trip[j].status = "UNREADY" /\ DOMAIN trip[j] = TripColumns
    BY DEF MarkReady, TripTypes
  <1>2. WritesTrip(j, row)
    BY <1>1 DEF MarkReady, WritesTrip, TripTypes, TripColumns
  <1>3. /\ DOMAIN row = TripColumns /\ row.status = "SEARCHING" /\ row.driver = trip[j].driver
        /\ row.pickup = Token /\ row.dropoff = trip[j].dropoff
    BY <1>1 DEF TripColumns
  <1> QED BY <1>1, <1>2, <1>3

\* The conditional UPDATE of claim takes a trip nobody has.
LEMMA WriteClaimRow ==
  ASSUME TripTypes, NEW t \in Tasks, WriteClaim(t), trip' # trip
  PROVE  \E j \in Trips : \E row :
           /\ WritesTrip(j, row) /\ DOMAIN row = TripColumns
           /\ trip[j].status = "SEARCHING" /\ row.status = "ASSIGNED"
           /\ row.pickup = trip[j].pickup /\ row.dropoff = trip[j].dropoff
  <1> PICK j, c : j = task[t].arg.trip /\ c = task[t].arg.driver
    OBVIOUS
  <1> DEFINE row == [trip[j] EXCEPT !.status = "ASSIGNED", !.driver = c, !.at = Claimed + 1]
  <1>1. /\ j \in ListAvailable
        /\ trip' = [trip EXCEPT ![j].status = "ASSIGNED", ![j].driver = c, ![j].at = Claimed + 1]
    BY DEF WriteClaim, Arg
  <1>2. j \in Trips /\ trip[j].status = "SEARCHING" /\ DOMAIN trip[j] = TripColumns
    BY <1>1 DEF ListAvailable, TripTypes
  <1>3. WritesTrip(j, row)
    BY <1>1, <1>2 DEF WritesTrip, TripTypes, TripColumns
  <1>4. /\ DOMAIN row = TripColumns /\ row.status = "ASSIGNED"
        /\ row.pickup = trip[j].pickup /\ row.dropoff = trip[j].dropoff
    BY <1>2 DEF TripColumns
  <1> QED BY <1>2, <1>3, <1>4

\* getSellerPickupQr writes the pickup token only.
LEMMA MintPickupRow ==
  ASSUME TripTypes, NEW t \in Tasks, MintPickup(t)
  PROVE  \E row : /\ WritesTrip(task[t].arg.trip, row) /\ DOMAIN row = TripColumns
                  /\ row.status = trip[task[t].arg.trip].status
                  /\ row.driver = trip[task[t].arg.trip].driver
                  /\ row.pickup = Token /\ row.dropoff = trip[task[t].arg.trip].dropoff
  <1> PICK j : j = task[t].arg.trip
    OBVIOUS
  <1> DEFINE row == [trip[j] EXCEPT !.pickup = Token]
  <1>1. j \in Trips /\ trip' = [trip EXCEPT ![j].pickup = Token]
    BY DEF MintPickup, At, Arg, TripTypes, TripTask
  <1>2. DOMAIN trip[j] = TripColumns
    BY <1>1 DEF TripTypes
  <1>3. WritesTrip(j, row)
    BY <1>1, <1>2 DEF WritesTrip, TripTypes, TripColumns
  <1>4. /\ DOMAIN row = TripColumns /\ row.status = trip[j].status /\ row.driver = trip[j].driver
        /\ row.pickup = Token /\ row.dropoff = trip[j].dropoff
    BY <1>2 DEF TripColumns
  <1> QED BY <1>3, <1>4

\* getBuyerDeliveryQr writes the dropoff token only.
LEMMA MintDropoffRow ==
  ASSUME TripTypes, NEW t \in Tasks, MintDropoff(t)
  PROVE  \E row : /\ WritesTrip(task[t].arg.trip, row) /\ DOMAIN row = TripColumns
                  /\ row.status = trip[task[t].arg.trip].status
                  /\ row.driver = trip[task[t].arg.trip].driver
                  /\ row.pickup = trip[task[t].arg.trip].pickup /\ row.dropoff = Token
  <1> PICK j : j = task[t].arg.trip
    OBVIOUS
  <1> DEFINE row == [trip[j] EXCEPT !.dropoff = Token]
  <1>1. j \in Trips /\ trip' = [trip EXCEPT ![j].dropoff = Token]
    BY DEF MintDropoff, At, Arg, TripTypes, TripTask
  <1>2. DOMAIN trip[j] = TripColumns
    BY <1>1 DEF TripTypes
  <1>3. WritesTrip(j, row)
    BY <1>1, <1>2 DEF WritesTrip, TripTypes, TripColumns
  <1>4. /\ DOMAIN row = TripColumns /\ row.status = trip[j].status /\ row.driver = trip[j].driver
        /\ row.pickup = trip[j].pickup /\ row.dropoff = Token
    BY <1>2 DEF TripColumns
  <1> QED BY <1>3, <1>4

\* confirmPickup writes the status and the dropoff token, whatever the row has become.
LEMMA WritePickupRow ==
  ASSUME TripTypes, NEW t \in Tasks, WritePickup(t)
  PROVE  \E row : /\ WritesTrip(task[t].arg.trip, row) /\ DOMAIN row = TripColumns
                  /\ row.status = "PICKED_UP"
                  /\ row.driver = trip[task[t].arg.trip].driver
                  /\ row.pickup = trip[task[t].arg.trip].pickup /\ row.dropoff = Token
  <1> PICK j : j = task[t].arg.trip
    OBVIOUS
  <1> DEFINE row == [trip[j] EXCEPT !.status = "PICKED_UP", !.dropoff = Token]
  <1>1. j \in Trips /\ trip' = [trip EXCEPT ![j].status = "PICKED_UP", ![j].dropoff = Token]
    BY DEF WritePickup, At, Arg, TripTypes, TripTask
  <1>2. DOMAIN trip[j] = TripColumns
    BY <1>1 DEF TripTypes
  <1>3. WritesTrip(j, row)
    BY <1>1, <1>2 DEF WritesTrip, TripTypes, TripColumns
  <1>4. /\ DOMAIN row = TripColumns /\ row.status = "PICKED_UP" /\ row.driver = trip[j].driver
        /\ row.pickup = trip[j].pickup /\ row.dropoff = Token
    BY <1>2 DEF TripColumns
  <1> QED BY <1>3, <1>4

\* arriveAtPickup writes the status only, whatever the row has become.
LEMMA WriteArrivalRow ==
  ASSUME TripTypes, NEW t \in Tasks, WriteArrival(t)
  PROVE  \E row : /\ WritesTrip(task[t].arg.trip, row) /\ DOMAIN row = TripColumns
                  /\ row.status = "AT_PICKUP"
                  /\ row.driver = trip[task[t].arg.trip].driver
                  /\ row.pickup = trip[task[t].arg.trip].pickup
                  /\ row.dropoff = trip[task[t].arg.trip].dropoff
  <1> PICK j : j = task[t].arg.trip
    OBVIOUS
  <1> DEFINE row == [trip[j] EXCEPT !.status = "AT_PICKUP"]
  <1>1. j \in Trips /\ trip' = [trip EXCEPT ![j].status = "AT_PICKUP"]
    BY DEF WriteArrival, At, Arg, TripTypes, TripTask
  <1>2. DOMAIN trip[j] = TripColumns
    BY <1>1 DEF TripTypes
  <1>3. WritesTrip(j, row)
    BY <1>1, <1>2 DEF WritesTrip, TripTypes, TripColumns
  <1>4. /\ DOMAIN row = TripColumns /\ row.status = "AT_PICKUP" /\ row.driver = trip[j].driver
        /\ row.pickup = trip[j].pickup /\ row.dropoff = trip[j].dropoff
    BY <1>2 DEF TripColumns
  <1> QED BY <1>3, <1>4

\* confirmDelivery and a cancellation write the status only.
LEMMA EndRow ==
  ASSUME TripTypes, NEW j \in Trips, trip' = [trip EXCEPT ![j].status = "OVER"]
  PROVE  \E row : /\ WritesTrip(j, row) /\ DOMAIN row = TripColumns
                  /\ row.status = "OVER" /\ row.driver = trip[j].driver
                  /\ row.pickup = trip[j].pickup /\ row.dropoff = trip[j].dropoff
  <1> DEFINE row == [trip[j] EXCEPT !.status = "OVER"]
  <1>1. DOMAIN trip[j] = TripColumns
    BY DEF TripTypes
  <1>2. WritesTrip(j, row)
    BY <1>1 DEF WritesTrip, TripTypes, TripColumns
  <1>3. /\ DOMAIN row = TripColumns /\ row.status = "OVER" /\ row.driver = trip[j].driver
        /\ row.pickup = trip[j].pickup /\ row.dropoff = trip[j].dropoff
    BY <1>1 DEF TripColumns
  <1> QED BY <1>2, <1>3

\* The handlers that leave the rows alone, and at most record a race.
LEMMA TripUntouched ==
  ASSUME TripTypes, UNCHANGED trip, raced \subseteq raced'
  PROVE  TripsFollow
  BY DEF TripsFollow, TripStep, TripTypes

\* A request that moves, with its trip if it has one.
LEMMA TripTypesFrom ==
  ASSUME TripTypes, TripsFollow, minted' \in Nat, NEW t \in Tasks, OnlyMoves(t),
         TripTask(task'[t])
  PROVE  TripTypes'
  <1>1. \A v \in Tasks : TripTask(task'[v])
    BY DEF OnlyMoves, TripTypes
  <1> QED BY <1>1 DEF TripTypes, TripsFollow, TripTask

\* A step that mints a token, of a pool of naturals.
LEMMA MintNat ==
  ASSUME TripTypes, Mint
  PROVE  minted' \in Nat /\ Token \in Nat \ {0}
  BY DEF TripTypes, Mint, Token

\* markReady keeps the trips in order.
LEMMA MarkReadyTrip ==
  ASSUME Pool, TripTypes, NEW t \in Tasks, NEW j \in Trips, MarkReady(t, j)
  PROVE  TripsFollow /\ TripTypes'
  <1>1. PICK row : /\ WritesTrip(j, row) /\ DOMAIN row = TripColumns
                   /\ trip[j].status = "UNREADY" /\ row.status = "SEARCHING"
    BY MarkReadyRow
  <1>2. Mint /\ UNCHANGED raced /\ \E users : SendToUsers(t, users)
    BY DEF MarkReady
  <1>3. TripsFollow
    BY <1>1, <1>2, TripFollows DEF Begun, HandedOver
  <1>4. OnlyMoves(t) /\ task'[t].pc \in {"idle", "push"}
    BY <1>2, SendSlot
  <1> QED BY <1>2, <1>3, <1>4, MintNat, TripTypesFrom DEF TripTask

\* The conditional UPDATE of claim keeps the trips in order.
LEMMA WriteClaimTrip ==
  ASSUME Pool, TripTypes, NEW t \in Tasks, WriteClaim(t)
  PROVE  TripsFollow /\ TripTypes'
  <1>1. UNCHANGED <<minted, raced>> /\ (Done(t) \/ \E users : SendToUsers(t, users))
    BY DEF WriteClaim
  <1>2. TripsFollow
    <2>1. CASE trip' # trip
      <3> PICK j \in Trips : \E row :
            /\ WritesTrip(j, row) /\ DOMAIN row = TripColumns
            /\ trip[j].status = "SEARCHING" /\ row.status = "ASSIGNED"
        BY <2>1, WriteClaimRow
      <3> QED BY <1>1, TripFollows DEF Begun, HandedOver
    <2> QED BY <1>1, <2>1, TripUntouched
  <1>3. OnlyMoves(t) /\ task'[t].pc \in {"idle", "push"}
    BY <1>1, SendSlot, DoneSlot
  <1>4. minted' \in Nat
    BY <1>1 DEF TripTypes
  <1> QED BY <1>2, <1>3, <1>4, TripTypesFrom DEF TripTask

\* The two mints of a QR code keep the trips in order.
LEMMA MintTrip ==
  ASSUME Pool, TripTypes, NEW t \in Tasks, MintPickup(t) \/ MintDropoff(t)
  PROVE  TripsFollow /\ TripTypes'
  <1> PICK j : j = task[t].arg.trip
    OBVIOUS
  <1>1. Mint /\ UNCHANGED raced /\ Done(t) /\ j \in Trips
    BY DEF MintPickup, MintDropoff, At, TripTypes, TripTask
  <1>2. PICK row : /\ WritesTrip(j, row) /\ DOMAIN row = TripColumns
                   /\ row.status = trip[j].status /\ row.driver = trip[j].driver
    BY MintPickupRow, MintDropoffRow
  <1>3. TripsFollow
    BY <1>1, <1>2, TripFollows
  <1>4. OnlyMoves(t) /\ task'[t].pc = "idle"
    BY <1>1, DoneSlot
  <1> QED BY <1>1, <1>3, <1>4, MintNat, TripTypesFrom DEF TripTask

\* confirmPickup keeps the trips in order, or records that it brought one back.
LEMMA WritePickupTrip ==
  ASSUME Pool, TripTypes, NEW t \in Tasks, WritePickup(t)
  PROVE  TripsFollow /\ TripTypes'
  <1> PICK j : j = task[t].arg.trip
    OBVIOUS
  <1>1. /\ Mint /\ j \in Trips /\ \E users : SendToUsers(t, users)
        /\ raced' = IF trip[j].status \notin BeforePickup THEN raced \cup {j} ELSE raced
    BY DEF WritePickup, At, Arg, TripTypes, TripTask, Race
  <1>2. PICK row : /\ WritesTrip(j, row) /\ DOMAIN row = TripColumns
                   /\ row.status = "PICKED_UP" /\ row.driver = trip[j].driver
    BY WritePickupRow
  <1>3. TripsFollow
    BY <1>1, <1>2, TripFollows DEF Begun, BeforePickup, HandedOver
  <1>4. OnlyMoves(t) /\ task'[t].pc \in {"idle", "push"}
    BY <1>1, SendSlot
  <1> QED BY <1>1, <1>3, <1>4, MintNat, TripTypesFrom DEF TripTask

\* arriveAtPickup keeps the trips in order, or records that it brought one back.
LEMMA WriteArrivalTrip ==
  ASSUME Pool, TripTypes, NEW t \in Tasks, WriteArrival(t)
  PROVE  TripsFollow /\ TripTypes'
  <1> PICK j : j = task[t].arg.trip
    OBVIOUS
  <1>1. /\ UNCHANGED minted /\ j \in Trips /\ \E users : SendToUsers(t, users)
        /\ raced' = IF trip[j].status \notin BeforePickup THEN raced \cup {j} ELSE raced
    BY DEF WriteArrival, At, Arg, TripTypes, TripTask, Race
  <1>2. PICK row : /\ WritesTrip(j, row) /\ DOMAIN row = TripColumns
                   /\ row.status = "AT_PICKUP" /\ row.driver = trip[j].driver
    BY WriteArrivalRow
  <1>3. TripsFollow
    BY <1>1, <1>2, TripFollows DEF Begun, BeforePickup, HandedOver
  <1>4. OnlyMoves(t) /\ task'[t].pc \in {"idle", "push"}
    BY <1>1, SendSlot
  <1>5. minted' \in Nat
    BY <1>1 DEF TripTypes
  <1> QED BY <1>3, <1>4, <1>5, TripTypesFrom DEF TripTask

\* An end, delivered or not, keeps the trips in order.
LEMMA EndFollows ==
  ASSUME TripTypes, NEW j \in Trips, trip' = [trip EXCEPT ![j].status = "OVER"], UNCHANGED raced
  PROVE  TripsFollow
  <1>1. PICK row : /\ WritesTrip(j, row) /\ DOMAIN row = TripColumns
                   /\ row.status = "OVER" /\ row.driver = trip[j].driver
    BY EndRow
  <1> QED BY <1>1, TripFollows DEF Begun, HandedOver

\* confirmDelivery keeps the trips in order.
LEMMA WriteDeliveredTrip ==
  ASSUME Pool, TripTypes, NEW t \in Tasks, WriteDelivered(t)
  PROVE  TripsFollow /\ TripTypes'
  <1>1. /\ task[t].arg.trip \in Trips /\ trip' = [trip EXCEPT ![task[t].arg.trip].status = "OVER"]
        /\ UNCHANGED <<minted, raced>> /\ \E users : SendToUsers(t, users)
    BY DEF WriteDelivered, At, Arg, TripTypes, TripTask
  <1>2. TripsFollow
    BY <1>1, EndFollows
  <1>3. OnlyMoves(t) /\ task'[t].pc \in {"idle", "push"}
    BY <1>1, SendSlot
  <1>4. minted' \in Nat
    BY <1>1 DEF TripTypes
  <1> QED BY <1>2, <1>3, <1>4, TripTypesFrom DEF TripTask

\* The handlers that read a trip and go on with it.
LEMMA StartTrip ==
  ASSUME Pool, TripTypes, NEW t \in Tasks,
         \/ \E j \in Trips : GetSellerPickupQr(t, j) \/ GetBuyerDeliveryQr(t, j)
         \/ \E j \in Trips, c \in Couriers :
               \/ Claim(t, c, j) \/ ArriveAtPickup(t, c, j)
               \/ ConfirmPickup(t, c, j) \/ ConfirmDelivery(t, c, j)
  PROVE  TripsFollow /\ TripTypes'
  <1>1. UNCHANGED <<trip, minted>> /\ raced \subseteq raced'
    BY DEF GetSellerPickupQr, GetBuyerDeliveryQr, Claim, ArriveAtPickup, ConfirmPickup,
           ConfirmDelivery, tracking, Race
  <1>2. TripsFollow /\ minted' \in Nat
    BY <1>1, TripUntouched DEF TripTypes
  <1>3. CASE UNCHANGED task
    BY <1>2, <1>3, TripTypesFrom DEF TripTypes, OnlyMoves
  <1>4. ASSUME NEW j \in Trips, NEW pc, NEW arg, Goto(t, pc, arg), arg.trip = j
        PROVE  TripTypes'
    <2>1. OnlyMoves(t) /\ task'[t].arg = arg
      BY <1>4, GotoSlot
    <2> QED BY <1>2, <1>4, <2>1, TripTypesFrom DEF TripTask
  <1>5. UNCHANGED task \/ \E j \in Trips : \E pc, arg : Goto(t, pc, arg) /\ arg.trip = j
    BY DEF GetSellerPickupQr, GetBuyerDeliveryQr, Claim, ArriveAtPickup, ConfirmPickup,
           ConfirmDelivery
  <1> QED BY <1>2, <1>3, <1>4, <1>5

\* The driver's phone and the map leave the trips alone.
LEMMA DrivingTrip ==
  ASSUME Pool, TripTypes, NEW t \in Tasks,
         \/ \E c \in Couriers : RecordLocation(t, c) \/ \E on \in BOOLEAN : SetOnline(t, c, on)
         \/ WriteOnline(t) \/ WriteOnlinePoint(t) \/ WriteFix(t) \/ FindActive(t)
         \/ PublishPosition(t) \/ PublicationLost(t)
  PROVE  TripsFollow /\ TripTypes'
  <1>1. UNCHANGED <<trip, minted, raced>>
    BY DEF RecordLocation, SetOnline, WriteOnline, WriteOnlinePoint, WriteFix, FindActive,
           PublishPosition, PublicationLost, tracking
  <1>2. TripsFollow /\ minted' \in Nat
    BY <1>1, TripUntouched DEF TripTypes
  <1>3. CASE Done(t)
    BY <1>2, <1>3, DoneSlot, TripTypesFrom DEF TripTask
  <1>4. ASSUME NEW pc \in {"record", "setOnline", "onlinePoint", "findActive"}, NEW arg,
               Goto(t, pc, arg)
        PROVE  TripTypes'
    <2>1. OnlyMoves(t) /\ task'[t].pc = pc
      BY <1>4, GotoSlot
    <2> QED BY <1>2, <2>1, TripTypesFrom DEF TripTask
  <1>5. ASSUME NEW j \in Trips, Goto(t, "publish", Position(task[t].arg, j))
        PROVE  TripTypes'
    <2>1. OnlyMoves(t) /\ task'[t].arg = Position(task[t].arg, j)
      BY <1>5, GotoSlot
    <2>2. task'[t].arg.trip = j
      BY <2>1 DEF Position
    <2> QED BY <1>2, <2>1, <2>2, TripTypesFrom DEF TripTask
  <1>6. \/ Done(t)
        \/ \E pc \in {"record", "setOnline", "onlinePoint", "findActive"} : \E arg : Goto(t, pc, arg)
        \/ \E j \in Trips : Goto(t, "publish", Position(task[t].arg, j))
    BY DEF RecordLocation, SetOnline, WriteOnline, WriteOnlinePoint, WriteFix, FindActive,
           PublishPosition, PublicationLost, LatestOf, Active, Arg
  <1> QED BY <1>2, <1>3, <1>4, <1>5, <1>6

\* Every step of the deliveries keeps the trips in order.
LEMMA TripsKept ==
  ASSUME Pool, TripTypes, TrackingNext
  PROVE  TripsFollow /\ TripTypes'
  <1>1. ASSUME UNCHANGED <<trip, minted, raced, task>>
        PROVE  TripsFollow /\ TripTypes'
    BY <1>1, TripUntouched DEF TripTypes, TripTask
  <1>2. CASE Driving
    <2>1. CASE \E c \in Couriers : Suspend(c) \/ Review(c)
      BY <1>1, <2>1 DEF Suspend, Review
    <2> QED BY <1>2, <2>1, DrivingTrip DEF Driving
  <1>3. CASE Dispatching
    <2>1. ASSUME NEW j \in Trips, EndTrip(j)
          PROVE  TripsFollow /\ TripTypes'
      <3>1. TripsFollow
        BY <2>1, EndFollows DEF EndTrip
      <3> QED BY <2>1, <3>1 DEF EndTrip, TripTypes, TripTask, TripsFollow
    <2> QED BY <1>3, <2>1, MarkReadyTrip, WriteClaimTrip, StartTrip DEF Dispatching
  <1>4. CASE HandingOver
    BY <1>4, StartTrip, MintTrip, WritePickupTrip, WriteDeliveredTrip DEF HandingOver
  <1>5. CASE Watching
    BY <1>1, <1>5 DEF Watching, Reconnect, Subscribe, Unsubscribe
  <1>6. CASE Arriving
    BY <1>6, StartTrip, WriteArrivalTrip DEF Arriving
  <1> QED BY <1>2, <1>3, <1>4, <1>5, <1>6 DEF TrackingNext

-----------------------------------------------------------------------------
(* The map *)

Fixing == {"record", "findActive", "publish"}

\* A position on its way: the trips that were over when it was taken still are,
\* and the one it is published on belongs to the driver who took it.
FixTask(k) ==
    /\ k.pc \in Fixing =>
          \A j \in Trips : j \in k.arg.over => trip[j].status = "OVER" \/ j \in raced
    /\ k.pc = "publish" =>
          /\ trip[k.arg.trip].status \in Begun
          /\ trip[k.arg.trip].driver = k.arg.driver
          /\ k.arg.trip \in k.arg.over => k.arg.trip \in raced
\* A position received is of the buyer's trip, by its driver, and not late.
Received(u, j) ==
    stream[u][j] # Null =>
        /\ Guest[j] = u
        /\ trip[j].status \in Begun
        /\ stream[u][j].driver = trip[j].driver
        /\ j \notin raced => ~stream[u][j].late
MapTypes ==
    /\ DOMAIN rooms = Users /\ DOMAIN stream = Users
    /\ \A u \in Users : DOMAIN stream[u] = Trips
    /\ \A u \in Users, j \in Trips : j \in rooms[u] => Guest[j] = u
MapInv ==
    /\ MapTypes
    /\ \A t \in Tasks : FixTask(task[t])
    /\ \A u \in Users, j \in Trips : Received(u, j)

\* What is known of a position on its way, and of one received, outlives a step
\* that keeps the trips in order.
LEMMA FixStays ==
  ASSUME TripsFollow, TripTypes, NEW t \in Tasks, FixTask(task[t]), task'[t] = task[t]
  PROVE  FixTask(task[t])'
  <1>1. ASSUME task[t].pc \in Fixing, NEW j \in Trips, j \in task[t].arg.over
        PROVE  trip'[j].status = "OVER" \/ j \in raced'
    BY <1>1 DEF FixTask, TripsFollow, TripStep
  <1>2. ASSUME task[t].pc = "publish"
        PROVE  /\ trip'[task[t].arg.trip].status \in Begun
               /\ trip'[task[t].arg.trip].driver = task[t].arg.driver
               /\ task[t].arg.trip \in task[t].arg.over => task[t].arg.trip \in raced'
    <2>1. task[t].arg.trip \in Trips
      BY <1>2 DEF TripTypes, TripTask
    <2> QED BY <1>2, <2>1 DEF FixTask, TripsFollow, TripStep
  <1> QED BY <1>1, <1>2 DEF FixTask

\* The same of a position that the socket has received.
LEMMA ReceivedStays ==
  ASSUME TripsFollow, NEW u \in Users, NEW j \in Trips, Received(u, j),
         stream'[u][j] = stream[u][j]
  PROVE  Received(u, j)'
  BY DEF Received, TripsFollow, TripStep

\* A step that keeps the trips in order, sends nothing and takes no position.
LEMMA MapFollows ==
  ASSUME MapInv, TripTypes, TripsFollow, UNCHANGED <<rooms, stream>>,
         \A t \in Tasks : task'[t] # task[t] => task'[t].pc \notin Fixing
  PROVE  MapInv'
  <1>1. MapTypes'
    BY DEF MapInv, MapTypes
  <1>2. ASSUME NEW t \in Tasks PROVE FixTask(task[t])'
    <2>1. CASE task'[t] = task[t]
      BY <2>1, FixStays DEF MapInv
    <2>2. CASE task'[t].pc \notin Fixing
      BY <2>2 DEF FixTask, Fixing
    <2> QED BY <2>1, <2>2
  <1>3. \A u \in Users, j \in Trips : Received(u, j)'
    BY ReceivedStays DEF MapInv
  <1> QED BY <1>1, <1>2, <1>3 DEF MapInv

\* recordLocation, to the channel it publishes on: the phone's fix carries the
\* trips that were over, and only an active trip is published on.
LEMMA FixKeeps ==
  ASSUME Pool, MapInv, TripTypes, NEW t \in Tasks,
         WriteFix(t) \/ FindActive(t) \/ \E c \in Couriers : RecordLocation(t, c)
  PROVE  MapInv'
  <1>1. UNCHANGED <<trip, raced, rooms, stream>>
    BY DEF RecordLocation, WriteFix, FindActive, tracking
  <1>2. TripsFollow
    BY <1>1, TripUntouched
  <1>3. OnlyMoves(t) /\ FixTask(task[t])'
    <2>1. ASSUME NEW c \in Couriers, RecordLocation(t, c)
          PROVE  OnlyMoves(t) /\ FixTask(task[t])'
      <3> DEFINE a == [driver |-> c, fix |-> fixes', over |-> Over]
      <3>1. Goto(t, "record", a) /\ a.over = Over
        BY <2>1 DEF RecordLocation
      <3> HIDE DEF a
      <3>2. task'[t].pc = "record" /\ task'[t].arg.over = Over /\ OnlyMoves(t)
        BY <3>1, GotoSlot
      <3> QED BY <1>1, <3>2 DEF FixTask, Over
    <2>2. CASE WriteFix(t)
      <3>1. task[t].pc = "record" /\ Goto(t, "findActive", task[t].arg)
        BY <2>2 DEF WriteFix, At, Arg
      <3>2. task'[t].pc = "findActive" /\ task'[t].arg = task[t].arg /\ OnlyMoves(t)
        BY <3>1, GotoSlot
      <3>3. FixTask(task[t])
        BY DEF MapInv
      <3> QED BY <1>1, <3>1, <3>2, <3>3 DEF FixTask, Fixing
    <2>3. CASE FindActive(t) /\ Done(t)
      BY <2>3, DoneSlot DEF FixTask, Fixing
    <2>4. CASE FindActive(t) /\ ~Done(t)
      <3> PICK c, o : c = task[t].arg.driver /\ o = task[t].arg.over
        OBVIOUS
      <3>1. PICK j \in LatestOf(Active(c)) : Goto(t, "publish", Position(task[t].arg, j))
        BY <2>4 DEF FindActive, Arg
      <3>2. j \in Trips /\ trip[j].driver = c /\ trip[j].status \in BeforePickup \cup {"PICKED_UP"}
        BY <3>1 DEF LatestOf, Active
      <3>3. /\ task'[t].pc = "publish" /\ task'[t].arg = Position(task[t].arg, j)
            /\ OnlyMoves(t)
        BY <3>1, GotoSlot
      <3>4. task'[t].arg.trip = j /\ task'[t].arg.driver = c /\ task'[t].arg.over = o
        BY <3>3 DEF Position
      <3>5. \A k \in Trips : k \in o => trip[k].status = "OVER" \/ k \in raced
        BY <2>4 DEF FindActive, At, MapInv, FixTask, Fixing
      <3>6. j \in o => j \in raced
        BY <3>2, <3>5 DEF BeforePickup
      <3>7. trip[j].status \in Begun
        BY <3>2 DEF Begun, BeforePickup
      <3> QED BY <1>1, <3>2, <3>3, <3>4, <3>5, <3>6, <3>7 DEF FixTask
    <2> QED BY <2>1, <2>2, <2>3, <2>4
  <1>4. \A v \in Tasks \ {t} : FixTask(task[v])'
    BY <1>2, <1>3, FixStays DEF OnlyMoves, MapInv
  <1>5. \A u \in Users, j \in Trips : Received(u, j)'
    BY <1>1, <1>2, ReceivedStays DEF MapInv
  <1>6. MapTypes'
    BY <1>1 DEF MapInv, MapTypes
  <1> QED BY <1>3, <1>4, <1>5, <1>6 DEF MapInv

\* The fan-out: whoever is in the room of the trip is its buyer.
LEMMA PublishKeeps ==
  ASSUME Pool, MapInv, TripTypes, NEW t \in Tasks, PublishPosition(t)
  PROVE  MapInv'
  <1> PICK a, j : a = task[t].arg /\ j = a.trip
    OBVIOUS
  <1> DEFINE frame == [driver |-> a.driver, fix |-> a.fix, late |-> j \in a.over]
  <1>1. /\ task[t].pc = "publish" /\ Done(t) /\ UNCHANGED <<trip, raced, rooms>>
        /\ stream' = [u \in Users |-> IF j \notin rooms[u] THEN stream[u]
                                      ELSE [stream[u] EXCEPT ![j] = frame]]
    BY DEF PublishPosition, At, Arg
  <1>2. frame.driver = a.driver /\ frame.late = (j \in a.over)
    OBVIOUS
  <1> HIDE DEF frame
  <1>3. /\ j \in Trips /\ trip[j].status \in Begun /\ trip[j].driver = a.driver
        /\ j \in a.over => j \in raced
    BY <1>1 DEF MapInv, FixTask, TripTypes, TripTask
  <1>4. TripsFollow
    BY <1>1, TripUntouched
  <1>5. /\ DOMAIN stream' = Users
        /\ \A u \in Users : DOMAIN stream'[u] = Trips
        /\ \A u \in Users, k \in Trips :
              stream'[u][k] = stream[u][k] \/ (k = j /\ j \in rooms[u] /\ stream'[u][k] = frame)
    BY <1>1, <1>3 DEF MapInv, MapTypes
  <1>6. ASSUME NEW u \in Users, NEW k \in Trips PROVE Received(u, k)'
    <2>1. CASE stream'[u][k] = stream[u][k]
      BY <1>4, <2>1, ReceivedStays DEF MapInv
    <2>2. CASE k = j /\ j \in rooms[u] /\ stream'[u][k] = frame
      <3>1. Guest[j] = u
        BY <1>3, <2>2 DEF MapInv, MapTypes
      <3> QED BY <1>1, <1>2, <1>3, <2>2, <3>1 DEF Received
    <2> QED BY <1>5, <2>1, <2>2
  <1>7. task'[t].pc = "idle" /\ OnlyMoves(t)
    BY <1>1, DoneSlot
  <1>8. FixTask(task[t])'
    BY <1>7 DEF FixTask, Fixing
  <1>9. \A v \in Tasks \ {t} : FixTask(task[v])'
    BY <1>4, <1>7, FixStays DEF OnlyMoves, MapInv
  <1>10. MapTypes'
    BY <1>1, <1>5 DEF MapInv, MapTypes
  <1> QED BY <1>6, <1>8, <1>9, <1>10 DEF MapInv

\* Sockets come and go; onSubscribe lets only the buyer in.
LEMMA WatchingKeeps ==
  ASSUME MapInv, TripTypes, Watching
  PROVE  MapInv'
  <1>1. UNCHANGED <<trip, raced, stream, task>>
    BY DEF Watching, Reconnect, Subscribe, Unsubscribe
  <1>2. TripsFollow
    BY <1>1, TripUntouched
  <1>3. MapTypes'
    <2>1. ASSUME NEW u \in Users, NEW S, rooms' = [rooms EXCEPT ![u] = S],
                 \A j \in Trips : j \in S => j \in rooms[u] \/ Guest[j] = u
          PROVE  MapTypes'
      BY <1>1, <2>1 DEF MapInv, MapTypes
    <2>2. CASE \E u \in Users : Reconnect(u)
      BY <2>1, <2>2 DEF Reconnect
    <2>3. ASSUME NEW u \in Users, NEW j \in Trips, Subscribe(u, j) PROVE MapTypes'
      <3> PICK S : S = rooms[u] \cup {j}
        OBVIOUS
      <3>1. Guest[j] = u /\ rooms' = [rooms EXCEPT ![u] = S]
        BY <2>3 DEF Subscribe
      <3>2. \A k \in Trips : k \in S => k \in rooms[u] \/ Guest[k] = u
        BY <3>1
      <3> QED BY <2>1, <3>1, <3>2
    <2>4. ASSUME NEW u \in Users, NEW j \in Trips, Unsubscribe(u, j) PROVE MapTypes'
      <3> PICK S : S = rooms[u] \ {j}
        OBVIOUS
      <3>1. rooms' = [rooms EXCEPT ![u] = S]
        BY <2>4 DEF Unsubscribe
      <3>2. \A k \in Trips : k \in S => k \in rooms[u] \/ Guest[k] = u
        BY <3>1
      <3> QED BY <2>1, <3>1, <3>2
    <2> QED BY <2>2, <2>3, <2>4 DEF Watching
  <1>4. \A t \in Tasks : FixTask(task[t])'
    BY <1>1, <1>2, FixStays DEF MapInv
  <1>5. \A u \in Users, j \in Trips : Received(u, j)'
    BY <1>1, <1>2, ReceivedStays DEF MapInv
  <1> QED BY <1>3, <1>4, <1>5 DEF MapInv

\* The other handlers leave the sockets alone and take no position.
LEMMA MapKept ==
  ASSUME Pool, MapInv, TripTypes, TrackingNext
  PROVE  MapInv'
  <1>1. TripsFollow
    BY TripsKept
  <1>2. ASSUME NEW t \in Tasks,
               \/ \E c \in Couriers, on \in BOOLEAN : SetOnline(t, c, on)
               \/ WriteOnline(t) \/ WriteOnlinePoint(t) \/ PublicationLost(t)
               \/ \E j \in Trips : MarkReady(t, j) \/ \E c \in Couriers : Claim(t, c, j)
               \/ WriteClaim(t)
        PROVE  MapInv'
    <2>1. UNCHANGED <<rooms, stream>>
      BY <1>2 DEF SetOnline, WriteOnline, WriteOnlinePoint, PublicationLost, MarkReady, Claim,
             WriteClaim, tracking
    <2>2. \/ Done(t) \/ \E users : SendToUsers(t, users)
          \/ \E pc \in {"setOnline", "onlinePoint", "claim"} : \E arg : Goto(t, pc, arg)
      BY <1>2 DEF SetOnline, WriteOnline, WriteOnlinePoint, PublicationLost, MarkReady, Claim,
             WriteClaim
    <2>3. OnlyMoves(t) /\ task'[t].pc \notin Fixing
      BY <2>2, DoneSlot, SendSlot, GotoSlot DEF Fixing
    <2> QED BY <1>1, <2>1, <2>3, MapFollows DEF OnlyMoves
  <1>3. ASSUME NEW t \in Tasks,
               \/ \E j \in Trips : GetSellerPickupQr(t, j) \/ GetBuyerDeliveryQr(t, j)
               \/ \E j \in Trips, c \in Couriers : ConfirmPickup(t, c, j) \/ ConfirmDelivery(t, c, j)
               \/ \E j \in Trips, c \in Couriers : ArriveAtPickup(t, c, j)
               \/ MintPickup(t) \/ WritePickup(t) \/ MintDropoff(t) \/ WriteDelivered(t)
               \/ WriteArrival(t)
        PROVE  MapInv'
    <2>1. UNCHANGED <<rooms, stream>>
      BY <1>3 DEF GetSellerPickupQr, GetBuyerDeliveryQr, ConfirmPickup, ConfirmDelivery, MintPickup,
             WritePickup, MintDropoff, WriteDelivered, ArriveAtPickup, WriteArrival, tracking
    <2>2. \/ Done(t) \/ UNCHANGED task \/ \E users : SendToUsers(t, users)
          \/ \E pc \in {"arrive", "mintPickup", "pickup", "mintDropoff", "deliver"} : \E arg : Goto(t, pc, arg)
      BY <1>3 DEF GetSellerPickupQr, GetBuyerDeliveryQr, ConfirmPickup, ConfirmDelivery, MintPickup,
             WritePickup, MintDropoff, WriteDelivered, ArriveAtPickup, WriteArrival
    <2>3. \A v \in Tasks : task'[v] # task[v] => task'[v].pc \notin Fixing
      BY <2>2, DoneSlot, SendSlot, GotoSlot DEF Fixing, OnlyMoves
    <2> QED BY <1>1, <2>1, <2>3, MapFollows
  <1>4. CASE \/ \E c \in Couriers : Suspend(c) \/ Review(c)
             \/ \E j \in Trips : EndTrip(j)
    <2>1. UNCHANGED <<rooms, stream, task>>
      BY <1>4 DEF Suspend, Review, EndTrip
    <2> QED BY <1>1, <2>1, MapFollows
  <1> QED BY <1>2, <1>3, <1>4, FixKeeps, PublishKeeps, WatchingKeeps
        DEF TrackingNext, Driving, Dispatching, Arriving, HandingOver

\* The steps of the other parts leave trips and sockets alone.
LEMMA MapUndisturbed ==
  ASSUME MapInv, TripTypes, UNCHANGED tracking, NEW pcs, Moves(pcs), Apart(pcs, TrackingPcs)
  PROVE  MapInv' /\ TripTypes'
  <1>1. UNCHANGED <<trip, raced, rooms, stream, minted>>
    BY DEF tracking
  <1>2. \A t \in Tasks : task'[t] # task[t] => task'[t].pc \notin TrackingPcs \ {"idle", "push"}
    BY DEF Moves, Apart
  <1>3. TripsFollow
    BY <1>1, TripUntouched
  <1>4. MapInv'
    BY <1>1, <1>2, <1>3, MapFollows DEF Fixing, TrackingPcs
  <1>5. \A t \in Tasks : TripTask(task'[t])
    BY <1>2 DEF TripTypes, TripTask, TrackingPcs
  <1>6. TripTypes'
    BY <1>1, <1>5 DEF TripTypes, TripTask
  <1> QED BY <1>4, <1>6

-----------------------------------------------------------------------------
(* QR codes *)

\* The codes on display are the tokens of the row, and there are none before
\* mark-ready, or of the dropoff before the pickup.
CodeRow(j) ==
    j \notin raced =>
        /\ shown[j].pickup \subseteq {trip[j].pickup} /\ 0 \notin shown[j].pickup
        /\ shown[j].dropoff \subseteq {trip[j].dropoff} /\ 0 \notin shown[j].dropoff
        /\ trip[j].status = "UNREADY" => shown[j].pickup = {}
        /\ trip[j].status \notin HandedOver => shown[j].dropoff = {}
\* A token is minted for a row that still has none, unless others mint it too.
CodeTask(k) ==
    /\ k.pc = "mintPickup" =>
          /\ trip[k.arg.trip].status # "UNREADY"
          /\ k.arg.trip \notin raced => trip[k.arg.trip].pickup = 0
    /\ k.pc = "mintDropoff" /\ k.arg.trip \notin raced =>
          /\ trip[k.arg.trip].status \in HandedOver
          /\ trip[k.arg.trip].dropoff = 0
MintsOnce(pc) ==
    \A t, u \in Tasks :
        task[t].pc = pc /\ task[u].pc = pc /\ task[t].arg.trip = task[u].arg.trip
        => t = u \/ task[t].arg.trip \in raced
ShownTypes == DOMAIN shown = Trips /\ \A j \in Trips : DOMAIN shown[j] = {"pickup", "dropoff"}
CodesInv ==
    /\ ShownTypes
    /\ \A j \in Trips : CodeRow(j)
    /\ \A t \in Tasks : CodeTask(task[t])
    /\ MintsOnce("mintPickup") /\ MintsOnce("mintDropoff")

\* What is known of a request that mints outlives a step that keeps the trips in
\* order and writes no token of its trip.
LEMMA CodeStays ==
  ASSUME TripTypes, TripsFollow, NEW t \in Tasks, CodeTask(task[t]), task'[t] = task[t],
         task[t].pc = "mintPickup" =>
             task[t].arg.trip \in raced' \/ trip'[task[t].arg.trip].pickup = trip[task[t].arg.trip].pickup,
         task[t].pc = "mintDropoff" =>
             task[t].arg.trip \in raced' \/ trip'[task[t].arg.trip].dropoff = trip[task[t].arg.trip].dropoff
  PROVE  CodeTask(task[t])'
  <1> PICK j : j = task[t].arg.trip
    OBVIOUS
  <1>1. CASE task[t].pc = "mintPickup"
    <2>1. j \in Trips
      BY <1>1 DEF TripTypes, TripTask
    <2>2. j \notin raced' => j \notin raced
      BY DEF TripsFollow
    <2> QED BY <1>1, <2>1, <2>2 DEF CodeTask, TripsFollow, TripStep
  <1>2. CASE task[t].pc = "mintDropoff"
    <2>1. j \in Trips
      BY <1>2 DEF TripTypes, TripTask
    <2>2. j \notin raced' => j \notin raced
      BY DEF TripsFollow
    <2> QED BY <1>2, <2>1, <2>2 DEF CodeTask, TripsFollow, TripStep
  <1>3. CASE task[t].pc \notin {"mintPickup", "mintDropoff"}
    BY <1>3 DEF CodeTask
  <1> QED BY <1>1, <1>2, <1>3

\* Requests that do not come to mint keep each other apart.
LEMMA MintsStay ==
  ASSUME NEW pc, MintsOnce(pc), raced \subseteq raced',
         \A t \in Tasks : task'[t] # task[t] => task'[t].pc # pc
  PROVE  MintsOnce(pc)'
  BY DEF MintsOnce

\* A step that shows nothing new, writes no token and starts no mint.
LEMMA CodesFollow ==
  ASSUME CodesInv, TripTypes, TripsFollow, UNCHANGED shown,
         \A t \in Tasks : task'[t] # task[t] => task'[t].pc \notin {"mintPickup", "mintDropoff"},
         \A j \in Trips : trip'[j].pickup = trip[j].pickup /\ trip'[j].dropoff = trip[j].dropoff
  PROVE  CodesInv'
  <1>1. ShownTypes'
    BY DEF CodesInv, ShownTypes
  <1>2. raced \subseteq raced'
    BY DEF TripsFollow
  <1>3. ASSUME NEW j \in Trips PROVE CodeRow(j)'
    BY <1>2 DEF CodesInv, CodeRow, TripsFollow, TripStep
  <1>4. ASSUME NEW t \in Tasks PROVE CodeTask(task[t])'
    <2>1. CASE task'[t] = task[t]
      <3>1. task[t].pc \in {"mintPickup", "mintDropoff"} => task[t].arg.trip \in Trips
        BY DEF TripTypes, TripTask
      <3>2. CodeTask(task[t])
        BY DEF CodesInv
      <3> QED BY <2>1, <3>1, <3>2, CodeStays
    <2>2. CASE task'[t].pc \notin {"mintPickup", "mintDropoff"}
      BY <2>2 DEF CodeTask
    <2> QED BY <2>1, <2>2
  <1>5. MintsOnce("mintPickup")' /\ MintsOnce("mintDropoff")'
    BY <1>2, MintsStay DEF CodesInv
  <1> QED BY <1>1, <1>3, <1>4, <1>5 DEF CodesInv

\* A step that rewrites one trip and its codes, and starts no mint.
LEMMA CodesWritten ==
  ASSUME CodesInv, TripTypes, TripsFollow, ShownTypes', NEW t \in Tasks, OnlyMoves(t),
         task'[t].pc \notin {"mintPickup", "mintDropoff"},
         NEW j \in Trips, CodeRow(j)',
         \A k \in Trips \ {j} : trip'[k] = trip[k] /\ shown'[k] = shown[k],
         \A v \in Tasks \ {t} :
             /\ task[v].pc = "mintPickup" /\ task[v].arg.trip = j =>
                   j \in raced' \/ trip'[j].pickup = trip[j].pickup
             /\ task[v].pc = "mintDropoff" /\ task[v].arg.trip = j =>
                   j \in raced' \/ trip'[j].dropoff = trip[j].dropoff
  PROVE  CodesInv'
  <1>1. raced \subseteq raced'
    BY DEF TripsFollow
  <1>2. ASSUME NEW k \in Trips PROVE CodeRow(k)'
    <2>1. CASE k # j
      BY <1>1, <2>1 DEF CodesInv, CodeRow
    <2> QED BY <2>1
  <1>3. ASSUME NEW v \in Tasks PROVE CodeTask(task[v])'
    <2>1. CASE v # t
      <3>1. task[v].pc \in {"mintPickup", "mintDropoff"} => task[v].arg.trip \in Trips
        BY DEF TripTypes, TripTask
      <3>2. CodeTask(task[v]) /\ task'[v] = task[v]
        BY <2>1 DEF CodesInv, OnlyMoves
      <3>3. task[v].pc = "mintPickup" =>
              \/ task[v].arg.trip \in raced'
              \/ trip'[task[v].arg.trip].pickup = trip[task[v].arg.trip].pickup
        BY <2>1, <3>1
      <3>4. task[v].pc = "mintDropoff" =>
              \/ task[v].arg.trip \in raced'
              \/ trip'[task[v].arg.trip].dropoff = trip[task[v].arg.trip].dropoff
        BY <2>1, <3>1
      <3> QED BY <3>2, <3>3, <3>4, CodeStays
    <2>2. CASE v = t
      BY <2>2 DEF CodeTask
    <2> QED BY <2>1, <2>2
  <1>4. MintsOnce("mintPickup")' /\ MintsOnce("mintDropoff")'
    BY <1>1, MintsStay DEF CodesInv, OnlyMoves
  <1> QED BY <1>2, <1>3, <1>4 DEF CodesInv

\* markReady: no code of the trip is on display yet, and none is being minted.
LEMMA MarkReadyCodes ==
  ASSUME Pool, CodesInv, TripTypes, NEW t \in Tasks, NEW j \in Trips, MarkReady(t, j)
  PROVE  CodesInv'
  <1>1. PICK row : /\ WritesTrip(j, row) /\ DOMAIN row = TripColumns
                   /\ trip[j].status = "UNREADY" /\ row.status = "SEARCHING"
                   /\ row.pickup = Token /\ row.dropoff = trip[j].dropoff
    BY MarkReadyRow
  <1>2. /\ trip'[j] = row
        /\ \A k \in Trips \ {j} : trip'[k] = trip[k]
    BY <1>1, TripWritten
  <1>3. UNCHANGED <<raced, shown>> /\ \E users : SendToUsers(t, users)
    BY DEF MarkReady
  <1>4. TripsFollow
    BY MarkReadyTrip
  <1>5. OnlyMoves(t) /\ task'[t].pc \notin {"mintPickup", "mintDropoff"}
    BY <1>3, SendSlot
  <1>6. CodeRow(j)'
    BY <1>1, <1>2, <1>3 DEF CodesInv, CodeRow, HandedOver
  <1>7. \A v \in Tasks \ {t} :
          task[v].pc = "mintPickup" => task[v].arg.trip # j
    BY <1>1 DEF CodesInv, CodeTask
  <1>8. ShownTypes'
    BY <1>3 DEF CodesInv, ShownTypes
  <1> QED BY <1>1, <1>2, <1>3, <1>4, <1>5, <1>6, <1>7, <1>8, CodesWritten

\* claim writes no token.
LEMMA WriteClaimCodes ==
  ASSUME Pool, CodesInv, TripTypes, NEW t \in Tasks, WriteClaim(t)
  PROVE  CodesInv'
  <1>1. UNCHANGED shown /\ (Done(t) \/ \E users : SendToUsers(t, users))
    BY DEF WriteClaim
  <1>2. OnlyMoves(t) /\ task'[t].pc \notin {"mintPickup", "mintDropoff"}
    BY <1>1, SendSlot, DoneSlot
  <1>3. \A k \in Trips : trip'[k].pickup = trip[k].pickup /\ trip'[k].dropoff = trip[k].dropoff
    <2>1. CASE trip' # trip
      <3>1. PICK j \in Trips : \E row : /\ WritesTrip(j, row) /\ row.pickup = trip[j].pickup
                                        /\ row.dropoff = trip[j].dropoff
        BY <2>1, WriteClaimRow
      <3> QED BY <3>1, TripWritten
    <2> QED BY <2>1
  <1>4. TripsFollow
    BY WriteClaimTrip
  <1> QED BY <1>1, <1>2, <1>3, <1>4, CodesFollow DEF OnlyMoves

\* An end writes no token.
LEMMA EndCodes ==
  ASSUME CodesInv, TripTypes, NEW j \in Trips, trip' = [trip EXCEPT ![j].status = "OVER"],
         UNCHANGED <<raced, shown>>,
         \A t \in Tasks : task'[t] # task[t] => task'[t].pc \notin {"mintPickup", "mintDropoff"}
  PROVE  CodesInv'
  <1>1. PICK row : WritesTrip(j, row) /\ row.pickup = trip[j].pickup /\ row.dropoff = trip[j].dropoff
    BY EndRow
  <1>2. \A k \in Trips : trip'[k].pickup = trip[k].pickup /\ trip'[k].dropoff = trip[k].dropoff
    BY <1>1, TripWritten
  <1> QED BY <1>2, EndFollows, CodesFollow

\* arriveAtPickup writes no token.
LEMMA WriteArrivalCodes ==
  ASSUME Pool, CodesInv, TripTypes, NEW t \in Tasks, WriteArrival(t)
  PROVE  CodesInv'
  <1> PICK j : j = task[t].arg.trip
    OBVIOUS
  <1>1. j \in Trips /\ UNCHANGED shown /\ \E users : SendToUsers(t, users)
    BY DEF WriteArrival, At, Arg, TripTypes, TripTask
  <1>2. PICK row : WritesTrip(j, row) /\ row.pickup = trip[j].pickup /\ row.dropoff = trip[j].dropoff
    BY WriteArrivalRow
  <1>3. \A k \in Trips : trip'[k].pickup = trip[k].pickup /\ trip'[k].dropoff = trip[k].dropoff
    BY <1>1, <1>2, TripWritten
  <1>4. OnlyMoves(t) /\ task'[t].pc \notin {"mintPickup", "mintDropoff"}
    BY <1>1, SendSlot
  <1>5. TripsFollow
    BY WriteArrivalTrip
  <1> QED BY <1>1, <1>3, <1>4, <1>5, CodesFollow DEF OnlyMoves

\* getSellerPickupQr mints for a row without a token, of which no code is shown.
LEMMA MintPickupCodes ==
  ASSUME Pool, CodesInv, TripTypes, NEW t \in Tasks, MintPickup(t)
  PROVE  CodesInv'
  <1> PICK j : j = task[t].arg.trip
    OBVIOUS
  <1>1. /\ task[t].pc = "mintPickup" /\ Mint /\ UNCHANGED raced /\ Done(t) /\ j \in Trips
        /\ shown' = [shown EXCEPT ![j].pickup = @ \cup {Token}]
    BY DEF MintPickup, At, Arg, TripTypes, TripTask
  <1>2. PICK row : /\ WritesTrip(j, row) /\ row.status = trip[j].status
                   /\ row.pickup = Token /\ row.dropoff = trip[j].dropoff
    BY MintPickupRow
  <1>3. /\ trip'[j] = row
        /\ \A k \in Trips \ {j} : trip'[k] = trip[k]
    BY <1>1, <1>2, TripWritten
  <1>4. /\ ShownTypes' /\ \A k \in Trips \ {j} : shown'[k] = shown[k]
        /\ shown'[j].pickup = shown[j].pickup \cup {Token} /\ shown'[j].dropoff = shown[j].dropoff
    BY <1>1 DEF CodesInv, ShownTypes
  <1>5. trip[j].status # "UNREADY" /\ (j \notin raced => trip[j].pickup = 0)
    BY <1>1 DEF CodesInv, CodeTask
  <1>6. CodeRow(j)'
    BY <1>1, <1>2, <1>3, <1>4, <1>5, MintNat DEF CodesInv, CodeRow
  <1>7. TripsFollow
    BY MintTrip
  <1>8. OnlyMoves(t) /\ task'[t].pc \notin {"mintPickup", "mintDropoff"}
    BY <1>1, DoneSlot
  <1>9. \A v \in Tasks \ {t} : task[v].pc = "mintPickup" /\ task[v].arg.trip = j => j \in raced'
    BY <1>1 DEF CodesInv, MintsOnce
  <1>10. trip'[j].dropoff = trip[j].dropoff
    BY <1>2, <1>3
  <1> QED BY <1>1, <1>3, <1>4, <1>6, <1>7, <1>8, <1>9, <1>10, CodesWritten

\* The same of getBuyerDeliveryQr.
LEMMA MintDropoffCodes ==
  ASSUME Pool, CodesInv, TripTypes, NEW t \in Tasks, MintDropoff(t)
  PROVE  CodesInv'
  <1> PICK j : j = task[t].arg.trip
    OBVIOUS
  <1>1. /\ task[t].pc = "mintDropoff" /\ Mint /\ UNCHANGED raced /\ Done(t) /\ j \in Trips
        /\ shown' = [shown EXCEPT ![j].dropoff = @ \cup {Token}]
    BY DEF MintDropoff, At, Arg, TripTypes, TripTask
  <1>2. PICK row : /\ WritesTrip(j, row) /\ row.status = trip[j].status
                   /\ row.dropoff = Token /\ row.pickup = trip[j].pickup
    BY MintDropoffRow
  <1>3. /\ trip'[j] = row
        /\ \A k \in Trips \ {j} : trip'[k] = trip[k]
    BY <1>1, <1>2, TripWritten
  <1>4. /\ ShownTypes' /\ \A k \in Trips \ {j} : shown'[k] = shown[k]
        /\ shown'[j].dropoff = shown[j].dropoff \cup {Token} /\ shown'[j].pickup = shown[j].pickup
    BY <1>1 DEF CodesInv, ShownTypes
  <1>5. j \notin raced => trip[j].status \in HandedOver /\ trip[j].dropoff = 0
    BY <1>1 DEF CodesInv, CodeTask
  <1>6. CodeRow(j)'
    BY <1>1, <1>2, <1>3, <1>4, <1>5, MintNat DEF CodesInv, CodeRow
  <1>7. TripsFollow
    BY MintTrip
  <1>8. OnlyMoves(t) /\ task'[t].pc \notin {"mintPickup", "mintDropoff"}
    BY <1>1, DoneSlot
  <1>9. \A v \in Tasks \ {t} : task[v].pc = "mintDropoff" /\ task[v].arg.trip = j => j \in raced'
    BY <1>1 DEF CodesInv, MintsOnce
  <1>10. trip'[j].pickup = trip[j].pickup
    BY <1>2, <1>3
  <1> QED BY <1>1, <1>3, <1>4, <1>6, <1>7, <1>8, <1>9, <1>10, CodesWritten

\* confirmPickup mints the dropoff token of a trip that had none, or records that
\* the trip was picked up before.
LEMMA WritePickupCodes ==
  ASSUME Pool, CodesInv, TripTypes, NEW t \in Tasks, WritePickup(t)
  PROVE  CodesInv'
  <1> PICK j : j = task[t].arg.trip
    OBVIOUS
  <1>1. /\ task[t].pc = "pickup" /\ j \in Trips /\ \E users : SendToUsers(t, users)
        /\ raced' = IF trip[j].status \notin BeforePickup THEN raced \cup {j} ELSE raced
        /\ UNCHANGED shown
    BY DEF WritePickup, At, Arg, TripTypes, TripTask, Race
  <1>2. PICK row : /\ WritesTrip(j, row) /\ row.status = "PICKED_UP"
                   /\ row.pickup = trip[j].pickup /\ row.dropoff = Token
    BY WritePickupRow
  <1>3. /\ trip'[j] = row
        /\ \A k \in Trips \ {j} : trip'[k] = trip[k]
    BY <1>1, <1>2, TripWritten
  <1>4. j \notin raced' => j \notin raced /\ trip[j].status \in BeforePickup
    BY <1>1
  <1>5. CodeRow(j)'
    <2>1. j \notin raced' => shown[j].dropoff = {}
      BY <1>1, <1>4 DEF CodesInv, CodeRow, BeforePickup, HandedOver
    <2> QED BY <1>1, <1>2, <1>3, <1>4, <2>1 DEF CodesInv, CodeRow, BeforePickup, HandedOver
  <1>6. TripsFollow
    BY WritePickupTrip
  <1>7. OnlyMoves(t) /\ task'[t].pc \notin {"mintPickup", "mintDropoff"}
    BY <1>1, SendSlot
  <1>8. \A v \in Tasks \ {t} : task[v].pc = "mintDropoff" /\ task[v].arg.trip = j => j \in raced'
    BY <1>1 DEF CodesInv, CodeTask, BeforePickup, HandedOver
  <1>9. ShownTypes' /\ trip'[j].pickup = trip[j].pickup
    BY <1>1, <1>2, <1>3 DEF CodesInv, ShownTypes
  <1> QED BY <1>1, <1>3, <1>5, <1>6, <1>7, <1>8, <1>9, CodesWritten

\* A request that comes to mint records the race with any other that is minting.
LEMMA MintBegins ==
  ASSUME Pool, CodesInv, TripTypes, UNCHANGED <<trip, shown>>,
         NEW t \in Tasks, task[t].pc = "idle", NEW j \in Trips,
         NEW pc \in {"mintPickup", "mintDropoff"}, Goto(t, pc, [trip |-> j]),
         Race(Minting(t, pc, j), j),
         pc = "mintPickup" => trip[j].status # "UNREADY" /\ trip[j].pickup = 0,
         pc = "mintDropoff" => trip[j].status \in HandedOver /\ trip[j].dropoff = 0
  PROVE  CodesInv'
  <1>1. task'[t].pc = pc /\ task'[t].arg = [trip |-> j] /\ OnlyMoves(t)
    BY GotoSlot
  <1>2. task'[t].arg.trip = j
    BY <1>1
  <1>3. raced \subseteq raced' /\ (Minting(t, pc, j) => j \in raced')
    BY DEF Race
  <1>4. TripsFollow
    BY <1>3, TripUntouched
  <1>5. ShownTypes' /\ \A k \in Trips : CodeRow(k)'
    BY <1>3 DEF CodesInv, ShownTypes, CodeRow
  <1>6. CodeTask(task[t])'
    BY <1>1, <1>2 DEF CodeTask
  <1>7. \A v \in Tasks \ {t} : CodeTask(task[v])'
    BY <1>1, <1>4, CodeStays DEF CodesInv, OnlyMoves
  <1>8. MintsOnce(pc)'
    <2> SUFFICES ASSUME NEW v \in Tasks, NEW w \in Tasks, v # w, task'[v].pc = pc, task'[w].pc = pc,
                        task'[v].arg.trip = task'[w].arg.trip
                 PROVE  task'[v].arg.trip \in raced'
      BY DEF MintsOnce
    <2>1. CASE v # t /\ w # t
      BY <1>1, <1>3, <2>1 DEF CodesInv, MintsOnce, OnlyMoves
    <2>2. ASSUME NEW x \in Tasks \ {t}, task'[x].pc = pc, task'[x].arg.trip = j
          PROVE  j \in raced'
      BY <1>1, <1>3, <2>2 DEF Minting, At, Arg, OnlyMoves
    <2> QED BY <1>2, <2>1, <2>2
  <1>9. \A other \in {"mintPickup", "mintDropoff"} \ {pc} : MintsOnce(other)'
    <2> SUFFICES ASSUME NEW other \in {"mintPickup", "mintDropoff"} \ {pc}
                 PROVE  MintsOnce(other)'
      OBVIOUS
    <2>1. MintsOnce(other)
      BY DEF CodesInv
    <2> QED BY <1>1, <1>3, <2>1, MintsStay DEF OnlyMoves
  <1> QED BY <1>5, <1>6, <1>7, <1>8, <1>9 DEF CodesInv

\* A fetch that finds a token adds it to the codes on display.
LEMMA ShowCodes ==
  ASSUME CodesInv, TripTypes, UNCHANGED <<trip, raced, task>>, NEW j \in Trips,
         NEW col \in {"pickup", "dropoff"}, shown' = [shown EXCEPT ![j][col] = @ \cup {trip[j][col]}],
         trip[j][col] # 0, col = "pickup" => trip[j].status # "UNREADY",
         col = "dropoff" => trip[j].status \in HandedOver
  PROVE  CodesInv'
  <1>1. /\ ShownTypes' /\ \A k \in Trips \ {j} : shown'[k] = shown[k]
        /\ shown'[j][col] = shown[j][col] \cup {trip[j][col]}
        /\ \A other \in {"pickup", "dropoff"} \ {col} : shown'[j][other] = shown[j][other]
    BY DEF CodesInv, ShownTypes
  <1>2. CodeRow(j)'
    <2>1. CASE col = "pickup"
      BY <1>1, <2>1 DEF CodesInv, CodeRow
    <2>2. CASE col = "dropoff"
      BY <1>1, <2>2 DEF CodesInv, CodeRow
    <2> QED BY <2>1, <2>2
  <1>3. \A k \in Trips \ {j} : CodeRow(k)'
    BY <1>1 DEF CodesInv, CodeRow
  <1>4. (\A t \in Tasks : CodeTask(task[t])') /\ MintsOnce("mintPickup")' /\ MintsOnce("mintDropoff")'
    BY DEF CodesInv, CodeTask, MintsOnce
  <1> QED BY <1>1, <1>2, <1>3, <1>4 DEF CodesInv

\* The two fetches of a QR code.
LEMMA FetchCodes ==
  ASSUME Pool, CodesInv, TripTypes, NEW t \in Tasks, NEW j \in Trips,
         GetSellerPickupQr(t, j) \/ GetBuyerDeliveryQr(t, j)
  PROVE  CodesInv'
  <1>1. CASE GetSellerPickupQr(t, j)
    <2>1. task[t].pc = "idle" /\ trip[j].status # "UNREADY" /\ UNCHANGED trip
      BY <1>1 DEF GetSellerPickupQr, At
    <2>2. CASE trip[j].pickup # 0
      <3>1. shown' = [shown EXCEPT ![j]["pickup"] = @ \cup {trip[j]["pickup"]}] /\ UNCHANGED <<raced, task>>
        BY <1>1, <2>2 DEF GetSellerPickupQr
      <3> QED BY <2>1, <2>2, <3>1, ShowCodes
    <2>3. CASE trip[j].pickup = 0
      <3>1. /\ Goto(t, "mintPickup", [trip |-> j]) /\ Race(Minting(t, "mintPickup", j), j)
            /\ UNCHANGED shown
        BY <1>1, <2>3 DEF GetSellerPickupQr
      <3> QED BY <2>1, <2>3, <3>1, MintBegins
    <2> QED BY <2>2, <2>3
  <1>2. CASE GetBuyerDeliveryQr(t, j)
    <2>1. task[t].pc = "idle" /\ trip[j].status \in HandedOver /\ UNCHANGED trip
      BY <1>2 DEF GetBuyerDeliveryQr, At, HandedOver
    <2>2. CASE trip[j].dropoff # 0
      <3>1. shown' = [shown EXCEPT ![j]["dropoff"] = @ \cup {trip[j]["dropoff"]}] /\ UNCHANGED <<raced, task>>
        BY <1>2, <2>2 DEF GetBuyerDeliveryQr
      <3> QED BY <2>1, <2>2, <3>1, ShowCodes
    <2>3. CASE trip[j].dropoff = 0
      <3>1. /\ Goto(t, "mintDropoff", [trip |-> j]) /\ Race(Minting(t, "mintDropoff", j), j)
            /\ UNCHANGED shown
        BY <1>2, <2>3 DEF GetBuyerDeliveryQr
      <3> QED BY <2>1, <2>3, <3>1, MintBegins
    <2> QED BY <2>2, <2>3
  <1> QED BY <1>1, <1>2

\* Every step of the deliveries keeps the codes on display good.
LEMMA CodesKept ==
  ASSUME Pool, CodesInv, TripTypes, TrackingNext
  PROVE  CodesInv'
  <1>1. ASSUME UNCHANGED <<trip, shown, raced>>,
               \A t \in Tasks : task'[t] # task[t] => task'[t].pc \notin {"mintPickup", "mintDropoff"}
        PROVE  CodesInv'
    BY <1>1, TripUntouched, CodesFollow
  <1>2. ASSUME NEW t \in Tasks,
               \/ \E c \in Couriers : RecordLocation(t, c) \/ \E on \in BOOLEAN : SetOnline(t, c, on)
               \/ WriteOnline(t) \/ WriteOnlinePoint(t) \/ WriteFix(t) \/ FindActive(t)
               \/ PublishPosition(t) \/ PublicationLost(t)
               \/ \E j \in Trips, c \in Couriers :
                     \/ Claim(t, c, j) \/ ArriveAtPickup(t, c, j)
                     \/ ConfirmPickup(t, c, j) \/ ConfirmDelivery(t, c, j)
        PROVE  CodesInv'
    <2>1. UNCHANGED <<trip, shown, raced>>
      BY <1>2 DEF RecordLocation, SetOnline, WriteOnline, WriteOnlinePoint, WriteFix, FindActive,
             PublishPosition, PublicationLost, Claim, ArriveAtPickup, ConfirmPickup,
             ConfirmDelivery, tracking
    <2>2. \/ Done(t)
          \/ \E pc \in TrackingPcs \ {"mintPickup", "mintDropoff"} : \E arg : Goto(t, pc, arg)
      BY <1>2 DEF RecordLocation, SetOnline, WriteOnline, WriteOnlinePoint, WriteFix, FindActive,
             PublishPosition, PublicationLost, Claim, ArriveAtPickup, ConfirmPickup,
             ConfirmDelivery, TrackingPcs
    <2>3. OnlyMoves(t) /\ task'[t].pc \notin {"mintPickup", "mintDropoff"}
      BY <2>2, DoneSlot, GotoSlot
    <2> QED BY <1>1, <2>1, <2>3 DEF OnlyMoves
  <1>3. CASE Watching \/ \E c \in Couriers : Suspend(c) \/ Review(c)
    <2>1. UNCHANGED <<trip, shown, raced, task>>
      BY <1>3 DEF Watching, Reconnect, Subscribe, Unsubscribe, Suspend, Review
    <2> QED BY <1>1, <2>1
  <1>4. ASSUME NEW t \in Tasks, WriteDelivered(t) PROVE CodesInv'
    <2>1. /\ task[t].arg.trip \in Trips /\ trip' = [trip EXCEPT ![task[t].arg.trip].status = "OVER"]
          /\ UNCHANGED <<raced, shown>> /\ \E users : SendToUsers(t, users)
      BY <1>4 DEF WriteDelivered, At, Arg, TripTypes, TripTask
    <2>2. OnlyMoves(t) /\ task'[t].pc \notin {"mintPickup", "mintDropoff"}
      BY <2>1, SendSlot
    <2> QED BY <2>1, <2>2, EndCodes DEF OnlyMoves
  <1>5. ASSUME NEW j \in Trips, EndTrip(j) PROVE CodesInv'
    BY <1>5, EndCodes DEF EndTrip
  <1> QED BY <1>2, <1>3, <1>4, <1>5, MarkReadyCodes, WriteClaimCodes, MintPickupCodes,
             MintDropoffCodes, WritePickupCodes, WriteArrivalCodes, FetchCodes
        DEF TrackingNext, Driving, Dispatching, Arriving, HandingOver

\* The steps of the other parts leave the codes alone.
LEMMA CodesUndisturbed ==
  ASSUME CodesInv, TripTypes, UNCHANGED tracking, NEW pcs, Moves(pcs), Apart(pcs, TrackingPcs)
  PROVE  CodesInv'
  <1>1. UNCHANGED <<trip, raced, shown>>
    BY DEF tracking
  <1>2. \A t \in Tasks : task'[t] # task[t] => task'[t].pc \notin {"mintPickup", "mintDropoff"}
    BY DEF Moves, Apart, TrackingPcs
  <1> QED BY <1>1, <1>2, TripUntouched, CodesFollow

-----------------------------------------------------------------------------
(* Addresses *)

AddressTask(k) ==
    k.pc \in AddressWrites =>
        /\ DOMAIN k.arg = {"id", "point"} /\ k.arg.point \in Points \cup {Null}
        /\ k.pc = "upsert" => k.arg.id = Null \/ k.arg.id \in Inserted
        /\ k.pc \in WritesById \ {"insertAddress"} => k.arg.id \in Inserted
AddressTypes ==
    /\ DOMAIN address = AddressIds /\ loose \in BOOLEAN
    /\ \A a \in Inserted : address[a] \in AddressRow
    /\ \A t \in Tasks : AddressTask(task[t])
\* The partial unique index: a seller has one row at most, deleted or not.
OneRow == Singleton => \A a, b \in Inserted : a = b
\* Nothing has come loose on a seller.
Strict == addressRole = "SELLER" /\ ~loose
\* A write by id is then the only write under way,
WritesAlone ==
    Strict => \A t, u \in Tasks :
        task[t].pc \in WritesById /\ task[u].pc \in AddressWrites => t = u
\* a point on its way to the profile is the point of the row,
PointOnItsWay ==
    Strict => \A t \in Tasks :
        task[t].pc = "mirrorPoint" => address[task[t].arg.id].point = task[t].arg.point
\* and otherwise the profile has it.
PointMirrored ==
    Strict =>
        \/ \E t \in Tasks : task[t].pc = "mirrorPoint"
        \/ \A a \in Inserted : address[a].point # Null => location = address[a].point
AddressesInv == AddressTypes /\ OneRow /\ WritesAlone /\ PointOnItsWay /\ PointMirrored

\* The write of an address row.
WritesAddress(a, row) == address' = [address EXCEPT ![a] = row]

\* It inserts the row or updates it, and leaves the other rows alone.
LEMMA AddressWritten ==
  ASSUME AddressTypes, NEW a \in AddressIds, NEW row \in AddressRow, WritesAddress(a, row)
  PROVE  /\ DOMAIN address' = AddressIds /\ address'[a] = row
         /\ \A b \in AddressIds \ {a} : address'[b] = address[b]
         /\ Inserted' = Inserted \cup {a}
         /\ \A b \in Inserted' : address'[b] \in AddressRow
  <1>1. row # Null
    BY AddressAssumption
  <1>2. /\ DOMAIN address' = AddressIds /\ address'[a] = row
        /\ \A b \in AddressIds \ {a} : address'[b] = address[b]
    BY DEF AddressTypes, WritesAddress
  <1>3. Inserted' = Inserted \cup {a}
    BY <1>1, <1>2 DEF Inserted
  <1>4. \A b \in Inserted' : address'[b] \in AddressRow
    BY <1>2, <1>3 DEF AddressTypes, Inserted
  <1> QED BY <1>2, <1>3, <1>4

\* Requests that have not moved keep their arguments in order.
LEMMA AddressTasksStay ==
  ASSUME AddressTypes, NEW t \in Tasks, OnlyMoves(t), Inserted \subseteq Inserted', AddressTask(task[t])'
  PROVE  \A u \in Tasks : AddressTask(task[u])'
  <1>1. ASSUME NEW u \in Tasks \ {t} PROVE AddressTask(task[u])'
    <2>1. task'[u] = task[u] /\ AddressTask(task[u])
      BY DEF OnlyMoves, AddressTypes
    <2> QED BY <2>1 DEF AddressTask
  <1> QED BY <1>1

\* A request that starts to write, and marks the writes that it meets.
LEMMA AddressBegins ==
  ASSUME Pool, AddressesInv, NEW t \in Tasks, task[t].pc = "idle",
         UNCHANGED <<addressRole, address, location>>,
         NEW pc \in AddressWrites \ {"writePoint", "mirrorPoint"}, NEW a, NEW point \in Points \cup {Null},
         Goto(t, pc, [id |-> a, point |-> point]),
         pc = "upsert" => a = Null \/ a \in Inserted,
         pc \in WritesById \ {"insertAddress"} => a \in Inserted,
         loose' = (loose \/ Busy(t, IF pc = "upsert" THEN WritesById ELSE AddressWrites))
  PROVE  AddressesInv'
  <1> DEFINE arg == [id |-> a, point |-> point]
  <1>1. arg.id = a /\ arg.point = point /\ DOMAIN arg = {"id", "point"} /\ Goto(t, pc, arg)
    OBVIOUS
  <1> HIDE DEF arg
  <1>2. task'[t].pc = pc /\ task'[t].arg = arg /\ OnlyMoves(t)
    BY <1>1, GotoSlot
  <1>3. Inserted' = Inserted /\ (Strict' => Strict)
    BY DEF Inserted, Strict, AddressesInv, AddressTypes
  <1>4. AddressTask(task[t])'
    BY <1>1, <1>2, <1>3 DEF AddressTask
  <1>5. AddressTypes'
    BY <1>2, <1>3, <1>4, AddressTasksStay DEF AddressesInv, AddressTypes
  <1>6. OneRow'
    BY <1>3 DEF AddressesInv, OneRow, Singleton
  <1>7. WritesAlone'
    <2> SUFFICES ASSUME Strict', NEW v \in Tasks, NEW w \in Tasks, v # w,
                        task'[v].pc \in WritesById, task'[w].pc \in AddressWrites
                 PROVE  FALSE
      BY DEF WritesAlone
    <2>1. CASE v # t /\ w # t
      BY <1>2, <1>3, <2>1 DEF AddressesInv, WritesAlone, OnlyMoves
    <2>2. ~Busy(t, IF pc = "upsert" THEN WritesById ELSE AddressWrites)
      BY DEF Strict
    <2>3. CASE v = t
      BY <1>2, <2>2, <2>3 DEF Busy, OnlyMoves, WritesById
    <2>4. CASE w = t
      BY <1>2, <2>2, <2>4 DEF Busy, OnlyMoves, AddressWrites
    <2> QED BY <2>1, <2>3, <2>4
  <1>8. PointOnItsWay' /\ PointMirrored'
    <2>1. \A u \in Tasks : task'[u].pc = "mirrorPoint" <=> task[u].pc = "mirrorPoint"
      BY <1>2 DEF OnlyMoves
    <2>2. \A u \in Tasks : task'[u].pc = "mirrorPoint" => task'[u] = task[u]
      BY <1>2 DEF OnlyMoves
    <2>3. PointOnItsWay'
      BY <1>3, <2>1, <2>2 DEF AddressesInv, PointOnItsWay
    <2>4. PointMirrored'
      BY <1>3, <2>1 DEF AddressesInv, PointMirrored
    <2> QED BY <2>3, <2>4
  <1> QED BY <1>5, <1>6, <1>7, <1>8 DEF AddressesInv

\* A write that goes on, or ends, lets no other one in.
LEMMA AloneStays ==
  ASSUME WritesAlone, NEW t \in Tasks, OnlyMoves(t), Strict' => Strict,
         task'[t].pc \in AddressWrites => task[t].pc \in WritesById /\ task'[t].pc \in WritesById
  PROVE  WritesAlone'
  <1>1. WritesById \subseteq AddressWrites
    BY DEF AddressWrites
  <1> QED BY <1>1 DEF WritesAlone, OnlyMoves

\* The transaction of upsertAddress: row and profile get the point together.
LEMMA WriteUpsertKeeps ==
  ASSUME Pool, AddressesInv, NEW t \in Tasks, WriteUpsert(t)
  PROVE  AddressesInv'
  <1> PICK id, point : id = task[t].arg.id /\ point = task[t].arg.point
    OBVIOUS
  <1>1. task[t].pc = "upsert" /\ Done(t) /\ UNCHANGED addressRole
    BY DEF WriteUpsert, At
  <1>2. task[t].pc \in AddressWrites /\ task[t].pc \notin WritesById
    BY <1>1 DEF AddressWrites, WritesById
  <1>3. task'[t].pc = "idle" /\ OnlyMoves(t)
    BY <1>1, DoneSlot
  <1>4. point \in Points \cup {Null} /\ (id = Null \/ id \in Inserted)
    BY <1>1, <1>2 DEF AddressesInv, AddressTypes, AddressTask
  <1>5. AddressTask(task[t])'
    BY <1>3 DEF AddressTask, AddressWrites, WritesById
  <1>6. CASE UNCHANGED <<address, location, loose>>
    <2>1. Inserted' = Inserted /\ Strict' = Strict
      BY <1>1, <1>6 DEF Inserted, Strict
    <2>2. AddressTypes'
      BY <1>3, <1>5, <1>6, <2>1, AddressTasksStay DEF AddressesInv, AddressTypes
    <2>3. OneRow'
      BY <1>1, <2>1 DEF AddressesInv, OneRow, Singleton
    <2>4. WritesAlone'
      BY <1>3, <2>1, AloneStays DEF AddressesInv, AddressWrites, WritesById
    <2>5. \A u \in Tasks : task'[u].pc = "mirrorPoint" <=> task[u].pc = "mirrorPoint"
      BY <1>1, <1>3 DEF OnlyMoves
    <2>6. PointOnItsWay'
      BY <1>3, <1>6, <2>1, <2>5 DEF AddressesInv, PointOnItsWay, OnlyMoves
    <2>7. PointMirrored'
      BY <1>6, <2>1, <2>5 DEF AddressesInv, PointMirrored
    <2> QED BY <2>2, <2>3, <2>4, <2>6, <2>7 DEF AddressesInv
  <1>7. CASE ~UNCHANGED <<address, location, loose>>
    <2>1. PICK a \in IF id = Null THEN Fresh ELSE {id} :
            /\ id = Null => MayInsert
            /\ WritesAddress(a, Written(a, point))
            /\ location' = IF point # Null /\ addressRole = "SELLER" THEN point ELSE location
            /\ loose' = (loose /\ (point = Null \/ Busy(t, WritesById)))
      BY <1>7 DEF WriteUpsert, Arg, WritesAddress
    <2> PICK row : row = Written(a, point)
      OBVIOUS
    <2>2. a \in AddressIds /\ (a \in Inserted \/ MayInsert)
      BY <1>4, <2>1 DEF Fresh, Inserted
    <2>3. /\ row \in AddressRow
          /\ point # Null => row.point = point
          /\ point = Null => row.point = IF a \in Inserted THEN address[a].point ELSE Null
      <3>1. CASE a \notin Inserted
        BY <1>4, <2>2, <3>1 DEF Written, Inserted, AddressRow
      <3>2. CASE a \in Inserted
        <4>1. address[a] \in AddressRow /\ address[a] # Null
          BY <3>2 DEF AddressesInv, AddressTypes, Inserted
        <4>2. row = [address[a] EXCEPT !.point = IF point = Null THEN @ ELSE point]
          BY <4>1 DEF Written
        <4> QED BY <1>4, <3>2, <4>1, <4>2 DEF AddressRow
      <3> QED BY <3>1, <3>2
    <2>4. /\ DOMAIN address' = AddressIds /\ address'[a] = row
          /\ \A b \in AddressIds \ {a} : address'[b] = address[b]
          /\ Inserted' = Inserted \cup {a}
          /\ \A b \in Inserted' : address'[b] \in AddressRow
      <3>1. WritesAddress(a, row) /\ AddressTypes
        BY <2>1 DEF AddressesInv
      <3> QED BY <2>2, <2>3, <3>1, AddressWritten
    <2>5. AddressTypes'
      <3>1. loose' \in BOOLEAN
        BY <2>1
      <3> QED BY <1>3, <1>5, <2>4, <3>1, AddressTasksStay DEF AddressesInv, AddressTypes
    <2>6. OneRow'
      BY <1>1, <2>2, <2>4 DEF AddressesInv, OneRow, Singleton, MayInsert
    <2>7. Strict' => \A u \in Tasks \ {t} : task[u].pc \notin WritesById
      <3>1. CASE Strict
        BY <1>2, <3>1 DEF AddressesInv, WritesAlone
      <3>2. CASE ~Strict /\ Strict'
        BY <1>1, <2>1, <3>2 DEF Strict, Busy
      <3> QED BY <3>1, <3>2
    <2>8. Strict' => \A u \in Tasks : task'[u].pc \notin WritesById
      BY <1>3, <2>7 DEF OnlyMoves, WritesById
    <2>9. WritesAlone' /\ PointOnItsWay'
      BY <2>8 DEF WritesAlone, PointOnItsWay, WritesById
    <2>10. PointMirrored'
      <3> SUFFICES ASSUME Strict', NEW b \in Inserted', address'[b].point # Null
                   PROVE  location' = address'[b].point
        BY DEF PointMirrored
      <3>1. b = a
        BY <2>4, <2>6 DEF OneRow, Singleton, Strict
      <3>2. CASE point # Null
        BY <1>1, <2>1, <2>3, <2>4, <3>1, <3>2 DEF Strict
      <3>3. CASE point = Null
        <4>1. Strict /\ location' = location /\ a \in Inserted
          BY <1>1, <2>1, <2>3, <2>4, <3>1, <3>3 DEF Strict, AddressesInv, AddressTypes
        <4>2. \A u \in Tasks : task[u].pc # "mirrorPoint"
          BY <1>1, <2>7 DEF WritesById
        <4> QED BY <2>3, <2>4, <3>1, <3>3, <4>1, <4>2 DEF AddressesInv, PointMirrored
      <3> QED BY <3>2, <3>3
    <2> QED BY <2>5, <2>6, <2>9, <2>10 DEF AddressesInv
  <1> QED BY <1>6, <1>7

\* writePointIfPresent returns, or goes on to write the point.
LEMMA ThenPointSlot ==
  ASSUME Pool, NEW t \in Tasks, NEW a, DOMAIN task[t].arg = {"id", "point"}, ThenPoint(t, a)
  PROVE  /\ OnlyMoves(t) /\ task'[t].pc \in {"idle", "writePoint"}
         /\ task'[t].pc = "writePoint" =>
               /\ DOMAIN task'[t].arg = {"id", "point"}
               /\ task'[t].arg.id = a /\ task'[t].arg.point = task[t].arg.point
  <1> DEFINE arg == [task[t].arg EXCEPT !.id = a]
  <1>1. DOMAIN arg = {"id", "point"} /\ arg.id = a /\ arg.point = task[t].arg.point
    OBVIOUS
  <1>2. Done(t) \/ Goto(t, "writePoint", arg)
    BY DEF ThenPoint, Arg
  <1> HIDE DEF arg
  <1> QED BY <1>1, <1>2, DoneSlot, GotoSlot

\* A step that leaves the rows where they are and does not come to the profile.
LEMMA AddressGoesOn ==
  ASSUME AddressesInv, NEW t \in Tasks, OnlyMoves(t), task[t].pc \in WritesById,
         UNCHANGED <<addressRole, location>>, Strict' => Strict, loose' \in BOOLEAN,
         AddressTask(task[t])', task'[t].pc \in AddressWrites => task'[t].pc \in WritesById,
         task[t].pc = "mirrorPoint" => ~Strict', task'[t].pc # "mirrorPoint",
         DOMAIN address' = AddressIds, Inserted \subseteq Inserted', OneRow',
         \A b \in Inserted' : address'[b] \in AddressRow,
         \A b \in Inserted : address'[b].point = address[b].point,
         \A b \in Inserted' \ Inserted : address'[b].point = Null
  PROVE  AddressesInv'
  <1>1. AddressTypes'
    BY AddressTasksStay DEF AddressesInv, AddressTypes
  <1>2. WritesAlone'
    BY AloneStays DEF AddressesInv
  <1>3. Strict' => \A u \in Tasks : task'[u].pc # "mirrorPoint" /\ task[u].pc # "mirrorPoint"
    BY DEF AddressesInv, WritesAlone, AddressWrites, WritesById, OnlyMoves
  <1>4. PointOnItsWay'
    BY <1>3 DEF PointOnItsWay
  <1>5. PointMirrored'
    BY <1>3 DEF AddressesInv, PointMirrored
  <1> QED BY <1>1, <1>2, <1>4, <1>5 DEF AddressesInv

\* The insert, which the unique index lets through only for a first row.
LEMMA InsertAddressKeeps ==
  ASSUME Pool, AddressesInv, NEW t \in Tasks, InsertAddress(t)
  PROVE  AddressesInv'
  <1>1. /\ task[t].pc = "insertAddress" /\ UNCHANGED <<addressRole, location, loose>>
        /\ task[t].pc \in AddressWrites /\ task[t].pc \in WritesById
    BY DEF InsertAddress, At, AddressWrites, WritesById
  <1>2. DOMAIN task[t].arg = {"id", "point"} /\ task[t].arg.point \in Points \cup {Null}
    BY <1>1 DEF AddressesInv, AddressTypes, AddressTask
  <1>3. Strict' = Strict /\ loose' \in BOOLEAN
    BY <1>1 DEF Strict, AddressesInv, AddressTypes
  <1>4. CASE Done(t) /\ UNCHANGED address
    <2>1. task'[t].pc = "idle" /\ OnlyMoves(t)
      BY <1>4, DoneSlot
    <2>2. Inserted' = Inserted
      BY <1>4 DEF Inserted
    <2>3. AddressTask(task[t])' /\ OneRow'
      BY <1>1, <2>1, <2>2 DEF AddressTask, AddressesInv, OneRow, Singleton, AddressWrites, WritesById
    <2> QED BY <1>1, <1>3, <1>4, <2>1, <2>2, <2>3, AddressGoesOn
          DEF AddressesInv, AddressTypes, AddressWrites, WritesById
  <1>5. CASE MayInsert /\ \E a \in Fresh :
                /\ address' = [address EXCEPT ![a] = [deleted |-> FALSE, point |-> Null]]
                /\ ThenPoint(t, a)
    <2>1. PICK a \in Fresh : /\ address' = [address EXCEPT ![a] = [deleted |-> FALSE, point |-> Null]]
                             /\ ThenPoint(t, a)
      BY <1>5
    <2> PICK row : row = [deleted |-> FALSE, point |-> Null]
      OBVIOUS
    <2>2. row \in AddressRow /\ row.point = Null /\ WritesAddress(a, row) /\ a \in AddressIds
      BY <2>1 DEF AddressRow, WritesAddress, Fresh
    <2>3. /\ DOMAIN address' = AddressIds /\ address'[a] = row
          /\ \A b \in AddressIds \ {a} : address'[b] = address[b]
          /\ Inserted' = Inserted \cup {a}
          /\ \A b \in Inserted' : address'[b] \in AddressRow
      BY <2>2, AddressWritten DEF AddressesInv
    <2>4. /\ OnlyMoves(t) /\ task'[t].pc \in {"idle", "writePoint"}
          /\ task'[t].pc = "writePoint" =>
                /\ DOMAIN task'[t].arg = {"id", "point"}
                /\ task'[t].arg.id = a /\ task'[t].arg.point = task[t].arg.point
      BY <1>2, <2>1, ThenPointSlot
    <2>5. AddressTask(task[t])'
      BY <1>2, <2>3, <2>4 DEF AddressTask, AddressWrites, WritesById
    <2>6. OneRow'
      BY <1>1, <1>5, <2>3 DEF OneRow, MayInsert, Singleton
    <2>7. \A b \in Inserted : address'[b].point = address[b].point
      BY <2>1, <2>3 DEF Fresh, Inserted
    <2>8. \A b \in Inserted' \ Inserted : address'[b].point = Null
      BY <2>2, <2>3
    <2>9. task'[t].pc # "mirrorPoint" /\ (task'[t].pc \in AddressWrites => task'[t].pc \in WritesById)
      BY <2>4 DEF AddressWrites, WritesById
    <2> QED BY <1>1, <1>3, <2>3, <2>4, <2>5, <2>6, <2>7, <2>8, <2>9, AddressGoesOn
  <1> QED BY <1>4, <1>5 DEF InsertAddress

\* A request that returns, with the rows as they are.
LEMMA AddressReturns ==
  ASSUME Pool, AddressesInv, NEW t \in Tasks, task[t].pc \in AddressWrites, Done(t),
         UNCHANGED <<addressRole, address, location>>, loose' \in BOOLEAN, loose => loose',
         task[t].pc = "mirrorPoint" => loose'
  PROVE  AddressesInv'
  <1>1. task'[t].pc = "idle" /\ OnlyMoves(t)
    BY DoneSlot
  <1>2. Inserted' = Inserted /\ (Strict' => Strict)
    BY DEF Inserted, Strict, AddressesInv, AddressTypes
  <1>3. AddressTask(task[t])' /\ task'[t].pc \notin AddressWrites
    BY <1>1 DEF AddressTask, AddressWrites, WritesById
  <1>4. AddressTypes'
    BY <1>1, <1>2, <1>3, AddressTasksStay DEF AddressesInv, AddressTypes
  <1>5. OneRow'
    BY <1>2 DEF AddressesInv, OneRow, Singleton
  <1>6. WritesAlone'
    BY <1>1, <1>2, <1>3, AloneStays DEF AddressesInv
  <1>7. Strict' => \A u \in Tasks : task'[u].pc = "mirrorPoint" <=> task[u].pc = "mirrorPoint"
    BY <1>1 DEF OnlyMoves, Strict
  <1>8. PointOnItsWay'
    BY <1>1, <1>2, <1>7 DEF AddressesInv, PointOnItsWay, OnlyMoves
  <1>9. PointMirrored'
    BY <1>2, <1>7 DEF AddressesInv, PointMirrored
  <1> QED BY <1>4, <1>5, <1>6, <1>8, <1>9 DEF AddressesInv

\* The lines of the address, then its point; a soft delete, which keeps the point.
LEMMA UpdateAddressKeeps ==
  ASSUME Pool, AddressesInv, NEW t \in Tasks, UpdateAddress(t) \/ DeleteAddress(t)
  PROVE  AddressesInv'
  <1> PICK id : id = task[t].arg.id
    OBVIOUS
  <1>1. /\ UNCHANGED <<addressRole, location, loose>> /\ task[t].pc # "mirrorPoint"
        /\ task[t].pc \in AddressWrites /\ task[t].pc \in WritesById \ {"insertAddress"}
    BY DEF UpdateAddress, DeleteAddress, At, AddressWrites, WritesById, addresses
  <1>2. /\ DOMAIN task[t].arg = {"id", "point"} /\ task[t].arg.point \in Points \cup {Null}
        /\ id \in Inserted
    BY <1>1 DEF AddressesInv, AddressTypes, AddressTask
  <1>3. Strict' = Strict /\ loose' \in BOOLEAN
    BY <1>1 DEF Strict, AddressesInv, AddressTypes
  <1>4. CASE UpdateAddress(t)
    <2>1. UNCHANGED address /\ ThenPoint(t, id)
      BY <1>4 DEF UpdateAddress, addresses, Arg
    <2>2. /\ OnlyMoves(t) /\ task'[t].pc \in {"idle", "writePoint"}
          /\ task'[t].pc = "writePoint" =>
                /\ DOMAIN task'[t].arg = {"id", "point"}
                /\ task'[t].arg.id = id /\ task'[t].arg.point = task[t].arg.point
      BY <1>2, <2>1, ThenPointSlot
    <2>3. Inserted' = Inserted
      BY <2>1 DEF Inserted
    <2>4. AddressTask(task[t])'
      BY <1>2, <2>2, <2>3 DEF AddressTask, AddressWrites, WritesById
    <2>5. OneRow'
      BY <1>1, <2>3 DEF AddressesInv, OneRow, Singleton
    <2>6. task'[t].pc # "mirrorPoint" /\ (task'[t].pc \in AddressWrites => task'[t].pc \in WritesById)
      BY <2>2 DEF AddressWrites, WritesById
    <2> QED BY <1>1, <1>3, <2>1, <2>2, <2>3, <2>4, <2>5, <2>6, AddressGoesOn
          DEF AddressesInv, AddressTypes
  <1>5. CASE DeleteAddress(t)
    <2> PICK row : row = [address[id] EXCEPT !.deleted = TRUE]
      OBVIOUS
    <2>1. address[id] \in AddressRow /\ id \in AddressIds
      BY <1>2 DEF AddressesInv, AddressTypes, Inserted
    <2>2. row \in AddressRow /\ row.point = address[id].point
      BY <2>1 DEF AddressRow
    <2>3. WritesAddress(id, row) /\ Done(t)
      BY <1>5 DEF DeleteAddress, WritesAddress, Arg
    <2>4. /\ DOMAIN address' = AddressIds /\ address'[id] = row
          /\ \A b \in AddressIds \ {id} : address'[b] = address[b]
          /\ Inserted' = Inserted \cup {id}
          /\ \A b \in Inserted' : address'[b] \in AddressRow
      BY <2>1, <2>2, <2>3, AddressWritten DEF AddressesInv
    <2>5. Inserted' = Inserted
      BY <1>2, <2>4
    <2>6. \A b \in Inserted : address'[b].point = address[b].point
      BY <2>2, <2>4 DEF Inserted
    <2>7. task'[t].pc = "idle" /\ OnlyMoves(t)
      BY <2>3, DoneSlot
    <2>8. AddressTask(task[t])' /\ task'[t].pc \notin AddressWrites
      BY <2>7 DEF AddressTask, AddressWrites, WritesById
    <2>9. OneRow'
      BY <1>1, <2>5 DEF AddressesInv, OneRow, Singleton
    <2> QED BY <1>1, <1>3, <2>4, <2>5, <2>6, <2>7, <2>8, <2>9, AddressGoesOn
  <1> QED BY <1>4, <1>5

\* The point of the row, and after it the profile of a seller.
LEMMA WritePointKeeps ==
  ASSUME Pool, AddressesInv, NEW t \in Tasks, WritePoint(t)
  PROVE  AddressesInv'
  <1> PICK id, point : id = task[t].arg.id /\ point = task[t].arg.point
    OBVIOUS
  <1>1. /\ UNCHANGED <<addressRole, location, loose>> /\ task[t].pc = "writePoint"
        /\ task[t].pc \in AddressWrites /\ task[t].pc \in WritesById \ {"insertAddress"}
    BY DEF WritePoint, At, AddressWrites, WritesById
  <1>2. /\ DOMAIN task[t].arg = {"id", "point"} /\ point \in Points \cup {Null}
        /\ id \in Inserted
    BY <1>1 DEF AddressesInv, AddressTypes, AddressTask
  <1>3. Strict' = Strict /\ loose' \in BOOLEAN
    BY <1>1 DEF Strict, AddressesInv, AddressTypes
  <1> PICK row : row = [address[id] EXCEPT !.point = point]
    OBVIOUS
  <1>4. address[id] \in AddressRow /\ id \in AddressIds
    BY <1>2 DEF AddressesInv, AddressTypes, Inserted
  <1>5. row \in AddressRow /\ row.point = point
    BY <1>2, <1>4 DEF AddressRow
  <1>6. /\ WritesAddress(id, row)
        /\ \/ addressRole = "SELLER" /\ Goto(t, "mirrorPoint", task[t].arg)
           \/ addressRole # "SELLER" /\ Done(t)
    BY DEF WritePoint, WritesAddress, Arg
  <1>7. /\ DOMAIN address' = AddressIds /\ address'[id] = row
        /\ \A b \in AddressIds \ {id} : address'[b] = address[b]
        /\ Inserted' = Inserted \cup {id}
        /\ \A b \in Inserted' : address'[b] \in AddressRow
    BY <1>4, <1>5, <1>6, AddressWritten DEF AddressesInv
  <1>8. Inserted' = Inserted
    BY <1>2, <1>7
  <1>9. /\ OnlyMoves(t) /\ task'[t].pc \in {"mirrorPoint", "idle"}
        /\ task'[t].pc = "mirrorPoint" => task'[t].arg = task[t].arg
        /\ addressRole = "SELLER" => task'[t].pc = "mirrorPoint"
    BY <1>6, GotoSlot, DoneSlot
  <1>10. AddressTask(task[t])' /\ (task'[t].pc \in AddressWrites => task'[t].pc \in WritesById)
    BY <1>2, <1>8, <1>9 DEF AddressTask, AddressWrites, WritesById
  <1>11. AddressTypes'
    BY <1>3, <1>7, <1>8, <1>9, <1>10, AddressTasksStay DEF AddressesInv, AddressTypes
  <1>12. OneRow'
    BY <1>1, <1>8 DEF AddressesInv, OneRow, Singleton
  <1>13. WritesAlone'
    BY <1>1, <1>3, <1>9, <1>10, AloneStays DEF AddressesInv
  <1>14. Strict => \A u \in Tasks \ {t} : task[u].pc # "mirrorPoint"
    BY <1>1 DEF AddressesInv, WritesAlone, AddressWrites, WritesById
  <1>15. PointOnItsWay'
    BY <1>3, <1>5, <1>7, <1>9, <1>14 DEF PointOnItsWay, OnlyMoves
  <1>16. PointMirrored'
    BY <1>3, <1>9 DEF PointMirrored, Strict
  <1> QED BY <1>11, <1>12, <1>13, <1>15, <1>16 DEF AddressesInv

\* The profile of the seller: the only row has the point that it gets.
LEMMA MirrorPointKeeps ==
  ASSUME Pool, AddressesInv, NEW t \in Tasks, MirrorPoint(t)
  PROVE  AddressesInv'
  <1> PICK id, point : id = task[t].arg.id /\ point = task[t].arg.point
    OBVIOUS
  <1>1. /\ UNCHANGED <<addressRole, address, loose>> /\ task[t].pc = "mirrorPoint"
        /\ location' = point /\ Done(t)
        /\ task[t].pc \in AddressWrites /\ task[t].pc \in WritesById \ {"insertAddress"}
    BY DEF MirrorPoint, At, Arg, AddressWrites, WritesById
  <1>2. id \in Inserted
    BY <1>1 DEF AddressesInv, AddressTypes, AddressTask
  <1>3. Strict' = Strict /\ Inserted' = Inserted
    BY <1>1 DEF Strict, Inserted
  <1>4. task'[t].pc = "idle" /\ OnlyMoves(t)
    BY <1>1, DoneSlot
  <1>5. AddressTask(task[t])' /\ task'[t].pc \notin AddressWrites
    BY <1>4 DEF AddressTask, AddressWrites, WritesById
  <1>6. AddressTypes'
    BY <1>1, <1>3, <1>4, <1>5, AddressTasksStay DEF AddressesInv, AddressTypes
  <1>7. OneRow'
    BY <1>1, <1>3 DEF AddressesInv, OneRow, Singleton
  <1>8. WritesAlone'
    BY <1>3, <1>4, <1>5, AloneStays DEF AddressesInv
  <1>9. PointOnItsWay'
    BY <1>1, <1>3, <1>4 DEF AddressesInv, PointOnItsWay, OnlyMoves
  <1>10. PointMirrored'
    <2> SUFFICES ASSUME Strict, NEW b \in Inserted
                 PROVE  point = address[b].point
      BY <1>1, <1>3 DEF PointMirrored
    <2>1. b = id
      BY <1>2 DEF AddressesInv, OneRow, Singleton, Strict
    <2> QED BY <1>1, <2>1 DEF AddressesInv, PointOnItsWay
  <1> QED BY <1>6, <1>7, <1>8, <1>9, <1>10 DEF AddressesInv

\* Every step of the address half of UsersService keeps the seller's point
\* mirrored, or records that it has come loose.
LEMMA AddressesKept ==
  ASSUME Pool, AddressesInv, AddressesNext
  PROVE  AddressesInv'
  <1>1. PICK t \in Tasks :
        \/ \E point \in Points \cup {Null} :
              \/ UpsertAddress(t, point)
              \/ CreateAddress(t, point)
              \/ \E a \in AddressIds : UpdateAddressById(t, a, point)
        \/ \E a \in AddressIds : DeleteAddressById(t, a)
        \/ WriteUpsert(t) \/ InsertAddress(t) \/ UpdateAddress(t) \/ DeleteAddress(t)
        \/ WritePoint(t) \/ MirrorPoint(t) \/ AddressFails(t)
    BY DEF AddressesNext
  <1>2. ASSUME NEW point \in Points \cup {Null}, UpsertAddress(t, point)
        PROVE  AddressesInv'
    <2>1. PICK a \in IF LiveAddresses = {} THEN {Null} ELSE LiveAddresses :
            Goto(t, "upsert", [id |-> a, point |-> point])
      BY <1>2 DEF UpsertAddress
    <2>2. a = Null \/ a \in Inserted
      BY <2>1 DEF LiveAddresses
    <2>3. task[t].pc = "idle" /\ UNCHANGED <<addressRole, address, location>>
      BY <1>2 DEF UpsertAddress, At
    <2>4. loose' = (loose \/ Busy(t, IF "upsert" = "upsert" THEN WritesById ELSE AddressWrites))
      BY <1>2 DEF UpsertAddress
    <2>5. "upsert" \in AddressWrites \ {"writePoint", "mirrorPoint"} /\ "upsert" \notin WritesById
      BY DEF AddressWrites, WritesById
    <2> QED BY <2>1, <2>2, <2>3, <2>4, <2>5, AddressBegins
  <1>3. ASSUME NEW pc \in {"insertAddress", "updateAddress", "deleteAddress"}, NEW a,
               NEW point \in Points \cup {Null}, Begin(t, pc, a, point),
               pc # "insertAddress" => a \in LiveAddresses
        PROVE  AddressesInv'
    <2>1. pc # "insertAddress" => a \in Inserted
      BY <1>3 DEF LiveAddresses
    <2>2. /\ task[t].pc = "idle" /\ UNCHANGED <<addressRole, address, location>>
          /\ Goto(t, pc, [id |-> a, point |-> point])
      BY <1>3 DEF Begin, At
    <2>3. loose' = (loose \/ Busy(t, IF pc = "upsert" THEN WritesById ELSE AddressWrites))
      BY <1>3 DEF Begin
    <2>4. pc \in AddressWrites \ {"writePoint", "mirrorPoint"} /\ pc # "upsert"
      BY <1>3 DEF AddressWrites, WritesById
    <2> QED BY <2>1, <2>2, <2>3, <2>4, AddressBegins
  <1>4. CASE \/ \E point \in Points \cup {Null} :
                   CreateAddress(t, point) \/ \E a \in AddressIds : UpdateAddressById(t, a, point)
             \/ \E a \in AddressIds : DeleteAddressById(t, a)
    BY <1>3, <1>4 DEF CreateAddress, UpdateAddressById, DeleteAddressById
  <1>5. CASE AddressFails(t)
    <2>1. /\ task[t].pc \in AddressWrites /\ Done(t) /\ UNCHANGED <<addressRole, address, location>>
          /\ loose' = (loose \/ At(t, "mirrorPoint"))
      BY <1>5 DEF AddressFails
    <2>2. loose' \in BOOLEAN /\ (loose => loose') /\ (task[t].pc = "mirrorPoint" => loose')
      BY <2>1 DEF At
    <2> QED BY <2>1, <2>2, AddressReturns
  <1> QED BY <1>1, <1>2, <1>4, <1>5, WriteUpsertKeeps, InsertAddressKeeps, UpdateAddressKeeps,
             WritePointKeeps, MirrorPointKeeps

\* The steps of the other parts leave addresses alone.
LEMMA AddressesUndisturbed ==
  ASSUME AddressesInv, UNCHANGED addresses, NEW pcs, Moves(pcs), Apart(pcs, AddressesPcs)
  PROVE  AddressesInv'
  <1>1. UNCHANGED <<addressRole, address, location, loose>>
    BY DEF addresses
  <1>2. Inserted' = Inserted /\ Strict' = Strict
    BY <1>1 DEF Inserted, Strict
  <1>3. \A t \in Tasks :
          \/ task'[t] = task[t]
          \/ task[t].pc \notin AddressWrites /\ task'[t].pc \notin AddressWrites
    BY DEF Moves, Apart, AddressesPcs, AddressWrites, WritesById
  <1>4. \A t \in Tasks : AddressTask(task[t])'
    BY <1>2, <1>3 DEF AddressesInv, AddressTypes, AddressTask
  <1>5. AddressTypes' /\ OneRow'
    BY <1>1, <1>2, <1>4 DEF AddressesInv, AddressTypes, OneRow, Singleton
  <1>6. WritesAlone'
    BY <1>2, <1>3 DEF AddressesInv, WritesAlone, AddressWrites
  <1>7. \A t \in Tasks :
          (task'[t].pc = "mirrorPoint" \/ task[t].pc = "mirrorPoint") => task'[t] = task[t]
    BY <1>3 DEF AddressWrites, WritesById
  <1>8. PointOnItsWay'
    BY <1>1, <1>2, <1>7 DEF AddressesInv, PointOnItsWay
  <1>9. PointMirrored'
    BY <1>1, <1>2, <1>7 DEF AddressesInv, PointMirrored
  <1> QED BY <1>5, <1>6, <1>8, <1>9 DEF AddressesInv

-----------------------------------------------------------------------------
(* Accounts *)

Identity ==
    [known : BOOLEAN, email : Emails \cup {Null}, confirmed : BOOLEAN, meta : Emails \cup {Null},
     phone : Phones \cup {Null}]
Claims == [email : Emails \cup {Null}, phone : Phones \cup {Null}]
ProofSteps == {"checkPhone", "confirmPhone", "mirrorPhone"}

\* A request that writes a number: one being confirmed was proven; a row being
\* created takes as verified only a proven number, and has the number of Supabase
\* unless another one is on its way or the person is on record as missed.
ProvingTask(k) == k.arg.phone \in Phones /\ <<k.arg.id, k.arg.phone>> \in proven
ReadingTask(k) ==
    k.arg.typed \in Phones \cup {Null} /\ k.arg.role \in UserRoles /\ k.arg.claims \in Claims
OnItsWay(i) == \E t \in Tasks : task[t].pc = "mirrorPhone" /\ task[t].arg.id = i
CreatingTask(k) ==
    /\ DOMAIN k.arg = {"id", "typed", "row"}
    /\ k.arg.typed \in Phones \cup {Null} /\ k.arg.row \in UserRow
    /\ k.arg.row.phoneVerified =>
          k.arg.row.phone # Null /\ <<k.arg.id, k.arg.row.phone>> \in proven
    /\ k.arg.id \notin Rows \cup missed =>
          \/ OnItsWay(k.arg.id)
          \/ auth[k.arg.id].phone # Null =>
                k.arg.row.phoneVerified /\ k.arg.row.phone = auth[k.arg.id].phone
    /\ k.pc = "checkTyped" => k.arg.row.phone = Null
PhoneTask(k) ==
    k.pc \in PhoneWrites =>
        /\ k.arg.id \in Ids /\ auth[k.arg.id].known
        /\ k.pc \in ProofSteps => ProvingTask(k)
        /\ k.pc = "editPhone" => k.arg.phone \in Phones /\ k.arg.id \in Rows
        /\ k.pc = "readIdentity" => ReadingTask(k)
        /\ k.pc \in RowSteps => CreatingTask(k)
\* The records of the two systems.
IdentityRow(i) ==
    /\ auth[i] \in Identity
    /\ auth[i].email # Null => auth[i].known
    /\ auth[i].phone # Null => <<i, auth[i].phone>> \in proven
    /\ token[i] # Null => token[i] \in Claims /\ auth[i].known
UserProven(i) ==
    i \in Rows =>
        /\ user[i] \in UserRow
        /\ user[i].phoneVerified /\ i \notin edited => <<i, user[i].phone>> \in proven
Mirrored(i) ==
    auth[i].phone # Null =>
        /\ user[i].phoneVerified
        /\ i \notin edited => user[i].phone = auth[i].phone
UserMirrored(i) == i \in Rows \ missed => OnItsWay(i) \/ Mirrored(i)
SocialTask(k) == k.pc = "sendSocial" => k.arg.email \in Emails
AccountsInv ==
    /\ DOMAIN auth = Ids /\ DOMAIN token = Ids /\ DOMAIN user = Ids
    /\ \A t \in Tasks : PhoneTask(task[t]) /\ SocialTask(task[t])
    /\ \A i \in Ids : IdentityRow(i) /\ UserProven(i) /\ UserMirrored(i)

\* What an identity keeps in a step: it stays known and keeps its row; and until
\* it has one a number on its way stays so, and no other one is confirmed.
Keeps(i) ==
    /\ auth[i].known => auth'[i].known
    /\ i \in Rows => i \in Rows'
KeepsFresh(i) ==
    auth[i].known /\ i \notin Rows' \cup missed' =>
        /\ i \notin missed
        /\ OnItsWay(i)' \/ (~OnItsWay(i) /\ auth'[i].phone = auth[i].phone)

\* What is known of a request outlives a step that leaves its identity alone.
LEMMA PhoneTaskStays ==
  ASSUME NEW t \in Tasks, PhoneTask(task[t]), task'[t] = task[t], proven \subseteq proven',
         task[t].pc \in PhoneWrites => Keeps(task[t].arg.id),
         task[t].pc \in RowSteps => KeepsFresh(task[t].arg.id)
  PROVE  PhoneTask(task[t])'
  <1> SUFFICES ASSUME task[t].pc \in PhoneWrites
               PROVE  PhoneTask(task[t])'
    BY DEF PhoneTask
  <1> PICK i : i = task[t].arg.id
    OBVIOUS
  <1>1. /\ i \in Ids /\ auth[i].known /\ auth'[i].known
        /\ i \in Rows => i \in Rows'
    BY DEF PhoneTask, Keeps
  <1>2. task[t].pc \in ProofSteps => ProvingTask(task[t])'
    BY <1>1 DEF PhoneTask, ProvingTask
  <1>3. task[t].pc = "readIdentity" => ReadingTask(task[t])'
    BY <1>1 DEF PhoneTask, ReadingTask
  <1>4. task[t].pc \in RowSteps => CreatingTask(task[t])'
    <2> SUFFICES ASSUME task[t].pc \in RowSteps
                 PROVE  CreatingTask(task[t])'
      OBVIOUS
    <2> PICK k : k = task[t].arg
      OBVIOUS
    <2>1. CreatingTask(task[t]) /\ KeepsFresh(i)
      BY DEF PhoneTask
    <2>2. ASSUME i \notin Rows' \cup missed'
          PROVE  \/ OnItsWay(i)'
                 \/ auth'[i].phone # Null => k.row.phoneVerified /\ k.row.phone = auth'[i].phone
      <3>1. i \notin Rows \cup missed
        BY <1>1, <2>1, <2>2 DEF KeepsFresh
      <3>2. \/ OnItsWay(i)
            \/ auth[i].phone # Null => k.row.phoneVerified /\ k.row.phone = auth[i].phone
        BY <2>1, <3>1 DEF CreatingTask
      <3> QED BY <1>1, <2>1, <2>2, <3>2 DEF KeepsFresh
    <2> QED BY <2>1, <2>2 DEF CreatingTask
  <1>5. task[t].pc = "editPhone" => task[t].arg.phone \in Phones /\ i \in Rows'
    BY <1>1 DEF PhoneTask
  <1> QED BY <1>1, <1>2, <1>3, <1>4, <1>5 DEF PhoneTask

\* A step that confirms no number: identities may appear, sign in and out, and
\* get an address; rows keep their number.
IdentityStep(i) ==
    /\ auth'[i] \in Identity
    /\ auth[i].known => auth'[i].known /\ auth'[i].phone = auth[i].phone
    /\ auth'[i].phone # Null => auth'[i].phone = auth[i].phone
    /\ auth'[i].email # Null => auth'[i].known
    /\ token'[i] # Null => token'[i] \in Claims /\ auth'[i].known
UserStep(i) ==
    /\ i \in Rows' <=> i \in Rows
    /\ i \in Rows => /\ user'[i] \in UserRow /\ user'[i].phone = user[i].phone
                     /\ user'[i].phoneVerified = user[i].phoneVerified

\* Such a step keeps the two records in agreement.
LEMMA AccountsFollow ==
  ASSUME AccountsInv, DOMAIN auth' = Ids, DOMAIN token' = Ids, DOMAIN user' = Ids,
         \A i \in Ids : IdentityStep(i) /\ UserStep(i), UNCHANGED <<proven, edited, missed>>,
         \A t \in Tasks : task'[t] # task[t] =>
             task[t].pc \notin PhoneWrites /\ task'[t].pc \notin PhoneWrites /\ SocialTask(task'[t])
  PROVE  AccountsInv'
  <1>0. ASSUME NEW i \in Ids PROVE OnItsWay(i) => OnItsWay(i)'
    BY DEF OnItsWay, PhoneWrites
  <1>1. \A i \in Ids : Keeps(i) /\ KeepsFresh(i)
    BY <1>0 DEF IdentityStep, UserStep, Keeps, KeepsFresh
  <1>2. ASSUME NEW t \in Tasks PROVE PhoneTask(task[t])'
    <2>1. PhoneTask(task[t]) /\ (task[t].pc \in PhoneWrites => task[t].arg.id \in Ids)
      BY DEF AccountsInv, PhoneTask
    <2>2. CASE task'[t] = task[t]
      BY <1>1, <2>1, <2>2, PhoneTaskStays DEF PhoneWrites, RowSteps
    <2>3. CASE task'[t].pc \notin PhoneWrites
      BY <2>3 DEF PhoneTask
    <2> QED BY <2>2, <2>3
  <1>3. ASSUME NEW i \in Ids PROVE IdentityRow(i)' /\ UserProven(i)' /\ UserMirrored(i)'
    <2>1. IdentityRow(i) /\ UserProven(i) /\ UserMirrored(i) /\ IdentityStep(i) /\ UserStep(i)
      BY DEF AccountsInv
    <2>2. IdentityRow(i)'
      BY <2>1 DEF IdentityRow, IdentityStep
    <2>3. UserProven(i)'
      BY <2>1 DEF UserProven, UserStep
    <2>4. UserMirrored(i)'
      BY <1>0, <2>1 DEF UserMirrored, Mirrored, UserStep, IdentityStep
    <2> QED BY <2>2, <2>3, <2>4
  <1>4. \A t \in Tasks : SocialTask(task[t])'
    BY DEF AccountsInv, SocialTask
  <1> QED BY <1>2, <1>3, <1>4 DEF AccountsInv

\* The two records of a person who only signs in or out.
LEMMA SameUser ==
  ASSUME AccountsInv, UNCHANGED user
  PROVE  DOMAIN user' = Ids /\ \A i \in Ids : UserStep(i)
  BY DEF AccountsInv, UserStep, UserProven, Rows

\* One identity is written and gets a session, keeps the one it has, or loses it.
WritesIdentity(i, a) == auth' = [auth EXCEPT ![i] = a]
WritesToken(i, s) == token' = [token EXCEPT ![i] = s]

\* Such a write confirms no number.
LEMMA IdentityWritten ==
  ASSUME AccountsInv, NEW i \in Ids, NEW a \in Identity, NEW s,
         WritesIdentity(i, a) \/ (UNCHANGED auth /\ a = auth[i]),
         WritesToken(i, s) \/ (UNCHANGED token /\ s = token[i]),
         auth[i].known => a.known /\ a.phone = auth[i].phone,
         a.phone # Null => a.phone = auth[i].phone,
         a.email # Null => a.known,
         s # Null => s \in Claims /\ a.known
  PROVE  /\ DOMAIN auth' = Ids /\ DOMAIN token' = Ids
         /\ \A j \in Ids : IdentityStep(j)
  <1>1. /\ DOMAIN auth' = Ids /\ auth'[i] = a
        /\ \A j \in Ids \ {i} : auth'[j] = auth[j]
    BY DEF AccountsInv, WritesIdentity
  <1>2. /\ DOMAIN token' = Ids /\ token'[i] = s
        /\ \A j \in Ids \ {i} : token'[j] = token[j]
    BY DEF AccountsInv, WritesToken
  <1>3. IdentityStep(i)
    BY <1>1, <1>2 DEF IdentityStep
  <1>4. \A j \in Ids \ {i} : IdentityStep(j)
    BY <1>1, <1>2 DEF IdentityStep, AccountsInv, IdentityRow
  <1> QED BY <1>1, <1>2, <1>3, <1>4

\* A session carries the claims of its identity.
LEMMA SessionClaims ==
  ASSUME NEW a \in Identity
  PROVE  Session(a) \in Claims
  BY DEF Session, Identity, Claims

\* A new identity has no number.
LEMMA NewIdentityFacts ==
  ASSUME NEW e \in Emails, NEW c \in BOOLEAN
  PROVE  /\ NewIdentity(e, c) \in Identity /\ NewIdentity(e, c).known
         /\ NewIdentity(e, c).phone = Null
  BY DEF NewIdentity, Identity

\* A step that writes one identity, or its session, or neither.
IdentityMove ==
    DOMAIN auth' = Ids /\ DOMAIN token' = Ids /\ \A j \in Ids : IdentityStep(j)

\* The step that writes neither.
LEMMA NoIdentityMove ==
  ASSUME AccountsInv, UNCHANGED <<auth, token>>
  PROVE  IdentityMove
  BY DEF AccountsInv, IdentityMove, IdentityStep, IdentityRow

\* signUp, in time or late, and the identity that a social code creates.
LEMMA IdentityCreated ==
  ASSUME AccountsInv, NEW i \in Ids, NEW e \in Emails, NEW c \in BOOLEAN, ~auth[i].known,
         auth' = [auth EXCEPT ![i] = NewIdentity(e, c)],
         OpenSession(i, NewIdentity(e, c)) \/ UNCHANGED token
  PROVE  IdentityMove
  <1> PICK a : a = NewIdentity(e, c)
    OBVIOUS
  <1>1. a \in Identity /\ a.known /\ a.phone = Null /\ Session(a) \in Claims
    BY NewIdentityFacts, SessionClaims
  <1>2. WritesIdentity(i, a)
    BY DEF WritesIdentity
  <1>3. token[i] # Null => token[i] \in Claims
    BY DEF AccountsInv, IdentityRow
  <1>4. CASE OpenSession(i, NewIdentity(e, c))
    <2>1. WritesToken(i, Session(a))
      BY <1>4 DEF OpenSession, WritesToken
    <2> QED BY <1>1, <1>2, <2>1, IdentityWritten DEF IdentityMove
  <1>5. CASE UNCHANGED token
    BY <1>1, <1>2, <1>3, <1>5, IdentityWritten DEF IdentityMove
  <1> QED BY <1>4, <1>5

\* An identity is read, confirmed or given an address, and a session opened of
\* what it was or is.
LEMMA IdentityRewritten ==
  ASSUME AccountsInv, NEW i \in Ids, NEW a \in Identity, a.known, a.phone = auth[i].phone,
         WritesIdentity(i, a) \/ (UNCHANGED auth /\ a = auth[i]),
         \/ OpenSession(i, a) \/ OpenSession(i, auth[i]) \/ OpenSession(i, Unknown)
         \/ UNCHANGED token
  PROVE  IdentityMove
  <1>1. auth[i] \in Identity /\ Unknown \in Identity /\ (token[i] # Null => token[i] \in Claims)
    BY DEF AccountsInv, IdentityRow, Identity, Unknown
  <1>2. CASE UNCHANGED token
    BY <1>1, <1>2, IdentityWritten DEF IdentityMove
  <1>3. ASSUME NEW b \in Identity, OpenSession(i, b)
        PROVE  IdentityMove
    <2>1. WritesToken(i, Session(b)) /\ Session(b) \in Claims
      BY <1>3, SessionClaims DEF OpenSession, WritesToken
    <2> QED BY <2>1, IdentityWritten DEF IdentityMove
  <1> QED BY <1>1, <1>2, <1>3

\* Sign-up, sign-in, refresh and sign-out confirm no number.
LEMMA SessionsMove ==
  ASSUME AccountsInv, Sessions
  PROVE  IdentityMove /\ UNCHANGED <<user, proven, edited, missed, task>>
  <1>1. UNCHANGED <<user, proven, edited, missed, task>>
    BY DEF Sessions, SignUp, SignUpTimesOut, LateSignUp, SignInWithGoogle, SignIn, Refresh,
           SignInWithoutEmail, SignOut, VerifyPasswordResetOtp, RequestPasswordReset
  <1>2. \A i \in Ids : IdentityRow(i)
    BY DEF AccountsInv
  <1>3. ASSUME NEW i \in Ids, NEW e \in Emails, NEW c \in BOOLEAN, SignUp(i, e, c)
        PROVE  IdentityMove
    BY <1>3, IdentityCreated DEF SignUp
  <1>4. ASSUME NEW i \in Ids, NEW e \in Emails, LateSignUp(i, e)
        PROVE  IdentityMove
    <2>1. CASE ~auth[i].known /\ EmailFree(e)
      BY <1>4, <2>1, IdentityCreated DEF LateSignUp
    <2>2. CASE ~(~auth[i].known /\ EmailFree(e))
      BY <1>4, <2>2, NoIdentityMove DEF LateSignUp
    <2> QED BY <2>1, <2>2
  <1>5. ASSUME NEW i \in Ids, NEW e \in Emails, SignInWithGoogle(i, e)
        PROVE  IdentityMove
    <2>1. CASE ~auth[i].known
      BY <1>5, <2>1, IdentityCreated DEF SignInWithGoogle
    <2>2. CASE auth[i].known
      <3> PICK a : a = [auth[i] EXCEPT !.confirmed = TRUE]
        OBVIOUS
      <3>1. a \in Identity /\ a.known = auth[i].known /\ a.phone = auth[i].phone
        BY <1>2 DEF IdentityRow, Identity
      <3>2. WritesIdentity(i, a) /\ OpenSession(i, a)
        BY <1>5, <2>2 DEF SignInWithGoogle, WritesIdentity
      <3> QED BY <2>2, <3>1, <3>2, IdentityRewritten
    <2> QED BY <2>1, <2>2
  <1>6. ASSUME NEW i \in Ids, SignIn(i) \/ Refresh(i)
        PROVE  IdentityMove
    <2>1. auth[i] \in Identity /\ auth[i].known /\ UNCHANGED auth /\ OpenSession(i, auth[i])
      BY <1>2, <1>6 DEF SignIn, Refresh, IdentityRow
    <2> QED BY <2>1, IdentityRewritten
  <1>7. ASSUME NEW i \in Ids, SignInWithoutEmail(i)
        PROVE  IdentityMove
    <2> PICK a : a = [auth[i] EXCEPT !.known = TRUE]
      OBVIOUS
    <2>1. a \in Identity /\ a.known /\ a.phone = auth[i].phone
      BY <1>2 DEF IdentityRow, Identity
    <2>2. WritesIdentity(i, a) /\ OpenSession(i, Unknown)
      BY <1>7 DEF SignInWithoutEmail, WritesIdentity
    <2> QED BY <2>1, <2>2, IdentityRewritten
  <1>8. ASSUME NEW i \in Ids, SignOut(i)
        PROVE  IdentityMove
    <2>1. WritesToken(i, Null) /\ UNCHANGED auth
      BY <1>8 DEF SignOut, WritesToken
    <2>2. auth[i] \in Identity /\ (auth[i].email # Null => auth[i].known)
      BY <1>2 DEF IdentityRow
    <2> QED BY <2>1, <2>2, IdentityWritten DEF IdentityMove
  <1>9. ASSUME NEW i \in Ids, VerifyPasswordResetOtp(i)
        PROVE  IdentityMove
    <2> PICK a : a = [auth[i] EXCEPT !.confirmed = TRUE]
      OBVIOUS
    <2>1. auth[i].known
      BY <1>2, <1>9 DEF VerifyPasswordResetOtp, IdentityRow
    <2>2. a \in Identity /\ a.known /\ a.phone = auth[i].phone
      BY <1>2, <2>1 DEF IdentityRow, Identity
    <2>3. WritesIdentity(i, a) /\ OpenSession(i, auth[i])
      BY <1>9 DEF VerifyPasswordResetOtp, WritesIdentity
    <2> QED BY <2>2, <2>3, IdentityRewritten
  <1>10. ASSUME UNCHANGED <<auth, token>> PROVE IdentityMove
    BY <1>10, NoIdentityMove
  <1> QED BY <1>1, <1>3, <1>4, <1>5, <1>6, <1>7, <1>8, <1>9, <1>10
        DEF Sessions, SignUpTimesOut, RequestPasswordReset

\* attachEmail, and the attach of requestEmailOtp.
LEMMA EmailAttached ==
  ASSUME AccountsInv, NEW i \in Ids, NEW e \in Emails, token[i] # Null, UNCHANGED token,
         auth' = WithEmail(i, e) \/ UNCHANGED auth
  PROVE  IdentityMove
  <1> PICK a : a = [auth[i] EXCEPT !.email = e, !.confirmed = FALSE]
    OBVIOUS
  <1>1. auth[i] \in Identity /\ auth[i].known /\ DOMAIN auth = Ids
    BY DEF AccountsInv, IdentityRow
  <1>2. a \in Identity /\ a.known /\ a.phone = auth[i].phone
    BY <1>1 DEF Identity
  <1>3. CASE auth' = WithEmail(i, e)
    <2>1. WritesIdentity(i, a)
      BY <1>1, <1>3 DEF WithEmail, WritesIdentity
    <2> QED BY <1>2, <2>1, IdentityRewritten
  <1>4. CASE UNCHANGED auth
    BY <1>4, NoIdentityMove
  <1> QED BY <1>3, <1>4

\* A code confirms the address of an identity, and opens its session.
LEMMA EmailConfirmed ==
  ASSUME AccountsInv, NEW i \in Ids, auth[i].email # Null, OpenSession(i, auth[i]),
         auth' = [auth EXCEPT ![i].confirmed = TRUE]
  PROVE  IdentityMove
  <1> PICK a : a = [auth[i] EXCEPT !.confirmed = TRUE]
    OBVIOUS
  <1>1. auth[i] \in Identity /\ auth[i].known
    BY DEF AccountsInv, IdentityRow
  <1>2. a \in Identity /\ a.known /\ a.phone = auth[i].phone
    BY <1>1 DEF Identity
  <1>3. WritesIdentity(i, a)
    BY DEF WritesIdentity
  <1> QED BY <1>2, <1>3, IdentityRewritten

\* The e-mail codes confirm no number; the row, if there is one, is marked.
LEMMA EmailCodesKeep ==
  ASSUME Pool, AccountsInv, EmailCodes
  PROVE  AccountsInv'
  <1>1. UNCHANGED <<proven, edited, missed>>
    BY DEF EmailCodes, AttachEmail, RequestEmailOtp, RequestSocialEmailOtp, VerifySocialEmailOtp,
           VerifyEmailOtp, SendEmail, MirrorEmail, SendSocial, accounts
  <1>2. ASSUME NEW t \in Tasks,
               \/ \E i \in Ids, e \in Emails : RequestEmailOtp(t, i, e)
               \/ \E e \in Emails : RequestSocialEmailOtp(t, e) \/ VerifySocialEmailOtp(t, e)
               \/ \E i \in Ids : VerifyEmailOtp(t, i)
               \/ SendEmail(t) \/ MirrorEmail(t) \/ SendSocial(t)
        PROVE  /\ OnlyMoves(t) /\ SocialTask(task'[t])
               /\ task[t].pc \notin PhoneWrites /\ task'[t].pc \notin PhoneWrites
    <2>1. task[t].pc \notin PhoneWrites
      BY <1>2 DEF RequestEmailOtp, RequestSocialEmailOtp, VerifySocialEmailOtp, VerifyEmailOtp,
             SendEmail, MirrorEmail, SendSocial, At, PhoneWrites
    <2>2. Done(t) \/ \E pc \in {"sendEmail", "sendSocial", "mirrorEmail"} : \E arg : Goto(t, pc, arg)
      BY <1>2 DEF RequestEmailOtp, RequestSocialEmailOtp, VerifySocialEmailOtp, VerifyEmailOtp,
             SendEmail, MirrorEmail, SendSocial
    <2>3. OnlyMoves(t) /\ task'[t].pc \in {"idle", "sendEmail", "sendSocial", "mirrorEmail"}
      BY <2>2, DoneSlot, GotoSlot
    <2>4. ASSUME NEW e \in Emails, RequestSocialEmailOtp(t, e) PROVE SocialTask(task'[t])
      <3>1. task'[t].arg = [email |-> e]
        BY <2>4, GotoSlot DEF RequestSocialEmailOtp
      <3> QED BY <3>1 DEF SocialTask
    <2>5. Done(t) \/ (\E arg : Goto(t, "sendEmail", arg) \/ Goto(t, "mirrorEmail", arg))
             \/ \E e \in Emails : RequestSocialEmailOtp(t, e)
      BY <1>2 DEF RequestEmailOtp, VerifySocialEmailOtp, VerifyEmailOtp, SendEmail, MirrorEmail,
             SendSocial
    <2>6. SocialTask(task'[t])
      BY <2>4, <2>5, DoneSlot, GotoSlot DEF SocialTask
    <2> QED BY <2>1, <2>3, <2>6 DEF PhoneWrites
  <1>3. \A t \in Tasks : task'[t] # task[t] =>
          task[t].pc \notin PhoneWrites /\ task'[t].pc \notin PhoneWrites /\ SocialTask(task'[t])
    BY <1>2 DEF EmailCodes, OnlyMoves, AttachEmail
  <1>4. IdentityMove
    <2>1. ASSUME NEW i \in Ids, NEW e \in Emails, AttachEmail(i, e) \/ \E t \in Tasks : RequestEmailOtp(t, i, e)
          PROVE  IdentityMove
      BY <2>1, EmailAttached DEF AttachEmail, RequestEmailOtp
    <2>2. ASSUME NEW i \in Ids, NEW t \in Tasks, VerifyEmailOtp(t, i)
          PROVE  IdentityMove
      BY <2>2, EmailConfirmed DEF VerifyEmailOtp
    <2>3. ASSUME NEW e \in Emails, NEW t \in Tasks, VerifySocialEmailOtp(t, e)
          PROVE  IdentityMove
      <3>1. PICK i \in Ids : /\ auth[i].email = e /\ auth' = [auth EXCEPT ![i].confirmed = TRUE]
                             /\ OpenSession(i, auth[i])
        BY <2>3 DEF VerifySocialEmailOtp
      <3> QED BY <3>1, EmailConfirmed, EmailsAssumption
    <2>4. ASSUME NEW t \in Tasks, NEW e \in Emails, RequestSocialEmailOtp(t, e)
          PROVE  IdentityMove
      BY <2>4, NoIdentityMove DEF RequestSocialEmailOtp, accounts
    <2>5. ASSUME NEW t \in Tasks, SendEmail(t) \/ MirrorEmail(t)
          PROVE  IdentityMove
      BY <2>5, NoIdentityMove DEF SendEmail, MirrorEmail
    <2>6. ASSUME NEW t \in Tasks, SendSocial(t)
          PROVE  IdentityMove
      <3>1. CASE UNCHANGED auth
        BY <2>6, <3>1, NoIdentityMove DEF SendSocial
      <3>2. CASE ~UNCHANGED auth
        <4>1. PICK i \in Ids : ~auth[i].known /\ auth' = [auth EXCEPT ![i] = NewIdentity(task[t].arg.email, FALSE)]
          BY <2>6, <3>2 DEF SendSocial, Arg
        <4>2. UNCHANGED token /\ task[t].arg.email \in Emails
          BY <2>6 DEF SendSocial, At, AccountsInv, SocialTask
        <4> QED BY <4>1, <4>2, IdentityCreated
      <3> QED BY <3>1, <3>2
    <2> QED BY <2>1, <2>2, <2>3, <2>4, <2>5, <2>6 DEF EmailCodes
  <1>5. DOMAIN user' = Ids /\ \A i \in Ids : UserStep(i)
    <2>1. CASE UNCHANGED user
      BY <2>1, SameUser
    <2>2. ASSUME NEW t \in Tasks, MirrorEmail(t)
          PROVE  DOMAIN user' = Ids /\ \A i \in Ids : UserStep(i)
      <3>1. user' = [i \in Ids |-> IF i = task[t].arg.id /\ i \in Rows
                                   THEN [user[i] EXCEPT !.emailVerified = TRUE] ELSE user[i]]
        BY <2>2 DEF MirrorEmail, Arg
      <3>2. ASSUME NEW i \in Ids PROVE UserStep(i)
        <4>1. CASE user'[i] = user[i]
          BY <4>1 DEF UserStep, Rows, AccountsInv, UserProven
        <4>2. CASE i \in Rows /\ user'[i] = [user[i] EXCEPT !.emailVerified = TRUE]
          <5>1. user[i] \in UserRow
            BY <4>2 DEF AccountsInv, UserProven
          <5>2. /\ user'[i] \in UserRow /\ user'[i].phone = user[i].phone
                /\ user'[i].phoneVerified = user[i].phoneVerified
            BY <4>2, <5>1 DEF UserRow
          <5> QED BY <4>2, <5>2, UserAssumption DEF UserStep, Rows
        <4> QED BY <3>1, <4>1, <4>2
      <3> QED BY <3>1, <3>2
    <2> QED BY <2>1, <2>2 DEF EmailCodes, AttachEmail, RequestEmailOtp, RequestSocialEmailOtp,
               VerifySocialEmailOtp, VerifyEmailOtp, SendEmail, SendSocial, accounts
  <1> QED BY <1>1, <1>3, <1>4, <1>5, AccountsFollow DEF IdentityMove

\* A request that begins, goes on between two reads, or returns: it writes neither
\* record, and confirms no number in Supabase.
LEMMA PhoneGoesOn ==
  ASSUME AccountsInv, NEW t \in Tasks, OnlyMoves(t), task[t].pc # "mirrorPhone",
         task'[t].pc \in PhoneWrites \cup {"idle"}, PhoneTask(task[t])',
         UNCHANGED <<auth, token, user, edited>>, proven \subseteq proven',
         missed \subseteq missed'
  PROVE  AccountsInv'
  <1>1. Rows' = Rows
    BY DEF Rows
  <1>2. \A j : OnItsWay(j) => OnItsWay(j)'
    BY DEF OnItsWay, OnlyMoves
  <1>3. \A j : Keeps(j) /\ KeepsFresh(j)
    BY <1>1, <1>2 DEF Keeps, KeepsFresh
  <1>4. \A u \in Tasks \ {t} : PhoneTask(task[u])'
    BY <1>3, PhoneTaskStays DEF AccountsInv, OnlyMoves
  <1>5. ASSUME NEW j \in Ids PROVE IdentityRow(j)' /\ UserProven(j)' /\ UserMirrored(j)'
    <2>1. IdentityRow(j) /\ UserProven(j) /\ UserMirrored(j)
      BY DEF AccountsInv
    <2>2. IdentityRow(j)' /\ UserProven(j)'
      BY <1>1, <2>1 DEF IdentityRow, UserProven
    <2>3. UserMirrored(j)'
      BY <1>1, <1>2, <2>1 DEF UserMirrored, Mirrored
    <2> QED BY <2>2, <2>3
  <1>6. \A u \in Tasks : SocialTask(task[u])'
    BY DEF AccountsInv, SocialTask, OnlyMoves, PhoneWrites
  <1> QED BY <1>4, <1>5, <1>6 DEF AccountsInv

\* verifyPhoneOtp, updateProfile and createFromJwt begin.
LEMMA PhoneBeginnings ==
  ASSUME Pool, AccountsInv, NEW t \in Tasks,
         \/ \E i \in Ids, p \in Phones : VerifyPhoneOtp(t, i, p) \/ UpdateProfile(t, i, p)
         \/ \E i \in Ids, role \in UserRoles, typed \in Phones \cup {Null} :
               CreateFromJwt(t, i, role, typed)
  PROVE  AccountsInv'
  <1>1. ASSUME NEW i \in Ids, NEW p \in Phones, VerifyPhoneOtp(t, i, p)
        PROVE  AccountsInv'
    <2> PICK arg : arg = [id |-> i, phone |-> p]
      OBVIOUS
    <2>1. arg.id = i /\ arg.phone = p
      OBVIOUS
    <2>2. /\ task[t].pc = "idle" /\ Goto(t, "checkPhone", arg)
          /\ proven' = proven \cup {<<i, p>>} /\ UNCHANGED <<auth, token, user, edited, missed>>
          /\ token[i] # Null
      BY <1>1 DEF VerifyPhoneOtp, At
    <2>3. auth[i].known
      BY <2>2 DEF AccountsInv, IdentityRow
    <2>4. OnlyMoves(t) /\ task'[t].pc = "checkPhone" /\ task'[t].arg = arg
      BY <2>2, GotoSlot
    <2>5. PhoneTask(task[t])'
      BY <2>1, <2>2, <2>3, <2>4 DEF PhoneTask, ProvingTask, ProofSteps, RowSteps
    <2> QED BY <2>2, <2>4, <2>5, PhoneGoesOn DEF PhoneWrites
  <1>2. ASSUME NEW i \in Ids, NEW p \in Phones, UpdateProfile(t, i, p)
        PROVE  AccountsInv'
    <2> PICK arg : arg = [id |-> i, phone |-> p]
      OBVIOUS
    <2>1. arg.id = i /\ arg.phone = p
      OBVIOUS
    <2>2. /\ task[t].pc = "idle" /\ Goto(t, "editPhone", arg)
          /\ UNCHANGED <<auth, token, user, edited, proven, missed>>
          /\ token[i] # Null /\ i \in Rows
      BY <1>2 DEF UpdateProfile, At, accounts
    <2>3. auth[i].known /\ Rows' = Rows
      BY <2>2 DEF AccountsInv, IdentityRow, Rows
    <2>4. OnlyMoves(t) /\ task'[t].pc = "editPhone" /\ task'[t].arg = arg
      BY <2>2, GotoSlot
    <2>5. PhoneTask(task[t])'
      BY <2>1, <2>2, <2>3, <2>4 DEF PhoneTask, ProofSteps, RowSteps
    <2> QED BY <2>2, <2>4, <2>5, PhoneGoesOn DEF PhoneWrites
  <1>3. ASSUME NEW i \in Ids, NEW role \in UserRoles, NEW typed \in Phones \cup {Null},
               CreateFromJwt(t, i, role, typed)
        PROVE  AccountsInv'
    <2> PICK arg : arg = [id |-> i, role |-> role, typed |-> typed, claims |-> token[i]]
      OBVIOUS
    <2>1. arg.id = i /\ arg.role = role /\ arg.typed = typed /\ arg.claims = token[i]
      OBVIOUS
    <2>2. /\ task[t].pc = "idle" /\ Goto(t, "readIdentity", arg)
          /\ UNCHANGED <<auth, token, user, edited, proven, missed>>
          /\ token[i] # Null /\ i \notin Rows
      BY <1>3 DEF CreateFromJwt, At, accounts
    <2>3. auth[i].known /\ Rows' = Rows /\ token[i] \in Claims
      BY <2>2 DEF AccountsInv, IdentityRow, Rows
    <2>4. OnlyMoves(t) /\ task'[t].pc = "readIdentity" /\ task'[t].arg = arg
      BY <2>2, GotoSlot
    <2>5. PhoneTask(task[t])'
      BY <2>1, <2>2, <2>3, <2>4 DEF PhoneTask, ReadingTask, ProofSteps, RowSteps
    <2> QED BY <2>2, <2>4, <2>5, PhoneGoesOn DEF PhoneWrites
  <1> QED BY <1>1, <1>2, <1>3

\* verifyPhoneOtp asks whether the number is free.
LEMMA CheckPhoneKeeps ==
  ASSUME Pool, AccountsInv, NEW t \in Tasks, CheckPhone(t)
  PROVE  AccountsInv'
  <1>1. task[t].pc = "checkPhone" /\ UNCHANGED accounts
    BY DEF CheckPhone, At
  <1>2. Done(t) \/ Goto(t, "confirmPhone", task[t].arg)
    BY DEF CheckPhone, Arg
  <1>3. /\ OnlyMoves(t)
        /\ task'[t].pc = "idle" \/ (task'[t].pc = "confirmPhone" /\ task'[t].arg = task[t].arg)
    BY <1>2, DoneSlot, GotoSlot
  <1>4. PhoneTask(task[t])
    BY DEF AccountsInv
  <1>5. UNCHANGED <<auth, token, user, edited, proven, missed>>
    BY <1>1 DEF accounts
  <1>6. PhoneTask(task[t])'
    BY <1>1, <1>3, <1>4, <1>5
       DEF PhoneTask, ProvingTask, ProofSteps, RowSteps, PhoneWrites, Rows
  <1> QED BY <1>1, <1>3, <1>5, <1>6, PhoneGoesOn DEF PhoneWrites

\* createFromJwt reads the identity afresh: the row takes its number from there, or
\* the person is on record as missed.
LEMMA ReadIdentityKeeps ==
  ASSUME Pool, AccountsInv, NEW t \in Tasks, ReadIdentity(t)
  PROVE  AccountsInv'
  <1> PICK k, i : k = task[t].arg /\ i = k.id
    OBVIOUS
  <1>1. /\ task[t].pc = "readIdentity"
        /\ UNCHANGED <<auth, token, user, proven, edited>>
    BY DEF ReadIdentity, At
  <1>2. PICK a : /\ Create(t, RowOf(k, a))
                 /\ \/ a = auth[i] /\ UNCHANGED missed
                    \/ a = Unknown /\ missed' = missed \cup {i}
    BY DEF ReadIdentity, Arg
  <1> PICK email, row : email = PickEmail(k.claims.email, a) /\ row = RowOf(k, a)
    OBVIOUS
  <1> PICK arg : arg = [id |-> i, typed |-> k.typed, row |-> row]
    OBVIOUS
  <1>3. /\ i \in Ids /\ auth[i].known /\ k.typed \in Phones \cup {Null} /\ k.role \in UserRoles
        /\ k.claims \in Claims
    BY <1>1 DEF AccountsInv, PhoneTask, ReadingTask, PhoneWrites
  <1>4. a \in Identity /\ (a.phone # Null => <<i, a.phone>> \in proven)
    <2>1. CASE a = auth[i]
      BY <1>3, <2>1 DEF AccountsInv, IdentityRow
    <2>2. CASE a = Unknown
      BY <2>2 DEF Unknown, Identity
    <2> QED BY <1>2, <2>1, <2>2
  <1>5. email # Null => email \in Emails
    BY <1>3, <1>4 DEF PickEmail, Identity, Claims
  <1>6. /\ row.phoneVerified <=> a.phone # Null
        /\ a.phone # Null => row.phone = a.phone
        /\ row.email = email
    BY DEF RowOf
  <1>7. email # Null => row \in UserRow
    <2>1. (IF a.phone # Null THEN a.phone ELSE k.claims.phone) \in Phones \cup {Null}
      BY <1>3, <1>4 DEF Identity, Claims
    <2>2. a.confirmed \in BOOLEAN
      BY <1>4 DEF Identity
    <2> QED BY <1>3, <1>5, <2>1, <2>2 DEF UserRow, RowOf
  <1>8. arg.id = i /\ arg.typed = k.typed /\ arg.row = row /\ DOMAIN arg = {"id", "typed", "row"}
    OBVIOUS
  <1>9. /\ OnlyMoves(t)
        /\ task'[t].pc = "idle" \/ (email # Null /\ task'[t].pc = "checkEmail" /\ task'[t].arg = arg)
    BY <1>2, <1>6, DoneSlot, GotoSlot DEF Create, Arg
  <1>10. Rows' = Rows /\ missed \subseteq missed'
    BY <1>1, <1>2 DEF Rows
  <1>11. PhoneTask(task[t])'
    <2>1. CASE task'[t].pc = "idle"
      BY <2>1 DEF PhoneTask, PhoneWrites
    <2>2. CASE email # Null /\ task'[t].pc = "checkEmail" /\ task'[t].arg = arg
      <3>1. task'[t].arg.id = i /\ task'[t].arg.typed = k.typed /\ task'[t].arg.row = row
        BY <1>8, <2>2
      <3>2. row.phoneVerified => row.phone # Null /\ <<i, row.phone>> \in proven
        BY <1>4, <1>6
      <3>3. i \notin missed' /\ auth[i].phone # Null =>
              row.phoneVerified /\ row.phone = auth[i].phone
        BY <1>2, <1>6
      <3>4. CreatingTask(task[t])'
        BY <1>1, <1>3, <1>7, <1>8, <1>10, <2>2, <3>1, <3>2, <3>3 DEF CreatingTask
      <3> QED BY <1>1, <1>3, <1>8, <2>2, <3>4 DEF PhoneTask, ProofSteps, RowSteps
    <2> QED BY <1>9, <2>1, <2>2
  <1> QED BY <1>1, <1>9, <1>10, <1>11, PhoneGoesOn DEF PhoneWrites

\* The checks of createFromJwt; a typed number never passes for a verified one.
LEMMA CheckRowKeeps ==
  ASSUME Pool, AccountsInv, NEW t \in Tasks, CheckEmail(t) \/ CheckTyped(t)
  PROVE  AccountsInv'
  <1> PICK k : k = task[t].arg
    OBVIOUS
  <1>1. task[t].pc \in {"checkEmail", "checkTyped"} /\ UNCHANGED accounts
    BY DEF CheckEmail, CheckTyped, At
  <1>2. task[t].pc \in PhoneWrites /\ task[t].pc \in RowSteps
    BY <1>1 DEF PhoneWrites, RowSteps
  <1>3. k.id \in Ids /\ auth[k.id].known /\ CreatingTask(task[t])
    BY <1>2 DEF AccountsInv, PhoneTask
  <1>4. UNCHANGED <<auth, token, user, edited, proven, missed>> /\ Rows' = Rows
    BY <1>1 DEF accounts, Rows
  <1>5. CASE Done(t)
    <2>1. OnlyMoves(t) /\ task'[t].pc = "idle"
      BY <1>5, DoneSlot
    <2>2. PhoneTask(task[t])'
      BY <2>1 DEF PhoneTask, PhoneWrites
    <2> QED BY <1>1, <1>4, <2>1, <2>2, PhoneGoesOn DEF PhoneWrites
  <1>6. ASSUME NEW pc \in {"checkTyped", "insertUser"}, NEW arg, Goto(t, pc, arg),
               DOMAIN arg = {"id", "typed", "row"}, arg.id = k.id, arg.typed = k.typed,
               arg.row \in UserRow, arg.row.phoneVerified = k.row.phoneVerified,
               arg.row.phone = k.row.phone \/ k.row.phone = Null,
               pc = "checkTyped" => arg.row.phone = Null
        PROVE  AccountsInv'
    <2>1. OnlyMoves(t) /\ task'[t].pc = pc /\ task'[t].arg = arg
      BY <1>6, GotoSlot
    <2>2. OnItsWay(k.id) => OnItsWay(k.id)'
      BY <1>1, <2>1 DEF OnItsWay, OnlyMoves
    <2>3. CreatingTask(task[t])'
      BY <1>3, <1>4, <1>6, <2>1, <2>2 DEF CreatingTask
    <2>4. PhoneTask(task[t])'
      BY <1>3, <1>4, <1>6, <2>1, <2>3 DEF PhoneTask, ProofSteps
    <2> QED BY <1>1, <1>4, <1>6, <2>1, <2>4, PhoneGoesOn DEF PhoneWrites
  <1>7. CASE CheckEmail(t) /\ ~Done(t)
    <2>1. \/ k.row.phone = Null /\ Goto(t, "checkTyped", k)
          \/ Goto(t, "insertUser", k)
      BY <1>7 DEF CheckEmail, Arg
    <2>2. DOMAIN k = {"id", "typed", "row"} /\ k.row \in UserRow
      BY <1>3 DEF CreatingTask
    <2> QED BY <1>6, <2>1, <2>2
  <1>8. CASE CheckTyped(t)
    <2>1. /\ DOMAIN k = {"id", "typed", "row"} /\ k.row \in UserRow /\ k.row.phone = Null
          /\ k.typed \in Phones \cup {Null}
      BY <1>3, <1>8 DEF CreatingTask, CheckTyped, At
    <2>2. CASE Goto(t, "insertUser", k)
      BY <1>6, <2>1, <2>2
    <2>3. CASE Goto(t, "insertUser", [k EXCEPT !.row.phone = k.typed])
      <3> PICK row, arg : row = [k.row EXCEPT !.phone = k.typed] /\ arg = [k EXCEPT !.row.phone = k.typed]
        OBVIOUS
      <3>1. row \in UserRow /\ row.phoneVerified = k.row.phoneVerified
        BY <2>1 DEF UserRow
      <3>2. /\ DOMAIN arg = {"id", "typed", "row"} /\ arg.id = k.id /\ arg.typed = k.typed
            /\ arg.row = row
        BY <2>1
      <3> QED BY <1>6, <2>1, <2>3, <3>1, <3>2
    <2> QED BY <1>8, <2>2, <2>3 DEF CheckTyped, Arg
  <1> QED BY <1>5, <1>7, <1>8

\* A write of one person's records: nobody else's change, and a row that is being
\* created for the person stays fresh.
LEMMA PhoneWritten ==
  ASSUME AccountsInv, NEW t \in Tasks, task[t].pc \in PhoneWrites, NEW i, i = task[t].arg.id,
         OnlyMoves(t), task'[t].pc \in {"idle", "mirrorPhone"},
         task'[t].pc = "mirrorPhone" => task'[t].arg.id = i, PhoneTask(task[t])',
         UNCHANGED <<token, proven>>, DOMAIN auth' = Ids, DOMAIN user' = Ids,
         \A j \in Ids \ {i} :
             /\ auth'[j] = auth[j] /\ user'[j] = user[j]
             /\ (j \in edited' <=> j \in edited) /\ (j \in missed' <=> j \in missed),
         i \in Rows => i \in Rows', auth'[i].known,
         \A u \in Tasks \ {t} : task[u].pc \in RowSteps /\ task[u].arg.id = i => KeepsFresh(i),
         IdentityRow(i)', UserProven(i)', UserMirrored(i)'
  PROVE  AccountsInv'
  <1>1. \A j \in Ids \ {i} : j \in Rows' <=> j \in Rows
    BY DEF Rows
  <1>2. ASSUME NEW j \in Ids \ {i} PROVE OnItsWay(j) => OnItsWay(j)'
    BY DEF OnItsWay, OnlyMoves
  <1>3. \A j \in Ids : Keeps(j)
    BY <1>1 DEF Keeps
  <1>4. \A j \in Ids \ {i} : KeepsFresh(j)
    BY <1>1, <1>2 DEF KeepsFresh
  <1>5. ASSUME NEW u \in Tasks \ {t} PROVE PhoneTask(task[u])'
    <2>1. PhoneTask(task[u]) /\ task'[u] = task[u]
      BY DEF AccountsInv, OnlyMoves
    <2>2. task[u].pc \in PhoneWrites => task[u].arg.id \in Ids
      BY <2>1 DEF PhoneTask
    <2>3. task[u].pc \in PhoneWrites => Keeps(task[u].arg.id)
      BY <1>3, <2>2
    <2>4. task[u].pc \in RowSteps => KeepsFresh(task[u].arg.id)
      BY <1>4, <2>2 DEF PhoneWrites, RowSteps
    <2> QED BY <2>1, <2>3, <2>4, PhoneTaskStays
  <1>6. ASSUME NEW j \in Ids \ {i} PROVE IdentityRow(j)' /\ UserProven(j)' /\ UserMirrored(j)'
    <2>1. IdentityRow(j) /\ UserProven(j) /\ UserMirrored(j)
      BY DEF AccountsInv
    <2>2. IdentityRow(j)' /\ UserProven(j)'
      BY <1>1, <2>1 DEF IdentityRow, UserProven
    <2>3. UserMirrored(j)'
      BY <1>1, <1>2, <2>1 DEF UserMirrored, Mirrored
    <2> QED BY <2>2, <2>3
  <1>7. \A u \in Tasks : SocialTask(task[u])'
    BY DEF AccountsInv, SocialTask, OnlyMoves
  <1> QED BY <1>5, <1>6, <1>7 DEF AccountsInv

\* A request that returns leaves nothing to be known of it.
LEMMA IdleTask ==
  ASSUME NEW t \in Tasks, task'[t].pc = "idle"
  PROVE  PhoneTask(task[t])'
  BY DEF PhoneTask, PhoneWrites

\* Supabase records the number that was proven.
LEMMA ConfirmPhoneKeeps ==
  ASSUME Pool, AccountsInv, NEW t \in Tasks, ConfirmPhone(t)
  PROVE  AccountsInv'
  <1> PICK i, p : i = task[t].arg.id /\ p = task[t].arg.phone
    OBVIOUS
  <1>1. /\ task[t].pc = "confirmPhone" /\ task[t].pc \in PhoneWrites \ {"mirrorPhone"}
        /\ UNCHANGED <<token, late, codes, texts, user, proven, edited, missed>>
    BY DEF ConfirmPhone, At, PhoneWrites
  <1>2. i \in Ids /\ auth[i].known /\ p \in Phones /\ <<i, p>> \in proven
    BY <1>1 DEF AccountsInv, PhoneTask, ProvingTask, ProofSteps
  <1>3. CASE Done(t) /\ UNCHANGED auth
    <2>1. OnlyMoves(t) /\ task'[t].pc = "idle"
      BY <1>3, DoneSlot
    <2> QED BY <1>1, <1>3, <2>1, IdleTask, PhoneGoesOn
  <1>4. CASE auth' = [auth EXCEPT ![i].phone = p] /\ Goto(t, "mirrorPhone", task[t].arg)
    <2>1. OnlyMoves(t) /\ task'[t].pc = "mirrorPhone" /\ task'[t].arg = task[t].arg
      BY <1>4, GotoSlot
    <2>2. IdentityRow(i) /\ DOMAIN auth = Ids /\ DOMAIN user = Ids
      BY <1>2 DEF AccountsInv
    <2>3. /\ DOMAIN auth' = Ids /\ auth'[i] = [auth[i] EXCEPT !.phone = p]
          /\ \A j \in Ids \ {i} : auth'[j] = auth[j]
      BY <1>2, <1>4, <2>2
    <2>4. /\ auth'[i] \in Identity /\ auth'[i].phone = p /\ auth'[i].known = auth[i].known
          /\ auth'[i].email = auth[i].email
      BY <1>2, <2>2, <2>3 DEF IdentityRow, Identity
    <2>5. IdentityRow(i)'
      BY <1>1, <1>2, <2>2, <2>4 DEF IdentityRow
    <2>6. Rows' = Rows
      BY <1>1 DEF Rows
    <2>7. UserProven(i)'
      BY <1>1, <1>2, <2>6 DEF AccountsInv, UserProven
    <2>8. OnItsWay(i)'
      BY <2>1 DEF OnItsWay
    <2>9. UserMirrored(i)'
      BY <2>8 DEF UserMirrored
    <2>10. PhoneTask(task[t])'
      BY <1>1, <1>2, <2>1, <2>4 DEF PhoneTask, ProvingTask, RowSteps
    <2>11. KeepsFresh(i)
      BY <1>1, <2>8 DEF KeepsFresh
    <2> QED BY <1>1, <1>2, <2>1, <2>2, <2>3, <2>4, <2>5, <2>6, <2>7, <2>9, <2>10, <2>11, PhoneWritten
  <1> QED BY <1>3, <1>4 DEF ConfirmPhone, Arg

\* One person's row.
WritesUser(i, row) == user' = [user EXCEPT ![i] = row]

\* It inserts the row or updates it.
LEMMA UserWritten ==
  ASSUME AccountsInv, NEW i \in Ids, NEW row \in UserRow, WritesUser(i, row)
  PROVE  /\ DOMAIN user' = Ids /\ user'[i] = row /\ i \in Rows'
         /\ \A j \in Ids \ {i} : user'[j] = user[j]
  BY UserAssumption DEF AccountsInv, WritesUser, Rows

\* verifyPhoneOtp ends with the row, or the person is on record as missed.
LEMMA MirrorPhoneKeeps ==
  ASSUME Pool, AccountsInv, NEW t \in Tasks, MirrorPhone(t)
  PROVE  AccountsInv'
  <1> PICK i, p : i = task[t].arg.id /\ p = task[t].arg.phone
    OBVIOUS
  <1>1. /\ task[t].pc = "mirrorPhone" /\ task[t].pc \in PhoneWrites /\ Done(t)
        /\ UNCHANGED <<auth, token, proven>>
    BY DEF MirrorPhone, At, PhoneWrites
  <1>2. /\ i \in Ids /\ auth[i].known /\ p \in Phones /\ <<i, p>> \in proven
    BY <1>1 DEF AccountsInv, PhoneTask, ProvingTask, ProofSteps
  <1>3. OnlyMoves(t) /\ task'[t].pc = "idle"
    BY <1>1, DoneSlot
  <1>4. IdentityRow(i)' /\ DOMAIN auth' = Ids /\ DOMAIN user = Ids
    BY <1>1, <1>2 DEF AccountsInv, IdentityRow
  <1>5. UserProven(i) /\ UserMirrored(i)
    BY <1>2 DEF AccountsInv
  <1>6. CASE i \in Rows /\ user' = [user EXCEPT ![i].phone = p, ![i].phoneVerified = TRUE]
             /\ edited' = edited \ {i}
             /\ missed' = IF auth[i].phone # p THEN missed \cup {i} ELSE missed \ {i}
    <2> PICK row : row = [user[i] EXCEPT !.phone = p, !.phoneVerified = TRUE]
      OBVIOUS
    <2>1. user[i] \in UserRow
      BY <1>5, <1>6 DEF UserProven
    <2>2. row \in UserRow /\ row.phone = p /\ row.phoneVerified
      BY <1>2, <2>1 DEF UserRow
    <2>3. WritesUser(i, row)
      BY <1>2, <1>4, <1>6, <2>1 DEF WritesUser, UserRow
    <2>4. /\ DOMAIN user' = Ids /\ user'[i] = row /\ i \in Rows'
          /\ \A j \in Ids \ {i} : user'[j] = user[j]
      BY <1>2, <2>2, <2>3, UserWritten
    <2>5. UserProven(i)'
      BY <1>1, <1>2, <2>2, <2>4 DEF UserProven
    <2>6. UserMirrored(i)'
      BY <1>1, <1>2, <1>6, <2>2, <2>4 DEF UserMirrored, Mirrored
    <2>7. \A j \in Ids \ {i} : (j \in edited' <=> j \in edited) /\ (j \in missed' <=> j \in missed)
      BY <1>6
    <2>8. KeepsFresh(i)
      BY <2>4 DEF KeepsFresh
    <2> QED BY <2>8, <1>1, <1>2, <1>3, <1>4, <1>6, <2>4, <2>5, <2>6, <2>7, IdleTask, PhoneWritten
  <1>7. CASE /\ UNCHANGED user
             /\ \A j \in Ids \ {i} :
                   (j \in edited' <=> j \in edited) /\ (j \in missed' <=> j \in missed)
             /\ i \in Rows => UNCHANGED edited /\ i \in missed'
             /\ (\E u \in Tasks : task[u].pc \in RowSteps /\ task[u].arg.id = i) => i \in missed'
    <2>1. Rows' = Rows
      BY <1>7 DEF Rows
    <2>2. UserProven(i)'
      BY <1>1, <1>5, <1>7, <2>1 DEF UserProven
    <2>3. UserMirrored(i)'
      BY <1>7, <2>1 DEF UserMirrored
    <2>4. \A u \in Tasks \ {t} : task[u].pc \in RowSteps /\ task[u].arg.id = i => KeepsFresh(i)
      BY <1>7 DEF KeepsFresh
    <2>5. /\ DOMAIN user' = Ids
          /\ \A j \in Ids \ {i} :
                /\ auth'[j] = auth[j] /\ user'[j] = user[j]
                /\ (j \in edited' <=> j \in edited) /\ (j \in missed' <=> j \in missed)
          /\ auth'[i].known /\ (i \in Rows => i \in Rows')
      <3>1. DOMAIN user' = Ids /\ \A j \in Ids \ {i} : auth'[j] = auth[j] /\ user'[j] = user[j]
        BY <1>1, <1>4, <1>7
      <3>2. \A j \in Ids \ {i} : (j \in edited' <=> j \in edited) /\ (j \in missed' <=> j \in missed)
        BY <1>7
      <3>3. auth'[i].known /\ (i \in Rows => i \in Rows')
        BY <1>1, <1>2, <2>1
      <3> QED BY <3>1, <3>2, <3>3
    <2>6. PhoneTask(task[t])'
      BY <1>3, IdleTask
    <2> QED BY <1>1, <1>3, <1>4, <2>2, <2>3, <2>4, <2>5, <2>6, PhoneWritten
  <1>8. CASE i \in Rows /\ MirrorPhone(t) /\ ~(missed' = missed \cup {i} /\ UNCHANGED <<user, edited>>)
    BY <1>6, <1>8 DEF MirrorPhone, Misses, Arg
  <1>9. CASE i \notin Rows /\ MirrorPhone(t) /\ ~(missed' = missed \cup {i} /\ UNCHANGED <<user, edited>>)
    <2>1. /\ UNCHANGED user /\ edited' = edited \ {i}
          /\ missed' = IF \E u \in Tasks : task[u].pc \in RowSteps /\ task[u].arg.id = i
                       THEN missed \cup {i} ELSE missed \ {i}
      BY <1>9 DEF MirrorPhone, Misses, Arg
    <2> QED BY <1>7, <1>9, <2>1
  <1>10. CASE missed' = missed \cup {i} /\ UNCHANGED <<user, edited>>
    BY <1>7, <1>10
  <1> QED BY <1>8, <1>9, <1>10

\* updateProfile: the number stays marked as verified, and is on record as edited.
LEMMA EditPhoneKeeps ==
  ASSUME Pool, AccountsInv, NEW t \in Tasks, EditPhone(t)
  PROVE  AccountsInv'
  <1> PICK i, p : i = task[t].arg.id /\ p = task[t].arg.phone
    OBVIOUS
  <1>1. /\ task[t].pc = "editPhone" /\ task[t].pc \in PhoneWrites \ {"mirrorPhone"} /\ Done(t)
        /\ UNCHANGED <<auth, token, late, codes, texts, proven, missed>>
    BY DEF EditPhone, At, PhoneWrites
  <1>2. i \in Ids /\ auth[i].known /\ p \in Phones /\ i \in Rows
    BY <1>1 DEF AccountsInv, PhoneTask
  <1>3. OnlyMoves(t) /\ task'[t].pc = "idle"
    BY <1>1, DoneSlot
  <1>4. CASE UNCHANGED <<user, edited>>
    BY <1>1, <1>3, <1>4, IdleTask, PhoneGoesOn
  <1>5. CASE user' = [user EXCEPT ![i].phone = p] /\ edited' = edited \cup {i}
    <2> PICK row : row = [user[i] EXCEPT !.phone = p]
      OBVIOUS
    <2>1. /\ UserProven(i) /\ UserMirrored(i) /\ user[i] \in UserRow
          /\ IdentityRow(i)' /\ DOMAIN auth' = Ids
      BY <1>1, <1>2 DEF AccountsInv, UserProven, IdentityRow
    <2>2. row \in UserRow /\ row.phone = p /\ row.phoneVerified = user[i].phoneVerified
      BY <1>2, <2>1 DEF UserRow
    <2>3. WritesUser(i, row)
      BY <1>5 DEF WritesUser
    <2>4. /\ DOMAIN user' = Ids /\ user'[i] = row /\ i \in Rows'
          /\ \A j \in Ids \ {i} : user'[j] = user[j]
      BY <1>2, <2>2, <2>3, UserWritten
    <2>5. UserProven(i)'
      BY <1>5, <2>2, <2>4 DEF UserProven
    <2>6. (OnItsWay(i) => OnItsWay(i)') /\ KeepsFresh(i)
      BY <1>1, <1>3, <2>4 DEF OnItsWay, OnlyMoves, KeepsFresh
    <2>7. UserMirrored(i)'
      BY <1>1, <1>2, <1>5, <2>1, <2>2, <2>4, <2>6 DEF UserMirrored, Mirrored
    <2>8. \A j \in Ids \ {i} : j \in edited' <=> j \in edited
      BY <1>5
    <2> QED BY <1>1, <1>2, <1>3, <2>1, <2>4, <2>5, <2>6, <2>7, <2>8, IdleTask, PhoneWritten
  <1> QED BY <1>4, <1>5 DEF EditPhone, Arg

\* createFromJwt inserts the row, which has the number that Supabase has, or the
\* person is on record as missed.
LEMMA InsertUserKeeps ==
  ASSUME Pool, AccountsInv, NEW t \in Tasks, InsertUser(t)
  PROVE  AccountsInv'
  <1> PICK i, row : i = task[t].arg.id /\ row = task[t].arg.row
    OBVIOUS
  <1>1. /\ task[t].pc = "insertUser" /\ task[t].pc \in PhoneWrites \ {"mirrorPhone"} /\ Done(t)
        /\ UNCHANGED <<auth, token, late, codes, texts, proven, edited, missed>>
    BY DEF InsertUser, At, PhoneWrites
  <1>2. i \in Ids /\ auth[i].known /\ CreatingTask(task[t])
    BY <1>1 DEF AccountsInv, PhoneTask, RowSteps
  <1>3. OnlyMoves(t) /\ task'[t].pc = "idle"
    BY <1>1, DoneSlot
  <1>4. CASE UNCHANGED user
    BY <1>1, <1>3, <1>4, IdleTask, PhoneGoesOn
  <1>5. CASE i \notin Rows /\ user' = [user EXCEPT ![i] = row]
    <2>1. row \in UserRow /\ WritesUser(i, row)
      BY <1>2, <1>5 DEF CreatingTask, WritesUser
    <2>2. IdentityRow(i)' /\ DOMAIN auth' = Ids
      BY <1>1, <1>2 DEF AccountsInv, IdentityRow
    <2>3. /\ DOMAIN user' = Ids /\ user'[i] = row /\ i \in Rows'
          /\ \A j \in Ids \ {i} : user'[j] = user[j]
      BY <1>2, <2>1, UserWritten
    <2>4. UserProven(i)'
      BY <1>1, <1>2, <2>1, <2>3 DEF UserProven, CreatingTask
    <2>5. (OnItsWay(i) => OnItsWay(i)') /\ KeepsFresh(i)
      BY <1>1, <1>3, <2>3 DEF OnItsWay, OnlyMoves, KeepsFresh
    <2>6. UserMirrored(i)'
      BY <1>1, <1>2, <1>5, <2>3, <2>5 DEF UserMirrored, Mirrored, CreatingTask
    <2> QED BY <1>1, <1>2, <1>3, <2>2, <2>3, <2>4, <2>5, <2>6, IdleTask, PhoneWritten
  <1> QED BY <1>4, <1>5 DEF InsertUser, Arg

\* Every step of AuthService and UsersService keeps the two records in agreement.
LEMMA AccountsKept ==
  ASSUME Pool, AccountsInv, AccountsNext
  PROVE  AccountsInv'
  <1>1. CASE Sessions
    <2>1. IdentityMove /\ UNCHANGED <<user, proven, edited, missed, task>>
      BY <1>1, SessionsMove
    <2> QED BY <2>1, SameUser, AccountsFollow DEF IdentityMove
  <1>2. ASSUME NEW t \in Tasks,
               SendText(t) \/ \E i \in Ids, p \in Phones : RequestPhoneOtp(t, i, p)
        PROVE  AccountsInv'
    <2>1. UNCHANGED <<auth, token, user, proven, edited, missed>> /\ task[t].pc \notin PhoneWrites
      BY <1>2 DEF SendText, RequestPhoneOtp, accounts, At, PhoneWrites
    <2>2. Done(t) \/ \E arg : Goto(t, "sendText", arg)
      BY <1>2 DEF SendText, RequestPhoneOtp
    <2>3. OnlyMoves(t) /\ task'[t].pc \in {"idle", "sendText"}
      BY <2>2, DoneSlot, GotoSlot
    <2>4. \A u \in Tasks : task'[u] # task[u] =>
            task[u].pc \notin PhoneWrites /\ task'[u].pc \notin PhoneWrites /\ SocialTask(task'[u])
      BY <2>1, <2>3 DEF OnlyMoves, PhoneWrites, SocialTask
    <2> QED BY <2>1, <2>4, SameUser, NoIdentityMove, AccountsFollow DEF IdentityMove
  <1>3. CASE PhoneNumbers
    BY <1>2, <1>3, PhoneBeginnings, CheckPhoneKeeps, ConfirmPhoneKeeps, MirrorPhoneKeeps,
       EditPhoneKeeps DEF PhoneNumbers
  <1>4. CASE UserCreation
    BY <1>4, PhoneBeginnings, ReadIdentityKeeps, CheckRowKeeps, InsertUserKeeps DEF UserCreation
  <1> QED BY <1>1, <1>3, <1>4, EmailCodesKeep DEF AccountsNext

\* The steps of the other parts leave accounts alone.
LEMMA AccountsUndisturbed ==
  ASSUME AccountsInv, UNCHANGED accounts, NEW pcs, Moves(pcs), Apart(pcs, AccountsPcs)
  PROVE  AccountsInv'
  <1>1. UNCHANGED <<auth, token, user, proven, edited, missed>>
    BY DEF accounts
  <1>2. \A t \in Tasks : task'[t] # task[t] =>
          task[t].pc \notin PhoneWrites /\ task'[t].pc \notin PhoneWrites /\ SocialTask(task'[t])
    BY DEF Moves, Apart, AccountsPcs, PhoneWrites, SocialTask
  <1> QED BY <1>1, <1>2, SameUser, NoIdentityMove, AccountsFollow DEF IdentityMove

-----------------------------------------------------------------------------
(* The parts together *)

CommunityInv ==
    /\ Pool
    /\ AccountsInv
    /\ AddressesInv
    /\ PushInv
    /\ LegalInv
    /\ ThreadsInv
    /\ TripTypes /\ MapInv /\ CodesInv

\* No two parts name a step alike, but for the idle slot and the push.
LEMMA PartsApart ==
  /\ \A pcs \in {AddressesPcs, PushPcs, LegalPcs, MessagingPcs, TrackingPcs, ReportsPcs, {}} :
        Apart(pcs, AccountsPcs)
  /\ \A pcs \in {AccountsPcs, PushPcs, LegalPcs, MessagingPcs, TrackingPcs, ReportsPcs, {}} :
        Apart(pcs, AddressesPcs)
  /\ \A pcs \in {AccountsPcs, AddressesPcs, LegalPcs, MessagingPcs, TrackingPcs, ReportsPcs, {}} :
        Apart(pcs, PushPcs)
  /\ \A pcs \in {AccountsPcs, AddressesPcs, PushPcs, MessagingPcs, TrackingPcs, ReportsPcs, {}} :
        Apart(pcs, LegalPcs)
  /\ \A pcs \in {AccountsPcs, AddressesPcs, PushPcs, LegalPcs, TrackingPcs, ReportsPcs, {}} :
        Apart(pcs, MessagingPcs)
  /\ \A pcs \in {AccountsPcs, AddressesPcs, PushPcs, LegalPcs, MessagingPcs, ReportsPcs, {}} :
        Apart(pcs, TrackingPcs)
  BY DEF Apart, AccountsPcs, AddressesPcs, PushPcs, LegalPcs, MessagingPcs, TrackingPcs, ReportsPcs,
         PhoneWrites, AddressWrites, WritesById

\* The invariants of all parts hold at first.
LEMMA CommunityInit ==
  ASSUME Init
  PROVE  CommunityInv /\ CountsInv
  <1>1. Pool /\ \A t \in Tasks : task[t].pc = "idle"
    BY DEF Init, RequestsInit, Idle, Pool
  <1>2. AccountsInv
    <2>1. /\ auth = [i \in Ids |-> Unknown] /\ token = [i \in Ids |-> Null]
          /\ user = [i \in Ids |-> Null]
      BY DEF Init, AccountsInit
    <2>2. Rows = {}
      BY <2>1 DEF Rows
    <2>3. \A t \in Tasks : PhoneTask(task[t]) /\ SocialTask(task[t])
      BY <1>1 DEF PhoneTask, SocialTask, PhoneWrites
    <2>4. \A i \in Ids : UserProven(i) /\ UserMirrored(i)
      BY <2>2 DEF UserProven, UserMirrored
    <2>5. \A i \in Ids : IdentityRow(i)
      BY <2>1 DEF IdentityRow, Unknown, Identity
    <2> QED BY <2>1, <2>3, <2>4, <2>5 DEF AccountsInv
  <1>3. AddressesInv
    <2>1. address = [a \in AddressIds |-> Null] /\ loose = FALSE
      BY DEF Init, AddressesInit
    <2>2. Inserted = {}
      BY <2>1 DEF Inserted
    <2>3. \A t \in Tasks : AddressTask(task[t])
      BY <1>1 DEF AddressTask, AddressWrites, WritesById
    <2>4. WritesAlone /\ PointOnItsWay
      BY <1>1 DEF WritesAlone, PointOnItsWay, WritesById
    <2> QED BY <2>1, <2>2, <2>3, <2>4 DEF AddressesInv, AddressTypes, OneRow, PointMirrored
  <1>4. PushInv
    BY <1>1 DEF Init, PushInit, PushInv, PushTask, DeviceFollowsLogin
  <1>5. LegalInv
    <2>1. document = [d \in Documents |-> Null] /\ accepted = {}
      BY DEF Init, LegalInit
    <2>2. Existing = {} /\ ActiveDocuments = {}
      BY <2>1 DEF Existing, ActiveDocuments
    <2> QED BY <1>1, <2>1, <2>2 DEF LegalInv, LegalTask, TermsInForce
  <1>6. ThreadsInv /\ CountsInv
    <2>1. /\ driver = Null /\ conversation = [c \in Conversations |-> Null]
          /\ message = [m \in MessageIds |-> Null]
          /\ seen = [c \in Conversations |-> [u \in Users |-> {}]]
      BY DEF Init, MessagingInit
    <2>2. Open = {}
      BY <2>1 DEF Open
    <2>3. ThreadsInv
      BY <1>1, <2>1, <2>2 DEF ThreadsInv, ThreadTypes, ThreadTask, CreatesOnce, OneThreadUnlessRivals
    <2>4. CountsInv
      BY <2>1, <2>2 DEF CountsInv, Counted
    <2> QED BY <2>3, <2>4
  <1>7. TripTypes /\ MapInv /\ CodesInv
    <2>1. /\ rooms = [u \in Users |-> {}] /\ stream = [u \in Users |-> [j \in Trips |-> Null]]
          /\ shown = [j \in Trips |-> [pickup |-> {}, dropoff |-> {}]] /\ minted = 0
      BY DEF Init, TrackingInit
    <2>2. DOMAIN trip = Trips /\ \A j \in Trips : DOMAIN trip[j] = TripColumns
      BY DEF Init, TrackingInit, Row, TripColumns
    <2>3. TripTypes
      BY <1>1, <2>1, <2>2 DEF TripTypes, TripTask
    <2>4. MapInv
      BY <1>1, <2>1 DEF MapInv, MapTypes, FixTask, Fixing, Received
    <2>5. CodesInv
      BY <1>1, <2>1 DEF CodesInv, ShownTypes, CodeRow, CodeTask, MintsOnce
    <2> QED BY <2>3, <2>4, <2>5
  <1> QED BY <1>1, <1>2, <1>3, <1>4, <1>5, <1>6, <1>7 DEF CommunityInv

\* Every step keeps them: a part keeps its own, and leaves the others alone.
LEMMA CommunityKept ==
  ASSUME CommunityInv, [Next]_vars
  PROVE  CommunityInv'
  <1> USE DEF CommunityInv
  <1>1. CASE Accounting
    <2>1. /\ Pool' /\ Moves(AccountsPcs) /\ PushesAnew
          /\ AccountsInv'
          /\ UNCHANGED <<addresses, push, legal, messaging, tracking, reports>>
      BY <1>1, AccountsMoves, AccountsKept DEF Accounting
    <2> QED BY <2>1, PartsApart, AddressesUndisturbed, PushUndisturbed, LegalUndisturbed,
               ThreadsUndisturbed, MapUndisturbed, CodesUndisturbed
  <1>2. CASE Locating
    <2>1. /\ Pool' /\ Moves(AddressesPcs) /\ PushesAnew
          /\ AddressesInv'
          /\ UNCHANGED <<accounts, push, legal, messaging, tracking, reports>>
      BY <1>2, AddressesMoves, AddressesKept DEF Locating
    <2> QED BY <2>1, PartsApart, AccountsUndisturbed, PushUndisturbed, LegalUndisturbed,
               ThreadsUndisturbed, MapUndisturbed, CodesUndisturbed
  <1>3. CASE Pushing
    <2>1. /\ Pool' /\ Moves(PushPcs)
          /\ PushInv'
          /\ UNCHANGED <<accounts, addresses, legal, messaging, tracking, reports>>
      BY <1>3, PushMoves, PushKept DEF Pushing
    <2> QED BY <2>1, PartsApart, AccountsUndisturbed, AddressesUndisturbed, LegalUndisturbed,
               ThreadsUndisturbed, MapUndisturbed, CodesUndisturbed
  <1>4. CASE Legislating
    <2>1. /\ Pool' /\ Moves(LegalPcs) /\ PushesAnew /\ UNCHANGED push
          /\ LegalInv'
          /\ UNCHANGED <<accounts, addresses, messaging, tracking, reports>>
      BY <1>4, LegalMoves, LegalKept DEF Legislating
    <2> QED BY <2>1, PartsApart, AccountsUndisturbed, AddressesUndisturbed, PushUndisturbed,
               ThreadsUndisturbed, MapUndisturbed, CodesUndisturbed
  <1>5. CASE Chatting
    <2>1. /\ Pool' /\ Moves(MessagingPcs) /\ PushesAnew /\ UNCHANGED push
          /\ ThreadsInv'
          /\ UNCHANGED <<accounts, addresses, legal, tracking, reports>>
      BY <1>5, MessagingMoves, ThreadsKept DEF Chatting
    <2> QED BY <2>1, PartsApart, AccountsUndisturbed, AddressesUndisturbed, PushUndisturbed,
               LegalUndisturbed, MapUndisturbed, CodesUndisturbed
  <1>6. CASE Following
    <2>1. /\ Pool' /\ Moves(TrackingPcs) /\ PushesAnew /\ UNCHANGED push
          /\ TripTypes' /\ MapInv' /\ CodesInv'
          /\ UNCHANGED <<accounts, addresses, legal, messaging, reports>>
      BY <1>6, TrackingMoves, TripsKept, MapKept, CodesKept DEF Following
    <2> QED BY <2>1, PartsApart, AccountsUndisturbed, AddressesUndisturbed, PushUndisturbed,
               LegalUndisturbed, ThreadsUndisturbed
  <1>7. CASE Moderating
    <2>1. /\ Pool' /\ Moves(ReportsPcs) /\ PushesAnew
          /\ UNCHANGED <<accounts, addresses, push, legal, messaging, tracking>>
      BY <1>7, ReportsMoves DEF Moderating
    <2> QED BY <2>1, PartsApart, AccountsUndisturbed, AddressesUndisturbed, PushUndisturbed,
               LegalUndisturbed, ThreadsUndisturbed, MapUndisturbed, CodesUndisturbed
  <1>8. CASE UNCHANGED vars
    <2>1. UNCHANGED <<task, accounts, addresses, push, legal, messaging, tracking, reports>>
      BY <1>8 DEF vars
    <2>2. Pool' /\ Moves({}) /\ PushesAnew
      BY <2>1, NoMove
    <2> QED BY <2>1, <2>2, PartsApart, AccountsUndisturbed, AddressesUndisturbed, PushUndisturbed,
               LegalUndisturbed, ThreadsUndisturbed, MapUndisturbed, CodesUndisturbed
  <1> QED BY <1>1, <1>2, <1>3, <1>4, <1>5, <1>6, <1>7, <1>8 DEF Next

\* Every step keeps the unread counters.
LEMMA CommunityCounts ==
  ASSUME CommunityInv, CountsInv, IsFiniteSet(MessageIds), [Next]_vars
  PROVE  CountsInv'
  <1>1. CASE Chatting
    BY <1>1, CountsKept DEF CommunityInv, Chatting
  <1>2. CASE UNCHANGED messaging
    BY <1>2, CountsUndisturbed
  <1> QED BY <1>1, <1>2 DEF Next, Accounting, Locating, Pushing, Legislating, Following, Moderating,
             vars

-----------------------------------------------------------------------------
(* Theorems *)

\* Whatever requests of whatever parts interleave, the invariants of accounts,
\* addresses, pushes, terms, threads, trips and codes hold.
THEOREM CommunityInvariant == Spec => []CommunityInv
  <1>1. Init => CommunityInv
    BY CommunityInit
  <1>2. CommunityInv /\ [Next]_vars => CommunityInv'
    BY CommunityKept
  <1> QED BY <1>1, <1>2, PTL DEF Spec

\* A number that the User row shows as verified is one whose owner entered the
\* code sent to it (verifyPhoneOtp, createFromJwt), unless edited since.
THEOREM VerifiedPhones == Spec => []VerifiedPhoneWasProven
  <1>1. CommunityInv => VerifiedPhoneWasProven
    BY DEF CommunityInv, AccountsInv, UserProven, VerifiedPhoneWasProven, Rows
  <1> QED BY <1>1, CommunityInvariant, PTL

\* Whichever of verifyPhoneOtp and createFromJwt ran first, and whoever else's
\* requests ran between their statements, the row carries the number that Supabase
\* confirmed once no mirroring is on its way, but for a person whose row has
\* missed it: the lookup or the mirroring failed, or came at the wrong moment.
THEOREM ConfirmedPhones == Spec => []ConfirmedPhoneMirrored
  <1>1. ASSUME AccountsInv, NEW i \in Rows
        PROVE  \/ i \in missed
               \/ \E t \in Tasks : task[t].pc = "mirrorPhone" /\ Arg(t).id = i
               \/ auth[i].phone # Null =>
                     /\ user[i].phoneVerified
                     /\ i \notin edited => user[i].phone = auth[i].phone
    <2>1. UserMirrored(i)
      BY <1>1 DEF AccountsInv, Rows
    <2>2. OnItsWay(i) => \E t \in Tasks : task[t].pc = "mirrorPhone" /\ Arg(t).id = i
      BY DEF OnItsWay, Arg
    <2> QED BY <2>1, <2>2 DEF UserMirrored, Mirrored
  <1>2. CommunityInv => ConfirmedPhoneMirrored
    BY <1>1 DEF CommunityInv, ConfirmedPhoneMirrored
  <1> QED BY <1>2, CommunityInvariant, PTL

\* The point of a seller's pickup address is where the feed looks for the seller,
\* through overlapping and failing upserts (upsertAddress, writePointIfPresent).
THEOREM PickupPoints == Spec => []PickupMirrored
  <1>1. AddressesInv => PickupMirrored
    <2> SUFFICES ASSUME AddressesInv, Strict, \A t \in Tasks : task[t].pc \notin AddressWrites,
                        NEW a \in LiveAddresses, address[a].point # Null
                 PROVE  location = address[a].point
      BY DEF PickupMirrored, Strict
    <2>1. \A t \in Tasks : task[t].pc # "mirrorPoint"
      BY DEF AddressWrites, WritesById
    <2> QED BY <2>1 DEF AddressesInv, PointMirrored, LiveAddresses
  <1> QED BY <1>1, CommunityInvariant, PTL DEF CommunityInv

\* A device with the app receives the pushes of the user who last logged in on it,
\* though a send may have read the row of an earlier login, unless Firebase has
\* rejected a payload sent to its row (register, remove, the pruning of invalid
\* tokens).
THEOREM DevicesFollow == Spec => []DeviceFollowsLogin
  <1>1. CommunityInv => DeviceFollowsLogin
    BY DEF CommunityInv, PushInv
  <1> QED BY <1>1, CommunityInvariant, PTL

\* Once terms were published some are in force, and whatever version a purchase or
\* a publication put a user on record for was in force at some time (publish,
\* recordTermsAcceptance); the wizard's recordCharter stores what it is sent.
THEOREM TermsHold == Spec => []TermsInForce
  <1>1. CommunityInv => TermsInForce
    BY DEF CommunityInv, LegalInv
  <1> QED BY <1>1, CommunityInvariant, PTL

\* An order has one thread of a type between two parties, unless two requests
\* that found none were creating it at once (findOrCreate).
THEOREM OneThread == Spec => []OneThreadUnlessRivals
  <1>1. CommunityInv => OneThreadUnlessRivals
    BY DEF CommunityInv, ThreadsInv
  <1> QED BY <1>1, CommunityInvariant, PTL

\* With finitely many messages, unreadCount equals the messages of the others that
\* a party has not seen (send, markRead).
THEOREM UnreadCounts ==
  ASSUME IsFiniteSet(MessageIds)
  PROVE  Spec => []UnreadCountsUnseen
  <1>1. Init => CommunityInv /\ CountsInv
    BY CommunityInit
  <1>2. CommunityInv /\ CountsInv /\ [Next]_vars => CommunityInv' /\ CountsInv'
    BY CommunityKept, CommunityCounts
  <1>3. CountsInv => UnreadCountsUnseen
    BY DEF CountsInv, Counted, Unseen, UnreadCountsUnseen
  <1> QED BY <1>1, <1>2, <1>3, PTL DEF Spec

\* A buyer's map shows the driver of the buyer's own order only, and no position
\* taken after the trip ended, unless an arrival or a pickup that was checked
\* before the end is written after it (recordLocation, TrackingGateway).
THEOREM BuyersFollow == Spec => []BuyerFollowsOwnTrip
  <1>1. MapInv => BuyerFollowsOwnTrip
    BY DEF MapInv, Received, BuyerFollowsOwnTrip, IsParty
  <1> QED BY <1>1, CommunityInvariant, PTL DEF CommunityInv

\* A QR code on display is the token of its trip, unless two requests were minting
\* it at once or an arrival or a pickup was written over a later status
\* (getSellerPickupQr, getBuyerDeliveryQr).
THEOREM CodesOpen == Spec => []ShownCodeOpens
  <1>1. CodesInv => ShownCodeOpens
    BY DEF CodesInv, CodeRow, ShownCodeOpens
  <1> QED BY <1>1, CommunityInvariant, PTL DEF CommunityInv
=============================================================================
