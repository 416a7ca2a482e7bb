-------------------------------- MODULE Push --------------------------------
(***************************************************************************)
(* Push notifications: DeviceTokensService and NotificationsService.       *)
(* A device's token names one row, which follows whoever signs in on the   *)
(* device.  A send reads the rows of its recipients, pushes to them one by *)
(* one through Firebase, and removes those Firebase calls invalid: by then *)
(* a device may have changed hands.                                        *)
(*                                                                         *)
(* Firebase is external.  It calls a token invalid whose app is gone, which *)
(* is for good, and answers invalid-argument, which counts as the same, to *)
(* a payload it rejects: only the data of an administrator's broadcast is  *)
(* unbounded.  What else a push says is left out.                          *)
(***************************************************************************)
EXTENDS Integers, Requests

CONSTANTS
    Users,
    Devices    \* FCM tokens

VARIABLES
    deviceToken, \* the DeviceToken rows: whose each token is
    inserted,    \* how many rows each token has had: with it, the id of a row
    gone,        \* tokens whose app was uninstalled
    login,       \* history: who last completed a registration on the device
    struck       \* history: tokens whose row went because of a payload

push == <<deviceToken, inserted, gone, login, struck>>

PushInit ==
    /\ deviceToken = [d \in Devices |-> Null]
    /\ inserted = [d \in Devices |-> 0]
    /\ gone = {}
    /\ login = [d \in Devices |-> Null]
    /\ struck = {}

\* The id of a token's row: a row inserted anew has another.
RowId(d) == <<d, inserted[d]>>

\* register: resolves the caller, then upserts on the token.
Register(t, u, d) ==
    /\ At(t, "idle") /\ d \notin gone
    /\ Goto(t, "register", [user |-> u, device |-> d])
    /\ UNCHANGED push
UpsertToken(t) ==
    /\ At(t, "register")
    /\ LET d == Arg(t).device IN
       /\ deviceToken' = [deviceToken EXCEPT ![d] = Arg(t).user]
       /\ inserted' = IF deviceToken[d] = Null THEN [inserted EXCEPT ![d] = @ + 1] ELSE inserted
       /\ login' = [login EXCEPT ![d] = Arg(t).user]
       /\ struck' = struck \ {d}
    /\ Done(t)
    /\ UNCHANGED gone

\* remove: on logout.
Remove(t, u, d) ==
    /\ At(t, "idle")
    /\ Goto(t, "remove", [user |-> u, device |-> d])
    /\ UNCHANGED push

\* Mutant: the delete is not scoped to the caller.
DeleteTokenAnyOwner(t) ==
    /\ At(t, "remove")
    /\ deviceToken' = [deviceToken EXCEPT ![Arg(t).device] = Null]
    /\ login' = [login EXCEPT ![Arg(t).device] = IF @ = Arg(t).user THEN Null ELSE @]
    /\ Done(t)
    /\ UNCHANGED <<inserted, gone, struck>>
DeleteToken(t) ==
    /\ At(t, "remove")
    /\ deviceToken' = [deviceToken EXCEPT ![Arg(t).device] = IF @ = Arg(t).user THEN Null ELSE @]
    /\ login' = [login EXCEPT ![Arg(t).device] = IF @ = Arg(t).user THEN Null ELSE @]
    /\ Done(t)
    /\ UNCHANGED <<inserted, gone, struck>>

\* The app is removed from a device.
Uninstall(d) ==
    /\ gone' = gone \cup {d}
    /\ UNCHANGED <<deviceToken, inserted, login, struck, task>>

\* tokensForUsers and listTokensForUser.
TokensForUsers(users) == {d \in Devices : deviceToken[d] \in users}

\* sendToUsers and dispatch: the rows of the recipients; none, and it ends.
\* notifyOrderStatus, notifyDeliveryEvent and notifyDeliveryAvailable differ
\* in whom they address.  A handler that pushes at its end comes here.
SendPayload(t, users, rejected) ==
    IF TokensForUsers(users) = {} THEN Done(t)
    ELSE Goto(t, "push", [left |-> {RowId(d) : d \in TokensForUsers(users)}, invalid |-> {},
                          rejected |-> rejected])
SendToUsers(t, users) == SendPayload(t, users, FALSE)

Notify(t, users) ==
    /\ At(t, "idle") /\ TokensForUsers(users) # {}
    /\ SendToUsers(t, users)
    /\ UNCHANGED push

\* AdminNotificationsService: the audience, whichever selector names it, is
\* read before the tokens are.  The payload may be one that Firebase rejects.
AdminSend(t, users, rejected) ==
    /\ At(t, "idle")
    /\ Goto(t, "broadcast", [users |-> users, rejected |-> rejected])
    /\ UNCHANGED push
Broadcast(t) ==
    /\ At(t, "broadcast")
    /\ SendPayload(t, Arg(t).users, Arg(t).rejected)
    /\ UNCHANGED push

\* sendToTokenWithResult: one push, which may fail in passing, or in a way that
\* counts as an invalid token.
InvalidToken(d, rejected) == d \in gone \/ rejected
PushOne(t) ==
    /\ At(t, "push")
    /\ \E row \in Arg(t).left :
          \/ Goto(t, "push", [Arg(t) EXCEPT !.left = @ \ {row}])
          \/ /\ InvalidToken(row[1], Arg(t).rejected)
             /\ Goto(t, "push", [Arg(t) EXCEPT !.left = @ \ {row}, !.invalid = @ \cup {row}])
    /\ UNCHANGED push

\* deleteByIds: rows keep their id when they are re-pointed, so a row goes
\* whoever it belongs to by now.
Pruned(t) == {d \in Devices : deviceToken[d] # Null /\ RowId(d) \in Arg(t).invalid}
Prune(t) ==
    /\ At(t, "push") /\ Arg(t).left = {}
    /\ deviceToken' = [d \in Devices |-> IF d \in Pruned(t) THEN Null ELSE deviceToken[d]]
    /\ struck' = IF Arg(t).rejected THEN struck \cup Pruned(t) ELSE struck
    /\ Done(t)
    /\ UNCHANGED <<inserted, gone, login>>

Delivering == \E t \in Tasks : PushOne(t) \/ Prune(t)

PushNext ==
    \/ Delivering
    \/ \E d \in Devices : Uninstall(d)
    \/ \E t \in Tasks :
          \/ \E u \in Users, d \in Devices : Register(t, u, d) \/ Remove(t, u, d)
          \/ \E users \in SUBSET Users : 
                Notify(t, users) \/ \E rejected \in BOOLEAN : AdminSend(t, users, rejected)
          \/ UpsertToken(t) \/ DeleteToken(t) \/ Broadcast(t)

-----------------------------------------------------------------------------
(* Properties                                                              *)

\* register "re-points it at this user", remove is "scoped to the caller":
\* while the app is on a device, its pushes go to whoever registered there
\* last, although two registrations of it may overlap, the previous owner's
\* logout may arrive after the new owner's login and a send may be removing
\* invalid rows meanwhile.  Or they go to nobody, until the next registration,
\* when a broadcast whose payload Firebase rejects has removed the row.
DeviceFollowsLogin ==
    \A d \in Devices \ gone : login[d] # Null =>
        \/ deviceToken[d] = login[d]
        \/ d \in struck /\ deviceToken[d] = Null

\* deleteByIds "removes dead tokens": a device on which somebody is logged in
\* and whose app is there keeps its row.
OnlyDeadPruned == \A d \in Devices \ gone : login[d] # Null => deviceToken[d] # Null
=============================================================================
